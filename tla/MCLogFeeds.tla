----------------------------- MODULE MCLogFeeds -----------------------------
(***************************************************************************)
(* LogFeeds for TLC: a few lines, two rotations and a truncation; a few    *)
(* records on pages of two.                                                *)
(***************************************************************************)
EXTENDS LogFeeds
=============================================================================
