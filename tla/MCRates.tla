------------------------------ MODULE MCRates ------------------------------
(***************************************************************************)
(* An instance of Rates for TLC: a SingleRate, or a counter between 1 and  *)
(* 4 whose two intervals differ (MCRatesRun.cfg).                          *)
(***************************************************************************)
EXTENDS Rates
=============================================================================
