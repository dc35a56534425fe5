--------------------------- MODULE MCPodAssembly ---------------------------
(***************************************************************************)
(* Instances of PodAssembly for TLC: each kind of object in each role,     *)
(* with no output file, with one or two for it or for another object.      *)
(***************************************************************************)
EXTENDS PodAssembly

MCOutputFiles ==
    {<<>>, <<"">>, <<"server">>, <<"", "server">>, <<"workload", "">>, <<"helper">>}
=============================================================================
