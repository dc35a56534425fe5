---------------------------- MODULE MCPodRuntime ----------------------------
(***************************************************************************)
(* Pods that wait for each other, pods that report a result, and calls of  *)
(* the controller's doOutput, in scenarios of their own.                   *)
(***************************************************************************)
EXTENDS PodRuntime

Pod(workload, count, group, n) ==
    [workload |-> workload, count |-> count, inits |-> n, sync |-> TRUE, group |-> group,
     mains |-> {"main"}, files |-> FALSE]

Reporting(mains) ==
    [workload |-> "w", count |-> 1, inits |-> 0, sync |-> FALSE, group |-> "",
     mains |-> mains, files |-> TRUE]

\* A function of no pods or calls.
None == [x \in {} |-> x]

Only(pods) == [pods |-> pods, outputs |-> <<>>, calls |-> None]

MCScenarios ==
    {\* two workloads in a group
     Only([p1 |-> Pod("w1", 2, "g", 1), p2 |-> Pod("w1", 2, "g", 1), p3 |-> Pod("w2", 1, "g", 1)]),
     \* three instances where two are expected
     Only([p1 |-> Pod("w1", 2, "", 2), p2 |-> Pod("w1", 2, "", 2), p3 |-> Pod("w1", 2, "", 2)]),
     \* a result from a pod with one container, and with two
     Only([p1 |-> Reporting({"main"})]), Only([p1 |-> Reporting({"main", "sidecar"})]),
     \* two outputs of one name, one without an address
     [pods |-> None,
      outputs |-> <<[name |-> "m", url |-> "a"], [name |-> "x", url |-> "b"],
                    [name |-> "m", url |-> ""], [name |-> "m", url |-> "c"]>>,
      calls |-> [metric |-> [name |-> "m", strings |-> <<"type", "createObj", "name", "o", "odd">>],
                 output |-> [name |-> "x", strings |-> <<>>]]]}
=============================================================================
