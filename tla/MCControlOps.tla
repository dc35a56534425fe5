---------------------------- MODULE MCControlOps ----------------------------
(***************************************************************************)
(* Two rates run workloads of one type, which are claims; one takes        *)
(* snapshots of all claims and deletes one, one creates a volume, deletes  *)
(* and scales.                                                             *)
(***************************************************************************)
EXTENDS ControlOps

File(kind, role, duplicate, parser) ==
    [kind |-> kind, role |-> role, numbered |-> ~parser, duplicate |-> duplicate, parser |-> parser]

MCTemplate ==
    [claim  |-> File("PersistentVolumeClaim", "workload", TRUE, FALSE),
     parser |-> File("ConfigMap", "helper", FALSE, TRUE)]

MCLibrary == [io |-> {"claim", "parser"}]

MCWorkloads == <<[type |-> "io", count |-> 1, rate |-> "r1"],
                 [type |-> "io", count |-> 1, rate |-> "r2"]>>

MCVolumes == <<[name |-> "v", count |-> 1, rate |-> "r4"]>>

S(rate, n) == [rate |-> rate, n |-> n]

Scenario(runs, sends, moves, faults, deleted) ==
    [runtime |-> runs, sends |-> sends, moves |-> moves, faults |-> faults, deleted |-> deleted]

\* Snapshots, deletions and two scalings at once; one of them fails, a claim
\* is bound or the Benchmark is deleted.
Operating ==
    {Scenario(FALSE, s, b[1], b[2], b[3]) :
        s \in {<<S("r3", 1), S("r4", 2)>>, <<S("r4", 2), S("r4", 3)>>},
        b \in {<<0, 1, FALSE>>, <<1, 0, FALSE>>, <<0, 0, TRUE>>}}

\* Workloads run by two rates, and by one rate beside the top-up.
Running ==
    {Scenario(FALSE, <<S("r1", 1), S("r2", 1), S("r2", 2)>>, 0, 0, FALSE)}
    \cup {Scenario(TRUE, <<S("r1", 1)>>, b[1], 0, b[2]) : b \in {<<2, FALSE>>, <<0, TRUE>>}}

MCScenarios == Operating \cup Running

Operation(name, rate) ==
    [name |-> name, rate |-> rate, class |-> "", workload |-> 0, volume |-> "",
     kind |-> "", selector |-> "", objName |-> ""]

MCOperations ==
    <<[Operation("all", "r3") EXCEPT !.class = "c"],
      [Operation("delete", "r3") EXCEPT !.kind = "snapshot", !.selector = "all"],
      [Operation("delete2", "r4") EXCEPT !.kind = "snapshot", !.selector = "all"],
      [Operation("scale", "r4") EXCEPT !.objName = "o"]>>
=============================================================================
