---------------------------- MODULE MCInstances ----------------------------
(***************************************************************************)
(* Instances of Instances for TLC: two specs of a benchmark and a          *)
(* library of small workload types.                                        *)
(***************************************************************************)
EXTENDS Instances

File(kind, role, numbered, duplicate, parser) ==
    [kind |-> kind, role |-> role, numbered |-> numbered,
     duplicate |-> duplicate, parser |-> parser]

MCTemplate ==
    [pod    |-> File("Pod", "workload", TRUE, TRUE, FALSE),
     job    |-> File("Job", "workload", TRUE, FALSE, FALSE),
     server |-> File("StatefulSet", "workload", FALSE, FALSE, FALSE),
     config |-> File("ConfigMap", "helper", FALSE, FALSE, FALSE),
     parser |-> File("ConfigMap", "helper", FALSE, FALSE, TRUE)]

MCLibrary ==
    [pods  |-> {"pod", "parser"},
     batch |-> {"job"},
     jobs  |-> {"job", "config"},
     db    |-> {"server"}]

W(type, count, rate) == [type |-> type, count |-> count, rate |-> rate]

\* Without rates: two pods that are replaced, and one Job.
PodsAndJob == <<W("pods", 2, ""), W("batch", 1, "")>>

\* The types of the example workloads are Jobs and StatefulSets.
JobsAndServer == <<W("jobs", 2, ""), W("db", 1, "")>>
=============================================================================
