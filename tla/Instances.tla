----------------------------- MODULE Instances -----------------------------
(***************************************************************************)
(* The objects of one benchmark's workloads: how RunWorkload numbers and   *)
(* creates them (controllers/actions.go, workload.go), how                 *)
(* CountCompletions counts them (completion.go), and how Reconcile uses    *)
(* the counts to end the benchmark or to replace completed instances.      *)
(*                                                                         *)
(* Reconcile ("main") and the runControlOps goroutine of each rate run     *)
(* RunWorkload concurrently; they share the map workloadInstance, without  *)
(* a lock.  Objects are read from the informer's cache.  This module is    *)
(* main; ControlOps adds the goroutines of the rates.                      *)
(***************************************************************************)
EXTENDS Integers, FiniteSets, Sequences

CONSTANTS
    Workloads,      \* Spec.Workloads: a sequence of [type, count, rate]
    Library,        \* the files of each workload type's ConfigMap
    Template,       \* what each file is: [kind, role, numbered, duplicate, parser]
    Rates,          \* the names of the rates
    Runtimes,       \* the benchmarks considered: with or without Spec.Runtime
    MaxMoves,       \* bound on the steps of the workloads' objects
    MaxFaults       \* bound on crashes and failures, together

Kinds == {"Pod", "Job", "StatefulSet", "PersistentVolumeClaim", "ConfigMap"}

ASSUME InstancesAssumption ==
    /\ Workloads \in Seq([type : DOMAIN Library, count : Nat, rate : Rates \cup {""}])
    /\ Workloads # <<>>
    /\ \A t \in DOMAIN Library : Library[t] \subseteq DOMAIN Template
    /\ \A f \in DOMAIN Template :
          Template[f] \in [kind : Kinds, role : {"workload", "helper"}, numbered : BOOLEAN,
                           duplicate : BOOLEAN, parser : BOOLEAN]
    /\ "main" \notin Rates
    /\ Runtimes \subseteq BOOLEAN
    /\ MaxMoves \in Nat /\ MaxFaults \in Nat

VARIABLES
    runtime,    \* Spec.Runtime is set
    objs,       \* the objects at the API server: name -> status
    seen,       \* the informer's copy of them
    counter,    \* r.workloadInstance, -1: no entry
    proc,       \* where each goroutine is
    phase,      \* Status.State, "starting" before Initializing is set
    queued,     \* the Benchmark is in the work queue
    due,        \* Status.TargetCompletionTime has passed
    rated,      \* the routines of the rates are running
    spent       \* environment steps taken so far

vars == <<runtime, objs, seen, counter, proc, phase, queued, due, rated, spent>>

Entries == DOMAIN Workloads

Procs == {"main"} \cup Rates

Files(i) == Library[Workloads[i].type]

\* replaceVars: {{ACTION_NAME}} is the workload's name, {{INSTANCE_NUM}} the
\* number; a template without the latter has the same name for each number.
NameOf(f, i, n) == <<f, i, IF Template[f].numbered THEN n ELSE 0>>

Idle == [pc |-> "idle", i |-> 0, todo |-> {}, files |-> {}, file |-> "", num |-> 0, left |-> 0]

\* RunWorkload of the i-th workload: parsers first, with number 0.
Enter(i) ==
    [Idle EXCEPT
        !.pc = "run", !.i = i,
        !.todo = {NameOf(f, i, 0) : f \in {g \in Files(i) : Template[g].parser}},
        !.files = {f \in Files(i) : ~Template[f].parser}]

Init ==
    /\ runtime \in Runtimes
    /\ objs = << >> /\ seen = << >>
    /\ counter = [t \in DOMAIN Library |-> -1]
    /\ proc = [p \in Procs |-> IF p = "main" THEN Enter(1) ELSE Idle]
    /\ phase = "starting"
    /\ queued = FALSE /\ due = FALSE /\ rated = FALSE
    /\ spent = [moves |-> 0, faults |-> 0, setbacks |-> 0]
-----------------------------------------------------------------------------
(***************************************************************************)
(* CountCompletions: what a list of objects with the labels workloadname   *)
(* and role=workload says.  The pods of a Job and of a StatefulSet carry   *)
(* the labels of their owner (AddLabelsGeneric); one pod each is enough    *)
(* here.  A status is "created" (of a Job or StatefulSet: no pod yet),     *)
(* "pod", "podSucceeded" (and the Job has not noticed), "succeeded",       *)
(* "failed", "restarted" or "bound".                                       *)
(***************************************************************************)
Listed(v, i, kind) ==
    {x \in DOMAIN v : /\ x[2] = i
                      /\ Template[x[1]].role = "workload"
                      /\ Template[x[1]].kind = kind}

Tally(all, done) == [complete |-> Cardinality(done), notcomplete |-> Cardinality(all \ done)]

PodsComplete(v, i) ==
    LET owned == Listed(v, i, "Job") \cup Listed(v, i, "StatefulSet")
        all   == Listed(v, i, "Pod") \cup {x \in owned : v[x] # "created"}
    IN  Tally(all, {x \in all : v[x] \in {"podSucceeded", "succeeded"}})

JobsComplete(v, i) ==
    LET all == Listed(v, i, "Job")
    IN  Tally(all, {x \in all : v[x] = "succeeded"})

\* One StatefulSet without pods hides all of them.
StatefulSetsComplete(v, i) ==
    LET all == Listed(v, i, "StatefulSet")
    IN  IF \E x \in all : v[x] = "created" THEN Tally({}, {})
        ELSE Tally(all, {x \in all : v[x] = "restarted"})

PVCsComplete(v, i) ==
    LET all == Listed(v, i, "PersistentVolumeClaim")
    IN  Tally(all, {x \in all : v[x] = "bound"})

Plus(a, b) == [complete    |-> a.complete + b.complete,
               notcomplete |-> a.notcomplete + b.notcomplete]

CountCompletions(v, i) ==
    Plus(Plus(PodsComplete(v, i), JobsComplete(v, i)),
         Plus(StatefulSetsComplete(v, i), PVCsComplete(v, i)))
-----------------------------------------------------------------------------
(***************************************************************************)
(* The cluster.                                                            *)
(***************************************************************************)
Moves(kind) ==
    CASE kind = "Pod"         -> {<<"created", "succeeded">>, <<"created", "failed">>}
      [] kind = "Job"         -> {<<"created", "pod">>, <<"pod", "failed">>,
                                  <<"pod", "podSucceeded">>, <<"podSucceeded", "succeeded">>}
      [] kind = "StatefulSet" -> {<<"created", "pod">>, <<"pod", "restarted">>}
      [] kind = "PersistentVolumeClaim" -> {<<"created", "bound">>}
      [] OTHER                -> {}

\* A pod is created, succeeds or fails, its Job notices, ...
Move(x) ==
    /\ spent.moves < MaxMoves
    /\ spent' = [spent EXCEPT !.moves = @ + 1]
    /\ \E m \in Moves(Template[x[1]].kind) :
          /\ objs[x] = m[1]
          /\ objs' = [objs EXCEPT ![x] = m[2]]
    /\ UNCHANGED <<runtime, seen, counter, proc, phase, queued, due, rated>>

\* The informers catch up; events of owned objects enqueue the Benchmark.
Sync ==
    /\ seen # objs
    /\ seen' = objs
    /\ queued' = TRUE
    /\ UNCHANGED <<runtime, objs, counter, proc, phase, due, rated, spent>>

RuntimeOver ==
    /\ runtime
    /\ phase = "running"
    /\ ~due
    /\ due' = TRUE
    /\ UNCHANGED <<runtime, objs, seen, counter, proc, phase, queued, rated, spent>>

\* faults of RunWorkload, setbacks of the rest of the controller.
MoreFaults == spent.faults + spent.setbacks < MaxFaults

\* The controller restarts with an empty workloadInstance and without the
\* routines of the rates.
Crash ==
    /\ MoreFaults
    /\ spent' = [spent EXCEPT !.setbacks = @ + 1]
    /\ counter' = [t \in DOMAIN Library |-> -1]
    /\ proc' = [p \in Procs |-> IF p = "main" /\ phase = "starting" THEN Enter(1) ELSE Idle]
    /\ rated' = FALSE
    /\ seen' = objs
    /\ queued' = TRUE
    /\ UNCHANGED <<runtime, objs, phase, due>>
-----------------------------------------------------------------------------
(***************************************************************************)
(* prepareAndRun and createObj.                                            *)
(***************************************************************************)

\* AlreadyExists is not an error.
WithObject(x) ==
    [y \in DOMAIN objs \cup {x} |-> IF y \in DOMAIN objs THEN objs[y] ELSE "created"]

CreateObj(x) ==
    /\ objs' = WithObject(x)
    /\ UNCHANGED <<runtime, seen, counter, queued, due, rated, spent>>

\* The next object of p's list: the numbers of a file in ascending order.
CreateNext(p) ==
    \E x \in proc[p].todo :
        /\ \A y \in proc[p].todo : y[1] = x[1] => x[3] <= y[3]
        /\ CreateObj(x)
        /\ proc' = [proc EXCEPT ![p].todo = @ \ {x}]
        /\ UNCHANGED phase
-----------------------------------------------------------------------------
(***************************************************************************)
(* RunWorkload: count numbered objects of each file.                       *)
(***************************************************************************)

\* for k := range cm.Data visits the files in any order.
PickFile(p) ==
    /\ proc[p].pc = "run"
    /\ proc[p].todo = {}
    /\ proc[p].left = 0
    /\ \E f \in proc[p].files :
          proc' = [proc EXCEPT ![p].files = @ \ {f}, ![p].file = f,
                               ![p].left = Workloads[proc[p].i].count]
    /\ UNCHANGED <<runtime, objs, seen, counter, phase, queued, due, rated, spent>>

TypeOf(p) == Workloads[proc[p].i].type

\* r.workloadInstance[a.Workload] += 1 is a load ...
Load(p) ==
    /\ proc[p].pc = "run"
    /\ proc[p].left > 0
    /\ proc' = [proc EXCEPT ![p].pc = "loaded", ![p].num = counter[TypeOf(p)]]
    /\ UNCHANGED <<runtime, objs, seen, counter, phase, queued, due, rated, spent>>

\* Mutant: the number is only stored for a new type.
StoreOnce(p) ==
    /\ proc[p].pc = "loaded"
    /\ counter' = [counter EXCEPT ![TypeOf(p)] = IF @ = -1 THEN 0 ELSE @]
    /\ proc' = [proc EXCEPT ![p].pc = "stored"]
    /\ UNCHANGED <<runtime, objs, seen, phase, queued, due, rated, spent>>

\* ... and a store, ...
Store(p) ==
    /\ proc[p].pc = "loaded"
    /\ counter' = [counter EXCEPT ![TypeOf(p)] = proc[p].num + 1]
    /\ proc' = [proc EXCEPT ![p].pc = "stored"]
    /\ UNCHANGED <<runtime, objs, seen, phase, queued, due, rated, spent>>

\* ... and the map is read again for the number that is used.
Target(p) == NameOf(proc[p].file, proc[p].i, counter[TypeOf(p)])

PrepareAndRun(p) ==
    /\ proc[p].pc = "stored"
    /\ CreateObj(Target(p))
    /\ proc' = [proc EXCEPT ![p].pc = "run", ![p].left = @ - 1]
    /\ UNCHANGED phase

Finished(p) == proc[p].todo = {} /\ proc[p].files = {} /\ proc[p].left = 0

\* The workloads that p still has to run: main runs all of them.
Later(p) == {j \in Entries : j > proc[p].i /\ (p = "main" \/ Workloads[j].rate = p)}

First(S) == CHOOSE j \in S : \A k \in S : j <= k

\* startWorkloads, or the loop of runControlOps, goes on.
NextWorkload(p) ==
    /\ proc[p].pc = "run"
    /\ Finished(p)
    /\ IF Later(p) # {}
       THEN proc' = [proc EXCEPT ![p] = Enter(First(Later(p)))] /\ UNCHANGED phase
       ELSE /\ proc' = [proc EXCEPT ![p] = Idle]
            /\ phase' = IF p = "main" THEN "initializing" ELSE phase
    /\ UNCHANGED <<runtime, objs, seen, counter, queued, due, rated, spent>>

\* A Get, a decode or a create fails (the object may be stored all the same):
\* the start branch is retried from its beginning, a rate goes on with its
\* next workload.
RunFails(p) ==
    /\ proc[p].pc \in {"run", "stored"}
    /\ MoreFaults
    /\ spent' = [spent EXCEPT !.faults = @ + 1]
    /\ proc' = [proc EXCEPT ![p] = IF p = "main" THEN Enter(1)
                                   ELSE IF Later(p) # {} THEN Enter(First(Later(p)))
                                   ELSE Idle]
    /\ \/ UNCHANGED objs
       \/ proc[p].pc = "stored" /\ objs' = WithObject(Target(p))
    /\ UNCHANGED <<runtime, seen, counter, phase, queued, due, rated>>
-----------------------------------------------------------------------------
StartRates ==
    /\ phase = "initializing"
    /\ phase' = "running"
    /\ rated' = TRUE
    /\ queued' = TRUE
    /\ UNCHANGED <<runtime, objs, seen, counter, proc, due, spent>>
-----------------------------------------------------------------------------
(***************************************************************************)
(* The Running branch of Reconcile.                                        *)
(***************************************************************************)
At(pc, i) == [Idle EXCEPT !.pc = pc, !.i = i]

Reconcile ==
    /\ phase = "running"
    /\ proc["main"].pc = "idle"
    /\ queued
    /\ queued' = FALSE
    /\ IF runtime /\ due
       THEN phase' = "complete" /\ UNCHANGED proc
       ELSE /\ proc' = [proc EXCEPT !["main"] = At(IF runtime THEN "count" ELSE "check", 1)]
            /\ UNCHANGED phase
    /\ UNCHANGED <<runtime, objs, seen, counter, due, rated, spent>>

\* Mutant: one instance may be missing.
CheckCompletionsOneLess ==
    /\ proc["main"].pc = "check"
    /\ \E i \in {proc["main"].i}, c \in {CountCompletions(seen, proc["main"].i)} :
          IF c.complete + 1 < Workloads[i].count
          THEN proc' = [proc EXCEPT !["main"] = Idle] /\ UNCHANGED phase
          ELSE IF i < Len(Workloads)
          THEN proc' = [proc EXCEPT !["main"] = At("check", i + 1)] /\ UNCHANGED phase
          ELSE proc' = [proc EXCEPT !["main"] = Idle] /\ phase' = "complete"
    /\ UNCHANGED <<runtime, objs, seen, counter, queued, due, rated, spent>>

\* The loop over the workloads without a Runtime.
CheckCompletions ==
    /\ proc["main"].pc = "check"
    /\ \E i \in {proc["main"].i}, c \in {CountCompletions(seen, proc["main"].i)} :
          \/ /\ c.complete < Workloads[i].count
             /\ proc' = [proc EXCEPT !["main"] = Idle]
             /\ UNCHANGED phase
          \/ /\ c.complete >= Workloads[i].count
             /\ i < Len(Workloads)
             /\ proc' = [proc EXCEPT !["main"] = At("check", i + 1)]
             /\ UNCHANGED phase
          \/ /\ c.complete >= Workloads[i].count
             /\ i = Len(Workloads)
             /\ proc' = [proc EXCEPT !["main"] = Idle]
             /\ phase' = "complete"
    /\ UNCHANGED <<runtime, objs, seen, counter, queued, due, rated, spent>>

Duplicates(i) == {f \in Files(i) : Template[f].duplicate}


\* Mutant: count new instances, not as many as are missing.
MissingCount(i, c) ==
    {NameOf(f, i, n) : f \in IF Workloads[i].count > c.notcomplete THEN Duplicates(i) ELSE {},
                       n \in (c.complete + c.notcomplete) ..
                                (c.complete + c.notcomplete + Workloads[i].count - 1)}

\* What ReconcileInstances creates for the i-th workload; nothing if at least
\* count instances are not complete.
Missing(i, c) ==
    {NameOf(f, i, n) : f \in Duplicates(i),
                       n \in (c.complete + c.notcomplete) ..
                                (c.complete + Workloads[i].count - 1)}

CountInstances ==
    /\ proc["main"].pc = "count"
    /\ \E c \in {CountCompletions(seen, proc["main"].i)} :
          proc' = [proc EXCEPT !["main"].pc = "topup", !["main"].todo = Missing(proc["main"].i, c)]
    /\ UNCHANGED <<runtime, objs, seen, counter, phase, queued, due, rated, spent>>

TopUpDone ==
    LET i == proc["main"].i
    IN  /\ proc["main"].pc = "topup"
        /\ proc["main"].todo = {}
        /\ proc' = [proc EXCEPT !["main"] = IF i < Len(Workloads) THEN At("count", i + 1) ELSE Idle]
        /\ UNCHANGED <<runtime, objs, seen, counter, phase, queued, due, rated, spent>>

\* An error of ReconcileInstances is returned, so the Benchmark is requeued.
TopUpFails ==
    /\ proc["main"].pc \in {"count", "topup"}
    /\ MoreFaults
    /\ spent' = [spent EXCEPT !.setbacks = @ + 1]
    /\ proc' = [proc EXCEPT !["main"] = Idle]
    /\ queued' = TRUE
    /\ UNCHANGED <<runtime, objs, seen, counter, phase, due, rated>>
-----------------------------------------------------------------------------
RunWorkload(p) ==
    \/ CreateNext(p) \/ PickFile(p) \/ Load(p) \/ Store(p) \/ PrepareAndRun(p)
    \/ NextWorkload(p) \/ RunFails(p)

Main ==
    \/ RunWorkload("main")
    \/ StartRates
    \/ Reconcile \/ CheckCompletions \/ CountInstances \/ TopUpDone \/ TopUpFails

Next ==
    \/ Main
    \/ \E x \in DOMAIN objs : Move(x)
    \/ Sync \/ RuntimeOver \/ Crash

Spec == Init /\ [][Next]_vars
-----------------------------------------------------------------------------
(***************************************************************************)
(* Properties.                                                             *)
(***************************************************************************)

Instances(i) == {x \in DOMAIN objs : x[2] = i /\ Template[x[1]].role = "workload"}

Unfinished(i) == {x \in Instances(i) : objs[x] \notin {"succeeded", "restarted", "bound"}}

\* A Job and its pod are counted as two instances.
WithoutJobs == {i \in Entries : \A f \in Files(i) : Template[f].kind # "Job"}

(***************************************************************************)
(* ReconcileInstances never leaves more instances of a workload running    *)
(* than its count, even if the lists it counts are stale; each failed      *)
(* attempt to start the workloads may have left count more behind, as the  *)
(* next one goes on with new numbers (actions.go:131-136).                 *)
(***************************************************************************)
NeverTooMany ==
    \A i \in WithoutJobs : Cardinality(Unfinished(i)) <= Workloads[i].count * (1 + spent.faults)

\* A create that failed in RunWorkload has used up its number.
NumberSkipped(i) ==
    \E x \in Instances(i) : Template[x[1]].numbered /\ x[3] >= Cardinality(Instances(i))


(***************************************************************************)
(* Without a Runtime the benchmark ends when "all workloads are complete"  *)
(* (benchmark_controller.go:297): nothing is unfinished but what a failed  *)
(* attempt to start them may have left behind.                             *)
(***************************************************************************)
CompleteMeansAllDone ==
    phase = "complete" /\ ~runtime =>
        \A i \in Entries : Cardinality(Unfinished(i)) <= Workloads[i].count * spent.faults

Completed(i) == {x \in Instances(i) : objs[x] \in {"podSucceeded", "succeeded", "restarted", "bound"}}

CompletedJobs(i) ==
    {x \in Instances(i) : Template[x[1]].kind = "Job" /\ objs[x] = "succeeded"}

(***************************************************************************)
(* What the end of the benchmark does guarantee, for workloads of every    *)
(* kind: each workload has count completed objects, where a Job counts a   *)
(* second time once it has noticed that its pod succeeded                  *)
(* (completion.go:51-76).  The lists are read one after the other, and     *)
(* each may be out of date.                                                *)
(***************************************************************************)
CompleteMeansCounted ==
    phase = "complete" /\ ~runtime =>
        \A i \in Entries :
            Workloads[i].count <= Cardinality(Completed(i)) + Cardinality(CompletedJobs(i))
=============================================================================
