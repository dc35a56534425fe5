----------------------------- MODULE ControlOps -----------------------------
(***************************************************************************)
(* The goroutines of the rates: runControlOps receives a value and, one    *)
(* after the other, creates the volumes, runs the workloads (Instances)    *)
(* and executes the control operations that name the rate: snapshots of    *)
(* volumes, the deletion of the oldest object with a label, and pods that  *)
(* run a scale script (controllers/actions.go).  The goroutines of two     *)
(* rates interleave with each other, with Reconcile, with the pods they    *)
(* start and with the deletion of the Benchmark.                           *)
(*                                                                         *)
(* Claims are listed from the informer's cache; DeleteObj lists            *)
(* unstructured objects, which the client reads from the API server.       *)
(***************************************************************************)
EXTENDS Instances

CONSTANTS
    Volumes,        \* Spec.Volumes: a sequence of [name, count, rate]
    Operations,     \* Spec.ControlOperations: a sequence of [name, rate, class,
                    \*   workload, volume, kind, selector, objName]
    Scenarios       \* what the rates send, a sequence of [rate, n], and bounds on
                    \*   what else happens: [runtime, sends, moves, faults, deleted]

ASSUME ControlOpsAssumption ==
    /\ Volumes \in Seq([name : STRING, count : Nat, rate : STRING])
    /\ Operations \in Seq([name : STRING, rate : STRING, class : STRING, workload : Nat,
                           volume : STRING, kind : STRING, selector : STRING, objName : STRING])
    /\ Scenarios \subseteq [runtime : BOOLEAN, sends : Seq([rate : Rates, n : Nat]),
                            moves : Nat, faults : Nat, deleted : BOOLEAN]

VARIABLES
    things,     \* volumes, snapshots, script ConfigMaps and scale pods
    cached,     \* the claims of volumes in the informer's cache
    round,      \* where the goroutine of each rate is
    scene,      \* the scenario of this behaviour
    values,     \* values sent so far
    replicas,   \* what the scale script set last, 0: nothing
    taken,      \* the snapshots created: <<operation, number of the value, claim>>
    current,    \* history: the values of the last scale pod and of those that
                \*   were still there when it was created
    topped,     \* history: the objects that ReconcileInstances created
    lost,       \* history: the types with a lost update of workloadInstance
    gone        \* the Benchmark is deleted

numbering == <<topped, lost>>
ctl == <<things, cached, round, scene, values, replicas, taken, current, numbering, gone>>
allVars == <<vars, ctl>>
-----------------------------------------------------------------------------
\* CreateVolume: the same names whenever the rate fires.
ClaimsOf(k) ==
    {<<"volume", k, IF Volumes[k].count > 1 THEN c ELSE 0>> : c \in 1..Volumes[k].count}

Claims(S) == UNION {ClaimsOf(k) : k \in S}

VolumesOf(r) == {k \in DOMAIN Volumes : Volumes[k].rate = r}
OperationsOf(r) == {k \in DOMAIN Operations : Operations[k].rate = r}

\* claims and ops are the volumes and the operations still to come.
Waiting == [stage |-> "wait", n |-> 0, claims |-> {}, ops |-> {}, todo |-> {},
            list |-> {}, id |-> 0]

\* The creation time has a resolution of a second, the intervals of the rates
\* are whole seconds: the time is the number of values sent so far.
Thing(kind, label, second, x) == [kind |-> kind, label |-> label, born |-> second, of |-> x]

ClaimThing(x, second) == Thing("claim", Volumes[x[2]].name, second, x)

\* createVolumes has run, and has only logged its errors.
CtlInit ==
    /\ scene \in {s \in Scenarios : s.runtime = runtime}
    /\ \E S \in SUBSET Claims(DOMAIN Volumes) :
          /\ Cardinality(Claims(DOMAIN Volumes) \ S) <= scene.faults
          /\ things = [x \in S |-> ClaimThing(x, 0)]
    /\ cached = DOMAIN things
    /\ round = [r \in Rates |-> Waiting]
    /\ values = 0
    /\ replicas = 0 /\ taken = {} /\ current = {0} /\ topped = {} /\ lost = {} /\ gone = FALSE
-----------------------------------------------------------------------------
(***************************************************************************)
(* runControlOps.                                                          *)
(***************************************************************************)
\* A goroutine that takes a message from the control channel instead, after
\* the Benchmark is complete or deleted, is one that receives no value again.
ReceiveValue(r) ==
    /\ rated
    /\ round[r].stage = "wait"
    /\ values < Len(scene.sends) /\ scene.sends[values + 1].rate = r
    /\ values' = values + 1
    /\ round' = [round EXCEPT ![r] = [Waiting EXCEPT !.stage = "volumes", !.n = scene.sends[values'].n,
                                                     !.id = values', !.claims = Claims(VolumesOf(r)),
                                                     !.ops = OperationsOf(r)]]
    /\ UNCHANGED <<vars, things, cached, scene, replicas, taken, current, numbering, gone>>

Fault == MoreFaults /\ spent' = [spent EXCEPT !.faults = @ + 1]
NoFault == UNCHANGED spent
InstancesButSpent == <<runtime, objs, seen, counter, proc, phase, queued, due, rated>>

Without(S) == [x \in DOMAIN things \ S |-> things[x]]

WithThing(x, t) == [y \in DOMAIN things \cup {x} |-> IF y \in DOMAIN things THEN things[y] ELSE t]

\* CreateVolume: a claim that exists is left alone, an error is only logged.
CreateVolume(r) ==
    \E x \in round[r].claims :
        /\ round[r].stage = "volumes"
        /\ \A y \in round[r].claims : x[2] < y[2] \/ (x[2] = y[2] /\ x[3] <= y[3])
        /\ round' = [round EXCEPT ![r].claims = @ \ {x}]
        /\ \/ NoFault /\ things' = WithThing(x, ClaimThing(x, values))
           \/ Fault /\ UNCHANGED things
        /\ UNCHANGED <<InstancesButSpent, cached, scene, values, replicas, taken, current, numbering, gone>>

\* The workloads of the rate, if it has any, are run by RunWorkload(r).
RunWorkloads(r) ==
    /\ round[r].stage = "volumes" /\ round[r].claims = {}
    /\ round' = [round EXCEPT ![r].stage = "workloads"]
    /\ proc' = IF Later(r) = {} THEN proc
               ELSE [proc EXCEPT ![r] = Enter(First(Later(r)))]
    /\ UNCHANGED <<runtime, objs, seen, counter, phase, queued, due, rated, spent>>
    /\ UNCHANGED <<things, cached, scene, values, replicas, taken, current, numbering, gone>>

WorkloadsDone(r) ==
    /\ round[r].stage = "workloads" /\ proc[r].pc = "idle"
    /\ round' = [round EXCEPT ![r].stage = "next"]
    /\ UNCHANGED <<vars, things, cached, scene, values, replicas, taken, current, numbering, gone>>

\* runControlOp: the first specification that is set decides.
StageFor(o) ==
    CASE o.class # "" -> "snapshot"
      [] o.class = "" /\ o.selector # "" -> "delete"
      [] o.class = "" /\ o.selector = "" /\ o.objName # "" -> "scale"
      [] OTHER -> "next"

Current(r) == First(round[r].ops)
Op(r) == Operations[Current(r)]

\* An operation that returns, with or without an error, is followed by the next.
OpReturns(r) == [round EXCEPT ![r].stage = "next", ![r].ops = @ \ {Current(r)}, ![r].todo = {},
                              ![r].list = {}]

\* CreateSnapshot: the claims with the label of the workload, else of the
\* volume, else all of them.
ClaimsFor(o) ==
    LET ofWorkloads == {x \in DOMAIN seen : Template[x[1]].kind = "PersistentVolumeClaim"}
    IN  IF o.workload # 0 THEN {x \in ofWorkloads : x[2] = o.workload}
        ELSE IF o.volume # "" THEN {x \in cached : Volumes[x[2]].name = o.volume}
        ELSE ofWorkloads \cup cached

Matching(o) == {x \in DOMAIN things : things[x].kind = o.kind /\ things[x].label = o.selector}

\* Mutant: sorted the other way round.
OldestLast(S) == {x \in S : \A y \in S : things[y].born <= things[x].born}

\* sort.Slice is not stable: any of the objects of the oldest second.
Oldest(S) == {x \in S : \A y \in S : things[x].born <= things[y].born}

\* The List of CreateSnapshot or DeleteObj fails: the operation returns.
ListFails(r) ==
    /\ round[r].stage = "next" /\ round[r].ops # {}
    /\ StageFor(Op(r)) \in {"snapshot", "delete"}
    /\ Fault
    /\ round' = OpReturns(r)
    /\ UNCHANGED <<InstancesButSpent, things, cached, scene, values, replicas, taken, current,
                   numbering, gone>>

NextOperation(r) ==
    /\ round[r].stage = "next"
    /\ IF round[r].ops = {} THEN round' = [round EXCEPT ![r] = Waiting]
       ELSE CASE StageFor(Op(r)) = "snapshot" /\ ClaimsFor(Op(r)) # {} ->
                   round' = [round EXCEPT ![r].stage = "snapshot", ![r].todo = ClaimsFor(Op(r)),
                                          ![r].list = ClaimsFor(Op(r))]
              [] StageFor(Op(r)) = "delete" /\ Matching(Op(r)) # {} ->
                   \E x \in Oldest(Matching(Op(r))) :
                      round' = [round EXCEPT ![r].stage = "delete", ![r].todo = {x}]
              [] StageFor(Op(r)) = "scale" -> round' = [round EXCEPT ![r].stage = "clone"]
              [] OTHER -> round' = OpReturns(r)
    /\ UNCHANGED <<vars, things, cached, scene, values, replicas, taken, current, numbering, gone>>

\* Generated names are new: here, the operation, the value and the claim.
Generate(r, kind, label, x, of) ==
    things' = WithThing(<<kind, Current(r), round[r].id, x>>, Thing(kind, label, values, of))

TakeSnapshot(r, x) ==
    /\ NoFault /\ Generate(r, "snapshot", Op(r).name, x, x)
    /\ taken' = taken \cup {<<Current(r), round[r].id, x>>}

SnapshotFails == Fault /\ UNCHANGED <<things, taken>>

\* The operation returns after the last claim of the list.
NextClaim(r, x) ==
    IF round[r].todo = {x} THEN OpReturns(r) ELSE [round EXCEPT ![r].todo = @ \ {x}]

\* Mutant: the first error ends the operation.
SnapshotStopsAtError(r) ==
    /\ round[r].stage = "snapshot"
    /\ \E x \in round[r].todo :
          \/ TakeSnapshot(r, x) /\ round' = NextClaim(r, x)
          \/ SnapshotFails /\ round' = OpReturns(r)
    /\ UNCHANGED <<InstancesButSpent, cached, scene, values, replicas, current, numbering, gone>>

\* The next claim of the list; an error is only logged.
Snapshot(r) ==
    /\ round[r].stage = "snapshot"
    /\ \E x \in round[r].todo :
          /\ round' = NextClaim(r, x)
          /\ TakeSnapshot(r, x) \/ SnapshotFails
    /\ UNCHANGED <<InstancesButSpent, cached, scene, values, replicas, current, numbering, gone>>

\* Mutant: what another goroutine has deleted is tried again.
DeleteObjRetries(r) ==
    /\ round[r].stage = "delete"
    /\ round[r].todo \subseteq DOMAIN things
    /\ things' = Without(round[r].todo)
    /\ round' = OpReturns(r)
    /\ UNCHANGED <<vars, cached, scene, values, replicas, taken, current, numbering, gone>>

\* DeleteObj: what was the oldest object when it was listed; NotFound if
\* another goroutine was faster.  An error of Delete is only logged, and does
\* not say whether the object is still there.
DeleteObj(r) ==
    /\ round[r].stage = "delete"
    /\ \/ NoFault /\ things' = Without(round[r].todo)
       \/ Fault /\ (UNCHANGED things \/ things' = Without(round[r].todo))
    /\ round' = OpReturns(r)
    /\ UNCHANGED <<InstancesButSpent, cached, scene, values, replicas, taken, current, numbering, gone>>

\* ScaleObj: cloneParser gives the scripts a new name.  It fails if it cannot
\* read them; that it could not create the copy is only logged.
CloneScripts(r) ==
    /\ round[r].stage = "clone"
    /\ \/ /\ NoFault /\ Generate(r, "script", "", <<>>, <<>>)
          /\ round' = [round EXCEPT ![r].stage = "pod", ![r].todo = {<<"script", Current(r), round[r].id, <<>>>>}]
       \/ /\ Fault /\ UNCHANGED things
          /\ \/ round' = [round EXCEPT ![r].stage = "pod", ![r].todo = {<<"script", 0, 0, <<>>>>}]
             \/ round' = OpReturns(r)
    /\ UNCHANGED <<InstancesButSpent, cached, scene, values, replicas, taken, current, numbering, gone>>

ScalePods == {x \in DOMAIN things : things[x].kind = "pod"}

\* What the scripts of the scale pods that are there will set.
PodValues == {things[x].of[1] : x \in ScalePods}

\* Mutant: the arguments keep the first value.
ScaleObjFirst(r) ==
    /\ round[r].stage = "pod"
    /\ round' = OpReturns(r)
    /\ NoFault /\ Generate(r, "pod", "scale-pod", <<>>, <<scene.sends[1].n, round[r].todo>>)
    /\ current' = {round[r].n} \cup PodValues
    /\ UNCHANGED <<InstancesButSpent, cached, scene, values, replicas, taken, numbering, gone>>

ScaleObj(r) ==
    /\ round[r].stage = "pod"
    /\ round' = OpReturns(r)
    /\ \/ /\ NoFault /\ Generate(r, "pod", "scale-pod", <<>>, <<round[r].n, round[r].todo>>)
          /\ current' = {round[r].n} \cup PodValues
       \/ Fault /\ UNCHANGED <<things, current>>
    /\ UNCHANGED <<InstancesButSpent, cached, scene, values, replicas, taken, numbering, gone>>

RunControlOps(r) ==
    \/ CreateVolume(r) \/ RunWorkloads(r) \/ WorkloadsDone(r)
    \/ NextOperation(r) \/ ListFails(r) \/ Snapshot(r) \/ DeleteObj(r)
    \/ CloneScripts(r) \/ ScaleObj(r)
-----------------------------------------------------------------------------
(***************************************************************************)
(* The cluster: the pods run their scripts, the informers catch up, the    *)
(* user deletes the Benchmark, and objects whose owner is gone are         *)
(* collected.                                                              *)
(***************************************************************************)

\* A pod whose ConfigMap does not exist never starts.
RunScalePod(x) ==
    /\ things[x].of[2] \subseteq DOMAIN things
    /\ replicas' = things[x].of[1]
    /\ things' = Without({x})
    /\ UNCHANGED <<vars, cached, round, scene, values, taken, current, numbering, gone>>

\* One informer caches all claims, of workloads and of volumes.
InformersSync ==
    LET claims == {x \in DOMAIN things : things[x].kind = "claim"}
    IN  /\ <<seen, cached>> # <<objs, claims>>
        /\ seen' = objs /\ cached' = claims
        /\ queued' = TRUE
        /\ UNCHANGED <<runtime, objs, counter, proc, phase, due, rated, spent>>
        /\ UNCHANGED <<things, round, scene, values, replicas, taken, current, numbering, gone>>

DeleteBenchmark ==
    /\ phase \in {"running", "complete"}
    /\ ~gone /\ gone' = TRUE
    /\ UNCHANGED <<vars, things, cached, round, scene, values, replicas, taken, current, numbering>>

\* Mutant: the scale pods have no owner.
OwnedNotPods(x) == things[x].kind \notin {"snapshot", "pod"}

\* createObj(bm, &snap, false); every other thing belongs to the Benchmark.
Owned(x) == things[x].kind # "snapshot"

\* Ownership can't transcend namespaces: the parsers are in the library's.
OwnedObject(x) == ~Template[x[1]].parser

Collect ==
    /\ gone
    /\ (\E x \in DOMAIN things : Owned(x)) \/ (\E x \in DOMAIN objs : OwnedObject(x))
    /\ things' = Without({x \in DOMAIN things : Owned(x)})
    /\ objs' = [x \in {y \in DOMAIN objs : ~OwnedObject(y)} |-> objs[x]]
    /\ UNCHANGED <<runtime, seen, counter, proc, phase, queued, due, rated, spent>>
    /\ UNCHANGED <<cached, round, scene, values, replicas, taken, current, numbering, gone>>
-----------------------------------------------------------------------------
\* What a step of p's goroutine in Instances adds to the history.
Record(p) ==
    /\ topped' = topped \cup (IF proc[p].pc = "topup" THEN DOMAIN objs' \ DOMAIN objs ELSE {})
    /\ lost' = lost \cup (IF proc[p].pc = "loaded" /\ proc[p].num # counter[TypeOf(p)]
                          THEN {TypeOf(p)} ELSE {})
    /\ UNCHANGED <<things, cached, round, scene, values, replicas, taken, current, gone>>

Routine(r) == RunControlOps(r) \/ (RunWorkload(r) /\ Record(r))

\* Reconcile, beside the goroutines: it starts the workloads and the rates,
\* and then tops up the instances or ends the benchmark.
Controller ==
    /\ gone => proc["main"].pc # "idle"
    /\ Main
    /\ Record("main")

\* The bounds of the scenario.
InScene ==
    /\ spent.moves <= scene.moves
    /\ spent.faults + spent.setbacks <= scene.faults
    /\ gone => scene.deleted

OpsNext ==
    /\ \/ Controller
       \/ \E r \in Rates : Routine(r) \/ ReceiveValue(r)
       \/ \E x \in DOMAIN objs : Move(x) /\ UNCHANGED ctl
       \/ RuntimeOver /\ UNCHANGED ctl
       \/ \E x \in ScalePods : RunScalePod(x)
       \/ InformersSync \/ DeleteBenchmark \/ Collect
    /\ InScene'

\* The goroutines run, and the cluster collects what has no owner.
OpsSpec ==
    /\ Init /\ CtlInit /\ [][OpsNext]_allVars
    /\ \A r \in Rates : WF_allVars(Routine(r))
    /\ WF_allVars(Collect)
-----------------------------------------------------------------------------
(***************************************************************************)
(* Properties.                                                             *)
(***************************************************************************)

(***************************************************************************)
(* "The oldest snapshot in the result list will be deleted"                *)
(* (doc/benchmark_resource.md:105): what a delete operation removes is not *)
(* younger than any other object it could have removed, although other     *)
(* goroutines create and delete between its List and its Delete.           *)
(***************************************************************************)
DeletesOldest ==
    [][\A r \in Rates :
          round[r].stage = "delete" /\ round'[r].stage # "delete" =>
             \A x \in DOMAIN things \ DOMAIN things', y \in Matching(Op(r)) :
                things[x].born <= things[y].born]_allVars

(***************************************************************************)
(* "CNSBench will snapshot all volumes created for this workload"          *)
(* (doc/benchmark_resource.md:89): when the operation returns, the claims  *)
(* that were in its list and have no snapshot of this value are not more   *)
(* than the creations that failed; one failure does not stop the others.   *)
(***************************************************************************)
Missed(r) == {x \in round[r].list : <<Current(r), round[r].id, x>> \notin taken'}

SnapshotsAll ==
    [][\A r \in Rates :
          round[r].stage = "snapshot" /\ round'[r].stage # "snapshot"
             => Cardinality(Missed(r)) <= spent'.faults]_allVars

(***************************************************************************)
(* Once all scale pods have run, the object has the number of the last one *)
(* that was created, or of one that was still there when it was created: a *)
(* value of a pod that had run before never comes back, in whatever order  *)
(* two routines create pods and the cluster runs them (actions.go:296).    *)
(***************************************************************************)
ScaleFollowsRate == ScalePods = {} /\ ~gone => replicas \in current

(***************************************************************************)
(* A name that RunWorkload hands out is new, so that createObj does not    *)
(* take the object of an earlier instance for the one it was asked to      *)
(* create (actions.go:61-62).  There are two ways to a name that exists:   *)
(* ReconcileInstances made the object, which numbers by the count of the   *)
(* instances and leaves workloadInstance alone (actions.go:344); or two    *)
(* routines counted up the same number, and one put it back                *)
(* (actions.go:135, without a lock).                                       *)
(***************************************************************************)
FreshNames ==
    [][\A p \in Procs :
          /\ proc[p].pc = "stored" /\ proc'[p].pc = "run"
          /\ proc'[p].left < proc[p].left
          /\ Template[proc[p].file].numbered
          /\ TypeOf(p) \notin lost
          => Target(p) \notin DOMAIN objs \ topped]_allVars

(***************************************************************************)
(* A goroutine finishes with every value, whatever fails on the way, so    *)
(* that its rate is not held up for ever.                                  *)
(***************************************************************************)
RoundEnds ==
    \A r \in Rates : []<>(round[r].stage = "wait")

(***************************************************************************)
(* After the Benchmark is deleted nothing of it remains but what has no    *)
(* owner, the snapshots and the parsers of the workloads (actions.go:183,  *)
(* workload.go:556-560): not even what a goroutine in the middle of a      *)
(* value, or Reconcile in the middle of the top-up, goes on to create.     *)
(***************************************************************************)
OnlyUnownedRemain ==
    <>[](gone => /\ \A x \in DOMAIN things : things[x].kind = "snapshot"
                 /\ \A x \in DOMAIN objs : Template[x[1]].parser)
=============================================================================
