------------------------ MODULE BenchmarkController ------------------------
(***************************************************************************)
(* BenchmarkReconciler.Reconcile (controllers/benchmark_controller.go) for *)
(* one Benchmark object: its state machine, the start and stop of the rate *)
(* routines, the finalizer that protects them, and what happens between    *)
(* its API calls.                                                          *)
(*                                                                         *)
(* One step is the code between two API calls (or two channel sends).      *)
(* Around the reconciler are the API server (versioned writes, deletion    *)
(* with finalizers, writes that fail), the informer cache that Get reads,  *)
(* the work queue, the user, the pods of the workloads, and crashes of the *)
(* controller process.                                                     *)
(*                                                                         *)
(* The routines of the rates are counted here; module Rates shows that     *)
(* each of the two routines of a rate takes one control message.           *)
(***************************************************************************)
EXTENDS Naturals

CONSTANTS
    NumRates,       \* len(Spec.Rates)
    BadRates,       \* the first rate with no interval set, 0: there is none
    Runtime,        \* Spec.Runtime: "none", "valid" or "invalid" (does not parse)
    UserAnytime,    \* FALSE: the user acts only while the controller is idle
    PodsLag,        \* TRUE: an object's pods are created later than the object
    MaxCreates, MaxEdits, MaxFaults, MaxCrashes,    \* bounds on the environment
    MaxStale        \* how often Get may return an older version than the server's

ASSUME ControllerAssumption ==
    /\ NumRates \in Nat
    /\ BadRates \subseteq 0..NumRates
    /\ Runtime \in {"none", "valid", "invalid"}
    /\ UserAnytime \in BOOLEAN /\ PodsLag \in BOOLEAN
    /\ MaxCreates \in Nat /\ MaxEdits \in Nat /\ MaxFaults \in Nat /\ MaxCrashes \in Nat
    /\ MaxStale \in Nat

VARIABLES
    bm,         \* the Benchmark object at the API server
    cache,      \* the informer's copy of it
    queued,     \* the object's name is in the work queue
    pc,         \* where the only worker is in Reconcile
    inst,       \* the worker's copy of the object ("instance")
    toSend,     \* control messages stopRoutines has left to send
    after,      \* what follows the call of cleanup or stopRoutines
    calls,      \* history: calls of stopRoutines for the routines started last
    hasChan,    \* controlChannels has an entry for the object
    live,       \* routines listening on that control channel
    lost,       \* routines listening on a channel that was overwritten
    relapsed,   \* history: Get returned Initializing for a Running object
    work,       \* the slowest pod of the benchmark's workloads
    due,        \* Status.TargetCompletionTime has passed
    starts,     \* history: how often startWorkloads ran for this object
    posts,      \* history: how often doOutputs ran for this object
    edits, faults, crashes, stale   \* environment steps taken so far

object  == <<work, due, starts, posts>>
worker  == <<pc, inst, toSend, after, calls>>
memory  == <<hasChan, live, lost, relapsed>>
budgets == <<edits, faults, crashes, stale>>

vars == <<bm, cache, queued, worker, memory, object, budgets>>

\* No object, before the first one is created and after one was removed.
Absent(uid, rv) ==
    [exists |-> FALSE, uid |-> uid, rv |-> rv, state |-> "", rates |-> 0,
     fin |-> FALSE, deleting |-> FALSE, fixed |-> FALSE, bad |-> 0]

Removed(b) == Absent(b.uid, b.rv + 1)

\* The worker's copy outside Reconcile.
NoInstance == Absent(0, 0)

Init ==
    /\ bm = Absent(0, 0)
    /\ cache = bm
    /\ queued = FALSE
    /\ pc = "idle" /\ inst = NoInstance /\ toSend = 0 /\ after = "none" /\ calls = 1
    /\ hasChan = FALSE /\ live = 0 /\ lost = 0 /\ relapsed = FALSE
    /\ work = "none" /\ due = FALSE /\ starts = 0 /\ posts = 0
    /\ edits = 0 /\ faults = 0 /\ crashes = 0 /\ stale = 0
-----------------------------------------------------------------------------
(***************************************************************************)
(* The user.                                                               *)
(***************************************************************************)
Quiescent == pc = "idle" /\ ~queued /\ cache = bm

UserMayAct == UserAnytime \/ Quiescent

\* A new object, with or without the three default outputs and an unknown
\* rate in its spec.
Create ==
    /\ UserMayAct
    /\ ~bm.exists
    /\ bm.uid < MaxCreates
    /\ \E f \in BOOLEAN, b \in BadRates :
          bm' = [Absent(bm.uid + 1, bm.rv + 1) EXCEPT !.exists = TRUE, !.fixed = f, !.bad = b]
    /\ work' = "none" /\ due' = FALSE /\ starts' = 0 /\ posts' = 0
    /\ UNCHANGED <<cache, queued, worker, memory, budgets>>

\* A finalizer keeps the object until the controller removes it.
Delete ==
    /\ UserMayAct
    /\ bm.exists
    /\ ~bm.deleting
    /\ bm' = IF bm.fin THEN [bm EXCEPT !.deleting = TRUE, !.rv = @ + 1]
                       ELSE Removed(bm)
    /\ UNCHANGED <<cache, queued, worker, memory, object, budgets>>

\* Any write by somebody else that the reconciler does not care about.
Edit ==
    /\ UserMayAct
    /\ bm.exists
    /\ edits < MaxEdits
    /\ edits' = edits + 1
    /\ bm' = [bm EXCEPT !.rv = @ + 1]
    /\ UNCHANGED <<cache, queued, worker, memory, object, faults, crashes, stale>>
-----------------------------------------------------------------------------
(***************************************************************************)
(* The cluster: the watch on the Benchmark, the pods, the clock.  Events   *)
(* of owned objects enqueue the Benchmark; the clock does not.             *)
(***************************************************************************)
Sync ==
    /\ cache # bm
    /\ cache' = bm
    /\ queued' = TRUE
    /\ UNCHANGED <<bm, worker, memory, object, budgets>>

PodStep(from, to) ==
    /\ bm.exists
    /\ work = from
    /\ work' = to
    /\ queued' = TRUE
    /\ UNCHANGED <<bm, cache, worker, memory, due, starts, posts, budgets>>

PodsAppear  == PodStep("created", "pending")
PodsRun     == PodStep("pending", "running")
PodsSucceed == PodStep("running", "succeeded")

RuntimeOver ==
    /\ bm.exists
    /\ bm.state = "Running"
    /\ Runtime = "valid"
    /\ ~due
    /\ due' = TRUE
    /\ UNCHANGED <<bm, cache, queued, worker, memory, work, starts, posts, budgets>>

\* The controller process dies and is restarted: its memory is empty, its
\* routines are gone, and the new informer lists and enqueues the object.
Crash ==
    /\ crashes < MaxCrashes
    /\ crashes' = crashes + 1
    /\ pc' = "idle" /\ inst' = NoInstance /\ toSend' = 0 /\ after' = "none" /\ calls' = 1
    /\ hasChan' = FALSE /\ live' = 0 /\ lost' = 0 /\ relapsed' = FALSE
    /\ cache' = bm
    /\ queued' = bm.exists
    /\ UNCHANGED <<bm, object, edits, faults, stale>>
-----------------------------------------------------------------------------
(***************************************************************************)
(* Client.Update and Client.Status().Update of the worker's copy.          *)
(***************************************************************************)
\* Mutant: the status is patched without the version it was read at.
AnyVersion == bm.exists

UpToDate == bm.exists /\ bm.rv = inst.rv

\* Status().Update stores the status only ...
StatusStored == [bm EXCEPT !.state = inst.state, !.rates = inst.rates, !.rv = @ + 1]

\* ... Update stores the rest only.  One that changes nothing is not a new
\* version; one that drops the finalizer of a deleted object removes it.
Stored(b) ==
    IF bm.deleting /\ ~b.fin THEN Removed(bm)
    ELSE IF bm.fin = b.fin /\ bm.fixed = b.fixed THEN bm
    ELSE [bm EXCEPT !.fin = b.fin, !.fixed = b.fixed, !.rv = @ + 1]

\* The write succeeds and the response is decoded into the worker's copy.  A
\* status response of an object without finalizers leaves those in memory.
Succeeds(stored) ==
    /\ UpToDate
    /\ bm' = stored
    /\ UNCHANGED faults

\* The write is refused (another version, no object), or fails on the way:
\* the server may or may not have stored it.
Fails(stored) ==
    \/ /\ ~UpToDate
       /\ UNCHANGED <<bm, faults>>
    \/ /\ UpToDate
       /\ faults < MaxFaults
       /\ faults' = faults + 1
       /\ bm' \in {bm, stored}

\* return ctrl.Result{}, nil
Return ==
    /\ pc' = "idle"
    /\ inst' = NoInstance
    /\ UNCHANGED <<toSend, after, calls, cache, queued>>

\* return with an error, with Requeue or with RequeueAfter.
Requeue ==
    /\ pc' = "idle"
    /\ inst' = NoInstance
    /\ queued' = TRUE
    /\ UNCHANGED <<toSend, after, calls, cache>>

\* The history tells no call, one and more apart; a call without rates sends
\* nothing and does not count.
CallsAfter(b, n) == IF b.rates = 0 THEN n ELSE IF n = 0 THEN 1 ELSE 2

\* Mutant: one message per rate.
CleanupOneMessage(b, next, n) ==
    /\ pc' = "stop"
    /\ inst' = b
    /\ toSend' = b.rates
    /\ after' = next
    /\ calls' = CallsAfter(b, n)

\* cleanup(b), to be followed by next: stopRoutines comes first, as the call
\* after n others.
Cleanup(b, next, n) ==
    /\ pc' = "stop"
    /\ inst' = b
    /\ toSend' = 2 * b.rates
    /\ after' = next
    /\ calls' = CallsAfter(b, n)
-----------------------------------------------------------------------------
(***************************************************************************)
(* Reconcile: Get and the choice of the branch.                            *)
(***************************************************************************)
Relapse == cache.state = "Initializing" /\ bm.state = "Running" /\ cache.uid = bm.uid

Get ==
    /\ pc = "idle"
    /\ queued
    /\ \/ cache = bm /\ UNCHANGED stale
       \/ cache # bm /\ stale < MaxStale /\ stale' = stale + 1
    /\ relapsed' = (relapsed \/ Relapse)
    /\ queued' = FALSE
    /\ UNCHANGED <<bm, cache, hasChan, live, lost, object, edits, faults, crashes>>

GetNothingToDo ==
    /\ Get
    /\ \/ ~cache.exists
       \/ cache.exists /\ cache.deleting /\ ~hasChan
       \/ cache.exists /\ ~cache.deleting /\ cache.state = "Complete"
    /\ UNCHANGED worker

GetDeleting ==
    /\ Get
    /\ cache.exists
    /\ cache.deleting
    /\ hasChan
    /\ Cleanup(cache, "delete", calls)

GetActive ==
    /\ Get
    /\ cache.exists
    /\ ~cache.deleting
    /\ cache.state # "Complete"
    /\ inst' = cache
    /\ pc' = IF cache.state = "" THEN "start" ELSE cache.state
    /\ UNCHANGED <<toSend, after, calls>>
-----------------------------------------------------------------------------
(***************************************************************************)
(* The branch of a new object.                                             *)
(***************************************************************************)

\* The worker's copy is of the object the server has.
SameObject == bm.exists /\ bm.uid = inst.uid

FixupSpec ==
    /\ pc = "start"
    /\ ~inst.fixed
    /\ inst' = [inst EXCEPT !.fixed = TRUE]
    /\ pc' = "fixUpdate"
    /\ UNCHANGED <<bm, cache, queued, toSend, after, calls, memory, object, budgets>>

\* createVolumes and startWorkloads create objects each time they are called.
WorkloadsCreated ==
    IF SameObject
    THEN /\ work' = IF PodsLag THEN "created" ELSE "pending"
         /\ starts' = starts + 1
         /\ UNCHANGED <<due, posts>>
    ELSE UNCHANGED object

\* Mutant: the state is not set to Initializing.
StartWorkloadsSameState ==
    /\ pc = "start"
    /\ inst.fixed
    /\ WorkloadsCreated
    /\ pc' = "startStatus"
    /\ UNCHANGED <<bm, cache, queued, inst, toSend, after, calls, memory, budgets>>

StartWorkloads ==
    /\ pc = "start"
    /\ inst.fixed
    /\ WorkloadsCreated
    /\ inst' = [inst EXCEPT !.state = "Initializing"]
    /\ pc' = "startStatus"
    /\ UNCHANGED <<bm, cache, queued, toSend, after, calls, memory, budgets>>

\* RunWorkload fails at one of the workloads.
StartWorkloadsFails ==
    /\ pc = "start"
    /\ inst.fixed
    /\ faults < MaxFaults
    /\ faults' = faults + 1
    /\ WorkloadsCreated
    /\ Requeue
    /\ UNCHANGED <<bm, memory, edits, crashes, stale>>
-----------------------------------------------------------------------------
(***************************************************************************)
(* The branch of an initializing object.                                   *)
(***************************************************************************)

\* CheckInit: no listed pod is short of Running or Succeeded.
DoneInit == work # "pending"

WaitForInit ==
    /\ pc = "Initializing"
    /\ ~DoneInit
    /\ Requeue
    /\ UNCHANGED <<bm, memory, object, budgets>>

\* Mutant: assumes that there is an unknown rate.
StartedBeforeBad == inst.bad - 1

\* startRates starts two routines per rate, up to the first unknown rate.
Started == IF inst.bad = 0 THEN NumRates ELSE inst.bad - 1

\* The routines just started have not been told to stop, if there are any.
NoCalls == IF Started = 0 THEN 1 ELSE 0

\* Mutant: RateFinalizer is not added.
StartRatesNoFinalizer ==
    /\ pc = "Initializing"
    /\ DoneInit
    /\ hasChan' = TRUE
    /\ lost' = lost + live
    /\ live' = 2 * Started
    /\ inst' = [inst EXCEPT !.rates = Started, !.state = "Running"]
    /\ pc' = "runStatus"
    /\ calls' = NoCalls
    /\ UNCHANGED <<bm, cache, queued, toSend, after, relapsed, object, budgets>>

StartRates ==
    /\ pc = "Initializing"
    /\ DoneInit
    /\ hasChan' = TRUE
    /\ lost' = lost + live
    /\ live' = 2 * Started
    /\ \/ /\ inst.bad # 0
          /\ Cleanup([inst EXCEPT !.rates = Started], "unknown", NoCalls)
       \/ /\ inst.bad = 0
          /\ inst' = [inst EXCEPT !.rates = Started, !.state = "Running",
                                  !.fin = @ \/ Started > 0]
          /\ pc' = "runStatus"
          /\ calls' = NoCalls
          /\ UNCHANGED <<toSend, after>>
    /\ UNCHANGED <<bm, cache, queued, relapsed, object, budgets>>
-----------------------------------------------------------------------------
(***************************************************************************)
(* The branch of a running object.                                         *)
(***************************************************************************)
BeforeTarget == Runtime = "valid" /\ ~due

Incomplete == Runtime = "none" /\ work # "succeeded"

\* ReconcileInstances replaces the pods that have completed; not those of an
\* object without the duplicate annotation, nor under a name that is taken
\* (module Instances).
KeepRunning ==
    /\ pc = "Running"
    /\ BeforeTarget \/ Incomplete
    /\ pc' = "idle"
    /\ inst' = NoInstance
    /\ \/ UNCHANGED <<work, queued>>
       \/ /\ BeforeTarget /\ SameObject /\ work = "succeeded"
          /\ work' = "pending" /\ queued' = TRUE
    /\ UNCHANGED <<bm, cache, toSend, after, calls, memory, due, starts, posts, budgets>>

DoOutputs ==
    /\ pc = "Running"
    /\ ~BeforeTarget
    /\ ~Incomplete
    /\ posts' = IF SameObject THEN posts + 1 ELSE posts
    /\ inst' = [inst EXCEPT !.state = "Complete"]
    /\ pc' = "completeStatus"
    /\ UNCHANGED <<bm, cache, queued, toSend, after, calls, memory, work, due, starts, budgets>>

\* CheckInit, CountCompletions or ReconcileInstances returns an error.
ListFails ==
    /\ pc \in {"Initializing", "Running"}
    /\ faults < MaxFaults
    /\ faults' = faults + 1
    /\ Requeue
    /\ UNCHANGED <<bm, memory, object, edits, crashes, stale>>
-----------------------------------------------------------------------------
(***************************************************************************)
(* updateInstance and updateInstanceStatus: cleanup when the write fails.  *)
(***************************************************************************)
StatusWritePoints == {"startStatus", "runStatus", "completeStatus"}

UpdateStatus ==
    /\ pc \in StatusWritePoints
    /\ \/ /\ Succeeds(StatusStored)
          /\ LET b == [bm' EXCEPT !.fin = @ \/ inst.fin]
             IN  \/ /\ pc = "completeStatus"
                    /\ Cleanup(b, "complete", calls)
                 \/ /\ pc # "completeStatus"
                    /\ inst' = b
                    /\ pc' = IF pc = "startStatus" THEN "startUpdate" ELSE "runUpdate"
                    /\ UNCHANGED <<toSend, after, calls>>
       \/ /\ Fails(StatusStored)
          /\ Cleanup(inst, "retry", calls)
    /\ UNCHANGED <<cache, queued, memory, object, edits, crashes, stale>>

UpdateInstance ==
    /\ pc \in {"fixUpdate", "startUpdate", "runUpdate"}
    /\ \/ /\ Succeeds(Stored(inst))
          /\ IF pc = "runUpdate" THEN Return ELSE Requeue
       \/ /\ Fails(Stored(inst))
          /\ Cleanup(inst, "retry", calls)
          /\ UNCHANGED <<cache, queued>>
    /\ UNCHANGED <<memory, object, edits, crashes, stale>>
-----------------------------------------------------------------------------
(***************************************************************************)
(* cleanup and stopRoutines.                                               *)
(***************************************************************************)

\* A send on the unbuffered control channel waits for a routine to take it;
\* without an entry in controlChannels it is a send on a nil channel.
SendStop ==
    /\ pc = "stop"
    /\ toSend > 0
    /\ hasChan
    /\ live > 0
    /\ toSend' = toSend - 1
    /\ live' = live - 1
    /\ UNCHANGED <<bm, cache, queued, pc, inst, after, calls, hasChan, lost, relapsed, object, budgets>>

\* Mutant: the error of an update is not returned once cleanup is done.
CleanupReturnsNil(ok) ==
    /\ UNCHANGED queued
    /\ hasChan' = (hasChan /\ ~(ok /\ after = "delete"))
    /\ pc' = "idle"
    /\ inst' = NoInstance
    /\ after' = "none"
    /\ UNCHANGED <<toSend, calls, cache, live, lost, relapsed>>

\* What the caller of cleanup does once it has returned without or with an error.
CleanupReturns(ok) ==
    /\ \/ /\ ok /\ after \in {"complete", "delete"}
          /\ UNCHANGED queued
       \/ /\ ~ok \/ after \notin {"complete", "delete"}
          /\ queued' = TRUE
    /\ hasChan' = (hasChan /\ ~(ok /\ after = "delete"))
    /\ pc' = "idle"
    /\ inst' = NoInstance
    /\ after' = "none"
    /\ UNCHANGED <<toSend, calls, cache, live, lost, relapsed>>

\* Mutant: cleanup leaves the finalizer alone.
StopRoutinesKeepsFinalizer ==
    /\ pc = "stop"
    /\ toSend = 0
    /\ CleanupReturns(TRUE)
    /\ UNCHANGED <<bm, object, budgets>>

StopRoutinesReturns ==
    /\ pc = "stop"
    /\ toSend = 0
    /\ \/ /\ after # "unknown" /\ inst.fin
          /\ pc' = "dropFin"
          /\ UNCHANGED <<cache, queued, inst, toSend, after, calls, memory>>
       \/ /\ after = "unknown" \/ ~inst.fin
          /\ CleanupReturns(TRUE)
    /\ UNCHANGED <<bm, object, budgets>>

RemoveFinalizer ==
    /\ pc = "dropFin"
    /\ LET stored == Stored([inst EXCEPT !.fin = FALSE])
       IN  \/ Succeeds(stored) /\ CleanupReturns(TRUE)
           \/ Fails(stored) /\ CleanupReturns(FALSE)
    /\ UNCHANGED <<object, edits, crashes, stale>>
-----------------------------------------------------------------------------
Reconcile ==
    \/ GetNothingToDo \/ GetDeleting \/ GetActive
    \/ FixupSpec \/ StartWorkloads \/ StartWorkloadsFails
    \/ WaitForInit \/ StartRates
    \/ KeepRunning \/ DoOutputs \/ ListFails
    \/ UpdateStatus \/ UpdateInstance
    \/ SendStop \/ StopRoutinesReturns \/ RemoveFinalizer

Next ==
    \/ Create \/ Delete \/ Edit
    \/ Sync \/ PodsAppear \/ PodsRun \/ PodsSucceed \/ RuntimeOver
    \/ Crash
    \/ Reconcile

Spec == Init /\ [][Next]_vars

(***************************************************************************)
(* The worker keeps working, the watch delivers, time passes, the pods of  *)
(* the workloads start.  Nothing obliges the user; faults and crashes are  *)
(* only possible.  Whether workloads end is up to them: FinishingSpec.     *)
(***************************************************************************)
Fairness ==
    /\ WF_vars(Reconcile)
    /\ WF_vars(Sync)
    /\ WF_vars(PodsAppear)
    /\ WF_vars(PodsRun)
    /\ WF_vars(RuntimeOver)

FairSpec == Spec /\ Fairness

FinishingSpec == FairSpec /\ WF_vars(PodsSucceed)
-----------------------------------------------------------------------------
(***************************************************************************)
(* Properties.                                                             *)
(***************************************************************************)
Versions ==
    [exists : BOOLEAN, uid : Nat, rv : Nat,
     state : {"", "Initializing", "Running", "Complete"}, rates : Nat,
     fin : BOOLEAN, deleting : BOOLEAN, fixed : BOOLEAN, bad : 0..NumRates]

PCs == {"idle", "start", "Initializing", "Running", "fixUpdate", "startStatus",
        "startUpdate", "runStatus", "runUpdate", "completeStatus", "stop", "dropFin"}

TypeOK ==
    /\ bm \in Versions /\ cache \in Versions /\ inst \in Versions
    /\ queued \in BOOLEAN
    /\ pc \in PCs
    /\ toSend \in Nat
    /\ calls \in 0..2
    /\ after \in {"none", "complete", "delete", "retry", "unknown"}
    /\ hasChan \in BOOLEAN /\ relapsed \in BOOLEAN
    /\ live \in Nat /\ lost \in Nat
    /\ work \in {"none", "created", "pending", "running", "succeeded"}
    /\ due \in BOOLEAN
    /\ starts \in Nat /\ posts \in Nat
    /\ edits \in 0..MaxEdits /\ faults \in 0..MaxFaults /\ crashes \in 0..MaxCrashes
    /\ stale \in 0..MaxStale

(***************************************************************************)
(* The comment at benchmark_controller.go:350-353 says the routines exit   *)
(* only when told so via the control channel.  Every routine listens on    *)
(* the channel that controlChannels still holds, so it can be told; and    *)
(* while the reconciler is between two calls, routines run only for an     *)
(* object that the server shows as Running with as many rates, and that    *)
(* RateFinalizer keeps from vanishing without a cleanup.  Of all old       *)
(* versions that Get may read, one can break this: the Initializing one of *)
(* an object that is Running, from which the rates are started again.      *)
(***************************************************************************)
RoutinesProtected ==
    ~relapsed =>
      /\ lost = 0
      /\ pc = "idle" /\ live > 0 =>
            /\ hasChan
            /\ bm.exists /\ bm.fin
            /\ bm.state = "Running"
            /\ live = 2 * bm.rates

\* What can make the reconciler do something again.
Disturbances == edits + faults + crashes + stale

(***************************************************************************)
(* The start branch instantiates each workload of a Benchmark once         *)
(* ("Number of workloads to instantiate", doc/benchmark_resource.md:60),   *)
(* and its metadata is output once; each write of somebody else, failed    *)
(* call, crash and stale read costs at most one repetition, and a deletion *)
(* none.                                                                   *)
(***************************************************************************)
RunsOnce == starts <= 1 + Disturbances /\ posts <= 1 + Disturbances

(***************************************************************************)
(* "So send two messages for each rate we have running"                    *)
(* (benchmark_controller.go:140-142): the first stopRoutines after         *)
(* startRates has exactly as many messages left as there are routines to   *)
(* take them, although it counts them in a copy of the object that may be  *)
(* old or refused by the server.  A further one, which a failed update, a  *)
(* deletion or a restart can bring about, blocks the only worker.          *)
(***************************************************************************)
StopMatched == pc = "stop" /\ toSend > 0 /\ calls = 1 => hasChan /\ live = toSend

(***************************************************************************)
(* The state of the object moves forward only, and is Complete only after  *)
(* the outputs, whatever fails (the reconciler implements Lifecycle).      *)
(***************************************************************************)
L == INSTANCE Lifecycle WITH
        phase  <- IF bm.exists THEN bm.state ELSE "absent",
        posted <- posts > 0

LifecycleSpec == L!LSpec

\* The pods have completed before the target time and were not replaced, the
\* time has come, and the outputs have not been sent.
Asleep ==
    /\ bm.state = "Running" /\ due /\ work = "succeeded" /\ posts = 0
    /\ pc = "idle" /\ ~queued

(***************************************************************************)
(* A started benchmark whose rates are all known ends: it is Complete, its *)
(* routines have been stopped and its finalizer is gone, or its object was *)
(* deleted.  With a Runtime it may sleep for ever instead: the reconciler  *)
(* asks for no wake-up at the target time and waits for an event of a pod, *)
(* and there is none when completed pods are not replaced.                 *)
(***************************************************************************)
Completes ==
    bm.state = "Initializing" /\ bm.bad = 0 ~>
        \/ ~bm.exists
        \/ bm.state = "Complete" /\ ~bm.fin /\ live = 0 /\ lost = 0
        \/ []Asleep

(***************************************************************************)
(* Deleting a Benchmark removes it ("To delete any resources created       *)
(* during the benchmark run", doc/examples/quickstart/README.md:43): the   *)
(* reconciler takes its finalizer off.                                     *)
(***************************************************************************)
DeletionCompletes == bm.deleting ~> ~bm.exists
=============================================================================
