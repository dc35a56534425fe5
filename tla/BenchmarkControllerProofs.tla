--------------------- MODULE BenchmarkControllerProofs ---------------------
(***************************************************************************)
(* Theorems about BenchmarkController: for any number of rates, any        *)
(* runtime, any number of objects, edits, failed writes, stale reads and   *)
(* crashes.                                                                *)
(***************************************************************************)
EXTENDS BenchmarkController, TLAPS

(***************************************************************************)
(* What the operators on versions of the object return.                    *)
(***************************************************************************)
LEMMA AbsentType ==
    \A uid, rv \in Nat : Absent(uid, rv) \in Versions
  BY ControllerAssumption DEF Absent, Versions

LEMMA FieldTypes ==
    \A b \in Versions : b.uid \in Nat /\ b.rv \in Nat /\ b.rates \in Nat
  BY DEF Versions

LEMMA Successors ==
    \A b \in Versions : b.uid + 1 \in Nat /\ b.rv + 1 \in Nat /\ 2 * b.rates \in Nat
  BY FieldTypes

LEMMA RemovedType ==
    \A b \in Versions : Removed(b) \in Versions
  BY AbsentType, FieldTypes, Successors DEF Removed

LEMMA StoredType ==
    ASSUME bm \in Versions, NEW b \in Versions
    PROVE  Stored(b) \in Versions
  BY RemovedType, Successors DEF Stored, Versions

LEMMA StatusStoredType ==
    ASSUME bm \in Versions, inst \in Versions
    PROVE  StatusStored \in Versions
  BY Successors DEF StatusStored, Versions

(***************************************************************************)
(* A write leaves the object as it was, or stores the new version.         *)
(***************************************************************************)
LEMMA WriteOutcome ==
    ASSUME NEW stored, Succeeds(stored) \/ Fails(stored), TypeOK
    PROVE  bm' \in {bm, stored} /\ faults' \in 0..MaxFaults
  BY ControllerAssumption DEF Succeeds, Fails, TypeOK

LEMMA StartedType == ASSUME inst \in Versions PROVE Started \in Nat
<1>1. inst.bad \in 0..NumRates
  BY DEF Versions
<1>2. QED
  BY <1>1, ControllerAssumption DEF Started

LEMMA CallsType ==
    \A b \in Versions, n \in 0..2 : CallsAfter(b, n) \in 0..2
  BY DEF CallsAfter

(***************************************************************************)
(* Type correctness.                                                       *)
(***************************************************************************)
THEOREM TypeCorrect == Spec => []TypeOK
<1> USE ControllerAssumption
<1>1. Init => TypeOK
  <2> SUFFICES ASSUME Init PROVE TypeOK
    OBVIOUS
  <2>1. bm \in Versions /\ cache \in Versions /\ inst \in Versions
    BY AbsentType DEF Init, NoInstance
  <2>2. /\ toSend \in Nat /\ live \in Nat /\ lost \in Nat
        /\ starts \in Nat /\ posts \in Nat /\ calls \in 0..2
        /\ edits \in 0..MaxEdits /\ faults \in 0..MaxFaults /\ crashes \in 0..MaxCrashes
        /\ stale \in 0..MaxStale
    BY DEF Init
  <2>3. QED
    BY <2>1, <2>2 DEF Init, TypeOK, PCs
<1>2. TypeOK /\ [Next]_vars => TypeOK'
  <2> SUFFICES ASSUME TypeOK, [Next]_vars PROVE TypeOK'
    OBVIOUS
  <2>0. NoInstance \in Versions
    BY AbsentType DEF NoInstance
  <2>1. CASE Create
    <3>1. bm' \in Versions
      <4>1. PICK f \in BOOLEAN, b \in BadRates :
              bm' = [Absent(bm.uid + 1, bm.rv + 1) EXCEPT !.exists = TRUE, !.fixed = f, !.bad = b]
        BY <2>1 DEF Create
      <4>2. Absent(bm.uid + 1, bm.rv + 1) \in Versions
        BY AbsentType, Successors DEF TypeOK
      <4>3. QED
        BY <4>1, <4>2 DEF Versions
    <3>2. starts' \in Nat /\ posts' \in Nat
      BY <2>1 DEF Create
    <3>3. QED
      BY <2>1, <3>1, <3>2 DEF Create, TypeOK, worker, memory, budgets
  <2>2. CASE Delete
    <3>1. bm' \in Versions
      BY <2>2, RemovedType, Successors DEF Delete, TypeOK, Versions
    <3>2. QED
      BY <2>2, <3>1 DEF Delete, TypeOK, worker, memory, object, budgets
  <2>3. CASE Edit
    <3>1. bm' \in Versions
      BY <2>3, Successors DEF Edit, TypeOK, Versions
    <3>2. QED
      BY <2>3, <3>1 DEF Edit, TypeOK, worker, memory, object
  <2>4. CASE Sync
    BY <2>4 DEF Sync, TypeOK, worker, memory, object, budgets
  <2>5. CASE PodsAppear \/ PodsRun \/ PodsSucceed
    BY <2>5 DEF PodsAppear, PodsRun, PodsSucceed, PodStep, TypeOK, worker, memory, budgets
  <2>6. CASE RuntimeOver
    BY <2>6 DEF RuntimeOver, TypeOK, worker, memory, budgets
  <2>7. CASE Crash
    <3>1. queued' \in BOOLEAN
      BY <2>7 DEF Crash, TypeOK, Versions
    <3>2. /\ toSend' \in Nat /\ live' \in Nat /\ lost' \in Nat /\ crashes' \in 0..MaxCrashes
          /\ calls' \in 0..2
      BY <2>7 DEF Crash, TypeOK
    <3>3. QED
      BY <2>7, <2>0, <3>1, <3>2 DEF Crash, TypeOK, PCs, object
  <2>g. ASSUME Get
        PROVE  /\ stale' \in 0..MaxStale /\ relapsed' \in BOOLEAN /\ queued' = FALSE
               /\ UNCHANGED <<bm, cache, hasChan, live, lost, object, edits, faults, crashes>>
    <3>1. relapsed' \in BOOLEAN
      BY <2>g DEF Get, Relapse, TypeOK
    <3>2. stale' \in 0..MaxStale
      BY <2>g DEF Get, TypeOK
    <3>3. QED
      BY <2>g, <3>1, <3>2 DEF Get
  <2>8. CASE GetNothingToDo
    BY <2>8, <2>g DEF GetNothingToDo, TypeOK, worker, object
  <2>9. CASE GetDeleting
    <3>1. 2 * cache.rates \in Nat /\ CallsAfter(cache, calls) \in 0..2
      BY Successors, CallsType DEF TypeOK
    <3>2. QED
      BY <2>9, <2>g, <3>1 DEF GetDeleting, Cleanup, TypeOK, PCs, object
  <2>10. CASE GetActive
    <3>1. pc' \in PCs
      BY <2>10 DEF GetActive, TypeOK, Versions, PCs
    <3>2. QED
      BY <2>10, <2>g, <3>1 DEF GetActive, TypeOK, object
  <2>11. CASE FixupSpec
    <3>1. inst' \in Versions
      BY <2>11 DEF FixupSpec, TypeOK, Versions
    <3>2. QED
      BY <2>11, <3>1 DEF FixupSpec, TypeOK, PCs, memory, object, budgets
  <2>12. ASSUME WorkloadsCreated
         PROVE  /\ work' \in {"none", "created", "pending", "running", "succeeded"}
                /\ starts' \in Nat /\ UNCHANGED <<due, posts>>
    BY <2>12 DEF WorkloadsCreated, TypeOK, object
  <2>13. CASE StartWorkloads
    <3>1. inst' \in Versions
      BY <2>13 DEF StartWorkloads, TypeOK, Versions
    <3>2. WorkloadsCreated
      BY <2>13 DEF StartWorkloads
    <3>3. QED
      BY <2>13, <2>12, <3>1, <3>2 DEF StartWorkloads, TypeOK, PCs, memory, budgets
  <2>14. CASE StartWorkloadsFails
    <3>1. WorkloadsCreated
      BY <2>14 DEF StartWorkloadsFails
    <3>2. QED
      BY <2>14, <2>12, <2>0, <3>1 DEF StartWorkloadsFails, Requeue, TypeOK, PCs, memory
  <2>15. CASE WaitForInit
    BY <2>15, <2>0 DEF WaitForInit, Requeue, TypeOK, PCs, memory, object, budgets
  <2>16. CASE StartRates
    <3>0. 2 * Started \in Nat /\ lost + live \in Nat
      BY StartedType DEF TypeOK
    <3>1. [inst EXCEPT !.rates = Started] \in Versions
      BY StartedType DEF TypeOK, Versions
    <3>2. [inst EXCEPT !.rates = Started, !.state = "Running",
                       !.fin = @ \/ Started > 0] \in Versions
      BY StartedType DEF TypeOK, Versions
    <3>3. [inst EXCEPT !.rates = Started].rates = Started
      BY DEF TypeOK, Versions
    <3>4. /\ NoCalls \in 0..2
          /\ CallsAfter([inst EXCEPT !.rates = Started], NoCalls) \in 0..2
      BY <3>1, CallsType DEF NoCalls
    <3>5. QED
      BY <2>16, <3>0, <3>1, <3>2, <3>3, <3>4 DEF StartRates, Cleanup, TypeOK, PCs, object, budgets
  <2>17. CASE KeepRunning
    BY <2>17, <2>0 DEF KeepRunning, TypeOK, PCs, memory, budgets
  <2>18. CASE DoOutputs
    <3>1. inst' \in Versions
      BY <2>18 DEF DoOutputs, TypeOK, Versions
    <3>2. posts' \in Nat
      BY <2>18 DEF DoOutputs, TypeOK
    <3>3. QED
      BY <2>18, <3>1, <3>2 DEF DoOutputs, TypeOK, PCs, memory, budgets
  <2>19. CASE ListFails
    BY <2>19, <2>0 DEF ListFails, Requeue, TypeOK, PCs, memory, object
  <2>20. CASE UpdateStatus
    <3>1. Succeeds(StatusStored) \/ Fails(StatusStored)
      BY <2>20 DEF UpdateStatus
    <3>2. bm' \in Versions /\ faults' \in 0..MaxFaults
      BY <3>1, WriteOutcome, StatusStoredType DEF TypeOK
    <3>3. [bm' EXCEPT !.fin = @ \/ inst.fin] \in Versions
      BY <3>2 DEF TypeOK, Versions
    <3>4. 2 * inst.rates \in Nat /\ 2 * [bm' EXCEPT !.fin = @ \/ inst.fin].rates \in Nat
      BY <3>3, Successors DEF TypeOK
    <3>c. /\ CallsAfter(inst, calls) \in 0..2
          /\ CallsAfter([bm' EXCEPT !.fin = @ \/ inst.fin], calls) \in 0..2
      BY <3>3, CallsType DEF TypeOK
    <3>5. inst' \in Versions /\ pc' \in PCs /\ toSend' \in Nat /\ calls' \in 0..2
          /\ after' \in {"none", "complete", "delete", "retry", "unknown"}
      BY <2>20, <3>3, <3>4, <3>c DEF UpdateStatus, Cleanup, TypeOK, PCs
    <3>6. QED
      BY <2>20, <3>2, <3>5 DEF UpdateStatus, TypeOK, memory, object
  <2>21. CASE UpdateInstance
    <3>1. Succeeds(Stored(inst)) \/ Fails(Stored(inst))
      BY <2>21 DEF UpdateInstance
    <3>2. bm' \in Versions /\ faults' \in 0..MaxFaults
      BY <3>1, WriteOutcome, StoredType DEF TypeOK
    <3>3. 2 * inst.rates \in Nat /\ CallsAfter(inst, calls) \in 0..2
      BY Successors, CallsType DEF TypeOK
    <3>4. QED
      BY <2>21, <2>0, <3>2, <3>3
      DEF UpdateInstance, Cleanup, Return, Requeue, TypeOK, PCs, memory, object
  <2>22. CASE SendStop
    BY <2>22 DEF SendStop, TypeOK, object, budgets
  <2>23. ASSUME NEW ok \in BOOLEAN, CleanupReturns(ok)
         PROVE  /\ queued' \in BOOLEAN /\ hasChan' \in BOOLEAN /\ pc' \in PCs
                /\ inst' \in Versions /\ after' = "none"
                /\ UNCHANGED <<toSend, calls, cache, live, lost, relapsed>>
    <3>1. hasChan' \in BOOLEAN
      BY <2>23, Zenon DEF CleanupReturns
    <3>2. QED
      BY <2>23, <2>0, <3>1 DEF CleanupReturns, TypeOK, PCs
  <2>24. CASE StopRoutinesReturns
    <3>1. CASE CleanupReturns(TRUE)
      BY <2>24, <2>23, <3>1 DEF StopRoutinesReturns, TypeOK, object, budgets
    <3>2. CASE ~CleanupReturns(TRUE)
      BY <2>24, <3>2 DEF StopRoutinesReturns, TypeOK, PCs, memory, object, budgets
    <3>3. QED
      BY <3>1, <3>2
  <2>25. CASE RemoveFinalizer
    <3> DEFINE b == [inst EXCEPT !.fin = FALSE]
    <3>1. Succeeds(Stored(b)) \/ Fails(Stored(b))
      BY <2>25 DEF RemoveFinalizer
    <3>2. b \in Versions
      BY DEF TypeOK, Versions
    <3>3. bm' \in Versions /\ faults' \in 0..MaxFaults
      BY <3>1, <3>2, WriteOutcome, StoredType DEF TypeOK
    <3>4. CleanupReturns(TRUE) \/ CleanupReturns(FALSE)
      BY <2>25 DEF RemoveFinalizer
    <3>5. QED
      BY <2>25, <2>23, <3>3, <3>4 DEF RemoveFinalizer, TypeOK, object
  <2>26. CASE UNCHANGED vars
    BY <2>26 DEF vars, TypeOK, worker, memory, object, budgets
  <2>27. QED
    BY <2>1, <2>2, <2>3, <2>4, <2>5, <2>6, <2>7, <2>8, <2>9, <2>10, <2>11,
       <2>13, <2>14, <2>15, <2>16, <2>17, <2>18, <2>19, <2>20, <2>21, <2>22,
       <2>24, <2>25, <2>26 DEF Next, Reconcile
<1>3. QED
  BY <1>1, <1>2, PTL DEF Spec
-----------------------------------------------------------------------------
(***************************************************************************)
(* What the writes do to the object.                                       *)
(***************************************************************************)
LEMMA RemovedFields ==
    ASSUME NEW b \in Versions
    PROVE  /\ ~Removed(b).exists /\ Removed(b).uid = b.uid
           /\ Removed(b).rv > b.rv
  BY FieldTypes DEF Removed, Absent

LEMMA NoInstanceFields == NoInstance.rv = 0 /\ NoInstance.uid = 0
  BY DEF NoInstance, Absent

LEMMA StatusStoredFields ==
    ASSUME bm \in Versions, inst \in Versions
    PROVE  /\ StatusStored.rv > bm.rv
           /\ StatusStored.uid = bm.uid /\ StatusStored.exists = bm.exists
           /\ StatusStored.state = inst.state /\ StatusStored.rates = inst.rates
           /\ StatusStored.fin = bm.fin
<1> DEFINE b == [bm EXCEPT !.state = inst.state, !.rates = inst.rates, !.rv = bm.rv + 1]
<1>1. StatusStored = b
  BY DEF StatusStored
<1>2. /\ b.rv = bm.rv + 1 /\ b.uid = bm.uid /\ b.exists = bm.exists
      /\ b.state = inst.state /\ b.rates = inst.rates /\ b.fin = bm.fin
  BY DEF Versions
<1>3. bm.rv + 1 > bm.rv
  BY FieldTypes
<1>4. QED
  BY <1>1, <1>2, <1>3

LEMMA StoredFields ==
    ASSUME bm \in Versions, NEW b \in Versions, Stored(b) # bm
    PROVE  /\ Stored(b).rv > bm.rv /\ Stored(b).uid = bm.uid
           /\ Stored(b).exists =>
                 /\ bm.exists /\ Stored(b).state = bm.state
                 /\ Stored(b).rates = bm.rates
           /\ b.fin /\ bm.exists => Stored(b).exists
<1>1. CASE bm.deleting /\ ~b.fin
  BY <1>1, RemovedFields DEF Stored
<1>2. CASE ~(bm.deleting /\ ~b.fin)
  <2> DEFINE c == [bm EXCEPT !.fin = b.fin, !.fixed = b.fixed, !.rv = bm.rv + 1]
  <2>1. Stored(b) = c
    BY <1>2 DEF Stored
  <2>2. /\ c.rv = bm.rv + 1 /\ c.uid = bm.uid /\ c.exists = bm.exists
        /\ c.state = bm.state /\ c.rates = bm.rates
    BY DEF Versions
  <2>3. bm.rv + 1 > bm.rv
    BY FieldTypes
  <2>4. QED
    BY <2>1, <2>2, <2>3
<1>3. QED
  BY <1>1, <1>2

LEMMA StoredFinalizer ==
    ASSUME bm \in Versions, NEW b \in Versions, Stored(b).exists, b.fin
    PROVE  Stored(b).fin
<1>1. CASE bm.deleting /\ ~b.fin
  BY <1>1
<1>2. CASE ~(bm.deleting /\ ~b.fin)
  BY <1>2 DEF Stored, Versions
<1>3. QED
  BY <1>1, <1>2
-----------------------------------------------------------------------------
(***************************************************************************)
(* BenchmarkController implements Lifecycle for every value of its         *)
(* constants: whatever the user does, however far the cache lags behind,   *)
(* whichever writes fail and whenever the process dies.                    *)
(***************************************************************************)

(***************************************************************************)
(* A copy of the object is never ahead of the server, and has the uid of   *)
(* the object whose version it has.                                        *)
(***************************************************************************)
Behind(b) ==
    /\ b.rv <= bm.rv /\ b.uid <= bm.uid
    /\ bm.exists /\ b.rv = bm.rv => b.uid = bm.uid

(***************************************************************************)
(* A version that was Running is of an object that still is, or that is    *)
(* Complete by now.                                                        *)
(***************************************************************************)
StillRunning == bm.state \in {"Running", "Complete"}

\* The object has no state yet.
Fresh == bm.state = ""

CacheInv ==
    /\ Behind(cache)
    /\ cache.rv = bm.rv => cache.state = bm.state
    /\ cache.state = "Running" /\ bm.exists /\ cache.uid = bm.uid => StillRunning

(***************************************************************************)
(* The state that the object has if the write that follows is not refused, *)
(* and the state that it writes.                                           *)
(***************************************************************************)
WorkerInv ==
    /\ Behind(inst)
    /\ pc \in {"start", "startStatus"} /\ UpToDate => Fresh
    /\ pc \in {"Initializing", "runStatus"} /\ UpToDate => bm.state = "Initializing"
    /\ pc \in {"Running", "completeStatus"} /\ UpToDate => bm.state = "Running"
    /\ pc \in {"Running", "completeStatus"} /\ SameObject => StillRunning
    /\ pc = "startStatus" => inst.state = "Initializing"
    /\ pc = "runStatus" => inst.state = "Running"
    /\ pc = "completeStatus" => inst.state = "Complete"

PostInv ==
    /\ bm.exists => bm.rv > 0
    /\ bm.exists /\ bm.state = "Complete" => posts > 0
    /\ pc = "completeStatus" /\ SameObject => posts > 0

LifeInv == CacheInv /\ WorkerInv /\ PostInv

LStep == [L!LNext]_(L!lvars)

(***************************************************************************)
(* The fields that LifeInv compares are numbers.                           *)
(***************************************************************************)
LEMMA NatFields ==
    ASSUME TypeOK
    PROVE  /\ bm.rv \in Nat /\ bm.uid \in Nat
           /\ cache.rv \in Nat /\ cache.uid \in Nat
           /\ inst.rv \in Nat /\ inst.uid \in Nat
           /\ posts \in Nat
  BY FieldTypes DEF TypeOK

(***************************************************************************)
(* A write that does not touch the state, or that removes the object.      *)
(***************************************************************************)
LEMMA Rewritten ==
    ASSUME TypeOK, LifeInv,
           bm'.rv \in Nat, bm'.rv > bm.rv, bm'.uid = bm.uid,
           bm'.exists => bm.exists /\ bm'.state = bm.state,
           UNCHANGED <<cache, posts>>,
           \/ UNCHANGED <<pc, inst>>
           \/ pc' = "stop" /\ inst' = inst
           \/ pc' = "idle" /\ inst' = NoInstance
    PROVE  LifeInv' /\ LStep
<1>0. /\ bm.rv \in Nat /\ bm.uid \in Nat /\ inst.rv \in Nat /\ inst.uid \in Nat
      /\ inst.rv <= bm.rv /\ inst.uid <= bm.uid
  BY NatFields DEF LifeInv, WorkerInv, Behind
<1>1. CacheInv'
  BY NatFields DEF LifeInv, CacheInv, Behind, StillRunning
<1>2. inst'.rv < bm'.rv /\ inst'.uid <= bm'.uid
  BY <1>0, NoInstanceFields
<1>3. Behind(inst)' /\ ~UpToDate'
  BY <1>0, <1>2, NoInstanceFields DEF Behind, UpToDate
<1>4. LStep
  BY DEF LStep, L!LNext, L!LRemove, L!lvars
<1>5. CASE UNCHANGED <<pc, inst>>
  <2>1. SameObject' => SameObject /\ bm'.state = bm.state
    BY <1>5 DEF SameObject
  <2>2. WorkerInv'
    BY <1>3, <1>5, <2>1 DEF LifeInv, WorkerInv, StillRunning
  <2>3. PostInv'
    BY <1>0, <1>5, <2>1 DEF LifeInv, PostInv
  <2>4. QED
    BY <1>1, <1>4, <2>2, <2>3 DEF LifeInv
<1>6. CASE pc' \in {"stop", "idle"}
  <2>1. WorkerInv'
    BY <1>3, <1>6 DEF WorkerInv
  <2>2. PostInv'
    BY <1>0, <1>6 DEF LifeInv, PostInv
  <2>3. QED
    BY <1>1, <1>4, <2>1, <2>2 DEF LifeInv
<1>7. QED
  BY <1>5, <1>6

(***************************************************************************)
(* The places in Reconcile at which LifeInv says something of the object.  *)
(***************************************************************************)
StatePoints == {"start", "startStatus", "Initializing", "runStatus", "Running", "completeStatus"}

(***************************************************************************)
(* A step that leaves the object alone and the worker somewhere else.      *)
(***************************************************************************)
LEMMA Parked ==
    ASSUME TypeOK, LifeInv, UNCHANGED <<bm, posts>>, cache' \in {cache, bm},
           Behind(inst)', pc' \notin StatePoints
    PROVE  LifeInv' /\ LStep
<1>1. CacheInv'
  BY NatFields DEF LifeInv, CacheInv, Behind, StillRunning
<1>2. WorkerInv'
  BY DEF WorkerInv, StatePoints
<1>3. PostInv'
  BY DEF LifeInv, PostInv, StatePoints
<1>4. QED
  BY <1>1, <1>2, <1>3 DEF LifeInv, LStep, L!lvars

(***************************************************************************)
(* The copies that the worker takes are not ahead of the server.           *)
(***************************************************************************)
LEMMA CopiesBehind ==
    ASSUME TypeOK, LifeInv, bm' = bm,
           \/ inst' \in {NoInstance, cache}
           \/ inst'.rv = inst.rv /\ inst'.uid = inst.uid
    PROVE  Behind(inst)'
<1>1. CASE inst' = NoInstance
  <2>1. bm.exists => bm.rv > 0
    BY DEF LifeInv, PostInv
  <2>2. QED
    BY <1>1, <2>1, NatFields, NoInstanceFields DEF Behind
<1>2. CASE inst' = cache
  BY <1>2 DEF LifeInv, CacheInv, Behind
<1>3. CASE inst'.rv = inst.rv /\ inst'.uid = inst.uid
  BY <1>3 DEF LifeInv, WorkerInv, Behind
<1>4. QED
  BY <1>1, <1>2, <1>3

(***************************************************************************)
(* The status writes: the state stored follows the one the object had, and *)
(* Complete follows the outputs.                                           *)
(***************************************************************************)
LEMMA StatusWritten ==
    ASSUME TypeOK, LifeInv, UpdateStatus, bm' = StatusStored, UpToDate
    PROVE  LifeInv' /\ LStep
<1>1. /\ bm'.rv > bm.rv /\ bm'.rv \in Nat /\ bm'.uid = bm.uid /\ bm.exists /\ bm'.exists
      /\ bm'.state = inst.state /\ bm' \in Versions
  BY StatusStoredFields, StatusStoredType, FieldTypes DEF TypeOK, UpToDate
<1>2. UNCHANGED <<cache, posts>> /\ pc \in StatusWritePoints
  BY DEF UpdateStatus, object
<1>3. \/ pc = "startStatus" /\ Fresh /\ bm'.state = "Initializing"
      \/ pc = "runStatus" /\ bm.state = "Initializing" /\ bm'.state = "Running"
      \/ pc = "completeStatus" /\ bm.state = "Running" /\ bm'.state = "Complete"
  BY <1>1, <1>2 DEF LifeInv, WorkerInv, StatusWritePoints
<1>4. SameObject
  BY <1>1 DEF LifeInv, WorkerInv, Behind, SameObject, UpToDate
<1>5. pc = "completeStatus" => posts > 0
  BY <1>4 DEF LifeInv, PostInv
<1>6. CacheInv'
  <2>1. cache.rv < bm'.rv /\ cache.uid <= bm'.uid
    BY <1>1, NatFields DEF LifeInv, CacheInv, Behind
  <2>2. Behind(cache)' /\ (cache.rv # bm'.rv)
    BY <1>1, <1>2, <2>1, NatFields DEF Behind
  <2>3. cache.state = "Running" /\ cache.uid = bm.uid => bm.state \in {"Running", "Complete"}
    BY <1>1 DEF LifeInv, CacheInv, StillRunning
  <2>4. cache.state = "Running" /\ cache.uid = bm.uid => bm'.state = "Complete"
    BY <1>3, <2>3 DEF Fresh
  <2>5. QED
    BY <1>1, <1>2, <2>2, <2>4 DEF CacheInv, StillRunning
<1>7. pc' \in {"startUpdate", "runUpdate", "stop"}
  BY DEF UpdateStatus, Cleanup
<1>8. WorkerInv'
  <2>1. CASE inst' = inst
    <3>0. inst.rv <= bm.rv /\ inst.uid <= bm.uid
      BY DEF LifeInv, WorkerInv, Behind
    <3>1. inst.rv < bm'.rv /\ inst.uid <= bm'.uid
      BY <1>1, <3>0, NatFields
    <3>2. Behind(inst)'
      BY <1>1, <2>1, <3>1, NatFields DEF Behind
    <3>3. QED
      BY <1>7, <3>2 DEF WorkerInv
  <2>2. CASE inst' = [bm' EXCEPT !.fin = @ \/ inst.fin]
    <3>1. inst'.rv = bm'.rv /\ inst'.uid = bm'.uid
      BY <1>1, <2>2 DEF Versions
    <3>2. Behind(inst)'
      BY <1>1, <3>1, NatFields DEF Behind
    <3>3. QED
      BY <1>7, <3>2 DEF WorkerInv
  <2>3. QED
    BY <2>1, <2>2 DEF UpdateStatus, Cleanup
<1>9. PostInv'
  <2>1. bm'.rv > 0
    BY <1>1, NatFields
  <2>2. bm'.state = "Complete" => posts' > 0
    BY <1>2, <1>3, <1>5
  <2>3. QED
    BY <1>7, <2>1, <2>2 DEF PostInv
<1>10. LStep
  BY <1>1, <1>2, <1>3, <1>5 DEF LStep, L!LNext, L!LInitialize, L!LRun, L!LComplete, Fresh
<1>11. QED
  BY <1>6, <1>8, <1>9, <1>10 DEF LifeInv
-----------------------------------------------------------------------------
(***************************************************************************)
(* Every step keeps LifeInv and is a step of Lifecycle, or none.           *)
(***************************************************************************)
LEMMA LifeStep ==
    ASSUME TypeOK, LifeInv, [Next]_vars PROVE LifeInv' /\ LStep
<1>a. bm \in Versions /\ cache \in Versions /\ inst \in Versions
  BY DEF TypeOK
<1>1. CASE Create
  <2>1. /\ ~bm.exists /\ bm'.rv = bm.rv + 1 /\ bm'.uid = bm.uid + 1
        /\ bm'.exists /\ posts' = 0
        /\ UNCHANGED <<cache, pc, inst>>
    BY <1>1 DEF Create, Absent, worker
  <2>0. bm'.state = ""
    BY <1>1 DEF Create, Absent
  <2>2. /\ cache.rv <= bm.rv /\ cache.uid <= bm.uid
        /\ inst.rv <= bm.rv /\ inst.uid <= bm.uid
    BY DEF LifeInv, CacheInv, WorkerInv, Behind
  <2>3. /\ cache.rv < bm'.rv /\ cache.uid < bm'.uid
        /\ inst.rv < bm'.rv /\ inst.uid < bm'.uid /\ bm'.rv > 0
        /\ bm'.rv \in Nat /\ bm'.uid \in Nat
    BY <2>1, <2>2, NatFields
  <2>4. Behind(cache)' /\ Behind(inst)' /\ cache.rv # bm'.rv /\ cache.uid # bm'.uid
    BY <2>1, <2>3, NatFields DEF Behind
  <2>5. ~UpToDate' /\ ~SameObject'
    BY <2>1, <2>3, NatFields DEF UpToDate, SameObject
  <2>6. CacheInv'
    BY <2>1, <2>4 DEF CacheInv
  <2>7. WorkerInv'
    BY <2>1, <2>4, <2>5 DEF LifeInv, WorkerInv
  <2>8. PostInv'
    <3>1. bm'.state # "Complete"
      BY <2>0
    <3>2. QED
      BY <2>3, <2>5, <3>1 DEF PostInv
  <2>9. LStep
    <3>1. (posts' > 0) = FALSE
      BY <2>1
    <3>2. QED
      BY <2>0, <2>1, <3>1, Zenon DEF LStep, L!LNext, L!LCreate
  <2>10. QED
    BY <2>6, <2>7, <2>8, <2>9 DEF LifeInv
<1>2. CASE Delete \/ Edit
  <2>1. \/ bm' = Removed(bm)
        \/ /\ bm'.rv = bm.rv + 1 /\ bm'.uid = bm.uid
           /\ bm'.exists = bm.exists /\ bm'.state = bm.state
    BY <1>2, <1>a DEF Delete, Edit, Versions
  <2>2. /\ bm'.rv > bm.rv /\ bm'.rv \in Nat /\ bm'.uid = bm.uid
        /\ bm'.exists => bm.exists /\ bm'.state = bm.state
    BY <1>a, <2>1, RemovedFields, RemovedType, FieldTypes, Successors
  <2>3. UNCHANGED <<cache, posts, pc, inst>>
    BY <1>2 DEF Delete, Edit, worker, object
  <2>4. QED
    BY <2>2, <2>3, Rewritten
<1>b. ASSUME bm' = bm PROVE Fresh' = Fresh /\ StillRunning' = StillRunning
  BY <1>b DEF Fresh, StillRunning
<1>3. CASE UNCHANGED <<bm, cache, pc, inst, posts>>
  BY <1>3, <1>b DEF LifeInv, CacheInv, WorkerInv, PostInv, Behind,
     UpToDate, SameObject, LStep, L!lvars
<1>4. CASE Sync
  <2>1. cache' = bm /\ UNCHANGED <<bm, pc, inst, posts>>
    BY <1>4 DEF Sync, worker, object
  <2>2. CacheInv'
    BY <2>1, NatFields DEF CacheInv, Behind, StillRunning
  <2>3. WorkerInv' /\ PostInv'
    BY <1>b, <2>1 DEF LifeInv, WorkerInv, PostInv, Behind, UpToDate, SameObject
  <2>4. QED
    BY <2>1, <2>2, <2>3 DEF LifeInv, LStep, L!lvars
<1>5. CASE \/ PodsAppear \/ PodsRun \/ PodsSucceed \/ RuntimeOver
           \/ GetNothingToDo \/ SendStop \/ UNCHANGED vars
  BY <1>3, <1>5 DEF PodsAppear, PodsRun, PodsSucceed, PodStep, RuntimeOver,
     GetNothingToDo, Get, SendStop, vars, worker, object
<1>6. CASE \/ StartWorkloadsFails \/ WaitForInit \/ ListFails \/ KeepRunning
           \/ Crash
  <2>1. /\ UNCHANGED <<bm, posts>> /\ cache' \in {cache, bm}
        /\ pc' = "idle" /\ inst' = NoInstance
    BY <1>6 DEF StartWorkloadsFails, WorkloadsCreated, WaitForInit, ListFails,
       KeepRunning, Crash, Requeue, object
  <2>2. QED
    BY <2>1, CopiesBehind, Parked DEF StatePoints
<1>7. CASE GetDeleting
  <2>1. UNCHANGED <<bm, posts, cache>> /\ pc' = "stop" /\ inst' = cache
    BY <1>7 DEF GetDeleting, Get, Cleanup, object
  <2>2. QED
    BY <2>1, CopiesBehind, Parked DEF StatePoints
<1>8. CASE GetActive
  <2>1. /\ UNCHANGED <<bm, cache, posts>> /\ inst' = cache
        /\ \/ cache.state = "" /\ pc' = "start"
           \/ cache.state = "Initializing" /\ pc' = "Initializing"
           \/ cache.state = "Running" /\ pc' = "Running"
    BY <1>8, <1>a DEF GetActive, Get, object, Versions
  <2>2. Behind(inst)'
    BY <2>1, CopiesBehind
  <2>3. UpToDate' => bm.state = cache.state
    BY <2>1 DEF UpToDate, LifeInv, CacheInv
  <2>4. cache.state = "Running" /\ SameObject' => StillRunning
    BY <2>1 DEF SameObject, LifeInv, CacheInv
  <2>5. WorkerInv'
    <3>1. /\ pc' \in {"start", "Initializing", "Running"}
          /\ pc' = "start" /\ UpToDate' => Fresh'
          /\ pc' = "Initializing" /\ UpToDate' => bm'.state = "Initializing"
          /\ pc' = "Running" /\ UpToDate' => bm'.state = "Running"
          /\ pc' = "Running" /\ SameObject' => StillRunning'
      <4>1. CASE cache.state = "" /\ pc' = "start"
        BY <2>1, <2>3, <4>1 DEF Fresh
      <4>2. CASE cache.state = "Initializing" /\ pc' = "Initializing"
        BY <2>1, <2>3, <4>2
      <4>3. CASE cache.state = "Running" /\ pc' = "Running"
        BY <1>b, <2>1, <2>3, <2>4, <4>3
      <4>4. QED
        BY <2>1, <4>1, <4>2, <4>3
    <3>2. QED
      BY <2>2, <3>1 DEF WorkerInv
  <2>6. CacheInv' /\ PostInv'
    BY <2>1 DEF LifeInv, CacheInv, PostInv, Behind, StillRunning
  <2>7. QED
    BY <2>1, <2>5, <2>6 DEF LifeInv, LStep, L!lvars
<1>9. CASE FixupSpec
  <2>1. /\ UNCHANGED <<bm, posts, cache>> /\ pc' = "fixUpdate"
        /\ inst'.rv = inst.rv /\ inst'.uid = inst.uid
    BY <1>9, <1>a DEF FixupSpec, object, Versions
  <2>2. QED
    BY <2>1, CopiesBehind, Parked DEF StatePoints
<1>10. ASSUME UNCHANGED <<bm, cache, posts>>, inst'.rv = inst.rv, inst'.uid = inst.uid,
              \/ pc = "start" /\ pc' = "startStatus" /\ inst'.state = "Initializing"
              \/ pc = "Initializing" /\ pc' = "runStatus" /\ inst'.state = "Running"
       PROVE  LifeInv' /\ LStep
  <2>1. Behind(inst)'
    BY <1>10, CopiesBehind
  <2>2. UpToDate' = UpToDate
    BY <1>10 DEF UpToDate
  <2>3. WorkerInv'
    BY <1>b, <1>10, <2>1, <2>2 DEF LifeInv, WorkerInv
  <2>4. CacheInv' /\ PostInv'
    BY <1>10 DEF LifeInv, CacheInv, PostInv, Behind, StillRunning
  <2>5. QED
    BY <1>10, <2>3, <2>4 DEF LifeInv, LStep, L!lvars
<1>11. CASE StartWorkloads
  <2>1. /\ UNCHANGED <<bm, cache, posts>>
        /\ inst'.rv = inst.rv /\ inst'.uid = inst.uid
        /\ pc = "start" /\ pc' = "startStatus" /\ inst'.state = "Initializing"
    BY <1>11, <1>a DEF StartWorkloads, WorkloadsCreated, object, Versions
  <2>2. QED
    BY <1>10, <2>1
<1>12. CASE StartRates
  <2>1. /\ UNCHANGED <<bm, cache, posts>> /\ pc = "Initializing"
        /\ inst'.rv = inst.rv /\ inst'.uid = inst.uid
        /\ \/ pc' = "runStatus" /\ inst'.state = "Running"
           \/ pc' = "stop"
    BY <1>12, <1>a DEF StartRates, Cleanup, object, Versions
  <2>2. CASE pc' = "stop"
    BY <2>1, <2>2, CopiesBehind, Parked DEF StatePoints
  <2>3. CASE pc' # "stop"
    BY <1>10, <2>1, <2>3
  <2>4. QED
    BY <2>2, <2>3
<1>13. CASE DoOutputs
  <2>1. /\ UNCHANGED <<bm, cache>> /\ inst'.rv = inst.rv /\ inst'.uid = inst.uid
        /\ inst'.state = "Complete" /\ pc = "Running" /\ pc' = "completeStatus"
        /\ posts' = IF SameObject THEN posts + 1 ELSE posts
    BY <1>13, <1>a DEF DoOutputs, Versions
  <2>2. Behind(inst)'
    BY <2>1, CopiesBehind
  <2>3. UpToDate' = UpToDate /\ SameObject' = SameObject
    BY <2>1 DEF UpToDate, SameObject
  <2>4. SameObject => StillRunning /\ posts' > 0
    BY <2>1, NatFields DEF LifeInv, WorkerInv
  <2>5. posts > 0 => posts' > 0
    BY <2>1, <2>4
  <2>6. WorkerInv'
    BY <2>1, <2>2, <2>3, <2>4 DEF LifeInv, WorkerInv, StillRunning
  <2>7. CacheInv'
    BY <2>1 DEF LifeInv, CacheInv, Behind, StillRunning
  <2>8. PostInv'
    BY <2>1, <2>3, <2>4, <2>5 DEF LifeInv, PostInv
  <2>9. LStep
    <3>1. CASE ~SameObject
      BY <2>1, <3>1 DEF LStep, L!lvars
    <3>2. CASE SameObject /\ bm.state = "Running"
      BY <2>1, <2>4, <3>2 DEF LStep, L!LNext, L!LPost, SameObject
    <3>3. CASE SameObject /\ bm.state = "Complete"
      <4>1. posts > 0 /\ posts' > 0
        BY <2>4, <3>3 DEF SameObject, LifeInv, PostInv
      <4>2. QED
        BY <2>1, <4>1 DEF LStep, L!lvars
    <3>4. QED
      BY <2>4, <3>1, <3>2, <3>3 DEF StillRunning
  <2>10. QED
    BY <2>6, <2>7, <2>8, <2>9 DEF LifeInv
<1>14. CASE UpdateStatus
  <2>1. bm' \in {bm, StatusStored} /\ UNCHANGED <<cache, posts>>
    BY <1>14, WriteOutcome DEF UpdateStatus, object
  <2>2. CASE bm' = StatusStored /\ UpToDate
    BY <1>14, <2>2, StatusWritten
  <2>3. CASE ~(bm' = StatusStored /\ UpToDate)
    <3>1. bm' = bm /\ Cleanup(inst, "retry", calls)
      BY <1>14, <2>1, <2>3 DEF UpdateStatus, Succeeds, Fails
    <3>2. pc' = "stop" /\ inst' = inst
      BY <3>1 DEF Cleanup
    <3>3. QED
      BY <2>1, <3>1, <3>2, CopiesBehind, Parked DEF StatePoints
  <2>4. QED
    BY <2>2, <2>3
<1>15. CASE UpdateInstance \/ RemoveFinalizer
  <2>1. PICK b \in {inst, [inst EXCEPT !.fin = FALSE]} : bm' \in {bm, Stored(b)}
    BY <1>15, WriteOutcome DEF UpdateInstance, RemoveFinalizer
  <2>2. b \in Versions
    BY <1>a DEF Versions
  <2>3. /\ UNCHANGED <<cache, posts>>
        /\ \/ pc' = "stop" /\ inst' = inst
           \/ pc' = "idle" /\ inst' = NoInstance
    BY <1>15 DEF UpdateInstance, RemoveFinalizer, Cleanup, Return, Requeue,
       CleanupReturns, object
  <2>4. CASE bm' = bm
    BY <2>3, <2>4, CopiesBehind, Parked DEF StatePoints
  <2>5. CASE bm' # bm
    <3>1. Stored(b) # bm /\ bm' = Stored(b)
      BY <2>1, <2>5
    <3>2. /\ bm'.rv > bm.rv /\ bm'.rv \in Nat /\ bm'.uid = bm.uid
          /\ bm'.exists => bm.exists /\ bm'.state = bm.state
      BY <1>a, <2>2, <3>1, StoredFields, StoredType, FieldTypes
    <3>3. QED
      BY <2>3, <3>2, Rewritten
  <2>6. QED
    BY <2>4, <2>5
<1>16. CASE StopRoutinesReturns
  <2>1. /\ UNCHANGED <<bm, cache, posts>>
        /\ \/ pc' = "dropFin" /\ inst' = inst
           \/ pc' = "idle" /\ inst' = NoInstance
    BY <1>16 DEF StopRoutinesReturns, CleanupReturns, object
  <2>2. QED
    BY <2>1, CopiesBehind, Parked DEF StatePoints
<1>17. QED
  BY <1>1, <1>2, <1>4, <1>5, <1>6, <1>7, <1>8, <1>9, <1>11, <1>12, <1>13,
     <1>14, <1>15, <1>16 DEF Next, Reconcile

(***************************************************************************)
(* LifeInv is an invariant.                                                *)
(***************************************************************************)
LEMMA LifeInvariant == Spec => []LifeInv
<1>1. Init => LifeInv
  <2> SUFFICES ASSUME Init PROVE LifeInv
    OBVIOUS
  <2>1. /\ ~bm.exists /\ bm.rv = 0 /\ bm.uid = 0
        /\ cache = bm /\ inst = bm /\ pc = "idle"
    BY DEF Init, NoInstance, Absent
  <2>2. Behind(cache) /\ Behind(inst)
    BY <2>1 DEF Behind
  <2>3. QED
    BY <2>1, <2>2 DEF LifeInv, CacheInv, WorkerInv, PostInv
<1>2. TypeOK /\ LifeInv /\ [Next]_vars => LifeInv'
  BY LifeStep
<1>3. QED
  BY <1>1, <1>2, TypeCorrect, PTL DEF Spec

(***************************************************************************)
(* The reconciler implements Lifecycle: the state of a Benchmark moves     *)
(* forward one phase at a time and is Complete only after the outputs,     *)
(* also when the cache is stale, writes fail after they were stored, the   *)
(* user deletes and re-creates the object between two calls of one         *)
(* Reconcile, or the process dies.  The versions of the writes are all     *)
(* that this rests on.                                                     *)
(***************************************************************************)
THEOREM ImplementsLifecycle == Spec => LifecycleSpec
<1>1. Init => L!LInit
  <2>1. Init => posts = 0 /\ bm = Absent(0, 0)
    BY DEF Init
  <2>2. ~Absent(0, 0).exists
    BY DEF Absent
  <2>3. QED
    BY <2>1, <2>2 DEF L!LInit
<1>2. TypeOK /\ LifeInv /\ [Next]_vars => [L!LNext]_(L!lvars)
  BY LifeStep DEF LStep
<1>3. QED
  BY <1>1, <1>2, TypeCorrect, LifeInvariant, PTL DEF Spec, LifecycleSpec, L!LSpec
-----------------------------------------------------------------------------
(***************************************************************************)
(* What the versions of an object have in common: no rates and no          *)
(* finalizer before it is Running, all its rates from then on.             *)
(***************************************************************************)
VersionOK(b) ==
    /\ b.state \in {"", "Initializing"} => b.rates = 0 /\ ~b.fin /\ ~b.deleting
    /\ b.state \in {"Running", "Complete"} => b.rates = NumRates

StartPoints == {"start", "fixUpdate", "startStatus", "startUpdate", "Initializing"}
RunPoints   == {"runStatus", "runUpdate", "Running", "completeStatus"}

CopyInv ==
    /\ pc \in StartPoints => inst.rates = 0 /\ ~inst.fin
    /\ pc \in RunPoints => inst.rates = NumRates
    /\ pc = "runUpdate" /\ UpToDate => bm.state = "Running"

VersionInv == VersionOK(bm) /\ VersionOK(cache) /\ CopyInv

LEMMA AbsentVersion ==
    ASSUME NEW uid, NEW rv
    PROVE  VersionOK(Absent(uid, rv)) /\ ~Absent(uid, rv).exists
  BY DEF VersionOK, Absent

(***************************************************************************)
(* What Update stores: the finalizer of the copy, unless it removes a      *)
(* deleted object.                                                         *)
(***************************************************************************)
LEMMA StoredRest ==
    ASSUME bm \in Versions, NEW b \in Versions
    PROVE  \/ /\ bm.deleting /\ ~b.fin
              /\ Stored(b) = Removed(bm)
           \/ /\ ~(bm.deleting /\ ~b.fin)
              /\ Stored(b).fin = b.fin /\ Stored(b).deleting = bm.deleting
              /\ Stored(b).exists = bm.exists /\ Stored(b).state = bm.state
              /\ Stored(b).rates = bm.rates
<1>1. CASE bm.deleting /\ ~b.fin
  BY <1>1 DEF Stored
<1>2. CASE ~(bm.deleting /\ ~b.fin)
  <2> DEFINE c == [bm EXCEPT !.fin = b.fin, !.fixed = b.fixed, !.rv = bm.rv + 1]
  <2>1. Stored(b) = IF bm.fin = b.fin /\ bm.fixed = b.fixed THEN bm ELSE c
    BY <1>2 DEF Stored
  <2>2. /\ c.fin = b.fin /\ c.deleting = bm.deleting /\ c.exists = bm.exists
        /\ c.state = bm.state /\ c.rates = bm.rates
    BY DEF Versions
  <2>3. QED
    BY <1>2, <2>1, <2>2
<1>3. QED
  BY <1>1, <1>2

(***************************************************************************)
(* A step that leaves the object alone and the worker somewhere else.      *)
(***************************************************************************)
LEMMA VersionsParked ==
    ASSUME VersionInv, bm' = bm, cache' \in {cache, bm},
           \/ pc' \in {"idle", "stop", "dropFin"}
           \/ UNCHANGED <<pc, inst>>
    PROVE  VersionInv'
<1>1. VersionOK(bm)' /\ VersionOK(cache)'
  BY DEF VersionInv, VersionOK
<1>2. CopyInv'
  BY DEF VersionInv, CopyInv, StartPoints, RunPoints, UpToDate
<1>3. QED
  BY <1>1, <1>2 DEF VersionInv

LEMMA VersionStep ==
    ASSUME TypeOK, LifeInv, VersionInv, [Next]_vars PROVE VersionInv'
<1>a. bm \in Versions /\ cache \in Versions /\ inst \in Versions
  BY DEF TypeOK
<1>b. VersionOK(bm) /\ VersionOK(cache) /\ CopyInv
  BY DEF VersionInv
<1>1. CASE Create \/ Delete \/ Edit
  <2>1. UNCHANGED <<cache, pc, inst>>
    BY <1>1 DEF Create, Delete, Edit, worker
  <2>2. bm'.rv > bm.rv /\ bm'.rv \in Nat
    <3>1. CASE Create
      BY <1>a, <3>1, FieldTypes DEF Create, Absent
    <3>2. CASE Delete \/ Edit
      <4>1. bm' = Removed(bm) \/ bm'.rv = bm.rv + 1
        BY <1>a, <3>2 DEF Delete, Edit, Versions
      <4>2. QED
        BY <1>a, <4>1, RemovedFields, RemovedType, FieldTypes, Successors
    <3>3. QED
      BY <1>1, <3>1, <3>2
  <2>3. VersionOK(bm)'
    <3>1. CASE Create
      BY <3>1 DEF Create, Absent, VersionOK
    <3>2. CASE Delete /\ ~bm.fin
      BY <3>2, AbsentVersion DEF Delete, Removed, VersionOK
    <3>3. CASE (Delete /\ bm.fin) \/ Edit
      BY <1>a, <1>b, <3>3 DEF Delete, Edit, VersionOK, Versions
    <3>4. QED
      BY <1>1, <3>1, <3>2, <3>3
  <2>4. ~UpToDate'
    BY <2>1, <2>2, NatFields DEF UpToDate, LifeInv, WorkerInv, Behind
  <2>5. QED
    BY <1>b, <2>1, <2>3, <2>4 DEF VersionInv, VersionOK, CopyInv
<1>2. CASE \/ Sync \/ PodsAppear \/ PodsRun \/ PodsSucceed \/ RuntimeOver
           \/ GetNothingToDo \/ SendStop \/ UNCHANGED vars
  <2>1. bm' = bm /\ cache' \in {cache, bm} /\ UNCHANGED <<pc, inst>>
    BY <1>2 DEF Sync, PodsAppear, PodsRun, PodsSucceed, PodStep, RuntimeOver,
       GetNothingToDo, Get, SendStop, vars, worker
  <2>2. QED
    BY <2>1, VersionsParked
<1>3. CASE \/ Crash \/ GetDeleting \/ StartWorkloadsFails \/ WaitForInit \/ ListFails
           \/ KeepRunning \/ StopRoutinesReturns
  <2>1. bm' = bm /\ cache' \in {cache, bm} /\ pc' \in {"idle", "stop", "dropFin"}
    BY <1>3 DEF Crash, GetDeleting, Get, Cleanup, StartWorkloadsFails, WaitForInit,
       ListFails, KeepRunning, Requeue, StopRoutinesReturns, CleanupReturns
  <2>2. QED
    BY <2>1, VersionsParked
<1>4. CASE GetActive
  <2>1. /\ UNCHANGED <<bm, cache>> /\ inst' = cache
        /\ \/ cache.state = "" /\ pc' = "start"
           \/ cache.state = "Initializing" /\ pc' = "Initializing"
           \/ cache.state = "Running" /\ pc' = "Running"
    BY <1>4, <1>a DEF GetActive, Get, Versions
  <2>2. CopyInv'
    BY <1>b, <2>1 DEF CopyInv, VersionOK, StartPoints, RunPoints
  <2>3. QED
    BY <1>b, <2>1, <2>2 DEF VersionInv, VersionOK
<1>5. CASE FixupSpec \/ StartWorkloads
  <2>1. /\ UNCHANGED <<bm, cache>> /\ pc = "start" /\ pc' \in {"fixUpdate", "startStatus"}
        /\ inst'.rates = inst.rates /\ inst'.fin = inst.fin
    BY <1>5, <1>a DEF FixupSpec, StartWorkloads, Versions
  <2>2. CopyInv'
    BY <1>b, <2>1 DEF CopyInv, StartPoints, RunPoints
  <2>3. QED
    BY <1>b, <2>1, <2>2 DEF VersionInv, VersionOK
<1>6. CASE StartRates
  <2>1. UNCHANGED <<bm, cache>> /\ pc' \in {"stop", "runStatus"}
    BY <1>6 DEF StartRates, Cleanup
  <2>2. CASE pc' = "stop"
    BY <2>1, <2>2, VersionsParked
  <2>3. CASE pc' = "runStatus"
    <3>1. inst.bad = 0 /\ inst'.rates = Started
      BY <1>6, <1>a, <2>3 DEF StartRates, Cleanup, Versions
    <3>2. inst'.rates = NumRates
      BY <3>1 DEF Started
    <3>3. CopyInv'
      BY <2>3, <3>2 DEF CopyInv, StartPoints, RunPoints
    <3>4. QED
      BY <1>b, <2>1, <3>3 DEF VersionInv, VersionOK
  <2>4. QED
    BY <2>1, <2>2, <2>3
<1>7. CASE DoOutputs
  <2>1. /\ UNCHANGED <<bm, cache>> /\ pc = "Running" /\ pc' = "completeStatus"
        /\ inst'.rates = inst.rates
    BY <1>7, <1>a DEF DoOutputs, Versions
  <2>2. CopyInv'
    BY <1>b, <2>1 DEF CopyInv, StartPoints, RunPoints
  <2>3. QED
    BY <1>b, <2>1, <2>2 DEF VersionInv, VersionOK
<1>8. CASE UpdateStatus
  <2>1. cache' = cache /\ pc \in StatusWritePoints /\ bm' \in {bm, StatusStored}
    BY <1>8, WriteOutcome DEF UpdateStatus
  <2>2. CASE bm' = StatusStored /\ UpToDate
    <3>1. /\ bm'.state = inst.state /\ bm'.rates = inst.rates /\ bm'.fin = bm.fin
          /\ bm' \in Versions
      BY <1>a, <2>2, StatusStoredFields, StatusStoredType
    <3>2. bm'.deleting = bm.deleting
      BY <1>a, <2>2 DEF StatusStored, Versions
    <3>3. CASE pc = "startStatus"
      <4>1. bm'.state = "Initializing" /\ Fresh
        BY <2>2, <3>1, <3>3 DEF LifeInv, WorkerInv
      <4>2. bm'.rates = 0 /\ ~bm'.fin /\ ~bm'.deleting /\ ~inst.fin
        BY <1>b, <3>1, <3>2, <3>3, <4>1 DEF Fresh, VersionOK, CopyInv, StartPoints
      <4>3. VersionOK(bm)'
        BY <4>1, <4>2 DEF VersionOK
      <4>4. pc' \in {"startUpdate", "stop"} /\ (pc' = "startUpdate" => inst' = [bm' EXCEPT !.fin = @ \/ inst.fin])
        BY <1>8, <3>3 DEF UpdateStatus, Cleanup
      <4>5. pc' = "startUpdate" => inst'.rates = 0 /\ ~inst'.fin
        BY <3>1, <4>2, <4>4 DEF Versions
      <4>6. CopyInv'
        BY <4>4, <4>5 DEF CopyInv, StartPoints, RunPoints
      <4>7. QED
        BY <1>b, <2>1, <4>3, <4>6 DEF VersionInv, VersionOK
    <3>4. CASE pc # "startStatus"
      <4>1. bm'.state \in {"Running", "Complete"} /\ bm'.rates = NumRates
            /\ (pc = "runStatus" => bm'.state = "Running")
        BY <1>b, <2>1, <3>1, <3>4
        DEF LifeInv, WorkerInv, CopyInv, RunPoints, StatusWritePoints
      <4>2. VersionOK(bm)'
        BY <4>1 DEF VersionOK
      <4>3. /\ pc' \in {"runUpdate", "stop"}
            /\ pc' = "runUpdate" => pc = "runStatus" /\ inst' = [bm' EXCEPT !.fin = @ \/ inst.fin]
        BY <1>8, <2>1, <3>4 DEF UpdateStatus, Cleanup, StatusWritePoints
      <4>4. pc' = "runUpdate" => inst'.rates = NumRates /\ bm'.state = "Running"
        BY <3>1, <4>1, <4>3 DEF Versions
      <4>5. CopyInv'
        BY <4>3, <4>4 DEF CopyInv, StartPoints, RunPoints
      <4>6. QED
        BY <1>b, <2>1, <4>2, <4>5 DEF VersionInv, VersionOK
    <3>5. QED
      BY <3>3, <3>4
  <2>3. CASE ~(bm' = StatusStored /\ UpToDate)
    <3>1. bm' = bm /\ pc' = "stop"
      BY <1>8, <2>1, <2>3 DEF UpdateStatus, Succeeds, Fails, Cleanup
    <3>2. QED
      BY <2>1, <3>1, VersionsParked
  <2>4. QED
    BY <2>2, <2>3
<1>9. CASE UpdateInstance \/ RemoveFinalizer
  <2>1. PICK b \in {inst, [inst EXCEPT !.fin = FALSE]} :
          /\ bm' \in {bm, Stored(b)}
          /\ bm' # bm => UpToDate
          /\ RemoveFinalizer => ~b.fin
          /\ UpdateInstance => b = inst
    <3>1. CASE UpdateInstance
      BY <3>1 DEF UpdateInstance, RemoveFinalizer, Succeeds, Fails
    <3>2. CASE RemoveFinalizer
      <4> DEFINE c == [inst EXCEPT !.fin = FALSE]
      <4>1. ~c.fin /\ ~UpdateInstance
        BY <1>a, <3>2 DEF Versions, UpdateInstance, RemoveFinalizer
      <4>2. bm' \in {bm, Stored(c)} /\ (bm' # bm => UpToDate)
        BY <3>2 DEF RemoveFinalizer, Succeeds, Fails
      <4>3. QED
        BY <4>1, <4>2
    <3>3. QED
      BY <1>9, <3>1, <3>2
  <2>2. b \in Versions
    BY <1>a, <2>1 DEF Versions
  <2>3. cache' = cache /\ pc' \in {"idle", "stop"}
    BY <1>9 DEF UpdateInstance, RemoveFinalizer, Cleanup, Return, Requeue, CleanupReturns
  <2>4. CASE bm' = bm
    BY <2>3, <2>4, VersionsParked
  <2>5. CASE bm' # bm
    <3>1. bm' = Stored(b) /\ UpToDate
      BY <2>1, <2>5
    <3>2. b.fin => bm.state = "Running"
      <4>1. CASE UpdateInstance
        BY <1>b, <2>1, <3>1, <4>1 DEF UpdateInstance, CopyInv, StartPoints
      <4>2. QED
        BY <1>9, <2>1, <4>1
    <3>3. VersionOK(bm)'
      <4>1. CASE bm' = Removed(bm)
        BY <4>1, AbsentVersion DEF Removed, VersionOK
      <4>2. CASE bm' # Removed(bm)
        <5>1. /\ bm'.fin = b.fin /\ bm'.deleting = bm.deleting
              /\ bm'.state = bm.state /\ bm'.rates = bm.rates
          BY <1>a, <2>2, <3>1, <4>2, StoredRest
        <5>2. QED
          BY <1>b, <3>2, <5>1 DEF VersionOK
      <4>3. QED
        BY <4>1, <4>2
    <3>4. CopyInv'
      BY <2>3 DEF CopyInv, StartPoints, RunPoints
    <3>5. QED
      BY <1>b, <2>3, <3>3, <3>4 DEF VersionInv, VersionOK
  <2>6. QED
    BY <2>4, <2>5
<1>10. QED
  BY <1>1, <1>2, <1>3, <1>4, <1>5, <1>6, <1>7, <1>8, <1>9 DEF Next, Reconcile

LEMMA VersionInvariant == Spec => []VersionInv
<1>1. Init => VersionInv
  <2> SUFFICES ASSUME Init PROVE VersionInv
    OBVIOUS
  <2>1. VersionOK(bm) /\ VersionOK(cache) /\ pc = "idle"
    BY AbsentVersion DEF Init
  <2>2. QED
    BY <2>1 DEF VersionInv, CopyInv, StartPoints, RunPoints
<1>2. TypeOK /\ LifeInv /\ VersionInv /\ [Next]_vars => VersionInv'
  BY VersionStep
<1>3. QED
  BY <1>1, <1>2, TypeCorrect, LifeInvariant, PTL DEF Spec
-----------------------------------------------------------------------------
(***************************************************************************)
(* The worker's copy is not newer than the cache, and the cache has seen   *)
(* every object that has a state: the worker gave it the state, from a     *)
(* copy that it took of the cache.                                         *)
(***************************************************************************)
UidInv ==
    /\ inst.uid <= cache.uid
    /\ bm.exists /\ bm.state # "" => cache.uid = bm.uid

LEMMA UidStep ==
    ASSUME TypeOK, LifeInv, UidInv, [Next]_vars PROVE UidInv'
<1>a. bm \in Versions /\ cache \in Versions /\ inst \in Versions
  BY DEF TypeOK
<1>b. cache.uid <= bm.uid /\ inst.uid <= bm.uid
  BY DEF LifeInv, CacheInv, WorkerInv, Behind
<1>c. NoInstance.uid <= cache.uid /\ NoInstance.uid <= bm.uid
  BY NatFields, NoInstanceFields
<1>1. CASE Create
  BY <1>1 DEF Create, Absent, worker, UidInv
<1>2. CASE Delete \/ Edit
  <2>1. \/ bm' = Removed(bm)
        \/ bm'.uid = bm.uid /\ bm'.exists = bm.exists /\ bm'.state = bm.state
    BY <1>2, <1>a DEF Delete, Edit, Versions
  <2>2. UNCHANGED <<cache, inst>>
    BY <1>2 DEF Delete, Edit, worker
  <2>3. QED
    BY <1>a, <2>1, <2>2, RemovedFields DEF UidInv
<1>3. CASE UNCHANGED bm /\ cache' \in {cache, bm} /\ inst'.uid \in {inst.uid, cache.uid, 0}
  <2>0. inst.uid <= cache.uid
    BY DEF UidInv
  <2>1. inst'.uid <= cache.uid /\ inst'.uid <= bm.uid
    <3>1. CASE inst'.uid = inst.uid
      BY <1>b, <2>0, <3>1
    <3>2. CASE inst'.uid = cache.uid
      BY <1>b, <3>2, NatFields
    <3>3. CASE inst'.uid = 0
      BY <3>3, NatFields
    <3>4. QED
      BY <1>3, <3>1, <3>2, <3>3
  <2>2. cache'.uid \in {cache.uid, bm.uid}
    BY <1>3
  <2>3. QED
    BY <1>3, <2>1, <2>2 DEF UidInv
<1>4. CASE \/ Sync \/ PodsAppear \/ PodsRun \/ PodsSucceed \/ RuntimeOver
           \/ GetNothingToDo \/ SendStop \/ UNCHANGED vars
  BY <1>3, <1>4 DEF Sync, PodsAppear, PodsRun, PodsSucceed, PodStep, RuntimeOver,
     GetNothingToDo, Get, SendStop, vars, worker
<1>5. CASE \/ Crash \/ GetDeleting \/ GetActive \/ StartWorkloadsFails \/ WaitForInit
           \/ ListFails \/ KeepRunning \/ StopRoutinesReturns
  <2>1. UNCHANGED bm /\ cache' \in {cache, bm} /\ inst' \in {inst, cache, NoInstance}
    BY <1>5 DEF Crash, GetDeleting, GetActive, Get, Cleanup, StartWorkloadsFails,
       WaitForInit, ListFails, KeepRunning, Requeue, StopRoutinesReturns, CleanupReturns
  <2>2. QED
    BY <1>3, <2>1, NoInstanceFields
<1>6. CASE FixupSpec \/ StartWorkloads \/ StartRates \/ DoOutputs
  <2>1. UNCHANGED <<bm, cache>> /\ inst'.uid = inst.uid
    BY <1>6, <1>a DEF FixupSpec, StartWorkloads, StartRates, Cleanup, DoOutputs, Versions
  <2>2. QED
    BY <1>3, <2>1
<1>7. CASE UpdateStatus
  <2>1. bm' \in {bm, StatusStored} /\ cache' = cache /\ (bm' # bm => UpToDate)
    BY <1>7 DEF UpdateStatus, Succeeds, Fails
  <2>2. bm'.uid = bm.uid /\ bm' \in Versions
    BY <1>a, <2>1, StatusStoredFields, StatusStoredType
  <2>3. inst' \in {inst, [bm' EXCEPT !.fin = @ \/ inst.fin]}
    BY <1>7 DEF UpdateStatus, Cleanup
  <2>4. inst' = inst \/ inst'.uid = bm.uid
    BY <2>2, <2>3 DEF Versions
  <2>5. CASE UpToDate
    <3>1. inst.uid = bm.uid
      BY <2>5 DEF LifeInv, WorkerInv, Behind, UpToDate
    <3>2. cache.uid = bm.uid
      <4>1. inst.uid <= cache.uid /\ cache.uid <= bm.uid
        BY <1>b DEF UidInv
      <4>2. QED
        BY <3>1, <4>1, NatFields
    <3>3. QED
      BY <2>1, <2>2, <2>4, <3>1, <3>2, NatFields DEF UidInv
  <2>6. CASE ~UpToDate
    <3>1. bm' = bm /\ inst' = inst
      BY <1>7, <2>1, <2>6 DEF UpdateStatus, Succeeds, Cleanup
    <3>2. QED
      BY <2>1, <3>1 DEF UidInv
  <2>7. QED
    BY <2>5, <2>6
<1>8. CASE UpdateInstance \/ RemoveFinalizer
  <2>1. PICK b \in {inst, [inst EXCEPT !.fin = FALSE]} : bm' \in {bm, Stored(b)}
    BY <1>8, WriteOutcome DEF UpdateInstance, RemoveFinalizer
  <2>2. b \in Versions
    BY <1>a DEF Versions
  <2>3. cache' = cache /\ inst' \in {inst, NoInstance}
    BY <1>8 DEF UpdateInstance, RemoveFinalizer, Cleanup, Return, Requeue, CleanupReturns
  <2>4. bm' = bm \/ (bm'.uid = bm.uid /\ (bm'.exists => bm.exists /\ bm'.state = bm.state))
    BY <1>a, <2>1, <2>2, StoredFields
  <2>5. QED
    BY <1>c, <2>3, <2>4 DEF UidInv
<1>9. QED
  BY <1>1, <1>2, <1>4, <1>5, <1>6, <1>7, <1>8 DEF Next, Reconcile

LEMMA UidInvariant == Spec => []UidInv
<1>1. Init => UidInv
  <2> SUFFICES ASSUME Init PROVE UidInv
    OBVIOUS
  <2>1. ~bm.exists /\ cache.uid = 0 /\ inst.uid = 0
    BY NoInstanceFields DEF Init, Absent
  <2>2. 0 <= 0
    OBVIOUS
  <2>3. QED
    BY <2>1, <2>2, Zenon DEF UidInv
<1>2. TypeOK /\ LifeInv /\ UidInv /\ [Next]_vars => UidInv'
  BY UidStep
<1>3. QED
  BY <1>1, <1>2, TypeCorrect, LifeInvariant, PTL DEF Spec
-----------------------------------------------------------------------------
(***************************************************************************)
(* Where routines may be listening while the worker is at each place.      *)
(* Shielded alone is not inductive: the routines are started before their  *)
(* object shows it, and stopped before the finalizer goes.  A worker that  *)
(* read an old version of the object may be in any branch meanwhile.       *)
(***************************************************************************)
Shielded ==
    live > 0 =>
        /\ hasChan
        /\ bm.exists /\ bm.fin
        /\ bm.state = "Running"
        /\ live = 2 * bm.rates

ShieldPoints == {"idle", "start", "fixUpdate", "startStatus", "startUpdate",
                 "Running", "completeStatus"}

\* stopRoutines stops all or has none to stop, or was called with a copy from
\* before the rates were started and does nothing.
StopPoint ==
    \/ live = 0
    \/ live = toSend
    \/ toSend = 0 /\ after = "retry" /\ ~inst.fin /\ Shielded

RoutineInv ==
    /\ lost = 0
    /\ pc \in {"Initializing", "dropFin"} => live = 0
    /\ pc \in ShieldPoints => Shielded
    /\ pc \in {"fixUpdate", "startUpdate"} /\ UpToDate => bm.state # "Running"
    /\ pc \in {"runStatus", "runUpdate"} =>
          /\ hasChan
          /\ live = 2 * inst.rates
          /\ live > 0 => inst.fin
    /\ pc = "stop" => StopPoint

(***************************************************************************)
(* A step that leaves the routines alone and the object Shielded.          *)
(***************************************************************************)
LEMMA ShieldKept ==
    ASSUME Shielded, UNCHANGED <<hasChan, live>>,
           bm.exists /\ bm.fin /\ bm.state = "Running" =>
               /\ bm'.exists /\ bm'.fin
               /\ bm'.state = bm.state /\ bm'.rates = bm.rates
    PROVE  Shielded'
  BY DEF Shielded

\* The steps of others: the server's object changes, the worker stays.
LEMMA RoutinesAside ==
    ASSUME TypeOK, LifeInv, RoutineInv,
           UNCHANGED <<pc, inst, toSend, after, hasChan, live, lost>>,
           bm' = bm \/ ~UpToDate',
           bm.exists /\ bm.fin /\ bm.state = "Running" =>
               /\ bm'.exists /\ bm'.fin
               /\ bm'.state = bm.state /\ bm'.rates = bm.rates
    PROVE  RoutineInv'
<1>1. Shielded => Shielded'
  BY ShieldKept
<1>2. StopPoint => StopPoint'
  BY <1>1 DEF StopPoint
<1>3. UpToDate' => UpToDate /\ bm' = bm
  BY DEF UpToDate
<1>4. QED
  BY <1>1, <1>2, <1>3 DEF RoutineInv

\* A step to one of the places at which the object must be Shielded.
LEMMA RoutinesShielded ==
    ASSUME lost' = 0, Shielded', pc' \in ShieldPoints \ {"fixUpdate", "startUpdate"}
    PROVE  RoutineInv'
  BY DEF RoutineInv, ShieldPoints

LEMMA RoutineStep ==
    ASSUME TypeOK, LifeInv, VersionInv, UidInv, RoutineInv, ~relapsed', [Next]_vars
    PROVE  RoutineInv'
<1>a. /\ bm.rates \in Nat /\ inst.rates \in Nat /\ cache.rates \in Nat /\ NumRates \in Nat
      /\ live \in Nat /\ lost \in Nat /\ toSend \in Nat
      /\ bm \in Versions /\ inst \in Versions /\ cache \in Versions
  BY FieldTypes, ControllerAssumption DEF TypeOK
<1>b. /\ VersionOK(bm) /\ VersionOK(cache)
      /\ pc \in StartPoints => inst.rates = 0 /\ ~inst.fin
      /\ pc \in RunPoints => inst.rates = NumRates
      /\ pc = "runUpdate" /\ UpToDate => bm.state = "Running"
  BY DEF VersionInv, CopyInv
<1>c. Shielded /\ live > 0 => live = 2 * NumRates
  BY <1>b DEF Shielded, VersionOK
<1>1. CASE Create
  <2>1. bm'.rv > bm.rv /\ bm'.rv \in Nat /\ ~bm.exists
    BY <1>1, <1>a, FieldTypes DEF Create, Absent
  <2>2. UNCHANGED <<pc, inst, toSend, after, hasChan, live, lost>>
    BY <1>1 DEF Create, worker, memory
  <2>3. ~UpToDate'
    BY <2>1, <2>2, NatFields DEF UpToDate, LifeInv, WorkerInv, Behind
  <2>4. QED
    BY <2>1, <2>2, <2>3, RoutinesAside
<1>2. CASE Delete \/ Edit
  <2>1. bm' = Removed(bm) \/ bm'.rv = bm.rv + 1
    BY <1>2, <1>a DEF Delete, Edit, Versions
  <2>2. bm'.rv > bm.rv /\ bm'.rv \in Nat
    BY <1>a, <2>1, RemovedFields, RemovedType, FieldTypes, Successors
  <2>3. bm.fin => /\ bm'.exists = bm.exists /\ bm'.fin /\ bm'.state = bm.state
                  /\ bm'.rates = bm.rates
    BY <1>2, <1>a DEF Delete, Edit, Versions
  <2>4. UNCHANGED <<pc, inst, toSend, after, hasChan, live, lost>>
    BY <1>2 DEF Delete, Edit, worker, memory
  <2>5. ~UpToDate'
    BY <2>2, <2>4, NatFields DEF UpToDate, LifeInv, WorkerInv, Behind
  <2>6. QED
    BY <2>3, <2>4, <2>5, RoutinesAside
<1>3. CASE \/ Sync \/ PodsAppear \/ PodsRun \/ PodsSucceed \/ RuntimeOver
           \/ GetNothingToDo \/ UNCHANGED vars
  <2>1. UNCHANGED <<bm, pc, inst, toSend, after, hasChan, live, lost>>
    BY <1>3 DEF Sync, PodsAppear, PodsRun, PodsSucceed, PodStep, RuntimeOver,
       GetNothingToDo, Get, vars, worker, memory
  <2>2. QED
    BY <2>1, RoutinesAside
<1>4. CASE Crash
  <2>1. lost' = 0 /\ live' = 0 /\ pc' = "idle"
    BY <1>4 DEF Crash
  <2>2. QED
    BY <2>1, RoutinesShielded DEF Shielded, ShieldPoints
<1>5. CASE GetDeleting
  <2>1. /\ pc = "idle" /\ pc' = "stop" /\ toSend' = 2 * cache.rates /\ cache.deleting
        /\ UNCHANGED <<bm, live, lost, hasChan>>
    BY <1>5 DEF GetDeleting, Get, Cleanup
  <2>2. cache.rates = NumRates
    BY <1>a, <1>b, <2>1 DEF VersionOK, Versions
  <2>3. Shielded
    BY <2>1 DEF RoutineInv, ShieldPoints
  <2>4. live' = 0 \/ live' = toSend'
    BY <1>a, <1>c, <2>1, <2>2, <2>3
  <2>5. QED
    BY <2>1, <2>4 DEF RoutineInv, StopPoint, ShieldPoints
<1>6. CASE GetActive
  <2>1. /\ pc = "idle" /\ cache.exists
        /\ \/ cache.state = "" /\ pc' = "start"
           \/ cache.state = "Initializing" /\ pc' = "Initializing"
           \/ cache.state = "Running" /\ pc' = "Running"
        /\ UNCHANGED <<bm, live, lost, hasChan>>
    BY <1>6, <1>a DEF GetActive, Get, Versions
  <2>2. Shielded /\ lost' = 0
    BY <2>1 DEF RoutineInv, ShieldPoints
  <2>3. CASE pc' = "Initializing"
    <3>1. ~Relapse
      BY <1>6 DEF GetActive, Get
    <3>2. live = 0
      <4>1. SUFFICES ASSUME live > 0 PROVE FALSE
        BY <1>a
      <4>2. bm.exists /\ bm.state = "Running"
        BY <2>2, <4>1 DEF Shielded
      <4>3. cache.uid = bm.uid
        BY <4>2 DEF UidInv
      <4>4. QED
        BY <2>1, <2>3, <3>1, <4>2, <4>3 DEF Relapse
    <3>3. QED
      BY <2>1, <2>2, <2>3, <3>2 DEF RoutineInv, ShieldPoints
  <2>4. CASE pc' # "Initializing"
    <3>1. Shielded'
      BY <2>1, <2>2, ShieldKept
    <3>2. QED
      BY <2>1, <2>2, <2>4, <3>1, RoutinesShielded DEF ShieldPoints
  <2>5. QED
    BY <2>3, <2>4
<1>7. CASE FixupSpec \/ StartWorkloads
  <2>1. /\ pc = "start" /\ pc' \in {"fixUpdate", "startStatus"} /\ inst'.rv = inst.rv
        /\ UNCHANGED <<bm, live, lost, hasChan>>
    BY <1>7, <1>a DEF FixupSpec, StartWorkloads, Versions, memory
  <2>2. Shielded' /\ lost' = 0
    BY <2>1, ShieldKept DEF RoutineInv, ShieldPoints
  <2>3. UpToDate' => Fresh
    BY <2>1 DEF UpToDate, LifeInv, WorkerInv
  <2>4. UpToDate' => bm'.state # "Running"
    BY <2>1, <2>3 DEF Fresh
  <2>5. QED
    BY <2>1, <2>2, <2>4 DEF RoutineInv, ShieldPoints
<1>8. CASE StartWorkloadsFails \/ WaitForInit \/ ListFails \/ KeepRunning
  <2>1. /\ pc \in {"start", "Initializing", "Running"} /\ pc' = "idle"
        /\ UNCHANGED <<bm, live, lost, hasChan>>
    BY <1>8 DEF StartWorkloadsFails, WaitForInit, ListFails, KeepRunning, Requeue, memory
  <2>2. Shielded /\ lost' = 0
    BY <1>a, <2>1 DEF RoutineInv, Shielded, ShieldPoints
  <2>3. Shielded'
    BY <2>1, <2>2, ShieldKept
  <2>4. QED
    BY <2>1, <2>2, <2>3, RoutinesShielded DEF ShieldPoints
<1>9. CASE StartRates
  <2>1. live = 0 /\ lost' = 0
    BY <1>9, <1>a DEF StartRates, RoutineInv
  <2>2. hasChan' /\ live' = 2 * Started /\ inst'.rates = Started
    BY <1>9, <1>a DEF StartRates, Cleanup, Versions
  <2>3. \/ pc' = "stop" /\ toSend' = 2 * inst'.rates
        \/ pc' = "runStatus" /\ (Started > 0 => inst'.fin)
    BY <1>9, <1>a DEF StartRates, Cleanup, Versions
  <2>4. live' > 0 => Started > 0
    BY <1>a, <2>2, StartedType
  <2>5. QED
    BY <2>1, <2>2, <2>3, <2>4 DEF RoutineInv, StopPoint, ShieldPoints
<1>10. CASE DoOutputs
  <2>1. /\ pc = "Running" /\ pc' = "completeStatus" /\ UNCHANGED <<bm, live, lost, hasChan>>
    BY <1>10 DEF DoOutputs, memory
  <2>2. Shielded' /\ lost' = 0
    BY <2>1, ShieldKept DEF RoutineInv, ShieldPoints
  <2>3. QED
    BY <2>1, <2>2, RoutinesShielded DEF ShieldPoints
<1>11. CASE UpdateStatus
  <2>1. /\ UNCHANGED <<live, lost, hasChan>> /\ pc \in StatusWritePoints
        /\ bm' \in {bm, StatusStored}
        /\ bm' # bm => UpToDate
    BY <1>11 DEF UpdateStatus, Succeeds, Fails, memory
  <2>2. lost' = 0
    BY <2>1 DEF RoutineInv
  <2>3. CASE pc = "startStatus"
    <3>1. Shielded'
      <4>1. bm' # bm => bm.state # "Running"
        BY <2>1, <2>3 DEF LifeInv, WorkerInv, Fresh
      <4>2. Shielded
        BY <2>3 DEF RoutineInv, ShieldPoints
      <4>3. QED
        BY <2>1, <4>1, <4>2, ShieldKept
    <3>2. CASE Cleanup(inst, "retry", calls)
      <4>1. /\ pc' = "stop" /\ toSend' = 2 * inst.rates /\ inst' = inst
            /\ after' = "retry"
        BY <3>2 DEF Cleanup
      <4>2. toSend' = 0 /\ ~inst'.fin
        BY <1>b, <2>3, <4>1 DEF StartPoints
      <4>3. QED
        BY <2>2, <3>1, <4>1, <4>2 DEF RoutineInv, StopPoint, ShieldPoints
    <3>3. CASE ~Cleanup(inst, "retry", calls)
      <4>1. pc' = "startUpdate" /\ bm' = StatusStored
        BY <1>11, <2>3, <3>3 DEF UpdateStatus, Succeeds
      <4>2. bm'.state = "Initializing"
        BY <1>a, <2>3, <4>1, StatusStoredFields DEF LifeInv, WorkerInv
      <4>3. QED
        BY <2>2, <3>1, <4>1, <4>2 DEF RoutineInv, ShieldPoints
    <3>4. QED
      BY <3>2, <3>3
  <2>4. CASE pc # "startStatus"
    <3>1. live = 0 \/ live = 2 * inst.rates
      <4>1. CASE pc = "runStatus"
        BY <4>1 DEF RoutineInv
      <4>2. CASE pc = "completeStatus"
        BY <1>a, <1>b, <1>c, <4>2 DEF RoutineInv, ShieldPoints, RunPoints
      <4>3. QED
        BY <2>1, <2>4, <4>1, <4>2 DEF StatusWritePoints
    <3> DEFINE b == [bm' EXCEPT !.fin = @ \/ inst.fin]
    <3>2. bm' = StatusStored =>
            b.rates = inst.rates /\ (inst.fin => b.fin)
      BY <1>a, StatusStoredFields, StatusStoredType DEF Versions
    <3>3. CASE pc' = "stop"
      <4>1. toSend' = 2 * inst.rates
        BY <1>11, <2>4, <3>2, <3>3 DEF UpdateStatus, Succeeds, Cleanup
      <4>2. QED
        BY <2>1, <2>2, <3>1, <3>3, <4>1 DEF RoutineInv, StopPoint, ShieldPoints
    <3>4. CASE pc' # "stop"
      <4>1. pc = "runStatus" /\ pc' = "runUpdate" /\ bm' = StatusStored /\ inst' = b
        BY <1>11, <2>1, <2>4, <3>4 DEF UpdateStatus, Succeeds, Cleanup, StatusWritePoints
      <4>2. inst'.rates = inst.rates /\ (inst.fin => inst'.fin)
        BY <3>2, <4>1
      <4>3. QED
        BY <2>1, <2>2, <4>1, <4>2 DEF RoutineInv, ShieldPoints
    <3>5. QED
      BY <3>3, <3>4
  <2>5. QED
    BY <2>3, <2>4
<1>12. CASE UpdateInstance
  <2>1. /\ UNCHANGED <<live, lost, hasChan>> /\ pc \in {"fixUpdate", "startUpdate", "runUpdate"}
        /\ bm' \in {bm, Stored(inst)}
        /\ bm' # bm => UpToDate
    BY <1>12 DEF UpdateInstance, Succeeds, Fails, memory
  <2>2. lost' = 0
    BY <2>1 DEF RoutineInv
  <2>3. \/ pc' = "stop" /\ inst' = inst /\ toSend' = 2 * inst.rates /\ after' = "retry"
        \/ pc' = "idle" /\ bm' = Stored(inst) /\ UpToDate
    BY <1>12 DEF UpdateInstance, Succeeds, Return, Requeue, Cleanup
  <2>4. CASE pc # "runUpdate"
    <3>1. Shielded /\ inst.rates = 0 /\ ~inst.fin
      BY <1>b, <2>1, <2>4 DEF RoutineInv, ShieldPoints, StartPoints
    <3>2. bm' # bm => bm.state # "Running"
      BY <2>1, <2>4 DEF RoutineInv
    <3>3. Shielded'
      BY <2>1, <3>1, <3>2, ShieldKept
    <3>4. QED
      BY <2>2, <2>3, <3>1, <3>3 DEF RoutineInv, StopPoint, ShieldPoints
  <2>5. CASE pc = "runUpdate"
    <3>1. hasChan /\ live = 2 * inst.rates /\ (live > 0 => inst.fin)
      BY <2>5 DEF RoutineInv
    <3>2. CASE pc' = "stop"
      BY <2>1, <2>2, <2>3, <3>1, <3>2 DEF RoutineInv, StopPoint, ShieldPoints
    <3>3. CASE pc' # "stop"
      <4>1. pc' = "idle" /\ bm' = Stored(inst) /\ UpToDate /\ bm.exists
        BY <2>3, <3>3 DEF UpToDate
      <4>2. bm.state = "Running" /\ bm.rates = NumRates /\ inst.rates = NumRates
        BY <1>b, <2>5, <4>1 DEF VersionOK, RunPoints
      <4>3. inst.fin => /\ bm'.exists /\ bm'.fin /\ bm'.state = bm.state
                        /\ bm'.rates = bm.rates
        BY <1>a, <4>1, StoredRest
      <4>4. Shielded'
        BY <2>1, <3>1, <4>2, <4>3 DEF Shielded
      <4>5. QED
        BY <2>2, <4>1, <4>4, RoutinesShielded DEF ShieldPoints
    <3>4. QED
      BY <3>2, <3>3
  <2>6. QED
    BY <2>4, <2>5
<1>13. CASE SendStop
  <2>1. /\ pc = "stop" /\ pc' = "stop" /\ toSend > 0 /\ live > 0
        /\ toSend' = toSend - 1 /\ live' = live - 1 /\ lost' = lost
    BY <1>13 DEF SendStop
  <2>2. live = toSend /\ lost = 0
    BY <1>a, <2>1 DEF RoutineInv, StopPoint
  <2>3. QED
    BY <2>1, <2>2 DEF RoutineInv, StopPoint, ShieldPoints
<1>14. CASE StopRoutinesReturns
  <2>1. /\ pc = "stop" /\ toSend = 0 /\ UNCHANGED <<bm, live, lost>>
        /\ \/ pc' = "dropFin" /\ inst.fin
           \/ pc' = "idle" /\ (hasChan /\ after = "retry" => hasChan')
    BY <1>14 DEF StopRoutinesReturns, CleanupReturns, memory
  <2>2. live = 0 \/ (after = "retry" /\ ~inst.fin /\ Shielded)
    BY <2>1 DEF RoutineInv, StopPoint
  <2>3. QED
    BY <2>1, <2>2 DEF RoutineInv, Shielded, ShieldPoints
<1>15. CASE RemoveFinalizer
  <2>1. /\ pc = "dropFin" /\ live = 0 /\ lost = 0 /\ UNCHANGED <<live, lost>> /\ pc' = "idle"
    BY <1>15 DEF RemoveFinalizer, CleanupReturns, RoutineInv
  <2>2. QED
    BY <2>1, RoutinesShielded DEF Shielded, ShieldPoints
<1>16. QED
  BY <1>1, <1>2, <1>3, <1>4, <1>5, <1>6, <1>7, <1>8, <1>9, <1>10, <1>11, <1>12,
     <1>13, <1>14, <1>15 DEF Next, Reconcile

(***************************************************************************)
(* Unless Get has read that one old version, no control channel is ever    *)
(* overwritten while routines listen on it, and routines run only for a    *)
(* Running object that RateFinalizer protects: whatever the user does in   *)
(* between, however old the other copies are that Get returns, whichever   *)
(* writes fail and whenever the process dies.                              *)
(***************************************************************************)
THEOREM RoutinesAccountedFor == Spec => []RoutinesProtected
<1> DEFINE Inv == ~relapsed => RoutineInv
<1>1. Init => Inv
  <2> SUFFICES ASSUME Init PROVE RoutineInv
    OBVIOUS
  <2>1. pc = "idle" /\ live = 0 /\ lost = 0
    BY DEF Init
  <2>2. QED
    BY <2>1 DEF RoutineInv, Shielded, ShieldPoints
<1>2. TypeOK /\ LifeInv /\ VersionInv /\ UidInv /\ Inv /\ [Next]_vars => Inv'
  <2> SUFFICES ASSUME TypeOK, LifeInv, VersionInv, UidInv, Inv, [Next]_vars, ~relapsed'
               PROVE  RoutineInv'
    OBVIOUS
  <2>1. CASE Crash
    <3>1. lost' = 0 /\ live' = 0 /\ pc' = "idle"
      BY <2>1 DEF Crash
    <3>2. QED
      BY <3>1, RoutinesShielded DEF Shielded, ShieldPoints
  <2>2. CASE ~Crash
    <3>1. relapsed' = relapsed \/ Get
      BY <2>2 DEF Next, Reconcile, Create, Delete, Edit, Sync, PodsAppear, PodsRun,
         PodsSucceed, PodStep, RuntimeOver, GetNothingToDo, GetDeleting, GetActive,
         FixupSpec, StartWorkloads, StartWorkloadsFails, WaitForInit, StartRates,
         KeepRunning, DoOutputs, ListFails, UpdateStatus, UpdateInstance, SendStop,
         StopRoutinesReturns, RemoveFinalizer, CleanupReturns, vars, memory
    <3>2. ~relapsed
      BY <3>1, Zenon DEF Get
    <3>3. QED
      BY <3>2, RoutineStep
  <2>3. QED
    BY <2>1, <2>2
<1>3. Inv => RoutinesProtected
  BY DEF RoutineInv, ShieldPoints, Shielded, RoutinesProtected
<1>4. QED
  BY <1>1, <1>2, <1>3, TypeCorrect, LifeInvariant, VersionInvariant, UidInvariant, PTL DEF Spec
-----------------------------------------------------------------------------
(***************************************************************************)
(* The routines of startRates that nobody has told to stop are all there,  *)
(* and a call that sends or is followed by the removal of the channel has  *)
(* been counted.                                                           *)
(***************************************************************************)
StopInv ==
    /\ calls = 0 => hasChan /\ live = 2 * NumRates /\ NumRates > 0
    /\ StopMatched
    /\ pc \in {"stop", "dropFin"} /\ (toSend > 0 \/ after = "delete") => calls # 0

(***************************************************************************)
(* A call of cleanup with a copy that has all rates, or none.              *)
(***************************************************************************)
LEMMA CleanupCounted ==
    ASSUME TypeOK, StopInv, NEW b, NEW next, Cleanup(b, next, calls),
           b.rates = NumRates \/ (b.rates = 0 /\ next # "delete"),
           UNCHANGED <<hasChan, live>>
    PROVE  StopInv'
<1>0. NumRates \in Nat /\ calls \in 0..2
  BY ControllerAssumption DEF TypeOK
<1>1. /\ pc' = "stop" /\ toSend' = 2 * b.rates /\ after' = next
      /\ calls' = IF b.rates = 0 THEN calls ELSE IF calls = 0 THEN 1 ELSE 2
  BY DEF Cleanup, CallsAfter
<1>2. CASE b.rates = 0
  <2>1. toSend' = 0 /\ calls' = calls
    BY <1>1, <1>2
  <2>2. next = "delete" => NumRates = 0
    BY <1>2
  <2>3. QED
    BY <1>0, <1>1, <2>1, <2>2 DEF StopInv, StopMatched
<1>3. CASE b.rates # 0
  <2>1. b.rates = NumRates /\ NumRates > 0
    BY <1>0, <1>3
  <2>2. CASE calls = 0
    BY <1>0, <1>1, <2>1, <2>2 DEF StopInv, StopMatched
  <2>3. CASE calls # 0
    <3>1. calls' = 2
      BY <1>1, <1>3, <2>3
    <3>2. QED
      BY <3>1 DEF StopInv, StopMatched
  <2>4. QED
    BY <2>2, <2>3
<1>4. QED
  BY <1>2, <1>3

LEMMA StopStep ==
    ASSUME TypeOK, VersionInv, StopInv, [Next]_vars PROVE StopInv'
<1>a. /\ bm \in Versions /\ cache \in Versions /\ inst \in Versions
      /\ live \in Nat /\ toSend \in Nat /\ calls \in 0..2 /\ NumRates \in Nat
  BY ControllerAssumption DEF TypeOK
<1>b. /\ VersionOK(cache)
      /\ pc \in StartPoints => inst.rates = 0
      /\ pc \in RunPoints => inst.rates = NumRates
  BY DEF VersionInv, CopyInv
<1>1. CASE UNCHANGED <<calls, hasChan, live>> /\ pc' \notin {"stop", "dropFin"}
  BY <1>1 DEF StopInv, StopMatched
<1>2. CASE UNCHANGED <<calls, hasChan, live, pc, toSend, after>>
  BY <1>2 DEF StopInv, StopMatched
<1>3. CASE \/ Create \/ Delete \/ Edit \/ Sync \/ PodsAppear \/ PodsRun \/ PodsSucceed
           \/ RuntimeOver \/ GetNothingToDo \/ UNCHANGED vars
  BY <1>2, <1>3 DEF Create, Delete, Edit, Sync, PodsAppear, PodsRun, PodsSucceed, PodStep,
     RuntimeOver, GetNothingToDo, Get, vars, worker, memory
<1>4. CASE Crash
  BY <1>4 DEF Crash, StopInv, StopMatched
<1>5. CASE GetDeleting
  <2>1. Cleanup(cache, "delete", calls) /\ cache.deleting /\ UNCHANGED <<hasChan, live>>
    BY <1>5 DEF GetDeleting, Get
  <2>2. cache.rates = NumRates
    BY <1>a, <1>b, <2>1 DEF VersionOK, Versions
  <2>3. QED
    BY <2>1, <2>2, CleanupCounted
<1>6. CASE \/ GetActive \/ FixupSpec \/ StartWorkloads \/ StartWorkloadsFails \/ WaitForInit
           \/ KeepRunning \/ DoOutputs \/ ListFails
  <2>1. pc' \in {"start", "Initializing", "Running", "fixUpdate", "startStatus", "idle",
                 "completeStatus"}
    BY <1>6, <1>a DEF GetActive, FixupSpec, StartWorkloads, StartWorkloadsFails, WaitForInit,
       KeepRunning, DoOutputs, ListFails, Requeue, Versions
  <2>2. UNCHANGED <<calls, hasChan, live>>
    BY <1>6 DEF GetActive, Get, FixupSpec, StartWorkloads, StartWorkloadsFails, WaitForInit,
       KeepRunning, DoOutputs, ListFails, Requeue, memory
  <2>3. QED
    BY <1>1, <2>1, <2>2
<1>7. CASE StartRates
  <2>1. hasChan' /\ live' = 2 * Started /\ Started \in Nat
    BY <1>7, <1>a, StartedType DEF StartRates
  <2>2. CASE pc' = "runStatus"
    <3>1. calls' = NoCalls /\ Started = NumRates
      BY <1>7, <2>2 DEF StartRates, Cleanup, Started
    <3>2. QED
      BY <2>1, <2>2, <3>1 DEF StopInv, StopMatched, NoCalls
  <2>3. CASE pc' # "runStatus"
    <3> DEFINE b == [inst EXCEPT !.rates = Started]
    <3>1. Cleanup(b, "unknown", NoCalls)
      BY <1>7, <2>3 DEF StartRates
    <3>2. b.rates = Started
      BY <1>a DEF Versions
    <3>3. pc' = "stop" /\ toSend' = live' /\ calls' = 1
      BY <2>1, <3>1, <3>2 DEF Cleanup, CallsAfter, NoCalls
    <3>4. QED
      BY <2>1, <3>3 DEF StopInv, StopMatched
  <2>4. QED
    BY <2>2, <2>3
<1>8. CASE UpdateStatus
  <2>1. UNCHANGED <<hasChan, live>> /\ pc \in StatusWritePoints
    BY <1>8 DEF UpdateStatus, memory
  <2>2. inst.rates = 0 \/ inst.rates = NumRates
    BY <1>b, <2>1 DEF StatusWritePoints, StartPoints, RunPoints
  <2>3. CASE Cleanup(inst, "retry", calls)
    BY <2>1, <2>2, <2>3, CleanupCounted
  <2>4. CASE ~Cleanup(inst, "retry", calls)
    <3> DEFINE b == [bm' EXCEPT !.fin = @ \/ inst.fin]
    <3>1. bm' = StatusStored
      BY <1>8, <2>4 DEF UpdateStatus, Succeeds
    <3>2. b.rates = inst.rates
      BY <1>a, <3>1, StatusStoredFields, StatusStoredType DEF Versions
    <3>3. \/ Cleanup(b, "complete", calls)
          \/ calls' = calls /\ pc' \in {"startUpdate", "runUpdate"}
      BY <1>8, <2>4 DEF UpdateStatus
    <3>4. QED
      BY <1>1, <2>1, <2>2, <3>2, <3>3, CleanupCounted
  <2>5. QED
    BY <2>3, <2>4
<1>9. CASE UpdateInstance
  <2>1. UNCHANGED <<hasChan, live>> /\ pc \in {"fixUpdate", "startUpdate", "runUpdate"}
    BY <1>9 DEF UpdateInstance, memory
  <2>2. inst.rates = 0 \/ inst.rates = NumRates
    BY <1>b, <2>1 DEF StartPoints, RunPoints
  <2>3. Cleanup(inst, "retry", calls) \/ (pc' = "idle" /\ calls' = calls)
    BY <1>9 DEF UpdateInstance, Return, Requeue
  <2>4. QED
    BY <1>1, <2>1, <2>2, <2>3, CleanupCounted
<1>10. CASE SendStop
  <2>1. /\ pc = "stop" /\ toSend > 0 /\ live > 0 /\ toSend' = toSend - 1 /\ live' = live - 1
        /\ UNCHANGED <<pc, after, calls, hasChan>>
    BY <1>10 DEF SendStop
  <2>2. calls # 0
    BY <2>1 DEF StopInv
  <2>3. calls = 1 => hasChan /\ live = toSend
    BY <2>1 DEF StopInv, StopMatched
  <2>4. QED
    BY <1>a, <2>1, <2>2, <2>3 DEF StopInv, StopMatched
<1>11. CASE StopRoutinesReturns \/ RemoveFinalizer
  <2>1. /\ pc \in {"stop", "dropFin"} /\ UNCHANGED <<calls, live>>
        /\ \/ pc' = "idle" /\ (hasChan /\ after # "delete" => hasChan')
           \/ /\ pc' = "dropFin" /\ UNCHANGED <<after, hasChan, toSend>>
    BY <1>11 DEF StopRoutinesReturns, RemoveFinalizer, CleanupReturns, memory
  <2>2. calls = 0 => after # "delete"
    BY <2>1 DEF StopInv
  <2>3. QED
    BY <2>1, <2>2 DEF StopInv, StopMatched
<1>12. QED
  BY <1>3, <1>4, <1>5, <1>6, <1>7, <1>8, <1>9, <1>10, <1>11 DEF Next, Reconcile

(***************************************************************************)
(* The first stopRoutines after startRates has a listening routine for     *)
(* each of its messages, however many rates, objects, failed writes and    *)
(* crashes there are, and however old the copy of the object is in which   *)
(* it counts them.                                                         *)
(***************************************************************************)
THEOREM FirstStopMatches == Spec => []StopMatched
<1>1. Init => StopInv
  BY DEF Init, StopInv, StopMatched
<1>2. TypeOK /\ VersionInv /\ StopInv /\ [Next]_vars => StopInv'
  BY StopStep
<1>3. StopInv => StopMatched
  BY DEF StopInv
<1>4. QED
  BY <1>1, <1>2, <1>3, TypeCorrect, VersionInvariant, PTL DEF Spec
-----------------------------------------------------------------------------
(***************************************************************************)
(* Repetitions are paid for in advance: while something can still be       *)
(* repeated, it was done no more often than there were disturbances, and a *)
(* worker that repeats it from an old copy has a further one to show.  The *)
(* exception is a worker whose write will be accepted and ends the phase.  *)
(*   at, write: where the thing is done, and where its end is recorded     *)
(*   over: it is not going to be done again                                *)
(***************************************************************************)
Paid(n, at, write, over) ==
    /\ n <= Disturbances + 1
    /\ bm.exists /\ ~over => n <= Disturbances \/ (pc = write /\ UpToDate)
    /\ pc = at /\ SameObject /\ ~over /\ ~UpToDate => n + 1 <= Disturbances
    /\ pc = at /\ SameObject /\ over => n <= Disturbances

\* The outputs of the object are not going to be sent again.
Spent == bm.state = "Complete" \/ bm.deleting

StartsPaid == Paid(starts, "start", "startStatus", ~Fresh)
PostsPaid  == Paid(posts, "Running", "completeStatus", Spent)

CountInv == StartsPaid /\ PostsPaid

LEMMA CountTypes ==
    ASSUME TypeOK
    PROVE  /\ Disturbances \in Nat /\ starts \in Nat /\ posts \in Nat
           /\ edits \in Nat /\ faults \in Nat /\ crashes \in Nat /\ stale \in Nat
  BY ControllerAssumption DEF TypeOK, Disturbances

LEMMA CountsKept ==
    ASSUME TypeOK, CountInv, UNCHANGED <<bm, pc, inst, starts, posts>>,
           Disturbances' \in Nat, Disturbances' >= Disturbances
    PROVE  CountInv'
<1>1. UNCHANGED <<UpToDate, SameObject, Fresh, Spent>>
  BY DEF UpToDate, SameObject, Fresh, Spent
<1>2. StartsPaid'
  BY <1>1, CountTypes DEF CountInv, StartsPaid, Paid
<1>3. PostsPaid'
  BY <1>1, CountTypes DEF CountInv, PostsPaid, Paid
<1>4. QED
  BY <1>2, <1>3 DEF CountInv

(***************************************************************************)
(* A step after which the worker repeats nothing: a write that would have  *)
(* been accepted records the end of its phase, or costs a disturbance.     *)
(***************************************************************************)
LEMMA CountsAside ==
    ASSUME TypeOK, CountInv, UNCHANGED <<starts, posts>>,
           pc' \notin {"start", "Running"},
           bm'.exists => bm.exists /\ (Fresh' => Fresh) /\ (Spent => Spent'),
           Disturbances' \in Nat,
           \/ /\ Disturbances' >= Disturbances
              /\ pc = "startStatus" /\ UpToDate /\ bm'.exists => ~Fresh'
              /\ pc = "completeStatus" /\ UpToDate /\ bm'.exists => Spent'
           \/ Disturbances' >= Disturbances + 1
    PROVE  CountInv'
<1>1. StartsPaid'
  BY CountTypes DEF CountInv, StartsPaid, Paid
<1>2. PostsPaid'
  BY CountTypes DEF CountInv, PostsPaid, Paid
<1>3. QED
  BY <1>1, <1>2 DEF CountInv

LEMMA CountStep ==
    ASSUME TypeOK, TypeOK', LifeInv, VersionInv, CountInv, [Next]_vars PROVE CountInv'
<1>a. bm \in Versions /\ cache \in Versions /\ inst \in Versions
  BY DEF TypeOK
<1>b. /\ Disturbances \in Nat /\ starts \in Nat /\ posts \in Nat
      /\ edits \in Nat /\ faults \in Nat /\ crashes \in Nat /\ stale \in Nat
  BY CountTypes
<1>c. Disturbances' \in Nat
  <2>1. edits' \in Nat /\ faults' \in Nat /\ crashes' \in Nat /\ stale' \in Nat
    BY ControllerAssumption DEF TypeOK
  <2>2. \A i, j, k, l \in Nat : i + j + k + l \in Nat
    OBVIOUS
  <2>3. QED
    BY <2>1, <2>2 DEF Disturbances
<1>d. /\ UNCHANGED <<edits, faults, crashes, stale>> => Disturbances' = Disturbances
      /\ faults' = faults + 1 /\ UNCHANGED <<edits, crashes, stale>>
            => Disturbances' = Disturbances + 1
      /\ edits' = edits + 1 /\ UNCHANGED <<faults, crashes, stale>>
            => Disturbances' = Disturbances + 1
      /\ crashes' = crashes + 1 /\ UNCHANGED <<edits, faults, stale>>
            => Disturbances' = Disturbances + 1
      /\ stale' = stale + 1 /\ UNCHANGED <<edits, faults, crashes>>
            => Disturbances' = Disturbances + 1
  BY <1>b DEF Disturbances
<1>1. CASE Create
  <2>1. /\ starts' = 0 /\ posts' = 0 /\ bm'.uid = bm.uid + 1 /\ UNCHANGED inst
    BY <1>1, <1>a DEF Create, Absent, worker
  <2>2. inst.uid <= bm.uid
    BY DEF LifeInv, WorkerInv, Behind
  <2>3. ~SameObject'
    BY <2>1, <2>2, NatFields DEF SameObject
  <2>4. 0 <= Disturbances' /\ 0 <= Disturbances' + 1
    <3>1. \A d \in Nat : 0 <= d /\ 0 <= d + 1
      OBVIOUS
    <3>2. QED
      BY <1>c, <3>1
  <2>5. QED
    BY <2>1, <2>3, <2>4 DEF CountInv, StartsPaid, PostsPaid, Paid
<1>2. CASE Delete
  <2>1. UNCHANGED <<pc, inst, starts, posts>> /\ Disturbances' = Disturbances /\ bm.exists
    BY <1>2, <1>d DEF Delete, worker, object, budgets
  <2>2. CASE ~bm.fin
    <3>1. ~bm'.exists
      BY <1>2, <1>a, <2>2, RemovedFields DEF Delete
    <3>2. ~SameObject'
      BY <3>1 DEF SameObject
    <3>3. QED
      BY <2>1, <3>1, <3>2 DEF CountInv, StartsPaid, PostsPaid, Paid
  <2>3. CASE bm.fin
    <3>1. /\ bm'.deleting /\ bm'.state = bm.state /\ bm'.uid = bm.uid /\ bm'.exists
      BY <1>2, <1>a, <2>1, <2>3 DEF Delete, Versions
    <3>2. ~Fresh /\ ~Fresh' /\ Spent' /\ SameObject' = SameObject
      BY <2>1, <2>3, <3>1 DEF VersionInv, VersionOK, Fresh, Spent, SameObject
    <3>3. StartsPaid'
      BY <2>1, <3>2 DEF CountInv, StartsPaid, Paid
    <3>4. PostsPaid'
      BY <1>b, <2>1, <3>2 DEF CountInv, PostsPaid, Paid
    <3>5. QED
      BY <3>3, <3>4 DEF CountInv
  <2>4. QED
    BY <2>2, <2>3
<1>3. CASE Edit
  <2>1. /\ UNCHANGED <<pc, inst, starts, posts>> /\ Disturbances' = Disturbances + 1
        /\ bm.exists
    BY <1>3, <1>d DEF Edit, worker, object
  <2>2. /\ bm'.deleting = bm.deleting /\ bm'.state = bm.state
        /\ bm'.uid = bm.uid /\ bm'.exists
    BY <1>3, <1>a, <2>1 DEF Edit, Versions
  <2>3. UNCHANGED <<Fresh, Spent, SameObject>>
    BY <2>1, <2>2 DEF Fresh, Spent, SameObject
  <2>4. StartsPaid'
    BY <1>b, <2>1, <2>3 DEF CountInv, StartsPaid, Paid
  <2>5. PostsPaid'
    BY <1>b, <2>1, <2>3 DEF CountInv, PostsPaid, Paid
  <2>6. QED
    BY <2>4, <2>5 DEF CountInv
<1>4. CASE \/ Sync \/ PodsAppear \/ PodsRun \/ PodsSucceed \/ RuntimeOver
           \/ SendStop \/ UNCHANGED vars
  <2>1. UNCHANGED <<bm, pc, inst, starts, posts, edits, faults, crashes, stale>>
    BY <1>4 DEF Sync, PodsAppear, PodsRun, PodsSucceed, PodStep, RuntimeOver, SendStop,
       vars, worker, object, budgets
  <2>2. Disturbances' >= Disturbances
    BY <1>b, <1>d, <2>1
  <2>3. QED
    BY <1>c, <2>1, <2>2, CountsKept
<1>5. CASE Crash
  <2>1. /\ UNCHANGED <<bm, starts, posts>> /\ pc' = "idle" /\ Disturbances' = Disturbances + 1
    BY <1>5, <1>d DEF Crash, object
  <2>2. UNCHANGED <<Fresh, Spent>> /\ Disturbances' >= Disturbances + 1
    BY <1>b, <2>1 DEF Fresh, Spent
  <2>3. QED
    BY <1>c, <2>1, <2>2, CountsAside
<1>g. ASSUME Get
      PROVE  /\ pc = "idle" /\ UNCHANGED <<bm, cache, starts, posts>>
             /\ Disturbances' >= Disturbances
             /\ \/ cache = bm
                \/ Disturbances' = Disturbances + 1
  <2>1. /\ pc = "idle" /\ UNCHANGED <<bm, cache, starts, posts, edits, faults, crashes>>
        /\ \/ cache = bm /\ UNCHANGED stale
           \/ stale' = stale + 1
    BY <1>g DEF Get, object
  <2>2. CASE cache = bm /\ UNCHANGED stale
    BY <1>b, <1>d, <2>1, <2>2
  <2>3. CASE stale' = stale + 1
    BY <1>b, <1>d, <2>1, <2>3
  <2>4. QED
    BY <2>1, <2>2, <2>3
<1>6. CASE GetNothingToDo
  BY <1>6, <1>c, <1>g, CountsKept DEF GetNothingToDo, worker
<1>7. CASE GetDeleting
  <2>1. Get /\ pc' = "stop"
    BY <1>7 DEF GetDeleting, Cleanup
  <2>2. UNCHANGED <<Fresh, Spent>>
    BY <1>g, <2>1 DEF Fresh, Spent
  <2>3. QED
    BY <1>c, <1>g, <2>1, <2>2, CountsAside
<1>8. CASE GetActive
  <2>1. /\ Get /\ cache.exists /\ ~cache.deleting /\ inst' = cache
        /\ \/ cache.state = "" /\ pc' = "start"
           \/ cache.state = "Initializing" /\ pc' = "Initializing"
           \/ cache.state = "Running" /\ pc' = "Running"
    BY <1>8, <1>a DEF GetActive, Versions
  <2>2. UNCHANGED <<bm, starts, posts, Fresh, Spent>> /\ pc = "idle"
    BY <1>g, <2>1 DEF Fresh, Spent
  <2>3. /\ starts <= Disturbances + 1 /\ (bm.exists /\ Fresh => starts <= Disturbances)
        /\ posts <= Disturbances + 1 /\ (bm.exists /\ ~Spent => posts <= Disturbances)
    BY <2>2 DEF CountInv, StartsPaid, PostsPaid, Paid
  <2>4. CASE cache = bm
    <3>1. UpToDate' /\ (pc' = "start" => Fresh) /\ (pc' = "Running" => ~Spent)
      BY <2>1, <2>2, <2>4 DEF UpToDate, Fresh, Spent
    <3>2. Disturbances' >= Disturbances
      BY <1>g, <2>1
    <3>3. /\ starts <= Disturbances' + 1 /\ (bm.exists /\ Fresh => starts <= Disturbances')
          /\ posts <= Disturbances' + 1 /\ (bm.exists /\ ~Spent => posts <= Disturbances')
      <4>1. \A n, d, e \in Nat :
              e >= d => (n <= d + 1 => n <= e + 1) /\ (n <= d => n <= e)
        OBVIOUS
      <4>2. QED
        BY <1>b, <1>c, <2>3, <3>2, <4>1
    <3>4. StartsPaid'
      BY <2>2, <3>1, <3>3 DEF StartsPaid, Paid
    <3>5. PostsPaid'
      BY <2>2, <3>1, <3>3 DEF PostsPaid, Paid
    <3>6. QED
      BY <3>4, <3>5 DEF CountInv
  <2>5. CASE cache # bm
    <3>1. Disturbances' = Disturbances + 1
      BY <1>g, <2>1, <2>5
    <3>2. SameObject' => bm.exists
      BY <2>2 DEF SameObject
    <3>3. StartsPaid'
      BY <1>b, <2>2, <2>3, <3>1, <3>2 DEF StartsPaid, Paid
    <3>4. PostsPaid'
      BY <1>b, <2>2, <2>3, <3>1, <3>2 DEF PostsPaid, Paid
    <3>5. QED
      BY <3>3, <3>4 DEF CountInv
  <2>6. QED
    BY <2>4, <2>5
<1>9. CASE FixupSpec \/ WaitForInit \/ ListFails \/ KeepRunning \/ StartRates \/ StopRoutinesReturns
  <2>1. /\ UNCHANGED <<bm, starts, posts, edits, crashes, stale>>
        /\ faults' = faults \/ faults' = faults + 1
        /\ pc \notin {"startStatus", "completeStatus"}
    BY <1>9 DEF FixupSpec, WaitForInit, ListFails, KeepRunning, StartRates,
       StopRoutinesReturns, object, budgets
  <2>2. pc' \in {"fixUpdate", "idle", "stop", "runStatus", "dropFin"}
    BY <1>9 DEF FixupSpec, WaitForInit, ListFails, KeepRunning, StartRates, Requeue,
       StopRoutinesReturns, CleanupReturns, Cleanup
  <2>3. UNCHANGED <<Fresh, Spent>> /\ Disturbances' >= Disturbances
    BY <1>b, <1>d, <2>1 DEF Fresh, Spent
  <2>4. QED
    BY <1>c, <2>1, <2>2, <2>3, CountsAside
<1>10. CASE StartWorkloads \/ StartWorkloadsFails
  <2>1. /\ pc = "start" /\ UNCHANGED <<bm, posts>>
        /\ \/ SameObject /\ starts' = starts + 1
           \/ ~SameObject /\ starts' = starts
        /\ \/ pc' = "startStatus" /\ Disturbances' = Disturbances /\ inst'.rv = inst.rv
           \/ pc' = "idle" /\ Disturbances' = Disturbances + 1
    BY <1>10, <1>a, <1>d DEF StartWorkloads, StartWorkloadsFails, WorkloadsCreated, Requeue,
       object, budgets, Versions
  <2>2. UNCHANGED <<Fresh, Spent>> /\ (pc' = "startStatus" => UpToDate' = UpToDate)
    BY <2>1 DEF Fresh, Spent, UpToDate
  <2>3. UpToDate => Fresh
    BY <2>1 DEF LifeInv, WorkerInv
  <2>4. UpToDate => SameObject
    BY DEF UpToDate, SameObject, LifeInv, WorkerInv, Behind
  <2>5. /\ starts <= Disturbances + 1
        /\ bm.exists /\ Fresh => starts <= Disturbances
        /\ SameObject /\ Fresh /\ ~UpToDate => starts + 1 <= Disturbances
        /\ SameObject /\ ~Fresh => starts <= Disturbances
    BY <2>1 DEF CountInv, StartsPaid, Paid
  <2>6. SameObject => bm.exists
    BY DEF SameObject
  <2>7. StartsPaid'
    <3>1. starts' <= Disturbances' + 1
      BY <1>b, <2>1, <2>5, <2>6
    <3>2. bm.exists /\ Fresh => starts' <= Disturbances' \/ (pc' = "startStatus" /\ UpToDate')
      BY <1>b, <2>1, <2>2, <2>5, <2>6
    <3>3. QED
      BY <2>1, <2>2, <3>1, <3>2 DEF StartsPaid, Paid
  <2>8. PostsPaid'
    BY <1>b, <2>1, <2>2 DEF CountInv, PostsPaid, Paid
  <2>9. QED
    BY <2>7, <2>8 DEF CountInv
<1>11. CASE DoOutputs
  <2>1. /\ pc = "Running" /\ pc' = "completeStatus" /\ UNCHANGED <<bm, starts>>
        /\ \/ SameObject /\ posts' = posts + 1
           \/ ~SameObject /\ posts' = posts
        /\ Disturbances' = Disturbances /\ inst'.rv = inst.rv
    BY <1>11, <1>a, <1>d DEF DoOutputs, budgets, Versions
  <2>2. UNCHANGED <<Fresh, Spent, UpToDate>>
    BY <2>1 DEF Fresh, Spent, UpToDate
  <2>3. SameObject => bm.exists
    BY DEF SameObject
  <2>4. /\ posts <= Disturbances + 1
        /\ bm.exists /\ ~Spent => posts <= Disturbances
        /\ SameObject /\ ~Spent /\ ~UpToDate => posts + 1 <= Disturbances
        /\ SameObject /\ Spent => posts <= Disturbances
    BY <2>1 DEF CountInv, PostsPaid, Paid
  <2>5. PostsPaid'
    <3>1. posts' <= Disturbances' + 1
      BY <1>b, <2>1, <2>3, <2>4
    <3>2. bm.exists /\ ~Spent => posts' <= Disturbances' \/ UpToDate'
      BY <1>b, <2>1, <2>2, <2>3, <2>4
    <3>3. QED
      BY <2>1, <2>2, <3>1, <3>2 DEF PostsPaid, Paid
  <2>6. StartsPaid'
    BY <1>b, <2>1, <2>2 DEF CountInv, StartsPaid, Paid
  <2>7. QED
    BY <2>5, <2>6 DEF CountInv
<1>w. ASSUME NEW stored, Succeeds(stored) \/ Fails(stored), UNCHANGED <<edits, crashes, stale>>
      PROVE  /\ bm' # bm => UpToDate /\ bm' = stored
             /\ Disturbances' >= Disturbances
             /\ \/ UpToDate /\ bm' = stored
                \/ ~UpToDate
                \/ Disturbances' = Disturbances + 1
  BY <1>b, <1>d, <1>w DEF Succeeds, Fails
<1>12. CASE UpdateStatus
  <2>1. /\ pc \in StatusWritePoints /\ UNCHANGED <<starts, posts, edits, crashes, stale>>
        /\ Succeeds(StatusStored) \/ Fails(StatusStored)
        /\ pc' \in {"stop", "startUpdate", "runUpdate"}
    BY <1>12 DEF UpdateStatus, Cleanup, object
  <2>2. bm' # bm =>
          /\ bm'.exists = bm.exists /\ bm'.deleting = bm.deleting
          /\ \/ pc = "startStatus" /\ Fresh /\ bm'.state = "Initializing"
             \/ pc = "runStatus" /\ bm.state = "Initializing" /\ bm'.state = "Running"
             \/ pc = "completeStatus" /\ bm.state = "Running" /\ bm'.state = "Complete"
    <3>1. bm' # bm => UpToDate /\ bm' = StatusStored
      BY <1>w, <2>1
    <3>2. StatusStored.deleting = bm.deleting
      BY <1>a DEF StatusStored, Versions
    <3>3. QED
      BY <1>a, <2>1, <3>1, <3>2, StatusStoredFields DEF LifeInv, WorkerInv, StatusWritePoints
  <2>3. bm'.exists => bm.exists /\ (Fresh' => Fresh) /\ (Spent => Spent')
    BY <2>2 DEF Fresh, Spent
  <2>4. \/ ~UpToDate
        \/ Disturbances' = Disturbances + 1
        \/ bm' = StatusStored
    BY <1>w, <2>1
  <2>5. /\ pc = "startStatus" /\ UpToDate /\ bm' = StatusStored => ~Fresh'
        /\ pc = "completeStatus" /\ UpToDate /\ bm' = StatusStored => Spent'
    BY <1>a, StatusStoredFields DEF LifeInv, WorkerInv, Fresh, Spent
  <2>6. Disturbances' >= Disturbances
    BY <1>w, <2>1
  <2>7. \/ Disturbances' >= Disturbances + 1
        \/ /\ pc = "startStatus" /\ UpToDate => ~Fresh'
           /\ pc = "completeStatus" /\ UpToDate => Spent'
    BY <1>b, <2>4, <2>5
  <2>8. QED
    BY <1>c, <2>1, <2>3, <2>6, <2>7, CountsAside
<1>13. CASE UpdateInstance \/ RemoveFinalizer
  <2>1. PICK b \in {inst, [inst EXCEPT !.fin = FALSE]} : Succeeds(Stored(b)) \/ Fails(Stored(b))
    BY <1>13 DEF UpdateInstance, RemoveFinalizer
  <2>2. b \in Versions
    BY <1>a DEF Versions
  <2>3. /\ UNCHANGED <<starts, posts, edits, crashes, stale>> /\ pc' \in {"stop", "idle"}
        /\ pc \notin {"startStatus", "completeStatus"}
    BY <1>13 DEF UpdateInstance, RemoveFinalizer, Cleanup, Return, Requeue, CleanupReturns, object
  <2>4. bm' # bm => UpToDate /\ bm' = Stored(b)
    BY <1>w, <2>1, <2>3
  <2>5. bm' # bm /\ bm'.exists =>
          bm.exists /\ bm'.state = bm.state /\ bm'.deleting = bm.deleting
    BY <1>a, <2>2, <2>4, StoredRest, RemovedFields
  <2>6. bm'.exists => bm.exists /\ (Fresh' => Fresh) /\ (Spent => Spent')
    BY <2>5 DEF Fresh, Spent
  <2>7. Disturbances' >= Disturbances
    BY <1>w, <2>1, <2>3
  <2>8. QED
    BY <1>c, <2>3, <2>6, <2>7, CountsAside
<1>14. QED
  BY <1>1, <1>2, <1>3, <1>4, <1>5, <1>6, <1>7, <1>8, <1>9, <1>10, <1>11, <1>12,
     <1>13 DEF Next, Reconcile

(***************************************************************************)
(* Workloads are started and outputs sent once, and once more at most for  *)
(* each edit by somebody else, failed call, crash and stale read: for any  *)
(* number of them, in any order, and however often the object is deleted   *)
(* and created again.                                                      *)
(***************************************************************************)
THEOREM RepeatsAreBounded == Spec => []RunsOnce
<1>1. Init => CountInv
  <2> SUFFICES ASSUME Init PROVE CountInv
    OBVIOUS
  <2>1. starts = 0 /\ posts = 0 /\ pc = "idle" /\ Disturbances = 0
    BY DEF Init, Disturbances
  <2>2. 0 <= 0 /\ 0 <= 0 + 1
    OBVIOUS
  <2>3. QED
    BY <2>1, <2>2 DEF CountInv, StartsPaid, PostsPaid, Paid
<1>2. /\ TypeOK /\ TypeOK' /\ LifeInv /\ VersionInv /\ CountInv /\ [Next]_vars
      => CountInv'
  BY CountStep
<1>3. TypeOK /\ CountInv => RunsOnce
  BY CountTypes DEF CountInv, StartsPaid, PostsPaid, Paid, RunsOnce
<1>4. QED
  BY <1>1, <1>2, <1>3, TypeCorrect, LifeInvariant, VersionInvariant, PTL DEF Spec
=============================================================================
