-------------------------- MODULE ControlOpsProofs --------------------------
(***************************************************************************)
(* Theorems about ControlOps: for any volumes, workloads, operations and   *)
(* values, any number of rates and any number of failing calls.            *)
(***************************************************************************)
EXTENDS ControlOps, InstancesProofs

(***************************************************************************)
(* The typing of the routines, and the names of what they create: a name   *)
(* other than a claim's holds the operation and the value it was for.      *)
(***************************************************************************)
RoundFields == {"stage", "n", "claims", "ops", "todo", "list", "id"}

RoundOK(f) ==
    /\ DOMAIN f = RoundFields
    /\ f.ops \subseteq DOMAIN Operations
    /\ \A x \in f.claims : x[1] = "volume"
    /\ f.id \in Nat

ThingOK(x, t, n) ==
    /\ \/ x[1] = "volume" /\ t.kind = "claim"
       \/ x[1] \in {"snapshot", "script", "pod"} /\ t.kind = x[1] /\ x[3] \in 1..n
    /\ t.kind = "pod" => t.label = "scale-pod"
    /\ t.born \in 0..n

CtlInv ==
    /\ DOMAIN round = Rates
    /\ \A r \in Rates : RoundOK(round[r])
    /\ values \in Nat
    /\ \A x \in DOMAIN things : ThingOK(x, things[x], values)

\* An operation in progress belongs to a value that was received.
ActiveInv ==
    \A r \in Rates : /\ round[r].id <= values
                     /\ round[r].stage = "wait" => round[r].ops = {}
                     /\ round[r].stage # "wait" => round[r].id > 0
                     /\ round[r].stage \in {"snapshot", "delete", "clone", "pod"} =>
                           round[r].ops # {}

(***************************************************************************)
(* Scaling: what the scale pods will set is still up to date, and so is    *)
(* what the last of them has set.                                          *)
(***************************************************************************)
NoPodDeletes ==
    \A k \in DOMAIN Operations :
        Operations[k].kind = "pod" => Operations[k].selector # "scale-pod"

ScaleInv ==
    /\ \A r \in Rates : round[r].stage = "delete" => \A x \in round[r].todo : x[1] # "pod"
    /\ ~gone => /\ \A x \in ScalePods : things[x].of[1] \in current
                /\ ScalePods = {} => replicas \in current

(***************************************************************************)
(* Deletion: a routine still has to create z.                              *)
(***************************************************************************)
NoClaimDeletes == \A k \in DOMAIN Operations : Operations[k].kind # "claim"

Pending(f, z) ==
    /\ f.id = z[3] /\ z[2] \in f.ops
    /\ z[2] = First(f.ops) =>
          \/ f.stage \in {"volumes", "workloads", "next", "clone"}
          \/ f.stage = "snapshot" /\ z[1] = "snapshot" /\ z[4] \in f.todo
          \/ f.stage = "pod" /\ z[1] = "pod"

Doomed == UNION {round[r].todo : r \in {s \in Rates : round[s].stage = "delete"}}

\* Two routines work on values of their own.
IdsInv == \A r, s \in Rates : r # s /\ round[r].id = round[s].id => round[r].id = 0

\* A name is given to one object: what exists or is to be deleted is not still to be created.
NamesInv ==
    /\ \A z \in Doomed : z[1] \in {"snapshot", "script", "pod"} /\ z[3] \in 1..values
    /\ \A z \in Doomed \cup DOMAIN things :
          z[1] # "volume" => \A r \in Rates : ~Pending(round[r], z)

\* What a routine chose to delete is as old as anything that matches now.
OldestInv ==
    \A r \in Rates : round[r].stage = "delete" =>
        \A x \in round[r].todo : x \in DOMAIN things =>
            \A y \in Matching(Op(r)) : things[x].born <= things[y].born

(***************************************************************************)
(* Snapshots: the claims of the list that were tried and have none.        *)
(***************************************************************************)
MissedSoFar(f, tk) ==
    {x \in f.list \ f.todo : <<First(f.ops), f.id, x>> \notin tk}

SnapAt(f, tk, n) ==
    f.stage = "snapshot" =>
        /\ f.todo \subseteq f.list
        /\ IsFiniteSet(MissedSoFar(f, tk))
        /\ Cardinality(MissedSoFar(f, tk)) <= n

SnapInv ==
    /\ spent \in [moves : Nat, faults : Nat, setbacks : Nat]
    /\ \A r \in Rates : SnapAt(round[r], taken, spent.faults)
-----------------------------------------------------------------------------
(***************************************************************************)
(* What the steps of a routine do to where it is.                          *)
(***************************************************************************)
Turned(r, st, ops, todo, list, id) ==
    /\ DOMAIN round' = Rates
    /\ \A s \in Rates \ {r} : round'[s] = round[s]
    /\ DOMAIN round'[r] = RoundFields
    /\ round'[r].stage = st /\ round'[r].ops = ops /\ round'[r].todo = todo
    /\ round'[r].list = list /\ round'[r].id = id
    /\ \A x \in round'[r].claims : x[1] = "volume"

LEMMA FirstFacts ==
    ASSUME NEW S, S \subseteq DOMAIN Operations, S # {}
    PROVE  First(S) \in S
<1>1. DOMAIN Operations = 1..Len(Operations) /\ Len(Operations) \in Nat
  <2>1. PICK T : Operations \in Seq(T)
    BY ControlOpsAssumption, Zenon
  <2>2. QED
    BY <2>1, LenProperties
<1>2. S \subseteq Nat
  BY <1>1
<1>3. PICK m \in S : \A j \in S : ~(<<j, m>> \in OpToRel(<, Nat))
  BY <1>2, NatLessThanWellFounded, WFMin
<1>4. \A j \in S : m <= j
  <2>1. \A j \in S : ~(j < m)
    BY <1>2, <1>3 DEF OpToRel
  <2>2. QED
    BY <1>2, <2>1
<1>5. QED
  BY <1>4 DEF First

LEMMA ReturnsTurn ==
    ASSUME CtlInv, NEW r \in Rates, round' = OpReturns(r)
    PROVE  Turned(r, "next", round[r].ops \ {Current(r)}, {}, {}, round[r].id)
<1> DEFINE c == Current(r)
<1>1. DOMAIN round = Rates /\ DOMAIN round[r] = RoundFields
      /\ \A x \in round[r].claims : x[1] = "volume"
  BY DEF CtlInv, RoundOK
<1>2. round' = [round EXCEPT ![r].stage = "next", ![r].ops = round[r].ops \ {c}, ![r].todo = {},
                             ![r].list = {}]
  BY <1>1 DEF OpReturns
<1> HIDE DEF c
<1>3. QED
  BY <1>1, <1>2 DEF Turned, RoundFields, c

LEMMA ReceiveTurns ==
    ASSUME CtlInv, NEW r \in Rates, ReceiveValue(r)
    PROVE  Turned(r, "volumes", OperationsOf(r), {}, {}, values')
<1> DEFINE cl == Claims(VolumesOf(r))
           ops == OperationsOf(r)
           v == scene.sends[values'].n
<1>1. DOMAIN round = Rates
  BY DEF CtlInv
<1>2. \A x \in cl : x[1] = "volume"
  BY DEF Claims, ClaimsOf
<1>3. round' = [round EXCEPT ![r] = [Waiting EXCEPT !.stage = "volumes", !.n = v, !.id = values',
                                                     !.claims = cl, !.ops = ops]]
  BY DEF ReceiveValue
<1> HIDE DEF cl, ops, v
<1>4. QED
  BY <1>1, <1>2, <1>3 DEF Turned, RoundFields, Waiting, ops

LEMMA VolumeTurns ==
    ASSUME CtlInv, NEW r \in Rates, CreateVolume(r)
    PROVE  Turned(r, "volumes", round[r].ops, round[r].todo, round[r].list, round[r].id)
<1>1. DOMAIN round = Rates /\ DOMAIN round[r] = RoundFields
      /\ \A x \in round[r].claims : x[1] = "volume"
  BY DEF CtlInv, RoundOK
<1>2. PICK x : round' = [round EXCEPT ![r].claims = @ \ {x}] /\ round[r].stage = "volumes"
  BY DEF CreateVolume
<1>3. QED
  BY <1>1, <1>2 DEF Turned, RoundFields

LEMMA StageTurns ==
    ASSUME CtlInv, NEW r \in Rates, NEW st, round' = [round EXCEPT ![r].stage = st]
    PROVE  Turned(r, st, round[r].ops, round[r].todo, round[r].list, round[r].id)
<1>1. DOMAIN round = Rates /\ DOMAIN round[r] = RoundFields
      /\ \A x \in round[r].claims : x[1] = "volume"
  BY DEF CtlInv, RoundOK
<1>2. QED
  BY <1>1 DEF Turned, RoundFields

LEMMA NextTurns ==
    ASSUME CtlInv, NEW r \in Rates, NextOperation(r)
    PROVE  \/ Turned(r, "wait", {}, {}, {}, 0)
           \/ /\ round[r].ops # {}
              /\ \/ \E L : Turned(r, "snapshot", round[r].ops, L, L, round[r].id)
                 \/ \E x \in Oldest(Matching(Op(r))) :
                       Turned(r, "delete", round[r].ops, {x}, round[r].list, round[r].id)
                 \/ Turned(r, "clone", round[r].ops, round[r].todo, round[r].list, round[r].id)
                 \/ Turned(r, "next", round[r].ops \ {Current(r)}, {}, {}, round[r].id)
<1>1. DOMAIN round = Rates /\ DOMAIN round[r] = RoundFields
      /\ \A x \in round[r].claims : x[1] = "volume"
  BY DEF CtlInv, RoundOK
<1>2. CASE round[r].ops = {}
  <2>1. round' = [round EXCEPT ![r] = Waiting]
    BY <1>2 DEF NextOperation
  <2>2. Turned(r, "wait", {}, {}, {}, 0)
    BY <1>1, <2>1 DEF Turned, RoundFields, Waiting
  <2>3. QED
    BY <2>2
<1>3. CASE round[r].ops # {}
  <2> DEFINE L == ClaimsFor(Op(r))
  <2>1. \/ round' = [round EXCEPT ![r].stage = "snapshot", ![r].todo = L, ![r].list = L]
        \/ \E x \in Oldest(Matching(Op(r))) :
              round' = [round EXCEPT ![r].stage = "delete", ![r].todo = {x}]
        \/ round' = [round EXCEPT ![r].stage = "clone"]
        \/ round' = OpReturns(r)
    BY <1>3 DEF NextOperation
  <2> HIDE DEF L
  <2>2. CASE round' = [round EXCEPT ![r].stage = "snapshot", ![r].todo = L, ![r].list = L]
    <3>1. Turned(r, "snapshot", round[r].ops, L, L, round[r].id)
      BY <1>1, <2>2 DEF Turned, RoundFields
    <3>2. QED
      BY <1>3, <3>1
  <2>3. ASSUME NEW x \in Oldest(Matching(Op(r))),
               round' = [round EXCEPT ![r].stage = "delete", ![r].todo = {x}]
        PROVE  Turned(r, "delete", round[r].ops, {x}, round[r].list, round[r].id)
    BY <1>1, <2>3 DEF Turned, RoundFields
  <2>4. CASE round' = [round EXCEPT ![r].stage = "clone"]
    BY <1>3, <2>4, StageTurns
  <2>5. CASE round' = OpReturns(r)
    BY <1>3, <2>5, ReturnsTurn
  <2>6. QED
    BY <1>3, <2>1, <2>2, <2>3, <2>4, <2>5
<1>4. QED
  BY <1>2, <1>3

\* The snapshot of x is made or has failed; it may be the last one of the list.
LEMMA SnapshotTurns ==
    ASSUME CtlInv, NEW r \in Rates, NEW x \in round[r].todo, round' = NextClaim(r, x),
           round[r].stage = "snapshot"
    PROVE  \/ /\ round[r].todo = {x}
              /\ Turned(r, "next", round[r].ops \ {Current(r)}, {}, {}, round[r].id)
           \/ Turned(r, "snapshot", round[r].ops, round[r].todo \ {x}, round[r].list, round[r].id)
<1>1. DOMAIN round = Rates /\ DOMAIN round[r] = RoundFields
      /\ \A c \in round[r].claims : c[1] = "volume"
  BY DEF CtlInv, RoundOK
<1>2. CASE round[r].todo = {x}
  <2>1. round' = OpReturns(r)
    BY <1>2 DEF NextClaim
  <2>2. QED
    BY <1>2, <2>1, ReturnsTurn
<1>3. CASE round[r].todo # {x}
  <2>1. round' = [round EXCEPT ![r].todo = @ \ {x}]
    BY <1>3 DEF NextClaim
  <2>2. Turned(r, "snapshot", round[r].ops, round[r].todo \ {x}, round[r].list, round[r].id)
    BY <1>1, <2>1 DEF Turned, RoundFields
  <2>3. QED
    BY <2>2
<1>4. QED
  BY <1>2, <1>3

LEMMA CloneTurns ==
    ASSUME CtlInv, NEW r \in Rates, CloneScripts(r)
    PROVE  \/ \E T : Turned(r, "pod", round[r].ops, T, round[r].list, round[r].id)
           \/ /\ Turned(r, "next", round[r].ops \ {Current(r)}, {}, {}, round[r].id)
              /\ UNCHANGED things
<1>1. DOMAIN round = Rates /\ DOMAIN round[r] = RoundFields
      /\ \A c \in round[r].claims : c[1] = "volume"
  BY DEF CtlInv, RoundOK
<1>2. ASSUME NEW T, round' = [round EXCEPT ![r].stage = "pod", ![r].todo = T]
      PROVE  Turned(r, "pod", round[r].ops, T, round[r].list, round[r].id)
  BY <1>1, <1>2 DEF Turned, RoundFields
<1>3. \/ \E T : round' = [round EXCEPT ![r].stage = "pod", ![r].todo = T]
      \/ round' = OpReturns(r) /\ UNCHANGED things
  BY DEF CloneScripts
<1>4. QED
  BY <1>2, <1>3, ReturnsTurn
-----------------------------------------------------------------------------
(***************************************************************************)
(* CtlInv is an invariant.                                                 *)
(***************************************************************************)
LEMMA RoundsOK ==
    ASSUME CtlInv, NEW r \in Rates, NEW st, NEW ops, NEW todo, NEW list, NEW id,
           Turned(r, st, ops, todo, list, id), ops \subseteq DOMAIN Operations, id \in Nat
    PROVE  DOMAIN round' = Rates /\ \A s \in Rates : RoundOK(round'[s])
BY DEF CtlInv, RoundOK, Turned

LEMMA WithThingFacts ==
    ASSUME NEW z, NEW t, things' = WithThing(z, t)
    PROVE  /\ DOMAIN things' = DOMAIN things \cup {z}
           /\ \A x \in DOMAIN things : things'[x] = things[x]
           /\ z \notin DOMAIN things => things'[z] = t
BY DEF WithThing

\* The shape of the steps that change the objects.
Added(z, t) == things' = WithThing(z, t) /\ ThingOK(z, t, values) /\ UNCHANGED values

Removed(D) ==
    /\ things' = [x \in DOMAIN things \ D |-> things[x]]
    /\ UNCHANGED values

Kept == UNCHANGED things /\ values' \in Nat /\ values' >= values

LEMMA ThingsOK ==
    ASSUME CtlInv, Kept \/ (\E z, t : Added(z, t)) \/ (\E D : Removed(D))
    PROVE  values' \in Nat /\ \A x \in DOMAIN things' : ThingOK(x, things'[x], values')
<1>1. values \in Nat /\ \A x \in DOMAIN things : ThingOK(x, things[x], values)
  BY DEF CtlInv
<1>2. CASE Kept
  BY <1>1, <1>2 DEF Kept, ThingOK
<1>3. ASSUME NEW z, NEW t, Added(z, t)
      PROVE  values' \in Nat /\ \A x \in DOMAIN things' : ThingOK(x, things'[x], values')
  <2>1. values' = values /\ things' = WithThing(z, t) /\ ThingOK(z, t, values)
    BY <1>3 DEF Added
  <2>2. /\ DOMAIN things' = DOMAIN things \cup {z}
        /\ \A x \in DOMAIN things : things'[x] = things[x]
        /\ z \notin DOMAIN things => things'[z] = t
    BY <2>1, WithThingFacts
  <2>3. \A x \in DOMAIN things' : ThingOK(x, things'[x], values)
    BY <1>1, <2>1, <2>2
  <2>4. QED
    BY <1>1, <2>1, <2>3
<1>4. ASSUME NEW D, Removed(D)
      PROVE  values' \in Nat /\ \A x \in DOMAIN things' : ThingOK(x, things'[x], values')
  BY <1>1, <1>4 DEF Removed
<1>5. QED
  BY <1>2, <1>3, <1>4

LEMMA GeneratedOK ==
    ASSUME CtlInv, ActiveInv, NEW r \in Rates, round[r].stage # "wait",
           NEW kind \in {"snapshot", "script", "pod"}, NEW label, NEW x, NEW of,
           kind = "pod" => label = "scale-pod",
           Generate(r, kind, label, x, of), UNCHANGED values
    PROVE  Added(<<kind, Current(r), round[r].id, x>>, Thing(kind, label, values, of))
<1>1. values \in Nat /\ round[r].id \in Nat /\ round[r].id <= values /\ round[r].id > 0
  BY DEF CtlInv, RoundOK, ActiveInv
<1>2. round[r].id \in 1..values /\ values \in 0..values
  BY <1>1
<1>3. ThingOK(<<kind, Current(r), round[r].id, x>>, Thing(kind, label, values, of), values)
  BY <1>2 DEF ThingOK, Thing
<1>4. QED
  BY <1>3 DEF Added, Generate

LEMMA ClaimOK ==
    ASSUME CtlInv, NEW x, x[1] = "volume"
    PROVE  ThingOK(x, ClaimThing(x, values), values)
<1>1. values \in 0..values
  BY DEF CtlInv
<1>2. QED
  BY <1>1 DEF ThingOK, ClaimThing, Thing

\* The effect of every step of a routine on the objects.
LEMMA RoutineThings ==
    ASSUME CtlInv, ActiveInv, NEW r \in Rates, RunControlOps(r)
    PROVE  UNCHANGED values /\ (Kept \/ (\E z, t : Added(z, t)) \/ (\E D : Removed(D)))
<1>0. values \in Nat /\ \A x \in round[r].claims : x[1] = "volume"
  BY DEF CtlInv, RoundOK
<1>1. CASE ListFails(r) \/ RunWorkloads(r) \/ WorkloadsDone(r) \/ NextOperation(r)
  BY <1>0, <1>1 DEF ListFails, RunWorkloads, WorkloadsDone, NextOperation, Kept
<1>2. CASE CreateVolume(r)
  <2>1. PICK x \in round[r].claims :
           UNCHANGED things \/ things' = WithThing(x, ClaimThing(x, values))
    BY <1>2 DEF CreateVolume
  <2>2. UNCHANGED values
    BY <1>2 DEF CreateVolume
  <2>3. ThingOK(x, ClaimThing(x, values), values)
    BY <1>0, ClaimOK
  <2>4. QED
    BY <1>0, <2>1, <2>2, <2>3 DEF Added, Kept
<1>3. CASE Snapshot(r)
  <2>1. UNCHANGED values /\ round[r].stage = "snapshot"
    BY <1>3 DEF Snapshot
  <2>2. PICK x : UNCHANGED things \/ Generate(r, "snapshot", Op(r).name, x, x)
    BY <1>3 DEF Snapshot, TakeSnapshot, SnapshotFails
  <2>3. CASE UNCHANGED things
    BY <1>0, <2>1, <2>3 DEF Kept
  <2>4. CASE Generate(r, "snapshot", Op(r).name, x, x)
    <3>1. Added(<<"snapshot", Current(r), round[r].id, x>>, Thing("snapshot", Op(r).name, values, x))
      BY <2>1, <2>4, GeneratedOK
    <3>2. QED
      BY <2>1, <3>1
  <2>5. QED
    BY <2>2, <2>3, <2>4
<1>4. CASE DeleteObj(r)
  <2>1. UNCHANGED values /\ (UNCHANGED things \/ Removed(round[r].todo))
    BY <1>4 DEF DeleteObj, Removed, Without
  <2>2. QED
    BY <1>0, <2>1 DEF Kept
<1>5. CASE CloneScripts(r)
  <2>1. UNCHANGED values /\ round[r].stage = "clone"
    BY <1>5 DEF CloneScripts
  <2>2. PICK lb : UNCHANGED things \/ Generate(r, "script", lb, <<>>, <<>>)
    BY <1>5 DEF CloneScripts
  <2>3. CASE UNCHANGED things
    BY <1>0, <2>1, <2>3 DEF Kept
  <2>4. CASE Generate(r, "script", lb, <<>>, <<>>)
    <3>1. Added(<<"script", Current(r), round[r].id, <<>>>>, Thing("script", lb, values, <<>>))
      BY <2>1, <2>4, GeneratedOK
    <3>2. QED
      BY <2>1, <3>1
  <2>5. QED
    BY <2>2, <2>3, <2>4
<1>6. CASE ScaleObj(r)
  <2>1. UNCHANGED values /\ round[r].stage = "pod"
    BY <1>6 DEF ScaleObj
  <2>2. UNCHANGED things \/ Generate(r, "pod", "scale-pod", <<>>, <<round[r].n, round[r].todo>>)
    BY <1>6 DEF ScaleObj
  <2>3. CASE UNCHANGED things
    BY <1>0, <2>1, <2>3 DEF Kept
  <2>4. CASE Generate(r, "pod", "scale-pod", <<>>, <<round[r].n, round[r].todo>>)
    <3>1. Added(<<"pod", Current(r), round[r].id, <<>>>>, Thing("pod", "scale-pod", values, <<round[r].n, round[r].todo>>))
      BY <2>1, <2>4, GeneratedOK
    <3>2. QED
      BY <2>1, <3>1
  <2>5. QED
    BY <2>2, <2>3, <2>4
<1>7. QED
  BY <1>1, <1>2, <1>3, <1>4, <1>5, <1>6 DEF RunControlOps

\* The operations and the value of a routine only change when the next value comes.
Moved(r, st, ops, todo, list, id) ==
    /\ Turned(r, st, ops, todo, list, id)
    /\ ops \subseteq round[r].ops
    /\ st = "wait" => ops = {} /\ id \in {0, round[r].id}
    /\ st # "wait" => /\ round[r].stage # "wait"
                                       /\ id = round[r].id
    /\ st \in {"snapshot", "delete", "clone", "pod"} => ops # {}

LEMMA RoutineMoves ==
    ASSUME CtlInv, ActiveInv, NEW r \in Rates, RunControlOps(r)
    PROVE  \E st, ops, todo, list, id : Moved(r, st, ops, todo, list, id)
<1> DEFINE f == round[r]
           next == f.ops \ {Current(r)}
<1>0. /\ f.stage = "wait" => f.ops = {}
      /\ f.stage \in {"snapshot", "delete", "clone", "pod"} => f.ops # {}
  BY DEF ActiveInv
<1>2. CASE CreateVolume(r)
  <2>1. Moved(r, "volumes", f.ops, f.todo, f.list, f.id)
    BY <1>2, VolumeTurns DEF Moved, CreateVolume
  <2>2. QED
    BY <2>1
<1>3. CASE RunWorkloads(r)
  <2>1. Turned(r, "workloads", f.ops, f.todo, f.list, f.id)
    BY <1>3, StageTurns DEF RunWorkloads
  <2>2. Moved(r, "workloads", f.ops, f.todo, f.list, f.id)
    BY <1>3, <2>1 DEF Moved, RunWorkloads
  <2>3. QED
    BY <2>2
<1>4. CASE WorkloadsDone(r)
  <2>1. Turned(r, "next", f.ops, f.todo, f.list, f.id)
    BY <1>4, StageTurns DEF WorkloadsDone
  <2>2. Moved(r, "next", f.ops, f.todo, f.list, f.id)
    BY <1>4, <2>1 DEF Moved, WorkloadsDone
  <2>3. QED
    BY <2>2
<1>5. ASSUME f.stage # "wait", Turned(r, "next", next, {}, {}, f.id)
      PROVE  Moved(r, "next", next, {}, {}, f.id)
  BY <1>5 DEF Moved
<1>6. CASE NextOperation(r)
  <2>1. f.stage = "next"
    BY <1>6 DEF NextOperation
  <2>2. CASE Turned(r, "wait", {}, {}, {}, 0)
    <3>1. Moved(r, "wait", {}, {}, {}, 0)
      BY <2>2 DEF Moved
    <3>2. QED
      BY <3>1
  <2>3. ASSUME f.ops # {}, NEW L, Turned(r, "snapshot", f.ops, L, L, f.id)
        PROVE  Moved(r, "snapshot", f.ops, L, L, f.id)
    BY <2>1, <2>3 DEF Moved
  <2>4. ASSUME f.ops # {}, NEW x, Turned(r, "delete", f.ops, {x}, f.list, f.id)
        PROVE  Moved(r, "delete", f.ops, {x}, f.list, f.id)
    BY <2>1, <2>4 DEF Moved
  <2>5. CASE f.ops # {} /\ Turned(r, "clone", f.ops, f.todo, f.list, f.id)
    <3>1. Moved(r, "clone", f.ops, f.todo, f.list, f.id)
      BY <2>1, <2>5 DEF Moved
    <3>2. QED
      BY <3>1
  <2>6. QED
    BY <1>5, <1>6, <2>1, <2>2, <2>3, <2>4, <2>5, NextTurns
<1>7. CASE Snapshot(r)
  <2>1. PICK x \in f.todo : f.stage = "snapshot" /\ round' = NextClaim(r, x)
    BY <1>7 DEF Snapshot
  <2>2. CASE Turned(r, "snapshot", f.ops, f.todo \ {x}, f.list, f.id)
    <3>1. Moved(r, "snapshot", f.ops, f.todo \ {x}, f.list, f.id)
      BY <1>0, <2>1, <2>2 DEF Moved
    <3>2. QED
      BY <3>1
  <2>3. QED
    BY <1>5, <2>1, <2>2, SnapshotTurns
<1>8. CASE DeleteObj(r) \/ ScaleObj(r) \/ ListFails(r)
  <2>1. round' = OpReturns(r) /\ f.stage # "wait"
    BY <1>8 DEF DeleteObj, ScaleObj, ListFails
  <2>2. QED
    BY <1>5, <2>1, ReturnsTurn
<1>9. CASE CloneScripts(r)
  <2>1. f.stage = "clone"
    BY <1>9 DEF CloneScripts
  <2>2. ASSUME NEW T, Turned(r, "pod", f.ops, T, f.list, f.id)
        PROVE  Moved(r, "pod", f.ops, T, f.list, f.id)
    BY <1>0, <2>1, <2>2 DEF Moved
  <2>3. QED
    BY <1>5, <1>9, <2>1, <2>2, CloneTurns
<1>10. QED
  BY <1>2, <1>3, <1>4, <1>6, <1>7, <1>8, <1>9 DEF RunControlOps

LEMMA CtlInit1 == CtlInit => CtlInv /\ ActiveInv
<1> SUFFICES ASSUME CtlInit PROVE CtlInv /\ ActiveInv
  OBVIOUS
<1>1. PICK S \in SUBSET Claims(DOMAIN Volumes) : things = [x \in S |-> ClaimThing(x, 0)]
  BY DEF CtlInit
<1>2. \A x \in S : x[1] = "volume"
  BY DEF Claims, ClaimsOf
<1>3. round = [r \in Rates |-> Waiting] /\ values = 0
  BY DEF CtlInit
<1>4. \A x \in DOMAIN things : ThingOK(x, things[x], values)
  BY <1>1, <1>2, <1>3 DEF ThingOK, ClaimThing, Thing
<1>5. RoundOK(Waiting) /\ Waiting.id = 0 /\ Waiting.stage = "wait" /\ Waiting.ops = {}
  BY DEF RoundOK, Waiting, RoundFields
<1>6. QED
  BY <1>3, <1>4, <1>5 DEF CtlInv, ActiveInv

\* The steps that leave the routines where they are.
LEMMA OtherSteps ==
    ASSUME CtlInv, [OpsNext]_allVars,
           ~\E r \in Rates : RunControlOps(r) \/ ReceiveValue(r)
    PROVE  UNCHANGED <<round, values, taken>> /\ (Kept \/ \E D : Removed(D))
<1>0. values \in Nat
  BY DEF CtlInv
<1>1. CASE UNCHANGED ctl \/ \E p : Record(p)
  BY <1>0, <1>1 DEF ctl, Record, Kept
<1>2. ASSUME NEW x \in ScalePods, RunScalePod(x)
      PROVE  UNCHANGED <<round, values, taken>> /\ Removed({x})
  BY <1>2 DEF RunScalePod, Removed, Without
<1>3. CASE InformersSync \/ DeleteBenchmark
  BY <1>0, <1>3 DEF InformersSync, DeleteBenchmark, Kept
<1>4. CASE Collect
  <2>1. Removed({x \in DOMAIN things : Owned(x)}) /\ UNCHANGED <<round, values, taken>>
    BY <1>4 DEF Collect, Removed, Without
  <2>2. QED
    BY <2>1
<1>5. QED
  BY <1>1, <1>2, <1>3, <1>4 DEF OpsNext, Routine, Controller, allVars, ctl

LEMMA CtlNext == CtlInv /\ ActiveInv /\ [OpsNext]_allVars => CtlInv' /\ ActiveInv'
<1> SUFFICES ASSUME CtlInv, ActiveInv, [OpsNext]_allVars PROVE CtlInv' /\ ActiveInv'
  OBVIOUS
<1>1. /\ values \in Nat /\ DOMAIN round = Rates
      /\ \A r \in Rates : round[r].ops \subseteq DOMAIN Operations /\ round[r].id \in Nat
  BY DEF CtlInv, RoundOK
<1>2. ASSUME NEW r \in Rates, RunControlOps(r) PROVE CtlInv' /\ ActiveInv'
  <2>1. PICK st, ops, todo, list, id : Moved(r, st, ops, todo, list, id)
    BY <1>2, RoutineMoves
  <2>2. ops \subseteq DOMAIN Operations /\ id \in Nat
    BY <1>1, <2>1 DEF Moved
  <2>3. DOMAIN round' = Rates /\ \A s \in Rates : RoundOK(round'[s])
    BY <2>1, <2>2, RoundsOK DEF Moved
  <2>4. /\ values' \in Nat /\ UNCHANGED values
        /\ \A x \in DOMAIN things' : ThingOK(x, things'[x], values')
    BY <1>2, RoutineThings, ThingsOK
  <2>5. CtlInv'
    BY <2>3, <2>4 DEF CtlInv
  <2>6. id <= values /\ (st # "wait" => id > 0)
    <3>1. id \in {0, round[r].id}
      BY <2>1 DEF Moved
    <3>2. st # "wait" => id = round[r].id /\ round[r].id > 0
      BY <2>1 DEF Moved, ActiveInv
    <3>3. round[r].id <= values
      BY DEF ActiveInv
    <3>4. QED
      BY <1>1, <3>1, <3>2, <3>3
  <2>7. ActiveInv'
    BY <2>1, <2>4, <2>6 DEF ActiveInv, Moved, Turned
  <2>8. QED
    BY <2>5, <2>7
<1>3. ASSUME NEW r \in Rates, ReceiveValue(r) PROVE CtlInv' /\ ActiveInv'
  <2>1. Turned(r, "volumes", OperationsOf(r), {}, {}, values')
    BY <1>3, ReceiveTurns
  <2>2. values' = values + 1 /\ UNCHANGED things
    BY <1>3 DEF ReceiveValue
  <2>3. OperationsOf(r) \subseteq DOMAIN Operations /\ values' \in Nat
    BY <1>1, <2>2 DEF OperationsOf
  <2>4. DOMAIN round' = Rates /\ \A s \in Rates : RoundOK(round'[s])
    BY <2>1, <2>3, RoundsOK
  <2>5. \A x \in DOMAIN things' : ThingOK(x, things'[x], values')
    BY <1>1, <2>2, ThingsOK DEF Kept
  <2>6. CtlInv'
    BY <2>3, <2>4, <2>5 DEF CtlInv
  <2>7. \A s \in Rates : s # r => round'[s] = round[s] /\ round[s].id <= values'
    BY <1>1, <2>1, <2>2 DEF Turned, ActiveInv
  <2>8. round'[r].stage = "volumes" /\ round'[r].id = values' /\ values' > 0 /\ values' <= values'
    BY <1>1, <2>1, <2>2 DEF Turned
  <2>9. ActiveInv'
    BY <2>7, <2>8 DEF ActiveInv
  <2>10. QED
    BY <2>6, <2>9
<1>4. CASE ~\E r \in Rates : RunControlOps(r) \/ ReceiveValue(r)
  <2>1. UNCHANGED <<round, values>> /\ (Kept \/ \E D : Removed(D))
    BY <1>4, OtherSteps
  <2>2. values' \in Nat /\ \A x \in DOMAIN things' : ThingOK(x, things'[x], values')
    BY <2>1, ThingsOK
  <2>3. CtlInv'
    BY <2>1, <2>2 DEF CtlInv
  <2>4. ActiveInv'
    BY <2>1 DEF ActiveInv
  <2>5. QED
    BY <2>3, <2>4
<1>5. QED
  BY <1>2, <1>3, <1>4
-----------------------------------------------------------------------------
(***************************************************************************)
(* Scaling.                                                                *)
(***************************************************************************)
LEMMA SamePods ==
    ASSUME CtlInv,
           \/ UNCHANGED things
           \/ \E z, t : things' = WithThing(z, t) /\ t.kind # "pod"
           \/ \E D : Removed(D) /\ \A x \in D : x[1] # "pod"
    PROVE  ScalePods' = ScalePods /\ \A x \in ScalePods : things'[x] = things[x]
<1>1. \A x \in DOMAIN things : things[x].kind = "pod" => x[1] = "pod"
  BY DEF CtlInv, ThingOK
<1>2. CASE UNCHANGED things
  BY <1>2 DEF ScalePods
<1>3. ASSUME NEW z, NEW t, things' = WithThing(z, t), t.kind # "pod"
      PROVE  ScalePods' = ScalePods /\ \A x \in ScalePods : things'[x] = things[x]
  <2>1. /\ DOMAIN things' = DOMAIN things \cup {z}
        /\ \A x \in DOMAIN things : things'[x] = things[x]
        /\ z \notin DOMAIN things => things'[z] = t
    BY <1>3, WithThingFacts
  <2>2. QED
    BY <1>3, <2>1 DEF ScalePods
<1>4. ASSUME NEW D, Removed(D), \A x \in D : x[1] # "pod"
      PROVE  ScalePods' = ScalePods /\ \A x \in ScalePods : things'[x] = things[x]
  BY <1>1, <1>4 DEF Removed, ScalePods
<1>5. QED
  BY <1>2, <1>3, <1>4

\* What the routines do to the scale pods, but for ScaleObj.
LEMMA OtherThings ==
    ASSUME CtlInv, ScaleInv, NEW r \in Rates, RunControlOps(r), ~ScaleObj(r)
    PROVE  /\ ScalePods' = ScalePods /\ \A x \in ScalePods : things'[x] = things[x]
           /\ UNCHANGED <<replicas, current, gone>>
<1>1. CASE ListFails(r) \/ RunWorkloads(r) \/ WorkloadsDone(r) \/ NextOperation(r)
  <2>1. UNCHANGED <<things, replicas, current, gone>>
    BY <1>1 DEF ListFails, RunWorkloads, WorkloadsDone, NextOperation
  <2>2. QED
    BY <2>1, SamePods
<1>2. CASE CreateVolume(r)
  <2>1. PICK x : UNCHANGED things \/ things' = WithThing(x, ClaimThing(x, values))
    BY <1>2 DEF CreateVolume
  <2>2. ClaimThing(x, values).kind # "pod"
    BY DEF ClaimThing, Thing
  <2>3. UNCHANGED <<replicas, current, gone>>
    BY <1>2 DEF CreateVolume
  <2>4. QED
    BY <2>1, <2>2, <2>3, SamePods
<1>3. ASSUME NEW kind, kind # "pod", NEW label, NEW x, NEW of,
             UNCHANGED things \/ Generate(r, kind, label, x, of)
      PROVE  ScalePods' = ScalePods /\ \A y \in ScalePods : things'[y] = things[y]
  <2> DEFINE z == <<kind, Current(r), round[r].id, x>>
             t == Thing(kind, label, values, of)
  <2>1. t.kind # "pod"
    BY <1>3 DEF Thing
  <2>2. UNCHANGED things \/ things' = WithThing(z, t)
    BY <1>3 DEF Generate
  <2> HIDE DEF z, t
  <2>3. QED
    BY <2>1, <2>2, SamePods
<1>4. CASE Snapshot(r)
  <2>1. PICK x : UNCHANGED things \/ Generate(r, "snapshot", Op(r).name, x, x)
    BY <1>4 DEF Snapshot, TakeSnapshot, SnapshotFails
  <2>2. UNCHANGED <<replicas, current, gone>>
    BY <1>4 DEF Snapshot
  <2>3. QED
    BY <1>3, <2>1, <2>2
<1>5. CASE DeleteObj(r)
  <2>1. /\ UNCHANGED things \/ Removed(round[r].todo)
        /\ \A x \in round[r].todo : x[1] # "pod"
    BY <1>5 DEF DeleteObj, Removed, Without, ScaleInv
  <2>2. UNCHANGED <<replicas, current, gone>>
    BY <1>5 DEF DeleteObj
  <2>3. QED
    BY <2>1, <2>2, SamePods
<1>6. CASE CloneScripts(r)
  <2>1. PICK lb : UNCHANGED things \/ Generate(r, "script", lb, <<>>, <<>>)
    BY <1>6 DEF CloneScripts
  <2>2. UNCHANGED <<replicas, current, gone>>
    BY <1>6 DEF CloneScripts
  <2>3. QED
    BY <1>3, <2>1, <2>2
<1>7. QED
  BY <1>1, <1>2, <1>4, <1>5, <1>6 DEF RunControlOps

\* The new pod has the value of its routine, the others were there before.
LEMMA ScaleObjAdds ==
    ASSUME CtlInv, NEW r \in Rates, ScaleObj(r)
    PROVE  /\ UNCHANGED <<replicas, gone>>
           /\ \/ UNCHANGED <<things, current>>
              \/ ScalePods' # {} /\ \A x \in ScalePods' : things'[x].of[1] \in current'
<1> DEFINE z == <<"pod", Current(r), round[r].id, <<>>>>
           t == Thing("pod", "scale-pod", values, <<round[r].n, round[r].todo>>)
<1>1. UNCHANGED <<replicas, gone>>
  BY DEF ScaleObj
<1>2. \/ UNCHANGED <<things, current>>
      \/ things' = WithThing(z, t) /\ current' = {round[r].n} \cup PodValues
  BY DEF ScaleObj, Generate
<1>3. z[1] = "pod" /\ t.kind = "pod" /\ t.of[1] = round[r].n
  BY DEF Thing
<1> HIDE DEF z, t
<1>4. CASE things' = WithThing(z, t) /\ current' = {round[r].n} \cup PodValues
  <2>1. /\ DOMAIN things' = DOMAIN things \cup {z}
        /\ \A x \in DOMAIN things : things'[x] = things[x]
        /\ z \notin DOMAIN things => things'[z] = t
    BY <1>4, WithThingFacts
  <2>2. z \in DOMAIN things => things[z].kind = "pod"
    BY <1>3 DEF CtlInv, ThingOK
  <2>3. z \in ScalePods'
    BY <1>3, <2>1, <2>2 DEF ScalePods
  <2>4. ASSUME NEW x \in ScalePods' PROVE things'[x].of[1] \in current'
    <3>1. CASE x \in DOMAIN things
      <4>1. things'[x] = things[x] /\ x \in ScalePods
        BY <2>1, <3>1 DEF ScalePods
      <4>2. things[x].of[1] \in PodValues
        BY <4>1 DEF PodValues
      <4>3. QED
        BY <1>4, <4>1, <4>2
    <3>2. CASE x \notin DOMAIN things
      BY <1>3, <1>4, <2>1, <3>2 DEF ScalePods
    <3>3. QED
      BY <3>1, <3>2
  <2>5. QED
    BY <1>1, <2>3, <2>4
<1>5. QED
  BY <1>1, <1>2, <1>4

LEMMA DoomedStep ==
    ASSUME CtlInv, ActiveInv, ScaleInv, NoPodDeletes, NEW r \in Rates,
           RunControlOps(r) \/ ReceiveValue(r)
    PROVE  \A s \in Rates : round'[s].stage = "delete" => \A x \in round'[s].todo : x[1] # "pod"
<1>0. \A s \in Rates : round[s].stage = "delete" => \A x \in round[s].todo : x[1] # "pod"
  BY DEF ScaleInv
<1>1. CASE ReceiveValue(r)
  BY <1>0, <1>1, ReceiveTurns DEF Turned
<1>2. ASSUME NEW st, NEW ops, NEW todo, NEW list, NEW id, Turned(r, st, ops, todo, list, id),
             st # "delete"
      PROVE  \A s \in Rates : round'[s].stage = "delete" => \A x \in round'[s].todo : x[1] # "pod"
  BY <1>0, <1>2 DEF Turned
<1>3. CASE RunWorkloads(r) \/ WorkloadsDone(r)
  <2>1. PICK st \in {"workloads", "next"} : round' = [round EXCEPT ![r].stage = st]
    BY <1>3 DEF RunWorkloads, WorkloadsDone
  <2>2. QED
    BY <1>2, <2>1, StageTurns
<1>4. CASE CreateVolume(r)
  BY <1>2, <1>4, VolumeTurns
<1>5. CASE NextOperation(r)
  <2>1. ASSUME round[r].ops # {}, NEW x \in Oldest(Matching(Op(r))),
               Turned(r, "delete", round[r].ops, {x}, round[r].list, round[r].id)
        PROVE  \A s \in Rates : round'[s].stage = "delete" => \A y \in round'[s].todo : y[1] # "pod"
    <3>1. x \in DOMAIN things /\ things[x].kind = Op(r).kind /\ things[x].label = Op(r).selector
      BY DEF Oldest, Matching
    <3>2. Current(r) \in DOMAIN Operations
      BY <2>1, FirstFacts DEF Current, CtlInv, RoundOK
    <3>3. x[1] # "pod"
      BY <3>1, <3>2 DEF CtlInv, ThingOK, NoPodDeletes, Op
    <3>4. QED
      BY <1>0, <2>1, <3>3 DEF Turned
  <2>2. QED
    BY <1>2, <1>5, <2>1, NextTurns
<1>6. CASE Snapshot(r)
  <2>1. PICK x \in round[r].todo : round[r].stage = "snapshot" /\ round' = NextClaim(r, x)
    BY <1>6 DEF Snapshot
  <2>2. QED
    BY <1>2, <2>1, SnapshotTurns
<1>7. CASE DeleteObj(r) \/ ScaleObj(r) \/ ListFails(r)
  <2>1. round' = OpReturns(r)
    BY <1>7 DEF DeleteObj, ScaleObj, ListFails
  <2>2. QED
    BY <1>2, <2>1, ReturnsTurn
<1>8. CASE CloneScripts(r)
  BY <1>2, <1>8, CloneTurns
<1>9. QED
  BY <1>1, <1>3, <1>4, <1>5, <1>6, <1>7, <1>8 DEF RunControlOps

LEMMA ScaleNext ==
    ASSUME CtlInv, ActiveInv, ScaleInv, NoPodDeletes, [OpsNext]_allVars
    PROVE  ScaleInv'
<1> DEFINE Last1 == ~gone => /\ \A x \in ScalePods : things[x].of[1] \in current
                             /\ ScalePods = {} => replicas \in current
<1>0. Last1
  BY DEF ScaleInv
<1>1. ASSUME ScalePods' = ScalePods, \A x \in ScalePods : things'[x] = things[x],
             UNCHANGED <<replicas, current>>, gone' = gone \/ gone'
      PROVE  Last1'
  BY <1>0, <1>1
<1>2. ASSUME NEW r \in Rates, RunControlOps(r) \/ ReceiveValue(r) PROVE Last1'
  <2>1. CASE ReceiveValue(r)
    <3>1. UNCHANGED <<things, replicas, current, gone>>
      BY <2>1 DEF ReceiveValue
    <3>2. QED
      BY <1>1, <3>1, SamePods
  <2>2. CASE RunControlOps(r) /\ ~ScaleObj(r)
    BY <1>1, <2>2, OtherThings
  <2>3. CASE ScaleObj(r)
    <3>1. CASE UNCHANGED <<things, current>>
      BY <1>1, <2>3, <3>1, SamePods, ScaleObjAdds
    <3>2. CASE ~UNCHANGED <<things, current>>
      BY <2>3, <3>2, ScaleObjAdds
    <3>3. QED
      BY <3>1, <3>2
  <2>4. QED
    BY <1>2, <2>1, <2>2, <2>3
<1>3. ASSUME ~\E r \in Rates : RunControlOps(r) \/ ReceiveValue(r) PROVE Last1'
  <2>1. CASE UNCHANGED ctl \/ \E p : Record(p)
    <3>1. UNCHANGED <<things, replicas, current, gone>>
      BY <2>1 DEF ctl, Record
    <3>2. QED
      BY <1>1, <3>1, SamePods
  <2>2. ASSUME NEW x \in ScalePods, RunScalePod(x) PROVE Last1'
    <3>1. /\ things' = [y \in DOMAIN things \ {x} |-> things[y]]
          /\ replicas' = things[x].of[1] /\ UNCHANGED <<current, gone>>
      BY <2>2 DEF RunScalePod, Without
    <3>2. ~gone => replicas' \in current
      BY <1>0, <3>1
    <3>3. ScalePods' \subseteq ScalePods /\ \A y \in ScalePods' : things'[y] = things[y]
      BY <3>1 DEF ScalePods
    <3>4. QED
      BY <1>0, <3>1, <3>2, <3>3
  <2>3. CASE InformersSync \/ DeleteBenchmark
    <3>1. UNCHANGED <<things, replicas, current>> /\ (gone' = gone \/ gone')
      BY <2>3 DEF InformersSync, DeleteBenchmark
    <3>2. QED
      BY <1>1, <3>1, SamePods
  <2>4. CASE Collect
    BY <2>4 DEF Collect
  <2>5. QED
    BY <1>3, <2>1, <2>2, <2>3, <2>4 DEF OpsNext, Routine, Controller, allVars, ctl
<1>4. Last1'
  BY <1>2, <1>3
<1>5. \A s \in Rates : round'[s].stage = "delete" => \A x \in round'[s].todo : x[1] # "pod"
  <2>1. CASE \E r \in Rates : RunControlOps(r) \/ ReceiveValue(r)
    BY <2>1, DoomedStep
  <2>2. CASE ~\E r \in Rates : RunControlOps(r) \/ ReceiveValue(r)
    BY <2>2, OtherSteps DEF ScaleInv
  <2>3. QED
    BY <2>1, <2>2
<1> HIDE DEF Last1
<1>6. QED
  BY <1>4, <1>5 DEF ScaleInv, Last1

LEMMA OpsSafety == OpsSpec => Init /\ CtlInit /\ [][OpsNext]_allVars
BY PTL DEF OpsSpec

(***************************************************************************)
(* For any rates, values, operations and failures, and any number of scale *)
(* pods at once: when they have all run, the scaled object has the number  *)
(* of the last pod that was created or of one that was still there then    *)
(* (ScaleObj), if no operation deletes the scale pods.                     *)
(***************************************************************************)
THEOREM ScaleFollowsLastValue ==
    ASSUME NoPodDeletes
    PROVE  OpsSpec => []ScaleFollowsRate
<1> DEFINE I == CtlInv /\ ActiveInv /\ ScaleInv
<1>1. CtlInit => I
  <2>1. CtlInit => ScaleInv
    <3> SUFFICES ASSUME CtlInit PROVE ScaleInv
      OBVIOUS
    <3>1. \A x \in DOMAIN things : things[x].kind = "claim"
      BY DEF CtlInit, ClaimThing, Thing
    <3>2. replicas = 0 /\ current = {0} /\ \A r \in Rates : round[r].stage = "wait"
      BY DEF CtlInit, Waiting
    <3>3. QED
      BY <3>1, <3>2 DEF ScaleInv, ScalePods
  <2>2. QED
    BY <2>1, CtlInit1
<1>2. I /\ [OpsNext]_allVars => I'
  BY CtlNext, ScaleNext
<1>3. I => ScaleFollowsRate
  BY DEF ScaleInv, ScaleFollowsRate
<1>4. QED
  BY <1>1, <1>2, <1>3, OpsSafety, PTL
-----------------------------------------------------------------------------
(***************************************************************************)
(* Snapshots.                                                              *)
(***************************************************************************)
SpentOK == spent \in [moves : Nat, faults : Nat, setbacks : Nat]

LEMMA SpentGrows ==
    ASSUME SpentOK, [OpsNext]_allVars
    PROVE  SpentOK' /\ spent.faults \in Nat /\ spent'.faults \in Nat /\ spent.faults <= spent'.faults
<1>1. \/ UNCHANGED spent
      \/ spent' = [spent EXCEPT !.moves = @ + 1]
      \/ spent' = [spent EXCEPT !.faults = @ + 1]
      \/ spent' = [spent EXCEPT !.setbacks = @ + 1]
  <2>1. ASSUME NEW p, RunWorkload(p)
        PROVE  UNCHANGED spent \/ spent' = [spent EXCEPT !.faults = @ + 1]
    BY <2>1 DEF RunWorkload, CreateNext, CreateObj, PickFile, Load, Store, PrepareAndRun,
                NextWorkload, RunFails
  <2>2. CASE Controller
    <3>1. CASE StartRates \/ Reconcile \/ CheckCompletions \/ CountInstances \/ TopUpDone
      BY <3>1 DEF StartRates, Reconcile, CheckCompletions, CountInstances, TopUpDone
    <3>2. CASE TopUpFails
      BY <3>2 DEF TopUpFails
    <3>3. QED
      BY <2>1, <2>2, <3>1, <3>2 DEF Controller, Main
  <2>3. ASSUME NEW r \in Rates, Routine(r) \/ ReceiveValue(r)
        PROVE  UNCHANGED spent \/ spent' = [spent EXCEPT !.faults = @ + 1]
    <3>1. CASE RunWorkloads(r) \/ WorkloadsDone(r) \/ NextOperation(r) \/ ReceiveValue(r)
      BY <3>1 DEF RunWorkloads, WorkloadsDone, NextOperation, ReceiveValue, vars
    <3>2. CASE CreateVolume(r) \/ Snapshot(r)
      BY <3>2 DEF CreateVolume, Snapshot, TakeSnapshot, SnapshotFails, Fault, NoFault
    <3>3. CASE CloneScripts(r) \/ ScaleObj(r)
      BY <3>3 DEF CloneScripts, ScaleObj, Fault, NoFault
    <3>4. CASE DeleteObj(r) \/ ListFails(r)
      BY <3>4 DEF DeleteObj, ListFails, Fault, NoFault
    <3>5. QED
      BY <2>1, <2>3, <3>1, <3>2, <3>3, <3>4 DEF Routine, RunControlOps
  <2>4. CASE (\E x \in ScalePods : RunScalePod(x)) \/ InformersSync \/ DeleteBenchmark \/ Collect
    BY <2>4 DEF RunScalePod, InformersSync, DeleteBenchmark, Collect, vars
  <2>5. CASE RuntimeOver \/ UNCHANGED allVars
    BY <2>5 DEF RuntimeOver, allVars, vars
  <2>6. CASE \E x \in DOMAIN objs : Move(x)
    BY <2>6 DEF Move
  <2>7. QED
    BY <2>2, <2>3, <2>4, <2>5, <2>6 DEF OpsNext
<1>2. QED
  BY <1>1 DEF SpentOK

LEMMA SnapMono ==
    ASSUME NEW f, NEW tk, NEW tk2, NEW n \in Nat, NEW n2 \in Nat,
           SnapAt(f, tk, n), tk \subseteq tk2, n <= n2
    PROVE  SnapAt(f, tk2, n2)
<1> SUFFICES ASSUME f.stage = "snapshot"
             PROVE  /\ f.todo \subseteq f.list
                    /\ IsFiniteSet(MissedSoFar(f, tk2))
                    /\ Cardinality(MissedSoFar(f, tk2)) <= n2
  BY DEF SnapAt
<1> DEFINE A == MissedSoFar(f, tk)
           B == MissedSoFar(f, tk2)
<1>1. f.todo \subseteq f.list /\ IsFiniteSet(A) /\ Cardinality(A) <= n
  BY DEF SnapAt
<1>2. B \subseteq A
  BY DEF MissedSoFar
<1> HIDE DEF A, B
<1>3. IsFiniteSet(B) /\ Cardinality(B) <= Cardinality(A)
  BY <1>1, <1>2, FS_Subset
<1>4. Cardinality(A) \in Nat /\ Cardinality(B) \in Nat
  BY <1>1, <1>3, FS_CardinalityType
<1>5. Cardinality(B) <= n2
  BY <1>1, <1>3, <1>4
<1>6. QED
  BY <1>1, <1>3, <1>5 DEF B

\* One snapshot is made, or one more claim is missed and one more call has failed.
LEMMA SnapshotStep ==
    ASSUME CtlInv, SnapInv, NEW r \in Rates, Snapshot(r)
    PROVE  \E x \in round[r].todo :
              LET D == {y \in round[r].list \ (round[r].todo \ {x}) :
                           <<Current(r), round[r].id, y>> \notin taken'}
              IN  /\ round' = NextClaim(r, x)
                  /\ round[r].stage = "snapshot" /\ taken \subseteq taken'
                  /\ round[r].todo \subseteq round[r].list
                  /\ IsFiniteSet(D) /\ Cardinality(D) <= spent'.faults
<1> DEFINE f == round[r]
           A == MissedSoFar(f, taken)
           D(x) == {y \in f.list \ (f.todo \ {x}) : <<Current(r), f.id, y>> \notin taken'}
<1>1. PICK x \in f.todo :
         /\ f.stage = "snapshot" /\ round' = NextClaim(r, x)
         /\ \/ taken' = taken \cup {<<Current(r), f.id, x>>} /\ UNCHANGED spent
            \/ UNCHANGED taken /\ spent' = [spent EXCEPT !.faults = @ + 1]
  BY DEF Snapshot, TakeSnapshot, SnapshotFails, Fault, NoFault
<1>2. /\ IsFiniteSet(A) /\ Cardinality(A) <= spent.faults /\ f.todo \subseteq f.list
      /\ spent \in [moves : Nat, faults : Nat, setbacks : Nat]
  BY <1>1 DEF SnapInv, SnapAt
<1>3. Cardinality(A) \in Nat
  BY <1>2, FS_CardinalityType
<1>4. IsFiniteSet(D(x)) /\ Cardinality(D(x)) <= spent'.faults
  <2>1. CASE taken' = taken \cup {<<Current(r), f.id, x>>} /\ UNCHANGED spent
    <3>1. D(x) \subseteq A
      BY <1>1, <1>2, <2>1 DEF MissedSoFar, Current
    <3> HIDE DEF A, D
    <3>2. IsFiniteSet(D(x)) /\ Cardinality(D(x)) <= Cardinality(A) /\ Cardinality(D(x)) \in Nat
      BY <1>2, <3>1, FS_Subset, FS_CardinalityType
    <3>3. QED
      BY <1>2, <1>3, <2>1, <3>2
  <2>2. CASE UNCHANGED taken /\ spent' = [spent EXCEPT !.faults = @ + 1]
    <3> DEFINE B == A \cup {x}
    <3>1. D(x) \subseteq B
      BY <1>1, <1>2, <2>2 DEF MissedSoFar, Current
    <3>2. IsFiniteSet(B) /\ Cardinality(B) <= Cardinality(A) + 1
      <4> HIDE DEF A
      <4>1. IsFiniteSet(B) /\ Cardinality(B) = IF x \in A THEN Cardinality(A) ELSE Cardinality(A) + 1
        BY <1>2, FS_AddElement
      <4> HIDE DEF B
      <4>2. QED
        BY <1>3, <4>1
    <3> HIDE DEF A, B, D
    <3>3. IsFiniteSet(D(x)) /\ Cardinality(D(x)) <= Cardinality(B)
      BY <3>1, <3>2, FS_Subset
    <3>4. Cardinality(D(x)) \in Nat /\ Cardinality(B) \in Nat
      BY <3>2, <3>3, FS_CardinalityType
    <3>5. spent'.faults = spent.faults + 1 /\ spent.faults \in Nat
      BY <1>2, <2>2
    <3>6. QED
      BY <1>2, <1>3, <3>2, <3>3, <3>4, <3>5
  <2>3. QED
    BY <1>1, <2>1, <2>2
<1>5. taken \subseteq taken'
  BY <1>1
<1>6. QED
  BY <1>1, <1>2, <1>4, <1>5

\* A step that leaves taken alone keeps SnapInv unless it begins a list, and
\* does not end one.
LEMMA SnapTurn ==
    ASSUME CtlInv, SnapInv, [OpsNext]_allVars, UNCHANGED taken,
           NEW r \in Rates, NEW st, NEW ops, NEW todo, NEW list, NEW id,
           Turned(r, st, ops, todo, list, id), round[r].stage # "snapshot",
           st = "snapshot" => todo = list
    PROVE  /\ SnapInv'
           /\ \A s \in Rates : round[s].stage = "snapshot" => round'[s].stage = "snapshot"
<1>1. SpentOK' /\ spent.faults \in Nat /\ spent'.faults \in Nat /\ spent.faults <= spent'.faults
  BY SpentGrows DEF SnapInv, SpentOK
<1>2. ASSUME NEW s \in Rates, s # r
      PROVE  SnapAt(round'[s], taken', spent'.faults) /\ round'[s] = round[s]
  <2>1. round'[s] = round[s]
    BY <1>2 DEF Turned
  <2>2. SnapAt(round[s], taken, spent.faults)
    BY DEF SnapInv
  <2>3. SnapAt(round[s], taken, spent'.faults)
    BY <1>1, <2>2, SnapMono
  <2>4. QED
    BY <2>1, <2>3
<1>3. SnapAt(round'[r], taken', spent'.faults)
  <2> SUFFICES ASSUME st = "snapshot"
               PROVE  SnapAt(round'[r], taken', spent'.faults)
    BY DEF SnapAt, Turned
  <2>1. round'[r].todo = round'[r].list
    BY DEF Turned
  <2>2. MissedSoFar(round'[r], taken') = {}
    BY <2>1 DEF MissedSoFar
  <2>3. 0 <= spent'.faults
    BY <1>1
  <2>4. QED
    BY <2>1, <2>2, <2>3, FS_EmptySet DEF SnapAt
<1>4. \A s \in Rates : SnapAt(round'[s], taken', spent'.faults)
  BY <1>2, <1>3
<1>5. SnapInv'
  BY <1>1, <1>4 DEF SnapInv, SpentOK
<1>6. QED
  BY <1>2, <1>5

LEMMA SnapRoutine ==
    ASSUME CtlInv, SnapInv, [OpsNext]_allVars, NEW r \in Rates,
           RunControlOps(r) \/ ReceiveValue(r), ~Snapshot(r)
    PROVE  /\ SnapInv'
           /\ \A s \in Rates : round[s].stage = "snapshot" => round'[s].stage = "snapshot"
<1> DEFINE f == round[r]
           next == f.ops \ {Current(r)}
<1>1. UNCHANGED taken /\ f.stage # "snapshot"
  <2>1. CASE ListFails(r) \/ CreateVolume(r) \/ RunWorkloads(r) \/ WorkloadsDone(r)
             \/ NextOperation(r) \/ ReceiveValue(r)
    BY <2>1 DEF ListFails, CreateVolume, RunWorkloads, WorkloadsDone, NextOperation, ReceiveValue
  <2>2. CASE DeleteObj(r) \/ CloneScripts(r) \/ ScaleObj(r)
    BY <2>2 DEF DeleteObj, CloneScripts, ScaleObj
  <2>3. QED
    BY <2>1, <2>2 DEF RunControlOps
<1>2. CASE ReceiveValue(r)
  BY <1>1, <1>2, ReceiveTurns, SnapTurn
<1>3. CASE RunWorkloads(r) \/ WorkloadsDone(r)
  <2>1. PICK st \in {"workloads", "next"} : round' = [round EXCEPT ![r].stage = st]
    BY <1>3 DEF RunWorkloads, WorkloadsDone
  <2>2. Turned(r, st, f.ops, f.todo, f.list, f.id) /\ st # "snapshot"
    BY <2>1, StageTurns
  <2>3. QED
    BY <1>1, <2>2, SnapTurn
<1>4. CASE CreateVolume(r)
  BY <1>1, <1>4, VolumeTurns, SnapTurn
<1>5. ASSUME Turned(r, "next", next, {}, {}, f.id)
      PROVE  /\ SnapInv'
             /\ \A s \in Rates : round[s].stage = "snapshot" => round'[s].stage = "snapshot"
  BY <1>1, <1>5, SnapTurn
<1>6. CASE NextOperation(r)
  <2>1. CASE Turned(r, "wait", {}, {}, {}, 0)
    BY <1>1, <2>1, SnapTurn
  <2>2. ASSUME NEW L, Turned(r, "snapshot", f.ops, L, L, f.id)
        PROVE  /\ SnapInv'
               /\ \A s \in Rates : round[s].stage = "snapshot" => round'[s].stage = "snapshot"
    BY <1>1, <2>2, SnapTurn
  <2>3. ASSUME NEW x, Turned(r, "delete", f.ops, {x}, f.list, f.id)
        PROVE  /\ SnapInv'
               /\ \A s \in Rates : round[s].stage = "snapshot" => round'[s].stage = "snapshot"
    BY <1>1, <2>3, SnapTurn
  <2>4. CASE Turned(r, "clone", f.ops, f.todo, f.list, f.id)
    BY <1>1, <2>4, SnapTurn
  <2>5. QED
    BY <1>5, <1>6, <2>1, <2>2, <2>3, <2>4, NextTurns
<1>7. CASE DeleteObj(r) \/ ScaleObj(r) \/ ListFails(r)
  <2>1. round' = OpReturns(r)
    BY <1>7 DEF DeleteObj, ScaleObj, ListFails
  <2>2. QED
    BY <1>5, <2>1, ReturnsTurn
<1>8. CASE CloneScripts(r)
  <2>1. ASSUME NEW T, Turned(r, "pod", f.ops, T, f.list, f.id)
        PROVE  /\ SnapInv'
               /\ \A s \in Rates : round[s].stage = "snapshot" => round'[s].stage = "snapshot"
    BY <1>1, <2>1, SnapTurn
  <2>2. QED
    BY <1>5, <1>8, <2>1, CloneTurns
<1>9. QED
  BY <1>2, <1>3, <1>4, <1>6, <1>7, <1>8 DEF RunControlOps

LEMMA SnapNext ==
    ASSUME CtlInv, SnapInv, [OpsNext]_allVars
    PROVE  /\ SnapInv'
           /\ \A r \in Rates :
                 round[r].stage = "snapshot" /\ round'[r].stage # "snapshot"
                    => Cardinality(Missed(r)) <= spent'.faults
<1>1. SpentOK' /\ spent.faults \in Nat /\ spent'.faults \in Nat /\ spent.faults <= spent'.faults
  BY SpentGrows DEF SnapInv, SpentOK
<1>2. ASSUME NEW r \in Rates, Snapshot(r)
      PROVE  /\ SnapInv'
             /\ \A s \in Rates :
                   round[s].stage = "snapshot" /\ round'[s].stage # "snapshot"
                      => Cardinality(Missed(s)) <= spent'.faults
  <2> DEFINE f == round[r]
             D(x) == {y \in f.list \ (f.todo \ {x}) : <<Current(r), f.id, y>> \notin taken'}
  <2>1. PICK x \in f.todo :
           /\ round' = NextClaim(r, x) /\ f.stage = "snapshot" /\ taken \subseteq taken'
           /\ f.todo \subseteq f.list
           /\ IsFiniteSet(D(x)) /\ Cardinality(D(x)) <= spent'.faults
    BY <1>2, SnapshotStep
  <2>2. ASSUME NEW s \in Rates, s # r, round'[s] = round[s]
        PROVE  SnapAt(round'[s], taken', spent'.faults)
    <3>1. SnapAt(round[s], taken, spent.faults)
      BY DEF SnapInv
    <3>2. SnapAt(round[s], taken', spent'.faults)
      BY <1>1, <2>1, <3>1, SnapMono
    <3>3. QED
      BY <2>2, <3>2
  <2>3. CASE f.todo = {x} /\ Turned(r, "next", f.ops \ {Current(r)}, {}, {}, f.id)
    <3>1. \A s \in Rates : s # r => round'[s] = round[s]
      BY <2>3 DEF Turned
    <3>2. Missed(r) = D(x)
      BY <2>3 DEF Missed
    <3>3. SnapAt(round'[r], taken', spent'.faults)
      BY <2>3 DEF Turned, SnapAt
    <3>4. SnapInv'
      BY <1>1, <2>2, <3>1, <3>3 DEF SnapInv, SpentOK
    <3>5. QED
      BY <2>1, <3>1, <3>2, <3>4
  <2>4. CASE Turned(r, "snapshot", f.ops, f.todo \ {x}, f.list, f.id)
    <3>1. \A s \in Rates : s # r => round'[s] = round[s]
      BY <2>4 DEF Turned
    <3>2. MissedSoFar(round'[r], taken') = D(x)
      BY <2>4 DEF Turned, MissedSoFar, Current
    <3>3. round'[r].todo \subseteq round'[r].list
      BY <2>1, <2>4 DEF Turned
    <3>4. SnapAt(round'[r], taken', spent'.faults)
      BY <2>1, <3>2, <3>3 DEF SnapAt
    <3>5. SnapInv'
      BY <1>1, <2>2, <3>1, <3>4 DEF SnapInv, SpentOK
    <3>6. round'[r].stage = "snapshot"
      BY <2>4 DEF Turned
    <3>7. QED
      BY <3>1, <3>5, <3>6
  <2>5. QED
    BY <2>1, <2>3, <2>4, SnapshotTurns
<1>3. ASSUME NEW r \in Rates, RunControlOps(r) \/ ReceiveValue(r), ~Snapshot(r)
      PROVE  /\ SnapInv'
             /\ \A s \in Rates :
                   round[s].stage = "snapshot" /\ round'[s].stage # "snapshot"
                      => Cardinality(Missed(s)) <= spent'.faults
  BY <1>3, SnapRoutine
<1>4. CASE ~\E r \in Rates : RunControlOps(r) \/ ReceiveValue(r)
  <2>1. UNCHANGED <<round, taken>>
    BY <1>4, OtherSteps
  <2>2. ASSUME NEW s \in Rates PROVE SnapAt(round'[s], taken', spent'.faults)
    <3>1. SnapAt(round[s], taken, spent.faults)
      BY DEF SnapInv
    <3>2. SnapAt(round[s], taken, spent'.faults)
      BY <1>1, <3>1, SnapMono
    <3>3. QED
      BY <2>1, <3>2
  <2>3. SnapInv'
    BY <1>1, <2>2 DEF SnapInv, SpentOK
  <2>4. QED
    BY <2>1, <2>3
<1>5. QED
  BY <1>2, <1>3, <1>4

(***************************************************************************)
(* For any rates, operations, lists of claims and failures: when a         *)
(* snapshot operation returns (CreateSnapshot), the claims of its list     *)
(* that have no snapshot are not more than the calls that have failed.     *)
(***************************************************************************)
THEOREM OneFailureStopsNoOther == OpsSpec => SnapshotsAll
<1> DEFINE I == CtlInv /\ ActiveInv /\ SnapInv
<1>1. Init /\ CtlInit => I
  <2>1. Init /\ CtlInit => SnapInv
    <3> SUFFICES ASSUME Init, CtlInit PROVE SnapInv
      OBVIOUS
    <3>1. spent = [moves |-> 0, faults |-> 0, setbacks |-> 0]
      BY DEF Init
    <3>2. \A r \in Rates : round[r].stage = "wait"
      BY DEF CtlInit, Waiting
    <3>3. QED
      BY <3>1, <3>2 DEF SnapInv, SnapAt
  <2>2. QED
    BY <2>1, CtlInit1
<1>2. I /\ [OpsNext]_allVars => I'
  BY CtlNext, SnapNext
<1>3. I /\ [OpsNext]_allVars =>
         \A r \in Rates :
            round[r].stage = "snapshot" /\ round'[r].stage # "snapshot"
               => Cardinality(Missed(r)) <= spent'.faults
  BY SnapNext
<1>4. QED
  BY <1>1, <1>2, <1>3, OpsSafety, PTL DEF SnapshotsAll
-----------------------------------------------------------------------------
(***************************************************************************)
(* Deletion: a name is given to one object only.                           *)
(***************************************************************************)
LEMMA PendingReturns ==
    ASSUME NEW r \in Rates, NEW z,
           Turned(r, "next", round[r].ops \ {Current(r)}, {}, {}, round[r].id),
           Pending(round'[r], z)
    PROVE  Pending(round[r], z) /\ z[2] # Current(r)
BY DEF Turned, Pending, Current

LEMMA PendingShrinks ==
    ASSUME CtlInv, ActiveInv, NEW r \in Rates, RunControlOps(r), NEW z, Pending(round'[r], z)
    PROVE  Pending(round[r], z)
<1> DEFINE f == round[r]
<1>1. ASSUME NEW st \in {"workloads", "next", "volumes", "clone"},
             Turned(r, st, f.ops, f.todo, f.list, f.id),
             f.stage \in {"volumes", "workloads", "next", "clone"}
      PROVE  Pending(f, z)
  BY <1>1 DEF Turned, Pending
<1>3. CASE CreateVolume(r)
  BY <1>1, <1>3, VolumeTurns DEF CreateVolume
<1>4. CASE RunWorkloads(r) \/ WorkloadsDone(r)
  <2>1. PICK st \in {"workloads", "next"} : round' = [round EXCEPT ![r].stage = st]
    BY <1>4 DEF RunWorkloads, WorkloadsDone
  <2>2. Turned(r, st, f.ops, f.todo, f.list, f.id)
    BY <2>1, StageTurns
  <2>3. f.stage \in {"volumes", "workloads"}
    BY <1>4 DEF RunWorkloads, WorkloadsDone
  <2>4. QED
    BY <1>1, <2>2, <2>3
<1>5. CASE NextOperation(r)
  <2>1. f.stage = "next"
    BY <1>5 DEF NextOperation
  <2>2. CASE Turned(r, "wait", {}, {}, {}, 0)
    BY <2>2 DEF Turned, Pending
  <2>3. ASSUME NEW st, NEW L, NEW M, Turned(r, st, f.ops, L, M, f.id)
        PROVE  Pending(f, z)
    BY <2>1, <2>3 DEF Turned, Pending
  <2>4. QED
    BY <1>5, <2>2, <2>3, NextTurns, PendingReturns
<1>6. CASE Snapshot(r)
  <2>1. PICK x \in f.todo : f.stage = "snapshot" /\ round' = NextClaim(r, x)
    BY <1>6 DEF Snapshot
  <2>2. CASE Turned(r, "snapshot", f.ops, f.todo \ {x}, f.list, f.id)
    BY <2>1, <2>2 DEF Turned, Pending
  <2>3. QED
    BY <2>1, <2>2, SnapshotTurns, PendingReturns
<1>7. CASE DeleteObj(r) \/ ScaleObj(r) \/ ListFails(r)
  <2>1. round' = OpReturns(r)
    BY <1>7 DEF DeleteObj, ScaleObj, ListFails
  <2>2. QED
    BY <2>1, ReturnsTurn, PendingReturns
<1>8. CASE CloneScripts(r)
  <2>1. f.stage = "clone"
    BY <1>8 DEF CloneScripts
  <2>2. ASSUME NEW T, Turned(r, "pod", f.ops, T, f.list, f.id)
        PROVE  Pending(f, z)
    BY <2>1, <2>2 DEF Turned, Pending
  <2>3. QED
    BY <1>8, <2>2, CloneTurns, PendingReturns
<1>9. QED
  BY <1>3, <1>4, <1>5, <1>6, <1>7, <1>8 DEF RunControlOps

\* What a routine creates was pending, and is not any more.
Creates(r, z, t) ==
    /\ things' = WithThing(z, t) /\ t.born = values
    /\ z[1] # "volume" => /\ Pending(round[r], z) /\ ~Pending(round'[r], z)
                          /\ z[3] = round[r].id /\ round[r].id > 0

LEMMA RoutineCreates ==
    ASSUME CtlInv, ActiveInv, NEW r \in Rates, RunControlOps(r)
    PROVE  \/ UNCHANGED things
           \/ \E z, t : Creates(r, z, t)
           \/ DeleteObj(r)
<1> DEFINE f == round[r]
           key(kind, x) == <<kind, Current(r), f.id, x>>
           next == f.ops \ {Current(r)}
<1>0. /\ \A x \in f.claims : x[1] = "volume"
      /\ f.stage # "wait" => f.id > 0
  BY DEF CtlInv, RoundOK, ActiveInv
<1>1. CASE ListFails(r) \/ RunWorkloads(r) \/ WorkloadsDone(r) \/ NextOperation(r)
  BY <1>1 DEF ListFails, RunWorkloads, WorkloadsDone, NextOperation
<1>2. CASE CreateVolume(r)
  <2>1. PICK x \in f.claims : UNCHANGED things \/ things' = WithThing(x, ClaimThing(x, values))
    BY <1>2 DEF CreateVolume
  <2>2. ClaimThing(x, values).born = values
    BY DEF ClaimThing, Thing
  <2>3. QED
    BY <1>0, <2>1, <2>2 DEF Creates
<1>3. ASSUME NEW kind, kind # "volume", NEW label, NEW x, NEW of,
             Generate(r, kind, label, x, of), f.id > 0,
             Pending(f, key(kind, x)), ~Pending(round'[r], key(kind, x))
      PROVE  \E z, t : Creates(r, z, t)
  <2> DEFINE z == key(kind, x)
             t == Thing(kind, label, values, of)
  <2>1. things' = WithThing(z, t) /\ t.born = values /\ z[3] = f.id
    BY <1>3 DEF Generate, Thing
  <2>2. Creates(r, z, t)
    <3> HIDE DEF z, t
    <3>1. QED
      BY <1>3, <2>1 DEF Creates, z
  <2>3. QED
    BY <2>2
<1>4. ASSUME Current(r) \in f.ops, NEW kind, NEW x,
             \/ f.stage = "clone"
             \/ f.stage = "snapshot" /\ kind = "snapshot" /\ x \in f.todo
             \/ f.stage = "pod" /\ kind = "pod"
      PROVE  Pending(f, key(kind, x))
  BY <1>4 DEF Pending
<1>5. ASSUME Turned(r, "next", next, {}, {}, f.id), NEW kind, NEW x
      PROVE  ~Pending(round'[r], key(kind, x))
  <2> DEFINE z == key(kind, x)
  <2>1. z[2] = Current(r)
    OBVIOUS
  <2> HIDE DEF z
  <2>2. ~Pending(round'[r], z)
    BY <1>5, <2>1, PendingReturns
  <2>3. QED
    BY <2>2 DEF z
<1>6. f.stage \in {"snapshot", "clone", "pod"} => Current(r) \in f.ops
  BY FirstFacts DEF Current, CtlInv, RoundOK, ActiveInv
<1>7. CASE Snapshot(r)
  <2>1. PICK x \in f.todo :
           /\ f.stage = "snapshot" /\ round' = NextClaim(r, x)
           /\ UNCHANGED things \/ Generate(r, "snapshot", Op(r).name, x, x)
    BY <1>7 DEF Snapshot, TakeSnapshot, SnapshotFails
  <2>2. Pending(f, key("snapshot", x))
    BY <1>4, <1>6, <2>1
  <2>3. ~Pending(round'[r], key("snapshot", x))
    <3>1. CASE Turned(r, "next", next, {}, {}, f.id)
      BY <1>5, <3>1
    <3>2. CASE Turned(r, "snapshot", f.ops, f.todo \ {x}, f.list, f.id)
      BY <3>2 DEF Turned, Pending, Current
    <3>3. QED
      BY <2>1, <3>1, <3>2, SnapshotTurns
  <2>4. CASE Generate(r, "snapshot", Op(r).name, x, x)
    BY <1>0, <1>3, <2>1, <2>2, <2>3, <2>4
  <2>5. QED
    BY <2>1, <2>4
<1>8. CASE CloneScripts(r)
  <2>1. PICK lb : UNCHANGED things \/ Generate(r, "script", lb, <<>>, <<>>)
    BY <1>8 DEF CloneScripts
  <2>2. f.stage = "clone"
    BY <1>8 DEF CloneScripts
  <2>3. CASE Generate(r, "script", lb, <<>>, <<>>) /\ ~UNCHANGED things
    <3>1. Pending(f, key("script", <<>>))
      BY <1>4, <1>6, <2>2
    <3>2. PICK T : Turned(r, "pod", f.ops, T, f.list, f.id)
      BY <1>8, <2>3, CloneTurns
    <3>3. ~Pending(round'[r], key("script", <<>>))
      BY <3>2 DEF Turned, Pending, Current
    <3>4. QED
      BY <1>0, <1>3, <2>2, <2>3, <3>1, <3>3
  <2>4. QED
    BY <2>1, <2>3
<1>9. CASE ScaleObj(r)
  <2>1. f.stage = "pod" /\ round' = OpReturns(r)
    BY <1>9 DEF ScaleObj
  <2>2. UNCHANGED things \/ Generate(r, "pod", "scale-pod", <<>>, <<f.n, f.todo>>)
    BY <1>9 DEF ScaleObj
  <2>3. CASE Generate(r, "pod", "scale-pod", <<>>, <<f.n, f.todo>>)
    <3>1. Pending(f, key("pod", <<>>))
      BY <1>4, <1>6, <2>1
    <3>2. ~Pending(round'[r], key("pod", <<>>))
      BY <1>5, <2>1, ReturnsTurn
    <3>3. QED
      BY <1>0, <1>3, <2>1, <2>3, <3>1, <3>2
  <2>4. QED
    BY <2>2, <2>3
<1>10. QED
  BY <1>1, <1>2, <1>7, <1>8, <1>9 DEF RunControlOps

\* A routine comes to delete what is the oldest of its list now.
Selects(r, x) ==
    /\ UNCHANGED things /\ x \in Oldest(Matching(Op(r)))
    /\ round'[r].todo = {x} /\ round'[r].ops = round[r].ops
    /\ Current(r) \in DOMAIN Operations

LEMMA DoomedTurns ==
    ASSUME CtlInv, NEW r \in Rates, RunControlOps(r) \/ ReceiveValue(r)
    PROVE  /\ \A s \in Rates \ {r} : round'[s] = round[s]
           /\ round'[r].stage = "delete" => \E x : Selects(r, x)
<1>1. CASE ReceiveValue(r)
  BY <1>1, ReceiveTurns DEF Turned
<1>2. ASSUME NEW st, NEW ops, NEW todo, NEW list, NEW id, Turned(r, st, ops, todo, list, id),
             st # "delete"
      PROVE  /\ \A s \in Rates \ {r} : round'[s] = round[s]
             /\ round'[r].stage # "delete"
  BY <1>2 DEF Turned
<1>3. CASE RunWorkloads(r) \/ WorkloadsDone(r)
  <2>1. PICK st \in {"workloads", "next"} : round' = [round EXCEPT ![r].stage = st]
    BY <1>3 DEF RunWorkloads, WorkloadsDone
  <2>2. QED
    BY <1>2, <2>1, StageTurns
<1>4. CASE CreateVolume(r)
  BY <1>2, <1>4, VolumeTurns
<1>5. CASE NextOperation(r)
  <2>1. ASSUME round[r].ops # {}, NEW x \in Oldest(Matching(Op(r))),
               Turned(r, "delete", round[r].ops, {x}, round[r].list, round[r].id)
        PROVE  /\ \A s \in Rates \ {r} : round'[s] = round[s]
               /\ \E y : Selects(r, y)
    <3>1. Current(r) \in DOMAIN Operations
      BY <2>1, FirstFacts DEF Current, CtlInv, RoundOK
    <3>2. UNCHANGED things
      BY <1>5 DEF NextOperation
    <3>3. Selects(r, x)
      BY <2>1, <3>1, <3>2 DEF Turned, Selects
    <3>4. QED
      BY <2>1, <3>3 DEF Turned
  <2>2. QED
    BY <1>2, <1>5, <2>1, NextTurns
<1>6. CASE Snapshot(r)
  <2>1. PICK x \in round[r].todo : round[r].stage = "snapshot" /\ round' = NextClaim(r, x)
    BY <1>6 DEF Snapshot
  <2>2. QED
    BY <1>2, <2>1, SnapshotTurns
<1>7. CASE DeleteObj(r) \/ ScaleObj(r) \/ ListFails(r)
  <2>1. round' = OpReturns(r)
    BY <1>7 DEF DeleteObj, ScaleObj, ListFails
  <2>2. QED
    BY <1>2, <2>1, ReturnsTurn
<1>8. CASE CloneScripts(r)
  BY <1>2, <1>8, CloneTurns
<1>9. QED
  BY <1>1, <1>3, <1>4, <1>5, <1>6, <1>7, <1>8 DEF RunControlOps

LEMMA IdsNext ==
    ASSUME CtlInv, ActiveInv, IdsInv, [OpsNext]_allVars
    PROVE  IdsInv'
<1>0. values \in Nat /\ \A r \in Rates : round[r].id \in Nat /\ round[r].id <= values
  BY DEF CtlInv, RoundOK, ActiveInv
<1>1. ASSUME NEW r \in Rates, RunControlOps(r) PROVE IdsInv'
  <2>1. PICK st, ops, todo, list, id : Moved(r, st, ops, todo, list, id)
    BY <1>1, RoutineMoves
  <2>2. /\ \A s \in Rates \ {r} : round'[s] = round[s]
        /\ round'[r].id = 0 \/ round'[r].id = round[r].id
    BY <2>1 DEF Moved, Turned
  <2>3. QED
    BY <2>2 DEF IdsInv
<1>2. ASSUME NEW r \in Rates, ReceiveValue(r) PROVE IdsInv'
  <2>1. Turned(r, "volumes", OperationsOf(r), {}, {}, values') /\ values' = values + 1
    BY <1>2, ReceiveTurns DEF ReceiveValue
  <2>2. \A s \in Rates \ {r} : round'[s] = round[s] /\ round[s].id # values'
    BY <1>0, <2>1 DEF Turned
  <2>3. round'[r].id = values'
    BY <2>1 DEF Turned
  <2>4. QED
    BY <2>2, <2>3 DEF IdsInv
<1>3. CASE ~\E r \in Rates : RunControlOps(r) \/ ReceiveValue(r)
  BY <1>3, OtherSteps DEF IdsInv
<1>4. QED
  BY <1>1, <1>2, <1>3

LEMMA NamesNext ==
    ASSUME CtlInv, ActiveInv, IdsInv, NamesInv, NoClaimDeletes, [OpsNext]_allVars
    PROVE  NamesInv'
<1>0. /\ values \in Nat /\ \A r \in Rates : round[r].id \in Nat
      /\ \A x \in DOMAIN things : /\ things[x].kind = "claim" \/ x[1] \in {"snapshot", "script", "pod"}
                                  /\ x[1] # "volume" => x[3] \in 1..values
  BY DEF CtlInv, RoundOK, ThingOK
<1>1. ASSUME NEW r \in Rates, RunControlOps(r) PROVE NamesInv'
  <2>1. UNCHANGED values
    BY <1>1, RoutineThings
  <2>2. \A s \in Rates \ {r} : round'[s] = round[s]
    BY <1>1, DoomedTurns
  <2>3. \A z : \A s \in Rates : Pending(round'[s], z) => Pending(round[s], z)
    BY <1>1, <2>2, PendingShrinks
  <2>4. ASSUME NEW z \in Doomed'
        PROVE  z \in Doomed \/ (z \in DOMAIN things /\ z[1] \in {"snapshot", "script", "pod"})
    <3>1. PICK s \in Rates : round'[s].stage = "delete" /\ z \in round'[s].todo
      BY DEF Doomed
    <3>2. CASE s # r
      BY <2>2, <3>1, <3>2 DEF Doomed
    <3>3. CASE s = r
      <4>1. Selects(r, z)
        BY <1>1, <3>1, <3>3, DoomedTurns DEF Selects
      <4>2. z \in DOMAIN things /\ things[z].kind = Op(r).kind /\ Current(r) \in DOMAIN Operations
        BY <4>1 DEF Selects, Oldest, Matching
      <4>3. things[z].kind # "claim"
        BY <4>2 DEF NoClaimDeletes, Op
      <4>4. QED
        BY <1>0, <4>2, <4>3
    <3>4. QED
      BY <3>2, <3>3
  <2>5. \A z \in Doomed' : z[1] \in {"snapshot", "script", "pod"} /\ z[3] \in 1..values'
    BY <1>0, <2>1, <2>4 DEF NamesInv
  <2>6. ASSUME NEW z \in Doomed' \cup DOMAIN things', z[1] # "volume", NEW s \in Rates
        PROVE  ~Pending(round'[s], z)
    <3>1. CASE z \in Doomed \cup DOMAIN things
      BY <2>3, <2>6, <3>1 DEF NamesInv
    <3>2. CASE z \in DOMAIN things' /\ z \notin DOMAIN things
      <4>1. PICK k, t : Creates(r, k, t)
        BY <1>1, <3>2, RoutineCreates DEF DeleteObj, Without
      <4>2. k = z
        <5>1. things' = WithThing(k, t)
          BY <4>1 DEF Creates
        <5>2. QED
          BY <3>2, <5>1, WithThingFacts
      <4>3. ~Pending(round'[r], z) /\ z[3] = round[r].id /\ round[r].id > 0
        BY <2>6, <4>1, <4>2 DEF Creates
      <4>4. CASE s # r
        <5>1. round[s].id # z[3]
          BY <1>0, <4>3, <4>4 DEF IdsInv
        <5>2. ~Pending(round[s], z)
          BY <5>1 DEF Pending
        <5>3. QED
          BY <2>3, <5>2
      <4>5. QED
        BY <4>3, <4>4
    <3>3. QED
      BY <2>4, <2>6, <3>1, <3>2
  <2>7. QED
    BY <2>5, <2>6 DEF NamesInv
<1>2. ASSUME NEW r \in Rates, ReceiveValue(r) PROVE NamesInv'
  <2>1. Turned(r, "volumes", OperationsOf(r), {}, {}, values')
    BY <1>2, ReceiveTurns
  <2>2. values' = values + 1 /\ UNCHANGED things
    BY <1>2 DEF ReceiveValue
  <2>3. Doomed' \subseteq Doomed
    BY <2>1 DEF Turned, Doomed
  <2>4. \A z \in Doomed \cup DOMAIN things : z[1] # "volume" => z[3] \in 1..values
    BY <1>0 DEF NamesInv
  <2>5. \A z \in Doomed' : z[1] \in {"snapshot", "script", "pod"} /\ z[3] \in 1..values'
    BY <1>0, <2>2, <2>3 DEF NamesInv
  <2>6. ASSUME NEW z \in Doomed' \cup DOMAIN things', z[1] # "volume", NEW s \in Rates
        PROVE  ~Pending(round'[s], z)
    <3>1. z \in Doomed \cup DOMAIN things
      BY <2>2, <2>3
    <3>2. CASE s = r
      <4>1. round'[r].id = values + 1
        BY <2>1, <2>2 DEF Turned
      <4>2. z[3] # values + 1
        BY <1>0, <2>4, <2>6, <3>1
      <4>3. QED
        BY <3>2, <4>1, <4>2 DEF Pending
    <3>3. CASE s # r
      BY <2>1, <2>6, <3>1, <3>3 DEF Turned, NamesInv
    <3>4. QED
      BY <3>2, <3>3
  <2>7. QED
    BY <2>5, <2>6 DEF NamesInv
<1>3. CASE ~\E r \in Rates : RunControlOps(r) \/ ReceiveValue(r)
  <2>1. UNCHANGED <<round, values>> /\ DOMAIN things' \subseteq DOMAIN things
    BY <1>3, OtherSteps DEF Kept, Removed
  <2>2. QED
    BY <2>1 DEF NamesInv, Doomed
<1>4. QED
  BY <1>1, <1>2, <1>3

LEMMA OldestNext ==
    ASSUME CtlInv, ActiveInv, NamesInv, OldestInv, [OpsNext]_allVars
    PROVE  OldestInv'
<1>0. values \in Nat /\ \A x \in DOMAIN things : things[x].born \in 0..values
  BY DEF CtlInv, ThingOK
<1>1. ASSUME NEW s \in Rates, round'[s] = round[s], round'[s].stage = "delete",
             \A x \in DOMAIN things' : x \in round[s].todo => x \in DOMAIN things,
             \A x \in DOMAIN things' \cap DOMAIN things : things'[x] = things[x],
             \A y \in DOMAIN things' \ DOMAIN things : things'[y].born = values
      PROVE  \A x \in round'[s].todo : x \in DOMAIN things' =>
                \A y \in Matching(Op(s))' : things'[x].born <= things'[y].born
  <2> SUFFICES ASSUME NEW x \in round[s].todo, x \in DOMAIN things', NEW y \in Matching(Op(s))'
               PROVE  things'[x].born <= things'[y].born
    BY <1>1
  <2>1. x \in DOMAIN things /\ things'[x] = things[x]
    BY <1>1
  <2>2. /\ y \in DOMAIN things' /\ things'[y].kind = Op(s).kind
        /\ things'[y].label = Op(s).selector
    BY <1>1 DEF Matching, Op, Current
  <2>3. CASE y \in DOMAIN things
    <3>1. things'[y] = things[y] /\ y \in Matching(Op(s))
      BY <1>1, <2>2, <2>3 DEF Matching
    <3>2. QED
      BY <1>1, <2>1, <3>1 DEF OldestInv
  <2>4. CASE y \notin DOMAIN things
    <3>1. things'[y].born = values /\ things[x].born \in 0..values
      BY <1>0, <1>1, <2>1, <2>2, <2>4
    <3>2. QED
      BY <1>0, <2>1, <3>1
  <2>5. QED
    BY <2>3, <2>4
<1>2. ASSUME NEW r \in Rates, RunControlOps(r) \/ ReceiveValue(r),
             NEW s \in Rates, round'[s].stage = "delete"
      PROVE  \A x \in round'[s].todo : x \in DOMAIN things' =>
                \A y \in Matching(Op(s))' : things'[x].born <= things'[y].born
  <2>1. CASE s = r
    <3>1. PICK x : Selects(r, x)
      BY <1>2, <2>1, DoomedTurns
    <3>2. Matching(Op(s))' = Matching(Op(r))
      BY <2>1, <3>1 DEF Selects, Matching, Op, Current
    <3>3. \A y \in Matching(Op(r)) : things[x].born <= things[y].born
      BY <3>1 DEF Selects, Oldest
    <3>4. round'[s].todo = {x} /\ UNCHANGED things
      BY <2>1, <3>1 DEF Selects
    <3>5. QED
      BY <3>2, <3>3, <3>4
  <2>2. CASE s # r
    <3>1. round'[s] = round[s]
      BY <1>2, <2>2, DoomedTurns
    <3>2. CASE UNCHANGED things
      BY <1>1, <1>2, <3>1, <3>2
    <3>3. CASE DeleteObj(r)
      <4>1. \/ UNCHANGED things
            \/ things' = [x \in DOMAIN things \ round[r].todo |-> things[x]]
        BY <3>3 DEF DeleteObj, Without
      <4>2. QED
        BY <1>1, <1>2, <3>1, <4>1
    <3>4. ASSUME NEW z, NEW t, Creates(r, z, t)
          PROVE  \A x \in round'[s].todo : x \in DOMAIN things' =>
                    \A y \in Matching(Op(s))' : things'[x].born <= things'[y].born
      <4>1. things' = WithThing(z, t) /\ t.born = values
        BY <3>4 DEF Creates
      <4>2. /\ DOMAIN things' = DOMAIN things \cup {z}
            /\ \A x \in DOMAIN things : things'[x] = things[x]
            /\ z \notin DOMAIN things => things'[z] = t
        BY <4>1, WithThingFacts
      <4>3. z \notin round[s].todo
        <5>1. SUFFICES ASSUME z \in round[s].todo PROVE FALSE
          OBVIOUS
        <5>2. z \in Doomed
          BY <1>2, <3>1, <5>1 DEF Doomed
        <5>3. z[1] # "volume" /\ ~Pending(round[r], z)
          BY <5>2 DEF NamesInv
        <5>4. QED
          BY <3>4, <5>3 DEF Creates
      <4>4. QED
        BY <1>1, <1>2, <3>1, <4>1, <4>2, <4>3
    <3>5. CASE ReceiveValue(r)
      BY <3>2, <3>5 DEF ReceiveValue
    <3>6. QED
      BY <1>2, <3>2, <3>3, <3>4, <3>5, RoutineCreates
  <2>3. QED
    BY <2>1, <2>2
<1>3. CASE ~\E r \in Rates : RunControlOps(r) \/ ReceiveValue(r)
  <2>1. /\ UNCHANGED round
        /\ DOMAIN things' \subseteq DOMAIN things
        /\ \A x \in DOMAIN things' : things'[x] = things[x]
    BY <1>3, OtherSteps DEF Kept, Removed
  <2>2. \A s \in Rates : round'[s].stage = "delete" =>
           \A x \in round'[s].todo : x \in DOMAIN things' =>
              \A y \in Matching(Op(s))' : things'[x].born <= things'[y].born
    BY <1>1, <2>1
  <2>3. QED
    BY <2>2 DEF OldestInv
<1>4. CASE \E r \in Rates : RunControlOps(r) \/ ReceiveValue(r)
  <2>1. \A s \in Rates : round'[s].stage = "delete" =>
           \A x \in round'[s].todo : x \in DOMAIN things' =>
              \A y \in Matching(Op(s))' : things'[x].born <= things'[y].born
    BY <1>2, <1>4
  <2>2. QED
    BY <2>1 DEF OldestInv
<1>5. QED
  BY <1>3, <1>4

\* Only DeleteObj leaves the stage "delete".
LEMMA DeleteStep ==
    ASSUME CtlInv, OldestInv, [OpsNext]_allVars, NEW r \in Rates,
           round[r].stage = "delete", round'[r].stage # "delete",
           NEW x \in DOMAIN things \ DOMAIN things', NEW y \in Matching(Op(r))
    PROVE  things[x].born <= things[y].born
<1>1. PICK s \in Rates : RunControlOps(s) \/ ReceiveValue(s)
  BY OtherSteps
<1>2. s = r
  BY <1>1, DoomedTurns
<1>3. DeleteObj(r)
  BY <1>1, <1>2 DEF RunControlOps, ListFails, CreateVolume, RunWorkloads, WorkloadsDone,
                    NextOperation, Snapshot, CloneScripts, ScaleObj, ReceiveValue
<1>4. x \in round[r].todo
  BY <1>3 DEF DeleteObj, Without
<1>5. QED
  BY <1>4 DEF OldestInv

(***************************************************************************)
(* For any rates, operations and failures: what a delete operation removes *)
(* (DeleteObj) is not younger than any object it could have removed, even  *)
(* though its list is out of date when it deletes, if no operation deletes *)
(* the claims of volumes.  Those are created again under the same name;    *)
(* all other names are generated.                                          *)
(***************************************************************************)
THEOREM OldestIsDeleted ==
    ASSUME NoClaimDeletes
    PROVE  OpsSpec => DeletesOldest
<1> DEFINE I == CtlInv /\ ActiveInv /\ IdsInv /\ NamesInv /\ OldestInv
<1>1. CtlInit => I
  <2> SUFFICES ASSUME CtlInit PROVE IdsInv /\ NamesInv /\ OldestInv
    BY CtlInit1
  <2>1. \A r \in Rates : round[r].stage = "wait" /\ round[r].id = 0 /\ round[r].ops = {}
    BY DEF CtlInit, Waiting
  <2>2. Doomed = {}
    BY <2>1 DEF Doomed
  <2>3. QED
    BY <2>1, <2>2 DEF IdsInv, NamesInv, OldestInv, Pending
<1>2. I /\ [OpsNext]_allVars => I'
  BY CtlNext, IdsNext, NamesNext, OldestNext
<1>3. I /\ [OpsNext]_allVars =>
         \A r \in Rates :
            round[r].stage = "delete" /\ round'[r].stage # "delete" =>
               \A x \in DOMAIN things \ DOMAIN things', y \in Matching(Op(r)) :
                  things[x].born <= things[y].born
  BY DeleteStep
<1>4. QED
  BY <1>1, <1>2, <1>3, OpsSafety, PTL DEF DeletesOldest
-----------------------------------------------------------------------------
(***************************************************************************)
(* The numbers of the instances: workloadInstance[type] is at least every  *)
(* number that RunWorkload has used, and larger than those of its own      *)
(* workload while a goroutine is about to use it, as long as no update of  *)
(* the map is lost.  Only one goroutine runs a workload: the routine of    *)
(* its rate, or main before the rates start; main in ReconcileInstances    *)
(* may create objects of the same workload, but they are in topped.        *)
(***************************************************************************)
Numbered(x) == Template[x[1]].numbered /\ ~Template[x[1]].parser

TypeAt(x) == Workloads[x[2]].type

PlaceAt(p, f, ph) ==
    /\ p = "main" => /\ f.pc \in {"idle", "check", "count", "topup"} \cup InRun
                     /\ f.pc \in InRun => ph = "starting"
    /\ p # "main" => /\ f.pc \in {"idle"} \cup InRun
                     /\ f.pc # "idle" => ph # "starting" /\ Workloads[f.i].rate = p
    /\ f.pc \in {"idle", "check", "count"} => f.todo = {}

\* What a goroutine relies on between the store and the create.
NewAt(f, S, ct, ls) ==
    f.pc = "stored" /\ Workloads[f.i].type \notin ls =>
        \A x \in S : Numbered(x) /\ x[2] = f.i => x[3] < ct[Workloads[f.i].type]

Standing(S, ct, ls) ==
    \A x \in S : Numbered(x) /\ TypeAt(x) \notin ls => x[3] <= ct[TypeAt(x)]

\* What RunWorkload created.
Handed == DOMAIN objs \ topped

PlaceInv ==
    /\ \A p \in Procs : PlaceAt(p, proc[p], phase)
    /\ rated => phase # "starting"
    /\ \A r \in Rates : round[r].stage = "volumes" => phase # "starting"

NumberInv ==
    /\ \A p \in Procs : NewAt(proc[p], Handed, counter, lost)
    /\ Standing(Handed, counter, lost)

FreshInv == TypeInv /\ IsFiniteSet(DOMAIN seen) /\ PlaceInv /\ NumberInv

LEMMA MainIsNoRate == "main" \notin Rates
BY InstancesAssumption, Zenon

LEMMA Alone ==
    ASSUME PlaceInv, NEW p \in Procs, NEW q \in Procs, p # q,
           proc[p].pc \in InRun, proc[q].pc \in InRun
    PROVE  proc[p].i # proc[q].i
<1>1. PlaceAt(p, proc[p], phase) /\ PlaceAt(q, proc[q], phase)
  BY DEF PlaceInv
<1>2. QED
  BY <1>1 DEF PlaceAt, InRun

\* The steps that leave workloadInstance alone.
LEMMA NumbersStay ==
    ASSUME NumberInv, UNCHANGED counter, lost \subseteq lost',
           \A q \in Procs : proc'[q].pc = "stored" => proc[q].pc = "stored" /\ proc'[q].i = proc[q].i,
           \A x \in Handed' \ Handed :
              \/ ~Numbered(x)
              \/ /\ x[3] <= counter[TypeAt(x)]
                 /\ \A q \in Procs : proc'[q].pc = "stored" => proc[q].i # x[2]
    PROVE  NumberInv'
<1>1. ASSUME NEW q \in Procs PROVE NewAt(proc'[q], Handed', counter', lost')
  <2>1. NewAt(proc[q], Handed, counter, lost)
    BY DEF NumberInv
  <2>2. SUFFICES ASSUME proc'[q].pc = "stored", Workloads[proc'[q].i].type \notin lost',
                        NEW x \in Handed', Numbered(x), x[2] = proc'[q].i
                 PROVE  x[3] < counter'[Workloads[proc'[q].i].type]
    BY DEF NewAt
  <2>3. proc[q].pc = "stored" /\ proc'[q].i = proc[q].i /\ x[2] = proc[q].i
    BY <2>2
  <2>4. x \in Handed
    BY <2>2, <2>3
  <2>5. QED
    BY <2>1, <2>2, <2>3, <2>4 DEF NewAt
<1>2. Standing(Handed', counter', lost')
  <2>1. Standing(Handed, counter, lost)
    BY DEF NumberInv
  <2>2. QED
    BY <2>1 DEF Standing
<1>3. QED
  BY <1>1, <1>2 DEF NumberInv

LEMMA NumbersStored ==
    ASSUME TypeInv, PlaceInv, NumberInv, NEW p \in Procs, Store(p), Record(p)
    PROVE  NumberInv'
<1> DEFINE i == proc[p].i
           t == Workloads[i].type
<1>1. /\ proc[p].pc = "loaded" /\ UNCHANGED <<objs, phase>>
      /\ counter' = [counter EXCEPT ![t] = proc[p].num + 1]
      /\ Goes(p, "stored", i, proc[p].todo, proc[p].files, proc[p].file,
              proc[p].num, proc[p].left)
  BY StoreGoes DEF TypeOf
<1>2. i \in Entries /\ t \in DOMAIN Library /\ counter[t] \in Int
  BY <1>1, EntryFacts DEF TypeInv, ProcOK
<1>3. topped' = topped /\ lost \subseteq lost' /\ (t \in lost' \/ proc[p].num = counter[t])
  BY <1>1 DEF Record, TypeOf
<1>4. Handed' = Handed
  BY <1>1, <1>3 DEF Handed
<1>5. \A u \in DOMAIN Library : counter[u] \in Int
  BY DEF TypeInv
<1>6. \A u \in DOMAIN Library \ lost' :
         /\ u # t => counter'[u] = counter[u]
         /\ u = t => counter'[u] = counter[u] + 1
  BY <1>1, <1>2, <1>3 DEF TypeInv
<1>7. \A x \in DOMAIN objs : /\ x[3] \in Nat /\ TypeAt(x) \in DOMAIN Library
                             /\ x[2] = i => TypeAt(x) = t
  BY EntryFacts DEF TypeInv, NameOK, TypeAt
<1>8. Handed \subseteq DOMAIN objs
  BY DEF Handed
<1>9. Standing(Handed, counter, lost)
  BY DEF NumberInv
<1> HIDE DEF t, i
<1>10. \A n \in Nat, c \in Int : /\ n <= c => n <= c + 1 /\ n < c + 1
                                 /\ n < c => n < c + 1
  OBVIOUS
<1>11. Standing(Handed', counter', lost')
  <2> SUFFICES ASSUME NEW x \in Handed, Numbered(x), TypeAt(x) \notin lost'
               PROVE  x[3] <= counter'[TypeAt(x)]
    BY <1>4 DEF Standing
  <2>1. x[3] <= counter[TypeAt(x)] /\ TypeAt(x) \in DOMAIN Library \ lost' /\ x[3] \in Nat
    BY <1>3, <1>7, <1>8, <1>9 DEF Standing
  <2>2. QED
    BY <1>5, <1>6, <1>10, <2>1
<1>12. NewAt(proc'[p], Handed', counter', lost')
  <2>1. proc'[p].i = i /\ Workloads[i].type = t
    BY <1>1 DEF Goes, t
  <2>2. SUFFICES ASSUME t \notin lost', NEW x \in Handed, Numbered(x), x[2] = i
                 PROVE  x[3] < counter'[t]
    BY <1>4, <2>1 DEF NewAt
  <2>3. x[3] <= counter[t] /\ x[3] \in Nat
    BY <1>3, <1>7, <1>8, <1>9, <2>2 DEF Standing
  <2>4. counter'[t] = counter[t] + 1
    BY <1>2, <1>6, <2>2
  <2>5. QED
    BY <1>2, <1>10, <2>3, <2>4
<1>13. ASSUME NEW q \in Procs \ {p} PROVE NewAt(proc'[q], Handed', counter', lost')
  <2> DEFINE u == Workloads[proc[q].i].type
  <2>1. proc'[q] = proc[q] /\ NewAt(proc[q], Handed, counter, lost)
    BY <1>1 DEF Goes, NumberInv
  <2>2. SUFFICES ASSUME proc[q].pc = "stored", u \notin lost',
                        NEW x \in Handed, Numbered(x), x[2] = proc[q].i
                 PROVE  x[3] < counter'[u]
    BY <1>4, <2>1 DEF NewAt
  <2>3. proc[q].i \in Entries /\ u \in DOMAIN Library
    BY <2>2, EntryFacts DEF TypeInv, ProcOK
  <2>4. x[3] < counter[u] /\ x[3] \in Nat
    BY <1>3, <1>7, <1>8, <2>1, <2>2 DEF NewAt
  <2> HIDE DEF u
  <2>5. QED
    BY <1>5, <1>6, <1>10, <2>2, <2>3, <2>4
<1>14. QED
  BY <1>11, <1>12, <1>13 DEF NumberInv

LEMMA NumbersRun ==
    ASSUME TypeInv, PlaceInv, NumberInv, NEW p \in Procs, RunWorkload(p), Record(p)
    PROVE  NumberInv'
<1>1. lost \subseteq lost' /\ topped \subseteq topped'
  BY DEF Record
<1>2. PlaceAt(p, proc[p], phase) /\ ProcOK(proc[p])
  BY DEF PlaceInv, TypeInv
<1>3. UNCHANGED objs => Handed' \subseteq Handed
  BY <1>1 DEF Handed
<1>4. CASE CreateNext(p)
  <2>1. PICK x \in proc[p].todo :
              /\ objs' = WithObject(x) /\ UNCHANGED <<counter, phase>>
              /\ Goes(p, proc[p].pc, proc[p].i, proc[p].todo \ {x}, proc[p].files,
                      proc[p].file, proc[p].num, proc[p].left)
    BY <1>4, CreateGoes
  <2>2. DOMAIN objs' = DOMAIN objs \cup {x}
    BY <2>1, WithObjectFacts
  <2>3. \A q \in Procs : proc'[q].pc = proc[q].pc /\ proc'[q].i = proc[q].i
    BY <2>1 DEF Goes
  <2>4. \A y \in Handed' \ Handed : ~Numbered(y)
    <3>1. CASE proc[p].pc \in InRun
      BY <1>1, <1>2, <2>2, <3>1 DEF ProcOK, Numbered, Handed
    <3>2. CASE proc[p].pc = "topup"
      BY <1>1, <2>2, <3>2 DEF Record, Handed
    <3>3. QED
      BY <1>2, <3>1, <3>2 DEF PlaceAt
  <2>5. QED
    BY <1>1, <2>1, <2>3, <2>4, NumbersStay
<1>5. CASE PickFile(p) \/ Load(p)
  <2>1. /\ UNCHANGED <<objs, counter>> /\ proc'[p].pc # "stored"
        /\ \A q \in Procs \ {p} : proc'[q] = proc[q]
    BY <1>5, PickGoes, LoadGoes DEF Goes
  <2>2. QED
    BY <1>1, <1>3, <2>1, NumbersStay
<1>6. CASE Store(p)
  BY <1>6, NumbersStored
<1>7. CASE PrepareAndRun(p) \/ NextWorkload(p) \/ RunFails(p)
  <2>1. /\ UNCHANGED counter /\ proc[p].pc \in {"run", "stored"}
        /\ \/ UNCHANGED objs
           \/ proc[p].pc = "stored" /\ objs' = WithObject(Target(p))
        /\ proc'[p].pc # "stored" /\ \A q \in Procs \ {p} : proc'[q] = proc[q]
    BY <1>7, PrepareGoes, NextGoes, FailGoes DEF Enters, Rests, Goes
  <2>2. CASE UNCHANGED objs
    BY <1>1, <1>3, <2>1, <2>2, NumbersStay
  <2>3. CASE proc[p].pc = "stored" /\ objs' = WithObject(Target(p))
    <3>1. /\ proc[p].i \in Entries /\ proc[p].file \in Files(proc[p].i)
          /\ counter[TypeOf(p)] \in Nat
      BY <2>3, TargetOK
    <3>2. Target(p)[2] = proc[p].i /\ Target(p)[3] <= counter[TypeOf(p)]
      BY <3>1, NameFacts DEF Target
    <3>3. DOMAIN objs' = DOMAIN objs \cup {Target(p)}
      BY <2>3, WithObjectFacts
    <3>4. \A x \in Handed' \ Handed : x = Target(p)
      BY <1>1, <3>3 DEF Handed
    <3>5. TypeAt(Target(p)) = TypeOf(p)
      BY <3>2 DEF TypeAt, TypeOf
    <3>6. \A q \in Procs : proc'[q].pc = "stored" => proc[q].pc = "stored" /\ proc[q].i # proc[p].i
      BY <2>1, <2>3, Alone DEF InRun
    <3>7. QED
      BY <1>1, <2>1, <3>2, <3>4, <3>5, <3>6, NumbersStay
  <2>4. QED
    BY <2>1, <2>2, <2>3
<1>8. QED
  BY <1>4, <1>5, <1>6, <1>7 DEF RunWorkload

LEMMA PlacesRun ==
    ASSUME TypeInv, PlaceInv, NEW p \in Procs, RunWorkload(p), UNCHANGED <<rated, round>>
    PROVE  PlaceInv'
<1>1. PlaceAt(p, proc[p], phase)
  BY DEF PlaceInv
<1>2. /\ \A q \in Procs \ {p} : proc'[q] = proc[q]
      /\ \/ UNCHANGED phase
         \/ p = "main" /\ proc[p].pc = "run" /\ phase' = "initializing" /\ Rests(p)
  <2>1. CASE CreateNext(p) \/ PickFile(p) \/ Load(p) \/ Store(p)
    BY <2>1, CreateGoes, PickGoes, LoadGoes, StoreGoes DEF Goes
  <2>2. CASE PrepareAndRun(p) \/ NextWorkload(p) \/ RunFails(p)
    BY <2>2, PrepareGoes, NextGoes, FailGoes DEF Enters, Rests, Goes
  <2>3. QED
    BY <2>1, <2>2 DEF RunWorkload
<1>3. phase' # phase => phase' # "starting"
  BY <1>2
<1>4. PlaceAt(p, proc'[p], phase')
  <2>1. CASE CreateNext(p)
    <3>1. /\ proc[p].todo # {} /\ UNCHANGED phase
          /\ proc'[p].pc = proc[p].pc /\ proc'[p].i = proc[p].i
      BY <2>1, CreateGoes DEF Goes
    <3>2. QED
      BY <1>1, <3>1 DEF PlaceAt
  <2>2. CASE PickFile(p) \/ Load(p) \/ Store(p) \/ PrepareAndRun(p)
    <3>1. /\ proc[p].pc \in InRun /\ UNCHANGED phase
          /\ proc'[p].pc \in InRun /\ proc'[p].i = proc[p].i
      BY <2>2, PickGoes, LoadGoes, StoreGoes, PrepareGoes DEF Goes, InRun
    <3>2. QED
      BY <1>1, <3>1 DEF PlaceAt, InRun
  <2>3. CASE NextWorkload(p) \/ RunFails(p)
    <3>1. /\ proc[p].pc \in InRun
          /\ \/ Later(p) # {} /\ Enters(p, First(Later(p))) /\ UNCHANGED phase
             \/ p = "main" /\ Enters(p, 1) /\ UNCHANGED phase
             \/ Rests(p)
      BY <2>3, NextGoes, FailGoes DEF InRun
    <3>2. Later(p) # {} => p = "main" \/ Workloads[First(Later(p))].rate = p
      BY LaterIn DEF Later
    <3>3. QED
      BY <1>1, <3>1, <3>2 DEF PlaceAt, Enters, Rests, Goes, InRun
  <2>4. QED
    BY <2>1, <2>2, <2>3 DEF RunWorkload
<1>5. ASSUME NEW q \in Procs \ {p} PROVE PlaceAt(q, proc'[q], phase')
  <2>1. PlaceAt(q, proc[q], phase)
    BY DEF PlaceInv
  <2>2. QED
    BY <1>2, <2>1 DEF PlaceAt
<1>6. QED
  BY <1>3, <1>4, <1>5 DEF PlaceInv

LEMMA FreshRun ==
    ASSUME FreshInv, NEW p \in Procs, RunWorkload(p), Record(p)
    PROVE  FreshInv'
<1>1. UNCHANGED <<seen, rated>>
  BY DEF RunWorkload, CreateNext, CreateObj, PickFile, Load, Store, PrepareAndRun, NextWorkload,
         RunFails
<1>2. UNCHANGED round
  BY DEF Record
<1>3. QED
  BY <1>1, <1>2, RunTypes, PlacesRun, NumbersRun DEF FreshInv

\* The other steps of Reconcile.
LEMMA FreshMain ==
    ASSUME FreshInv, Main, ~RunWorkload("main"), Record("main")
    PROVE  FreshInv'
<1>1. TypeInv /\ "main" \in Procs /\ PlaceAt("main", MainAt, phase)
  BY DEF FreshInv, PlaceInv, MainAt, Procs
<1>2. TypeInv'
  BY MainTypes DEF FreshInv
<1>3. UNCHANGED <<objs, seen, counter>> /\ lost \subseteq lost' /\ topped \subseteq topped'
      /\ UNCHANGED round
  BY DEF Main, StartRates, Reconcile, CheckCompletions, CountInstances, TopUpDone, TopUpFails,
         Record
<1>4. /\ \A q \in Procs \ {"main"} : proc'[q] = proc[q]
      /\ \/ UNCHANGED proc
         \/ /\ proc'["main"].pc \in {"idle", "check", "count", "topup"}
            /\ proc'["main"].pc # "topup" => proc'["main"].todo = {}
      /\ \/ UNCHANGED phase
         \/ phase' \in {"running", "complete"} /\ phase # "starting"
         \/ phase' = "complete" /\ proc'["main"].pc = "idle"
      /\ rated' => rated \/ phase' = "running"
  <2>1. CASE StartRates
    BY <2>1 DEF StartRates
  <2>2. CASE Reconcile
    <3>1. UNCHANGED rated
      BY <2>2 DEF Reconcile
    <3>2. QED
      BY <1>1, <2>2, <3>1, ReconcileGoes DEF GoesAt, Goes
  <2>3. CASE CheckCompletions
    <3>1. UNCHANGED rated
      BY <2>3 DEF CheckCompletions
    <3>2. QED
      BY <1>1, <2>3, <3>1, CheckGoes DEF GoesAt, Goes
  <2>4. CASE CountInstances \/ TopUpDone \/ TopUpFails
    <3>1. UNCHANGED rated
      BY <2>4 DEF CountInstances, TopUpDone, TopUpFails
    <3>2. QED
      BY <1>1, <2>4, <3>1, CountGoes, TopUpGoes, TopUpFailsGoes DEF GoesAt, Goes
  <2>5. QED
    BY <2>1, <2>2, <2>3, <2>4 DEF Main
<1>5. PlaceAt("main", proc'["main"], phase')
  BY <1>1, <1>4 DEF PlaceAt, InRun, MainAt
<1>6. phase' = "starting" => phase = "starting"
  BY <1>4
<1>7. ASSUME NEW q \in Procs \ {"main"} PROVE PlaceAt(q, proc'[q], phase')
  <2>1. PlaceAt(q, proc[q], phase)
    BY DEF FreshInv, PlaceInv
  <2>2. QED
    BY <1>4, <1>6, <2>1 DEF PlaceAt
<1>8. PlaceInv'
  BY <1>3, <1>4, <1>5, <1>6, <1>7 DEF FreshInv, PlaceInv
<1>9. NumberInv'
  <2>1. Handed' \subseteq Handed
    BY <1>3 DEF Handed
  <2>2. \A q \in Procs : proc'[q].pc = "stored" => proc[q].pc = "stored" /\ proc'[q].i = proc[q].i
    BY <1>4
  <2>3. QED
    BY <1>3, <2>1, <2>2, NumbersStay DEF FreshInv
<1>10. QED
  BY <1>2, <1>3, <1>8, <1>9 DEF FreshInv

\* The steps that create no object of a workload and leave the goroutines
\* where they are.
LEMMA FreshSame ==
    ASSUME FreshInv, UNCHANGED <<proc, counter, phase, rated, topped, lost>>,
           DOMAIN objs' \subseteq DOMAIN objs, seen' = seen \/ seen' = objs,
           \A r \in Rates : round'[r].stage = "volumes" => round[r].stage = "volumes" \/ rated
    PROVE  FreshInv'
<1>1. IsFiniteSet(DOMAIN objs') /\ IsFiniteSet(DOMAIN seen')
  BY FS_Subset DEF FreshInv, TypeInv
<1>2. TypeInv'
  BY <1>1 DEF FreshInv, TypeInv, TypeOf
<1>3. PlaceInv'
  BY DEF FreshInv, PlaceInv
<1>4. Handed' \subseteq Handed
  BY DEF Handed
<1>5. NumberInv'
  BY <1>4, NumbersStay DEF FreshInv
<1>6. QED
  BY <1>1, <1>2, <1>3, <1>5 DEF FreshInv

LEMMA FreshEnter ==
    ASSUME CtlInv, FreshInv, NEW r \in Rates, RunWorkloads(r), Later(r) # {}
    PROVE  FreshInv'
<1> DEFINE i == First(Later(r))
<1>1. r # "main" /\ r \in Procs
  BY MainIsNoRate DEF Procs
<1>2. TypeInv /\ DOMAIN proc = Procs /\ round[r].stage = "volumes" /\ phase # "starting"
  BY DEF FreshInv, PlaceInv, TypeInv, RunWorkloads
<1>3. i \in Entries /\ Workloads[i].rate = r
  BY <1>1, LaterIn DEF Later
<1>4. /\ UNCHANGED <<objs, seen, counter, phase, rated, topped, lost>>
      /\ proc' = [proc EXCEPT ![r] = Enter(i)]
  BY DEF RunWorkloads, numbering
<1>5. Enters(r, i)
  BY <1>1, <1>2, <1>4, EnterGoes
<1> HIDE DEF i
<1>6. DOMAIN proc' = Procs /\ \A q \in Procs : ProcOK(proc'[q])
  BY <1>1, <1>2, <1>3, <1>5, EntersOK
<1>7. proc'[r].pc = "run" /\ proc'[r].i = i /\ \A q \in Procs \ {r} : proc'[q] = proc[q]
  BY <1>5 DEF Enters, Goes
<1>8. TypeInv'
  BY <1>2, <1>4, <1>6, <1>7 DEF TypeInv, TypeOf
<1>9. PlaceInv'
  <2>1. PlaceAt(r, proc'[r], phase')
    BY <1>1, <1>2, <1>3, <1>4, <1>7 DEF PlaceAt, InRun
  <2>2. \A q \in Procs \ {r} : PlaceAt(q, proc'[q], phase')
    BY <1>4, <1>7 DEF FreshInv, PlaceInv
  <2>3. round' = [round EXCEPT ![r].stage = "workloads"]
    BY DEF RunWorkloads
  <2>4. Turned(r, "workloads", round[r].ops, round[r].todo, round[r].list, round[r].id)
    BY <2>3, StageTurns
  <2>5. QED
    BY <1>2, <1>4, <2>1, <2>2, <2>4 DEF FreshInv, PlaceInv, Turned
<1>10. NumberInv'
  <2>1. Handed' \subseteq Handed
    BY <1>4 DEF Handed
  <2>2. \A q \in Procs : proc'[q].pc = "stored" => proc[q].pc = "stored" /\ proc'[q].i = proc[q].i
    BY <1>7
  <2>3. QED
    BY <1>4, <2>1, <2>2, NumbersStay DEF FreshInv
<1>11. QED
  BY <1>4, <1>8, <1>9, <1>10 DEF FreshInv

LEMMA VolumeStage ==
    ASSUME CtlInv, NEW r \in Rates, RunControlOps(r), round'[r].stage = "volumes"
    PROVE  round[r].stage = "volumes"
<1>1. CASE CreateVolume(r)
  BY <1>1 DEF CreateVolume
<1>2. CASE RunWorkloads(r) \/ WorkloadsDone(r)
  BY <1>2, StageTurns DEF RunWorkloads, WorkloadsDone, Turned
<1>3. CASE NextOperation(r)
  BY <1>3, NextTurns DEF Turned
<1>4. CASE Snapshot(r)
  <2>1. PICK x \in round[r].todo : round[r].stage = "snapshot" /\ round' = NextClaim(r, x)
    BY <1>4 DEF Snapshot
  <2>2. QED
    BY <2>1, SnapshotTurns DEF Turned
<1>5. CASE DeleteObj(r) \/ ScaleObj(r) \/ ListFails(r)
  BY <1>5, ReturnsTurn DEF DeleteObj, ScaleObj, ListFails, Turned
<1>6. CASE CloneScripts(r)
  BY <1>6, CloneTurns DEF Turned
<1>7. QED
  BY <1>1, <1>2, <1>3, <1>4, <1>5, <1>6 DEF RunControlOps

LEMMA FreshRoutine ==
    ASSUME CtlInv, ActiveInv, FreshInv, NEW r \in Rates, RunControlOps(r)
    PROVE  FreshInv'
<1>1. CASE RunWorkloads(r) /\ Later(r) # {}
  BY <1>1, FreshEnter
<1>2. CASE ~(RunWorkloads(r) /\ Later(r) # {})
  <2>1. UNCHANGED <<proc, objs, seen, counter, phase, rated, topped, lost>>
    <3>1. CASE WorkloadsDone(r) \/ NextOperation(r)
      BY <3>1 DEF WorkloadsDone, NextOperation, vars, numbering
    <3>2. CASE CreateVolume(r) \/ Snapshot(r)
      BY <3>2 DEF CreateVolume, Snapshot, InstancesButSpent, numbering
    <3>3. CASE CloneScripts(r) \/ ScaleObj(r)
      BY <3>3, Zenon DEF CloneScripts, ScaleObj, InstancesButSpent, numbering
    <3>4. CASE DeleteObj(r) \/ ListFails(r)
      BY <3>4 DEF DeleteObj, ListFails, InstancesButSpent, numbering
    <3>5. CASE RunWorkloads(r)
      BY <1>2, <3>5 DEF RunWorkloads, numbering
    <3>6. QED
      BY <3>1, <3>2, <3>3, <3>4, <3>5 DEF RunControlOps
  <2>2. \A s \in Rates : round'[s].stage = "volumes" => round[s].stage = "volumes"
    <3>1. PICK st, ops, todo, list, id : Turned(r, st, ops, todo, list, id)
      BY RoutineMoves DEF Moved
    <3>2. round'[r].stage = "volumes" => round[r].stage = "volumes"
      BY VolumeStage
    <3>3. QED
      BY <3>1, <3>2 DEF Turned
  <2>3. QED
    BY <2>1, <2>2, FreshSame
<1>3. QED
  BY <1>1, <1>2

LEMMA FreshNext ==
    ASSUME CtlInv, ActiveInv, FreshInv, [OpsNext]_allVars
    PROVE  FreshInv'
<1>1. "main" \in Procs /\ Rates \subseteq Procs
  BY DEF Procs
<1>2. CASE Controller
  <2>1. CASE RunWorkload("main")
    BY <1>1, <1>2, <2>1, FreshRun DEF Controller
  <2>2. CASE ~RunWorkload("main")
    BY <1>2, <2>2, FreshMain DEF Controller
  <2>3. QED
    BY <2>1, <2>2
<1>3. ASSUME NEW r \in Rates, RunWorkload(r), Record(r) PROVE FreshInv'
  BY <1>1, <1>3, FreshRun
<1>4. ASSUME NEW r \in Rates, RunControlOps(r) PROVE FreshInv'
  BY <1>4, FreshRoutine
<1>5. ASSUME NEW r \in Rates, ReceiveValue(r) PROVE FreshInv'
  <2>1. UNCHANGED <<proc, objs, seen, counter, phase, rated, topped, lost>> /\ rated
    BY <1>5 DEF ReceiveValue, vars, numbering
  <2>2. QED
    BY <2>1, FreshSame
<1>6. ASSUME NEW x \in DOMAIN objs, Move(x), UNCHANGED ctl PROVE FreshInv'
  <2>1. UNCHANGED <<proc, seen, counter, phase, rated, topped, lost, round>>
    BY <1>6 DEF Move, ctl, numbering
  <2>2. DOMAIN objs' = DOMAIN objs
    BY <1>6, MoveStep
  <2>3. QED
    BY <2>1, <2>2, FreshSame
<1>7. CASE RuntimeOver /\ UNCHANGED ctl
  <2>1. UNCHANGED <<proc, objs, seen, counter, phase, rated, topped, lost, round>>
    BY <1>7 DEF RuntimeOver, ctl, numbering
  <2>2. QED
    BY <2>1, FreshSame
<1>8. CASE \/ UNCHANGED allVars
           \/ \E x \in ScalePods : RunScalePod(x)
           \/ InformersSync \/ DeleteBenchmark
  <2>1. UNCHANGED <<proc, objs, counter, phase, rated, topped, lost, round>>
    BY <1>8 DEF allVars, vars, ctl, numbering, RunScalePod, InformersSync, DeleteBenchmark
  <2>2. seen' = seen \/ seen' = objs
    BY <1>8 DEF allVars, vars, RunScalePod, InformersSync, DeleteBenchmark
  <2>3. QED
    BY <2>1, <2>2, FreshSame
<1>9. CASE Collect
  <2>1. UNCHANGED <<proc, seen, counter, phase, rated, topped, lost, round>>
    BY <1>9 DEF Collect, numbering
  <2>2. DOMAIN objs' \subseteq DOMAIN objs
    BY <1>9 DEF Collect
  <2>3. QED
    BY <2>1, <2>2, FreshSame
<1>10. QED
  BY <1>2, <1>3, <1>4, <1>5, <1>6, <1>7, <1>8, <1>9 DEF OpsNext, Routine

LEMMA FreshInit == Init /\ CtlInit => FreshInv
<1> SUFFICES ASSUME Init, CtlInit PROVE FreshInv
  OBVIOUS
<1>1. /\ proc = [p \in Procs |-> IF p = "main" THEN Enter(1) ELSE Idle]
      /\ objs = << >> /\ seen = << >> /\ phase = "starting" /\ rated = FALSE
  BY DEF Init
<1>2. TypeInv
  BY InitTypes
<1>3. \A r \in Rates : round[r].stage = "wait"
  BY DEF CtlInit, Waiting
<1>4. Handed = {} /\ IsFiniteSet(DOMAIN seen)
  BY <1>1, FS_EmptySet DEF Handed
<1>5. Enter(1).pc = "run" /\ Idle.pc = "idle" /\ Idle.todo = {}
  BY EnterFields, IdleFields
<1>6. PlaceInv
  BY <1>1, <1>3, <1>5 DEF PlaceInv, PlaceAt, InRun
<1>7. NumberInv
  BY <1>4 DEF NumberInv, NewAt, Standing
<1>8. QED
  BY <1>2, <1>4, <1>6, <1>7 DEF FreshInv

(***************************************************************************)
(* For any workloads, rates, values and failures: the name that            *)
(* RunWorkload makes of the number it reads back from workloadInstance     *)
(* (actions.go:131-136) is not one it has used, although rates share the   *)
(* types, their goroutines the map without a lock, and Reconcile tops up   *)
(* the same workloads at the same time.  The exceptions are those of       *)
(* FreshNames: an object of ReconcileInstances, and a type with a lost     *)
(* update.                                                                 *)
(***************************************************************************)
THEOREM InstancesGetNewNames == OpsSpec => FreshNames
<1> DEFINE I == CtlInv /\ ActiveInv /\ FreshInv
           New == \A p \in Procs :
                     /\ proc[p].pc = "stored" /\ proc'[p].pc = "run"
                     /\ proc'[p].left < proc[p].left
                     /\ Template[proc[p].file].numbered
                     /\ TypeOf(p) \notin lost
                     => Target(p) \notin DOMAIN objs \ topped
<1>1. Init /\ CtlInit => I
  BY CtlInit1, FreshInit
<1>2. I /\ [OpsNext]_allVars => I'
  BY CtlNext, FreshNext
<1>3. I => New
  <2> SUFFICES ASSUME I, NEW p \in Procs, proc[p].pc = "stored",
                      Template[proc[p].file].numbered, TypeOf(p) \notin lost,
                      Target(p) \in Handed
               PROVE  FALSE
    BY DEF Handed
  <2> DEFINE x == Target(p)
             n == counter[TypeOf(p)]
  <2>1. TypeInv /\ NewAt(proc[p], Handed, counter, lost)
    BY DEF FreshInv, NumberInv
  <2>2. /\ proc[p].i \in Entries /\ proc[p].file \in Files(proc[p].i)
        /\ ~Template[proc[p].file].parser /\ n \in Nat
    BY <2>1, TargetOK
  <2>3. x[1] = proc[p].file /\ x[2] = proc[p].i /\ x[3] = n
    BY <2>2, NameFacts DEF Target
  <2>4. Numbered(x)
    BY <2>2, <2>3 DEF Numbered
  <2>5. x[3] < n
    BY <2>1, <2>3, <2>4 DEF NewAt, TypeOf
  <2>6. QED
    BY <2>2, <2>3, <2>5
<1>4. I /\ [OpsNext]_allVars => [New]_allVars
  BY <1>3
<1>5. QED
  BY <1>1, <1>2, <1>4, OpsSafety, PTL DEF FreshNames
=============================================================================
