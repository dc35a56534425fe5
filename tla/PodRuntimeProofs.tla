-------------------------- MODULE PodRuntimeProofs --------------------------
(***************************************************************************)
(* Theorems about PodRuntime: for any pods, any containers of the workload *)
(* and any number of crashes and lost requests.                            *)
(***************************************************************************)
EXTENDS PodRuntime, FiniteSetTheorems, SequenceTheorems, TLAPS

States == {"waiting", "running", "crashed", "done"}

TypeInv ==
    /\ scenario \in Scenarios
    /\ DOMAIN con = Pods /\ DOMAIN reported = Pods /\ DOMAIN parsed = Pods
    /\ DOMAIN script = Pods
    /\ \A p \in Pods : DOMAIN script[p] = {"sync"} \cup Helpers(p)
    /\ sink \in Seq(Range(sink))
-----------------------------------------------------------------------------
(***************************************************************************)
(* A pod p that reports a result: the states cs of its containers, its     *)
(* status rs at the API server, where the scripts of the parser (sp) and   *)
(* of the output container (so) are, and what the parser has written.      *)
(***************************************************************************)
StatusInv(p, cs, rs) ==
    /\ cs \in [Containers(p) -> States]
    /\ rs.con \in [Containers(p) -> States] \/ DOMAIN rs.con = {}
    /\ \A c \in DOMAIN rs.con : rs.con[c] = "done" => cs[c] = "done"

\* A status has all the containers, or none of them if it was never reported.
WaitInv(p, rs, s, arg) ==
    s.pc = "wait" =>
        \/ s.needed = 0 - arg
        \/ s.needed = Cardinality(Containers(p)) - arg /\ DOMAIN rs.con = Containers(p)

\* The scripts passed their counts one after the other.
OrderInv(p, cs, sp, so, out) ==
    /\ sp.pc \in {"work", "done"} => \A m \in Mains(p) : cs[m] = "done"
    /\ sp.pc = "done" => out = "result"
    /\ so.pc \in {"work", "done"} => sp.pc = "done"

PodInv(p, cs, rs, sp, so, out, excused) ==
    /\ StatusInv(p, cs, rs)
    /\ cs["parser"] = "done" => sp.pc = "done"
    /\ cs["output"] = "done" => so.pc = "done"
    /\ WaitInv(p, rs, sp, 1) /\ WaitInv(p, rs, so, 2)
    /\ excused \/ OrderInv(p, cs, sp, so, out)

Excused(p) == p \in hasty \cup misled \/ Cardinality(Mains(p)) > 1

ReportingPods == {p \in Pods : spec[p].files}

PodsInv ==
    \A p \in ReportingPods :
        PodInv(p, con[p], reported[p], script[p]["parser"], script[p]["output"], parsed[p],
               Excused(p))

SinkInv ==
    \A i \in DOMAIN sink :
        sink[i].from \in Pods => sink[i].data \in {<<"result">>, <<>>} \/ Excused(sink[i].from)
-----------------------------------------------------------------------------
(***************************************************************************)
(* Counting: if not all, or all but one, of the containers run and none is *)
(* waiting, one or two of them have ended.                                 *)
(***************************************************************************)
LEMMA SomeDone ==
    ASSUME NEW S, IsFiniteSet(S), NEW f \in [S -> {"running", "done"}],
           Cardinality({c \in S : f[c] = "running"}) <= Cardinality(S) - 1
    PROVE  \E c \in S : f[c] = "done"
<1>1. SUFFICES ASSUME \A c \in S : f[c] # "done" PROVE FALSE
  OBVIOUS
<1>2. {c \in S : f[c] = "running"} = S
  BY <1>1
<1>3. Cardinality(S) \in Nat
  BY FS_CardinalityType
<1>4. QED
  BY <1>2, <1>3

LEMMA TwoDone ==
    ASSUME NEW S, IsFiniteSet(S), NEW f \in [S -> {"running", "done"}],
           Cardinality({c \in S : f[c] = "running"}) <= Cardinality(S) - 2
    PROVE  \E c, d \in S : c # d /\ f[c] = "done" /\ f[d] = "done"
<1> DEFINE R == {c \in S : f[c] = "running"}
<1>1. /\ IsFiniteSet(R) /\ Cardinality(R) \in Nat /\ Cardinality(S) \in Nat
      /\ Cardinality(R) <= Cardinality(S) - 2
  BY FS_Subset, FS_CardinalityType
<1>2. Cardinality(R) <= Cardinality(S) - 1
  BY <1>1
<1>3. PICK c \in S : f[c] = "done"
  BY <1>2, SomeDone
<1>4. SUFFICES ASSUME \A d \in S : f[d] = "done" => d = c PROVE FALSE
  BY <1>3
<1>5. R = S \ {c}
  BY <1>3, <1>4
<1>6. Cardinality(R) = Cardinality(S) - 1
  BY <1>5, FS_RemoveElement
<1>7. QED
  BY <1>1, <1>6

(***************************************************************************)
(* The containers of a pod that reports a result.                          *)
(***************************************************************************)
LEMMA PodFacts ==
    ASSUME scenario \in Scenarios, NEW p \in ReportingPods
    PROVE  /\ p \in Pods /\ Helpers(p) = {"parser", "output"}
           /\ Containers(p) = Mains(p) \cup {"parser", "output"}
           /\ "parser" \notin Mains(p) /\ "output" \notin Mains(p)
           /\ IsFiniteSet(Mains(p)) /\ IsFiniteSet(Containers(p))
           /\ Cardinality(Containers(p)) \in Nat /\ Cardinality(Mains(p)) \in Nat
<1>1. p \in Pods /\ Helpers(p) = {"parser", "output"}
  BY DEF ReportingPods, Helpers
<1>2. Containers(p) = Mains(p) \cup {"parser", "output"}
  BY <1>1 DEF Containers
<1>3. /\ "parser" \notin Mains(p) /\ "output" \notin Mains(p) /\ IsFiniteSet(Mains(p))
  BY <1>1, ScenarioAssumption DEF Pods, Mains, spec
<1>4. IsFiniteSet({"parser", "output"})
  <2>1. IsFiniteSet({"parser"})
    BY FS_Singleton
  <2>2. IsFiniteSet({"parser"} \cup {"output"})
    BY <2>1, FS_AddElement
  <2>3. {"parser"} \cup {"output"} = {"parser", "output"}
    OBVIOUS
  <2>4. QED
    BY <2>2, <2>3
<1>5. IsFiniteSet(Containers(p))
  BY <1>2, <1>3, <1>4, FS_Union
<1>6. QED
  BY <1>1, <1>2, <1>3, <1>5, FS_CardinalityType

LEMMA OneMain ==
    ASSUME NEW S, IsFiniteSet(S), Cardinality(S) <= 1, NEW c \in S, NEW d \in S
    PROVE  c = d
<1>1. SUFFICES ASSUME c # d PROVE FALSE
  OBVIOUS
<1>2. Cardinality(S) \in Nat
  BY FS_CardinalityType
<1>3. /\ IsFiniteSet(S \ {c}) /\ Cardinality(S \ {c}) = Cardinality(S) - 1
      /\ Cardinality(S \ {c}) \in Nat
  BY FS_RemoveElement, FS_CardinalityType
<1>4. Cardinality(S \ {c}) = 0
  BY <1>2, <1>3
<1>5. S \ {c} = {}
  BY <1>3, <1>4, FS_EmptySet
<1>6. QED
  BY <1>1, <1>5

(***************************************************************************)
(* countdone.sh: the parser passes its count when the workload's container *)
(* has ended, the output container when the parser has.  Its own container *)
(* has not ended while it waits.                                           *)
(***************************************************************************)
LEMMA ParserPasses ==
    ASSUME scenario \in Scenarios, NEW p \in ReportingPods, Cardinality(Mains(p)) <= 1,
           NEW cs, NEW rs, NEW sp, NEW so, NEW out, PodInv(p, cs, rs, sp, so, out, FALSE),
           sp.pc = "wait", \A c \in DOMAIN rs.con : rs.con[c] \notin {"waiting", "crashed"},
           Cardinality({c \in DOMAIN rs.con : rs.con[c] = "running"}) <= sp.needed
    PROVE  \A m \in Mains(p) : cs[m] = "done"
<1> DEFINE R == {c \in DOMAIN rs.con : rs.con[c] = "running"}
           S == Containers(p)
           f == rs.con
<1>1. /\ S = Mains(p) \cup {"parser", "output"} /\ IsFiniteSet(S) /\ IsFiniteSet(Mains(p))
      /\ Cardinality(S) \in Nat
  BY PodFacts
<1>2. /\ StatusInv(p, cs, rs)
      /\ cs["parser"] # "done"
      /\ cs["output"] = "done" => so.pc = "done"
      /\ so.pc = "done" => sp.pc = "done"
  BY DEF PodInv, OrderInv
<1>3. DOMAIN f \subseteq S
  BY <1>2 DEF StatusInv
<1>4. IsFiniteSet(R) /\ Cardinality(R) \in Nat
  BY <1>1, <1>3, FS_Subset, FS_CardinalityType
<1>5. sp.needed = Cardinality(S) - 1 /\ DOMAIN f = S
  BY <1>4 DEF PodInv, WaitInv
<1>6. f \in [S -> {"running", "done"}]
  BY <1>1, <1>2, <1>5 DEF StatusInv, States
<1>7. Cardinality({c \in S : f[c] = "running"}) <= Cardinality(S) - 1
  BY <1>5
<1> HIDE DEF f, S
<1>8. PICK c \in S : f[c] = "done"
  BY <1>1, <1>6, <1>7, SomeDone
<1>9. cs[c] = "done" /\ c \in Mains(p)
  BY <1>1, <1>2, <1>5, <1>8 DEF StatusInv, f
<1>10. QED
  BY <1>1, <1>9, OneMain

LEMMA OutputPasses ==
    ASSUME scenario \in Scenarios, NEW p \in ReportingPods, Cardinality(Mains(p)) <= 1,
           NEW cs, NEW rs, NEW sp, NEW so, NEW out, PodInv(p, cs, rs, sp, so, out, FALSE),
           so.pc = "wait", \A c \in DOMAIN rs.con : rs.con[c] \notin {"waiting", "crashed"},
           Cardinality({c \in DOMAIN rs.con : rs.con[c] = "running"}) <= so.needed
    PROVE  sp.pc = "done"
<1> DEFINE R == {c \in DOMAIN rs.con : rs.con[c] = "running"}
           S == Containers(p)
           f == rs.con
<1>1. /\ S = Mains(p) \cup {"parser", "output"} /\ IsFiniteSet(S) /\ IsFiniteSet(Mains(p))
      /\ Cardinality(S) \in Nat
  BY PodFacts
<1>2. /\ StatusInv(p, cs, rs)
      /\ cs["output"] # "done"
      /\ cs["parser"] = "done" => sp.pc = "done"
  BY DEF PodInv
<1>3. DOMAIN f \subseteq S
  BY <1>2 DEF StatusInv
<1>4. IsFiniteSet(R) /\ Cardinality(R) \in Nat
  BY <1>1, <1>3, FS_Subset, FS_CardinalityType
<1>5. so.needed = Cardinality(S) - 2 /\ DOMAIN f = S
  BY <1>4 DEF PodInv, WaitInv
<1>6. f \in [S -> {"running", "done"}]
  BY <1>1, <1>2, <1>5 DEF StatusInv, States
<1>7. Cardinality({c \in S : f[c] = "running"}) <= Cardinality(S) - 2
  BY <1>5
<1> HIDE DEF f, S
<1>8. PICK c \in S, d \in S : c # d /\ f[c] = "done" /\ f[d] = "done"
  BY <1>1, <1>6, <1>7, TwoDone
<1>9. cs[c] = "done" /\ cs[d] = "done"
  BY <1>2, <1>5, <1>8 DEF StatusInv, f
<1>10. c = "parser" \/ d = "parser"
  BY <1>1, <1>2, <1>8, <1>9, OneMain
<1>11. QED
  BY <1>2, <1>9, <1>10
-----------------------------------------------------------------------------
(***************************************************************************)
(* A step of the pod p, or of none, leaves the other pods alone.           *)
(***************************************************************************)
SamePod(q) ==
    /\ con'[q] = con[q] /\ reported'[q] = reported[q] /\ parsed'[q] = parsed[q]
    /\ script'[q]["parser"] = script[q]["parser"]
    /\ script'[q]["output"] = script[q]["output"]

NextPodInv(p) ==
    PodInv(p, con'[p], reported'[p], script'[p]["parser"], script'[p]["output"], parsed'[p],
           p \in hasty' \cup misled' \/ Cardinality(Mains(p)) > 1)

LEMMA Frame ==
    ASSUME PodsInv, scenario' = scenario, hasty \subseteq hasty', misled \subseteq misled',
           \A q \in ReportingPods : SamePod(q) \/ NextPodInv(q)
    PROVE  PodsInv'
<1>1. ASSUME NEW q \in ReportingPods PROVE NextPodInv(q)
  BY DEF PodsInv, SamePod, NextPodInv, PodInv, Excused
<1>2. /\ ReportingPods' = ReportingPods
      /\ \A q : Containers(q)' = Containers(q) /\ Mains(q)' = Mains(q)
  BY DEF ReportingPods, Pods, spec, Containers, Mains, Helpers
<1>3. QED
  BY <1>1, <1>2 DEF PodsInv, NextPodInv, PodInv, Excused, StatusInv, WaitInv, OrderInv

LEMMA SinkAdded ==
    ASSUME TypeInv, SinkInv, scenario' = scenario, hasty \subseteq hasty', misled \subseteq misled', NEW r,
           \/ sink' = sink
           \/ /\ sink' = Append(sink, r)
              /\ r.from \in Pods => r.data \in {<<"result">>, <<>>} \/ Excused(r.from)
    PROVE  sink' \in Seq(Range(sink')) /\ SinkInv'
<1>1. sink \in Seq(Range(sink))
  BY DEF TypeInv
<1>2. \A q : Excused(q) => Excused(q)'
  BY DEF Excused, Mains, spec
<1>3. Pods' = Pods
  BY DEF Pods
<1>4. CASE sink' = sink
  BY <1>1, <1>2, <1>3, <1>4 DEF SinkInv
<1>5. CASE sink' = Append(sink, r) /\ sink' # sink
  <2> DEFINE T == Range(sink) \cup {r}
             n == Len(sink) + 1
  <2>1. sink \in Seq(T) /\ r \in T
    BY <1>1, SeqMonotonic
  <2> HIDE DEF T
  <2>2. /\ sink' \in Seq(T) /\ DOMAIN sink' = 1..n /\ DOMAIN sink = 1..Len(sink)
        /\ Len(sink) \in Nat
        /\ \A i \in 1..Len(sink) : sink'[i] = sink[i]
        /\ sink'[n] = r
    BY <1>5, <2>1, AppendProperties, LenProperties
  <2>3. DOMAIN sink' = DOMAIN sink \cup {n}
    BY <2>2
  <2>4. Range(sink') = T
    BY <2>2, <2>3 DEF Range, T
  <2>5. SinkInv'
    BY <1>2, <1>3, <1>5, <2>2, <2>3 DEF SinkInv
  <2>6. QED
    BY <2>2, <2>4, <2>5
<1>6. QED
  BY <1>4, <1>5
-----------------------------------------------------------------------------
(***************************************************************************)
(* The steps of a pod's containers and scripts.                            *)
(***************************************************************************)
Inv == TypeInv /\ PodsInv /\ SinkInv

LEMMA ContainerStep ==
    ASSUME Inv, NEW p \in Pods, NEW c \in Containers(p),
           StartContainer(p, c) \/ EndContainer(p, c) \/ Crash(p, c)
    PROVE  PodsInv'
<1>1. /\ UNCHANGED <<scenario, reported, script, parsed, hasty, misled>>
      /\ \/ con[p][c] \in {"waiting", "crashed"} /\ con' = [con EXCEPT ![p][c] = "running"]
         \/ /\ c \in Mains(p) /\ con[p][c] = "running"
            /\ con' = [con EXCEPT ![p][c] = "done"] \/ con' = [con EXCEPT ![p][c] = "crashed"]
  BY DEF StartContainer, EndContainer, Crash, Unchanged
<1>2. ASSUME NEW q \in ReportingPods PROVE SamePod(q) \/ NextPodInv(q)
  <2>1. CASE q # p
    BY <1>1, <2>1 DEF SamePod, Inv, TypeInv, ReportingPods
  <2>2. CASE q = p
    <3> DEFINE cs == con[p]
               ds == con'[p]
    <3>1. /\ PodInv(p, cs, reported[p], script[p]["parser"], script[p]["output"], parsed[p],
                    Excused(p))
          /\ StatusInv(p, cs, reported[p]) /\ cs \in [Containers(p) -> States]
      BY <1>2, <2>2 DEF Inv, PodsInv, PodInv, StatusInv
    <3>2. /\ "parser" \notin Mains(p) /\ "output" \notin Mains(p)
          /\ Containers(p) = Mains(p) \cup {"parser", "output"}
      BY <1>2, <2>2, PodFacts DEF Inv, TypeInv
    <3>3. /\ \/ ds = [cs EXCEPT ![c] = "running"] /\ cs[c] \in {"waiting", "crashed"}
             \/ /\ c \in Mains(p) /\ cs[c] = "running"
                /\ ds = [cs EXCEPT ![c] = "done"] \/ ds = [cs EXCEPT ![c] = "crashed"]
      BY <1>1 DEF Inv, TypeInv
    <3> HIDE DEF cs, ds
    <3>4. /\ ds \in [Containers(p) -> States]
          /\ \A d \in Containers(p) : cs[d] = "done" => ds[d] = "done"
          /\ ds["parser"] = "done" => cs["parser"] = "done"
          /\ ds["output"] = "done" => cs["output"] = "done"
      BY <3>1, <3>2, <3>3 DEF States
    <3>5. StatusInv(p, ds, reported[p])
      BY <3>1, <3>4 DEF StatusInv
    <3>6. PodInv(p, ds, reported[p], script[p]["parser"], script[p]["output"], parsed[p],
                 Excused(p))
      BY <3>1, <3>2, <3>4, <3>5 DEF PodInv, OrderInv
    <3>7. QED
      BY <1>1, <2>2, <3>6 DEF NextPodInv, ds, Excused
  <2>3. QED
    BY <2>1, <2>2
<1>3. QED
  BY <1>1, <1>2, Frame DEF Inv

LEMMA ReportStep == ASSUME Inv, NEW p \in Pods, Report(p) PROVE PodsInv'
<1>1. /\ UNCHANGED <<scenario, con, script, parsed, hasty, misled>>
      /\ reported' = [reported EXCEPT ![p] = Status(p)]
  BY DEF Report, Unchanged
<1>2. ASSUME NEW q \in ReportingPods PROVE SamePod(q) \/ NextPodInv(q)
  <2>1. CASE q # p
    BY <1>1, <2>1 DEF SamePod, Inv, TypeInv, ReportingPods
  <2>2. CASE q = p
    <3>1. reported'[p].con = con[p]
      BY <1>1 DEF Inv, TypeInv, Status
    <3>2. PodInv(p, con[p], reported[p], script[p]["parser"], script[p]["output"], parsed[p],
                 Excused(p))
      BY <1>2, <2>2 DEF Inv, PodsInv
    <3>3. PodInv(p, con[p], reported'[p], script[p]["parser"], script[p]["output"], parsed[p],
                 Excused(p))
      BY <3>1, <3>2 DEF PodInv, StatusInv, WaitInv
    <3>4. QED
      BY <1>1, <2>2, <3>3 DEF NextPodInv, Excused
  <2>3. QED
    BY <2>1, <2>2
<1>3. QED
  BY <1>1, <1>2, Frame DEF Inv

LEMMA SyncStep == ASSUME Inv, NEW p \in Pods, Ready(p) \/ CountGroupFails(p) PROVE PodsInv'
<1>1. /\ UNCHANGED <<scenario, con, reported, parsed, hasty>> /\ misled \subseteq misled'
      /\ \E v : script' = [script EXCEPT ![p]["sync"] = v]
  BY DEF Ready, ReadyWorkload, CountGroup, CountGroupFails, NoAnswer, ReadyGroup, Release, Go, Unchanged
<1>2. ASSUME NEW q \in ReportingPods PROVE SamePod(q)
  <2>1. "parser" \in DOMAIN script[q] /\ "output" \in DOMAIN script[q]
    BY <1>2, PodFacts DEF Inv, TypeInv, ReportingPods
  <2>2. QED
    BY <1>1, <2>1 DEF SamePod, Inv, TypeInv, ReportingPods
<1>3. QED
  BY <1>1, <1>2, Frame DEF Inv

(***************************************************************************)
(* What a step of one of the two scripts does to the scripts of a pod.     *)
(***************************************************************************)
LEMMA ScriptMoves ==
    ASSUME Inv, NEW p \in ReportingPods, NEW s \in {"parser", "output"}, NEW pc, NEW needed,
           Go(p, s, pc, needed)
    PROVE  /\ script'[p][s].pc = pc /\ script'[p][s].needed = needed
           /\ \A t \in {"parser", "output"} : t # s => script'[p][t] = script[p][t]
           /\ \A q \in ReportingPods : q # p => script'[q] = script[q]
<1>1. "parser" \in DOMAIN script[p] /\ "output" \in DOMAIN script[p]
  BY PodFacts DEF Inv, TypeInv, ReportingPods
<1>2. script' = [script EXCEPT ![p][s] = [pc |-> pc, needed |-> needed]]
  BY DEF Go
<1>3. p \in DOMAIN script /\ ReportingPods \subseteq DOMAIN script
  BY DEF Inv, TypeInv, ReportingPods
<1>4. QED
  BY <1>1, <1>2, <1>3

LEMMA CountStep ==
    ASSUME Inv, NEW p \in ReportingPods, NEW s \in {"parser", "output"},
           CountContainers(p, s) \/ CountContainersFails(p, s)
    PROVE  PodsInv'
<1> PICK n : /\ \/ n = Cardinality(DOMAIN reported[p].con) - CountdoneArgument(s)
                \/ n = 0 - CountdoneArgument(s)
             /\ Go(p, s, "wait", n)
  BY DEF CountContainers, CountContainersFails
<1>1. /\ UNCHANGED <<scenario, con, reported, parsed, hasty>> /\ misled \subseteq misled'
      /\ script[p][s].pc = "start" /\ Go(p, s, "wait", n)
  BY DEF CountContainers, CountContainersFails, NoAnswer
<1>2. /\ script'[p][s].pc = "wait" /\ script'[p][s].needed = n
      /\ \A t \in {"parser", "output"} : t # s => script'[p][t] = script[p][t]
      /\ \A q \in ReportingPods : q # p => script'[q] = script[q]
  BY <1>1, ScriptMoves
<1>3. PodInv(p, con[p], reported[p], script[p]["parser"], script[p]["output"], parsed[p],
             Excused(p))
  BY DEF Inv, PodsInv
<1>4. WaitInv(p, reported[p], script'[p][s], CountdoneArgument(s))
  <2>0. CASE n = 0 - CountdoneArgument(s)
    BY <1>2, <2>0 DEF WaitInv
  <2>1. CASE n # 0 - CountdoneArgument(s) /\ DOMAIN reported[p].con = {}
    BY <1>2, <2>1, FS_EmptySet DEF WaitInv, CountdoneArgument
  <2>2. CASE n # 0 - CountdoneArgument(s) /\ DOMAIN reported[p].con = Containers(p)
    BY <1>2, <2>2 DEF WaitInv
  <2>3. QED
    BY <1>3, <2>0, <2>1, <2>2 DEF PodInv, StatusInv
<1>5. PodInv(p, con[p], reported[p], script'[p]["parser"], script'[p]["output"], parsed[p],
             Excused(p))
  <2>1. CASE s = "parser"
    <3>1. WaitInv(p, reported[p], script'[p]["parser"], 1)
      BY <1>4, <2>1 DEF CountdoneArgument
    <3>2. QED
      BY <1>1, <1>2, <1>3, <2>1, <3>1 DEF PodInv, OrderInv
  <2>2. CASE s = "output"
    <3>1. WaitInv(p, reported[p], script'[p]["output"], 2)
      BY <1>4, <2>2 DEF CountdoneArgument
    <3>2. QED
      BY <1>1, <1>2, <1>3, <2>2, <3>1 DEF PodInv, OrderInv
  <2>3. QED
    BY <2>1, <2>2
<1>6. ASSUME NEW q \in ReportingPods PROVE SamePod(q) \/ NextPodInv(q)
  <2>1. CASE q = p
    <3>1. Excused(p) => p \in hasty' \cup misled' \/ Cardinality(Mains(p)) > 1
      BY <1>1 DEF Excused
    <3>2. QED
      BY <1>1, <1>5, <2>1, <3>1 DEF NextPodInv, PodInv
  <2>2. CASE q # p
    BY <1>1, <1>2, <2>2 DEF SamePod
  <2>3. QED
    BY <2>1, <2>2
<1>7. QED
  BY <1>1, <1>6, Frame DEF Inv

LEMMA CountdoneStep ==
    ASSUME Inv, NEW p \in ReportingPods, NEW s \in {"parser", "output"}, Countdone(p, s)
    PROVE  PodsInv'
<1>1. /\ UNCHANGED <<scenario, con, reported, parsed>>
      /\ script[p][s].pc = "wait" /\ Go(p, s, "work", 0)
      /\ Running(p) <= script[p][s].needed
      /\ hasty' = IF Unsettled(p) THEN hasty \cup {p} ELSE hasty
      /\ misled' = misled
  BY DEF Countdone
<1>2. /\ script'[p][s].pc = "work"
      /\ \A t \in {"parser", "output"} : t # s => script'[p][t] = script[p][t]
      /\ \A q \in ReportingPods : q # p => script'[q] = script[q]
  BY <1>1, ScriptMoves
<1> DEFINE e == p \in hasty' \cup misled' \/ Cardinality(Mains(p)) > 1
<1>3. PodInv(p, con[p], reported[p], script[p]["parser"], script[p]["output"], parsed[p],
             Excused(p))
  BY DEF Inv, PodsInv
<1>4. ASSUME ~e
      PROVE  OrderInv(p, con[p], script'[p]["parser"], script'[p]["output"], parsed[p])
  <2>1. ~Unsettled(p) /\ p \notin hasty \cup misled
    BY <1>1, <1>4
  <2>2. Cardinality(Mains(p)) <= 1
    BY <1>4, PodFacts DEF Inv, TypeInv
  <2>3. \A c \in DOMAIN reported[p].con : reported[p].con[c] \notin {"waiting", "crashed"}
    BY <2>1 DEF Unsettled
  <2>4. ~Excused(p)
    BY <2>1, <1>4 DEF Excused
  <2>5. /\ PodInv(p, con[p], reported[p], script[p]["parser"], script[p]["output"], parsed[p],
                  FALSE)
        /\ OrderInv(p, con[p], script[p]["parser"], script[p]["output"], parsed[p])
    BY <1>3, <2>4 DEF PodInv
  <2>6. Cardinality({c \in DOMAIN reported[p].con : reported[p].con[c] = "running"})
           <= script[p][s].needed
    BY <1>1 DEF Running
  <2>7. scenario \in Scenarios
    BY DEF Inv, TypeInv
  <2>8. CASE s = "parser"
    <3>1. \A m \in Mains(p) : con[p][m] = "done"
      <4> DEFINE cs == con[p]
                 rs == reported[p]
                 sp == script[p]["parser"]
                 so == script[p]["output"]
                 out == parsed[p]
      <4>1. /\ PodInv(p, cs, rs, sp, so, out, FALSE) /\ sp.pc = "wait"
            /\ \A c \in DOMAIN rs.con : rs.con[c] \notin {"waiting", "crashed"}
            /\ Cardinality({c \in DOMAIN rs.con : rs.con[c] = "running"}) <= sp.needed
        BY <1>1, <2>3, <2>5, <2>6, <2>8
      <4> HIDE DEF cs, rs, sp, so, out
      <4>2. \A m \in Mains(p) : cs[m] = "done"
        BY <2>2, <2>7, <4>1, ParserPasses
      <4>3. QED
        BY <4>2 DEF cs, sp
    <3>2. QED
      BY <1>1, <1>2, <2>5, <2>8, <3>1 DEF OrderInv
  <2>9. CASE s = "output"
    <3>1. script[p]["parser"].pc = "done"
      <4> DEFINE cs == con[p]
                 rs == reported[p]
                 sp == script[p]["parser"]
                 so == script[p]["output"]
                 out == parsed[p]
      <4>1. /\ PodInv(p, cs, rs, sp, so, out, FALSE) /\ so.pc = "wait"
            /\ \A c \in DOMAIN rs.con : rs.con[c] \notin {"waiting", "crashed"}
            /\ Cardinality({c \in DOMAIN rs.con : rs.con[c] = "running"}) <= so.needed
        BY <1>1, <2>3, <2>5, <2>6, <2>9
      <4> HIDE DEF cs, rs, sp, so, out
      <4>2. sp.pc = "done"
        BY <2>2, <2>7, <4>1, OutputPasses
      <4>3. QED
        BY <4>2 DEF cs, sp
    <3>2. QED
      BY <1>1, <1>2, <2>5, <2>9, <3>1 DEF OrderInv
  <2>10. QED
    BY <2>8, <2>9
<1>5. PodInv(p, con[p], reported[p], script'[p]["parser"], script'[p]["output"], parsed[p], e)
  BY <1>1, <1>2, <1>3, <1>4 DEF PodInv, WaitInv
<1>6. ASSUME NEW q \in ReportingPods PROVE SamePod(q) \/ NextPodInv(q)
  BY <1>1, <1>2, <1>5 DEF SamePod, NextPodInv
<1>7. QED
  BY <1>1, <1>6, Frame DEF Inv

\* A request that failed: the pod is excused from now on.
LEMMA CountdoneFailsStep ==
    ASSUME Inv, NEW p \in ReportingPods, NEW s \in {"parser", "output"}, CountdoneFails(p, s)
    PROVE  PodsInv'
<1>1. /\ UNCHANGED <<scenario, con, reported, parsed, hasty>>
      /\ script[p][s].pc = "wait" /\ Go(p, s, "work", 0)
      /\ misled' = misled \cup {p}
  BY DEF CountdoneFails, NoAnswer
<1>2. /\ script'[p][s].pc = "work"
      /\ \A t \in {"parser", "output"} : t # s => script'[p][t] = script[p][t]
      /\ \A q \in ReportingPods : q # p => script'[q] = script[q]
  BY <1>1, ScriptMoves
<1>3. PodInv(p, con[p], reported[p], script[p]["parser"], script[p]["output"], parsed[p],
             Excused(p))
  BY DEF Inv, PodsInv
<1>4. PodInv(p, con[p], reported[p], script'[p]["parser"], script'[p]["output"], parsed[p], TRUE)
  BY <1>1, <1>2, <1>3 DEF PodInv, WaitInv
<1>5. ASSUME NEW q \in ReportingPods PROVE SamePod(q) \/ NextPodInv(q)
  <2>1. CASE q = p
    BY <1>1, <1>4, <2>1 DEF NextPodInv, PodInv
  <2>2. CASE q # p
    BY <1>1, <1>2, <2>2 DEF SamePod
  <2>3. QED
    BY <2>1, <2>2
<1>6. QED
  BY <1>1, <1>5, Frame DEF Inv

LEMMA ParseStep == ASSUME Inv, NEW p \in ReportingPods, Parse(p) PROVE PodsInv'
<1>1. /\ UNCHANGED <<scenario, reported, hasty, misled>> /\ script[p]["parser"].pc = "work"
      /\ Go(p, "parser", "done", 0)
      /\ con' = [con EXCEPT ![p]["parser"] = "done"]
      /\ parsed' = [parsed EXCEPT ![p] = File(p)]
  BY DEF Parse, Unchanged
<1>2. /\ script'[p]["parser"].pc = "done" /\ script'[p]["output"] = script[p]["output"]
      /\ \A q \in ReportingPods : q # p => script'[q] = script[q]
  BY <1>1, ScriptMoves
<1> DEFINE cs == con[p]
           ds == con'[p]
<1>3. /\ PodInv(p, cs, reported[p], script[p]["parser"], script[p]["output"], parsed[p],
                Excused(p))
      /\ StatusInv(p, cs, reported[p]) /\ cs \in [Containers(p) -> States]
  BY DEF Inv, PodsInv, PodInv, StatusInv
<1>4. /\ Containers(p) = Mains(p) \cup {"parser", "output"}
      /\ "parser" \notin Mains(p) /\ p \in DOMAIN con /\ p \in DOMAIN parsed
      /\ ReportingPods \subseteq DOMAIN con /\ ReportingPods \subseteq DOMAIN parsed
  BY PodFacts DEF Inv, TypeInv, ReportingPods
<1>5. ds = [cs EXCEPT !["parser"] = "done"] /\ parsed'[p] = File(p)
  BY <1>1, <1>4
<1>6. ~Excused(p) => (\A m \in Mains(p) : cs[m] = "done") /\ File(p) = "result"
  <2>1. ~Excused(p) => \A m \in Mains(p) : cs[m] = "done"
    BY <1>1, <1>3 DEF PodInv, OrderInv
  <2>2. (\A m \in Mains(p) : cs[m] = "done") => File(p) = "result"
    BY DEF File
  <2>3. QED
    BY <2>1, <2>2
<1> HIDE DEF cs, ds
<1>7. /\ ds \in [Containers(p) -> States] /\ ds["output"] = cs["output"]
      /\ \A d \in Containers(p) : cs[d] = "done" => ds[d] = "done"
  BY <1>3, <1>4, <1>5 DEF States
<1>8. StatusInv(p, ds, reported[p])
  BY <1>3, <1>7 DEF StatusInv
<1>9. PodInv(p, ds, reported[p], script'[p]["parser"], script'[p]["output"], parsed'[p],
             Excused(p))
  BY <1>2, <1>3, <1>4, <1>5, <1>6, <1>7, <1>8 DEF PodInv, OrderInv, WaitInv
<1>10. ASSUME NEW q \in ReportingPods PROVE SamePod(q) \/ NextPodInv(q)
  <2>1. CASE q = p
    BY <1>1, <1>9, <2>1 DEF NextPodInv, Excused, ds
  <2>2. CASE q # p
    BY <1>1, <1>2, <1>4, <2>2 DEF SamePod
  <2>3. QED
    BY <2>1, <2>2
<1>11. QED
  BY <1>1, <1>10, Frame DEF Inv

LEMMA SendStep == ASSUME Inv, NEW p \in ReportingPods, SendResult(p) PROVE PodsInv'
<1>1. /\ UNCHANGED <<scenario, reported, parsed, hasty, misled>> /\ script[p]["output"].pc = "work"
      /\ Go(p, "output", "done", 0)
      /\ con' = [con EXCEPT ![p]["output"] = "done"]
  BY DEF SendResult, Unchanged
<1>2. /\ script'[p]["output"].pc = "done" /\ script'[p]["parser"] = script[p]["parser"]
      /\ \A q \in ReportingPods : q # p => script'[q] = script[q]
  BY <1>1, ScriptMoves
<1> DEFINE cs == con[p]
           ds == con'[p]
<1>3. /\ PodInv(p, cs, reported[p], script[p]["parser"], script[p]["output"], parsed[p],
                Excused(p))
      /\ StatusInv(p, cs, reported[p]) /\ cs \in [Containers(p) -> States]
  BY DEF Inv, PodsInv, PodInv, StatusInv
<1>4. /\ Containers(p) = Mains(p) \cup {"parser", "output"}
      /\ "output" \notin Mains(p) /\ p \in DOMAIN con /\ ReportingPods \subseteq DOMAIN con
  BY PodFacts DEF Inv, TypeInv, ReportingPods
<1>5. ds = [cs EXCEPT !["output"] = "done"]
  BY <1>1, <1>4
<1> HIDE DEF cs, ds
<1>6. /\ ds \in [Containers(p) -> States] /\ ds["parser"] = cs["parser"]
      /\ \A d \in Containers(p) : cs[d] = "done" => ds[d] = "done"
  BY <1>3, <1>4, <1>5 DEF States
<1>7. StatusInv(p, ds, reported[p])
  BY <1>3, <1>6 DEF StatusInv
<1>8. PodInv(p, ds, reported[p], script'[p]["parser"], script'[p]["output"], parsed[p],
             Excused(p))
  BY <1>1, <1>2, <1>3, <1>4, <1>6, <1>7 DEF PodInv, OrderInv, WaitInv
<1>9. ASSUME NEW q \in ReportingPods PROVE SamePod(q) \/ NextPodInv(q)
  <2>1. CASE q = p
    BY <1>1, <1>8, <2>1 DEF NextPodInv, Excused, ds
  <2>2. CASE q # p
    BY <1>1, <1>2, <1>4, <2>2 DEF SamePod
  <2>3. QED
    BY <2>1, <2>2
<1>10. QED
  BY <1>1, <1>9, Frame DEF Inv

(***************************************************************************)
(* What a pod sends, and that the controller's requests are not a pod's.   *)
(***************************************************************************)
LEMMA SentStep ==
    ASSUME Inv, NEW p \in ReportingPods, SendResult(p)
    PROVE  sink' \in Seq(Range(sink')) /\ SinkInv'
<1>1. /\ script[p]["output"].pc = "work" /\ UNCHANGED <<scenario, hasty, misled>>
      /\ \/ sink' = sink
         \/ \E d \in {<<parsed[p]>>, <<>>} :
               sink' = Append(sink, [from |-> p, to |-> "workloads", data |-> d])
  BY DEF SendResult, Lost, Handle, Unchanged
<1>2. Excused(p) \/ parsed[p] = "result"
  BY <1>1 DEF Inv, PodsInv, PodInv, OrderInv
<1>3. CASE sink' = sink
  BY <1>1, <1>3, SinkAdded DEF Inv
<1>4. ASSUME NEW d \in {<<parsed[p]>>, <<>>},
             sink' = Append(sink, [from |-> p, to |-> "workloads", data |-> d])
      PROVE  sink' \in Seq(Range(sink')) /\ SinkInv'
  <2> DEFINE r == [from |-> p, to |-> "workloads", data |-> d]
  <2>1. r.from = p /\ r.data = d /\ sink' = Append(sink, r)
    BY <1>4
  <2> HIDE DEF r
  <2>2. r.from \in Pods => r.data \in {<<"result">>, <<>>} \/ Excused(r.from)
    BY <1>2, <2>1
  <2>3. QED
    BY <1>1, <2>1, <2>2, SinkAdded DEF Inv
<1>5. QED
  BY <1>1, <1>3, <1>4

LEMMA CallStep ==
    ASSUME Inv, NEW c \in DOMAIN scenario.calls,
           NextOutput(c) \/ HttpPost(c) \/ HttpPostFails(c)
    PROVE  Inv'
<1>1. /\ UNCHANGED <<scenario, con, reported, script, parsed, hasty, misled>>
      /\ \/ sink' = sink
         \/ \E t, d : sink' = Append(sink, [from |-> c, to |-> t, data |-> d])
  BY DEF NextOutput, HttpPost, HttpPostFails, Handle, Lost, podVars
<1>2. c \notin Pods
  BY ScenarioAssumption DEF Pods, Inv, TypeInv
<1>3. sink' \in Seq(Range(sink')) /\ SinkInv'
  <2>1. CASE sink' = sink
    BY <1>1, <2>1, SinkAdded DEF Inv
  <2>2. ASSUME NEW t, NEW d, sink' = Append(sink, [from |-> c, to |-> t, data |-> d])
        PROVE  sink' \in Seq(Range(sink')) /\ SinkInv'
    <3> DEFINE r == [from |-> c, to |-> t, data |-> d]
    <3>1. r.from = c /\ sink' = Append(sink, r)
      BY <2>2
    <3> HIDE DEF r
    <3>2. QED
      BY <1>1, <1>2, <3>1, SinkAdded DEF Inv
  <2>3. QED
    BY <1>1, <2>1, <2>2
<1>4. PodsInv'
  <2>1. \A q \in ReportingPods : SamePod(q)
    BY <1>1 DEF SamePod
  <2>2. QED
    BY <1>1, <2>1, Frame DEF Inv
<1>5. TypeInv'
  BY <1>1, <1>3 DEF Inv, TypeInv, Pods, Helpers, spec
<1>6. QED
  BY <1>3, <1>4, <1>5 DEF Inv

LEMMA PodStep ==
    ASSUME Inv, NEW p \in Pods,
           \/ Make(p) \/ Kubelet(p) \/ Report(p) \/ Ready(p) \/ CountGroupFails(p)
           \/ \E c \in Containers(p) : Crash(p, c)
    PROVE  Inv'
<1>1. UNCHANGED <<scenario, parsed, hasty, sink>> /\ misled \subseteq misled'
  BY DEF Make, Kubelet, CompleteInit, StartContainer, EndContainer, Report, Crash, Ready,
     ReadyWorkload, CountGroup, CountGroupFails, NoAnswer, ReadyGroup, Unchanged
<1>2. SinkInv' /\ sink' \in Seq(Range(sink'))
  BY <1>1, SinkAdded DEF Inv
<1>3. TypeInv'
  <2>1. /\ DOMAIN con' = DOMAIN con /\ DOMAIN reported' = DOMAIN reported
        /\ DOMAIN script' = DOMAIN script
        /\ \A q \in DOMAIN script : DOMAIN script'[q] = DOMAIN script[q]
    BY DEF Make, Kubelet, CompleteInit, StartContainer, EndContainer, Report, Crash, Ready,
       ReadyWorkload, CountGroup, CountGroupFails, NoAnswer, ReadyGroup, Release, Go, Unchanged
  <2>2. QED
    BY <1>1, <1>2, <2>1 DEF Inv, TypeInv, Pods, Helpers, spec
<1>4. PodsInv'
  <2>1. CASE Make(p) \/ CompleteInit(p)
    <3>1. UNCHANGED <<con, reported, script, parsed, hasty, misled>>
      BY <2>1 DEF Make, CompleteInit, Unchanged
    <3>2. \A q \in ReportingPods : SamePod(q)
      BY <3>1 DEF SamePod
    <3>3. QED
      BY <1>1, <3>1, <3>2, Frame DEF Inv
  <2>2. CASE \E c \in Containers(p) :
                StartContainer(p, c) \/ EndContainer(p, c) \/ Crash(p, c)
    BY <2>2, ContainerStep
  <2>3. CASE Report(p) \/ Ready(p) \/ CountGroupFails(p)
    BY <2>3, ReportStep, SyncStep
  <2>4. QED
    BY <2>1, <2>2, <2>3 DEF Kubelet
<1>5. QED
  BY <1>2, <1>3, <1>4 DEF Inv

LEMMA HelperStep ==
    ASSUME Inv, NEW p \in ReportingPods,
           Result(p) \/ \E s \in Helpers(p) : Work(p, s) \/ WorkFails(p, s)
    PROVE  Inv'
<1>1. Helpers(p) = {"parser", "output"} /\ p \in Pods
  BY PodFacts DEF Inv, TypeInv
<1>2. scenario' = scenario /\ hasty \subseteq hasty' /\ misled \subseteq misled'
  BY DEF Result, Parse, SendResult, Work, WorkFails, CountContainers, Countdone,
     CountContainersFails, CountdoneFails, NoAnswer, Unchanged
<1>3. sink' \in Seq(Range(sink')) /\ SinkInv'
  <2>1. CASE SendResult(p)
    BY <2>1, SentStep
  <2>2. CASE ~SendResult(p)
    <3>1. sink' = sink
      BY <2>2 DEF Result, Parse, Work, WorkFails, CountContainers, Countdone,
         CountContainersFails, CountdoneFails, NoAnswer, Unchanged
    <3>2. QED
      BY <1>2, <3>1, SinkAdded DEF Inv
  <2>3. QED
    BY <2>1, <2>2
<1>4. TypeInv'
  <2>1. /\ DOMAIN con' = DOMAIN con /\ DOMAIN reported' = DOMAIN reported
        /\ DOMAIN parsed' = DOMAIN parsed /\ DOMAIN script' = DOMAIN script
        /\ \A q \in DOMAIN script : DOMAIN script'[q] = DOMAIN script[q]
    BY DEF Result, Parse, SendResult, Work, WorkFails, CountContainers, Countdone,
       CountContainersFails, CountdoneFails, NoAnswer, Go, Unchanged
  <2>2. QED
    BY <1>2, <1>3, <2>1 DEF Inv, TypeInv, Pods, Helpers, spec
<1>5. PodsInv'
  BY <1>1, ParseStep, SendStep, CountStep, CountdoneStep, CountdoneFailsStep
     DEF Result, Work, WorkFails
<1>6. QED
  BY <1>3, <1>4, <1>5 DEF Inv
-----------------------------------------------------------------------------
LEMMA InvHolds == Spec => []Inv
<1>1. Init => Inv
  <2>1. SUFFICES ASSUME Init PROVE Inv
    OBVIOUS
  <2>2. /\ scenario \in Scenarios /\ sink = <<>>
        /\ con = [p \in Pods |-> [c \in Containers(p) |-> "waiting"]]
        /\ reported = [p \in Pods |-> NoStatus]
        /\ script = [p \in Pods |->
                        [s \in {"sync"} \cup Helpers(p) |-> [pc |-> "start", needed |-> 0]]]
        /\ parsed = [p \in Pods |-> "nothing"]
    BY <2>1 DEF Init
  <2>3. sink \in Seq(Range(sink)) /\ SinkInv
    BY <2>2 DEF SinkInv
  <2>4. TypeInv
    BY <2>2, <2>3 DEF TypeInv
  <2>5. ASSUME NEW p \in ReportingPods
        PROVE  PodInv(p, con[p], reported[p], script[p]["parser"], script[p]["output"],
                      parsed[p], Excused(p))
    <3>1. /\ p \in Pods /\ Helpers(p) = {"parser", "output"}
          /\ "parser" \in Containers(p) /\ "output" \in Containers(p)
      BY <2>2, <2>5, PodFacts
    <3>2. /\ con[p] = [c \in Containers(p) |-> "waiting"]
          /\ reported[p] = NoStatus
          /\ script[p]["parser"].pc = "start" /\ script[p]["output"].pc = "start"
      BY <2>2, <3>1
    <3>3. StatusInv(p, con[p], reported[p])
      BY <3>2 DEF StatusInv, NoStatus, States
    <3>4. QED
      BY <3>1, <3>2, <3>3 DEF PodInv, WaitInv, OrderInv
  <2>6. QED
    BY <2>3, <2>4, <2>5 DEF Inv, PodsInv
<1>2. Inv /\ [Next]_vars => Inv'
  <2>1. SUFFICES ASSUME Inv, [Next]_vars PROVE Inv'
    OBVIOUS
  <2>2. CASE UNCHANGED vars
    <3>1. UNCHANGED <<scenario, con, reported, script, parsed, hasty, misled, sink>>
      BY <2>2 DEF vars, podVars
    <3>2. \A q \in ReportingPods : SamePod(q)
      BY <3>1 DEF SamePod
    <3>3. PodsInv'
      BY <2>1, <3>1, <3>2, Frame DEF Inv
    <3>4. sink' \in Seq(Range(sink')) /\ SinkInv'
      BY <2>1, <3>1, SinkAdded DEF Inv
    <3>5. TypeInv'
      BY <2>1, <3>1, <3>4 DEF Inv, TypeInv, Pods, Helpers, spec
    <3>6. QED
      BY <3>3, <3>4, <3>5 DEF Inv
  <2>3. CASE \E p \in Pods : \/ Make(p) \/ Kubelet(p) \/ Report(p) \/ Ready(p) \/ CountGroupFails(p)
                            \/ \E c \in Containers(p) : Crash(p, c)
    BY <2>1, <2>3, PodStep
  <2>4. CASE \E p \in ReportingPods :
                Result(p) \/ \E s \in Helpers(p) : Work(p, s) \/ WorkFails(p, s)
    BY <2>1, <2>4, HelperStep
  <2>5. CASE \E c \in DOMAIN scenario.calls : NextOutput(c) \/ HttpPost(c) \/ HttpPostFails(c)
    BY <2>1, <2>5, CallStep
  <2>6. QED
    BY <2>1, <2>2, <2>3, <2>4, <2>5 DEF Next, ReportingPods
<1>3. QED
  BY <1>1, <1>2, PTL DEF Spec

(***************************************************************************)
(* What the output container sends is the parsed result of a workload that *)
(* has ended (scripts/countdone.sh with the arguments that workload.go:212 *)
(* and :259 give it), for any pods whose workload has one container,       *)
(* unless a script saw a status in which a container was waiting or had    *)
(* crashed, or had its own request fail: countdone.sh takes both for       *)
(* containers that have ended.  Whatever the order in which the kubelet    *)
(* starts, ends and reports the containers, and however many requests to   *)
(* the collector are lost.                                                 *)
(***************************************************************************)
THEOREM ResultIsSent == Spec => []SendsResult
<1>1. Inv => SendsResult
  BY DEF Inv, SinkInv, Excused, SendsResult
<1>2. QED
  BY <1>1, InvHolds, PTL
-----------------------------------------------------------------------------
(***************************************************************************)
(* The pods of a workload come from one template, and a pod that waits for *)
(* others has init containers of its own: with none, addSyncContainer asks *)
(* for none.                                                               *)
(***************************************************************************)
OneTemplate ==
    \A s \in Scenarios : \A p, q \in DOMAIN s.pods :
        /\ s.pods[p].sync => s.pods[p].inits >= 1
        /\ s.pods[p].workload = s.pods[q].workload =>
              s.pods[p].count = s.pods[q].count /\ s.pods[p].inits = s.pods[q].inits

Group(p) == {q \in Pods : spec[q].group = spec[p].group}

Grouped(p) == spec[p].group # ""

WorkloadReady(p) ==
    \/ Cardinality({q \in Workload(p) : Initialized(q)}) >= spec[p].count
    \/ Cardinality(InWorkload(p)) > spec[p].count

\* A pod of the group had its count fail.
Misled(p) == \E q \in misled : spec[q].group = spec[p].group

GroupReady(p) == spec[p].group \in early \/ Misled(p) \/ \A q \in Group(p) : Initialized(q)

\* What the pod's script counted in its group.
CountedGroup(p) ==
    \/ spec[p].group \in early \/ Misled(p)
    \/ /\ Group(p) \subseteq made
       /\ script[p]["sync"].needed = Cardinality(Lines([q \in Group(p) |-> spec[q].inits]))

PodSync(p) ==
    /\ inits[p] \in Nat /\ reported[p].inits \in Nat /\ reported[p].inits <= inits[p]
    /\ inits[p] > spec[p].inits => script[p]["sync"].pc = "done"
    /\ script[p]["sync"].pc # "start" => WorkloadReady(p)
    /\ script[p]["sync"].pc \in {"count", "group"} => Grouped(p)
    /\ script[p]["sync"].pc = "group" => CountedGroup(p)
    /\ script[p]["sync"].pc = "done" => ~Grouped(p) \/ GroupReady(p)

SyncInv == made \subseteq Pods /\ DOMAIN inits = Pods /\ \A p \in Pods : PodSync(p)
-----------------------------------------------------------------------------
(***************************************************************************)
(* Counting lines.                                                         *)
(***************************************************************************)
LEMMA LinesAre ==
    ASSUME NEW S, NEW n \in [S -> Nat]
    PROVE  \A x : x \in Lines(n) <=> \E q \in S : \E i \in 1..n[q] : x = <<q, i>>
<1>1. DOMAIN n = S
  OBVIOUS
<1>2. ASSUME NEW x PROVE x \in Lines(n) <=> \E q \in S : x \in {q} \X (1..n[q])
  BY <1>1 DEF Lines
<1>3. ASSUME NEW x, NEW q \in S
      PROVE  x \in {q} \X (1..n[q]) <=> \E i \in 1..n[q] : x = <<q, i>>
  OBVIOUS
<1>4. QED
  BY <1>2, <1>3

LEMMA LinesFinite ==
    ASSUME NEW S, IsFiniteSet(S), NEW n \in [S -> Nat]
    PROVE  IsFiniteSet(Lines(n)) /\ Cardinality(Lines(n)) \in Nat
<1> DEFINE f == [q \in S |-> {q} \X (1..n[q])]
           T == {{q} \X (1..n[q]) : q \in S}
<1>1. f \in Surjection(S, T)
  BY DEF Surjection
<1> HIDE DEF f
<1>2. IsFiniteSet(T)
  BY <1>1, FS_Surjection
<1>3. ASSUME NEW q \in S PROVE IsFiniteSet({q} \X (1..n[q]))
  <2>1. IsFiniteSet({q})
    BY FS_Singleton
  <2>2. IsFiniteSet(1..n[q])
    BY FS_Interval
  <2>3. QED
    BY <2>1, <2>2, FS_Product
<1>4. \A X \in T : IsFiniteSet(X)
  BY <1>3
<1>5. Lines(n) = UNION T
  BY DEF Lines
<1> HIDE DEF T
<1>6. QED
  BY <1>2, <1>4, <1>5, FS_UNION, FS_CardinalityType

\* As many lines as there can be: then none is missing.
LEMMA LinesGrow ==
    ASSUME NEW S, IsFiniteSet(S), NEW n \in [S -> Nat], NEW m \in [S -> Nat],
           \A q \in S : n[q] <= m[q]
    PROVE  /\ Cardinality(Lines(n)) <= Cardinality(Lines(m))
           /\ Cardinality(Lines(n)) >= Cardinality(Lines(m)) => \A q \in S : n[q] = m[q]
<1> DEFINE N == Lines(n)
           M == Lines(m)
<1>1. \A q \in S : 1..n[q] \subseteq 1..m[q]
  OBVIOUS
<1>2. N \subseteq M
  BY <1>1, LinesAre
<1>3. IsFiniteSet(M) /\ Cardinality(M) \in Nat /\ Cardinality(N) \in Nat
  BY LinesFinite
<1>4. Cardinality(N) <= Cardinality(M) /\ (Cardinality(M) = Cardinality(N) => M = N)
  <2> HIDE DEF N, M
  <2>1. QED
    BY <1>2, <1>3, FS_Subset
<1>5. ASSUME M = N, NEW q \in S PROVE n[q] = m[q]
  <2>1. SUFFICES ASSUME n[q] # m[q] PROVE FALSE
    OBVIOUS
  <2>2. m[q] \in 1..m[q] /\ m[q] \notin 1..n[q]
    BY <2>1
  <2>3. <<q, m[q]>> \in M
    BY <2>2, LinesAre
  <2>4. PICK r \in S : \E i \in 1..n[r] : <<q, m[q]>> = <<r, i>>
    BY <1>5, <2>3, LinesAre
  <2>5. QED
    BY <2>2, <2>4
<1>6. QED
  BY <1>3, <1>4, <1>5

LEMMA LinesEqual ==
    ASSUME NEW S, IsFiniteSet(S), NEW k \in Nat
    PROVE  Cardinality(Lines([q \in S |-> k])) = Cardinality(S) * k
<1> DEFINE m == [q \in S |-> k]
           K == 1..k
<1>1. m \in [S -> Nat] /\ \A q \in S : m[q] = k
  OBVIOUS
<1>2. \A x : x \in Lines(m) <=> \E q \in S : \E i \in 1..k : x = <<q, i>>
  BY <1>1, LinesAre
<1>3. Lines(m) = S \X K
  BY <1>2
<1>4. IsFiniteSet(K) /\ Cardinality(K) = k
  BY FS_Interval
<1> HIDE DEF K, m
<1>5. Cardinality(S \X K) = Cardinality(S) * Cardinality(K)
  BY <1>4, FS_Product
<1>6. QED
  BY <1>3, <1>4, <1>5 DEF m

LEMMA TimesLess ==
    ASSUME NEW a \in Nat, NEW b \in Nat, NEW k \in Nat, k >= 1, a * k >= b * k
    PROVE  a >= b
<1>1. SUFFICES ASSUME a < b PROVE FALSE
  OBVIOUS
<1>2. PICK d \in Nat : d >= 1 /\ b = a + d
  <2>1. b - a \in Nat /\ b - a >= 1 /\ b = a + (b - a)
    BY <1>1
  <2>2. QED
    BY <2>1
<1>3. b * k = a * k + d * k
  BY <1>2
<1>4. d * k >= 1 /\ a * k \in Int /\ d * k \in Int
  BY <1>2
<1>5. QED
  BY <1>3, <1>4

(***************************************************************************)
(* n lines of each of a number of pods, none with more: when there are     *)
(* count * k of them and no more pods than the count, there is a pod for   *)
(* each instance and all its containers have completed.                    *)
(***************************************************************************)
LEMMA AllCounted ==
    ASSUME NEW S, IsFiniteSet(S), NEW k \in Nat, k >= 1, NEW n \in [S -> Nat], NEW c \in Nat,
           \A q \in S : n[q] <= k, Cardinality(Lines(n)) >= c * k
    PROVE  /\ Cardinality(S) \in Nat /\ Cardinality(S) >= c
           /\ Cardinality(S) = c => \A q \in S : n[q] = k
<1> DEFINE m == [q \in S |-> k]
           L == Cardinality(Lines(n))
           M == Cardinality(Lines(m))
           s == Cardinality(S)
<1>1. m \in [S -> Nat] /\ \A q \in S : m[q] = k /\ n[q] <= m[q]
  OBVIOUS
<1>2. M = s * k
  BY LinesEqual
<1> HIDE DEF m
<1>3. L <= M /\ (L >= M => \A q \in S : n[q] = m[q])
  BY <1>1, LinesGrow
<1>4. L \in Nat /\ M \in Nat /\ s \in Nat
  BY <1>1, LinesFinite, FS_CardinalityType
<1>5. L >= c * k
  OBVIOUS
<1> HIDE DEF L, M, s
<1>6. c * k \in Nat /\ s * k >= c * k
  BY <1>2, <1>3, <1>4, <1>5
<1>7. s >= c
  BY <1>4, <1>6, TimesLess
<1>8. s = c => L >= M
  BY <1>2, <1>5
<1>9. QED
  BY <1>1, <1>3, <1>4, <1>7, <1>8 DEF s
-----------------------------------------------------------------------------
(***************************************************************************)
(* ready.sh: a pod passes the count of its workload, and of its group,     *)
(* when the others have initialized.  The lines of sync containers that    *)
(* have completed do not disturb the counts: one has completed only where  *)
(* all have been counted before.                                           *)
(***************************************************************************)
LEMMA PodsFacts ==
    ASSUME scenario \in Scenarios, made \subseteq Pods
    PROVE  /\ \A S \in SUBSET Pods : IsFiniteSet(S) /\ Cardinality(S) \in Nat
           /\ \A p \in Pods : spec[p].inits \in Nat /\ spec[p].count \in Nat
           /\ \A p : InWorkload(p) \subseteq Workload(p) /\ InGroup(p) \subseteq Group(p)
           /\ \A p : InWorkload(p) \subseteq Pods /\ InGroup(p) \subseteq Pods
<1>1. IsFiniteSet(Pods)
  BY ScenarioAssumption DEF Pods
<1>2. \A S \in SUBSET Pods : IsFiniteSet(S) /\ Cardinality(S) \in Nat
  BY <1>1, FS_Subset, FS_CardinalityType
<1>3. \A p \in Pods : spec[p].inits \in Nat /\ spec[p].count \in Nat
  BY ScenarioAssumption DEF Pods, spec
<1>4. QED
  BY <1>2, <1>3 DEF InWorkload, InGroup, Workload, Group

LEMMA SameWorkload ==
    ASSUME OneTemplate, scenario \in Scenarios, NEW p \in Pods, NEW q \in Workload(p)
    PROVE  /\ spec[q].count = spec[p].count /\ spec[q].inits = spec[p].inits
           /\ Workload(q) = Workload(p) /\ InWorkload(q) = InWorkload(p)
           /\ WorkloadReady(q) <=> WorkloadReady(p)
<1>1. q \in Pods /\ spec[q].workload = spec[p].workload
  BY DEF Workload
<1>2. spec[q].count = spec[p].count /\ spec[q].inits = spec[p].inits
  BY <1>1 DEF OneTemplate, Pods, spec
<1>3. Workload(q) = Workload(p) /\ InWorkload(q) = InWorkload(p)
  BY <1>1 DEF Workload, InWorkload
<1>4. QED
  BY <1>2, <1>3 DEF WorkloadReady

LEMMA WorkloadPasses ==
    ASSUME OneTemplate, TypeInv, SyncInv, NEW p \in Pods, ReadyWorkload(p)
    PROVE  WorkloadReady(p)
<1> DEFINE S == InWorkload(p)
           k == spec[p].inits
           c == spec[p].count
           n == [q \in S |-> reported[q].inits]
<1>1. /\ scenario \in Scenarios /\ made \subseteq Pods
      /\ spec[p].sync /\ Cardinality(Lines(n)) >= c * k
  BY DEF TypeInv, SyncInv, ReadyWorkload, Completed, SyncArgument
<1>2. k >= 1
  BY <1>1 DEF OneTemplate, Pods, spec
<1>3. /\ IsFiniteSet(S) /\ S \subseteq Workload(p) /\ S \subseteq Pods /\ k \in Nat /\ c \in Nat
  BY <1>1, PodsFacts
<1>4. \A q \in S : spec[q].inits = k
  BY <1>1, <1>3, SameWorkload
<1>5. CASE \E q \in S : script[q]["sync"].pc # "start"
  <2>1. PICK q \in S : script[q]["sync"].pc # "start"
    BY <1>5
  <2>2. WorkloadReady(q)
    BY <1>3, <2>1 DEF SyncInv, PodSync
  <2>3. QED
    BY <1>1, <1>3, <2>1, <2>2, SameWorkload
<1>6. CASE \A q \in S : script[q]["sync"].pc = "start"
  <2>1. \A q \in S : PodSync(q)
    BY <1>3 DEF SyncInv
  <2>2. \A q \in S : /\ reported[q].inits \in Nat /\ inits[q] \in Nat
                     /\ reported[q].inits <= inits[q] /\ inits[q] <= k
    BY <1>3, <1>4, <1>6, <2>1 DEF PodSync
  <2>3. /\ n \in [S -> Nat] /\ \A q \in S : n[q] = reported[q].inits /\ n[q] <= k
    BY <1>3, <2>2
  <2> HIDE DEF n, S, k, c
  <2>4. /\ Cardinality(S) \in Nat /\ Cardinality(S) >= c
        /\ Cardinality(S) = c => \A q \in S : n[q] = k
    BY <1>1, <1>2, <1>3, <2>3, AllCounted
  <2>5. CASE Cardinality(S) > c
    BY <2>5 DEF WorkloadReady, S, c
  <2>6. CASE Cardinality(S) = c
    <3>1. \A q \in S : inits[q] >= k
      BY <1>3, <2>2, <2>3, <2>4, <2>6
    <3>2. \A q \in S : Initialized(q)
      BY <1>4, <3>1 DEF Initialized, S, InWorkload
    <3>3. S = {q \in Workload(p) : Initialized(q)}
      BY <1>3, <3>2 DEF Initialized, S, InWorkload, Workload
    <3>4. Cardinality(S) >= c
      BY <2>4
    <3>5. QED
      BY <3>3, <3>4 DEF WorkloadReady, c
  <2>7. QED
    BY <1>3, <2>4, <2>5, <2>6
<1>7. QED
  BY <1>5, <1>6

LEMMA GroupPasses ==
    ASSUME TypeInv, SyncInv, NEW p \in Pods, ReadyGroup(p)
    PROVE  GroupReady(p)
<1> DEFINE G == Group(p)
           n == [q \in G |-> reported[q].inits]
           m == [q \in G |-> spec[q].inits]
<1>1. /\ scenario \in Scenarios /\ made \subseteq Pods /\ script[p]["sync"].pc = "group"
      /\ Completed(InGroup(p)) >= script[p]["sync"].needed
  BY DEF TypeInv, SyncInv, ReadyGroup
<1>2. Grouped(p) /\ CountedGroup(p)
  BY <1>1 DEF SyncInv, PodSync
<1>3. CASE \E q \in G : script[q]["sync"].pc = "done"
  <2>1. PICK q \in G : script[q]["sync"].pc = "done"
    BY <1>3
  <2>2. q \in Pods /\ spec[q].group = spec[p].group
    BY <2>1 DEF Group
  <2>3. Grouped(q) /\ Group(q) = Group(p)
    BY <1>2, <2>2 DEF Grouped, Group
  <2>4. GroupReady(q)
    BY <2>1, <2>2, <2>3 DEF SyncInv, PodSync
  <2>5. QED
    BY <2>2, <2>3, <2>4 DEF GroupReady, Misled
<1>4. CASE spec[p].group \in early \/ Misled(p)
  BY <1>4 DEF GroupReady
<1>5. CASE (\A q \in G : script[q]["sync"].pc # "done") /\ spec[p].group \notin early /\ ~Misled(p)
  <2>1. /\ G \subseteq made /\ G \subseteq Pods
        /\ script[p]["sync"].needed = Cardinality(Lines(m))
    BY <1>2, <1>5 DEF CountedGroup, Group
  <2>2. InGroup(p) = G
    BY <1>1, <2>1 DEF InGroup, Group
  <2>3. Cardinality(Lines(n)) >= Cardinality(Lines(m))
    BY <1>1, <2>1, <2>2 DEF Completed
  <2>4. IsFiniteSet(G) /\ \A q \in G : spec[q].inits \in Nat /\ PodSync(q)
    BY <1>1, <2>1, PodsFacts DEF SyncInv
  <2>5. \A q \in G : /\ reported[q].inits \in Nat /\ inits[q] \in Nat
                     /\ reported[q].inits <= inits[q] /\ inits[q] <= spec[q].inits
    BY <1>5, <2>4 DEF PodSync
  <2>6. /\ n \in [G -> Nat] /\ m \in [G -> Nat]
        /\ \A q \in G : n[q] = reported[q].inits /\ m[q] = spec[q].inits /\ n[q] <= m[q]
    BY <2>4, <2>5
  <2> HIDE DEF n, m, G
  <2>7. \A q \in G : n[q] = m[q]
    BY <2>3, <2>4, <2>6, LinesGrow
  <2>8. \A q \in G : inits[q] >= spec[q].inits
    BY <2>4, <2>5, <2>6, <2>7
  <2>9. QED
    BY <2>1, <2>8 DEF GroupReady, Initialized, G
<1>6. QED
  BY <1>3, <1>4, <1>5
-----------------------------------------------------------------------------
(***************************************************************************)
(* Pods that exist and containers that have completed stay.                *)
(***************************************************************************)
Growing ==
    /\ scenario' = scenario /\ made \subseteq made' /\ made' \subseteq Pods /\ early \subseteq early'
    /\ misled \subseteq misled'
    /\ \A q \in Pods : inits'[q] \in Nat /\ inits'[q] >= inits[q]

LEMMA ReadyStays ==
    ASSUME TypeInv, SyncInv, Growing, NEW p \in Pods
    PROVE  /\ WorkloadReady(p) => WorkloadReady(p)'
           /\ GroupReady(p) => GroupReady(p)'
<1> DEFINE A == {q \in Workload(p) : Initialized(q)}
           B == {q \in Workload(p)' : Initialized(q)'}
           C == InWorkload(p)
           D == InWorkload(p)'
<1>1. /\ scenario \in Scenarios /\ made \subseteq Pods /\ Pods' = Pods /\ spec' = spec
      /\ Workload(p)' = Workload(p) /\ Group(p)' = Group(p)
  BY DEF TypeInv, SyncInv, Growing, Pods, spec, Workload, Group
<1>2. \A q \in Pods : spec[q].inits \in Nat /\ spec[q].count \in Nat /\ inits[q] \in Nat
  BY <1>1, PodsFacts DEF SyncInv, PodSync
<1>3. \A q \in Pods : Initialized(q) => Initialized(q)'
  BY <1>1, <1>2 DEF Initialized, Growing
<1>4. A \subseteq B /\ C \subseteq D /\ B \subseteq Pods /\ D \subseteq Pods
  BY <1>1, <1>3 DEF Growing, Workload, InWorkload
<1>5. IsFiniteSet(B) /\ IsFiniteSet(D)
  BY <1>1, <1>4, PodsFacts
<1>6. /\ Cardinality(A) \in Nat /\ Cardinality(B) \in Nat /\ Cardinality(A) <= Cardinality(B)
      /\ Cardinality(C) \in Nat /\ Cardinality(D) \in Nat /\ Cardinality(C) <= Cardinality(D)
  <2> HIDE DEF A, B, C, D
  <2>1. QED
    BY <1>4, <1>5, FS_Subset, FS_CardinalityType
<1>7. WorkloadReady(p) <=> Cardinality(A) >= spec[p].count \/ Cardinality(C) > spec[p].count
  BY DEF WorkloadReady
<1>8. WorkloadReady(p)' <=> Cardinality(B) >= spec[p].count \/ Cardinality(D) > spec[p].count
  BY <1>1 DEF WorkloadReady
<1>9. WorkloadReady(p) => WorkloadReady(p)'
  <2> HIDE DEF A, B, C, D
  <2>1. QED
    BY <1>2, <1>6, <1>7, <1>8
<1>10. GroupReady(p) => GroupReady(p)'
  BY <1>1, <1>3 DEF GroupReady, Growing, Group, Misled
<1>11. QED
  BY <1>9, <1>10

\* A pod whose script does nothing.
Idle(q) ==
    /\ script'[q]["sync"] = script[q]["sync"]
    /\ inits'[q] = inits[q] \/ inits'[q] <= spec[q].inits
    /\ reported'[q].inits \in {reported[q].inits, inits[q]}

LEMMA SyncFrame ==
    ASSUME TypeInv, SyncInv, Growing, DOMAIN inits' = Pods,
           \A q \in Pods : Idle(q) \/ PodSync(q)'
    PROVE  SyncInv'
<1>1. /\ scenario \in Scenarios /\ Pods' = Pods /\ spec' = spec /\ made \subseteq Pods
  BY DEF TypeInv, SyncInv, Growing, Pods, spec
<1>2. ASSUME NEW q \in Pods, Idle(q) PROVE PodSync(q)'
  <2>1. /\ PodSync(q) /\ spec[q].inits \in Nat
        /\ inits'[q] \in Nat /\ inits'[q] >= inits[q]
        /\ Group(q)' = Group(q) /\ Grouped(q)' = Grouped(q)
    BY <1>1, PodsFacts DEF SyncInv, Growing, Group, Grouped
  <2>2. /\ inits'[q] \in Nat /\ reported'[q].inits \in Nat /\ reported'[q].inits <= inits'[q]
        /\ inits'[q] > spec[q].inits => script'[q]["sync"].pc = "done"
    BY <1>2, <2>1 DEF Idle, PodSync
  <2>3. WorkloadReady(q) => WorkloadReady(q)'
    BY ReadyStays
  <2>4. GroupReady(q) => GroupReady(q)'
    BY ReadyStays
  <2>5. CountedGroup(q) => CountedGroup(q)'
    <3>1. Lines([r \in Group(q) |-> spec[r].inits])' = Lines([r \in Group(q) |-> spec[r].inits])
      BY <1>1, <2>1 DEF Lines
    <3>2. QED
      BY <1>1, <1>2, <2>1, <3>1 DEF CountedGroup, Growing, Idle, Misled
  <2>6. QED
    BY <1>1, <1>2, <2>1, <2>2, <2>3, <2>4, <2>5 DEF PodSync, Idle
<1>3. QED
  BY <1>1, <1>2 DEF SyncInv, Growing
-----------------------------------------------------------------------------
(***************************************************************************)
(* The steps of ready.sh.                                                  *)
(***************************************************************************)
LEMMA SyncMoves ==
    ASSUME TypeInv, NEW p \in Pods, NEW pc, NEW needed, Go(p, "sync", pc, needed)
    PROVE  /\ script'[p]["sync"].pc = pc /\ script'[p]["sync"].needed = needed
           /\ \A q \in Pods : q # p => script'[q]["sync"] = script[q]["sync"]
<1>1. "sync" \in DOMAIN script[p] /\ DOMAIN script = Pods
  BY DEF TypeInv
<1>2. script' = [script EXCEPT ![p]["sync"] = [pc |-> pc, needed |-> needed]]
  BY DEF Go
<1>3. QED
  BY <1>1, <1>2

LEMMA ReleaseStep ==
    ASSUME TypeInv, SyncInv, NEW p \in Pods, Release(p), WorkloadReady(p),
           ~Grouped(p) \/ GroupReady(p), UNCHANGED <<scenario, made, reported, early, misled>>
    PROVE  SyncInv'
<1>1. /\ inits' = [inits EXCEPT ![p] = @ + 1] /\ DOMAIN inits = Pods
      /\ \A q \in Pods : inits[q] \in Nat /\ reported[q].inits \in Nat
                         /\ reported[q].inits <= inits[q]
  BY DEF Release, SyncInv, PodSync
<1>2. /\ inits'[p] = inits[p] + 1 /\ DOMAIN inits' = Pods
      /\ \A q \in Pods : q # p => inits'[q] = inits[q]
  BY <1>1
<1>3. Growing
  BY <1>1, <1>2 DEF Growing, SyncInv
<1>4. /\ script'[p]["sync"].pc = "done"
      /\ \A q \in Pods : q # p => script'[q]["sync"] = script[q]["sync"]
  BY SyncMoves DEF Release
<1>5. \A q \in Pods : q # p => Idle(q)
  BY <1>2, <1>4 DEF Idle
<1>6. PodSync(p)'
  <2>1. WorkloadReady(p)' /\ (~Grouped(p)' \/ GroupReady(p)')
    BY <1>3, ReadyStays DEF Grouped, spec
  <2>2. /\ inits'[p] \in Nat /\ reported'[p].inits \in Nat /\ reported'[p].inits <= inits'[p]
    BY <1>1, <1>2
  <2>3. QED
    BY <1>4, <2>1, <2>2 DEF PodSync
<1>7. QED
  BY <1>2, <1>3, <1>5, <1>6, SyncFrame

LEMMA ReadyStep ==
    ASSUME OneTemplate, TypeInv, SyncInv, NEW p \in Pods, Ready(p)
    PROVE  SyncInv'
<1>1. CASE ReadyWorkload(p)
  <2>1. WorkloadReady(p) /\ UNCHANGED <<scenario, made, reported, early, misled>>
    BY <1>1, WorkloadPasses DEF ReadyWorkload, Unchanged
  <2>2. CASE ~Grouped(p) /\ Release(p)
    BY <2>1, <2>2, ReleaseStep
  <2>3. CASE Grouped(p) /\ Go(p, "sync", "count", 0) /\ UNCHANGED inits
    <3>1. Growing /\ DOMAIN inits' = Pods
      BY <2>1, <2>3 DEF Growing, SyncInv, PodSync
    <3>2. /\ script'[p]["sync"].pc = "count"
          /\ \A q \in Pods : q # p => script'[q]["sync"] = script[q]["sync"]
      BY <2>3, SyncMoves
    <3>3. \A q \in Pods : q # p => Idle(q)
      BY <2>1, <2>3, <3>2 DEF Idle
    <3>4. WorkloadReady(p)' /\ Grouped(p)'
      BY <2>1, <2>3, <3>1, ReadyStays DEF Grouped, spec
    <3>5. inits[p] <= spec[p].inits /\ spec'[p] = spec[p] /\ inits'[p] = inits[p]
      <4>1. inits[p] = spec[p].inits /\ spec[p].inits \in Nat
        BY <1>1, PodsFacts DEF ReadyWorkload, SyncInv, TypeInv
      <4>2. QED
        BY <2>1, <2>3, <4>1 DEF spec
    <3>6. /\ inits'[p] \in Nat /\ reported'[p].inits \in Nat /\ reported'[p].inits <= inits'[p]
          /\ ~(inits'[p] > spec'[p].inits)
      <4>1. PodSync(p) /\ spec[p].inits \in Nat
        BY PodsFacts DEF SyncInv, TypeInv
      <4>2. QED
        BY <2>1, <2>3, <3>5, <4>1 DEF PodSync
    <3>7. PodSync(p)'
      BY <3>2, <3>4, <3>6 DEF PodSync
    <3>8. QED
      BY <3>1, <3>3, <3>7, SyncFrame
  <2>4. QED
    BY <1>1, <2>2, <2>3 DEF ReadyWorkload, Grouped
<1>2. CASE CountGroup(p)
  <2> DEFINE n == Cardinality(Lines([q \in InGroup(p) |-> spec[q].inits]))
  <2>1. /\ script[p]["sync"].pc = "count" /\ Go(p, "sync", "group", n)
        /\ early' = IF Missing(p) = {} THEN early ELSE early \cup {spec[p].group}
        /\ UNCHANGED <<scenario, made, inits, reported, misled>>
    BY <1>2 DEF CountGroup
  <2>2. Growing /\ DOMAIN inits' = Pods
    BY <2>1 DEF Growing, SyncInv, PodSync
  <2>3. /\ script'[p]["sync"].pc = "group" /\ script'[p]["sync"].needed = n
        /\ \A q \in Pods : q # p => script'[q]["sync"] = script[q]["sync"]
    BY <2>1, SyncMoves
  <2>4. \A q \in Pods : q # p => Idle(q)
    BY <2>1, <2>3 DEF Idle
  <2>5. PodSync(p) /\ made \subseteq Pods /\ spec' = spec /\ Pods' = Pods
    BY <2>1 DEF SyncInv, spec, Pods
  <2>6. CountedGroup(p)'
    <3>1. CASE Missing(p) = {}
      <4>1. InGroup(p) = Group(p) /\ Group(p) \subseteq made /\ Group(p)' = Group(p)
        BY <2>5, <3>1 DEF Missing, InGroup, Group
      <4>2. n = Cardinality(Lines([q \in Group(p) |-> spec[q].inits]))
        BY <4>1
      <4>3. Lines([q \in Group(p) |-> spec[q].inits])' = Lines([q \in Group(p) |-> spec[q].inits])
        BY <2>5, <4>1 DEF Lines
      <4>4. QED
        BY <2>1, <2>3, <4>1, <4>2, <4>3 DEF CountedGroup
    <3>2. CASE Missing(p) # {}
      <4>1. spec'[p].group \in early'
        BY <2>1, <2>5, <3>2
      <4>2. QED
        BY <4>1 DEF CountedGroup
    <3>3. QED
      BY <3>1, <3>2
  <2>7. WorkloadReady(p)' /\ Grouped(p)'
    BY <2>1, <2>2, <2>5, ReadyStays DEF PodSync, Grouped
  <2>8. /\ inits'[p] \in Nat /\ reported'[p].inits \in Nat /\ reported'[p].inits <= inits'[p]
        /\ ~(inits'[p] > spec'[p].inits)
    BY <2>1, <2>5 DEF PodSync
  <2>9. PodSync(p)'
    <3> HIDE DEF n
    <3>1. QED
      BY <2>3, <2>6, <2>7, <2>8 DEF PodSync
  <2>10. QED
    BY <2>2, <2>4, <2>9, SyncFrame
<1>3. CASE ReadyGroup(p)
  <2>1. /\ GroupReady(p) /\ Release(p) /\ UNCHANGED <<scenario, made, reported, early, misled>>
        /\ script[p]["sync"].pc = "group"
    BY <1>3, GroupPasses DEF ReadyGroup, Unchanged
  <2>2. WorkloadReady(p)
    BY <2>1 DEF SyncInv, PodSync
  <2>3. QED
    BY <2>1, <2>2, ReleaseStep
<1>4. QED
  BY <1>1, <1>2, <1>3 DEF Ready

\* The request for the count of the group fails.
LEMMA CountFailsStep ==
    ASSUME TypeInv, SyncInv, NEW p \in Pods, CountGroupFails(p)
    PROVE  SyncInv'
<1>1. /\ script[p]["sync"].pc = "count" /\ Go(p, "sync", "group", 0)
      /\ misled' = misled \cup {p} /\ UNCHANGED <<scenario, made, inits, reported, early>>
  BY DEF CountGroupFails, NoAnswer
<1>2. Growing /\ DOMAIN inits' = Pods
  BY <1>1 DEF Growing, SyncInv, PodSync
<1>3. /\ script'[p]["sync"].pc = "group"
      /\ \A q \in Pods : q # p => script'[q]["sync"] = script[q]["sync"]
  BY <1>1, SyncMoves
<1>4. \A q \in Pods : q # p => Idle(q)
  BY <1>1, <1>3 DEF Idle
<1>5. PodSync(p) /\ spec' = spec
  BY <1>1 DEF SyncInv, spec
<1>6. CountedGroup(p)'
  BY <1>1, <1>5 DEF CountedGroup, Misled
<1>7. WorkloadReady(p)' /\ Grouped(p)'
  BY <1>1, <1>2, <1>5, ReadyStays DEF PodSync, Grouped
<1>8. /\ inits'[p] \in Nat /\ reported'[p].inits \in Nat /\ reported'[p].inits <= inits'[p]
      /\ ~(inits'[p] > spec'[p].inits)
  BY <1>1, <1>5 DEF PodSync
<1>9. PodSync(p)'
  BY <1>3, <1>6, <1>7, <1>8 DEF PodSync
<1>10. QED
  BY <1>2, <1>4, <1>9, SyncFrame

(***************************************************************************)
(* The other steps.                                                        *)
(***************************************************************************)
LEMMA OtherStep ==
    ASSUME TypeInv, SyncInv, scenario' = scenario, early' = early, misled \subseteq misled',
           made \subseteq made', made' \subseteq Pods, DOMAIN inits' = Pods,
           \A q \in Pods : inits'[q] = inits[q],
           \A q \in Pods : script'[q]["sync"] = script[q]["sync"],
           \A q \in Pods : reported'[q].inits \in {reported[q].inits, inits[q]}
    PROVE  SyncInv'
<1>1. Growing
  BY DEF Growing, SyncInv, PodSync
<1>2. \A q \in Pods : Idle(q)
  BY DEF Idle
<1>3. QED
  BY <1>1, <1>2, SyncFrame

LEMMA CompleteStep == ASSUME TypeInv, SyncInv, NEW p \in Pods, CompleteInit(p) PROVE SyncInv'
<1>1. /\ inits[p] < spec[p].inits /\ inits' = [inits EXCEPT ![p] = @ + 1]
      /\ UNCHANGED <<scenario, made, reported, script, early, misled>>
  BY DEF CompleteInit, Unchanged
<1>2. DOMAIN inits = Pods /\ \A q \in Pods : inits[q] \in Nat /\ spec[q].inits \in Nat
  BY PodsFacts DEF SyncInv, PodSync, TypeInv
<1>3. /\ inits'[p] = inits[p] + 1 /\ inits'[p] <= spec[p].inits /\ DOMAIN inits' = Pods
      /\ \A q \in Pods : q # p => inits'[q] = inits[q]
  BY <1>1, <1>2
<1>4. Growing
  BY <1>1, <1>2, <1>3 DEF Growing, SyncInv
<1>5. \A q \in Pods : Idle(q)
  BY <1>1, <1>3 DEF Idle
<1>6. QED
  BY <1>3, <1>4, <1>5, SyncFrame

LEMMA SyncInvStep ==
    ASSUME OneTemplate, Inv, SyncInv, [Next]_vars
    PROVE  SyncInv'
<1>1. TypeInv /\ made \subseteq Pods /\ DOMAIN inits = Pods
  BY DEF Inv, SyncInv
<1>2. CASE UNCHANGED vars
  <2>1. UNCHANGED <<scenario, made, inits, reported, script, early, misled>>
    BY <1>2 DEF vars, podVars
  <2>2. QED
    BY <1>1, <2>1, OtherStep
<1>3. ASSUME NEW p \in Pods, Make(p) PROVE SyncInv'
  <2>1. UNCHANGED <<scenario, inits, reported, script, early, misled>> /\ made' = made \cup {p}
    BY <1>3 DEF Make, Unchanged
  <2>2. QED
    BY <1>1, <2>1, OtherStep
<1>4. ASSUME NEW p \in Pods, NEW c, StartContainer(p, c) \/ EndContainer(p, c) \/ Crash(p, c)
      PROVE  SyncInv'
  <2>1. UNCHANGED <<scenario, made, inits, reported, script, early, misled>>
    BY <1>4 DEF StartContainer, EndContainer, Crash, Unchanged
  <2>2. QED
    BY <1>1, <2>1, OtherStep
<1>5. ASSUME NEW p \in Pods, Report(p) PROVE SyncInv'
  <2>1. /\ UNCHANGED <<scenario, made, inits, script, early, misled>>
        /\ reported' = [reported EXCEPT ![p] = Status(p)]
    BY <1>5 DEF Report, Unchanged
  <2>2. \A q \in Pods : reported'[q].inits \in {reported[q].inits, inits[q]}
    BY <1>1, <2>1 DEF TypeInv, Status
  <2>3. QED
    BY <1>1, <2>1, <2>2, OtherStep
<1>6. ASSUME NEW p \in ReportingPods,
             Result(p) \/ \E s \in Helpers(p) : Work(p, s) \/ WorkFails(p, s)
      PROVE  SyncInv'
  <2>1. UNCHANGED <<scenario, made, inits, reported, early>> /\ misled \subseteq misled'
    BY <1>6 DEF Result, Parse, SendResult, Work, WorkFails, CountContainers, Countdone,
       CountContainersFails, CountdoneFails, NoAnswer, Unchanged
  <2>2. /\ Helpers(p) = {"parser", "output"} /\ p \in Pods
        /\ \A q \in Pods : "sync" \in DOMAIN script[q]
    BY <1>1, <1>6, PodFacts DEF TypeInv
  <2>3. \E s \in {"parser", "output"} : \E v : script' = [script EXCEPT ![p][s] = v]
    BY <1>6, <2>2 DEF Result, Parse, SendResult, Work, WorkFails, CountContainers, Countdone,
       CountContainersFails, CountdoneFails, Go
  <2>4. \A q \in Pods : script'[q]["sync"] = script[q]["sync"]
    BY <1>1, <2>2, <2>3 DEF TypeInv
  <2>5. QED
    BY <1>1, <2>1, <2>4, OtherStep
<1>7. ASSUME NEW c \in DOMAIN scenario.calls, NextOutput(c) \/ HttpPost(c) \/ HttpPostFails(c)
      PROVE  SyncInv'
  <2>1. UNCHANGED <<scenario, made, inits, reported, script, early, misled>>
    BY <1>7 DEF NextOutput, HttpPost, HttpPostFails, podVars
  <2>2. QED
    BY <1>1, <2>1, OtherStep
<1>8. ASSUME NEW p \in Pods, Kubelet(p) PROVE SyncInv'
  BY <1>1, <1>4, <1>8, CompleteStep DEF Kubelet
<1>9. ASSUME NEW p \in Pods, Ready(p) \/ CountGroupFails(p) PROVE SyncInv'
  BY <1>1, <1>9, ReadyStep, CountFailsStep
<1>10. QED
  BY <1>2, <1>3, <1>4, <1>5, <1>6, <1>7, <1>8, <1>9 DEF Next, ReportingPods

(***************************************************************************)
(* "All workloads with the same sync group label will wait for each other  *)
(* to finish initialization before running their actual workload"          *)
(* (doc/benchmark_resource.md:61): for any pods that come from one         *)
(* template per workload, with init containers of their own, a pod leaves  *)
(* its sync container (scripts/ready.sh, with the argument of              *)
(* workload.go:589) only when as many instances as expected have           *)
(* initialized, or there are more pods than expected, and when the pods of *)
(* its group have initialized, or the group was counted too early or with  *)
(* a request that failed; however late and in whatever order statuses are  *)
(* reported, and although the script counts the sync containers that have  *)
(* completed, too.                                                         *)
(***************************************************************************)
THEOREM PodsStartTogether == ASSUME OneTemplate PROVE Spec => []SyncStart
<1>1. Init => SyncInv
  <2>1. SUFFICES ASSUME Init PROVE SyncInv
    OBVIOUS
  <2>2. /\ scenario \in Scenarios /\ made = {} /\ inits = [p \in Pods |-> 0]
        /\ reported = [p \in Pods |-> NoStatus]
        /\ script = [p \in Pods |->
                        [s \in {"sync"} \cup Helpers(p) |-> [pc |-> "start", needed |-> 0]]]
    BY <2>1 DEF Init
  <2>3. ASSUME NEW p \in Pods PROVE PodSync(p)
    <3>1. /\ inits[p] = 0 /\ reported[p].inits = 0 /\ script[p]["sync"].pc = "start"
          /\ spec[p].inits \in Nat
      BY <2>2, PodsFacts DEF NoStatus
    <3>2. QED
      BY <3>1 DEF PodSync
  <2>4. QED
    BY <2>2, <2>3 DEF SyncInv
<1>2. Inv /\ SyncInv /\ [Next]_vars => SyncInv'
  BY SyncInvStep
<1>3. Inv /\ SyncInv => SyncStart
  <2>1. SUFFICES ASSUME Inv, SyncInv, NEW p \in Pods, spec[p].sync, inits[p] = AllInits(p)
                 PROVE  WorkloadReady(p) /\ (~Grouped(p) \/ GroupReady(p))
    BY DEF SyncStart, WorkloadReady, Grouped, GroupReady, Group, Misled
  <2>2. PodSync(p) /\ spec[p].inits \in Nat
    BY <2>1, PodsFacts DEF SyncInv, Inv, TypeInv
  <2>3. script[p]["sync"].pc = "done"
    BY <2>1, <2>2 DEF PodSync, AllInits
  <2>4. QED
    BY <2>2, <2>3 DEF PodSync
<1>4. QED
  BY <1>1, <1>2, <1>3, InvHolds, PTL DEF Spec
-----------------------------------------------------------------------------
(***************************************************************************)
(* doOutput: the requests of a call so far are those of the outputs of its *)
(* name before the one it is at, and the reader has its data until the     *)
(* first request.                                                          *)
(***************************************************************************)
RequestInv(c, k) ==
    /\ \E i \in Matching(c) : /\ Place(Matching(c), i) = Place(Got(c), k)
                              /\ sink[k].to = scenario.outputs[i].url
    /\ \/ sink[k].data = IF Place(Got(c), k) = 0 THEN <<Body(c)>> ELSE <<>>
       \/ call[c].pc = "failed" /\ \A j \in Got(c) : j <= k

PostInv(c, pc, i, reader) ==
    /\ pc \in {"post", "failed", "done"} /\ i \in Nat
    /\ pc # "failed" => Cardinality(Got(c)) = Place(Matching(c), i)
    /\ pc = "post" => reader = IF Cardinality(Got(c)) = 0 THEN <<Body(c)>> ELSE <<>>
    /\ pc = "done" => \A j \in Matching(c) : j < i

CallInv(c) ==
    /\ DOMAIN call[c] = {"pc", "i", "reader"}
    /\ PostInv(c, call[c].pc, call[c].i, call[c].reader)
    /\ \A k \in Got(c) : RequestInv(c, k)

CallsInv == DOMAIN call = DOMAIN scenario.calls /\ \A c \in DOMAIN call : CallInv(c)
-----------------------------------------------------------------------------
LEMMA PlaceNext ==
    ASSUME NEW S \in SUBSET Nat, IsFiniteSet(S), NEW i \in Nat
    PROVE  /\ Place(S, i) \in Nat
           /\ i \in S => Place(S, i + 1) = Place(S, i) + 1
           /\ i \notin S => Place(S, i + 1) = Place(S, i)
<1> DEFINE A == {j \in S : j < i}
           B == {j \in S : j < i + 1}
<1>1. IsFiniteSet(A) /\ Cardinality(A) \in Nat
  BY FS_Subset, FS_CardinalityType
<1> DEFINE less(j) == j < i
           next(j) == j < i + 1
<1>2. ~less(i) /\ \A j \in S : next(j) <=> less(j) \/ j = i
  OBVIOUS
<1>3. next(i)
  OBVIOUS
<1>4. A = {j \in S : less(j)} /\ B = {j \in S : next(j)}
  OBVIOUS
<1> HIDE DEF less, next, A, B
<1>5. i \in S => B = A \cup {i} /\ i \notin A
  BY <1>2, <1>3, <1>4
<1>6. i \notin S => B = A
  BY <1>2, <1>4
<1>7. i \notin A => Cardinality(A \cup {i}) = Cardinality(A) + 1
  BY <1>1, FS_AddElement
<1>8. Place(S, i) = Cardinality(A) /\ Place(S, i + 1) = Cardinality(B)
  BY DEF Place, A, B
<1>9. QED
  BY <1>1, <1>5, <1>6, <1>7, <1>8

LEMMA PlaceLast ==
    ASSUME NEW S \in SUBSET Nat, IsFiniteSet(S), NEW n \in Nat, \A j \in S : j < n
    PROVE  /\ Cardinality(S) \in Nat /\ Cardinality(S \cup {n}) = Cardinality(S) + 1
           /\ Place(S \cup {n}, n) = Cardinality(S)
           /\ \A k \in S : Place(S \cup {n}, k) = Place(S, k)
<1>1. n \notin S
  OBVIOUS
<1> DEFINE less(j) == j < n
<1>2. ~less(n) /\ \A j \in S : less(j)
  OBVIOUS
<1>3. {j \in S \cup {n} : less(j)} = S
  <2> HIDE DEF less
  <2>1. QED
    BY <1>2
<1>4. {j \in S \cup {n} : j < n} = S
  BY <1>3
<1>5. \A k \in S : {j \in S \cup {n} : j < k} = {j \in S : j < k}
  OBVIOUS
<1>6. QED
  BY <1>1, <1>4, <1>5, FS_AddElement, FS_CardinalityType DEF Place

LEMMA CallSets ==
    ASSUME TypeInv, NEW c
    PROVE  /\ Matching(c) \subseteq Nat /\ IsFiniteSet(Matching(c))
           /\ Got(c) \subseteq Nat /\ IsFiniteSet(Got(c)) /\ Len(sink) + 1 \in Nat
           /\ \A k \in Got(c) : k < Len(sink) + 1
           /\ \A j \in Matching(c) : j <= Len(scenario.outputs)
           /\ Cardinality(Got(c)) \in Nat
<1>1. scenario.outputs \in Seq(Range(scenario.outputs)) /\ sink \in Seq(Range(sink))
  BY ScenarioAssumption DEF TypeInv
<1> DEFINE n == Len(scenario.outputs)
           m == Len(sink)
<1>2. n \in Nat /\ m \in Nat /\ DOMAIN scenario.outputs = 1..n /\ DOMAIN sink = 1..m
  BY <1>1, LenProperties
<1> HIDE DEF n, m
<1>3. IsFiniteSet(1..n) /\ IsFiniteSet(1..m)
  BY <1>2, FS_Interval
<1>4. Matching(c) \subseteq 1..n /\ Got(c) \subseteq 1..m
  BY <1>2 DEF Matching, Got
<1>5. IsFiniteSet(Matching(c)) /\ IsFiniteSet(Got(c))
  BY <1>3, <1>4, FS_Subset
<1>6. Cardinality(Got(c)) \in Nat
  BY <1>5, FS_CardinalityType
<1>7. /\ \A k \in Got(c) : k \in Nat /\ k < m + 1
      /\ \A j \in Matching(c) : j \in Nat /\ j <= n
  BY <1>2, <1>4
<1>8. QED
  BY <1>2, <1>5, <1>6, <1>7 DEF n, m

LEMMA GotAppended ==
    ASSUME TypeInv, NEW r, sink' = Append(sink, r), NEW c
    PROVE  /\ r.from = c => Got(c)' = Got(c) \cup {Len(sink) + 1}
           /\ r.from # c => Got(c)' = Got(c)
           /\ sink'[Len(sink) + 1] = r
           /\ \A k \in Got(c) : sink'[k] = sink[k]
<1> DEFINE T == Range(sink) \cup {r}
           n == Len(sink) + 1
<1>1. sink \in Seq(T) /\ r \in T
  BY SeqMonotonic DEF TypeInv
<1> HIDE DEF T
<1>2. /\ DOMAIN sink' = 1..n /\ DOMAIN sink = 1..Len(sink) /\ Len(sink) \in Nat
      /\ \A i \in 1..Len(sink) : sink'[i] = sink[i]
      /\ sink'[n] = r
  BY <1>1, AppendProperties, LenProperties
<1>3. DOMAIN sink' = DOMAIN sink \cup {n} /\ n \notin DOMAIN sink
  BY <1>2
<1> HIDE DEF n
<1>4. /\ r.from = c => Got(c)' = Got(c) \cup {n}
      /\ r.from # c => Got(c)' = Got(c)
  BY <1>2, <1>3 DEF Got
<1>5. QED
  BY <1>2, <1>4 DEF n, Got

(***************************************************************************)
(* Requests of others leave a call alone.                                  *)
(***************************************************************************)
LEMMA CallFrame ==
    ASSUME TypeInv, NEW c, CallInv(c), scenario' = scenario, call'[c] = call[c],
           sink' = sink \/ \E r : sink' = Append(sink, r) /\ r.from # c
    PROVE  CallInv(c)'
<1>1. Got(c)' = Got(c) /\ \A k \in Got(c) : sink'[k] = sink[k]
  <2>1. CASE sink' = sink
    BY <2>1 DEF Got
  <2>2. ASSUME NEW r, sink' = Append(sink, r), r.from # c
        PROVE  Got(c)' = Got(c) /\ \A k \in Got(c) : sink'[k] = sink[k]
    BY <2>2, GotAppended
  <2>3. QED
    BY <2>1, <2>2
<1>2. Matching(c)' = Matching(c) /\ Body(c)' = Body(c)
  BY DEF Matching, Matches, Body
<1>3. \A k \in Got(c) : RequestInv(c, k)'
  BY <1>1, <1>2, SMTT(30) DEF CallInv, RequestInv, Place
<1>4. PostInv(c, call[c].pc, call[c].i, call[c].reader)'
  BY <1>1, <1>2 DEF CallInv, PostInv, Place
<1>5. QED
  BY <1>1, <1>3, <1>4 DEF CallInv

\* The requests so far, when one is added for the output at which the call is.
LEMMA RequestAdded ==
    ASSUME TypeInv, NEW c, CallInv(c), scenario' = scenario, call[c].pc = "post",
           Matches(c, call[c].i), NEW d, NEW r,
           r.from = c, r.to = scenario.outputs[call[c].i].url, r.data = d,
           sink' = Append(sink, r),
           d = call[c].reader \/ call'[c].pc = "failed"
    PROVE  /\ Cardinality(Got(c)') = Cardinality(Got(c)) + 1
           /\ \A k \in Got(c)' : RequestInv(c, k)'
<1> DEFINE G == Got(c)
           M == Matching(c)
<1> PICK n : n = Len(sink) + 1
  OBVIOUS
<1> PICK x : x = call[c].i
  OBVIOUS
<1>1. /\ Got(c)' = G \cup {n} /\ sink'[n] = r /\ \A k \in G : sink'[k] = sink[k]
  BY GotAppended
<1>2. /\ M \subseteq Nat /\ IsFiniteSet(M) /\ G \subseteq Nat /\ IsFiniteSet(G) /\ n \in Nat
      /\ \A k \in G : k < n
  BY CallSets
<1>3. /\ Matching(c)' = M /\ Body(c)' = Body(c) /\ x \in M
  BY DEF Matching, Matches, Body
<1>4. /\ Cardinality(G) = Place(M, x)
      /\ call[c].reader = IF Cardinality(G) = 0 THEN <<Body(c)>> ELSE <<>>
      /\ \A k \in G : RequestInv(c, k)
  BY DEF CallInv, PostInv
<1> HIDE DEF G, M
<1>5. /\ Cardinality(G \cup {n}) = Cardinality(G) + 1
      /\ Place(G \cup {n}, n) = Cardinality(G)
      /\ \A k \in G : Place(G \cup {n}, k) = Place(G, k)
  BY <1>2, PlaceLast
<1>6. ASSUME NEW k \in G PROVE RequestInv(c, k)'
  <2>1. RequestInv(c, k) /\ call[c].pc # "failed"
    BY <1>4
  <2>2. /\ \E i \in M : Place(M, i) = Place(G, k) /\ sink[k].to = scenario.outputs[i].url
        /\ sink[k].data = IF Place(G, k) = 0 THEN <<Body(c)>> ELSE <<>>
    BY <2>1 DEF RequestInv, G, M
  <2>3. Place(G \cup {n}, k) = Place(G, k) /\ sink'[k] = sink[k]
    BY <1>1, <1>5
  <2>4. \A i : Place(Matching(c), i)' = Place(M, i)
    BY <1>3 DEF Place
  <2>5. Place(Got(c), k)' = Place(G, k)
    BY <1>1, <2>3 DEF Place
  <2>6. QED
    BY <1>3, <2>2, <2>3, <2>4, <2>5 DEF RequestInv
<1>7. RequestInv(c, n)'
  <2>1. \A i : Place(Matching(c), i)' = Place(M, i)
    BY <1>3 DEF Place
  <2>2. Place(Got(c), n)' = Cardinality(G)
    BY <1>1, <1>5 DEF Place
  <2>3. Place(M, x) = Cardinality(G) /\ sink'[n].to = scenario.outputs[x].url
    BY <1>1, <1>4
  <2>4. \A j \in G \cup {n} : j <= n
    BY <1>2
  <2>5. \/ sink'[n].data = IF Cardinality(G) = 0 THEN <<Body(c)>> ELSE <<>>
        \/ call'[c].pc = "failed"
    BY <1>1, <1>4
  <2>6. QED
    BY <1>1, <1>3, <2>1, <2>2, <2>3, <2>4, <2>5 DEF RequestInv
<1>8. QED
  BY <1>1, <1>5, <1>6, <1>7 DEF G
-----------------------------------------------------------------------------
LEMMA NextOutputStep ==
    ASSUME TypeInv, CallsInv, NEW c \in DOMAIN scenario.calls, NextOutput(c)
    PROVE  CallInv(c)'
<1>1. /\ UNCHANGED <<scenario, sink>> /\ call[c].pc = "post" /\ ~Matches(c, call[c].i)
      /\ call' = IF call[c].i > Len(scenario.outputs) THEN [call EXCEPT ![c].pc = "done"]
                 ELSE [call EXCEPT ![c].i = @ + 1]
  BY DEF NextOutput
<1>2. c \in DOMAIN call /\ CallInv(c)
  BY DEF CallsInv
<1>3. /\ Got(c)' = Got(c) /\ Matching(c)' = Matching(c) /\ Body(c)' = Body(c)
      /\ \A S, k : Place(S, k)' = Place(S, k)
  BY <1>1 DEF Got, Matching, Matches, Body, Place
<1>4. call[c].i \notin Matching(c) /\ call[c].i \in Nat
  BY <1>1, <1>2 DEF Matching, CallInv, PostInv
<1>5. /\ Place(Matching(c), call[c].i + 1) = Place(Matching(c), call[c].i)
      /\ \A j \in Matching(c) : j \in Nat /\ j <= Len(scenario.outputs)
  BY <1>4, CallSets, PlaceNext
<1>6. /\ call[c].pc = "post" /\ call'[c].pc \in {"post", "done"}
      /\ call'[c].reader = call[c].reader /\ DOMAIN call'[c] = {"pc", "i", "reader"}
      /\ \/ call'[c].i = call[c].i /\ call[c].i > Len(scenario.outputs)
         \/ call'[c].i = call[c].i + 1 /\ call'[c].pc = "post"
  BY <1>1, <1>2 DEF CallInv
<1>7. \A k \in Got(c)' : RequestInv(c, k)'
  BY <1>1, <1>2, <1>3 DEF CallInv, RequestInv, Place
<1>8. PostInv(c, call[c].pc, call[c].i, call[c].reader)'
  <2>1. /\ Cardinality(Got(c)) = Place(Matching(c), call[c].i)
        /\ call[c].reader = IF Cardinality(Got(c)) = 0 THEN <<Body(c)>> ELSE <<>>
    BY <1>2, <1>6 DEF CallInv, PostInv
  <2>2. Place(Matching(c), call'[c].i) = Place(Matching(c), call[c].i) /\ call'[c].i \in Nat
    BY <1>4, <1>5, <1>6
  <2>3. call'[c].pc = "done" => \A j \in Matching(c) : j < call'[c].i
    <3>1. Len(scenario.outputs) \in Nat
      BY LenProperties, ScenarioAssumption DEF TypeInv
    <3>2. QED
      BY <1>4, <1>5, <1>6, <3>1
  <2>4. Place(Matching(c), call[c].i)' = Place(Matching(c), call'[c].i)
    BY <1>3 DEF Place
  <2>5. QED
    BY <1>3, <1>6, <2>1, <2>2, <2>3, <2>4 DEF PostInv
<1>9. QED
  BY <1>6, <1>7, <1>8 DEF CallInv

LEMMA HttpPostStep ==
    ASSUME TypeInv, CallsInv, NEW c \in DOMAIN scenario.calls, HttpPost(c)
    PROVE  CallInv(c)'
<1> PICK r : r = [from |-> c, to |-> scenario.outputs[call[c].i].url, data |-> call[c].reader]
  OBVIOUS
<1>1. /\ scenario' = scenario /\ call[c].pc = "post" /\ Matches(c, call[c].i)
      /\ sink' = Append(sink, r)
      /\ r.from = c /\ r.to = scenario.outputs[call[c].i].url /\ r.data = call[c].reader
      /\ call' = [call EXCEPT ![c].i = @ + 1, ![c].reader = <<>>]
  BY DEF HttpPost, Handle
<1>2. c \in DOMAIN call /\ CallInv(c)
  BY DEF CallsInv
<1>3. /\ Cardinality(Got(c)') = Cardinality(Got(c)) + 1
      /\ \A k \in Got(c)' : RequestInv(c, k)'
  BY <1>1, <1>2, RequestAdded
<1>4. /\ call'[c].pc = "post" /\ call'[c].reader = <<>> /\ call'[c].i = call[c].i + 1
      /\ DOMAIN call'[c] = {"pc", "i", "reader"}
  BY <1>1, <1>2 DEF CallInv
<1>5. /\ Matching(c)' = Matching(c) /\ call[c].i \in Matching(c) /\ call[c].i \in Nat
      /\ Cardinality(Got(c)) = Place(Matching(c), call[c].i)
  BY <1>1, <1>2 DEF Matching, Matches, CallInv, PostInv
<1>6. Place(Matching(c), call[c].i + 1) = Place(Matching(c), call[c].i) + 1
  BY <1>5, CallSets, PlaceNext
<1>7. Place(Matching(c), call[c].i)' = Place(Matching(c), call[c].i + 1)
  BY <1>4, <1>5 DEF Place
<1>8. Cardinality(Got(c)) \in Nat
  BY CallSets
<1>9. PostInv(c, call[c].pc, call[c].i, call[c].reader)'
  <2>1. /\ Cardinality(Got(c)') = Place(Matching(c), call[c].i)' /\ Cardinality(Got(c)') # 0
        /\ call'[c].i \in Nat
    BY <1>3, <1>4, <1>5, <1>6, <1>7, <1>8
  <2>2. QED
    BY <1>4, <2>1 DEF PostInv
<1>10. QED
  BY <1>3, <1>4, <1>9 DEF CallInv

LEMMA HttpPostFailsStep ==
    ASSUME TypeInv, CallsInv, NEW c \in DOMAIN scenario.calls, HttpPostFails(c)
    PROVE  CallInv(c)'
<1> DEFINE t == scenario.outputs[call[c].i].url
<1>1. /\ scenario' = scenario /\ call[c].pc = "post" /\ Matches(c, call[c].i)
      /\ call' = [call EXCEPT ![c].pc = "failed"]
      /\ \/ sink' = sink
         \/ \E d : sink' = Append(sink, [from |-> c, to |-> t, data |-> d])
  BY DEF HttpPostFails, Lost, Handle
<1>2. c \in DOMAIN call /\ CallInv(c)
  BY DEF CallsInv
<1>3. /\ call'[c].pc = "failed" /\ call'[c].i = call[c].i
      /\ DOMAIN call'[c] = {"pc", "i", "reader"}
  BY <1>1, <1>2 DEF CallInv
<1>4. PostInv(c, call[c].pc, call[c].i, call[c].reader)'
  BY <1>2, <1>3 DEF PostInv, CallInv
<1>5. CASE sink' = sink
  <2>1. /\ Got(c)' = Got(c) /\ Matching(c)' = Matching(c) /\ Body(c)' = Body(c)
    BY <1>1, <1>5 DEF Got, Matching, Matches, Body
  <2>2. \A k \in Got(c)' : RequestInv(c, k)'
    BY <1>1, <1>2, <1>3, <1>5, <2>1, ZenonT(60) DEF CallInv, RequestInv, Place
  <2>3. QED
    BY <1>3, <1>4, <2>2 DEF CallInv
<1>6. ASSUME NEW d, sink' = Append(sink, [from |-> c, to |-> t, data |-> d])
      PROVE  CallInv(c)'
  <2> PICK r : r = [from |-> c, to |-> t, data |-> d]
    OBVIOUS
  <2>1. sink' = Append(sink, r) /\ r.from = c /\ r.to = t /\ r.data = d
    BY <1>6
  <2>2. \A k \in Got(c)' : RequestInv(c, k)'
    BY <1>1, <1>2, <1>3, <2>1, RequestAdded
  <2>3. QED
    BY <1>3, <1>4, <2>2 DEF CallInv
<1>7. QED
  BY <1>1, <1>5, <1>6

LEMMA Sender == ASSUME NEW x, NEW t, NEW d PROVE [from |-> x, to |-> t, data |-> d].from = x
OBVIOUS

LEMMA CallsInvStep ==
    ASSUME Inv, CallsInv, [Next]_vars
    PROVE  CallsInv'
<1>1. TypeInv /\ DOMAIN call = DOMAIN scenario.calls /\ \A c \in DOMAIN call : CallInv(c)
  BY DEF Inv, CallsInv
<1>2. CASE UNCHANGED <<scenario, call, sink>>
  BY <1>1, <1>2, CallFrame DEF CallsInv
<1>3. ASSUME NEW p \in ReportingPods, SendResult(p) PROVE CallsInv'
  <2>1. /\ UNCHANGED <<scenario, call>>
        /\ \/ sink' = sink
           \/ \E d : sink' = Append(sink, [from |-> p, to |-> "workloads", data |-> d])
    BY <1>3 DEF SendResult, Lost, Handle, Unchanged
  <2>2. p \notin DOMAIN scenario.calls
    BY <1>1, ScenarioAssumption DEF TypeInv, ReportingPods, Pods
  <2>3. \/ sink' = sink
        \/ \E r : sink' = Append(sink, r) /\ r.from = p
    BY <2>1, Sender
  <2>4. \A c \in DOMAIN call : CallInv(c)'
    BY <1>1, <2>1, <2>2, <2>3, CallFrame
  <2>5. QED
    BY <1>1, <2>1, <2>4 DEF CallsInv
<1>4. ASSUME NEW c \in DOMAIN scenario.calls, NextOutput(c) \/ HttpPost(c) \/ HttpPostFails(c)
      PROVE  CallsInv'
  <2>1. CallInv(c)'
    BY <1>1, <1>4, NextOutputStep, HttpPostStep, HttpPostFailsStep
  <2>2. /\ scenario' = scenario /\ DOMAIN call' = DOMAIN call
        /\ \A b \in DOMAIN call : b # c => call'[b] = call[b]
    BY <1>4 DEF NextOutput, HttpPost, HttpPostFails
  <2>3. \/ sink' = sink
        \/ \E t, d : sink' = Append(sink, [from |-> c, to |-> t, data |-> d])
    BY <1>4 DEF NextOutput, HttpPost, HttpPostFails, Lost, Handle
  <2>4. sink' = sink \/ \E r : sink' = Append(sink, r) /\ r.from = c
    BY <2>3, Sender
  <2>5. \A b \in DOMAIN call : b # c => CallInv(b)'
    BY <1>1, <2>2, <2>4, CallFrame
  <2>6. QED
    BY <1>1, <2>1, <2>2, <2>5 DEF CallsInv
<1>5. ASSUME NEW p \in Pods,
             \/ Make(p) \/ Kubelet(p) \/ Report(p) \/ Ready(p) \/ CountGroupFails(p)
             \/ \E c \in Containers(p) : Crash(p, c)
      PROVE  CallsInv'
  <2>1. UNCHANGED <<scenario, call, sink>>
    BY <1>5 DEF Make, Kubelet, CompleteInit, StartContainer, EndContainer, Report, Crash, Ready,
       ReadyWorkload, CountGroup, CountGroupFails, NoAnswer, ReadyGroup, Unchanged
  <2>2. QED
    BY <1>2, <2>1
<1>6. ASSUME NEW p \in ReportingPods,
             Result(p) \/ \E s \in Helpers(p) : Work(p, s) \/ WorkFails(p, s)
      PROVE  CallsInv'
  <2>1. CASE Parse(p) \/ \E s \in Helpers(p) : Work(p, s) \/ WorkFails(p, s)
    <3>1. UNCHANGED <<scenario, call, sink>>
      BY <2>1 DEF Parse, Work, WorkFails, CountContainers, Countdone,
         CountContainersFails, CountdoneFails, NoAnswer, Unchanged
    <3>2. QED
      BY <1>2, <3>1
  <2>2. QED
    BY <1>3, <1>6, <2>1 DEF Result
<1>7. CASE UNCHANGED vars
  BY <1>2, <1>7 DEF vars
<1>8. QED
  BY <1>4, <1>5, <1>6, <1>7 DEF Next, ReportingPods

(***************************************************************************)
(* doOutput (pkg/output/output.go): for any outputs and any calls, the     *)
(* requests of a call reach the collector in the order of the outputs of   *)
(* its name, each once, up to the first that fails, and all of them when   *)
(* it returns without an error; the data goes with the first one only,     *)
(* whatever else is sent in between and however many requests are lost.    *)
(***************************************************************************)
THEOREM OutputsAreServed == Spec => []OutputsInOrder
<1>1. Init => CallsInv
  <2>1. SUFFICES ASSUME Init PROVE CallsInv
    OBVIOUS
  <2>2. /\ scenario \in Scenarios /\ sink = <<>>
        /\ call = [c \in DOMAIN scenario.calls |->
                      [pc |-> "post", i |-> 1, reader |-> <<Body(c)>>]]
    BY <2>1 DEF Init
  <2>3. ASSUME NEW c \in DOMAIN call PROVE CallInv(c)
    <3>1. Got(c) = {}
      BY <2>2 DEF Got
    <3>2. scenario.outputs \in Seq(Range(scenario.outputs))
      BY <2>2, ScenarioAssumption
    <3>3. {j \in Matching(c) : j < 1} = {}
      <4>1. \A j \in DOMAIN scenario.outputs : j \in Nat /\ j >= 1
        BY <3>2, LenProperties
      <4>2. \A j \in Matching(c) : ~(j < 1)
        BY <4>1 DEF Matching
      <4>3. QED
        BY <4>2
    <3>4. Place(Matching(c), 1) = 0 /\ Cardinality(Got(c)) = 0
      BY <3>1, <3>3, FS_EmptySet DEF Place
    <3>5. /\ call[c].pc = "post" /\ call[c].i = 1 /\ call[c].reader = <<Body(c)>>
          /\ DOMAIN call[c] = {"pc", "i", "reader"}
      BY <2>2, <2>3
    <3>6. QED
      BY <3>1, <3>4, <3>5 DEF CallInv, PostInv
  <2>4. QED
    BY <2>2, <2>3 DEF CallsInv
<1>2. Inv /\ CallsInv /\ [Next]_vars => CallsInv'
  BY CallsInvStep
<1>3. Inv /\ CallsInv => OutputsInOrder
  <2>1. SUFFICES ASSUME Inv, CallsInv, NEW c \in DOMAIN call
                 PROVE  /\ \A k \in Got(c) : RequestInv(c, k)
                        /\ call[c].pc = "done" => Cardinality(Got(c)) = Cardinality(Matching(c))
    BY DEF OutputsInOrder, RequestInv
  <2>2. CallInv(c)
    BY <2>1 DEF CallsInv
  <2>3. ASSUME call[c].pc = "done" PROVE Cardinality(Got(c)) = Cardinality(Matching(c))
    <3>1. /\ Cardinality(Got(c)) = Place(Matching(c), call[c].i)
          /\ \A j \in Matching(c) : j < call[c].i
      BY <2>2, <2>3 DEF CallInv, PostInv
    <3>2. {j \in Matching(c) : j < call[c].i} = Matching(c)
      BY <3>1
    <3>3. QED
      BY <3>1, <3>2 DEF Place
  <2>4. QED
    BY <2>2, <2>3 DEF CallInv
<1>4. QED
  BY <1>1, <1>2, <1>3, InvHolds, PTL DEF Spec
=============================================================================
