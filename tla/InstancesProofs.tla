-------------------------- MODULE InstancesProofs --------------------------
(***************************************************************************)
(* Theorems about Instances: for any number of instances, any runtime and  *)
(* any number of failures and crashes.                                     *)
(***************************************************************************)
EXTENDS Instances, FiniteSetTheorems, SequenceTheorems, WellFoundedInduction, TLAPS

(***************************************************************************)
(* Typing.  The name of an object is a file of its workload's type, the    *)
(* workload and a number.                                                  *)
(***************************************************************************)
ProcFields == {"pc", "i", "todo", "files", "file", "num", "left"}

InRun == {"run", "loaded", "stored"}

NameOK(x) ==
    /\ x = <<x[1], x[2], x[3]>>
    /\ x[2] \in Entries /\ x[1] \in Files(x[2]) /\ x[3] \in Nat

ProcOK(f) ==
    /\ DOMAIN f = ProcFields
    /\ f.i \in Nat
    /\ f.left \in Nat
    /\ f.num \in Int /\ f.num >= -1
    /\ f.pc # "idle" => f.i \in Entries
    /\ \A x \in f.todo : NameOK(x)
    /\ f.pc \in InRun =>
          /\ \A x \in f.todo : Template[x[1]].parser
          /\ \A g \in f.files : g \in Files(f.i) /\ ~Template[g].parser
          /\ f.left # 0 => f.file \in Files(f.i) /\ ~Template[f.file].parser
    /\ f.pc \in {"loaded", "stored"} => f.left # 0

TypeInv ==
    /\ DOMAIN proc = Procs
    /\ \A p \in Procs : ProcOK(proc[p])
    /\ counter \in [DOMAIN Library -> Int]
    /\ \A t \in DOMAIN Library : counter[t] >= -1
    /\ \A p \in Procs : proc[p].pc = "stored" => counter[TypeOf(p)] >= 0
    /\ \A x \in DOMAIN objs : NameOK(x)
    /\ IsFiniteSet(DOMAIN objs)
-----------------------------------------------------------------------------
(***************************************************************************)
(* The constants.                                                          *)
(***************************************************************************)
LEMMA Lengths ==
    /\ Len(Workloads) \in Nat /\ Len(Workloads) >= 1
    /\ Entries = 1..Len(Workloads)
<1>1. PICK T : Workloads \in Seq(T)
  BY InstancesAssumption, Zenon
<1>2. Workloads # <<>>
  BY InstancesAssumption, Zenon
<1>3. QED
  BY <1>1, <1>2, LenProperties, EmptySeq DEF Entries

LEMMA EntryFacts ==
    ASSUME NEW i \in Entries
    PROVE  /\ i \in Nat /\ i >= 1
           /\ Workloads[i].type \in DOMAIN Library
           /\ Workloads[i].count \in Nat
           /\ Files(i) \subseteq DOMAIN Template
<1>1. i \in Nat /\ i >= 1 /\ i \in 1..Len(Workloads)
  BY Lengths
<1>2. Workloads[i] \in [type : DOMAIN Library, count : Nat, rate : Rates \cup {""}]
  <2> DEFINE S == [type : DOMAIN Library, count : Nat, rate : Rates \cup {""}]
  <2>1. Workloads \in Seq(S)
    BY InstancesAssumption, Zenon
  <2> HIDE DEF S
  <2>2. Workloads[i] \in S
    BY <1>1, <2>1, ElementOfSeq
  <2>3. QED
    BY <2>2 DEF S
<1>3. Workloads[i].type \in DOMAIN Library /\ Workloads[i].count \in Nat
  BY <1>2
<1>4. Library[Workloads[i].type] \subseteq DOMAIN Template
  BY <1>3, InstancesAssumption
<1>5. QED
  BY <1>1, <1>3, <1>4 DEF Files

LEMMA TemplateFacts ==
    ASSUME NEW f \in DOMAIN Template
    PROVE  /\ Template[f].kind \in Kinds
           /\ Template[f].role \in {"workload", "helper"}
           /\ Template[f].numbered \in BOOLEAN
           /\ Template[f].duplicate \in BOOLEAN
           /\ Template[f].parser \in BOOLEAN
<1>1. Template[f] \in [kind : Kinds, role : {"workload", "helper"}, numbered : BOOLEAN,
                       duplicate : BOOLEAN, parser : BOOLEAN]
  BY InstancesAssumption, Zenon
<1>2. QED
  BY <1>1

LEMMA FirstIn ==
    ASSUME NEW S, S \subseteq Nat, S # {}
    PROVE  First(S) \in S /\ \A j \in S : First(S) <= j
<1>1. PICK m \in S : \A j \in S : ~(<<j, m>> \in OpToRel(<, Nat))
  BY NatLessThanWellFounded, WFMin
<1>2. \A j \in S : m <= j
  <2>1. \A j \in S : ~(j < m)
    BY <1>1 DEF OpToRel
  <2>2. QED
    BY <2>1
<1>3. QED
  BY <1>2 DEF First

LEMMA LaterIn ==
    ASSUME NEW p, Later(p) # {}
    PROVE  First(Later(p)) \in Later(p) /\ First(Later(p)) \in Entries
<1>1. Later(p) \subseteq Entries /\ Entries \subseteq Nat
  BY EntryFacts DEF Later
<1>2. QED
  BY <1>1, FirstIn

\* Names.
LEMMA NameFacts ==
    ASSUME NEW i \in Entries, NEW f \in Files(i), NEW n \in Nat
    PROVE  /\ NameOK(NameOf(f, i, n))
           /\ NameOf(f, i, n)[1] = f /\ NameOf(f, i, n)[2] = i
           /\ NameOf(f, i, n)[3] = n \/ NameOf(f, i, n)[3] = 0
           /\ Template[f].numbered => NameOf(f, i, n)[3] = n
BY DEF NameOf, NameOK
-----------------------------------------------------------------------------
(***************************************************************************)
(* What the steps of RunWorkload do to where a goroutine is.               *)
(***************************************************************************)
Goes(p, pc, i, todo, files, file, num, left) ==
    /\ DOMAIN proc' = Procs
    /\ \A q \in Procs \ {p} : proc'[q] = proc[q]
    /\ DOMAIN proc'[p] = ProcFields
    /\ proc'[p].pc = pc /\ proc'[p].i = i /\ proc'[p].todo = todo /\ proc'[p].files = files
    /\ proc'[p].file = file /\ proc'[p].num = num /\ proc'[p].left = left

Parsers(i) == {NameOf(f, i, 0) : f \in {g \in Files(i) : Template[g].parser}}
Others(i) == {f \in Files(i) : ~Template[f].parser}

Enters(p, i) == Goes(p, "run", i, Parsers(i), Others(i), Idle.file, 0, 0)
Rests(p) == Goes(p, "idle", 0, {}, {}, Idle.file, 0, 0)

LEMMA IdleFields ==
    /\ DOMAIN Idle = ProcFields
    /\ Idle.pc = "idle" /\ Idle.i = 0 /\ Idle.todo = {} /\ Idle.files = {}
    /\ Idle.num = 0 /\ Idle.left = 0
BY DEF Idle, ProcFields

LEMMA EnterFields ==
    ASSUME NEW i
    PROVE  /\ DOMAIN Enter(i) = ProcFields
           /\ Enter(i).pc = "run" /\ Enter(i).i = i /\ Enter(i).todo = Parsers(i)
           /\ Enter(i).files = Others(i) /\ Enter(i).file = Idle.file
           /\ Enter(i).num = 0 /\ Enter(i).left = 0
<1> DEFINE a == Parsers(i)
           b == Others(i)
<1>1. Enter(i) = [Idle EXCEPT !.pc = "run", !.i = i, !.todo = a, !.files = b]
  BY DEF Enter, Parsers, Others
<1> HIDE DEF a, b
<1>2. QED
  BY <1>1, IdleFields DEF ProcFields, a, b

LEMMA EnterGoes ==
    ASSUME DOMAIN proc = Procs, NEW p \in Procs, NEW i, proc' = [proc EXCEPT ![p] = Enter(i)]
    PROVE  Enters(p, i)
BY EnterFields DEF Enters, Goes

LEMMA IdleGoes ==
    ASSUME DOMAIN proc = Procs, NEW p \in Procs, proc' = [proc EXCEPT ![p] = Idle]
    PROVE  Rests(p)
BY IdleFields DEF Rests, Goes

LEMMA CreateGoes ==
    ASSUME TypeInv, NEW p \in Procs, CreateNext(p)
    PROVE  \E x \in proc[p].todo :
              /\ objs' = WithObject(x) /\ UNCHANGED <<counter, phase, spent>>
              /\ Goes(p, proc[p].pc, proc[p].i, proc[p].todo \ {x}, proc[p].files,
                      proc[p].file, proc[p].num, proc[p].left)
<1>1. DOMAIN proc = Procs /\ DOMAIN proc[p] = ProcFields
  BY DEF TypeInv, ProcOK
<1>2. PICK x \in proc[p].todo : /\ objs' = WithObject(x) /\ UNCHANGED <<counter, phase, spent>>
                                /\ proc' = [proc EXCEPT ![p].todo = @ \ {x}]
  BY DEF CreateNext, CreateObj
<1>3. QED
  BY <1>1, <1>2 DEF Goes, ProcFields

LEMMA PickGoes ==
    ASSUME TypeInv, NEW p \in Procs, PickFile(p)
    PROVE  /\ proc[p].pc = "run" /\ proc[p].todo = {} /\ proc[p].left = 0
           /\ UNCHANGED <<objs, counter, phase, spent>>
           /\ \E f \in proc[p].files :
                 Goes(p, "run", proc[p].i, {}, proc[p].files \ {f}, f, proc[p].num,
                      Workloads[proc[p].i].count)
<1>1. DOMAIN proc = Procs /\ DOMAIN proc[p] = ProcFields
  BY DEF TypeInv, ProcOK
<1> DEFINE c == Workloads[proc[p].i].count
<1>2. PICK f \in proc[p].files :
         proc' = [proc EXCEPT ![p].files = @ \ {f}, ![p].file = f, ![p].left = c]
  BY DEF PickFile
<1>3. /\ proc[p].pc = "run" /\ proc[p].todo = {} /\ proc[p].left = 0
      /\ UNCHANGED <<objs, counter, phase, spent>>
  BY DEF PickFile
<1> HIDE DEF c
<1>4. Goes(p, "run", proc[p].i, {}, proc[p].files \ {f}, f, proc[p].num, c)
  BY <1>1, <1>2, <1>3 DEF Goes, ProcFields
<1>5. QED
  BY <1>3, <1>4 DEF c

LEMMA LoadGoes ==
    ASSUME TypeInv, NEW p \in Procs, Load(p)
    PROVE  /\ proc[p].pc = "run" /\ proc[p].left > 0
           /\ UNCHANGED <<objs, counter, phase, spent>>
           /\ Goes(p, "loaded", proc[p].i, proc[p].todo, proc[p].files, proc[p].file,
                   counter[TypeOf(p)], proc[p].left)
<1>1. DOMAIN proc = Procs /\ DOMAIN proc[p] = ProcFields
  BY DEF TypeInv, ProcOK
<1> DEFINE c == counter[TypeOf(p)]
<1>2. /\ proc' = [proc EXCEPT ![p].pc = "loaded", ![p].num = c]
      /\ proc[p].pc = "run" /\ proc[p].left > 0
      /\ UNCHANGED <<objs, counter, phase, spent>>
  BY DEF Load
<1> HIDE DEF c
<1>3. Goes(p, "loaded", proc[p].i, proc[p].todo, proc[p].files, proc[p].file, c, proc[p].left)
  BY <1>1, <1>2 DEF Goes, ProcFields
<1>4. QED
  BY <1>2, <1>3 DEF c

LEMMA StoreGoes ==
    ASSUME TypeInv, NEW p \in Procs, Store(p)
    PROVE  /\ proc[p].pc = "loaded"
           /\ UNCHANGED <<objs, phase, spent>>
           /\ counter' = [counter EXCEPT ![TypeOf(p)] = proc[p].num + 1]
           /\ Goes(p, "stored", proc[p].i, proc[p].todo, proc[p].files, proc[p].file,
                   proc[p].num, proc[p].left)
<1>1. DOMAIN proc = Procs /\ DOMAIN proc[p] = ProcFields
  BY DEF TypeInv, ProcOK
<1>2. /\ proc' = [proc EXCEPT ![p].pc = "stored"]
      /\ proc[p].pc = "loaded" /\ UNCHANGED <<objs, phase, spent>>
      /\ counter' = [counter EXCEPT ![TypeOf(p)] = proc[p].num + 1]
  BY DEF Store
<1>3. QED
  BY <1>1, <1>2 DEF Goes, ProcFields

LEMMA PrepareGoes ==
    ASSUME TypeInv, NEW p \in Procs, PrepareAndRun(p)
    PROVE  /\ proc[p].pc = "stored"
           /\ UNCHANGED <<counter, phase, spent>>
           /\ objs' = WithObject(Target(p))
           /\ Goes(p, "run", proc[p].i, proc[p].todo, proc[p].files, proc[p].file,
                   proc[p].num, proc[p].left - 1)
<1>1. DOMAIN proc = Procs /\ DOMAIN proc[p] = ProcFields
  BY DEF TypeInv, ProcOK
<1>2. /\ proc' = [proc EXCEPT ![p].pc = "run", ![p].left = @ - 1]
      /\ proc[p].pc = "stored" /\ UNCHANGED <<counter, phase, spent>>
      /\ objs' = WithObject(Target(p))
  BY DEF PrepareAndRun, CreateObj
<1>3. QED
  BY <1>1, <1>2 DEF Goes, ProcFields

LEMMA NextGoes ==
    ASSUME TypeInv, NEW p \in Procs, NextWorkload(p)
    PROVE  /\ proc[p].pc = "run" /\ Finished(p)
           /\ UNCHANGED <<objs, counter, spent>>
           /\ \/ Later(p) # {} /\ Enters(p, First(Later(p))) /\ UNCHANGED phase
              \/ /\ Later(p) = {} /\ Rests(p)
                 /\ phase' = IF p = "main" THEN "initializing" ELSE phase
<1>1. DOMAIN proc = Procs
  BY DEF TypeInv
<1>2. /\ proc[p].pc = "run" /\ Finished(p) /\ UNCHANGED <<objs, counter, spent>>
      /\ \/ /\ Later(p) # {} /\ UNCHANGED phase
            /\ proc' = [proc EXCEPT ![p] = Enter(First(Later(p)))]
         \/ /\ Later(p) = {} /\ proc' = [proc EXCEPT ![p] = Idle]
            /\ phase' = IF p = "main" THEN "initializing" ELSE phase
  BY DEF NextWorkload
<1>3. QED
  BY <1>1, <1>2, EnterGoes, IdleGoes

LEMMA FailGoes ==
    ASSUME TypeInv, NEW p \in Procs, RunFails(p)
    PROVE  /\ proc[p].pc \in {"run", "stored"}
           /\ spent' = [spent EXCEPT !.faults = @ + 1]
           /\ UNCHANGED <<counter, phase>>
           /\ \/ UNCHANGED objs
              \/ proc[p].pc = "stored" /\ objs' = WithObject(Target(p))
           /\ \/ p = "main" /\ Enters(p, 1)
              \/ p # "main" /\ Later(p) # {} /\ Enters(p, First(Later(p)))
              \/ p # "main" /\ Rests(p)
<1>1. DOMAIN proc = Procs
  BY DEF TypeInv
<1>2. /\ proc[p].pc \in {"run", "stored"} /\ UNCHANGED <<counter, phase>>
      /\ spent' = [spent EXCEPT !.faults = @ + 1]
      /\ \/ UNCHANGED objs
         \/ proc[p].pc = "stored" /\ objs' = WithObject(Target(p))
      /\ \/ p = "main" /\ proc' = [proc EXCEPT ![p] = Enter(1)]
         \/ /\ p # "main" /\ Later(p) # {}
            /\ proc' = [proc EXCEPT ![p] = Enter(First(Later(p)))]
         \/ p # "main" /\ proc' = [proc EXCEPT ![p] = Idle]
  BY DEF RunFails
<1>3. QED
  BY <1>1, <1>2, EnterGoes, IdleGoes

LEMMA WithObjectFacts ==
    ASSUME NEW x
    PROVE  /\ DOMAIN WithObject(x) = DOMAIN objs \cup {x}
           /\ \A y \in DOMAIN objs : WithObject(x)[y] = objs[y]
           /\ x \notin DOMAIN objs => WithObject(x)[x] = "created"
BY DEF WithObject

\* What exists after a step, if it did not add an object of another kind of name.
ObjsOK == IsFiniteSet(DOMAIN objs') /\ \A y \in DOMAIN objs' : NameOK(y)

LEMMA WithObjectOK ==
    ASSUME TypeInv, UNCHANGED objs \/ \E x : NameOK(x) /\ objs' = WithObject(x)
    PROVE  ObjsOK
<1>1. CASE UNCHANGED objs
  BY <1>1 DEF TypeInv, ObjsOK
<1>2. ASSUME NEW x, NameOK(x), objs' = WithObject(x) PROVE ObjsOK
  <2>1. DOMAIN objs' = DOMAIN objs \cup {x}
    BY <1>2, WithObjectFacts
  <2>2. IsFiniteSet(DOMAIN objs \cup {x})
    BY FS_AddElement DEF TypeInv
  <2>3. QED
    BY <1>2, <2>1, <2>2 DEF TypeInv, ObjsOK
<1>3. QED
  BY <1>1, <1>2
-----------------------------------------------------------------------------
(***************************************************************************)
(* RunWorkload keeps the types.                                            *)
(***************************************************************************)
LEMMA EntersOK ==
    ASSUME TypeInv, NEW p \in Procs, NEW i \in Entries, Enters(p, i)
    PROVE  DOMAIN proc' = Procs /\ \A q \in Procs : ProcOK(proc'[q])
<1>1. \A x \in Parsers(i) : NameOK(x) /\ Template[x[1]].parser
  BY NameFacts DEF Parsers
<1>2. \A g \in Others(i) : g \in Files(i) /\ ~Template[g].parser
  BY DEF Others
<1>3. i \in Nat
  BY EntryFacts
<1>4. ProcOK(proc'[p])
  BY <1>1, <1>2, <1>3 DEF Enters, Goes, ProcOK, InRun
<1>5. QED
  BY <1>4 DEF Enters, Goes, TypeInv

LEMMA RestsOK ==
    ASSUME TypeInv, NEW p \in Procs, Rests(p)
    PROVE  DOMAIN proc' = Procs /\ \A q \in Procs : ProcOK(proc'[q])
<1>1. ProcOK(proc'[p])
  BY DEF Rests, Goes, ProcOK, InRun
<1>2. QED
  BY <1>1 DEF Rests, Goes, TypeInv

LEMMA TargetOK ==
    ASSUME TypeInv, NEW p \in Procs, proc[p].pc = "stored"
    PROVE  /\ proc[p].i \in Entries
           /\ proc[p].file \in Files(proc[p].i) /\ ~Template[proc[p].file].parser
           /\ counter[TypeOf(p)] \in Nat
           /\ NameOK(Target(p))
<1>1. proc[p].i \in Entries /\ proc[p].file \in Files(proc[p].i) /\ ~Template[proc[p].file].parser
  BY DEF TypeInv, ProcOK, InRun
<1>2. TypeOf(p) \in DOMAIN Library
  BY <1>1, EntryFacts DEF TypeOf
<1>3. counter[TypeOf(p)] \in Nat
  BY <1>2 DEF TypeInv
<1>4. QED
  BY <1>1, <1>3, NameFacts DEF Target

LEMMA RunTypes ==
    ASSUME TypeInv, NEW p \in Procs, RunWorkload(p)
    PROVE  TypeInv'
<1>1. /\ DOMAIN proc = Procs /\ (\A q \in Procs : ProcOK(proc[q])) /\ ProcOK(proc[p])
      /\ counter \in [DOMAIN Library -> Int]
      /\ \A t \in DOMAIN Library : counter[t] >= -1
      /\ \A q \in Procs : proc[q].pc = "stored" => counter[TypeOf(q)] >= 0
      /\ \A x \in DOMAIN objs : NameOK(x)
  BY DEF TypeInv
<1>2. UNCHANGED objs => ObjsOK
  BY WithObjectOK
<1>3. ASSUME UNCHANGED counter, DOMAIN proc' = Procs, \A q \in Procs : ProcOK(proc'[q]),
             \A q \in Procs \ {p} : proc'[q] = proc[q],
             proc'[p].pc # "stored", ObjsOK
      PROVE  TypeInv'
  BY <1>1, <1>3 DEF TypeInv, TypeOf, ObjsOK
<1>4. CASE CreateNext(p)
  <2>1. PICK x \in proc[p].todo :
              /\ objs' = WithObject(x) /\ UNCHANGED counter
              /\ Goes(p, proc[p].pc, proc[p].i, proc[p].todo \ {x}, proc[p].files,
                      proc[p].file, proc[p].num, proc[p].left)
    BY <1>4, CreateGoes
  <2>2. NameOK(x)
    BY <1>1 DEF ProcOK
  <2>3. ProcOK(proc'[p])
    BY <1>1, <2>1 DEF ProcOK, Goes
  <2>4. ObjsOK
    BY <2>1, <2>2, WithObjectOK
  <2>5. \A q \in Procs : proc'[q].pc = proc[q].pc /\ proc'[q].i = proc[q].i
    BY <2>1 DEF Goes
  <2>6. QED
    BY <1>1, <2>1, <2>3, <2>4, <2>5 DEF TypeInv, TypeOf, Goes, ObjsOK
<1>5. CASE PickFile(p)
  <2>1. PICK f \in proc[p].files :
                 Goes(p, "run", proc[p].i, {}, proc[p].files \ {f}, f, proc[p].num,
                      Workloads[proc[p].i].count)
    BY <1>5, PickGoes
  <2>2. proc[p].pc = "run" /\ UNCHANGED <<objs, counter>>
    BY <1>5, PickGoes
  <2>3. proc[p].i \in Entries /\ Workloads[proc[p].i].count \in Nat
    BY <1>1, <2>2, EntryFacts DEF ProcOK
  <2>4. ProcOK(proc'[p])
    BY <1>1, <2>1, <2>2, <2>3 DEF ProcOK, Goes, InRun
  <2>5. QED
    BY <1>1, <1>2, <1>3, <2>1, <2>2, <2>4 DEF Goes
<1>6. CASE Load(p)
  <2>1. /\ proc[p].pc = "run" /\ proc[p].left > 0 /\ UNCHANGED <<objs, counter>>
        /\ Goes(p, "loaded", proc[p].i, proc[p].todo, proc[p].files, proc[p].file,
                counter[TypeOf(p)], proc[p].left)
    BY <1>6, LoadGoes
  <2>2. counter[TypeOf(p)] \in Int /\ counter[TypeOf(p)] >= -1
    BY <1>1, <2>1, EntryFacts DEF ProcOK, TypeOf
  <2>3. ProcOK(proc'[p])
    BY <1>1, <2>1, <2>2 DEF ProcOK, Goes, InRun
  <2>4. QED
    BY <1>1, <1>2, <1>3, <2>1, <2>3 DEF Goes
<1>7. CASE Store(p)
  <2>1. /\ proc[p].pc = "loaded" /\ UNCHANGED objs
        /\ counter' = [counter EXCEPT ![TypeOf(p)] = proc[p].num + 1]
        /\ Goes(p, "stored", proc[p].i, proc[p].todo, proc[p].files, proc[p].file,
                proc[p].num, proc[p].left)
    BY <1>7, StoreGoes
  <2>2. proc[p].num \in Int /\ proc[p].num >= -1 /\ TypeOf(p) \in DOMAIN Library
    BY <1>1, <2>1, EntryFacts DEF ProcOK, TypeOf
  <2>3. ProcOK(proc'[p])
    BY <1>1, <2>1, <2>2 DEF ProcOK, Goes, InRun
  <2>4. /\ counter' \in [DOMAIN Library -> Int] /\ counter'[TypeOf(p)] >= 0
        /\ \A t \in DOMAIN Library : counter'[t] >= -1 /\ (counter[t] >= 0 => counter'[t] >= 0)
    BY <1>1, <2>1, <2>2
  <2>5. \A q \in Procs : proc'[q].i = proc[q].i
    BY <2>1 DEF Goes
  <2>6. \A q \in Procs : proc[q].pc = "stored" => TypeOf(q) \in DOMAIN Library
    BY <1>1, EntryFacts DEF ProcOK, TypeOf
  <2>7. \A q \in Procs : proc'[q].pc = "stored" => counter'[Workloads[proc'[q].i].type] >= 0
    BY <1>1, <2>1, <2>4, <2>5, <2>6 DEF Goes, TypeOf
  <2>8. QED
    BY <1>1, <1>2, <2>1, <2>3, <2>4, <2>7 DEF Goes, TypeInv, TypeOf, ObjsOK
<1>8. CASE PrepareAndRun(p)
  <2>1. /\ proc[p].pc = "stored" /\ UNCHANGED counter
        /\ objs' = WithObject(Target(p))
        /\ Goes(p, "run", proc[p].i, proc[p].todo, proc[p].files, proc[p].file,
                proc[p].num, proc[p].left - 1)
    BY <1>8, PrepareGoes
  <2>2. ProcOK(proc'[p])
    BY <1>1, <2>1 DEF ProcOK, Goes, InRun
  <2>3. ObjsOK
    BY <2>1, TargetOK, WithObjectOK
  <2>4. QED
    BY <1>1, <1>3, <2>1, <2>2, <2>3 DEF Goes
<1>9. CASE NextWorkload(p)
  <2>1. /\ UNCHANGED <<objs, counter>>
        /\ (Later(p) # {} /\ Enters(p, First(Later(p)))) \/ Rests(p)
    BY <1>9, NextGoes
  <2>2. DOMAIN proc' = Procs /\ \A q \in Procs : ProcOK(proc'[q])
    BY <2>1, LaterIn, EntersOK, RestsOK
  <2>3. QED
    BY <1>1, <1>2, <1>3, <2>1, <2>2 DEF Goes, Enters, Rests
<1>10. CASE RunFails(p)
  <2>1. /\ UNCHANGED counter
        /\ \/ UNCHANGED objs
           \/ proc[p].pc = "stored" /\ objs' = WithObject(Target(p))
        /\ \/ Enters(p, 1)
           \/ Later(p) # {} /\ Enters(p, First(Later(p)))
           \/ Rests(p)
    BY <1>10, FailGoes
  <2>2. 1 \in Entries
    BY Lengths
  <2>3. DOMAIN proc' = Procs /\ \A q \in Procs : ProcOK(proc'[q])
    BY <2>1, <2>2, LaterIn, EntersOK, RestsOK
  <2>4. ObjsOK
    BY <2>1, TargetOK, WithObjectOK
  <2>5. QED
    BY <1>3, <2>1, <2>3, <2>4 DEF Goes, Enters, Rests
<1>11. QED
  BY <1>4, <1>5, <1>6, <1>7, <1>8, <1>9, <1>10 DEF RunWorkload

LEMMA StartOK ==
    ProcOK(Enter(1)) /\ ProcOK(Idle) /\ Enter(1).pc = "run" /\ Idle.pc = "idle"
<1>1. /\ \A x \in Parsers(1) : NameOK(x) /\ Template[x[1]].parser
      /\ \A g \in Others(1) : g \in Files(1) /\ ~Template[g].parser
      /\ 1 \in Entries
  BY NameFacts, Lengths DEF Parsers, Others
<1>2. ProcOK(Enter(1))
  BY <1>1, EnterFields DEF ProcOK, InRun
<1>3. ProcOK(Idle)
  BY IdleFields DEF ProcOK, InRun
<1>4. QED
  BY <1>2, <1>3, IdleFields, EnterFields

LEMMA InitTypes == Init => TypeInv
<1> SUFFICES ASSUME Init PROVE TypeInv
  OBVIOUS
<1>1. /\ proc = [p \in Procs |-> IF p = "main" THEN Enter(1) ELSE Idle]
      /\ objs = << >> /\ counter = [t \in DOMAIN Library |-> -1]
  BY DEF Init
<1>2. DOMAIN objs = {} /\ IsFiniteSet(DOMAIN objs)
  BY <1>1, FS_EmptySet
<1>3. QED
  BY <1>1, <1>2, StartOK DEF TypeInv
-----------------------------------------------------------------------------
(***************************************************************************)
(* Counting.  Done: the objects of a workload that are complete, or will   *)
(* be when their Job notices that its pod is; Noticed: the Jobs that have. *)
(***************************************************************************)
Ended == {"podSucceeded", "succeeded", "restarted", "bound"}

OfEntry(v, i) == {x \in DOMAIN v : x[2] = i /\ Template[x[1]].role = "workload"}

Done(v, i) == {x \in OfEntry(v, i) : v[x] \in Ended}

Noticed(v, i) == {x \in OfEntry(v, i) : Template[x[1]].kind = "Job" /\ v[x] = "succeeded"}

Counted(v, i) == Cardinality(Done(v, i)) + Cardinality(Noticed(v, i))

LEMMA OfEntryFinite ==
    ASSUME NEW v, IsFiniteSet(DOMAIN v), NEW i
    PROVE  /\ IsFiniteSet(Done(v, i)) /\ IsFiniteSet(Noticed(v, i))
           /\ Cardinality(Done(v, i)) \in Nat /\ Cardinality(Noticed(v, i)) \in Nat
           /\ Counted(v, i) \in Nat
<1>1. Done(v, i) \in SUBSET DOMAIN v /\ Noticed(v, i) \in SUBSET DOMAIN v
  BY DEF OfEntry, Done, Noticed
<1>2. IsFiniteSet(Done(v, i)) /\ IsFiniteSet(Noticed(v, i))
  BY <1>1, FS_Subset
<1>3. Cardinality(Done(v, i)) \in Nat /\ Cardinality(Noticed(v, i)) \in Nat
  BY <1>2, FS_CardinalityType
<1>4. QED
  BY <1>2, <1>3 DEF Counted

\* Cardinalities of the parts of a finite set.
LEMMA PartCards ==
    ASSUME NEW S, IsFiniteSet(S), NEW A \in SUBSET S, NEW B \in SUBSET S, A \cap B = {}
    PROVE  /\ Cardinality(A) \in Nat /\ Cardinality(B) \in Nat /\ Cardinality(S) \in Nat
           /\ Cardinality(A \cup B) = Cardinality(A) + Cardinality(B)
           /\ Cardinality(A) + Cardinality(B) <= Cardinality(S)
<1>1. IsFiniteSet(A) /\ IsFiniteSet(B)
  BY FS_Subset
<1>2. Cardinality(A \cup B) = Cardinality(A) + Cardinality(B) - Cardinality(A \cap B)
  BY <1>1, FS_Union
<1>3. Cardinality(A \cap B) = 0
  BY FS_EmptySet
<1>4. Cardinality(A) \in Nat /\ Cardinality(B) \in Nat /\ Cardinality(S) \in Nat
  BY <1>1, FS_CardinalityType
<1>5. A \cup B \in SUBSET S
  OBVIOUS
<1>6. Cardinality(A \cup B) <= Cardinality(S)
  BY <1>5, FS_Subset
<1>7. QED
  BY <1>2, <1>3, <1>4, <1>6

\* CountCompletions counts an object once, and a Job that has noticed twice.
LEMMA CountFacts ==
    ASSUME NEW v, IsFiniteSet(DOMAIN v), NEW i
    PROVE  /\ CountCompletions(v, i).complete \in Nat
           /\ CountCompletions(v, i).notcomplete \in Nat
           /\ CountCompletions(v, i).complete <= Counted(v, i)
<1> DEFINE P == Listed(v, i, "Pod")
           J == Listed(v, i, "Job")
           S == Listed(v, i, "StatefulSet")
           C == Listed(v, i, "PersistentVolumeClaim")
           PA == P \cup {x \in J \cup S : v[x] # "created"}
           PD == {x \in PA : v[x] \in {"podSucceeded", "succeeded"}}
           JD == {x \in J : v[x] = "succeeded"}
           SD == {x \in S : v[x] = "restarted"}
           CD == {x \in C : v[x] = "bound"}
           D == Done(v, i)
<1>1. /\ P \subseteq DOMAIN v /\ S \subseteq DOMAIN v /\ C \subseteq DOMAIN v
      /\ J \subseteq DOMAIN v /\ PA \subseteq DOMAIN v
  BY DEF Listed
<1>2. JD = Noticed(v, i)
  BY DEF Noticed, OfEntry, Listed
<1>3. PD \subseteq D /\ SD \subseteq D /\ CD \subseteq D
  BY DEF Done, OfEntry, Ended, Listed
<1>4. PD \cap SD = {} /\ (PD \cup SD) \cap CD = {}
  OBVIOUS
<1>5. /\ IsFiniteSet(D) /\ Cardinality(D) \in Nat
      /\ Cardinality(JD) \in Nat /\ Counted(v, i) = Cardinality(D) + Cardinality(JD)
  BY <1>2, OfEntryFinite DEF Counted
<1> DEFINE pa == Tally(PA, PD)
           ja == Tally(J, JD)
           sa == StatefulSetsComplete(v, i)
           ca == Tally(C, CD)
<1>6. CountCompletions(v, i) = Plus(Plus(pa, ja), Plus(sa, ca))
  BY DEF CountCompletions, PodsComplete, JobsComplete, PVCsComplete
<1>7. sa = Tally(S, SD) \/ sa = Tally({}, {})
  BY DEF StatefulSetsComplete
<1>8. ASSUME NEW A \in SUBSET DOMAIN v, NEW B \in SUBSET A
      PROVE  /\ Tally(A, B).complete = Cardinality(B)
             /\ Tally(A, B).complete \in Nat /\ Tally(A, B).notcomplete \in Nat
  <2>1. IsFiniteSet(A) /\ IsFiniteSet(B)
    BY FS_Subset
  <2>2. IsFiniteSet(A \ B)
    BY <2>1, FS_Difference
  <2>3. Cardinality(B) \in Nat /\ Cardinality(A \ B) \in Nat
    BY <2>1, <2>2, FS_CardinalityType
  <2>4. QED
    BY <2>3 DEF Tally
<1>9. /\ pa.complete = Cardinality(PD) /\ pa.complete \in Nat /\ pa.notcomplete \in Nat
      /\ ca.complete = Cardinality(CD) /\ ca.complete \in Nat /\ ca.notcomplete \in Nat
  BY <1>1, <1>8
<1>10. ja.complete = Cardinality(JD) /\ ja.complete \in Nat /\ ja.notcomplete \in Nat
  BY <1>1, <1>8
<1>11. /\ sa.complete \in Nat /\ sa.notcomplete \in Nat
       /\ sa.complete = Cardinality(SD) \/ sa.complete = 0
  BY <1>1, <1>7, <1>8, FS_EmptySet
<1>12. Cardinality(PD) + Cardinality(SD) + Cardinality(CD) <= Cardinality(D)
  <2> HIDE DEF PD, SD, CD, D
  <2>1. Cardinality(PD \cup SD) = Cardinality(PD) + Cardinality(SD)
    BY <1>3, <1>4, <1>5, PartCards, SMTT(30)
  <2>2. Cardinality(PD \cup SD) + Cardinality(CD) <= Cardinality(D)
    BY <1>3, <1>4, <1>5, PartCards
  <2>3. QED
    BY <2>1, <2>2
<1>13. Cardinality(PD) \in Nat /\ Cardinality(SD) \in Nat /\ Cardinality(CD) \in Nat
  <2>1. IsFiniteSet(PD) /\ IsFiniteSet(SD) /\ IsFiniteSet(CD)
    BY <1>3, <1>5, FS_Subset
  <2>2. QED
    BY <2>1, FS_CardinalityType
<1> HIDE DEF pa, ja, sa, ca, PD, JD, SD, CD, D
<1>14. /\ CountCompletions(v, i).complete = (pa.complete + ja.complete) + (sa.complete + ca.complete)
       /\ CountCompletions(v, i).notcomplete =
             (pa.notcomplete + ja.notcomplete) + (sa.notcomplete + ca.notcomplete)
  BY <1>6 DEF Plus
<1>15. QED
  BY <1>5, <1>9, <1>10, <1>11, <1>12, <1>13, <1>14
-----------------------------------------------------------------------------
(***************************************************************************)
(* The inductive invariant.                                                *)
(*                                                                         *)
(* SeenInv: what the informer has seen is an earlier state of the objects, *)
(* and what is complete stays so.  PcInv: so what Reconcile has found out  *)
(* from its lists still holds when it is used.  FillInv: no Benchmark in   *)
(* the queue means that everything the lists in the cache call for is      *)
(* there.                                                                  *)
(***************************************************************************)
MainAt == proc["main"]

SeenInv ==
    /\ IsFiniteSet(DOMAIN objs) /\ IsFiniteSet(DOMAIN seen)
    /\ DOMAIN seen \subseteq DOMAIN objs
    /\ \A x \in DOMAIN seen : /\ seen[x] \in Ended => objs[x] \in Ended
                              /\ seen[x] = "succeeded" => objs[x] = "succeeded"

AllDone(i) == Counted(objs, i) >= Workloads[i].count

PcInv ==
    /\ MainAt.pc \in InRun \cup {"idle", "check", "count", "topup"}
    /\ MainAt.pc \in InRun <=> phase = "starting"
    /\ MainAt.pc \in {"idle", "check", "count"} => MainAt.todo = {}
    /\ MainAt.pc = "check" => /\ ~runtime /\ phase = "running"
                              /\ \A j \in Entries : j < MainAt.i => AllDone(j)
    /\ MainAt.pc \in {"count", "topup"} => runtime /\ phase = "running"
    /\ phase = "complete" /\ ~runtime => \A j \in Entries : AllDone(j)

Wanted(i) == Missing(i, CountCompletions(seen, i))

FillInv ==
    runtime /\ phase = "running" /\ ~queued =>
        /\ MainAt.pc = "idle" => \A i \in Entries : Wanted(i) \subseteq DOMAIN objs
        /\ MainAt.pc \in {"count", "topup"} =>
              \A i \in Entries : i < MainAt.i => Wanted(i) \subseteq DOMAIN objs
        /\ MainAt.pc = "topup" => Wanted(MainAt.i) \subseteq DOMAIN objs \cup MainAt.todo

Inv == TypeInv /\ SeenInv /\ PcInv /\ FillInv
-----------------------------------------------------------------------------
(***************************************************************************)
(* What the other steps do.                                                *)
(***************************************************************************)
LEMMA RunFrame ==
    ASSUME NEW p, RunWorkload(p)
    PROVE  UNCHANGED <<runtime, seen, queued>>
<1>1. CASE CreateNext(p) \/ PrepareAndRun(p)
  BY <1>1 DEF CreateNext, PrepareAndRun, CreateObj
<1>2. CASE PickFile(p)
  BY <1>2 DEF PickFile
<1>3. CASE Load(p) \/ Store(p)
  BY <1>3 DEF Load, Store
<1>4. CASE NextWorkload(p) \/ RunFails(p)
  BY <1>4 DEF NextWorkload, RunFails
<1>5. QED
  BY <1>1, <1>2, <1>3, <1>4 DEF RunWorkload

GoesAt(pc, i) == Goes("main", pc, i, {}, {}, Idle.file, 0, 0)

LEMMA AtGoes ==
    ASSUME TypeInv, NEW pc, NEW i, proc' = [proc EXCEPT !["main"] = At(pc, i)]
    PROVE  GoesAt(pc, i)
<1>1. "main" \in Procs /\ DOMAIN proc = Procs
  BY DEF Procs, TypeInv
<1>2. At(pc, i) = [Idle EXCEPT !.pc = pc, !.i = i]
  BY DEF At
<1>3. QED
  BY <1>1, <1>2, IdleFields DEF GoesAt, Goes, ProcFields

LEMMA MainRests ==
    ASSUME TypeInv, proc' = [proc EXCEPT !["main"] = Idle]
    PROVE  GoesAt("idle", 0)
<1>1. "main" \in Procs /\ DOMAIN proc = Procs
  BY DEF Procs, TypeInv
<1>2. QED
  BY <1>1, IdleGoes DEF Rests, GoesAt

LEMMA ReconcileGoes ==
    ASSUME TypeInv, Reconcile
    PROVE  /\ phase = "running" /\ MainAt.pc = "idle"
           /\ UNCHANGED <<runtime, objs, seen, counter, spent>>
           /\ \/ runtime /\ phase' = "complete" /\ UNCHANGED proc
              \/ UNCHANGED phase /\ runtime /\ GoesAt("count", 1)
              \/ UNCHANGED phase /\ ~runtime /\ GoesAt("check", 1)
<1>1. \/ runtime /\ phase' = "complete" /\ UNCHANGED proc
      \/ UNCHANGED phase /\ runtime /\ proc' = [proc EXCEPT !["main"] = At("count", 1)]
      \/ UNCHANGED phase /\ ~runtime /\ proc' = [proc EXCEPT !["main"] = At("check", 1)]
  BY DEF Reconcile
<1>2. /\ phase = "running" /\ MainAt.pc = "idle"
      /\ UNCHANGED <<runtime, objs, seen, counter, spent>>
  BY DEF Reconcile, MainAt
<1>3. QED
  BY <1>1, <1>2, AtGoes

LEMMA CheckGoes ==
    ASSUME TypeInv, CheckCompletions
    PROVE  /\ MainAt.pc = "check"
           /\ UNCHANGED <<runtime, objs, seen, counter, spent, queued>>
           /\ \/ UNCHANGED phase /\ GoesAt("idle", 0)
              \/ /\ CountCompletions(seen, MainAt.i).complete >= Workloads[MainAt.i].count
                 /\ \/ MainAt.i < Len(Workloads) /\ UNCHANGED phase /\ GoesAt("check", MainAt.i + 1)
                    \/ MainAt.i = Len(Workloads) /\ phase' = "complete" /\ GoesAt("idle", 0)
<1> DEFINE i == proc["main"].i
           c == CountCompletions(seen, i)
<1>1. \/ proc' = [proc EXCEPT !["main"] = Idle] /\ UNCHANGED phase
      \/ /\ c.complete >= Workloads[i].count /\ i < Len(Workloads)
         /\ proc' = [proc EXCEPT !["main"] = At("check", i + 1)] /\ UNCHANGED phase
      \/ /\ c.complete >= Workloads[i].count /\ i = Len(Workloads)
         /\ proc' = [proc EXCEPT !["main"] = Idle] /\ phase' = "complete"
  BY DEF CheckCompletions
<1>2. MainAt.pc = "check" /\ UNCHANGED <<runtime, objs, seen, counter, spent, queued>>
  BY DEF CheckCompletions, MainAt
<1> HIDE DEF c
<1>3. QED
  BY <1>1, <1>2, AtGoes, MainRests DEF MainAt, c

LEMMA CountGoes ==
    ASSUME TypeInv, CountInstances
    PROVE  /\ MainAt.pc = "count"
           /\ UNCHANGED <<runtime, objs, seen, counter, spent, queued, phase>>
           /\ Goes("main", "topup", MainAt.i, Wanted(MainAt.i), MainAt.files, MainAt.file,
                   MainAt.num, MainAt.left)
<1>1. "main" \in Procs /\ DOMAIN proc = Procs /\ DOMAIN proc["main"] = ProcFields
  BY DEF Procs, TypeInv, ProcOK
<1> DEFINE w == Wanted(proc["main"].i)
<1>2. /\ proc' = [proc EXCEPT !["main"].pc = "topup", !["main"].todo = w]
      /\ MainAt.pc = "count"
      /\ UNCHANGED <<runtime, objs, seen, counter, spent, queued, phase>>
  BY DEF CountInstances, Wanted, MainAt
<1> HIDE DEF w
<1>3. Goes("main", "topup", MainAt.i, w, MainAt.files, MainAt.file, MainAt.num, MainAt.left)
  BY <1>1, <1>2 DEF Goes, ProcFields, MainAt
<1>4. QED
  BY <1>2, <1>3 DEF w, MainAt

LEMMA TopUpGoes ==
    ASSUME TypeInv, TopUpDone
    PROVE  /\ MainAt.pc = "topup" /\ MainAt.todo = {}
           /\ UNCHANGED <<runtime, objs, seen, counter, spent, queued, phase>>
           /\ \/ MainAt.i < Len(Workloads) /\ GoesAt("count", MainAt.i + 1)
              \/ ~(MainAt.i < Len(Workloads)) /\ GoesAt("idle", 0)
<1>1. /\ MainAt.pc = "topup" /\ MainAt.todo = {}
      /\ UNCHANGED <<runtime, objs, seen, counter, spent, queued, phase>>
      /\ \/ MainAt.i < Len(Workloads) /\ proc' = [proc EXCEPT !["main"] = At("count", MainAt.i + 1)]
         \/ ~(MainAt.i < Len(Workloads)) /\ proc' = [proc EXCEPT !["main"] = Idle]
  BY DEF TopUpDone, MainAt
<1>2. QED
  BY <1>1, AtGoes, MainRests

LEMMA TopUpFailsGoes ==
    ASSUME TypeInv, TopUpFails
    PROVE  /\ MainAt.pc \in {"count", "topup"} /\ queued' = TRUE
           /\ UNCHANGED <<runtime, objs, seen, counter, phase>>
           /\ spent' = [spent EXCEPT !.setbacks = @ + 1]
           /\ GoesAt("idle", 0)
<1>1. /\ MainAt.pc \in {"count", "topup"} /\ queued' = TRUE
      /\ UNCHANGED <<runtime, objs, seen, counter, phase>>
      /\ spent' = [spent EXCEPT !.setbacks = @ + 1]
      /\ proc' = [proc EXCEPT !["main"] = Idle]
  BY DEF TopUpFails, MainAt
<1>2. QED
  BY <1>1, MainRests
-----------------------------------------------------------------------------
(***************************************************************************)
(* Objects are not deleted, and stay complete.                             *)
(***************************************************************************)
Grows ==
    /\ DOMAIN objs \subseteq DOMAIN objs'
    /\ \A x \in DOMAIN objs : /\ objs[x] \in Ended => objs'[x] \in Ended
                              /\ objs[x] = "succeeded" => objs'[x] = "succeeded"

\* Of two states of the objects, the later one has as much to count.
LEMMA CountedGrows ==
    ASSUME NEW v, NEW w, IsFiniteSet(DOMAIN v), IsFiniteSet(DOMAIN w), NEW i,
           DOMAIN v \subseteq DOMAIN w,
           \A x \in DOMAIN v : /\ v[x] \in Ended => w[x] \in Ended
                               /\ v[x] = "succeeded" => w[x] = "succeeded"
    PROVE  Counted(v, i) \in Nat /\ Counted(w, i) \in Nat /\ Counted(v, i) <= Counted(w, i)
<1>1. Done(v, i) \in SUBSET Done(w, i)
  <2>1. ASSUME NEW x \in Done(v, i) PROVE x \in Done(w, i)
    <3>1. /\ x \in DOMAIN v /\ x[2] = i /\ Template[x[1]].role = "workload"
          /\ v[x] \in Ended
      BY DEF Done, OfEntry
    <3>2. x \in DOMAIN w /\ w[x] \in Ended
      BY <3>1
    <3>3. QED
      BY <3>1, <3>2 DEF Done, OfEntry
  <2>2. QED
    BY <2>1
<1>2. Noticed(v, i) \in SUBSET Noticed(w, i)
  <2>1. ASSUME NEW x \in Noticed(v, i) PROVE x \in Noticed(w, i)
    <3>1. /\ x \in DOMAIN v /\ x[2] = i /\ Template[x[1]].role = "workload"
          /\ Template[x[1]].kind = "Job" /\ v[x] = "succeeded"
      BY DEF Noticed, OfEntry
    <3>2. x \in DOMAIN w /\ w[x] = "succeeded"
      BY <3>1
    <3>3. QED
      BY <3>1, <3>2 DEF Noticed, OfEntry
  <2>2. QED
    BY <2>1
<1>3. /\ Cardinality(Done(v, i)) <= Cardinality(Done(w, i))
      /\ Cardinality(Noticed(v, i)) <= Cardinality(Noticed(w, i))
  BY <1>1, <1>2, OfEntryFinite, FS_Subset
<1>4. /\ Cardinality(Done(v, i)) \in Nat /\ Cardinality(Noticed(v, i)) \in Nat
      /\ Cardinality(Done(w, i)) \in Nat /\ Cardinality(Noticed(w, i)) \in Nat
  BY OfEntryFinite
<1>5. QED
  BY <1>3, <1>4 DEF Counted

LEMMA MoveFacts ==
    ASSUME NEW k, NEW m \in Moves(k)
    PROVE  m[1] # "succeeded" /\ (m[1] \in Ended => m[2] \in Ended)
<1>1. CASE k = "Pod"
  BY <1>1 DEF Moves, Ended
<1>2. CASE k = "Job"
  BY <1>2 DEF Moves, Ended
<1>3. CASE k = "StatefulSet"
  BY <1>3 DEF Moves, Ended
<1>4. CASE k = "PersistentVolumeClaim"
  BY <1>4 DEF Moves, Ended
<1>5. QED
  BY <1>1, <1>2, <1>3, <1>4 DEF Moves

LEMMA MoveStep ==
    ASSUME NEW x \in DOMAIN objs, Move(x)
    PROVE  Grows /\ DOMAIN objs' = DOMAIN objs /\ UNCHANGED seen
<1>1. PICK m \in Moves(Template[x[1]].kind) : objs[x] = m[1] /\ objs' = [objs EXCEPT ![x] = m[2]]
  BY DEF Move
<1>2. objs[x] # "succeeded" /\ (objs[x] \in Ended => m[2] \in Ended)
  BY <1>1, MoveFacts
<1>3. /\ DOMAIN objs' = DOMAIN objs
      /\ \A y \in DOMAIN objs : objs'[y] = IF y = x THEN m[2] ELSE objs[y]
  BY <1>1
<1>4. QED
  BY <1>2, <1>3 DEF Grows, Move

LEMMA CreateStep ==
    ASSUME SeenInv, UNCHANGED objs \/ \E x : NameOK(x) /\ objs' = WithObject(x)
    PROVE  Grows /\ IsFiniteSet(DOMAIN objs')
<1>1. CASE UNCHANGED objs
  BY <1>1 DEF SeenInv, Grows
<1>2. ASSUME NEW x, NameOK(x), objs' = WithObject(x) PROVE Grows /\ IsFiniteSet(DOMAIN objs')
  <2>1. /\ DOMAIN objs' = DOMAIN objs \cup {x}
        /\ \A y \in DOMAIN objs : objs'[y] = objs[y]
    BY <1>2, WithObjectFacts
  <2>2. QED
    BY <2>1, FS_AddElement DEF SeenInv, Grows
<1>3. QED
  BY <1>1, <1>2

\* The informer's copy stays behind, or catches up.
LEMMA SeenStays ==
    ASSUME SeenInv, Grows, IsFiniteSet(DOMAIN objs'),
           UNCHANGED seen \/ (UNCHANGED objs /\ seen' = objs)
    PROVE  SeenInv'
BY DEF SeenInv, Grows

\* What a step of RunWorkload may create.
LEMMA RunCreates ==
    ASSUME TypeInv, NEW p \in Procs, RunWorkload(p)
    PROVE  \/ UNCHANGED objs
           \/ \E x \in proc[p].todo : CreateNext(p) /\ NameOK(x) /\ objs' = WithObject(x)
           \/ /\ proc[p].pc = "stored" /\ NameOK(Target(p)) /\ objs' = WithObject(Target(p))
              /\ PrepareAndRun(p) \/ RunFails(p)
<1>1. CASE CreateNext(p)
  <2>1. PICK x \in proc[p].todo : objs' = WithObject(x)
    BY <1>1, CreateGoes
  <2>2. NameOK(x)
    BY DEF TypeInv, ProcOK
  <2>3. QED
    BY <1>1, <2>1, <2>2
<1>2. CASE PickFile(p) \/ Load(p) \/ Store(p) \/ NextWorkload(p)
  BY <1>2, PickGoes, LoadGoes, StoreGoes, NextGoes
<1>3. CASE PrepareAndRun(p) \/ RunFails(p)
  BY <1>3, PrepareGoes, FailGoes, TargetOK
<1>4. QED
  BY <1>1, <1>2, <1>3 DEF RunWorkload

LEMMA SeenNext ==
    ASSUME TypeInv, SeenInv, [Next]_vars
    PROVE  SeenInv' /\ Grows
<1>1. ASSUME UNCHANGED objs, UNCHANGED seen \/ seen' = objs PROVE SeenInv' /\ Grows
  BY <1>1 DEF SeenInv, Grows
<1>2. CASE RunWorkload("main")
  <2>1. "main" \in Procs
    BY DEF Procs
  <2>2. UNCHANGED seen
    BY <1>2, RunFrame
  <2>3. UNCHANGED objs \/ \E x : NameOK(x) /\ objs' = WithObject(x)
    BY <1>2, <2>1, RunCreates
  <2>4. QED
    BY <2>2, <2>3, CreateStep, SeenStays
<1>3. CASE StartRates \/ Reconcile \/ CheckCompletions
  BY <1>1, <1>3 DEF StartRates, Reconcile, CheckCompletions
<1>4. CASE CountInstances \/ TopUpDone \/ TopUpFails
  BY <1>1, <1>4 DEF CountInstances, TopUpDone, TopUpFails
<1>5. ASSUME NEW x \in DOMAIN objs, Move(x) PROVE SeenInv' /\ Grows
  BY <1>5, MoveStep, SeenStays DEF SeenInv
<1>6. CASE Sync \/ RuntimeOver \/ Crash
  BY <1>1, <1>6 DEF Sync, RuntimeOver, Crash
<1>7. CASE UNCHANGED vars
  BY <1>1, <1>7 DEF vars
<1>8. QED
  BY <1>2, <1>3, <1>4, <1>5, <1>6, <1>7 DEF Next, Main
-----------------------------------------------------------------------------
(***************************************************************************)
(* TypeInv is an invariant.                                                *)
(***************************************************************************)
LEMMA WantedFacts ==
    ASSUME IsFiniteSet(DOMAIN seen), NEW i \in Entries, NEW x \in Wanted(i)
    PROVE  NameOK(x) /\ x[2] = i /\ x[1] \in Duplicates(i)
<1> DEFINE c == CountCompletions(seen, i)
           w == Workloads[i].count
<1>1. c.complete \in Nat /\ c.notcomplete \in Nat /\ w \in Nat
  BY CountFacts, EntryFacts
<1>2. PICK f \in Duplicates(i), n \in (c.complete + c.notcomplete) .. (c.complete + w - 1) :
         x = NameOf(f, i, n)
  BY DEF Wanted, Missing
<1>3. f \in Files(i)
  BY DEF Duplicates
<1> HIDE DEF c, w
<1>4. n \in Nat
  BY <1>1, <1>2
<1>5. QED
  BY <1>2, <1>3, <1>4, NameFacts

LEMMA OutTypes ==
    ASSUME TypeInv, NEW pc, NEW i, NEW todo, NEW files, NEW file, NEW num, NEW left,
           Goes("main", pc, i, todo, files, file, num, left),
           UNCHANGED <<objs, counter>>,
           pc \notin InRun, \A x \in todo : NameOK(x),
           i \in Nat, left \in Nat, num \in Int, num >= -1,
           pc # "idle" => i \in Entries
    PROVE  TypeInv'
<1>1. ProcOK(proc'["main"])
  BY DEF Goes, ProcOK, InRun
<1>2. \A q \in Procs \ {"main"} : proc'[q] = proc[q]
  BY DEF Goes
<1>3. proc'["main"].pc # "stored" /\ DOMAIN proc' = Procs
  BY DEF Goes, InRun
<1>4. QED
  BY <1>1, <1>2, <1>3 DEF TypeInv, TypeOf

LEMMA AtTypes ==
    ASSUME TypeInv, NEW pc, NEW i \in Nat, GoesAt(pc, i), UNCHANGED <<objs, counter>>,
           pc \notin InRun, pc # "idle" => i \in Entries
    PROVE  TypeInv'
BY OutTypes DEF GoesAt

LEMMA CrashGoes ==
    ASSUME Crash
    PROVE  /\ proc'["main"] = IF phase = "starting" THEN Enter(1) ELSE Idle
           /\ DOMAIN proc' = Procs
           /\ \A p \in Procs : proc'[p] = Enter(1) \/ proc'[p] = Idle
           /\ counter' = [t \in DOMAIN Library |-> -1]
           /\ UNCHANGED <<runtime, objs, phase>> /\ seen' = objs /\ queued' = TRUE
<1>1. "main" \in Procs
  BY DEF Procs
<1>2. QED
  BY <1>1 DEF Crash

LEMMA MainTypes ==
    ASSUME TypeInv, IsFiniteSet(DOMAIN seen), Main
    PROVE  TypeInv'
<1>1. "main" \in Procs /\ ProcOK(MainAt) /\ DOMAIN proc = Procs
  BY DEF Procs, TypeInv, MainAt
<1>2. 1 \in Entries /\ 0 \in Nat /\ 1 \in Nat
  BY Lengths
<1>3. MainAt.pc # "idle" => /\ MainAt.i \in Entries /\ MainAt.i \in Nat
                            /\ MainAt.i < Len(Workloads) => MainAt.i + 1 \in Entries
  BY <1>1, Lengths DEF ProcOK
<1>4. CASE RunWorkload("main")
  BY <1>1, <1>4, RunTypes
<1>5. CASE Reconcile
  <2>1. /\ UNCHANGED <<objs, counter>>
        /\ UNCHANGED proc \/ GoesAt("count", 1) \/ GoesAt("check", 1)
    BY <1>5, ReconcileGoes
  <2>2. CASE UNCHANGED proc
    BY <2>1, <2>2 DEF TypeInv, TypeOf
  <2>3. QED
    BY <1>2, <2>1, <2>2, AtTypes DEF InRun
<1>6. CASE CheckCompletions
  <2>1. /\ UNCHANGED <<objs, counter>> /\ MainAt.pc = "check"
        /\ \/ GoesAt("idle", 0)
           \/ MainAt.i < Len(Workloads) /\ GoesAt("check", MainAt.i + 1)
    BY <1>6, CheckGoes
  <2>2. MainAt.i + 1 \in Nat
    BY <1>3, <2>1
  <2>3. QED
    BY <1>2, <1>3, <2>1, <2>2, AtTypes DEF InRun
<1>7. CASE TopUpDone
  <2>1. /\ UNCHANGED <<objs, counter>> /\ MainAt.pc = "topup"
        /\ \/ GoesAt("idle", 0)
           \/ MainAt.i < Len(Workloads) /\ GoesAt("count", MainAt.i + 1)
    BY <1>7, TopUpGoes
  <2>2. MainAt.i + 1 \in Nat
    BY <1>3, <2>1
  <2>3. QED
    BY <1>2, <1>3, <2>1, <2>2, AtTypes DEF InRun
<1>8. CASE TopUpFails
  <2>1. UNCHANGED <<objs, counter>> /\ GoesAt("idle", 0)
    BY <1>8, TopUpFailsGoes
  <2>2. QED
    BY <1>2, <2>1, AtTypes DEF InRun
<1>9. CASE CountInstances
  <2>1. /\ UNCHANGED <<objs, counter>> /\ MainAt.pc = "count"
        /\ Goes("main", "topup", MainAt.i, Wanted(MainAt.i), MainAt.files, MainAt.file,
                MainAt.num, MainAt.left)
    BY <1>9, CountGoes
  <2>2. \A x \in Wanted(MainAt.i) : NameOK(x)
    BY <1>3, <2>1, WantedFacts
  <2>3. QED
    BY <1>1, <1>3, <2>1, <2>2, OutTypes DEF InRun, ProcOK
<1>10. CASE StartRates
  BY <1>10 DEF StartRates, TypeInv, TypeOf
<1>11. QED
  BY <1>4, <1>5, <1>6, <1>7, <1>8, <1>9, <1>10 DEF Main

LEMMA TypeNext ==
    ASSUME TypeInv, SeenInv, [Next]_vars
    PROVE  TypeInv'
<1>9. CASE Main
  BY <1>9, MainTypes DEF SeenInv
<1>10. ASSUME UNCHANGED <<proc, counter>>, DOMAIN objs' = DOMAIN objs PROVE TypeInv'
  BY <1>10 DEF TypeInv, TypeOf
<1>11. ASSUME NEW x \in DOMAIN objs, Move(x) PROVE TypeInv'
  BY <1>10, <1>11, MoveStep DEF Move
<1>12. CASE Sync \/ RuntimeOver \/ UNCHANGED vars
  BY <1>10, <1>12 DEF Sync, RuntimeOver, vars
<1>13. CASE Crash
  <2>1. /\ DOMAIN proc' = Procs
        /\ \A p \in Procs : proc'[p] = Enter(1) \/ proc'[p] = Idle
        /\ counter' = [t \in DOMAIN Library |-> -1] /\ UNCHANGED objs
    BY <1>13, CrashGoes
  <2>2. ProcOK(Enter(1)) /\ ProcOK(Idle) /\ Enter(1).pc = "run" /\ Idle.pc = "idle"
    BY StartOK
  <2>3. QED
    BY <2>1, <2>2 DEF TypeInv
<1>14. QED
  BY <1>9, <1>11, <1>12, <1>13 DEF Next
-----------------------------------------------------------------------------
(***************************************************************************)
(* PcInv is an invariant.                                                  *)
(***************************************************************************)
LEMMA AllDoneStays ==
    ASSUME SeenInv, SeenInv', Grows, NEW i \in Entries, AllDone(i)
    PROVE  AllDone(i)'
<1> DEFINE d == Counted(objs, i)
           e == Counted(objs', i)
<1>1. d \in Nat /\ e \in Nat /\ d <= e
  BY CountedGrows DEF SeenInv, Grows
<1>2. d >= Workloads[i].count /\ Workloads[i].count \in Nat
  BY EntryFacts DEF AllDone
<1> HIDE DEF d, e
<1>3. e >= Workloads[i].count
  BY <1>1, <1>2
<1>4. QED
  BY <1>3 DEF AllDone, e

\* What PcInv says while main stays where it is, or has less to create.
LEMMA PcStays ==
    ASSUME SeenInv, SeenInv', Grows, PcInv, UNCHANGED <<runtime, phase>>,
           MainAt'.pc = MainAt.pc, MainAt'.i = MainAt.i, MainAt'.todo \subseteq MainAt.todo
    PROVE  PcInv'
<1>1. \A j \in Entries : AllDone(j) => AllDone(j)'
  BY AllDoneStays
<1>2. QED
  BY <1>1 DEF PcInv

LEMMA PcRests ==
    ASSUME SeenInv, SeenInv', Grows, PcInv, MainAt.pc # "idle", MainAt'.pc = "idle",
           MainAt'.todo = {}, phase' # "starting", UNCHANGED runtime,
           phase' = phase \/ phase' = "initializing"
    PROVE  PcInv'
<1>1. \A j \in Entries : AllDone(j) => AllDone(j)'
  BY AllDoneStays
<1>2. QED
  BY <1>1 DEF PcInv, InRun

LEMMA PcRun ==
    ASSUME TypeInv, SeenInv, SeenInv', Grows, PcInv, RunWorkload("main")
    PROVE  PcInv'
<1>1. "main" \in Procs /\ MainAt = proc["main"] /\ UNCHANGED runtime
  BY RunFrame DEF Procs, MainAt
<1>2. ASSUME MainAt.pc \in InRun, MainAt'.pc \in InRun, UNCHANGED phase PROVE PcInv'
  BY <1>2 DEF PcInv, InRun
<1>3. CASE CreateNext("main")
  <2>1. PICK x : /\ UNCHANGED phase
                 /\ Goes("main", MainAt.pc, MainAt.i, MainAt.todo \ {x}, MainAt.files,
                         MainAt.file, MainAt.num, MainAt.left)
    BY <1>1, <1>3, CreateGoes
  <2>2. MainAt'.pc = MainAt.pc /\ MainAt'.i = MainAt.i /\ MainAt'.todo \subseteq MainAt.todo
    BY <2>1 DEF Goes, MainAt
  <2>3. QED
    BY <1>1, <2>1, <2>2, PcStays
<1>4. CASE PickFile("main")
  <2>1. MainAt.pc = "run" /\ MainAt'.pc = "run" /\ UNCHANGED phase
    BY <1>1, <1>4, PickGoes DEF Goes, MainAt
  <2>2. QED
    BY <1>2, <2>1 DEF InRun
<1>5. CASE Load("main") \/ Store("main") \/ PrepareAndRun("main")
  <2>1. MainAt.pc \in InRun /\ MainAt'.pc \in InRun /\ UNCHANGED phase
    BY <1>1, <1>5, LoadGoes, StoreGoes, PrepareGoes DEF Goes, MainAt, InRun
  <2>2. QED
    BY <1>2, <2>1
<1>6. CASE NextWorkload("main")
  <2>1. /\ MainAt.pc = "run"
        /\ \/ Enters("main", First(Later("main"))) /\ UNCHANGED phase
           \/ Rests("main") /\ phase' = "initializing"
    BY <1>1, <1>6, NextGoes
  <2>2. CASE Enters("main", First(Later("main"))) /\ UNCHANGED phase
    <3>1. MainAt'.pc = "run"
      BY <2>2 DEF Enters, Goes, MainAt
    <3>2. QED
      BY <1>2, <2>1, <2>2, <3>1 DEF InRun
  <2>3. CASE Rests("main") /\ phase' = "initializing"
    <3>1. MainAt'.pc = "idle" /\ MainAt'.todo = {}
      BY <2>3 DEF Rests, Goes, MainAt
    <3>2. QED
      BY <1>1, <2>1, <2>3, <3>1, PcRests
  <2>4. QED
    BY <2>1, <2>2, <2>3
<1>7. CASE RunFails("main")
  <2>1. MainAt.pc \in InRun /\ Enters("main", 1) /\ UNCHANGED phase
    BY <1>1, <1>7, FailGoes DEF InRun
  <2>2. MainAt'.pc = "run"
    BY <2>1 DEF Enters, Goes, MainAt
  <2>3. QED
    BY <1>2, <2>1, <2>2 DEF InRun
<1>8. QED
  BY <1>3, <1>4, <1>5, <1>6, <1>7 DEF RunWorkload

LEMMA PcNext ==
    ASSUME TypeInv, SeenInv, SeenInv', Grows, PcInv, [Next]_vars
    PROVE  PcInv'
<1>0. /\ ProcOK(MainAt)
      /\ \A pc, i : GoesAt(pc, i) => MainAt'.pc = pc /\ MainAt'.i = i /\ MainAt'.todo = {}
  BY DEF TypeInv, Procs, GoesAt, Goes, MainAt
<1>1. \A j \in Entries : AllDone(j) => AllDone(j)'
  BY AllDoneStays
<1>2. \A j \in Entries : j \in Nat /\ j >= 1 /\ j <= Len(Workloads)
  BY Lengths
<1>3. CASE RunWorkload("main")
  BY <1>3, PcRun
<1>4. CASE StartRates
  <2>1. phase = "initializing" /\ phase' = "running" /\ UNCHANGED <<runtime, objs, proc>>
    BY <1>4 DEF StartRates
  <2>2. MainAt.pc = "idle"
    BY <2>1 DEF PcInv
  <2>3. QED
    BY <2>1, <2>2 DEF PcInv, MainAt
<1>5. CASE Reconcile
  <2>1. /\ phase = "running" /\ MainAt.pc = "idle"
        /\ UNCHANGED <<runtime, objs>>
        /\ \/ runtime /\ phase' = "complete" /\ UNCHANGED proc
           \/ UNCHANGED phase /\ runtime /\ GoesAt("count", 1)
           \/ UNCHANGED phase /\ ~runtime /\ GoesAt("check", 1)
    BY <1>5, ReconcileGoes
  <2>2. CASE runtime /\ phase' = "complete" /\ UNCHANGED proc
    BY <2>1, <2>2 DEF PcInv, MainAt
  <2>3. CASE UNCHANGED phase /\ runtime /\ GoesAt("count", 1)
    BY <1>0, <2>1, <2>3 DEF PcInv, InRun
  <2>4. CASE UNCHANGED phase /\ ~runtime /\ GoesAt("check", 1)
    BY <1>0, <1>2, <2>1, <2>4 DEF PcInv, InRun
  <2>5. QED
    BY <2>1, <2>2, <2>3, <2>4
<1>6. CASE CheckCompletions
  <2> DEFINE k == MainAt.i
  <2>1. MainAt.pc = "check" /\ UNCHANGED <<runtime, objs, seen>>
    BY <1>6, CheckGoes
  <2>2. /\ k \in Entries /\ k \in Nat /\ ~runtime /\ phase = "running"
        /\ \A j \in Entries : j < k => AllDone(j)
    BY <1>0, <1>2, <2>1 DEF ProcOK, PcInv
  <2>3. CASE GoesAt("idle", 0) /\ UNCHANGED phase
    BY <1>0, <2>1, <2>2, <2>3 DEF PcInv, InRun
  <2>4. ASSUME CountCompletions(seen, k).complete >= Workloads[k].count
        PROVE  AllDone(k)
    <3> DEFINE c == CountCompletions(seen, k).complete
    <3>1. c \in Nat /\ c <= Counted(seen, k)
      BY CountFacts DEF SeenInv
    <3>2. Counted(seen, k) \in Nat /\ Counted(objs, k) \in Nat /\ Counted(seen, k) <= Counted(objs, k)
      BY CountedGrows DEF SeenInv
    <3>3. Workloads[k].count \in Nat
      BY <2>2, EntryFacts
    <3> HIDE DEF c
    <3>4. c >= Workloads[k].count
      BY <2>4 DEF c
    <3>5. QED
      BY <3>1, <3>2, <3>3, <3>4 DEF AllDone
  <2>5. AllDone(k) => \A j \in Entries : j < k + 1 => AllDone(j)
    BY <1>2, <2>2
  <2>6. CASE /\ CountCompletions(seen, k).complete >= Workloads[k].count
             /\ UNCHANGED phase /\ GoesAt("check", k + 1)
    BY <1>0, <1>1, <2>1, <2>2, <2>4, <2>5, <2>6 DEF PcInv, InRun
  <2>7. CASE /\ CountCompletions(seen, k).complete >= Workloads[k].count
             /\ k = Len(Workloads) /\ phase' = "complete" /\ GoesAt("idle", 0)
    <3>1. \A j \in Entries : AllDone(j)
      BY <1>2, <2>2, <2>4, <2>5, <2>7
    <3>2. QED
      BY <1>0, <1>1, <2>7, <3>1 DEF PcInv, InRun
  <2>8. QED
    BY <1>6, <2>3, <2>6, <2>7, CheckGoes
<1>7. CASE CountInstances
  <2> DEFINE k == MainAt.i
  <2>1. /\ MainAt.pc = "count" /\ UNCHANGED <<runtime, objs, seen, phase>>
        /\ Goes("main", "topup", k, Wanted(k), MainAt.files, MainAt.file,
                MainAt.num, MainAt.left)
    BY <1>7, CountGoes
  <2>2. k \in Entries /\ runtime /\ phase = "running"
    BY <1>0, <2>1 DEF ProcOK, PcInv
  <2>3. MainAt'.pc = "topup"
    BY <2>1 DEF Goes, MainAt
  <2>4. QED
    BY <2>1, <2>2, <2>3 DEF PcInv, InRun
<1>8. CASE TopUpDone \/ TopUpFails
  <2>1. /\ MainAt.pc \in {"count", "topup"} /\ UNCHANGED <<runtime, objs, phase>>
        /\ GoesAt("count", MainAt.i + 1) \/ GoesAt("idle", 0)
    BY <1>8, TopUpGoes, TopUpFailsGoes
  <2>2. runtime /\ phase = "running"
    BY <2>1 DEF PcInv
  <2>3. QED
    BY <1>0, <2>1, <2>2 DEF PcInv, InRun
<1>9. ASSUME UNCHANGED <<runtime, phase, proc>> PROVE PcInv'
  BY <1>9, PcStays DEF MainAt
<1>10. CASE Sync \/ RuntimeOver \/ UNCHANGED vars \/ \E x \in DOMAIN objs : Move(x)
  BY <1>9, <1>10 DEF Sync, RuntimeOver, vars, Move
<1>11. CASE Crash
  <2>1. /\ MainAt' = IF phase = "starting" THEN Enter(1) ELSE Idle
        /\ UNCHANGED <<runtime, objs, phase>>
    BY <1>11, CrashGoes DEF MainAt
  <2>2. CASE phase = "starting"
    <3>1. MainAt'.pc = "run"
      BY <2>1, <2>2, EnterFields
    <3>2. QED
      BY <2>1, <2>2, <3>1 DEF PcInv, InRun
  <2>3. CASE phase # "starting"
    <3>1. MainAt'.pc = "idle" /\ MainAt'.todo = {}
      BY <2>1, <2>3, IdleFields
    <3>2. QED
      BY <1>1, <2>1, <2>3, <3>1 DEF PcInv, InRun
  <2>4. QED
    BY <2>2, <2>3
<1>12. QED
  BY <1>3, <1>4, <1>5, <1>6, <1>7, <1>8, <1>10, <1>11 DEF Next, Main
-----------------------------------------------------------------------------
(***************************************************************************)
(* FillInv is an invariant.                                                *)
(***************************************************************************)
LEMMA FillNext ==
    ASSUME TypeInv, SeenInv, PcInv, FillInv, [Next]_vars
    PROVE  FillInv'
<1>0. /\ "main" \in Procs /\ MainAt = proc["main"] /\ ProcOK(MainAt)
      /\ \A pc, i : GoesAt(pc, i) => MainAt'.pc = pc /\ MainAt'.i = i /\ MainAt'.todo = {}
  BY DEF TypeInv, Procs, GoesAt, Goes, MainAt
<1>1. \A j \in Entries : j \in Nat /\ j >= 1 /\ j <= Len(Workloads)
  BY Lengths
<1>2. UNCHANGED seen => \A i : Wanted(i)' = Wanted(i)
  BY DEF Wanted
<1>3. phase' # "running" \/ queued' = TRUE \/ runtime' = FALSE => FillInv'
  BY DEF FillInv
<1>4. CASE RunWorkload("main")
  <2>1. UNCHANGED <<runtime, seen, queued>>
    BY <1>4, RunFrame
  <2>2. CASE CreateNext("main")
    <3>1. PICK x \in MainAt.todo :
                 /\ objs' = WithObject(x) /\ UNCHANGED phase
                 /\ Goes("main", MainAt.pc, MainAt.i, MainAt.todo \ {x}, MainAt.files,
                         MainAt.file, MainAt.num, MainAt.left)
      BY <1>0, <2>2, CreateGoes
    <3>2. /\ MainAt'.pc = MainAt.pc /\ MainAt'.i = MainAt.i /\ MainAt'.todo = MainAt.todo \ {x}
      BY <3>1 DEF Goes, MainAt
    <3>3. DOMAIN objs' = DOMAIN objs \cup {x}
      BY <3>1, WithObjectFacts
    <3>4. MainAt.pc \notin {"idle", "count", "check"}
      BY <3>1 DEF PcInv
    <3>5. \A i : Wanted(i)' = Wanted(i)
      BY <1>2, <2>1
    <3>6. (MainAt.pc \in {"count", "topup"} =>
              \A i \in Entries : i < MainAt.i => Wanted(i) \subseteq DOMAIN objs)'
          \/ ~(runtime /\ phase = "running" /\ ~queued)
      BY <2>1, <3>1, <3>2, <3>3, <3>5 DEF FillInv
    <3>7. (MainAt.pc = "topup" => Wanted(MainAt.i) \subseteq DOMAIN objs \cup MainAt.todo)'
          \/ ~(runtime /\ phase = "running" /\ ~queued)
      <4>1. Wanted(MainAt.i)' = Wanted(MainAt.i)
        BY <2>1, <3>2 DEF Wanted
      <4>2. QED
        BY <2>1, <3>1, <3>2, <3>3, <4>1 DEF FillInv
    <3>8. QED
      BY <2>1, <3>1, <3>2, <3>4, <3>6, <3>7 DEF FillInv
  <2>3. CASE ~CreateNext("main")
    <3>1. MainAt.pc \in InRun
      BY <1>0, <1>4, <2>3, PickGoes, LoadGoes, StoreGoes, PrepareGoes, NextGoes, FailGoes
         DEF RunWorkload, InRun
    <3>2. UNCHANGED phase \/ phase' = "initializing"
      BY <1>0, <1>4, <2>3, PickGoes, LoadGoes, StoreGoes, PrepareGoes, NextGoes, FailGoes
         DEF RunWorkload
    <3>3. QED
      BY <1>3, <3>1, <3>2 DEF PcInv
  <2>4. QED
    BY <2>2, <2>3
<1>5. CASE StartRates \/ TopUpFails \/ Sync \/ Crash
  <2>1. queued' = TRUE
    BY <1>5 DEF StartRates, TopUpFails, Sync, Crash
  <2>2. QED
    BY <1>3, <2>1
<1>6. CASE Reconcile
  <2>1. /\ UNCHANGED runtime
        /\ \/ phase' = "complete"
           \/ GoesAt("count", 1)
           \/ ~runtime
    BY <1>6, ReconcileGoes
  <2>2. CASE GoesAt("count", 1)
    BY <1>0, <1>1, <2>2 DEF FillInv
  <2>3. QED
    BY <2>1, <2>2 DEF FillInv
<1>7. CASE CheckCompletions
  <2>1. UNCHANGED runtime /\ ~runtime
    BY <1>7, CheckGoes DEF PcInv
  <2>2. QED
    BY <2>1 DEF FillInv
<1>8. CASE CountInstances
  <2> DEFINE k == MainAt.i
  <2>1. /\ MainAt.pc = "count" /\ UNCHANGED <<runtime, objs, seen, phase, queued>>
        /\ Goes("main", "topup", k, Wanted(k), MainAt.files, MainAt.file,
                MainAt.num, MainAt.left)
    BY <1>8, CountGoes
  <2>2. MainAt'.pc = "topup" /\ MainAt'.i = MainAt.i /\ MainAt'.todo = Wanted(MainAt.i)
    BY <2>1 DEF Goes, MainAt
  <2>3. \A i : Wanted(i)' = Wanted(i)
    BY <1>2, <2>1
  <2>4. Wanted(MainAt.i)' = Wanted(MainAt.i)
    BY <2>1, <2>2 DEF Wanted
  <2>5. (MainAt.pc = "topup" => Wanted(MainAt.i) \subseteq DOMAIN objs \cup MainAt.todo)'
    BY <2>2, <2>4
  <2>6. QED
    BY <2>1, <2>2, <2>3, <2>5 DEF FillInv
<1>9. CASE TopUpDone
  <2> DEFINE k == MainAt.i
  <2>1. /\ MainAt.pc = "topup" /\ MainAt.todo = {}
        /\ UNCHANGED <<runtime, objs, seen, phase, queued>>
        /\ \/ k < Len(Workloads) /\ GoesAt("count", k + 1)
           \/ ~(k < Len(Workloads)) /\ GoesAt("idle", 0)
    BY <1>9, TopUpGoes
  <2>2. k \in Entries /\ k \in Nat
    BY <1>0, <1>1, <2>1 DEF ProcOK
  <2>3. \A i : Wanted(i)' = Wanted(i)
    BY <1>2, <2>1
  <2>4. SUFFICES ASSUME runtime, phase = "running", ~queued PROVE FillInv'
    BY <2>1 DEF FillInv
  <2>5. \A i \in Entries : i < k \/ i = k => Wanted(i) \subseteq DOMAIN objs
    BY <2>1, <2>4 DEF FillInv
  <2>6. CASE k < Len(Workloads) /\ GoesAt("count", k + 1)
    <3>1. \A i \in Entries : i < k + 1 => Wanted(i) \subseteq DOMAIN objs
      BY <1>1, <2>2, <2>5
    <3>2. MainAt'.pc = "count" /\ MainAt'.i = k + 1
      BY <1>0, <2>6
    <3>3. QED
      BY <2>1, <2>3, <3>1, <3>2 DEF FillInv
  <2>7. CASE ~(k < Len(Workloads)) /\ GoesAt("idle", 0)
    <3>1. \A i \in Entries : Wanted(i) \subseteq DOMAIN objs
      BY <1>1, <2>2, <2>5, <2>7, Lengths
    <3>2. MainAt'.pc = "idle"
      BY <1>0, <2>7
    <3>3. QED
      BY <2>1, <2>3, <3>1, <3>2 DEF FillInv
  <2>8. QED
    BY <2>1, <2>6, <2>7
<1>10. ASSUME UNCHANGED <<runtime, phase, proc, seen, queued>>, DOMAIN objs' = DOMAIN objs
       PROVE  FillInv'
  BY <1>10 DEF FillInv, MainAt, Wanted
<1>11. ASSUME NEW x \in DOMAIN objs, Move(x) PROVE FillInv'
  BY <1>10, <1>11, MoveStep DEF Move
<1>12. CASE RuntimeOver \/ UNCHANGED vars
  BY <1>10, <1>12 DEF RuntimeOver, vars
<1>13. QED
  BY <1>4, <1>5, <1>6, <1>7, <1>8, <1>9, <1>11, <1>12 DEF Next, Main
-----------------------------------------------------------------------------
LEMMA InitInv == Init => Inv
<1> SUFFICES ASSUME Init PROVE Inv
  OBVIOUS
<1>1. /\ objs = << >> /\ seen = << >> /\ phase = "starting" /\ "main" \in Procs
      /\ proc = [p \in Procs |-> IF p = "main" THEN Enter(1) ELSE Idle]
  BY DEF Init, Procs
<1>2. DOMAIN objs = {} /\ DOMAIN seen = {} /\ IsFiniteSet({})
  BY <1>1, FS_EmptySet
<1>3. MainAt = Enter(1)
  BY <1>1 DEF MainAt
<1>4. MainAt.pc = "run"
  BY <1>3, EnterFields
<1>5. SeenInv
  BY <1>2 DEF SeenInv
<1>6. FillInv /\ PcInv
  BY <1>1, <1>4 DEF FillInv, PcInv, InRun
<1>7. QED
  BY <1>5, <1>6, InitTypes DEF Inv

LEMMA InvNext ==
    ASSUME Inv, [Next]_vars
    PROVE  Inv'
<1>1. TypeInv /\ SeenInv /\ PcInv /\ FillInv
  BY DEF Inv
<1>2. TypeInv' /\ SeenInv' /\ Grows
  BY <1>1, TypeNext, SeenNext
<1>3. PcInv' /\ FillInv'
  BY <1>1, <1>2, PcNext, FillNext
<1>4. QED
  BY <1>2, <1>3 DEF Inv
-----------------------------------------------------------------------------
(***************************************************************************)
(* For workloads of every kind and any number of files and of workloads of *)
(* one type, whatever fails: Reconcile ends a benchmark without a Runtime  *)
(* only when each workload has as many completed objects as its count,     *)
(* where a Job counts twice once it has noticed its pod.  It counts from   *)
(* lists that are out of date, each at another moment.                     *)
(***************************************************************************)
THEOREM CompleteIsCounted == Spec => []CompleteMeansCounted
<1>1. Init => Inv
  BY InitInv
<1>2. Inv /\ [Next]_vars => Inv'
  BY InvNext
<1>3. Inv => CompleteMeansCounted
  <2> SUFFICES ASSUME Inv, phase = "complete", ~runtime, NEW i \in Entries
               PROVE  Workloads[i].count <= Cardinality(Completed(i)) + Cardinality(CompletedJobs(i))
    BY DEF CompleteMeansCounted
  <2>1. Completed(i) = Done(objs, i) /\ CompletedJobs(i) = Noticed(objs, i)
    BY DEF Completed, CompletedJobs, Instances, Done, Noticed, OfEntry, Ended
  <2>2. Workloads[i].count \in Nat /\ Counted(objs, i) \in Nat
    BY EntryFacts, OfEntryFinite DEF Inv, SeenInv
  <2>3. Counted(objs, i) >= Workloads[i].count
    BY DEF Inv, PcInv, AllDone
  <2>4. Counted(objs, i) = Cardinality(Completed(i)) + Cardinality(CompletedJobs(i))
    BY <2>1 DEF Counted
  <2> DEFINE k == Counted(objs, i)
  <2> HIDE DEF k
  <2>5. Workloads[i].count <= k
    BY <2>2, <2>3 DEF k
  <2>6. QED
    BY <2>4, <2>5 DEF k
<1>4. QED
  BY <1>1, <1>2, <1>3, PTL DEF Spec

(***************************************************************************)
(* Reconcile has nothing left to do when it comes to rest: with an empty   *)
(* queue, each object that ReconcileInstances would create for what the    *)
(* informer knows exists.  A retry, a crash or an event between the counts *)
(* and the creates never leaves one out (benchmark_controller.go:270-276). *)
(***************************************************************************)
NothingMissing ==
    runtime /\ phase = "running" /\ proc["main"].pc = "idle" /\ ~queued =>
        \A i \in Entries : Missing(i, CountCompletions(seen, i)) \subseteq DOMAIN objs

\* For every value of the constants, whatever fails: NothingMissing.
THEOREM NothingLeftToDo == Spec => []NothingMissing
<1>1. Init => Inv
  BY InitInv
<1>2. Inv /\ [Next]_vars => Inv'
  BY InvNext
<1>3. Inv => NothingMissing
  BY DEF Inv, FillInv, NothingMissing, Wanted, MainAt
<1>4. QED
  BY <1>1, <1>2, <1>3, PTL DEF Spec
=============================================================================
