------------------------- MODULE PodAssemblyProofs -------------------------
(***************************************************************************)
(* Theorems about PodAssembly: for any kinds of objects, roles, lists of   *)
(* output files and any number of failed calls and repetitions.            *)
(***************************************************************************)
EXTENDS PodAssembly, FiniteSetTheorems, SequenceTheorems, TLAPS

ContainerNames == {"main", "sidecar", "parser-container", "output-container",
                   "warmup", "sync-container"}
VolumeNames    == {"output-vol", "pod-watcher-token", "helper", "parser", "output",
                   "ready-script"}

Containers == [name : ContainerNames, mounts : SUBSET VolumeNames]
Volumes    == [name : VolumeNames, cm : Nat]

Objects ==
    [nil : BOOLEAN, dropped : BOOLEAN,
     main : Seq(Containers), init : Seq(Containers), vols : Seq(Volumes)]

Places == {"decode", "skipped", "outputs", "setup", "helper", "parser", "image", "output",
           "env", "panic", "sync", "create", "created", "error"}

TypeInv ==
    /\ in \in Inputs
    /\ pc \in Places
    /\ obj \in Objects /\ stored \in Objects
    /\ left \in Nat
    /\ pc \in {"setup", "helper", "parser", "image", "output"} => left > 0
    /\ cms \subseteq Nat
    /\ made \in Nat
    /\ faults \in 0..MaxFaults
-----------------------------------------------------------------------------
(***************************************************************************)
(* The volumes of o whose temporary ConfigMap is not among c.              *)
(***************************************************************************)
Missing(o, c) == {i \in DOMAIN o.vols : o.vols[i].cm \notin c \cup {0}}

(***************************************************************************)
(* At the place "image" the copy of the parser may be missing already, but *)
(* no volume has it yet: that fault must still be accounted for.           *)
(***************************************************************************)
ScriptInv ==
    /\ Cardinality(Missing(stored, cms)) <= faults
    /\ Cardinality(Missing(obj, cms)) <= faults
    /\ pc = "image" /\ made \notin cms => Cardinality(Missing(obj, cms)) + 1 <= faults

(***************************************************************************)
(* While output files are set up, and after, each of those done has its    *)
(* two containers; the parser container comes first.                       *)
(***************************************************************************)
Loop  == {"outputs", "setup", "helper", "parser", "image", "output"}
Later == {"env", "sync", "create"}

SharesOutput(o) == \E i \in Named(o, "main") : "output-vol" \in o.main[i].mounts

Reported(o, n) ==
    /\ Cardinality(Named(o, "parser-container")) = n
    /\ Cardinality(Named(o, "output-container")) = n
    /\ n > 0 => SharesOutput(o)

OutputAt(p, o, l) ==
    /\ p = "decode" => o = Decoded
    /\ p \in Loop => l <= NumOutputs
    /\ p \in Loop \ {"output"} => Reported(o, NumOutputs - l)
    /\ p = "output" =>
          /\ Cardinality(Named(o, "parser-container")) = NumOutputs - l + 1
          /\ Cardinality(Named(o, "output-container")) = NumOutputs - l
    /\ p \in {"helper", "parser", "image", "output"} => HasPodSpec /\ SharesOutput(o)
    /\ p \in Later /\ ~o.dropped => Reported(o, NumOutputs)
    /\ p \in Loop /\ HasPodSpec => Named(o, "main") # {}
    /\ p \in Loop /\ VolInSpec(o, "output-vol") => SharesOutput(o)

OutputInv ==
    /\ OutputAt(pc, obj, left)
    /\ stored # NoObject /\ ~stored.dropped => Reported(stored, NumOutputs)
-----------------------------------------------------------------------------
(***************************************************************************)
(* The pod is valid at every place, and has no name yet that is still to   *)
(* be added.                                                               *)
(***************************************************************************)
Mounted(o, s) == \A i \in DOMAIN s : \A m \in s[i].mounts : VolInSpec(o, m)

NamesIn(o, names) == \A i \in DOMAIN o.main : o.main[i].name \in names

Sound(o) ==
    /\ Distinct(o.main) /\ Distinct(o.init) /\ Distinct(o.vols)
    /\ NamesIn(o, {"main", "sidecar", "parser-container", "output-container"})
    /\ \A i \in DOMAIN o.init : o.init[i].name \in {"warmup", "sync-container"}
    /\ Mounted(o, o.main) /\ Mounted(o, o.init)

ToSync(o) ==
    /\ ~VolInSpec(o, "ready-script")
    /\ \A i \in DOMAIN o.init : o.init[i].name # "sync-container"

ValidAt(p, o, l) ==
    p \in Loop \cup Later \cup {"decode"} =>
        /\ Sound(o)
        /\ p # "create" => ToSync(o)
        /\ p = "helper" => ~VolInSpec(o, "helper")
        /\ p \in {"helper", "parser", "image", "output"} =>
              VolInSpec(o, "pod-watcher-token") /\ VolInSpec(o, "output-vol")
        /\ p \in {"parser", "image", "output"} => VolInSpec(o, "helper")
        /\ p = "output" => VolInSpec(o, "parser")
        /\ p \in Loop /\ l > 0 =>
              /\ ~VolInSpec(o, "output")
              /\ Named(o, "output-container") = {}
              /\ p # "output" => Named(o, "parser-container") = {}

ValidInv == NumOutputs <= 1 => ValidAt(pc, obj, left)
-----------------------------------------------------------------------------
(***************************************************************************)
(* Sequences and sets of their indices.                                    *)
(***************************************************************************)
LEMMA Appended ==
    ASSUME NEW S, NEW s \in Seq(S), NEW e \in S
    PROVE  /\ Append(s, e) \in Seq(S)
           /\ Len(s) \in Nat /\ DOMAIN s = 1..Len(s)
           /\ DOMAIN Append(s, e) = DOMAIN s \cup {Len(s) + 1}
           /\ Len(s) + 1 \notin DOMAIN s
           /\ \A i \in DOMAIN s : Append(s, e)[i] = s[i] /\ s[i] \in S
           /\ Append(s, e)[Len(s) + 1] = e
<1>1. Append(s, e) \in Seq(S) /\ Len(s) \in Nat /\ DOMAIN s = 1..Len(s)
  BY AppendProperties, LenProperties
<1>2. DOMAIN Append(s, e) = 1..(Len(s) + 1)
  BY <1>1, AppendProperties, LenProperties
<1>3. 1..(Len(s) + 1) = (1..Len(s)) \cup {Len(s) + 1} /\ Len(s) + 1 \notin 1..Len(s)
  BY <1>1
<1>4. QED
  BY <1>1, <1>2, <1>3, AppendProperties, ElementOfSeq

LEMMA Indices ==
    ASSUME NEW S, NEW s \in Seq(S), NEW T \in SUBSET DOMAIN s
    PROVE  IsFiniteSet(T) /\ Cardinality(T) \in Nat
<1>1. DOMAIN s = 1..Len(s) /\ Len(s) \in Nat
  BY LenProperties
<1>2. IsFiniteSet(1..Len(s))
  BY <1>1, FS_Interval
<1>3. QED
  BY <1>1, <1>2, FS_Subset, FS_CardinalityType

(***************************************************************************)
(* The number of output files of an object is a number.                    *)
(***************************************************************************)
LEMMA NumOutputsType == ASSUME in \in Inputs PROVE NumOutputs \in Nat
<1>1. in.files \in Seq(Roles \cup {""})
  <2>1. in.files \in OutputFiles
    BY DEF Inputs
  <2>2. QED
    BY <2>1, AssemblyAssumption
<1>2. {i \in DOMAIN in.files : in.files[i] = in.role \/ (in.role = "workload" /\ in.files[i] = "")}
      \in SUBSET DOMAIN in.files
  OBVIOUS
<1>3. Cardinality({i \in DOMAIN in.files :
         in.files[i] = in.role \/ (in.role = "workload" /\ in.files[i] = "")}) \in Nat
  BY <1>1, <1>2, Indices
<1>4. QED
  BY <1>3 DEF NumOutputs
-----------------------------------------------------------------------------
(***************************************************************************)
(* What adding a volume does to an object.                                 *)
(***************************************************************************)
LEMMA VolAdded ==
    ASSUME NEW o \in Objects, NEW name \in VolumeNames, NEW cm \in Nat
    PROVE  /\ WithVol(o, name, cm) \in Objects
           /\ WithVol(o, name, cm).nil = o.nil /\ WithVol(o, name, cm).dropped = o.dropped
           /\ WithVol(o, name, cm).main = o.main /\ WithVol(o, name, cm).init = o.init
           /\ WithVol(o, name, cm).vols = Append(o.vols, Volume(name, cm))
           /\ Volume(name, cm) \in Volumes
           /\ o.vols \in Seq(Volumes)
  BY AppendProperties DEF WithVol, Volume, Volumes, Objects

LEMMA VolNames ==
    ASSUME NEW o \in Objects, NEW name \in VolumeNames, NEW cm \in Nat, NEW n
    PROVE  VolInSpec(WithVol(o, name, cm), n) <=> VolInSpec(o, n) \/ n = name
<1> DEFINE v == Volume(name, cm)
<1>1. /\ WithVol(o, name, cm).vols = Append(o.vols, v)
      /\ v \in Volumes /\ o.vols \in Seq(Volumes) /\ v.name = name
  BY VolAdded DEF Volume
<1> HIDE DEF v
<1>2. /\ DOMAIN Append(o.vols, v) = DOMAIN o.vols \cup {Len(o.vols) + 1}
      /\ \A i \in DOMAIN o.vols : Append(o.vols, v)[i] = o.vols[i]
      /\ Append(o.vols, v)[Len(o.vols) + 1] = v
  BY <1>1, Appended
<1>3. QED
  BY <1>1, <1>2 DEF VolInSpec

LEMMA VolDistinct ==
    ASSUME NEW o \in Objects, NEW name \in VolumeNames, NEW cm \in Nat,
           Distinct(o.vols), ~VolInSpec(o, name)
    PROVE  Distinct(WithVol(o, name, cm).vols)
<1> DEFINE v == Volume(name, cm)
<1>1. /\ WithVol(o, name, cm).vols = Append(o.vols, v)
      /\ v \in Volumes /\ o.vols \in Seq(Volumes) /\ v.name = name
  BY VolAdded DEF Volume
<1> HIDE DEF v
<1>2. /\ DOMAIN Append(o.vols, v) = DOMAIN o.vols \cup {Len(o.vols) + 1}
      /\ \A i \in DOMAIN o.vols : Append(o.vols, v)[i] = o.vols[i]
      /\ Append(o.vols, v)[Len(o.vols) + 1] = v
  BY <1>1, Appended
<1>3. QED
  BY <1>1, <1>2 DEF VolInSpec, Distinct

LEMMA MissingType ==
    ASSUME NEW o \in Objects, NEW c
    PROVE  IsFiniteSet(Missing(o, c)) /\ Cardinality(Missing(o, c)) \in Nat
<1>1. o.vols \in Seq(Volumes) /\ Missing(o, c) \in SUBSET DOMAIN o.vols
  BY DEF Objects, Missing
<1>2. QED
  BY <1>1, Indices

LEMMA MissingShrinks ==
    ASSUME NEW o \in Objects, NEW c, NEW d, c \subseteq d
    PROVE  Cardinality(Missing(o, d)) <= Cardinality(Missing(o, c))
<1>1. Missing(o, d) \subseteq Missing(o, c)
  BY DEF Missing
<1>2. QED
  BY <1>1, MissingType, FS_Subset

LEMMA MissingVol ==
    ASSUME NEW o \in Objects, NEW name \in VolumeNames, NEW cm \in Nat, NEW c
    PROVE  /\ Cardinality(Missing(WithVol(o, name, cm), c)) <= Cardinality(Missing(o, c)) + 1
           /\ cm \in c \cup {0} =>
                 Cardinality(Missing(WithVol(o, name, cm), c)) = Cardinality(Missing(o, c))
<1> DEFINE v == Volume(name, cm)
           n == Len(o.vols) + 1
           w == WithVol(o, name, cm)
<1>1. w.vols = Append(o.vols, v) /\ v \in Volumes /\ o.vols \in Seq(Volumes) /\ v.cm = cm
  BY VolAdded DEF Volume
<1>2. /\ DOMAIN Append(o.vols, v) = DOMAIN o.vols \cup {n} /\ n \notin DOMAIN o.vols
      /\ \A i \in DOMAIN o.vols : Append(o.vols, v)[i] = o.vols[i]
      /\ Append(o.vols, v)[n] = v
  BY <1>1, Appended
<1> HIDE DEF v, n, w
<1>3. Missing(w, c) = Missing(o, c) \cup (IF cm \in c \cup {0} THEN {} ELSE {n})
  BY <1>1, <1>2 DEF Missing
<1>4. CASE cm \in c \cup {0}
  <2>1. Missing(w, c) = Missing(o, c)
    BY <1>3, <1>4
  <2>2. QED
    BY <2>1, MissingType DEF w
<1>5. CASE cm \notin c \cup {0}
  <2>1. Missing(w, c) = Missing(o, c) \cup {n} /\ n \notin Missing(o, c)
    BY <1>2, <1>3, <1>5 DEF Missing
  <2>2. Cardinality(Missing(w, c)) = Cardinality(Missing(o, c)) + 1
    BY <2>1, MissingType, FS_AddElement
  <2>3. QED
    BY <1>5, <2>2, MissingType DEF w
<1>6. QED
  BY <1>4, <1>5

(***************************************************************************)
(* What adding a container does to an object.                              *)
(***************************************************************************)
LEMMA ContainerAdded ==
    ASSUME NEW o \in Objects, NEW name \in ContainerNames, NEW mounts \in SUBSET VolumeNames
    PROVE  LET w == WithContainer(o, name, mounts)
               n == Len(o.main) + 1
           IN  /\ w \in Objects
               /\ w.nil = o.nil /\ w.dropped = o.dropped
               /\ w.init = o.init /\ w.vols = o.vols
               /\ n \notin DOMAIN o.main /\ DOMAIN w.main = DOMAIN o.main \cup {n}
               /\ \A i \in DOMAIN o.main : w.main[i] = o.main[i]
               /\ w.main[n].name = name /\ w.main[n].mounts = mounts
<1> DEFINE c == Container(name, mounts)
           w == WithContainer(o, name, mounts)
<1>1. c \in Containers /\ c.name = name /\ c.mounts = mounts /\ o.main \in Seq(Containers)
  BY DEF Container, Containers, Objects
<1>2. w.main = Append(o.main, c)
  BY DEF WithContainer, Objects
<1>3. /\ w.nil = o.nil /\ w.dropped = o.dropped
      /\ w.init = o.init /\ w.vols = o.vols
  BY DEF WithContainer, Objects
<1>4. w \in Objects
  BY <1>1, AppendProperties DEF WithContainer, Objects
<1> HIDE DEF c, w
<1>5. /\ DOMAIN w.main = DOMAIN o.main \cup {Len(o.main) + 1}
      /\ Len(o.main) + 1 \notin DOMAIN o.main
      /\ \A i \in DOMAIN o.main : w.main[i] = o.main[i]
      /\ w.main[Len(o.main) + 1] = c
  BY <1>1, <1>2, Appended
<1>6. QED
  BY <1>1, <1>3, <1>4, <1>5 DEF w

LEMMA NamedType ==
    ASSUME NEW o \in Objects, NEW n
    PROVE  IsFiniteSet(Named(o, n)) /\ Cardinality(Named(o, n)) \in Nat
<1>1. o.main \in Seq(Containers) /\ Named(o, n) \in SUBSET DOMAIN o.main
  BY DEF Objects, Named
<1>2. QED
  BY <1>1, Indices

LEMMA NamedContainer ==
    ASSUME NEW o \in Objects, NEW name \in ContainerNames, NEW mounts \in SUBSET VolumeNames
    PROVE  LET w == WithContainer(o, name, mounts)
           IN  /\ Cardinality(Named(w, name)) = Cardinality(Named(o, name)) + 1
               /\ \A n : n # name => Named(w, n) = Named(o, n)
               /\ SharesOutput(o) => SharesOutput(w)
<1> DEFINE w == WithContainer(o, name, mounts)
           k == Len(o.main) + 1
<1>1. /\ k \notin DOMAIN o.main /\ DOMAIN w.main = DOMAIN o.main \cup {k}
      /\ \A i \in DOMAIN o.main : w.main[i] = o.main[i]
      /\ w.main[k].name = name
  BY ContainerAdded
<1> HIDE DEF w, k
<1>2. Named(w, name) = Named(o, name) \cup {k} /\ k \notin Named(o, name)
  BY <1>1 DEF Named
<1>3. Cardinality(Named(w, name)) = Cardinality(Named(o, name)) + 1
  BY <1>2, NamedType, FS_AddElement
<1>4. ASSUME NEW n, n # name PROVE Named(w, n) = Named(o, n)
  BY <1>1, <1>4 DEF Named
<1>5. SharesOutput(o) => SharesOutput(w)
  BY <1>1 DEF SharesOutput, Named
<1>6. QED
  BY <1>3, <1>4, <1>5 DEF w

(***************************************************************************)
(* addOutputVol and addPodWatcherToken add a volume once, and containers   *)
(* none.                                                                   *)
(***************************************************************************)
LEMMA MountedEverywhere ==
    ASSUME NEW o \in Objects
    PROVE  LET m == [i \in DOMAIN o.main |->
                        Container(o.main[i].name, o.main[i].mounts \cup {"output-vol"})]
               w == [o EXCEPT !.main = m]
           IN  /\ w \in Objects
               /\ w.nil = o.nil /\ w.dropped = o.dropped
               /\ w.init = o.init /\ w.vols = o.vols
               /\ DOMAIN w.main = DOMAIN o.main
               /\ \A i \in DOMAIN o.main :
                     /\ w.main[i].name = o.main[i].name
                     /\ w.main[i].mounts = o.main[i].mounts \cup {"output-vol"}
<1> DEFINE m == [i \in DOMAIN o.main |->
                    Container(o.main[i].name, o.main[i].mounts \cup {"output-vol"})]
           w == [o EXCEPT !.main = m]
<1>1. /\ o.main \in Seq(Containers) /\ DOMAIN o.main = 1..Len(o.main) /\ Len(o.main) \in Nat
      /\ \A i \in DOMAIN o.main : o.main[i] \in Containers
  <2>1. o.main \in Seq(Containers)
    BY DEF Objects
  <2>2. QED
    BY <2>1, LenProperties, ElementOfSeq
<1>2. \A i \in DOMAIN o.main :
         /\ m[i] \in Containers
         /\ m[i].name = o.main[i].name
         /\ m[i].mounts = o.main[i].mounts \cup {"output-vol"}
  <2>1. ASSUME NEW i \in DOMAIN o.main
        PROVE  o.main[i].name \in ContainerNames
               /\ o.main[i].mounts \cup {"output-vol"} \in SUBSET VolumeNames
    <3>1. o.main[i] \in Containers
      BY <1>1
    <3>2. "output-vol" \in VolumeNames
      BY DEF VolumeNames
    <3>3. QED
      BY <3>1, <3>2 DEF Containers
  <2>2. ASSUME NEW n \in ContainerNames, NEW ms \in SUBSET VolumeNames
        PROVE  /\ Container(n, ms) \in Containers
               /\ Container(n, ms).name = n /\ Container(n, ms).mounts = ms
    BY DEF Container, Containers
  <2>3. ASSUME NEW i \in DOMAIN o.main
        PROVE  /\ m[i] \in Containers
               /\ m[i].name = o.main[i].name
               /\ m[i].mounts = o.main[i].mounts \cup {"output-vol"}
    <3> DEFINE n == o.main[i].name
               ms == o.main[i].mounts \cup {"output-vol"}
    <3>1. m[i] = Container(n, ms)
      OBVIOUS
    <3>2. n \in ContainerNames /\ ms \in SUBSET VolumeNames
      BY <2>1
    <3> HIDE DEF n, ms, m
    <3>3. /\ m[i] \in Containers
          /\ m[i].name = n
          /\ m[i].mounts = ms
      BY <2>2, <3>1, <3>2
    <3>4. QED
      BY <3>3 DEF n, ms
  <2> HIDE DEF m
  <2>4. QED
    BY <2>3
<1>3. m \in Seq(Containers)
  <2>1. m \in [1..Len(o.main) -> Containers]
    BY <1>1, <1>2
  <2> HIDE DEF m
  <2>2. QED
    BY <1>1, <2>1
<1>4. DOMAIN m = DOMAIN o.main
  OBVIOUS
<1> HIDE DEF m
<1>5. /\ w \in Objects /\ w.nil = o.nil /\ w.dropped = o.dropped
      /\ w.init = o.init /\ w.vols = o.vols /\ w.main = m
  BY <1>3 DEF Objects
<1>6. QED
  BY <1>2, <1>4, <1>5 DEF m

LEMMA OutputVolAdded ==
    ASSUME NEW o \in Objects
    PROVE  LET w == WithOutputVol(o)
           IN  /\ w \in Objects
               /\ w.nil = o.nil /\ w.dropped = o.dropped /\ w.init = o.init
               /\ \A n : VolInSpec(w, n) <=> VolInSpec(o, n) \/ n = "output-vol"
               /\ DOMAIN w.main = DOMAIN o.main
               /\ \A i \in DOMAIN o.main :
                     /\ w.main[i].name = o.main[i].name
                     /\ w.main[i].mounts \subseteq o.main[i].mounts \cup {"output-vol"}
                     /\ VolInSpec(o, "output-vol") => w.main[i] = o.main[i]
                     /\ ~VolInSpec(o, "output-vol") => "output-vol" \in w.main[i].mounts
               /\ Distinct(o.vols) => Distinct(w.vols)
               /\ \A c : Cardinality(Missing(w, c)) = Cardinality(Missing(o, c))
<1> DEFINE w == WithOutputVol(o)
           u == [o EXCEPT !.main = [i \in DOMAIN o.main |->
                    Container(o.main[i].name, o.main[i].mounts \cup {"output-vol"})]]
<1>1. CASE VolInSpec(o, "output-vol")
  <2>1. w = o
    BY <1>1 DEF WithOutputVol
  <2>2. QED
    BY <1>1, <2>1
<1>2. CASE ~VolInSpec(o, "output-vol")
  <2>1. w = WithVol(u, "output-vol", 0)
    BY <1>2 DEF WithOutputVol
  <2>2. /\ u \in Objects
        /\ u.nil = o.nil /\ u.dropped = o.dropped
        /\ u.init = o.init /\ u.vols = o.vols
        /\ DOMAIN u.main = DOMAIN o.main
        /\ \A i \in DOMAIN o.main :
              /\ u.main[i].name = o.main[i].name
              /\ u.main[i].mounts = o.main[i].mounts \cup {"output-vol"}
    BY MountedEverywhere
  <2> HIDE DEF u
  <2>3. "output-vol" \in VolumeNames /\ 0 \in Nat
    BY DEF VolumeNames
  <2>4. /\ w \in Objects /\ w.nil = u.nil /\ w.dropped = u.dropped
        /\ w.main = u.main /\ w.init = u.init
    BY <2>1, <2>2, <2>3, VolAdded
  <2>5. \A n : VolInSpec(w, n) <=> VolInSpec(u, n) \/ n = "output-vol"
    BY <2>1, <2>2, <2>3, VolNames
  <2>6. \A n : VolInSpec(u, n) <=> VolInSpec(o, n)
    BY <2>2 DEF VolInSpec
  <2>7. Distinct(o.vols) => Distinct(w.vols)
    BY <1>2, <2>1, <2>2, <2>3, <2>6, VolDistinct
  <2>8. \A c : Cardinality(Missing(w, c)) = Cardinality(Missing(o, c))
    <3>1. \A c : Missing(u, c) = Missing(o, c)
      BY <2>2 DEF Missing
    <3>2. \A c : Cardinality(Missing(w, c)) = Cardinality(Missing(u, c))
      BY <2>1, <2>2, <2>3, MissingVol
    <3>3. QED
      BY <3>1, <3>2
  <2> HIDE DEF w
  <2>9. /\ \A n : VolInSpec(w, n) <=> VolInSpec(o, n) \/ n = "output-vol"
        /\ \A i \in DOMAIN o.main :
              /\ w.main[i].name = o.main[i].name
              /\ w.main[i].mounts \subseteq o.main[i].mounts \cup {"output-vol"}
              /\ VolInSpec(o, "output-vol") => w.main[i] = o.main[i]
              /\ ~VolInSpec(o, "output-vol") => "output-vol" \in w.main[i].mounts
    BY <1>2, <2>2, <2>4, <2>5, <2>6
  <2>10. QED
    BY <2>2, <2>4, <2>7, <2>8, <2>9 DEF w
<1>3. QED
  BY <1>1, <1>2

LEMMA TokenAdded ==
    ASSUME NEW o \in Objects
    PROVE  LET w == WithToken(o)
           IN  /\ w \in Objects
               /\ w.nil = o.nil /\ w.dropped = o.dropped /\ w.init = o.init /\ w.main = o.main
               /\ \A n : VolInSpec(w, n) <=> VolInSpec(o, n) \/ n = "pod-watcher-token"
               /\ Distinct(o.vols) => Distinct(w.vols)
               /\ \A c : Cardinality(Missing(w, c)) = Cardinality(Missing(o, c))
<1> DEFINE w == WithToken(o)
<1>1. CASE VolInSpec(o, "pod-watcher-token")
  BY <1>1 DEF WithToken
<1>2. CASE ~VolInSpec(o, "pod-watcher-token")
  <2>1. w = WithVol(o, "pod-watcher-token", 0)
    BY <1>2 DEF WithToken
  <2>2. "pod-watcher-token" \in VolumeNames /\ 0 \in Nat
    BY DEF VolumeNames
  <2>3. /\ w \in Objects /\ w.nil = o.nil /\ w.dropped = o.dropped
        /\ w.main = o.main /\ w.init = o.init
    BY <2>1, <2>2, VolAdded
  <2>4. \A n : VolInSpec(w, n) <=> VolInSpec(o, n) \/ n = "pod-watcher-token"
    BY <2>1, <2>2, VolNames
  <2>5. Distinct(o.vols) => Distinct(w.vols)
    BY <1>2, <2>1, <2>2, VolDistinct
  <2>6. \A c : Cardinality(Missing(w, c)) = Cardinality(Missing(o, c))
    BY <2>1, <2>2, MissingVol
  <2> HIDE DEF w
  <2>7. QED
    BY <2>3, <2>4, <2>5, <2>6 DEF w
<1>3. QED
  BY <1>1, <1>2

(***************************************************************************)
(* The object after setupForOutput.                                        *)
(***************************************************************************)
LEMMA SetUp ==
    ASSUME NEW o \in Objects
    PROVE  LET w == WithToken(WithOutputVol(o))
           IN  /\ w \in Objects
               /\ w.nil = o.nil /\ w.dropped = o.dropped /\ w.init = o.init
               /\ \A n : VolInSpec(w, n) <=>
                            VolInSpec(o, n) \/ n \in {"output-vol", "pod-watcher-token"}
               /\ \A n : Named(w, n) = Named(o, n)
               /\ DOMAIN w.main = DOMAIN o.main
               /\ \A i \in DOMAIN o.main : w.main[i].name = o.main[i].name
               /\ Mounted(o, o.main) => Mounted(w, w.main)
               /\ Distinct(o.vols) => Distinct(w.vols)
               /\ Named(o, "main") # {} /\ (VolInSpec(o, "output-vol") => SharesOutput(o))
                     => SharesOutput(w)
               /\ \A c : Cardinality(Missing(w, c)) = Cardinality(Missing(o, c))
<1> DEFINE u == WithOutputVol(o)
           w == WithToken(u)
<1>1. /\ u \in Objects
      /\ u.nil = o.nil /\ u.dropped = o.dropped /\ u.init = o.init
      /\ \A n : VolInSpec(u, n) <=> VolInSpec(o, n) \/ n = "output-vol"
      /\ DOMAIN u.main = DOMAIN o.main
      /\ \A i \in DOMAIN o.main :
            /\ u.main[i].name = o.main[i].name
            /\ u.main[i].mounts \subseteq o.main[i].mounts \cup {"output-vol"}
            /\ VolInSpec(o, "output-vol") => u.main[i] = o.main[i]
            /\ ~VolInSpec(o, "output-vol") => "output-vol" \in u.main[i].mounts
      /\ Distinct(o.vols) => Distinct(u.vols)
      /\ \A c : Cardinality(Missing(u, c)) = Cardinality(Missing(o, c))
  BY OutputVolAdded
<1> HIDE DEF u
<1>2. /\ w \in Objects
      /\ w.nil = u.nil /\ w.dropped = u.dropped /\ w.init = u.init /\ w.main = u.main
      /\ \A n : VolInSpec(w, n) <=> VolInSpec(u, n) \/ n = "pod-watcher-token"
      /\ Distinct(u.vols) => Distinct(w.vols)
      /\ \A c : Cardinality(Missing(w, c)) = Cardinality(Missing(u, c))
  BY <1>1, TokenAdded
<1> HIDE DEF w
<1>3. \A n : VolInSpec(w, n) <=> VolInSpec(o, n) \/ n \in {"output-vol", "pod-watcher-token"}
  BY <1>1, <1>2
<1>4. \A n : Named(w, n) = Named(o, n)
  BY <1>1, <1>2 DEF Named
<1>5. Mounted(o, o.main) => Mounted(w, w.main)
  BY <1>1, <1>2, <1>3 DEF Mounted
<1>6. ASSUME Named(o, "main") # {}, VolInSpec(o, "output-vol") => SharesOutput(o)
      PROVE  SharesOutput(w)
  <2>1. CASE VolInSpec(o, "output-vol")
    BY <1>1, <1>2, <1>4, <1>6, <2>1 DEF SharesOutput, Named
  <2>2. CASE ~VolInSpec(o, "output-vol")
    BY <1>1, <1>2, <1>4, <1>6, <2>2 DEF SharesOutput, Named
  <2>3. QED
    BY <2>1, <2>2
<1>7. /\ DOMAIN w.main = DOMAIN o.main
      /\ \A i \in DOMAIN o.main : w.main[i].name = o.main[i].name
      /\ Distinct(o.vols) => Distinct(w.vols)
      /\ \A c : Cardinality(Missing(w, c)) = Cardinality(Missing(o, c))
      /\ w.nil = o.nil /\ w.dropped = o.dropped /\ w.init = o.init /\ w \in Objects
  BY <1>1, <1>2
<1>8. QED
  BY <1>3, <1>4, <1>5, <1>6, <1>7 DEF w, u

(***************************************************************************)
(* The object as it is decoded.                                            *)
(***************************************************************************)
LEMMA DecodedFacts ==
    /\ Decoded \in Objects /\ NoObject \in Objects
    /\ ~Decoded.nil /\ ~Decoded.dropped
    /\ Named(Decoded, "parser-container") = {} /\ Named(Decoded, "output-container") = {}
    /\ HasPodSpec => Named(Decoded, "main") # {}
    /\ VolInSpec(Decoded, "output-vol") => SharesOutput(Decoded)
    /\ \A n : VolInSpec(Decoded, n) => n = "output-vol"
    /\ Distinct(Decoded.main) /\ Distinct(Decoded.init) /\ Distinct(Decoded.vols)
    /\ \A i \in DOMAIN Decoded.main : Decoded.main[i].name \in {"main", "sidecar"}
    /\ \A i \in DOMAIN Decoded.init : Decoded.init[i].name = "warmup"
    /\ Mounted(Decoded, Decoded.main) /\ Mounted(Decoded, Decoded.init)
    /\ \A c : Missing(Decoded, c) = {} /\ Missing(NoObject, c) = {}
<1> DEFINE a == Container("main", IF in.ownVol THEN {"output-vol"} ELSE {})
           b == Container("sidecar", {})
           w == Container("warmup", {})
           v == Volume("output-vol", 0)
           D == Decoded
<1>1. a \in Containers /\ b \in Containers /\ w \in Containers /\ v \in Volumes
  BY DEF Container, Containers, ContainerNames, VolumeNames, Volume, Volumes
<1>2. /\ a.name = "main" /\ b.name = "sidecar" /\ w.name = "warmup" /\ v.name = "output-vol"
      /\ a.mounts = (IF in.ownVol THEN {"output-vol"} ELSE {})
      /\ b.mounts = {} /\ w.mounts = {} /\ v.cm = 0
  BY DEF Container, Volume
<1>3. /\ D.main = (IF HasPodSpec THEN <<a, b>> ELSE <<>>)
      /\ D.init = (IF HasPodSpec /\ in.warmup THEN <<w>> ELSE <<>>)
      /\ D.vols = (IF HasPodSpec /\ in.ownVol THEN <<v>> ELSE <<>>)
      /\ ~D.nil /\ ~D.dropped
  BY DEF Decoded
<1> HIDE DEF a, b, w, v
<1>4. D.main \in Seq(Containers) /\ D.init \in Seq(Containers) /\ D.vols \in Seq(Volumes)
  BY <1>1, <1>3
<1>5. D \in Objects
  <2> DEFINE m == D.main
             n == D.init
             vs == D.vols
  <2>1. D = [nil |-> FALSE, dropped |-> FALSE, main |-> m, init |-> n, vols |-> vs]
    BY DEF Decoded
  <2>2. m \in Seq(Containers) /\ n \in Seq(Containers) /\ vs \in Seq(Volumes)
    BY <1>4
  <2> HIDE DEF m, n, vs, D
  <2>3. D \in Objects
    BY <2>1, <2>2 DEF Objects
  <2>4. QED
    BY <2>3
<1>6. NoObject \in Objects /\ \A c : Missing(NoObject, c) = {}
  BY DEF NoObject, Objects, Missing
<1> HIDE DEF D
<1>7. /\ \A i \in DOMAIN D.main : D.main[i] \in {a, b}
      /\ \A i \in DOMAIN D.init : D.init[i] = w
      /\ \A i \in DOMAIN D.vols : D.vols[i] = v
  <2>1. CASE HasPodSpec
    <3>1. DOMAIN <<a, b>> = {1, 2} /\ <<a, b>>[1] = a /\ <<a, b>>[2] = b
      OBVIOUS
    <3>2. DOMAIN <<w>> = {1} /\ <<w>>[1] = w /\ DOMAIN <<v>> = {1} /\ <<v>>[1] = v
      OBVIOUS
    <3>3. D.main = <<a, b>> /\ D.init \in {<<w>>, <<>>} /\ D.vols \in {<<v>>, <<>>}
      BY <1>3, <2>1
    <3>4. QED
      BY <3>1, <3>2, <3>3
  <2>2. CASE ~HasPodSpec
    BY <1>3, <2>2
  <2>3. QED
    BY <2>1, <2>2
<1>8. CASE HasPodSpec
  <2>1. /\ DOMAIN D.main = {1, 2} /\ D.main[1] = a /\ D.main[2] = b
        /\ DOMAIN D.init \subseteq {1} /\ DOMAIN D.vols \subseteq {1}
        /\ in.ownVol => DOMAIN D.vols = {1}
        /\ ~in.ownVol => DOMAIN D.vols = {}
    BY <1>3, <1>8
  <2>2. Distinct(D.main) /\ Distinct(D.init) /\ Distinct(D.vols)
    BY <1>2, <2>1 DEF Distinct
  <2>3. \A n : VolInSpec(D, n) <=> n = "output-vol" /\ in.ownVol
    BY <1>2, <1>7, <2>1 DEF VolInSpec
  <2>4. Mounted(D, D.main) /\ Mounted(D, D.init)
    BY <1>2, <1>7, <2>1, <2>3 DEF Mounted
  <2>5. /\ Named(D, "main") # {}
        /\ Named(D, "parser-container") = {} /\ Named(D, "output-container") = {}
    BY <1>2, <1>7, <2>1 DEF Named
  <2>6. in.ownVol => SharesOutput(D)
    BY <1>2, <2>1 DEF SharesOutput, Named
  <2>7. \A c : Missing(D, c) = {}
    BY <1>2, <1>7 DEF Missing
  <2>8. QED
    BY <1>2, <1>3, <1>5, <1>6, <1>7, <2>2, <2>3, <2>4, <2>5, <2>6, <2>7 DEF D
<1>9. CASE ~HasPodSpec
  <2>1. DOMAIN D.main = {} /\ DOMAIN D.init = {} /\ DOMAIN D.vols = {}
    BY <1>3, <1>9
  <2>2. Distinct(D.main) /\ Distinct(D.init) /\ Distinct(D.vols)
    BY <2>1 DEF Distinct
  <2>3. \A n : ~VolInSpec(D, n) /\ Named(D, n) = {}
    BY <2>1 DEF VolInSpec, Named
  <2>4. Mounted(D, D.main) /\ Mounted(D, D.init)
    BY <2>1 DEF Mounted
  <2>5. \A c : Missing(D, c) = {}
    BY <2>1 DEF Missing
  <2>6. QED
    BY <1>3, <1>5, <1>6, <1>9, <2>1, <2>2, <2>3, <2>4, <2>5 DEF D
<1>10. QED
  BY <1>8, <1>9

(***************************************************************************)
(* The object after a helper container was added with its volume, or only  *)
(* the container when the volume is there.                                 *)
(***************************************************************************)
LEMMA HelperAdded ==
    ASSUME NEW o \in Objects, NEW name \in ContainerNames, NEW vol \in VolumeNames,
           NEW k \in Nat, NEW w,
           \/ w = WithVol(WithContainer(o, name, HelperMounts \cup {vol}), vol, k)
           \/ /\ w = WithContainer(o, name, HelperMounts \cup {vol})
              /\ VolInSpec(o, vol)
    PROVE  /\ w \in Objects
           /\ w.nil = o.nil /\ w.dropped = o.dropped /\ w.init = o.init
           /\ \A n : VolInSpec(w, n) <=> VolInSpec(o, n) \/ n = vol
           /\ Cardinality(Named(w, name)) = Cardinality(Named(o, name)) + 1
           /\ \A n : n # name => Named(w, n) = Named(o, n)
           /\ SharesOutput(o) => SharesOutput(w)
           /\ \A names : NamesIn(o, names) /\ name \in names => NamesIn(w, names)
           /\ Distinct(o.main) /\ Named(o, name) = {} => Distinct(w.main)
           /\ Distinct(o.vols) /\ (w.vols = o.vols \/ ~VolInSpec(o, vol)) => Distinct(w.vols)
           /\ VolInSpec(o, vol) \/ w.vols # o.vols
           /\ Mounted(o, o.main) /\ (\A m \in HelperMounts : VolInSpec(o, m))
                 => Mounted(w, w.main)
           /\ \A c : /\ Cardinality(Missing(w, c)) <= Cardinality(Missing(o, c)) + 1
                     /\ k \in c => Cardinality(Missing(w, c)) <= Cardinality(Missing(o, c))
<1> DEFINE ms == HelperMounts \cup {vol}
           u == WithContainer(o, name, ms)
           j == Len(o.main) + 1
<1>1. ms \in SUBSET VolumeNames
  BY DEF HelperMounts, VolumeNames
<1> HIDE DEF ms
<1>2. /\ u \in Objects
      /\ u.nil = o.nil /\ u.dropped = o.dropped
      /\ u.init = o.init /\ u.vols = o.vols
      /\ j \notin DOMAIN o.main /\ DOMAIN u.main = DOMAIN o.main \cup {j}
      /\ \A i \in DOMAIN o.main : u.main[i] = o.main[i]
      /\ u.main[j].name = name /\ u.main[j].mounts = ms
  BY <1>1, ContainerAdded
<1>3. /\ Cardinality(Named(u, name)) = Cardinality(Named(o, name)) + 1
      /\ \A n : n # name => Named(u, n) = Named(o, n)
      /\ SharesOutput(o) => SharesOutput(u)
  BY <1>1, NamedContainer
<1> HIDE DEF u, j
<1>4. \/ w = WithVol(u, vol, k)
      \/ w = u /\ VolInSpec(o, vol)
  BY DEF u, ms
<1>5. \A n : VolInSpec(u, n) <=> VolInSpec(o, n)
  BY <1>2 DEF VolInSpec
<1>6. \A c : Missing(u, c) = Missing(o, c)
  BY <1>2 DEF Missing
<1>7. /\ w \in Objects /\ w.nil = o.nil /\ w.dropped = o.dropped /\ w.init = o.init
      /\ w.main = u.main
  BY <1>2, <1>4, VolAdded
<1>8. \A n : VolInSpec(w, n) <=> VolInSpec(o, n) \/ n = vol
  BY <1>2, <1>4, <1>5, VolNames
<1>9. \A n : Named(w, n) = Named(u, n)
  BY <1>7 DEF Named
<1>10. SharesOutput(u) => SharesOutput(w)
  BY <1>7 DEF SharesOutput, Named
<1>11. \A names : NamesIn(o, names) /\ name \in names => NamesIn(w, names)
  BY <1>2, <1>7 DEF NamesIn
<1>12. Distinct(o.main) /\ Named(o, name) = {} => Distinct(w.main)
  BY <1>2, <1>7 DEF Distinct, Named
<1>13. Distinct(o.vols) /\ (w.vols = o.vols \/ ~VolInSpec(o, vol)) => Distinct(w.vols)
  BY <1>2, <1>4, <1>5, VolDistinct
<1>14. VolInSpec(o, vol) \/ w.vols # o.vols
  BY <1>8 DEF VolInSpec
<1>15. Mounted(o, o.main) /\ (\A m \in HelperMounts : VolInSpec(o, m)) => Mounted(w, w.main)
  BY <1>2, <1>7, <1>8 DEF Mounted, ms
<1>16. ASSUME NEW c
       PROVE  /\ Cardinality(Missing(w, c)) <= Cardinality(Missing(o, c)) + 1
              /\ k \in c => Cardinality(Missing(w, c)) <= Cardinality(Missing(o, c))
  <2>1. Cardinality(Missing(o, c)) \in Nat
    BY MissingType
  <2>2. CASE w = u
    BY <1>6, <2>1, <2>2
  <2>3. CASE w = WithVol(u, vol, k)
    <3>1. /\ Cardinality(Missing(w, c)) <= Cardinality(Missing(u, c)) + 1
          /\ k \in c \cup {0} => Cardinality(Missing(w, c)) = Cardinality(Missing(u, c))
      BY <1>2, <2>3, MissingVol
    <3>2. QED
      BY <1>6, <2>1, <3>1
  <2>4. QED
    BY <1>4, <2>2, <2>3
<1>17. QED
  BY <1>3, <1>7, <1>8, <1>9, <1>10, <1>11, <1>12, <1>13, <1>14, <1>15, <1>16

(***************************************************************************)
(* The object after the sync container was added.                          *)
(***************************************************************************)
LEMMA SyncAdded ==
    ASSUME NEW o \in Objects, NEW k \in Nat, NEW w,
           LET sync == Container("sync-container", {"ready-script", "pod-watcher-token"})
           IN  w = WithToken(WithVol([o EXCEPT !.init = Append(@, sync)], "ready-script", k))
    PROVE  /\ w \in Objects
           /\ w.nil = o.nil /\ w.dropped = o.dropped /\ w.main = o.main
           /\ \A n : VolInSpec(w, n) <=>
                        VolInSpec(o, n) \/ n \in {"ready-script", "pod-watcher-token"}
           /\ Distinct(o.vols) /\ ~VolInSpec(o, "ready-script") => Distinct(w.vols)
           /\ Distinct(o.init) /\ (\A i \in DOMAIN o.init : o.init[i].name # "sync-container")
                 => Distinct(w.init)
           /\ Mounted(o, o.init) => Mounted(w, w.init)
           /\ (\A i \in DOMAIN o.init : o.init[i].name \in {"warmup", "sync-container"})
                 => \A i \in DOMAIN w.init : w.init[i].name \in {"warmup", "sync-container"}
           /\ \A c : /\ Cardinality(Missing(w, c)) <= Cardinality(Missing(o, c)) + 1
                     /\ k \in c => Cardinality(Missing(w, c)) <= Cardinality(Missing(o, c))
<1> DEFINE y == Container("sync-container", {"ready-script", "pod-watcher-token"})
           t == [o EXCEPT !.init = Append(@, y)]
           u == WithVol(t, "ready-script", k)
           j == Len(o.init) + 1
<1>1. /\ y \in Containers /\ y.name = "sync-container"
      /\ y.mounts = {"ready-script", "pod-watcher-token"}
  BY DEF Container, Containers, ContainerNames, VolumeNames
<1>2. w = WithToken(u)
  OBVIOUS
<1> HIDE DEF y
<1>3. /\ t.init = Append(o.init, y) /\ o.init \in Seq(Containers)
      /\ t.nil = o.nil /\ t.dropped = o.dropped /\ t.main = o.main /\ t.vols = o.vols
  BY DEF Objects
<1>4. t \in Objects
  <2>1. Append(o.init, y) \in Seq(Containers)
    BY <1>1, <1>3, Appended
  <2>2. QED
    BY <2>1 DEF Objects
<1> HIDE DEF t
<1>5. /\ DOMAIN t.init = DOMAIN o.init \cup {j} /\ j \notin DOMAIN o.init
      /\ \A i \in DOMAIN o.init : t.init[i] = o.init[i]
      /\ t.init[j] = y
  BY <1>1, <1>3, Appended
<1>6. "ready-script" \in VolumeNames
  BY DEF VolumeNames
<1>7. /\ u \in Objects /\ u.nil = t.nil /\ u.dropped = t.dropped
      /\ u.main = t.main /\ u.init = t.init
  BY <1>4, <1>6, VolAdded
<1>8. \A n : VolInSpec(u, n) <=> VolInSpec(t, n) \/ n = "ready-script"
  BY <1>4, <1>6, VolNames
<1>9. \A n : VolInSpec(t, n) <=> VolInSpec(o, n)
  BY <1>3 DEF VolInSpec
<1>10. Distinct(o.vols) /\ ~VolInSpec(o, "ready-script") => Distinct(u.vols)
  BY <1>3, <1>4, <1>6, <1>9, VolDistinct
<1>11. ASSUME NEW c
       PROVE  /\ Cardinality(Missing(u, c)) <= Cardinality(Missing(o, c)) + 1
              /\ k \in c => Cardinality(Missing(u, c)) <= Cardinality(Missing(o, c))
  <2>1. Missing(t, c) = Missing(o, c) /\ Cardinality(Missing(o, c)) \in Nat
    BY <1>3, MissingType DEF Missing
  <2>2. /\ Cardinality(Missing(u, c)) <= Cardinality(Missing(t, c)) + 1
        /\ k \in c \cup {0} => Cardinality(Missing(u, c)) = Cardinality(Missing(t, c))
    BY <1>4, <1>6, MissingVol
  <2>3. QED
    BY <2>1, <2>2
<1> HIDE DEF u, j
<1>12. /\ w \in Objects
       /\ w.nil = u.nil /\ w.dropped = u.dropped /\ w.init = u.init /\ w.main = u.main
       /\ \A n : VolInSpec(w, n) <=> VolInSpec(u, n) \/ n = "pod-watcher-token"
       /\ Distinct(u.vols) => Distinct(w.vols)
       /\ \A c : Cardinality(Missing(w, c)) = Cardinality(Missing(u, c))
  BY <1>2, <1>7, TokenAdded
<1>13. w.init = t.init
  BY <1>7, <1>12
<1>14. \A n : VolInSpec(w, n) <=> VolInSpec(o, n) \/ n \in {"ready-script", "pod-watcher-token"}
  BY <1>8, <1>9, <1>12
<1>15. Distinct(o.init) /\ (\A i \in DOMAIN o.init : o.init[i].name # "sync-container")
          => Distinct(w.init)
  BY <1>1, <1>5, <1>13 DEF Distinct
<1>16. Mounted(o, o.init) => Mounted(w, w.init)
  BY <1>1, <1>5, <1>13, <1>14 DEF Mounted
<1>17. (\A i \in DOMAIN o.init : o.init[i].name \in {"warmup", "sync-container"})
          => \A i \in DOMAIN w.init : w.init[i].name \in {"warmup", "sync-container"}
  BY <1>1, <1>5, <1>13
<1>18. QED
  BY <1>3, <1>7, <1>10, <1>11, <1>12, <1>14, <1>15, <1>16, <1>17
-----------------------------------------------------------------------------
(***************************************************************************)
(* Type correctness.                                                       *)
(***************************************************************************)
LEMMA NamesOfHelpers ==
    /\ "parser-container" \in ContainerNames /\ "output-container" \in ContainerNames
    /\ "parser" \in VolumeNames /\ "output" \in VolumeNames /\ "helper" \in VolumeNames
  BY DEF ContainerNames, VolumeNames

LEMMA FaultsBounded == MaxFaults \in Nat
  BY AssemblyAssumption

LEMMA NewConfigMapFacts ==
    ASSUME TypeInv, NewConfigMap
    PROVE  /\ made' = made + 1 /\ made' \in Nat /\ UNCHANGED <<in, stored>>
           /\ cms \subseteq cms' /\ cms' \subseteq Nat
           /\ faults' \in 0..MaxFaults
           /\ \/ faults' = faults /\ made + 1 \in cms'
              \/ faults' = faults + 1
<1>1. made' = made + 1 /\ UNCHANGED <<in, stored>> /\ made \in Nat /\ cms \subseteq Nat
  BY DEF TypeInv, NewConfigMap
<1>2. /\ cms' \in {cms, cms \cup {made + 1}}
      /\ \/ faults' = faults /\ made + 1 \in cms'
         \/ faults' = faults + 1
  BY DEF NewConfigMap, Ok, Fault
<1>3. faults' \in 0..MaxFaults
  BY FaultsBounded DEF TypeInv, NewConfigMap, Ok, Fault
<1>4. made + 1 \in Nat
  BY <1>1
<1>5. QED
  BY <1>1, <1>2, <1>3, <1>4

(***************************************************************************)
(* What AddParserContainer and AddOutputContainer make of the object.      *)
(***************************************************************************)
LEMMA ParserStep ==
    ASSUME obj \in Objects,
           obj' = LET o == WithContainer(obj, "parser-container", HelperMounts \cup {"parser"})
                  IN  IF VolInSpec(o, "parser") THEN o ELSE WithVol(o, "parser", made)
    PROVE  \/ obj' = WithVol(WithContainer(obj, "parser-container", HelperMounts \cup {"parser"}),
                             "parser", made)
              /\ ~VolInSpec(obj, "parser")
           \/ /\ obj' = WithContainer(obj, "parser-container", HelperMounts \cup {"parser"})
              /\ VolInSpec(obj, "parser")
<1> DEFINE o == WithContainer(obj, "parser-container", HelperMounts \cup {"parser"})
<1>1. VolInSpec(o, "parser") <=> VolInSpec(obj, "parser")
  <2>1. o.vols = obj.vols
    BY NamesOfHelpers, ContainerAdded DEF HelperMounts, VolumeNames
  <2>2. QED
    BY <2>1 DEF VolInSpec
<1>2. QED
  BY <1>1

LEMMA TypeStep == ASSUME TypeInv, [Next]_vars PROVE TypeInv'
<1>1. Fails \/ Fault => faults' \in 0..MaxFaults
  BY FaultsBounded DEF Fails, Fault, TypeInv
<1>2. CASE Decode
  BY <1>2, NumOutputsType DEF Decode, Goto, TypeInv, Places
<1>3. CASE DecodeFails \/ NextOutput \/ SetEnvVars \/ SyncWithoutPodSpec
  BY <1>3 DEF DecodeFails, NextOutput, SetEnvVars, SyncWithoutPodSpec, Goto, TypeInv, Places
<1>4. CASE Fails
  BY <1>1, <1>4 DEF Fails, Goto, TypeInv, Places
<1>5. CASE SetupForOutput
  <2>1. obj' \in Objects
    <3>1. WithToken(WithOutputVol(obj)) \in Objects
      BY SetUp DEF TypeInv
    <3>2. [obj EXCEPT !.nil = TRUE, !.dropped = TRUE] \in Objects
      BY DEF TypeInv, Objects
    <3>3. QED
      BY <1>5, <3>1, <3>2 DEF SetupForOutput
  <2>2. QED
    BY <1>5, <2>1 DEF SetupForOutput, Goto, TypeInv, Places
<1>6. CASE AddCountdoneScript
  <2>1. NewConfigMap
    BY <1>6 DEF AddCountdoneScript
  <2>2. obj' \in Objects
    BY <1>6, NamesOfHelpers, VolAdded DEF AddCountdoneScript, TypeInv
  <2>3. QED
    BY <1>6, <2>1, <2>2, NewConfigMapFacts DEF AddCountdoneScript, Goto, TypeInv, Places
<1>7. CASE CountdoneScriptFails
  <2>1. obj' \in Objects
    BY <1>7 DEF CountdoneScriptFails, TypeInv, Objects
  <2>2. QED
    BY <1>1, <1>7, <2>1 DEF CountdoneScriptFails, Goto, TypeInv, Places
<1>8. CASE CloneParser
  BY <1>4, <1>8, NewConfigMapFacts DEF CloneParser, Goto, TypeInv, Places
<1>9. CASE AddParserContainer
  <2>1. CASE Fails
    BY <1>4, <2>1
  <2>2. CASE ~Fails
    <3>1. obj' \in Objects
      BY <1>9, <2>2, ParserStep, HelperAdded, NamesOfHelpers DEF AddParserContainer, TypeInv
    <3>2. QED
      BY <1>9, <2>2, <3>1 DEF AddParserContainer, Goto, Ok, TypeInv, Places
  <2>3. QED
    BY <2>1, <2>2
<1>10. CASE AddOutputContainer
  <2>1. CASE Fails
    BY <1>4, <2>1
  <2>2. CASE ~Fails
    <3>1. obj' \in Objects
      BY <1>10, <2>2, HelperAdded, NamesOfHelpers DEF AddOutputContainer, TypeInv
    <3>2. NewConfigMap /\ pc = "output" /\ left' = left - 1 /\ pc' = "outputs"
      BY <1>10, <2>2 DEF AddOutputContainer, Goto
    <3>3. left' \in Nat
      BY <3>2 DEF TypeInv
    <3>4. QED
      BY <3>1, <3>2, <3>3, NewConfigMapFacts DEF TypeInv, Places
  <2>3. QED
    BY <2>1, <2>2
<1>11. CASE AddSyncContainer
  <2>1. CASE Fails
    BY <1>4, <2>1
  <2>2. CASE ~Fails
    <3>1. NewConfigMap /\ pc' = "create" /\ left' = left
      BY <1>11, <2>2 DEF AddSyncContainer, Goto
    <3>2. obj' \in Objects
      <4>1. made + 1 \in Nat /\ obj \in Objects
        BY DEF TypeInv
      <4>2. LET sync == Container("sync-container", {"ready-script", "pod-watcher-token"})
            IN  obj' = WithToken(WithVol([obj EXCEPT !.init = Append(@, sync)],
                                         "ready-script", made + 1))
        BY <1>11, <2>2 DEF AddSyncContainer
      <4>3. QED
        BY <4>1, <4>2, SyncAdded
    <3>3. QED
      BY <3>1, <3>2, NewConfigMapFacts DEF TypeInv, Places
  <2>3. QED
    BY <2>1, <2>2
<1>12. CASE CreateObj
  <2>1. stored' \in Objects
    BY <1>12 DEF CreateObj, TypeInv
  <2>2. QED
    BY <1>1, <1>12, <2>1 DEF CreateObj, Goto, Ok, TypeInv, Places
<1>13. CASE Retry
  BY <1>1, <1>13, DecodedFacts DEF Retry, Goto, TypeInv, Places
<1>14. CASE UNCHANGED vars
  BY <1>14 DEF vars, TypeInv
<1>15. QED
  BY <1>2, <1>3, <1>5, <1>6, <1>7, <1>8, <1>9, <1>10, <1>11, <1>12, <1>13, <1>14 DEF Next

LEMMA TypesCorrect == Spec => []TypeInv
<1>1. Init => TypeInv
  BY DecodedFacts, FaultsBounded DEF Init, TypeInv, Places
<1>2. TypeInv /\ [Next]_vars => TypeInv'
  BY TypeStep
<1>3. QED
  BY <1>1, <1>2, PTL DEF Spec
-----------------------------------------------------------------------------
(***************************************************************************)
(* The steps that change the object or the ConfigMaps.                     *)
(***************************************************************************)
LEMMA ParserEffect ==
    ASSUME TypeInv, AddParserContainer, ~Fails
    PROVE  /\ pc = "image" /\ pc' = "output" /\ UNCHANGED <<in, left, cms, made, stored, faults>>
           /\ obj \in Objects /\ made \in Nat
           /\ \/ obj' = WithVol(WithContainer(obj, "parser-container",
                                              HelperMounts \cup {"parser"}), "parser", made)
                 /\ ~VolInSpec(obj, "parser")
              \/ /\ obj' = WithContainer(obj, "parser-container", HelperMounts \cup {"parser"})
                 /\ VolInSpec(obj, "parser")
  BY ParserStep DEF AddParserContainer, Goto, Ok, TypeInv

LEMMA OutputEffect ==
    ASSUME TypeInv, AddOutputContainer, ~Fails
    PROVE  /\ pc = "output" /\ pc' = "outputs" /\ left' = left - 1 /\ NewConfigMap
           /\ obj \in Objects /\ made + 1 \in Nat
           /\ obj' = WithVol(WithContainer(obj, "output-container",
                                           HelperMounts \cup {"output"}), "output", made + 1)
  BY DEF AddOutputContainer, Goto, TypeInv

LEMMA SyncEffect ==
    ASSUME TypeInv, AddSyncContainer, ~Fails
    PROVE  /\ pc = "sync" /\ pc' = "create" /\ left' = left /\ NewConfigMap
           /\ obj \in Objects /\ made + 1 \in Nat
           /\ LET sync == Container("sync-container", {"ready-script", "pod-watcher-token"})
              IN  obj' = WithToken(WithVol([obj EXCEPT !.init = Append(@, sync)],
                                           "ready-script", made + 1))
<1>1. LET sync == Container("sync-container", {"ready-script", "pod-watcher-token"})
      IN  obj' = WithToken(WithVol([obj EXCEPT !.init = Append(@, sync)],
                                   "ready-script", made + 1))
  BY DEF AddSyncContainer
<1>2. /\ pc = "sync" /\ pc' = "create" /\ left' = left /\ NewConfigMap
      /\ obj \in Objects /\ made + 1 \in Nat
  BY DEF AddSyncContainer, Goto, TypeInv
<1>3. QED
  BY <1>1, <1>2

(***************************************************************************)
(* A created ConfigMap that is missing is one more fault.                  *)
(***************************************************************************)
LEMMA ScriptAdded ==
    ASSUME TypeInv, ScriptInv, NewConfigMap, obj' \in Objects,
           \A c : /\ Cardinality(Missing(obj', c)) <= Cardinality(Missing(obj, c)) + 1
                  /\ made + 1 \in c => Cardinality(Missing(obj', c)) <= Cardinality(Missing(obj, c)),
           pc' # "image"
    PROVE  ScriptInv'
<1>1. /\ made' = made + 1 /\ UNCHANGED stored /\ cms \subseteq cms'
      /\ faults \in Nat /\ faults' \in Nat
      /\ \/ faults' = faults /\ made + 1 \in cms'
         \/ faults' = faults + 1
  BY NewConfigMapFacts DEF TypeInv
<1>2. obj \in Objects /\ stored \in Objects
  BY DEF TypeInv
<1> DEFINE a == Cardinality(Missing(obj, cms))
           b == Cardinality(Missing(obj, cms'))
           d == Cardinality(Missing(obj', cms'))
           e == Cardinality(Missing(stored, cms))
           f == Cardinality(Missing(stored, cms'))
<1>3. a \in Nat /\ b \in Nat /\ d \in Nat /\ e \in Nat /\ f \in Nat /\ b <= a /\ f <= e
  BY <1>1, <1>2, MissingType, MissingShrinks
<1>4. a <= faults /\ e <= faults
  BY DEF ScriptInv
<1>5. d <= b + 1 /\ (made + 1 \in cms' => d <= b)
  OBVIOUS
<1>6. Missing(obj, cms)' = Missing(obj', cms') /\ Missing(stored, cms)' = Missing(stored, cms')
  BY <1>1 DEF Missing
<1> HIDE DEF a, b, d, e, f
<1>7. d <= faults' /\ f <= faults'
  BY <1>1, <1>3, <1>4, <1>5
<1>8. QED
  BY <1>6, <1>7 DEF ScriptInv, d, f

LEMMA ScriptStep == ASSUME TypeInv, ScriptInv, [Next]_vars PROVE ScriptInv'
<1>a. /\ obj \in Objects /\ stored \in Objects /\ faults \in Nat /\ made + 1 \in Nat
      /\ Cardinality(Missing(obj, cms)) \in Nat /\ Cardinality(Missing(stored, cms)) \in Nat
  BY MissingType DEF TypeInv
<1>1. ASSUME UNCHANGED <<cms, stored>>, obj'.vols = obj.vols, faults' \in {faults, faults + 1},
             pc' # "image"
      PROVE  ScriptInv'
  <2>1. Missing(obj, cms)' = Missing(obj, cms) /\ Missing(stored, cms)' = Missing(stored, cms)
    BY <1>1 DEF Missing
  <2>2. QED
    BY <1>a, <1>1, <2>1 DEF ScriptInv
<1>2. CASE Decode \/ DecodeFails \/ NextOutput \/ SetEnvVars \/ SyncWithoutPodSpec \/ Fails
  BY <1>1, <1>2 DEF Decode, DecodeFails, NextOutput, SetEnvVars, SyncWithoutPodSpec, Fails,
     Fault, Goto
<1>3. CASE SetupForOutput
  <2>1. UNCHANGED <<cms, stored, faults>> /\ pc' # "image"
    BY <1>3 DEF SetupForOutput, Goto
  <2>2. CASE HasPodSpec
    <3>1. \A c : Cardinality(Missing(obj', c)) = Cardinality(Missing(obj, c))
      BY <1>3, <1>a, <2>2, SetUp DEF SetupForOutput
    <3>2. Missing(obj, cms)' = Missing(obj', cms) /\ Missing(stored, cms)' = Missing(stored, cms)
      BY <2>1 DEF Missing
    <3>3. QED
      BY <2>1, <3>1, <3>2 DEF ScriptInv
  <2>3. CASE ~HasPodSpec
    <3>1. obj'.vols = obj.vols
      BY <1>3, <1>a, <2>3 DEF SetupForOutput, Objects
    <3>2. QED
      BY <1>1, <2>1, <3>1
  <2>4. QED
    BY <2>2, <2>3
<1>4. CASE AddCountdoneScript
  <2>1. NewConfigMap /\ obj' = WithVol(obj, "helper", made + 1) /\ pc' = "parser"
    BY <1>4 DEF AddCountdoneScript, Goto
  <2>2. obj' \in Objects
    BY <1>a, <2>1, VolAdded, NamesOfHelpers
  <2>3. ASSUME NEW c
        PROVE  /\ Cardinality(Missing(obj', c)) <= Cardinality(Missing(obj, c)) + 1
               /\ made + 1 \in c => Cardinality(Missing(obj', c)) <= Cardinality(Missing(obj, c))
    <3>1. Cardinality(Missing(obj, c)) \in Nat
      BY <1>a, MissingType
    <3>2. /\ Cardinality(Missing(obj', c)) <= Cardinality(Missing(obj, c)) + 1
          /\ made + 1 \in c \cup {0} =>
                Cardinality(Missing(obj', c)) = Cardinality(Missing(obj, c))
      BY <1>a, <2>1, MissingVol, NamesOfHelpers
    <3>3. QED
      BY <3>1, <3>2
  <2>4. QED
    BY <2>1, <2>2, <2>3, ScriptAdded
<1>5. CASE CountdoneScriptFails
  <2>1. obj'.vols = obj.vols
    BY <1>5, <1>a DEF CountdoneScriptFails, Objects
  <2>2. QED
    BY <1>1, <1>5, <2>1 DEF CountdoneScriptFails, Goto, Fault
<1>6. CASE CloneParser
  <2>1. CASE Fails
    BY <1>2, <2>1
  <2>2. CASE ~Fails
    <3>1. NewConfigMap /\ obj' = obj
      BY <1>6, <2>2 DEF CloneParser
    <3>2. /\ made' = made + 1 /\ UNCHANGED stored /\ cms \subseteq cms' /\ faults' \in Nat
          /\ \/ faults' = faults /\ made + 1 \in cms'
             \/ faults' = faults + 1
      BY <3>1, NewConfigMapFacts DEF TypeInv
    <3>3. /\ Cardinality(Missing(obj, cms')) <= Cardinality(Missing(obj, cms))
          /\ Cardinality(Missing(stored, cms')) <= Cardinality(Missing(stored, cms))
          /\ Cardinality(Missing(obj, cms')) \in Nat /\ Cardinality(Missing(stored, cms')) \in Nat
      BY <1>a, <3>2, MissingShrinks, MissingType
    <3>4. Missing(obj, cms)' = Missing(obj, cms') /\ Missing(stored, cms)' = Missing(stored, cms')
      BY <3>1, <3>2 DEF Missing
    <3>5. QED
      BY <1>a, <3>2, <3>3, <3>4 DEF ScriptInv
  <2>3. QED
    BY <2>1, <2>2
<1>7. CASE AddParserContainer
  <2>1. CASE Fails
    BY <1>2, <2>1
  <2>2. CASE ~Fails
    <3>0. /\ pc = "image" /\ pc' = "output" /\ UNCHANGED <<cms, made, stored, faults>>
          /\ made \in Nat
          /\ \/ obj' = WithVol(WithContainer(obj, "parser-container",
                                             HelperMounts \cup {"parser"}), "parser", made)
             \/ /\ obj' = WithContainer(obj, "parser-container", HelperMounts \cup {"parser"})
                /\ VolInSpec(obj, "parser")
      BY <1>7, <2>2, ParserEffect
    <3>1. /\ obj' \in Objects
          /\ \A c : /\ Cardinality(Missing(obj', c)) <= Cardinality(Missing(obj, c)) + 1
                    /\ made \in c => Cardinality(Missing(obj', c)) <= Cardinality(Missing(obj, c))
      BY <1>a, <3>0, HelperAdded, NamesOfHelpers
    <3>2. Cardinality(Missing(obj', cms)) \in Nat
      BY <3>1, MissingType
    <3>3. Missing(obj, cms)' = Missing(obj', cms) /\ Missing(stored, cms)' = Missing(stored, cms)
      BY <3>0 DEF Missing
    <3>4. QED
      BY <1>a, <3>0, <3>1, <3>2, <3>3 DEF ScriptInv
  <2>3. QED
    BY <2>1, <2>2
<1>8. CASE AddOutputContainer
  <2>1. CASE Fails
    BY <1>2, <2>1
  <2>2. CASE ~Fails
    <3>1. /\ NewConfigMap /\ obj' \in Objects /\ pc' # "image"
          /\ \A c : /\ Cardinality(Missing(obj', c)) <= Cardinality(Missing(obj, c)) + 1
                    /\ made + 1 \in c =>
                          Cardinality(Missing(obj', c)) <= Cardinality(Missing(obj, c))
      <4>1. /\ NewConfigMap /\ pc' = "outputs"
            /\ obj' = WithVol(WithContainer(obj, "output-container",
                                            HelperMounts \cup {"output"}), "output", made + 1)
        BY <1>8, <2>2, OutputEffect
      <4>2. QED
        BY <1>a, <4>1, HelperAdded, NamesOfHelpers
    <3>2. QED
      BY <3>1, ScriptAdded
  <2>3. QED
    BY <2>1, <2>2
<1>9. CASE AddSyncContainer
  <2>1. CASE Fails
    BY <1>2, <2>1
  <2>2. CASE ~Fails
    <3>1. /\ NewConfigMap /\ obj' \in Objects /\ pc' # "image"
          /\ \A c : /\ Cardinality(Missing(obj', c)) <= Cardinality(Missing(obj, c)) + 1
                    /\ made + 1 \in c =>
                          Cardinality(Missing(obj', c)) <= Cardinality(Missing(obj, c))
      BY <1>9, <2>2, SyncEffect, SyncAdded
    <3>2. QED
      BY <3>1, ScriptAdded
  <2>3. QED
    BY <2>1, <2>2
<1>10. CASE CreateObj \/ Retry
  <2>1. /\ UNCHANGED cms /\ faults' \in {faults, faults + 1} /\ pc' # "image"
        /\ stored' \in {stored, obj, NoObject} /\ obj' \in {obj, Decoded}
    BY <1>10 DEF CreateObj, Retry, Goto, Ok, Fault
  <2>2. Cardinality(Missing(NoObject, cms)) = 0 /\ Cardinality(Missing(Decoded, cms)) = 0
    BY DecodedFacts, FS_EmptySet
  <2>3. Missing(obj, cms)' = Missing(obj', cms) /\ Missing(stored, cms)' = Missing(stored', cms)
    BY <2>1 DEF Missing
  <2>4. QED
    BY <1>a, <2>1, <2>2, <2>3 DEF ScriptInv
<1>11. CASE UNCHANGED vars
  <2>1. Missing(obj, cms)' = Missing(obj, cms) /\ Missing(stored, cms)' = Missing(stored, cms)
    BY <1>11 DEF Missing, vars
  <2>2. QED
    BY <1>11, <2>1 DEF ScriptInv, vars
<1>12. QED
  BY <1>2, <1>3, <1>4, <1>5, <1>6, <1>7, <1>8, <1>9, <1>10, <1>11 DEF Next
-----------------------------------------------------------------------------
(***************************************************************************)
(* The containers that report the output.                                  *)
(***************************************************************************)
LEMMA OutputPrimed ==
    ASSUME in' = in, OutputAt(pc', obj', left'),
           stored' # NoObject /\ ~stored'.dropped => Reported(stored', NumOutputs)
    PROVE  OutputInv'
<1>1. NumOutputs' = NumOutputs /\ HasPodSpec' = HasPodSpec /\ Decoded' = Decoded
  BY DEF NumOutputs, HasPodSpec, Decoded
<1>2. OutputAt(pc, obj, left)'
  BY <1>1 DEF OutputAt, Reported, SharesOutput, Named, VolInSpec
<1>3. (stored # NoObject /\ ~stored.dropped => Reported(stored, NumOutputs))'
  BY <1>1 DEF Reported, SharesOutput, Named, NoObject
<1>4. QED
  BY <1>2, <1>3 DEF OutputInv

LEMMA OutputStep == ASSUME TypeInv, OutputInv, [Next]_vars PROVE OutputInv'
<1>a. /\ obj \in Objects /\ stored \in Objects /\ left \in Nat /\ NumOutputs \in Nat
      /\ made \in Nat /\ made + 1 \in Nat
  BY NumOutputsType DEF TypeInv
<1>b. /\ OutputAt(pc, obj, left)
      /\ stored # NoObject /\ ~stored.dropped => Reported(stored, NumOutputs)
  BY DEF OutputInv
<1>c. \A n : Cardinality(Named(obj, n)) \in Nat
  BY <1>a, NamedType
<1>1. CASE Decode
  <2>1. /\ UNCHANGED <<in, obj, stored>> /\ obj = Decoded
        /\ \/ pc' = "skipped"
           \/ pc' = "outputs" /\ left' = NumOutputs
    BY <1>1, <1>b DEF Decode, Goto, OutputAt
  <2>2. Reported(obj, 0)
    BY <2>1, DecodedFacts, FS_EmptySet DEF Reported
  <2>3. NumOutputs - NumOutputs = 0 /\ NumOutputs <= NumOutputs
    BY <1>a
  <2>4. OutputAt(pc', obj', left')
    BY <2>1, <2>2, <2>3, DecodedFacts DEF OutputAt, Loop, Later
  <2>5. QED
    BY <1>b, <2>1, <2>4, OutputPrimed
<1>2. CASE DecodeFails \/ Fails \/ SyncWithoutPodSpec
  <2>1. UNCHANGED <<in, obj, left, stored>> /\ pc' = "error"
    BY <1>2 DEF DecodeFails, Fails, SyncWithoutPodSpec, Goto
  <2>2. OutputAt(pc', obj', left')
    BY <2>1 DEF OutputAt, Loop, Later
  <2>3. QED
    BY <1>b, <2>1, <2>2, OutputPrimed
<1>3. CASE NextOutput
  <2>1. /\ UNCHANGED <<in, obj, left, stored>> /\ pc = "outputs"
        /\ \/ pc' = "setup"
           \/ pc' = "env" /\ left = 0
    BY <1>3, <1>a DEF NextOutput, Goto
  <2>2. Reported(obj, NumOutputs - left) /\ (left = 0 => NumOutputs - left = NumOutputs)
    BY <1>a, <1>b, <2>1 DEF OutputAt, Loop
  <2>3. OutputAt(pc', obj', left')
    BY <1>b, <2>1, <2>2 DEF OutputAt, Loop, Later
  <2>4. QED
    BY <1>b, <2>1, <2>3, OutputPrimed
<1>4. CASE SetupForOutput
  <2>1. UNCHANGED <<in, left, stored>> /\ pc = "setup"
    BY <1>4 DEF SetupForOutput
  <2>2. CASE HasPodSpec
    <3>1. obj' = WithToken(WithOutputVol(obj)) /\ pc' \in {"helper", "parser"}
      BY <1>4, <2>2 DEF SetupForOutput, Goto
    <3>2. /\ \A n : Named(obj', n) = Named(obj, n)
          /\ Named(obj, "main") # {} /\ (VolInSpec(obj, "output-vol") => SharesOutput(obj))
                => SharesOutput(obj')
      BY <1>a, <3>1, SetUp
    <3>3. SharesOutput(obj')
      BY <1>b, <2>1, <2>2, <3>2 DEF OutputAt, Loop
    <3>4. OutputAt(pc', obj', left')
      BY <1>b, <2>1, <2>2, <3>1, <3>2, <3>3 DEF OutputAt, Loop, Later, Reported
    <3>5. QED
      BY <1>b, <2>1, <3>4, OutputPrimed
  <2>3. CASE ~HasPodSpec
    <3>1. pc' = "env" /\ obj'.dropped
      BY <1>4, <1>a, <2>3 DEF SetupForOutput, Goto, Objects
    <3>2. OutputAt(pc', obj', left')
      BY <3>1 DEF OutputAt, Loop, Later
    <3>3. QED
      BY <1>b, <2>1, <3>2, OutputPrimed
  <2>4. QED
    BY <2>2, <2>3
<1>5. CASE AddCountdoneScript
  <2>1. /\ UNCHANGED <<in, left, stored>> /\ pc = "helper" /\ pc' = "parser"
        /\ obj' = WithVol(obj, "helper", made + 1)
    BY <1>5 DEF AddCountdoneScript, NewConfigMap, Goto
  <2>2. obj'.main = obj.main
    BY <1>a, <2>1, VolAdded, NamesOfHelpers
  <2>3. (\A n : Named(obj', n) = Named(obj, n)) /\ (SharesOutput(obj) => SharesOutput(obj'))
    BY <2>2 DEF Named, SharesOutput
  <2>4. OutputAt(pc', obj', left')
    BY <1>b, <2>1, <2>3 DEF OutputAt, Loop, Later, Reported
  <2>5. QED
    BY <1>b, <2>1, <2>4, OutputPrimed
<1>6. CASE CountdoneScriptFails
  <2>1. UNCHANGED <<in, left, stored>> /\ pc' = "env" /\ obj'.dropped
    BY <1>6, <1>a DEF CountdoneScriptFails, Goto, Objects
  <2>2. OutputAt(pc', obj', left')
    BY <2>1 DEF OutputAt, Loop, Later
  <2>3. QED
    BY <1>b, <2>1, <2>2, OutputPrimed
<1>7. CASE CloneParser
  <2>1. CASE ~Fails
    <3>1. UNCHANGED <<in, obj, left, stored>> /\ pc = "parser" /\ pc' = "image"
      BY <1>7, <2>1 DEF CloneParser, NewConfigMap, Goto
    <3>2. OutputAt(pc', obj', left')
      BY <1>b, <3>1 DEF OutputAt, Loop, Later
    <3>3. QED
      BY <1>b, <3>1, <3>2, OutputPrimed
  <2>2. QED
    BY <1>2, <2>1
<1>8. CASE AddParserContainer
  <2>1. CASE ~Fails
    <3>1. /\ pc = "image" /\ pc' = "output" /\ UNCHANGED <<in, left, stored>>
          /\ \/ obj' = WithVol(WithContainer(obj, "parser-container",
                                             HelperMounts \cup {"parser"}), "parser", made)
             \/ /\ obj' = WithContainer(obj, "parser-container", HelperMounts \cup {"parser"})
                /\ VolInSpec(obj, "parser")
      BY <1>8, <2>1, ParserEffect
    <3>2. /\ Cardinality(Named(obj', "parser-container"))
                = Cardinality(Named(obj, "parser-container")) + 1
          /\ \A n : n # "parser-container" => Named(obj', n) = Named(obj, n)
          /\ SharesOutput(obj) => SharesOutput(obj')
      BY <1>a, <3>1, HelperAdded, NamesOfHelpers
    <3>3. /\ Cardinality(Named(obj, "parser-container")) = NumOutputs - left
          /\ Cardinality(Named(obj, "output-container")) = NumOutputs - left
          /\ SharesOutput(obj) /\ HasPodSpec /\ Named(obj, "main") # {} /\ left <= NumOutputs
      BY <1>b, <3>1 DEF OutputAt, Loop, Reported
    <3>4. OutputAt(pc', obj', left')
      BY <3>1, <3>2, <3>3 DEF OutputAt, Loop, Later
    <3>5. QED
      BY <1>b, <3>1, <3>4, OutputPrimed
  <2>2. QED
    BY <1>2, <2>1
<1>9. CASE AddOutputContainer
  <2>1. CASE ~Fails
    <3>1. /\ pc = "output" /\ pc' = "outputs" /\ UNCHANGED <<in, stored>> /\ left' = left - 1
          /\ obj' = WithVol(WithContainer(obj, "output-container",
                                          HelperMounts \cup {"output"}), "output", made + 1)
      BY <1>9, <2>1, OutputEffect DEF NewConfigMap
    <3>2. /\ Cardinality(Named(obj', "output-container"))
                = Cardinality(Named(obj, "output-container")) + 1
          /\ \A n : n # "output-container" => Named(obj', n) = Named(obj, n)
          /\ SharesOutput(obj) => SharesOutput(obj')
      <4> DEFINE k == made + 1
      <4>1. /\ k \in Nat /\ obj \in Objects
            /\ \/ obj' = WithVol(WithContainer(obj, "output-container",
                                               HelperMounts \cup {"output"}), "output", k)
               \/ /\ obj' = WithContainer(obj, "output-container", HelperMounts \cup {"output"})
                  /\ VolInSpec(obj, "output")
        BY <1>a, <3>1
      <4> HIDE DEF k
      <4>2. QED
        BY <4>1, HelperAdded, NamesOfHelpers
    <3>3. /\ Cardinality(Named(obj, "parser-container")) = NumOutputs - left + 1
          /\ Cardinality(Named(obj, "output-container")) = NumOutputs - left
          /\ SharesOutput(obj) /\ Named(obj, "main") # {} /\ left <= NumOutputs
      BY <1>b, <3>1 DEF OutputAt, Loop
    <3>4. NumOutputs - left + 1 = NumOutputs - left' /\ left' <= NumOutputs
      BY <1>a, <3>1, <3>3
    <3>5. Reported(obj', NumOutputs - left')
      BY <3>2, <3>3, <3>4 DEF Reported
    <3>6. OutputAt(pc', obj', left')
      BY <3>1, <3>2, <3>3, <3>4, <3>5 DEF OutputAt, Loop, Later
    <3>7. QED
      BY <1>b, <3>1, <3>6, OutputPrimed
  <2>2. QED
    BY <1>2, <2>1
<1>10. CASE SetEnvVars
  <2>1. UNCHANGED <<in, obj, left, stored>> /\ pc = "env" /\ pc' \in {"panic", "sync", "create"}
    BY <1>10 DEF SetEnvVars, Goto
  <2>2. OutputAt(pc', obj', left')
    BY <1>b, <2>1 DEF OutputAt, Loop, Later
  <2>3. QED
    BY <1>b, <2>1, <2>2, OutputPrimed
<1>11. CASE AddSyncContainer
  <2>1. CASE ~Fails
    <3>1. UNCHANGED <<in, left, stored>> /\ pc = "sync" /\ pc' = "create"
      BY <1>11, <2>1, SyncEffect DEF NewConfigMap
    <3>2. obj'.main = obj.main /\ obj'.dropped = obj.dropped
      <4>1. /\ obj \in Objects /\ made + 1 \in Nat
            /\ LET sync == Container("sync-container", {"ready-script", "pod-watcher-token"})
               IN  obj' = WithToken(WithVol([obj EXCEPT !.init = Append(@, sync)],
                                            "ready-script", made + 1))
        BY <1>11, <2>1, SyncEffect
      <4>2. QED
        BY <4>1, SyncAdded, SMTT(30)
    <3>3. (\A n : Named(obj', n) = Named(obj, n)) /\ (SharesOutput(obj) => SharesOutput(obj'))
      BY <3>2 DEF Named, SharesOutput
    <3>4. OutputAt(pc', obj', left')
      BY <1>b, <3>1, <3>2, <3>3 DEF OutputAt, Loop, Later, Reported
    <3>5. QED
      BY <1>b, <3>1, <3>4, OutputPrimed
  <2>2. QED
    BY <1>2, <2>1
<1>12. CASE CreateObj
  <2>1. /\ UNCHANGED <<in, obj, left>> /\ pc = "create" /\ pc' \in {"created", "error"}
        /\ stored' \in {stored, obj}
    BY <1>12 DEF CreateObj, Goto
  <2>2. OutputAt(pc', obj', left')
    BY <2>1 DEF OutputAt, Loop, Later
  <2>3. ~obj.dropped => Reported(obj, NumOutputs)
    BY <1>b, <2>1 DEF OutputAt, Later
  <2>4. QED
    BY <1>b, <2>1, <2>2, <2>3, OutputPrimed
<1>13. CASE Retry
  <2>1. in' = in /\ obj' = Decoded /\ pc' = "decode" /\ stored' \in {stored, NoObject}
    BY <1>13 DEF Retry, Goto
  <2>2. OutputAt(pc', obj', left')
    BY <2>1 DEF OutputAt, Loop, Later
  <2>3. QED
    BY <1>b, <2>1, <2>2, OutputPrimed
<1>14. CASE UNCHANGED vars
  BY <1>14, <1>b, OutputPrimed DEF vars
<1>15. QED
  BY <1>1, <1>2, <1>3, <1>4, <1>5, <1>6, <1>7, <1>8, <1>9, <1>10, <1>11, <1>12, <1>13, <1>14
     DEF Next
-----------------------------------------------------------------------------
(***************************************************************************)
(* The pod's validity.                                                     *)
(***************************************************************************)
LEMMA ValidPrimed ==
    ASSUME ValidAt(pc', obj', left')
    PROVE  ValidAt(pc, obj, left)'
  BY DEF ValidAt, Sound, ToSync, NamesIn, Mounted, Distinct, VolInSpec, Named

LEMMA SameFields ==
    ASSUME NEW o, NEW w, w.main = o.main, w.init = o.init, w.vols = o.vols
    PROVE  /\ Sound(o) => Sound(w)
           /\ ToSync(o) => ToSync(w)
<1>1. \A n : VolInSpec(w, n) <=> VolInSpec(o, n)
  BY DEF VolInSpec
<1>2. QED
  BY <1>1 DEF Sound, ToSync, NamesIn, Mounted

LEMMA HelperSound ==
    ASSUME NEW o \in Objects, NEW name \in ContainerNames, NEW vol \in VolumeNames,
           NEW k \in Nat, NEW w,
           \/ w = WithVol(WithContainer(o, name, HelperMounts \cup {vol}), vol, k)
              /\ ~VolInSpec(o, vol)
           \/ /\ w = WithContainer(o, name, HelperMounts \cup {vol})
              /\ VolInSpec(o, vol),
           name \in {"parser-container", "output-container"}, vol # "ready-script",
           Sound(o), ToSync(o), Named(o, name) = {}, \A m \in HelperMounts : VolInSpec(o, m)
    PROVE  /\ Sound(w) /\ ToSync(w)
           /\ \A n : VolInSpec(w, n) <=> VolInSpec(o, n) \/ n = vol
           /\ \A n : n # name => Named(w, n) = Named(o, n)
<1>1. \/ w = WithVol(WithContainer(o, name, HelperMounts \cup {vol}), vol, k)
      \/ /\ w = WithContainer(o, name, HelperMounts \cup {vol})
         /\ VolInSpec(o, vol)
  OBVIOUS
<1>2. w.init = o.init /\ (\A n : VolInSpec(w, n) <=> VolInSpec(o, n) \/ n = vol)
  BY <1>1, HelperAdded
<1>3. ASSUME NEW n, n # name PROVE Named(w, n) = Named(o, n)
  BY <1>1, <1>3, HelperAdded
<1>4. ASSUME NEW names, NamesIn(o, names), name \in names PROVE NamesIn(w, names)
  BY <1>1, <1>4, HelperAdded
<1>5. Distinct(w.main)
  BY <1>1, HelperAdded DEF Sound
<1>6. w.vols = o.vols \/ ~VolInSpec(o, vol)
  BY DEF WithContainer, Objects
<1>7. Distinct(w.vols)
  BY <1>1, <1>6, HelperAdded DEF Sound
<1>8. Mounted(w, w.main)
  BY <1>1, HelperAdded DEF Sound
<1>9. Mounted(w, w.init)
  BY <1>2 DEF Sound, Mounted
<1>10. QED
  BY <1>2, <1>3, <1>4, <1>5, <1>7, <1>8, <1>9 DEF Sound, ToSync

LEMMA SyncSound ==
    ASSUME NEW o \in Objects, NEW k \in Nat, NEW w,
           LET sync == Container("sync-container", {"ready-script", "pod-watcher-token"})
           IN  w = WithToken(WithVol([o EXCEPT !.init = Append(@, sync)], "ready-script", k)),
           Sound(o), ToSync(o)
    PROVE  Sound(w)
<1>1. w.main = o.main
  BY SyncAdded
<1>2. ASSUME NEW n
      PROVE  VolInSpec(w, n) <=> VolInSpec(o, n) \/ n \in {"ready-script", "pod-watcher-token"}
  BY SyncAdded, SMTT(30)
<1>3. Distinct(w.vols)
  BY SyncAdded DEF Sound, ToSync
<1>4. Distinct(w.init)
  BY SyncAdded, SMTT(30) DEF Sound, ToSync
<1>5. Mounted(w, w.init)
  <2>1. Mounted(o, o.init)
    BY DEF Sound
  <2>2. QED
    BY <2>1, SyncAdded
<1>6. \A i \in DOMAIN w.init : w.init[i].name \in {"warmup", "sync-container"}
  BY SyncAdded DEF Sound
<1>7. QED
  BY <1>1, <1>2, <1>3, <1>4, <1>5, <1>6 DEF Sound, NamesIn, Mounted

LEMMA ValidStep ==
    ASSUME TypeInv, OutputInv, NumOutputs <= 1, ValidAt(pc, obj, left), [Next]_vars
    PROVE  ValidAt(pc', obj', left')
<1>a. /\ obj \in Objects /\ left \in Nat /\ NumOutputs \in Nat
      /\ made \in Nat /\ made + 1 \in Nat
  BY NumOutputsType DEF TypeInv
<1>d. ASSUME NEW l PROVE ValidAt("decode", Decoded, l) /\ ValidAt("outputs", Decoded, l)
  <2>1. Sound(Decoded) /\ ToSync(Decoded)
    BY DecodedFacts DEF Sound, ToSync, NamesIn
  <2>2. QED
    BY <2>1, DecodedFacts DEF ValidAt, Loop, Later
<1>1. CASE Decode
  <2>1. obj = Decoded /\ obj' = obj /\ pc' \in {"skipped", "outputs"}
    BY <1>1 DEF Decode, Goto, OutputInv, OutputAt
  <2>2. QED
    BY <1>d, <2>1 DEF ValidAt, Loop, Later
<1>2. CASE DecodeFails \/ Fails \/ SyncWithoutPodSpec \/ CreateObj
  <2>1. pc' \in {"error", "created"}
    BY <1>2 DEF DecodeFails, Fails, SyncWithoutPodSpec, CreateObj, Goto
  <2>2. QED
    BY <2>1 DEF ValidAt, Loop, Later
<1>3. CASE NextOutput
  <2>1. UNCHANGED <<obj, left>> /\ pc = "outputs" /\ pc' \in {"setup", "env"}
    BY <1>3 DEF NextOutput, Goto
  <2>2. QED
    BY <2>1 DEF ValidAt, Loop, Later
<1>4. CASE SetupForOutput
  <2>1. left' = left /\ pc = "setup" /\ Sound(obj) /\ ToSync(obj)
    BY <1>4 DEF SetupForOutput, ValidAt, Loop
  <2>2. CASE HasPodSpec
    <3>1. /\ obj' = WithToken(WithOutputVol(obj))
          /\ pc' = IF VolInSpec(obj, "helper") THEN "parser" ELSE "helper"
      BY <1>4, <2>2 DEF SetupForOutput, Goto
    <3>2. /\ obj'.init = obj.init
          /\ \A n : VolInSpec(obj', n) <=>
                       VolInSpec(obj, n) \/ n \in {"output-vol", "pod-watcher-token"}
          /\ \A n : Named(obj', n) = Named(obj, n)
          /\ DOMAIN obj'.main = DOMAIN obj.main
          /\ \A i \in DOMAIN obj.main : obj'.main[i].name = obj.main[i].name
          /\ Mounted(obj, obj.main) => Mounted(obj', obj'.main)
          /\ Distinct(obj.vols) => Distinct(obj'.vols)
      BY <1>a, <3>1, SetUp
    <3>3. Sound(obj')
      BY <2>1, <3>2 DEF Sound, NamesIn, Mounted, Distinct
    <3>4. ToSync(obj')
      BY <2>1, <3>2 DEF ToSync
    <3>5. QED
      BY <2>1, <3>1, <3>2, <3>3, <3>4 DEF ValidAt, Loop, Later
  <2>3. CASE ~HasPodSpec
    <3>1. /\ pc' = "env"
          /\ obj'.main = obj.main /\ obj'.init = obj.init /\ obj'.vols = obj.vols
      BY <1>4, <1>a, <2>3 DEF SetupForOutput, Goto, Objects
    <3>2. QED
      BY <2>1, <3>1, SameFields DEF ValidAt, Loop, Later
  <2>4. QED
    BY <2>2, <2>3
<1>5. CASE AddCountdoneScript
  <2>1. /\ left' = left /\ pc = "helper" /\ pc' = "parser"
        /\ obj' = WithVol(obj, "helper", made + 1)
    BY <1>5 DEF AddCountdoneScript, Goto
  <2>2. Sound(obj) /\ ToSync(obj) /\ ~VolInSpec(obj, "helper")
    BY <2>1 DEF ValidAt, Loop
  <2>3. obj'.main = obj.main /\ obj'.init = obj.init
    BY <1>a, <2>1, VolAdded, NamesOfHelpers
  <2>4. \A n : VolInSpec(obj', n) <=> VolInSpec(obj, n) \/ n = "helper"
    BY <1>a, <2>1, VolNames, NamesOfHelpers
  <2>5. Distinct(obj'.vols)
    BY <1>a, <2>1, <2>2, VolDistinct, NamesOfHelpers DEF Sound
  <2>6. \A n : Named(obj', n) = Named(obj, n)
    BY <2>3 DEF Named
  <2>7. Sound(obj') /\ ToSync(obj')
    BY <2>2, <2>3, <2>4, <2>5 DEF Sound, ToSync, NamesIn, Mounted
  <2>8. QED
    BY <2>1, <2>4, <2>6, <2>7 DEF ValidAt, Loop, Later
<1>6. CASE CountdoneScriptFails
  <2>1. /\ pc = "helper" /\ pc' = "env"
        /\ obj'.main = obj.main /\ obj'.init = obj.init /\ obj'.vols = obj.vols
    BY <1>6, <1>a DEF CountdoneScriptFails, Goto, Objects
  <2>2. QED
    BY <2>1, SameFields DEF ValidAt, Loop, Later
<1>7. CASE CloneParser
  <2>1. CASE ~Fails
    <3>1. UNCHANGED <<obj, left>> /\ pc = "parser" /\ pc' = "image"
      BY <1>7, <2>1 DEF CloneParser, Goto
    <3>2. QED
      BY <3>1 DEF ValidAt, Loop, Later
  <2>2. QED
    BY <1>2, <2>1
<1>8. CASE AddParserContainer
  <2>1. CASE ~Fails
    <3>1. /\ pc = "image" /\ pc' = "output" /\ left' = left
          /\ \/ obj' = WithVol(WithContainer(obj, "parser-container",
                                             HelperMounts \cup {"parser"}), "parser", made)
                /\ ~VolInSpec(obj, "parser")
             \/ /\ obj' = WithContainer(obj, "parser-container", HelperMounts \cup {"parser"})
                /\ VolInSpec(obj, "parser")
      BY <1>8, <2>1, ParserEffect
    <3>2. /\ Sound(obj) /\ ToSync(obj) /\ \A m \in HelperMounts : VolInSpec(obj, m)
          /\ left > 0
          /\ ~VolInSpec(obj, "output")
          /\ Named(obj, "output-container") = {} /\ Named(obj, "parser-container") = {}
      BY <1>a, <3>1 DEF ValidAt, Loop, HelperMounts, TypeInv
    <3>3. /\ Sound(obj') /\ ToSync(obj')
          /\ \A n : VolInSpec(obj', n) <=> VolInSpec(obj, n) \/ n = "parser"
          /\ \A n : n # "parser-container" => Named(obj', n) = Named(obj, n)
      BY <1>a, <3>1, <3>2, HelperSound, NamesOfHelpers
    <3>4. QED
      BY <3>1, <3>2, <3>3 DEF ValidAt, Loop, Later, HelperMounts
  <2>2. QED
    BY <1>2, <2>1
<1>9. CASE AddOutputContainer
  <2>1. CASE ~Fails
    <3> DEFINE k == made + 1
    <3>1. /\ pc = "output" /\ pc' = "outputs" /\ left' = left - 1
          /\ k \in Nat /\ obj \in Objects
          /\ obj' = WithVol(WithContainer(obj, "output-container",
                                          HelperMounts \cup {"output"}), "output", k)
      BY <1>9, <2>1, OutputEffect
    <3> HIDE DEF k
    <3>2. /\ Sound(obj) /\ ToSync(obj) /\ \A m \in HelperMounts : VolInSpec(obj, m)
          /\ left = 1
          /\ ~VolInSpec(obj, "output") /\ Named(obj, "output-container") = {}
      BY <1>a, <3>1 DEF ValidAt, Loop, HelperMounts, TypeInv, OutputInv, OutputAt
    <3>5. Sound(obj') /\ ToSync(obj')
      <4>1. \/ obj' = WithVol(WithContainer(obj, "output-container",
                                            HelperMounts \cup {"output"}), "output", k)
               /\ ~VolInSpec(obj, "output")
            \/ /\ obj' = WithContainer(obj, "output-container", HelperMounts \cup {"output"})
               /\ VolInSpec(obj, "output")
        BY <3>1, <3>2
      <4>2. QED
        BY <3>1, <3>2, <4>1, HelperSound, NamesOfHelpers
    <3>6. ~(left' > 0)
      BY <3>1, <3>2
    <3>7. QED
      BY <3>1, <3>5, <3>6 DEF ValidAt, Loop, Later
  <2>2. QED
    BY <1>2, <2>1
<1>10. CASE SetEnvVars
  <2>1. UNCHANGED <<obj, left>> /\ pc = "env" /\ pc' \in {"panic", "sync", "create"}
    BY <1>10 DEF SetEnvVars, Goto
  <2>2. QED
    BY <2>1 DEF ValidAt, Loop, Later
<1>11. CASE AddSyncContainer
  <2>1. CASE ~Fails
    <3>1. pc = "sync" /\ pc' = "create"
      BY <1>11, <2>1, SyncEffect
    <3>2. Sound(obj) /\ ToSync(obj)
      BY <3>1 DEF ValidAt, Later
    <3>4. Sound(obj')
      <4>1. /\ obj \in Objects /\ made + 1 \in Nat
            /\ LET sync == Container("sync-container", {"ready-script", "pod-watcher-token"})
               IN  obj' = WithToken(WithVol([obj EXCEPT !.init = Append(@, sync)],
                                            "ready-script", made + 1))
        BY <1>11, <2>1, SyncEffect
      <4>2. QED
        BY <3>2, <4>1, SyncSound
    <3>5. QED
      BY <3>1, <3>4 DEF ValidAt, Loop, Later
  <2>2. QED
    BY <1>2, <2>1
<1>12. CASE Retry
  BY <1>12, <1>d DEF Retry, Goto
<1>13. CASE UNCHANGED vars
  BY <1>13 DEF vars
<1>14. QED
  BY <1>1, <1>2, <1>3, <1>4, <1>5, <1>6, <1>7, <1>8, <1>9, <1>10, <1>11, <1>12, <1>13 DEF Next
-----------------------------------------------------------------------------
(***************************************************************************)
(* Valid, put together from its parts: the init containers never have the  *)
(* name of a container.                                                    *)
(***************************************************************************)
LEMMA SoundIsValid == ASSUME NEW o \in Objects, Sound(o) PROVE Valid(o)
<1> DEFINE a == o.main
           b == o.init
           c == a \o b
<1>1. a \in Seq(Containers) /\ b \in Seq(Containers) /\ Len(a) \in Nat /\ Len(b) \in Nat
      /\ DOMAIN a = 1..Len(a) /\ DOMAIN b = 1..Len(b)
  BY LenProperties DEF Objects
<1>2. /\ Len(c) = Len(a) + Len(b) /\ DOMAIN c = 1..(Len(a) + Len(b))
      /\ \A i \in 1..Len(c) : c[i] = IF i <= Len(a) THEN a[i] ELSE b[i - Len(a)]
  <2>1. /\ c \in Seq(Containers) /\ Len(c) = Len(a) + Len(b)
        /\ \A i \in 1..Len(a) + Len(b) : c[i] = IF i <= Len(a) THEN a[i] ELSE b[i - Len(a)]
    BY <1>1, ConcatProperties
  <2> HIDE DEF a, b, c
  <2>2. QED
    BY <2>1, LenProperties
<1>3. /\ Distinct(a) /\ Distinct(b) /\ Distinct(o.vols) /\ Mounted(o, a) /\ Mounted(o, b)
      /\ \A i \in DOMAIN a : a[i].name \in {"main", "sidecar", "parser-container", "output-container"}
      /\ \A i \in DOMAIN b : b[i].name \in {"warmup", "sync-container"}
  BY DEF Sound, NamesIn
<1> HIDE DEF a, b, c
<1>4. ASSUME NEW i \in DOMAIN c
      PROVE  \/ i \in DOMAIN a /\ c[i] = a[i]
             \/ i \notin DOMAIN a /\ i - Len(a) \in DOMAIN b /\ c[i] = b[i - Len(a)]
  BY <1>1, <1>2
<1>5. Distinct(c)
  <2>1. SUFFICES ASSUME NEW i \in DOMAIN c, NEW j \in DOMAIN c, c[i].name = c[j].name
                 PROVE  i = j
    BY DEF Distinct
  <2>2. i \in Nat /\ j \in Nat
    BY <1>1, <1>2
  <2>3. CASE i \in DOMAIN a
    <3>1. j \in DOMAIN a
      BY <1>3, <1>4, <2>1, <2>3
    <3>2. QED
      BY <1>3, <1>4, <2>1, <2>3, <3>1 DEF Distinct
  <2>4. CASE i \notin DOMAIN a
    <3>1. j \notin DOMAIN a
      BY <1>3, <1>4, <2>1, <2>4
    <3>2. i - Len(a) = j - Len(a)
      BY <1>3, <1>4, <2>1, <2>4, <3>1 DEF Distinct
    <3>3. QED
      BY <1>1, <2>2, <3>2
  <2>5. QED
    BY <2>3, <2>4
<1>6. \A i \in DOMAIN c : \A m \in c[i].mounts : VolInSpec(o, m)
  BY <1>3, <1>4 DEF Mounted
<1>7. QED
  BY <1>3, <1>5, <1>6 DEF Valid, a, b, c
-----------------------------------------------------------------------------
(***************************************************************************)
(* An object does not exist without the containers that report its output, *)
(* unless the error of setupForOutput was dropped, and misses at most one  *)
(* script for each call that failed: for any kinds, roles and lists of     *)
(* output files, and however often prepareAndRun is repeated               *)
(* (controllers/workload.go).                                              *)
(***************************************************************************)
THEOREM OutputsAreComplete == Spec => []OutputsComplete
<1>1. Init => TypeInv /\ ScriptInv /\ OutputInv
  <2>1. SUFFICES ASSUME Init PROVE TypeInv /\ ScriptInv /\ OutputInv
    OBVIOUS
  <2>2. obj = Decoded /\ stored = NoObject /\ faults = 0 /\ pc = "decode"
    BY <2>1 DEF Init
  <2>3. TypeInv
    BY <2>1, DecodedFacts, FaultsBounded DEF Init, TypeInv, Places
  <2>4. ScriptInv
    <3>1. Cardinality(Missing(stored, cms)) = 0 /\ Cardinality(Missing(obj, cms)) = 0
      BY <2>2, DecodedFacts, FS_EmptySet
    <3>2. QED
      BY <2>2, <3>1 DEF ScriptInv
  <2>5. OutputInv
    BY <2>2 DEF OutputInv, OutputAt, Loop, Later
  <2>6. QED
    BY <2>3, <2>4, <2>5
<1>2. (TypeInv /\ ScriptInv /\ OutputInv) /\ [Next]_vars => (TypeInv /\ ScriptInv /\ OutputInv)'
  BY TypeStep, ScriptStep, OutputStep
<1>3. TypeInv /\ ScriptInv /\ OutputInv => OutputsComplete
  BY DEF ScriptInv, OutputInv, OutputsComplete, Missing, Reported, SharesOutput
<1>4. QED
  BY <1>1, <1>2, <1>3, PTL DEF Spec

(***************************************************************************)
(* The pod that prepareAndRun sends to the API server is valid, whichever  *)
(* helper containers are added and whatever failed before, if the object   *)
(* has at most one output file (controllers/workload.go, pkg/podutils).    *)
(***************************************************************************)
THEOREM PodsAreAccepted == Spec => []AcceptedByServer
<1>1. Init => TypeInv /\ OutputInv /\ ValidInv
  <2>1. SUFFICES ASSUME Init PROVE TypeInv /\ OutputInv /\ ValidInv
    OBVIOUS
  <2>2. obj = Decoded /\ stored = NoObject /\ pc = "decode"
    BY <2>1 DEF Init
  <2>3. TypeInv
    BY <2>1, DecodedFacts, FaultsBounded DEF Init, TypeInv, Places
  <2>4. OutputInv
    BY <2>2 DEF OutputInv, OutputAt, Loop, Later
  <2>5. Sound(Decoded) /\ ToSync(Decoded)
    BY DecodedFacts DEF Sound, ToSync, NamesIn
  <2>6. ValidInv
    BY <2>2, <2>5 DEF ValidInv, ValidAt, Loop, Later
  <2>7. QED
    BY <2>3, <2>4, <2>6
<1>2. (TypeInv /\ OutputInv /\ ValidInv) /\ [Next]_vars => (TypeInv /\ OutputInv /\ ValidInv)'
  <2>1. SUFFICES ASSUME TypeInv, OutputInv, ValidInv, [Next]_vars
                 PROVE  (TypeInv /\ OutputInv /\ ValidInv)'
    OBVIOUS
  <2>2. TypeInv' /\ OutputInv'
    BY <2>1, TypeStep, OutputStep
  <2>3. NumOutputs' = NumOutputs
    <3>1. in' = in
      BY <2>1 DEF Next, vars, Decode, DecodeFails, NextOutput, SetupForOutput,
         AddCountdoneScript, CountdoneScriptFails, CloneParser, AddParserContainer,
         AddOutputContainer, SetEnvVars, AddSyncContainer, SyncWithoutPodSpec, CreateObj,
         Retry, Fails, NewConfigMap
    <3>2. QED
      BY <3>1 DEF NumOutputs
  <2>4. NumOutputs <= 1 => ValidAt(pc, obj, left)'
    BY <2>1, ValidStep, ValidPrimed DEF ValidInv
  <2>5. QED
    BY <2>2, <2>3, <2>4 DEF ValidInv
<1>3. TypeInv /\ OutputInv /\ ValidInv => AcceptedByServer
  BY SoundIsValid DEF TypeInv, ValidInv, ValidAt, AcceptedByServer, Later
<1>4. QED
  BY <1>1, <1>2, <1>3, PTL DEF Spec
=============================================================================
