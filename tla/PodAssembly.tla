---------------------------- MODULE PodAssembly ----------------------------
(***************************************************************************)
(* prepareAndRun of one object of a workload (controllers/workload.go,     *)
(* pkg/podutils): the parser, output and sync containers that are added to *)
(* its pod, the temporary ConfigMaps that carry their scripts, and the     *)
(* object's creation.  One step is the code up to the next call that can   *)
(* fail: a read of the API server, a read of a script from the disk, a     *)
(* create.  RunWorkload is called again after an error, while what the     *)
(* first call created is still there.                                      *)
(***************************************************************************)
EXTENDS Naturals, Sequences, FiniteSets

CONSTANTS
    Kinds,          \* the kinds of objects considered
    Roles,          \* the values of their annotation "role"
    OutputFiles,    \* the targets of Workload.OutputFiles: sequences of Roles or ""
    MaxFaults       \* bound on the calls that fail and on the repetitions, together

ASSUME AssemblyAssumption ==
    /\ Roles # {} /\ Kinds # {}
    /\ OutputFiles \subseteq Seq(Roles \cup {""})
    /\ MaxFaults \in Nat

VARIABLES
    in,         \* the object as the library defines it, and its workload
    pc,         \* where prepareAndRun is
    obj,        \* the object being assembled
    left,       \* output files left to set up
    cms,        \* the temporary ConfigMaps at the API server
    made,       \* names generated for temporary ConfigMaps so far
    stored,     \* the object at the API server
    faults      \* calls that failed and repetitions so far

vars == <<in, pc, obj, left, cms, made, stored, faults>>

\* PodSpec knows the pod of three kinds.
HasPodSpec == in.kind \in {"Pod", "Job", "StatefulSet"}

Container(name, mounts) == [name |-> name, mounts |-> mounts]

\* A volume; cm is the number of its temporary ConfigMap, 0 if it is not one.
Volume(name, cm) == [name |-> name, cm |-> cm]

\* The library's object: two containers, perhaps an init container, perhaps a
\* volume for the output that it mounts itself.  dropped is history: an error
\* of setupForOutput was dropped while the object was assembled.
Decoded ==
    [nil     |-> FALSE,
     dropped |-> FALSE,
     main    |-> IF HasPodSpec
                 THEN <<Container("main", IF in.ownVol THEN {"output-vol"} ELSE {}),
                        Container("sidecar", {})>>
                 ELSE <<>>,
     init    |-> IF HasPodSpec /\ in.warmup THEN <<Container("warmup", {})>> ELSE <<>>,
     vols    |-> IF HasPodSpec /\ in.ownVol THEN <<Volume("output-vol", 0)>> ELSE <<>>]

\* Nothing at the API server: no object has these fields.
NoObject == [nil |-> TRUE, dropped |-> FALSE, main |-> <<>>, init |-> <<>>, vols |-> <<>>]

VolInSpec(o, name) == \E i \in DOMAIN o.vols : o.vols[i].name = name

WithVol(o, name, cm) == [o EXCEPT !.vols = Append(@, Volume(name, cm))]

WithContainer(o, name, mounts) == [o EXCEPT !.main = Append(@, Container(name, mounts))]

\* addContainers: the output files that are for this object.
NumOutputs ==
    IF in.files # <<>>
    THEN Cardinality({i \in DOMAIN in.files :
                         in.files[i] = in.role \/ (in.role = "workload" /\ in.files[i] = "")})
    ELSE IF in.outputFile THEN 1 ELSE 0

Inputs ==
    [kind : Kinds, role : Roles, files : OutputFiles,
     outputFile : BOOLEAN, sync : BOOLEAN, ownVol : BOOLEAN, warmup : BOOLEAN,
     volname : BOOLEAN, malformed : BOOLEAN]

Init ==
    /\ in \in Inputs
    /\ pc = "decode"
    /\ obj = Decoded
    /\ left = 0
    /\ cms = {}
    /\ made = 0
    /\ stored = NoObject
    /\ faults = 0
-----------------------------------------------------------------------------
Goto(place) == pc' = place

Ok == UNCHANGED faults

Fault ==
    /\ faults < MaxFaults
    /\ faults' = faults + 1

\* The next call returns an error, and so does prepareAndRun.
Fails ==
    /\ Fault
    /\ Goto("error")
    /\ UNCHANGED <<in, obj, left, cms, made, stored>>

\* createObj of a temporary ConfigMap with a generated name.  Its error is
\* logged and shadowed: the caller gets the name all the same.
NewConfigMap ==
    /\ made' = made + 1
    /\ \/ Ok /\ cms' = cms \cup {made + 1}
       \/ Fault /\ cms' \in {cms, cms \cup {made + 1}}
    /\ UNCHANGED <<in, stored>>

Decode ==
    /\ pc = "decode"
    /\ ~in.malformed
    /\ IF in.role = "volume" /\ in.volname
       THEN Goto("skipped") /\ UNCHANGED left
       ELSE Goto("outputs") /\ left' = NumOutputs
    /\ UNCHANGED <<in, obj, cms, made, stored, faults>>

\* The definition in the library does not decode.
DecodeFails ==
    /\ pc = "decode"
    /\ in.malformed
    /\ Goto("error")
    /\ UNCHANGED <<in, obj, left, cms, made, stored, faults>>

NextOutput ==
    /\ pc = "outputs"
    /\ Goto(IF left > 0 THEN "setup" ELSE "env")
    /\ UNCHANGED <<in, obj, left, cms, made, stored, faults>>

\* addOutputVol: a volume that every container mounts.
WithOutputVol(o) ==
    IF VolInSpec(o, "output-vol") THEN o
    ELSE LET mounted == [i \in DOMAIN o.main |->
                            Container(o.main[i].name, o.main[i].mounts \cup {"output-vol"})]
         IN  WithVol([o EXCEPT !.main = mounted], "output-vol", 0)

\* Mutant: the volume is added again.
WithTokenAgain(o) == WithVol(o, "pod-watcher-token", 0)

\* addPodWatcherToken
WithToken(o) ==
    IF VolInSpec(o, "pod-watcher-token") THEN o ELSE WithVol(o, "pod-watcher-token", 0)

\* Without a pod spec addOutputVol returns nil and an error, and addContainers
\* returns the nil without the error.
SetupForOutput ==
    /\ pc = "setup"
    /\ IF HasPodSpec
       THEN /\ obj' = WithToken(WithOutputVol(obj))
            /\ Goto(IF VolInSpec(obj, "helper") THEN "parser" ELSE "helper")
       ELSE /\ obj' = [obj EXCEPT !.nil = TRUE, !.dropped = TRUE]
            /\ Goto("env")
    /\ UNCHANGED <<in, left, cms, made, stored, faults>>

AddCountdoneScript ==
    /\ pc = "helper"
    /\ NewConfigMap
    /\ obj' = WithVol(obj, "helper", made + 1)
    /\ Goto("parser")
    /\ UNCHANGED left

\* countdone.sh cannot be read: setupForOutput's error is dropped.
CountdoneScriptFails ==
    /\ pc = "helper"
    /\ Fault
    /\ obj' = [obj EXCEPT !.dropped = TRUE]
    /\ Goto("env")
    /\ UNCHANGED <<in, left, cms, made, stored>>

\* Mutant: an error of cloneParser ends the set-up of outputs only.
CloneParserGivesUp ==
    /\ pc = "parser"
    /\ \/ /\ NewConfigMap
          /\ Goto("image")
          /\ UNCHANGED <<obj, left>>
       \/ /\ Fault
          /\ Goto("env")
          /\ UNCHANGED <<in, obj, left, cms, made, stored>>

\* The copy of the parser is the ConfigMap numbered made.
CloneParser ==
    /\ pc = "parser"
    /\ \/ /\ NewConfigMap
          /\ Goto("image")
          /\ UNCHANGED <<obj, left>>
       \/ Fails

\* buildContainer
HelperMounts == {"helper", "pod-watcher-token", "output-vol"}

AddParserContainer ==
    /\ pc = "image"
    /\ \/ /\ obj' = LET o == WithContainer(obj, "parser-container", HelperMounts \cup {"parser"})
                    IN  IF VolInSpec(o, "parser") THEN o ELSE WithVol(o, "parser", made)
          /\ Goto("output")
          /\ Ok
          /\ UNCHANGED <<in, left, cms, made, stored>>
       \/ Fails

AddOutputContainer ==
    /\ pc = "output"
    /\ \/ /\ NewConfigMap
          /\ obj' = WithVol(WithContainer(obj, "output-container", HelperMounts \cup {"output"}),
                            "output", made + 1)
          /\ left' = left - 1
          /\ Goto("outputs")
       \/ Fails

\* SetEnvVar and addCNSBLabels do nothing that shows here, except that a nil
\* object has no kind to ask for.
SetEnvVars ==
    /\ pc = "env"
    /\ Goto(IF obj.nil THEN "panic" ELSE IF in.sync THEN "sync" ELSE "create")
    /\ UNCHANGED <<in, obj, left, cms, made, stored, faults>>

AddSyncContainer ==
    /\ pc = "sync"
    /\ HasPodSpec
    /\ \/ /\ NewConfigMap
          /\ LET sync == Container("sync-container", {"ready-script", "pod-watcher-token"})
                 o    == WithVol([obj EXCEPT !.init = Append(@, sync)], "ready-script", made + 1)
             IN  obj' = WithToken(o)
          /\ Goto("create")
          /\ UNCHANGED left
       \/ Fails

SyncWithoutPodSpec ==
    /\ pc = "sync"
    /\ ~HasPodSpec
    /\ Goto("error")
    /\ UNCHANGED <<in, obj, left, cms, made, stored, faults>>

Distinct(s) == \A i, j \in DOMAIN s : s[i].name = s[j].name => i = j

\* The API server's validation of a pod.
Valid(o) ==
    /\ Distinct(o.main \o o.init)
    /\ Distinct(o.vols)
    /\ \A i \in DOMAIN (o.main \o o.init) :
          \A m \in (o.main \o o.init)[i].mounts : VolInSpec(o, m)

\* createObj of the object itself: that it exists already is no error, and
\* watching its kind can fail after it was created.
CreateObj ==
    /\ pc = "create"
    /\ \/ /\ Ok
          /\ IF stored # NoObject
             THEN Goto("created") /\ UNCHANGED stored
             ELSE IF Valid(obj) THEN Goto("created") /\ stored' = obj
                                ELSE Goto("error") /\ UNCHANGED stored
       \/ /\ Fault
          /\ Goto("error")
          /\ stored' \in {stored} \cup (IF stored = NoObject /\ Valid(obj) THEN {obj} ELSE {})
    /\ UNCHANGED <<in, obj, left, cms, made>>

\* Reconcile is called again and decodes the object afresh.  Its name is that
\* of the first call, unless it has the instance's number in it.
Retry ==
    /\ pc = "error"
    /\ Fault
    /\ Goto("decode")
    /\ obj' = Decoded
    /\ left' = 0
    /\ stored' \in {stored, NoObject}
    /\ UNCHANGED <<in, cms, made>>

Next ==
    \/ Decode \/ DecodeFails \/ NextOutput \/ SetupForOutput
    \/ AddCountdoneScript \/ CountdoneScriptFails
    \/ CloneParser \/ AddParserContainer \/ AddOutputContainer
    \/ SetEnvVars \/ AddSyncContainer \/ SyncWithoutPodSpec
    \/ CreateObj \/ Retry

Spec == Init /\ [][Next]_vars
-----------------------------------------------------------------------------
(***************************************************************************)
(* Properties.                                                             *)
(***************************************************************************)

(***************************************************************************)
(* What is sent to the API server is a valid pod (containers and volumes   *)
(* with names of their own, every mount with its volume), whichever of the *)
(* three groups of containers are added, as long as the object has at most *)
(* one output file.                                                        *)
(***************************************************************************)
AcceptedByServer == pc = "create" /\ NumOutputs <= 1 => Valid(obj)

Named(o, name) == {i \in DOMAIN o.main : o.main[i].name = name}

(***************************************************************************)
(* An object does not exist without the containers that report its output: *)
(* for each output file a parser and an output container, and a container  *)
(* of the workload that shares the output volume with them.  Dropping the  *)
(* error at workload.go:442 and :461 is the only way to lose them, however *)
(* often the object is assembled again.  Nor does it exist without the     *)
(* scripts, which "must be in configmaps that are stored in the default    *)
(* namespace" (workload.go:92-93), unless a create failed, one each: that  *)
(* error is shadowed (workload.go:116 and :198).                           *)
(***************************************************************************)
OutputsComplete ==
    /\ Cardinality({i \in DOMAIN stored.vols : stored.vols[i].cm \notin cms \cup {0}}) <= faults
    /\ stored # NoObject /\ ~stored.dropped =>
          /\ Cardinality(Named(stored, "parser-container")) = NumOutputs
          /\ Cardinality(Named(stored, "output-container")) = NumOutputs
          /\ NumOutputs > 0 =>
                \E i \in Named(stored, "main") : "output-vol" \in stored.main[i].mounts
=============================================================================
