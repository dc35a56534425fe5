---------------------------- MODULE ObjectTiming ----------------------------
(***************************************************************************)
(* The object timing parser: pairs the audit lines of the API server into  *)
(* creations and scalings of objects and times them.  It exists twice: as  *)
(* the library pkg/objecttiming, which parses a finished log and returns   *)
(* all the results, and as the command util/analysis/objecttiming, which   *)
(* follows a log file and prints each result at once.  They share all but  *)
(* the code named here with the word "command" or "library".               *)
(*                                                                         *)
(* One step parses one line.  Times are positions in the log: the parser   *)
(* only subtracts them.                                                    *)
(***************************************************************************)
EXTENDS Naturals, Sequences, FiniteSets, SequencesExt

CONSTANTS
    Feeds,          \* what clusters may write: lines, at most max, again if they may repeat,
                    \* order if they have one; and rs, the resources asked for (--rs)
    Namespaces      \* the value of --ns

VARIABLES
    copy,       \* "library" or "command"
    feed,       \* the feed that is being parsed
    flags,      \* what to parse
    log,        \* history: the lines parsed so far
    ongoing,    \* records of actions still in progress
    objstore,   \* the spec of scalable objects as last read or created
    results,    \* records of finished actions, not printed yet
    printed,    \* the records the command has printed
    status      \* "reading", "returned", "failed" (error) or "panic"

vars == <<copy, feed, flags, log, ongoing, objstore, results, printed, status>>

now == Len(log) + 1

\* main of the command: the flags for the resources that were asked for.
FlagsFor(rs) ==
    (IF rs \cap {"pod", "pvc", "pv"} # {} THEN {"create"} ELSE {})
        \cup (IF rs \cap {"deployment", "job", "replicaset", "statefulset"} # {}
              THEN {"scale"} ELSE {})
        \cup (IF {"pod", "pvc"} \subseteq rs THEN {"pvcpod"} ELSE {})

Init ==
    /\ copy \in {"library", "command"}
    /\ feed \in Feeds
    /\ flags = FlagsFor(feed.rs)
    /\ log = <<>> /\ ongoing = <<>> /\ results = <<>> /\ printed = <<>>
    /\ objstore = [id \in {} |-> 0]
    /\ status = "reading"
-----------------------------------------------------------------------------
(***************************************************************************)
(* Lines.  A line is an event of an API request: stage, verb and code, the *)
(* object's resource, subresource, namespace and name (named is FALSE when *)
(* only the response has the name), and of the objects sent and returned   *)
(* the spec, the status (phase, stat), the volume and the events' reason;  *)
(* sent is FALSE when the request was logged without a status.  An update  *)
(* of a status returns what was sent.                                      *)
(***************************************************************************)
getIdentification(l) == <<l.name, l.resource, l.ns>>

\* The replica counts are uint8 fields: json.Unmarshal refuses larger numbers.
Decodes(l) == l.spec < 2^8

createEndCrit ==
    [pods |-> {"Running", "Succeeded"}, persistentvolumes |-> {"Bound"},
     persistentvolumeclaims |-> {"Bound"}]

\* These objects have no replicas, and a pod is never bound.
ASSUME FeedAssumption ==
    \A f \in Feeds : \A l \in f.lines :
        l.resource \in DOMAIN createEndCrit =>
            /\ Decodes(l)
            /\ l.phase \in {"Running", "Succeeded", "Bound"} =>
                   l.phase \in createEndCrit[l.resource]

scaleEndCrit ==
    [deployments  |-> {"available", "ready", "updated"},
     jobs         |-> {"active"},
     replicasets  |-> {"available", "labeled", "ready"},
     statefulsets |-> {"current", "ready"}]

\* Mutant: the search starts at the oldest record.
findLogFirst(action, id) ==
    LET matching == {i \in DOMAIN ongoing : ongoing[i].action = action /\ ongoing[i].id = id}
    IN  IF matching = {} THEN 0 ELSE Min(matching)

\* The index of the last record of the action and the object, 0 if there is none.
findLog(action, id) ==
    LET matching == {i \in DOMAIN ongoing : ongoing[i].action = action /\ ongoing[i].id = id}
    IN  IF matching = {} THEN 0 ELSE Max(matching)

getEndIndex(action, l) == findLog(action, getIdentification(l))

isCreateStart(l) ==
    l.verb = "create" /\ l.code = 201 /\ l.resource \in DOMAIN createEndCrit

\* Mutant: an update does not end a creation.
isCreateEndPatch(l) ==
    /\ l.verb = "patch" /\ l.code = 200
    /\ l.resource \in DOMAIN createEndCrit
    /\ l.phase \in createEndCrit[l.resource]
    /\ getEndIndex("create", l) # 0

isCreateEnd(l) ==
    /\ l.verb \in {"patch", "update"} /\ l.code = 200
    /\ l.resource \in DOMAIN createEndCrit
    /\ l.phase \in createEndCrit[l.resource]
    /\ getEndIndex("create", l) # 0

\* A change of the spec, compared with the last get or create of the object,
\* that is not being recorded already.  0 stands for no value.
isScaleStart(l) ==
    /\ l.verb \in {"patch", "update"} /\ l.code = 200
    /\ l.resource \in DOMAIN scaleEndCrit
    /\ getIdentification(l) \in DOMAIN objstore
    /\ LET old == objstore[getIdentification(l)]
           i   == getEndIndex("scale", l)
       IN  /\ old # 0 /\ l.spec # 0 /\ old # l.spec
           /\ i = 0 \/ ongoing[i].from # old \/ ongoing[i].to # l.spec

allGoalsFulfilled(l, goal) == \A f \in scaleEndCrit[l.resource] : l.stat[f] = goal

\* What isScaleEnd looks at: a status of a scalable object.
IsScaleStatus(l) ==
    /\ l.verb = "update" /\ l.sub = "status" /\ l.code = 200
    /\ l.resource \in DOMAIN scaleEndCrit
    /\ l.sent

\* The numbers of a status are uint8 fields as well: isScaleEnd panics.
StatusOverflows(l) == IsScaleStatus(l) /\ \E f \in DOMAIN l.stat : l.stat[f] >= 2^8

isScaleEnd(l) ==
    /\ IsScaleStatus(l)
    /\ getEndIndex("scale", l) # 0
    /\ allGoalsFulfilled(l, ongoing[getEndIndex("scale", l)].to)

isAttachVolumeEvent(l) == l.resource = "events" /\ l.reason = "SuccessfulAttachVolume"

IsPodStatus(l) == l.verb = "patch" /\ l.resource = "pods" /\ l.sub = "status"

\* isContainerCreatingStatus decodes what is not there, and panics.
StatusMissing(l) == IsPodStatus(l) /\ ~l.sent

isContainerCreatingStatus(l) ==
    /\ IsPodStatus(l) /\ l.sent
    /\ l.reason = "ContainerCreating"

isGetCreateRequest(l) == l.verb \in {"get", "create"}

\* What parseLog does with a line: the first case that applies.
StepOf(l) ==
    IF ~Decodes(l) THEN "undecodable"
    ELSE IF l.stage # "ResponseComplete" THEN "nothing"
    ELSE IF "create" \in flags /\ isCreateStart(l) THEN "createStart"
    ELSE IF "create" \in flags /\ isCreateEnd(l) THEN "createEnd"
    ELSE IF "scale" \in flags /\ isScaleStart(l) THEN "scaleStart"
    ELSE IF "scale" \in flags /\ StatusOverflows(l) THEN "panic"
    ELSE IF "scale" \in flags /\ isScaleEnd(l) THEN "scaleEnd"
    ELSE IF "pvcpod" \in flags /\ isAttachVolumeEvent(l) THEN "attach"
    ELSE IF "pvcpod" \in flags /\ StatusMissing(l) THEN "panic"
    ELSE IF "pvcpod" \in flags /\ isContainerCreatingStatus(l) THEN "container"
    ELSE IF isGetCreateRequest(l) THEN "save"
    ELSE "nothing"
-----------------------------------------------------------------------------
(***************************************************************************)
(* Records; 0 and "" stand for a field that is not set.                    *)
(***************************************************************************)
initializeRecord(action, l) ==
    [action |-> action, id |-> getIdentification(l), kind |-> l.resource,
     start |-> now, end |-> 0, from |-> 0, to |-> 0, unfinished |-> FALSE,
     pv |-> "", attach |-> 0, container |-> 0, bound |-> 0, timed |-> FALSE]

getScaleStart(l) ==
    [initializeRecord("scale", l) EXCEPT !.from = objstore[getIdentification(l)], !.to = l.spec]

setEndTime(r) == [r EXCEPT !.end = now]

convertName(resource) ==
    CASE resource = "deployments"            -> "Deployment"
      [] resource = "jobs"                   -> "Job"
      [] resource = "persistentvolumeclaims" -> "PersistentVolumeClaim"
      [] resource = "persistentvolumes"      -> "PersistentVolume"
      [] resource = "pods"                   -> "Pod"
      [] resource = "replicasets"            -> "ReplicaSet"
      [] resource = "statefulsets"           -> "StatefulSet"
      [] OTHER                               -> resource

\* outputFinishedActions of the command: the record that the line finished
\* is removed, and printed if it is of one of the namespaces.  It never has
\* the bound and delta times: the resource is compared with "pod".
Output(r) ==
    IF r.id[3] \in Namespaces
    THEN Append(printed, [r EXCEPT !.kind = convertName(@), !.timed = TRUE])
    ELSE printed

Finished(r) ==
    IF copy = "library"
    THEN results' = Append(results, r) /\ UNCHANGED printed
    ELSE printed' = Output(r) /\ UNCHANGED results

ReadLine(l, step) ==
    /\ status = "reading"
    /\ flags # {}
    /\ Len(log) < feed.max
    /\ feed.again \/ l \notin Range(log)
    /\ feed.order # <<>> /\ log # <<>> =>
           \E i, j \in DOMAIN feed.order :
               i < j /\ feed.order[i] = Last(log) /\ feed.order[j] = l
    /\ StepOf(l) = step
    /\ log' = Append(log, l)
    /\ UNCHANGED <<copy, feed, flags>>
-----------------------------------------------------------------------------
(***************************************************************************)
(* The steps of parseLog.                                                  *)
(***************************************************************************)

\* An error ends the library's loop; the command's reader ignores it.
Undecodable(l) ==
    /\ ReadLine(l, "undecodable")
    /\ status' = IF copy = "library" THEN "failed" ELSE status
    /\ UNCHANGED <<ongoing, objstore, results, printed>>

\* A status that cannot be decoded ends the program.
Panics(l) ==
    /\ ReadLine(l, "panic")
    /\ status' = "panic"
    /\ UNCHANGED <<ongoing, objstore, results, printed>>

\* The command leaves out a creation while a record with that name is
\* ongoing, whatever its action, resource or namespace.
KnownName(l) == \E i \in DOMAIN ongoing : ongoing[i].id[1] = l.name /\ l.named

CreateStart(l) ==
    /\ ReadLine(l, "createStart")
    /\ ongoing' = IF copy = "command" /\ KnownName(l) THEN ongoing
                  ELSE Append(ongoing, initializeRecord("create", l))
    /\ UNCHANGED <<objstore, results, printed, status>>

CreateEnd(l) ==
    /\ ReadLine(l, "createEnd")
    /\ LET i == getEndIndex("create", l)
           r == setEndTime(ongoing[i])
       IN  /\ ongoing' = RemoveAt(ongoing, i)
           /\ Finished(IF l.resource = "persistentvolumeclaims"
                       THEN [r EXCEPT !.pv = l.pv] ELSE r)
    /\ UNCHANGED <<objstore, status>>

\* An unfinished scale of the object is forced to end.
ScaleStart(l) ==
    /\ ReadLine(l, "scaleStart")
    /\ LET i == getEndIndex("scale", l)
       IN  IF i # 0
           THEN /\ ongoing' = Append(RemoveAt(ongoing, i), getScaleStart(l))
                /\ Finished([setEndTime(ongoing[i]) EXCEPT !.unfinished = TRUE])
           ELSE /\ ongoing' = Append(ongoing, getScaleStart(l))
                /\ UNCHANGED <<results, printed>>
    /\ UNCHANGED <<objstore, status>>

ScaleEnd(l) ==
    /\ ReadLine(l, "scaleEnd")
    /\ LET i == getEndIndex("scale", l)
       IN  ongoing' = RemoveAt(ongoing, i) /\ Finished(setEndTime(ongoing[i]))
    /\ UNCHANGED <<objstore, status>>

PodRecord(l) == findLog("create", <<l.name, "pods", l.ns>>)

SetAttachTime(l) ==
    /\ ReadLine(l, "attach")
    /\ ongoing' = IF PodRecord(l) = 0 THEN ongoing
                  ELSE [ongoing EXCEPT ![PodRecord(l)].attach = now, ![PodRecord(l)].pv = l.pv]
    /\ UNCHANGED <<objstore, results, printed, status>>

\* Mutant: a pod that waits for its volume is not looked at.
SetContainerTimeAttached(l) ==
    /\ ReadLine(l, "container")
    /\ ongoing' = IF PodRecord(l) = 0 THEN ongoing
                  ELSE [ongoing EXCEPT ![PodRecord(l)].container =
                           IF ongoing[PodRecord(l)].attach = 0 THEN 0 ELSE now]
    /\ UNCHANGED <<objstore, results, printed, status>>

SetContainerTime(l) ==
    /\ ReadLine(l, "container")
    /\ ongoing' = IF PodRecord(l) = 0 THEN ongoing
                  ELSE [ongoing EXCEPT ![PodRecord(l)].container = now]
    /\ UNCHANGED <<objstore, results, printed, status>>

\* Mutant: only the spec of a created object is saved.
SaveObjInfoCreated(l) ==
    /\ ReadLine(l, "save")
    /\ objstore' = IF l.code = 201 /\ l.resource \in DOMAIN scaleEndCrit
                   THEN [id \in DOMAIN objstore \cup {getIdentification(l)} |->
                            IF id = getIdentification(l) THEN l.spec ELSE objstore[id]]
                   ELSE objstore
    /\ UNCHANGED <<ongoing, results, printed, status>>

SaveObjInfo(l) ==
    /\ ReadLine(l, "save")
    /\ objstore' = IF l.code \in {200, 201} /\ l.resource \in DOMAIN scaleEndCrit
                   THEN [id \in DOMAIN objstore \cup {getIdentification(l)} |->
                            IF id = getIdentification(l) THEN l.spec ELSE objstore[id]]
                   ELSE objstore
    /\ UNCHANGED <<ongoing, results, printed, status>>

IgnoreLine(l) ==
    /\ ReadLine(l, "nothing")
    /\ UNCHANGED <<ongoing, objstore, results, printed, status>>
-----------------------------------------------------------------------------
(***************************************************************************)
(* The end of the library's ParseLogs.                                     *)
(***************************************************************************)
IsPod(r) == r.id[2] = "pods"
IsClaim(r) == r.id[2] = "persistentvolumeclaims"

\* boundTimes: the first pod in the results takes the end of the last claim of
\* its volume; the volume's name is then deleted from both records.
BoundTime(i) ==
    LET claims == {j \in DOMAIN results : IsClaim(results[j]) /\ results[j].pv = results[i].pv}
        pods   == {j \in DOMAIN results : /\ IsPod(results[j]) /\ results[j].attach # 0
                                          /\ results[j].pv = results[i].pv}
    IN  IF claims # {} /\ i \in pods /\ i = Min(pods)
        THEN results[Max(claims)].end ELSE 0

\* calculateDeltas asserts that an attached pod has its two other times.
LacksTime(i) ==
    results[i].attach # 0 /\ (BoundTime(i) = 0 \/ results[i].container = 0)

\* formatResourceNames and calculateDeltas, or its panic.
Return ==
    /\ status = "reading"
    /\ copy = "library" \/ flags = {}
    /\ \/ /\ "pvcpod" \in flags
          /\ \E i \in DOMAIN results : LacksTime(i)
          /\ status' = "panic"
          /\ UNCHANGED results
       \/ /\ "pvcpod" \in flags => \A i \in DOMAIN results : ~LacksTime(i)
          /\ status' = "returned"
          /\ results' = [i \in DOMAIN results |->
                            [results[i] EXCEPT !.kind = convertName(@), !.timed = TRUE,
                                               !.bound = BoundTime(i)]]
    /\ UNCHANGED <<copy, feed, flags, log, ongoing, objstore, printed>>

ParseLine ==
    \E l \in feed.lines :
        \/ Undecodable(l) \/ Panics(l) \/ CreateStart(l) \/ CreateEnd(l)
        \/ ScaleStart(l) \/ ScaleEnd(l)
        \/ SetAttachTime(l) \/ SetContainerTime(l)
        \/ SaveObjInfo(l) \/ IgnoreLine(l)

Next == ParseLine \/ Return

Spec == Init /\ [][Next]_vars
-----------------------------------------------------------------------------
(***************************************************************************)
(* Properties.                                                             *)
(***************************************************************************)
Reported == Range(IF copy = "library" THEN results ELSE printed)

Recorded == Reported \cup Range(ongoing)

Creates(l, id) == /\ l.verb = "create" /\ l.code = 201 /\ getIdentification(l) = id
                  /\ l.stage = "ResponseComplete"

Ready(l, id) ==
    /\ l.verb \in {"patch", "update"} /\ l.code = 200 /\ getIdentification(l) = id
    /\ l.stage = "ResponseComplete" /\ l.phase \in {"Running", "Succeeded", "Bound"}

(***************************************************************************)
(* "Start counting object creation from successful create request"         *)
(* (create.go:28): when the library ends a creation, every later creation  *)
(* of the object has ended before: an object that was deleted and created  *)
(* again is not timed from its first creation at its first ready line.     *)
(***************************************************************************)
NewestFirst ==
    copy = "library" =>
        \A r \in Reported : r.action = "create" =>
            \A t \in r.start + 1 .. r.end - 1 : Creates(log[t], r.id) =>
                \E q \in Reported : q.action = "create" /\ q.start = t /\ q.end < r.end

(***************************************************************************)
(* No ready object is missed: a line that shows an object ready ends one   *)
(* creation, unless none of that object was open.  The command prints only *)
(* the objects of its namespaces.                                          *)
(***************************************************************************)
ReadyEndsOne ==
    \A t \in DOMAIN log : \A r \in Recorded :
        /\ r.action = "create" /\ r.start < t /\ (r.end = 0 \/ t < r.end)
        /\ copy = "library" \/ r.id[3] \in Namespaces
        /\ Ready(log[t], r.id)
        => \E q \in Reported : q.action = "create" /\ q.id = r.id /\ q.end = t

\* The line shows the spec of the object.
Shows(l, id) ==
    /\ l.stage = "ResponseComplete" /\ Decodes(l) /\ l.code \in {200, 201}
    /\ getIdentification(l) = id

ShownBefore(t, id, verbs) ==
    {u \in 1 .. t - 1 : Shows(log[u], id) /\ log[u].verb \in verbs}

(***************************************************************************)
(* "Start counting object scaling from successful change to spec.replicas" *)
(* (scale.go:36): a recorded scale is a change of the replicas that the    *)
(* log showed last, except after another scale or a scale to zero that no  *)
(* get has followed: then the count it is compared with is out of date.    *)
(* The command drops the scales of other namespaces when they end.         *)
(***************************************************************************)
ScaleIsChange ==
    \A r \in {s \in Recorded : /\ s.action = "scale"
                               /\ copy = "library" \/ s.id[3] \in Namespaces} :
        LET read  == Max(ShownBefore(r.start, r.id, {"get", "create"}))
            shown == Max(ShownBefore(r.start, r.id, {"get", "create", "patch", "update"}))
        IN  \/ r.from = log[shown].spec /\ r.to # r.from
            \/ \E q \in Recorded : /\ q.action = "scale" /\ q.id = r.id
                                 /\ q.start < r.start /\ (q.end = 0 \/ q.end > read)
            \/ \E u \in read .. r.start : Shows(log[u], r.id) /\ log[u].spec = 0

\* The line shows the containers of the pod being created.
Container(l, id) ==
    /\ l.stage = "ResponseComplete" /\ isContainerCreatingStatus(l)
    /\ getIdentification(l) = id

\* The last line has a status that the decoders of scale.go or pvcpod.go refuse.
BadStatus ==
    log # <<>> /\
        \/ Last(log).resource \in DOMAIN scaleEndCrit
              /\ \E f \in DOMAIN Last(log).stat : Last(log).stat[f] >= 2^8
        \/ "pvcpod" \in flags /\ Last(log).resource = "pods" /\ ~Last(log).sent

(***************************************************************************)
(* What ends the parser with a panic: a status with more replicas than 255 *)
(* (scale.go:93, :109), or a pod's status that was logged without the      *)
(* request (pvcpod.go:66, when claims are parsed); or, at the end, the     *)
(* type assertions of calculateDeltas (parselogs.go:131-133).  These fail  *)
(* only for a pod whose volume was attached while it was being created,    *)
(* but whose claim was not created and bound in the same log, or is shared *)
(* with another pod, or whose ContainerCreating status is missing before   *)
(* it was ready, or that was created again before it was ready: then the   *)
(* newer record has the time.                                              *)
(***************************************************************************)
PanicCause ==
    status = "panic" =>
        \/ BadStatus
        \/ \E r \in Reported :
              /\ r.attach # 0
              /\ \/ ~\E c \in Reported : IsClaim(c) /\ c.pv = r.pv
                 \/ \E q \in Reported : IsPod(q) /\ q # r /\ q.attach # 0 /\ q.pv = r.pv
                 \/ ~\E t \in r.start .. r.end - 1 : Container(log[t], r.id)
                 \/ \E t \in r.start + 1 .. r.end - 1 : Creates(log[t], r.id)
=============================================================================
