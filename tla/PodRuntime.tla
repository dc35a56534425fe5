----------------------------- MODULE PodRuntime -----------------------------
(***************************************************************************)
(* What the pods that PodAssembly puts together do when they run, and how  *)
(* results reach the collector.  The sync container of a pod (ready.sh)    *)
(* counts the completed init containers of its workload, then those of its *)
(* sync group; the parser and the output container (countdone.sh) count    *)
(* the running containers of their own pod, parse the workload's file and  *)
(* send it.  All of them see the statuses the kubelet has reported to the  *)
(* API server so far.  The controller sends its metrics and the metadata   *)
(* of the benchmark to the same collector (pkg/output).                    *)
(***************************************************************************)
EXTENDS Integers, FiniteSets, Sequences, SequencesExt

CONSTANTS
    Scenarios,      \* [pods: pod -> [workload, count, inits, sync, group, mains, files],
                    \*  outputs: Spec.Outputs, calls: call -> [name, strings]]
    MaxFaults       \* bound on crashes of the workload's containers and failed requests

\* The containers of a pod have names of their own, and the collector can tell
\* the requests of pods from those of the controller.
ASSUME ScenarioAssumption ==
    \A s \in Scenarios :
        /\ IsFiniteSet(DOMAIN s.pods) /\ s.outputs \in Seq(Range(s.outputs))
        /\ DOMAIN s.pods \cap DOMAIN s.calls = {}
        /\ \A p \in DOMAIN s.pods :
              /\ s.pods[p].count \in Nat /\ s.pods[p].inits \in Nat
              /\ IsFiniteSet(s.pods[p].mains)
              /\ s.pods[p].mains \cap {"parser", "output"} = {}

VARIABLES
    scenario,
    made,       \* the pods at the API server
    inits,      \* init containers a pod has completed, the sync container is the last
    con,        \* the state of its other containers
    reported,   \* the status of a pod at the API server
    script,     \* where ready.sh and the two countdone.sh of a pod are
    parsed,     \* what the parser has written
    early,      \* history: the sync groups counted before all their pods existed
    hasty,      \* history: pods whose scripts took a container that had not ended for one that had
    blind,      \* history: pods whose scripts counted the containers before any status was reported
    misled,     \* history: pods whose scripts took a request that failed for an answer
    call,       \* calls of doOutput
    sink,       \* what the collector has printed
    faults

podVars == <<made, inits, con, reported, script, parsed, early, hasty, blind, misled>>
vars == <<scenario, podVars, call, sink, faults>>

Pods == DOMAIN scenario.pods
spec == scenario.pods

Helpers(p) == IF spec[p].files THEN {"parser", "output"} ELSE {}
Mains(p) == spec[p].mains
Containers(p) == Mains(p) \cup Helpers(p)

\* Metric: pairs of strings; a last one without a value is dropped.
MetricsMap(ms) ==
    LET keys == {i \in DOMAIN ms : i % 2 = 1 /\ i < Len(ms)}
    IN  [k \in {ms[i] : i \in keys} |-> ms[Max({i \in keys : ms[i] = k}) + 1]]

\* What Metric or Output encode.
Body(c) ==
    IF scenario.calls[c].strings # <<>> THEN MetricsMap(scenario.calls[c].strings) ELSE "metadata"

NoStatus == [known |-> FALSE, inits |-> 0, con |-> <<>>]

Status(p) == [known |-> TRUE, inits |-> inits[p], con |-> con[p]]

\* addSyncContainer appends it to the init containers.
AllInits(p) == spec[p].inits + (IF spec[p].sync THEN 1 ELSE 0)

Init ==
    /\ scenario \in Scenarios
    /\ made = {}
    /\ inits = [p \in Pods |-> 0]
    /\ con = [p \in Pods |-> [c \in Containers(p) |-> "waiting"]]
    /\ reported = [p \in Pods |-> NoStatus]
    /\ script = [p \in Pods |-> [s \in {"sync"} \cup Helpers(p) |-> [pc |-> "start", needed |-> 0]]]
    /\ parsed = [p \in Pods |-> "nothing"]
    /\ early = {} /\ hasty = {} /\ blind = {} /\ misled = {}
    /\ call = [c \in DOMAIN scenario.calls |-> [pc |-> "post", i |-> 1, reader |-> <<Body(c)>>]]
    /\ sink = <<>>
    /\ faults = 0
-----------------------------------------------------------------------------
(***************************************************************************)
(* The cluster.                                                            *)
(***************************************************************************)
Unchanged(others) == UNCHANGED <<scenario, others, early, hasty, blind, misled>>

Make(p) ==
    /\ p \notin made
    /\ made' = made \cup {p}
    /\ Unchanged(<<inits, con, reported, script, parsed, call, sink, faults>>)

\* The workload's init containers run one after the other.
CompleteInit(p) ==
    /\ p \in made
    /\ inits[p] < spec[p].inits
    /\ inits' = [inits EXCEPT ![p] = @ + 1]
    /\ Unchanged(<<made, con, reported, script, parsed, call, sink, faults>>)

\* A container whose image cannot be pulled yet does not hold up the next.
StartContainer(p, c) ==
    /\ p \in made
    /\ inits[p] = AllInits(p)
    /\ con[p][c] \in {"waiting", "crashed"}
    /\ con' = [con EXCEPT ![p][c] = "running"]
    /\ Unchanged(<<made, inits, reported, script, parsed, call, sink, faults>>)

EndContainer(p, c) ==
    /\ c \in Mains(p)
    /\ con[p][c] = "running"
    /\ con' = [con EXCEPT ![p][c] = "done"]
    /\ Unchanged(<<made, inits, reported, script, parsed, call, sink, faults>>)

\* The kubelet will start it again.
Crash(p, c) ==
    /\ c \in Mains(p)
    /\ con[p][c] = "running"
    /\ faults < MaxFaults /\ faults' = faults + 1
    /\ con' = [con EXCEPT ![p][c] = "crashed"]
    /\ Unchanged(<<made, inits, reported, script, parsed, call, sink>>)

Report(p) ==
    /\ p \in made
    /\ reported[p] # Status(p)
    /\ reported' = [reported EXCEPT ![p] = Status(p)]
    /\ Unchanged(<<made, inits, con, script, parsed, call, sink, faults>>)
-----------------------------------------------------------------------------
(***************************************************************************)
(* ready.sh.                                                               *)
(***************************************************************************)
InWorkload(p) == {q \in made : spec[q].workload = spec[p].workload}
InGroup(p) == {q \in made : spec[q].group = spec[p].group}

\* What wc counts: a line for each of the n[q] containers of the pods q.
Lines(n) == UNION {{q} \X (1..n[q]) : q \in DOMAIN n}

\* grep reason.*Completed: sync containers that have completed are counted too.
Completed(S) == Cardinality(Lines([q \in S |-> reported[q].inits]))

\* Mutant: the instances are not counted.
SyncArgumentOne(p) == spec[p].inits

\* Mutant: the sync container waits for itself.
SyncArgumentSelf(p) == spec[p].count * (spec[p].inits + 1)

\* The argument that addSyncContainer computes.
SyncArgument(p) == spec[p].count * spec[p].inits

\* A request of a script fails: nothing is printed, and wc counts no line.
NoAnswer(p) ==
    /\ faults < MaxFaults /\ faults' = faults + 1
    /\ misled' = misled \cup {p}
    /\ UNCHANGED <<scenario, made, inits, con, reported, parsed, early, hasty, blind, call, sink>>

Go(p, s, pc, needed) == script' = [script EXCEPT ![p][s] = [pc |-> pc, needed |-> needed]]

\* The sync container exits.
Release(p) ==
    /\ inits' = [inits EXCEPT ![p] = @ + 1]
    /\ Go(p, "sync", "done", 0)

ReadyWorkload(p) ==
    /\ spec[p].sync
    /\ p \in made /\ inits[p] = spec[p].inits
    /\ script[p]["sync"].pc = "start"
    /\ Completed(InWorkload(p)) >= SyncArgument(p)
    /\ \/ spec[p].group = "" /\ Release(p)
       \/ spec[p].group # "" /\ Go(p, "sync", "count", 0) /\ UNCHANGED inits
    /\ Unchanged(<<made, con, reported, parsed, call, sink, faults>>)

Missing(p) == {q \in Pods : spec[q].group = spec[p].group} \ made

\* numneeded: the init containers in the specs of the pods that exist now.
CountGroup(p) ==
    /\ script[p]["sync"].pc = "count"
    /\ Go(p, "sync", "group", Cardinality(Lines([q \in InGroup(p) |-> spec[q].inits])))
    /\ early' = IF Missing(p) = {} THEN early ELSE early \cup {spec[p].group}
    /\ UNCHANGED <<scenario, made, inits, con, reported, parsed, hasty, blind, misled, call, sink, faults>>

\* A request that fails while the script polls only delays it; here no
\* container is waited for.
CountGroupFails(p) ==
    /\ script[p]["sync"].pc = "count"
    /\ Go(p, "sync", "group", 0)
    /\ NoAnswer(p)

ReadyGroup(p) ==
    /\ script[p]["sync"].pc = "group"
    /\ Completed(InGroup(p)) >= script[p]["sync"].needed
    /\ Release(p)
    /\ Unchanged(<<made, con, reported, parsed, call, sink, faults>>)
-----------------------------------------------------------------------------
(***************************************************************************)
(* countdone.sh: waits until only all but $1 containers are running.       *)
(***************************************************************************)
Running(p) == Cardinality({c \in DOMAIN reported[p].con : reported[p].con[c] = "running"})

\* Mutant: the output container waits for itself.
CountdoneArgumentSelf(s) == IF s = "parser" THEN 1 ELSE 3

\* Mutant: the arguments are the other way round.
CountdoneArgumentSwapped(s) == IF s = "parser" THEN 2 ELSE 1

\* The command lines of the two containers.
CountdoneArgument(s) == IF s = "parser" THEN 1 ELSE 2

\* No status lists no container: then numneeded is negative.
CountContainers(p, s) ==
    /\ con[p][s] = "running"
    /\ script[p][s].pc = "start"
    /\ Go(p, s, "wait", Cardinality(DOMAIN reported[p].con) - CountdoneArgument(s))
    /\ blind' = IF reported[p].known THEN blind ELSE blind \cup {p}
    /\ UNCHANGED <<scenario, made, inits, con, reported, parsed, early, hasty, misled, call, sink, faults>>

CountContainersFails(p, s) ==
    /\ con[p][s] = "running"
    /\ script[p][s].pc = "start"
    /\ Go(p, s, "wait", 0 - CountdoneArgument(s))
    /\ NoAnswer(p)

\* Some container of the status has not ended and is not running either.
Unsettled(p) == \E c \in DOMAIN reported[p].con : reported[p].con[c] \in {"waiting", "crashed"}

Countdone(p, s) ==
    /\ script[p][s].pc = "wait"
    /\ Running(p) <= script[p][s].needed
    /\ Go(p, s, "work", 0)
    /\ hasty' = IF Unsettled(p) THEN hasty \cup {p} ELSE hasty
    /\ UNCHANGED <<scenario, made, inits, con, reported, parsed, early, blind, misled, call, sink, faults>>

\* No container seems to be running.
CountdoneFails(p, s) ==
    /\ script[p][s].pc = "wait"
    /\ 0 <= script[p][s].needed
    /\ Go(p, s, "work", 0)
    /\ NoAnswer(p)

\* The file is complete when the workload's containers have ended.
File(p) == IF \A c \in Mains(p) : con[p][c] = "done" THEN "result" ELSE "part"

Parse(p) ==
    /\ script[p]["parser"].pc = "work"
    /\ parsed' = [parsed EXCEPT ![p] = File(p)]
    /\ con' = [con EXCEPT ![p]["parser"] = "done"]
    /\ Go(p, "parser", "done", 0)
    /\ Unchanged(<<made, inits, reported, call, sink, faults>>)

\* handler of the output collector: every request is printed.
Handle(from, to, data) == sink' = Append(sink, [from |-> from, to |-> to, data |-> data])

\* The request or its response is lost, or the body breaks off: the handler prints no data then.
Lost(from, to, data) ==
    /\ faults < MaxFaults /\ faults' = faults + 1
    /\ UNCHANGED sink \/ \E d \in {data, <<>>} : Handle(from, to, d)

\* http-output.sh ignores an error of curl.
SendResult(p) ==
    /\ script[p]["output"].pc = "work"
    /\ \/ Handle(p, "workloads", <<parsed[p]>>) /\ UNCHANGED faults
       \/ Lost(p, "workloads", <<parsed[p]>>)
    /\ con' = [con EXCEPT ![p]["output"] = "done"]
    /\ Go(p, "output", "done", 0)
    /\ Unchanged(<<made, inits, reported, parsed, call>>)
-----------------------------------------------------------------------------
(***************************************************************************)
(* doOutput: Output and Metric call it with a reader of the encoded data.  *)
(***************************************************************************)
Matches(c, i) ==
    /\ i \in DOMAIN scenario.outputs
    /\ scenario.outputs[i].name = scenario.calls[c].name
    /\ scenario.outputs[i].url # ""

NextOutput(c) ==
    /\ call[c].pc = "post"
    /\ ~Matches(c, call[c].i)
    /\ call' = IF call[c].i > Len(scenario.outputs) THEN [call EXCEPT ![c].pc = "done"]
               ELSE [call EXCEPT ![c].i = @ + 1]
    /\ UNCHANGED <<scenario, podVars, sink, faults>>

\* HttpPost reads the reader to its end; any response will do.
HttpPost(c) ==
    /\ call[c].pc = "post"
    /\ Matches(c, call[c].i)
    /\ Handle(c, scenario.outputs[call[c].i].url, call[c].reader)
    /\ call' = [call EXCEPT ![c].i = @ + 1, ![c].reader = <<>>]
    /\ UNCHANGED <<scenario, podVars, faults>>

\* Mutant: the next output is tried.
HttpPostFailsOnce(c) ==
    /\ call[c].pc = "post"
    /\ Matches(c, call[c].i)
    /\ faults < MaxFaults /\ faults' = faults + 1
    /\ call' = [call EXCEPT ![c].i = @ + 1]
    /\ UNCHANGED <<scenario, podVars, sink>>

\* An error of HttpPost: doOutput returns.
HttpPostFails(c) ==
    /\ call[c].pc = "post"
    /\ Matches(c, call[c].i)
    /\ Lost(c, scenario.outputs[call[c].i].url, call[c].reader)
    /\ call' = [call EXCEPT ![c].pc = "failed"]
    /\ UNCHANGED <<scenario, podVars>>
-----------------------------------------------------------------------------
Kubelet(p) ==
    \/ CompleteInit(p)
    \/ \E c \in Containers(p) : StartContainer(p, c) \/ EndContainer(p, c)

Ready(p) == ReadyWorkload(p) \/ CountGroup(p) \/ ReadyGroup(p)

Work(p, s) == CountContainers(p, s) \/ Countdone(p, s)

WorkFails(p, s) == CountContainersFails(p, s) \/ CountdoneFails(p, s)

Result(p) == Parse(p) \/ SendResult(p)

Next ==
    \/ \E p \in Pods : \/ Make(p) \/ Kubelet(p) \/ Report(p) \/ Ready(p) \/ CountGroupFails(p)
                       \/ \E c \in Containers(p) : Crash(p, c)
    \/ \E p \in {q \in Pods : spec[q].files} : Result(p) \/ \E s \in Helpers(p) : Work(p, s) \/ WorkFails(p, s)
    \/ \E c \in DOMAIN scenario.calls : NextOutput(c) \/ HttpPost(c) \/ HttpPostFails(c)

Spec == Init /\ [][Next]_vars

AllPods == UNION {DOMAIN s.pods : s \in Scenarios}

\* Kubelets run containers, which end, and report their statuses; the scripts
\* poll for ever.  That further pods are created is not assumed.
FairSpec ==
    /\ Spec
    /\ \A p \in AllPods :
          /\ WF_vars(p \in Pods /\ Kubelet(p))
          /\ WF_vars(p \in Pods /\ Report(p))
          /\ WF_vars(p \in Pods /\ Ready(p))
          /\ WF_vars(p \in Pods /\ spec[p].files /\ (Result(p) \/ \E s \in Helpers(p) : Work(p, s)))
-----------------------------------------------------------------------------
(***************************************************************************)
(* Properties.                                                             *)
(***************************************************************************)

Initialized(q) == q \in made /\ inits[q] >= spec[q].inits

Workload(p) == {q \in Pods : spec[q].workload = spec[p].workload}

(***************************************************************************)
(* "All workloads with the same sync group label will wait for each other  *)
(* to finish initialization before running their actual workload"          *)
(* (doc/benchmark_resource.md:61), and so does the count of instances of a *)
(* workload.  Three cases are left out that the scripts do not handle: a   *)
(* pod counted its group before all of the group's pods existed; a pod of  *)
(* the group had its request for that count fail, which it takes for no    *)
(* pods at all, and its sync container, completed, may stand for another;  *)
(* and more pods than the count, as after a second value of a rate: init   *)
(* containers are counted, not pods.                                       *)
(***************************************************************************)
SyncStart ==
    \A p \in {q \in Pods : spec[q].sync /\ inits[q] = AllInits(q)} :
        /\ \/ Cardinality({q \in Workload(p) : Initialized(q)}) >= spec[p].count
           \/ Cardinality(InWorkload(p)) > spec[p].count
        /\ \/ spec[p].group = "" \/ spec[p].group \in early
           \/ \E q \in misled : spec[q].group = spec[p].group
           \/ \A q \in Pods : spec[q].group = spec[p].group => Initialized(q)

(***************************************************************************)
(* No pod waits for ever in its sync container once the instances of its   *)
(* workload exist, whatever the others of its group do.                    *)
(***************************************************************************)
SyncEnds ==
    \A p \in AllPods :
        (p \in Pods /\ p \in made /\ Cardinality(InWorkload(p)) >= spec[p].count)
            ~> (p \in Pods /\ inits[p] = AllInits(p))

(***************************************************************************)
(* The parser runs when the workload's container has ended, the output     *)
(* container when the parser has: what is sent is the parsed result.  Left *)
(* out: a pod with more than one container of its own, and a status in     *)
(* which a container has not started yet or has crashed, or a request that *)
(* failed; countdone.sh takes them for containers that have ended.         *)
(***************************************************************************)
SendsResult ==
    \A i \in DOMAIN sink :
        sink[i].from \in Pods =>
            \/ sink[i].data \in {<<"result">>, <<>>}
            \/ sink[i].from \in hasty \cup misled
            \/ Cardinality(Mains(sink[i].from)) > 1

(***************************************************************************)
(* A pod's containers all end, after the result was sent, unless           *)
(* countdone.sh read the number of containers before the kubelet reported  *)
(* any, or with a request that failed: it then waits for less than no      *)
(* container to be running.                                                *)
(***************************************************************************)
ResultArrives ==
    \A p \in AllPods :
        (p \in Pods /\ p \in made /\ spec[p].files /\ ~spec[p].sync)
            ~> (p \in blind \cup misled \/ (p \in Pods /\ spec[p].files /\ con[p]["output"] = "done"))

\* The outputs a call has for its name, and its requests that reached the collector.
Matching(c) == {i \in DOMAIN scenario.outputs : Matches(c, i)}
Got(c) == {k \in DOMAIN sink : sink[k].from = c}

\* The place of k in S.
Place(S, k) == Cardinality({j \in S : j < k})

(***************************************************************************)
(* doOutput serves the outputs of a name in their order up to the first    *)
(* error, each once.  Only the first gets the data: they share a reader.   *)
(***************************************************************************)
OutputsInOrder ==
    \A c \in DOMAIN call :
        /\ \A k \in Got(c) :
              /\ \E i \in Matching(c) : /\ Place(Matching(c), i) = Place(Got(c), k)
                                       /\ sink[k].to = scenario.outputs[i].url
              /\ \/ sink[k].data = IF Place(Got(c), k) = 0 THEN <<Body(c)>> ELSE <<>>
                 \/ call[c].pc = "failed" /\ \A j \in Got(c) : j <= k
        /\ call[c].pc = "done" => Cardinality(Got(c)) = Cardinality(Matching(c))
=============================================================================
