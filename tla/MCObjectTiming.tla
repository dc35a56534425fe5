--------------------------- MODULE MCObjectTiming ---------------------------
(***************************************************************************)
(* Feeds for TLC: a pod that is created again under its name, in another   *)
(* namespace, with a generated name or next to a claim of the same name;   *)
(* two pods that mount one claim, or one that is created again while it    *)
(* waits for its own; a deployment and a job being scaled, the deployment  *)
(* from more replicas than the parser can read.                            *)
(***************************************************************************)
EXTENDS ObjectTiming

NoStat == [f \in {"available", "ready", "updated", "active"} |-> 0]

Line(verb, code, resource, name) ==
    [stage |-> "ResponseComplete", verb |-> verb, code |-> code, resource |-> resource,
     sub |-> "", ns |-> "default", name |-> name, named |-> TRUE, spec |-> 0, phase |-> "",
     stat |-> NoStat, sent |-> TRUE, pv |-> "", reason |-> ""]

Created(resource, name) == Line("create", 201, resource, name)

Phase(verb, resource, name, phase) ==
    [Line(verb, 200, resource, name) EXCEPT !.sub = "status", !.phase = phase]

PodFeed ==
    [max |-> 5, again |-> TRUE, order |-> <<>>, rs |-> {"pod"}, lines |->
       {Created("pods", "p"),
        [Created("pods", "p") EXCEPT !.named = FALSE],
        [Created("pods", "p") EXCEPT !.ns = "other"],
        [Created("pods", "p") EXCEPT !.code = 409],
        [Created("pods", "p") EXCEPT !.stage = "RequestReceived"],
        Phase("patch", "pods", "p", "Running"),
        Phase("patch", "pods", "p", "Pending"),
        [Phase("update", "pods", "p", "Succeeded") EXCEPT !.ns = "other"],
        Created("persistentvolumeclaims", "p"),
        Phase("update", "persistentvolumeclaims", "p", "Bound")}]

Attached(name) == [Created("events", name) EXCEPT !.reason = "SuccessfulAttachVolume", !.pv = "v"]

Creating(name) == [Phase("patch", "pods", name, "Pending") EXCEPT !.reason = "ContainerCreating"]

BoundTo(pv) == [Phase("update", "persistentvolumeclaims", "c", "Bound") EXCEPT !.pv = pv]

ClaimFeed ==
    [max |-> 6, again |-> FALSE, order |-> <<>>, rs |-> {"pod", "pvc"}, lines |->
       {Created("persistentvolumeclaims", "c"), BoundTo("v"),
        Created("pods", "p"), Attached("p"), Creating("p"), Phase("patch", "pods", "p", "Running"),
        Created("pods", "q"), Attached("q"), [Creating("p") EXCEPT !.sent = FALSE]}]

SharedOrder ==
    <<Created("persistentvolumeclaims", "c"), BoundTo("v"),
      Created("pods", "p"), Attached("p"), Creating("p"), Phase("patch", "pods", "p", "Running"),
      Created("pods", "q"), Creating("q"), Attached("q"), Phase("patch", "pods", "q", "Running")>>

SharedFeed ==
    [max |-> 10, again |-> FALSE, order |-> SharedOrder, rs |-> {"pod", "pvc"},
     lines |-> Range(SharedOrder)]

AgainOrder ==
    <<Created("persistentvolumeclaims", "c"), BoundTo("v"), Created("pods", "p"), Attached("p"),
      Created("pods", "p"), Creating("p"), Phase("patch", "pods", "p", "Running"),
      Phase("patch", "pods", "p", "Succeeded")>>

AgainFeed ==
    [max |-> 8, again |-> TRUE, order |-> AgainOrder, rs |-> {"pod", "pvc"},
     lines |-> Range(AgainOrder)]

Spec_(verb, resource, n) == [Line(verb, 200, resource, "d") EXCEPT !.spec = n]

Status(resource, n, stat) ==
    [Spec_("update", resource, n) EXCEPT !.sub = "status", !.stat = stat]

ScaleFeed ==
    [max |-> 5, again |-> TRUE, order |-> <<>>, rs |-> {"deployment", "job", "pv"}, lines |->
       {[Created("deployments", "d") EXCEPT !.spec = 1],
        Spec_("get", "deployments", 2),
        Spec_("patch", "deployments", 1),
        Spec_("patch", "deployments", 2),
        Spec_("patch", "deployments", 0),
        Spec_("update", "deployments", 300),
        Status("deployments", 2, [NoStat EXCEPT !["available"] = 2, !["ready"] = 2, !["updated"] = 2]),
        Status("deployments", 2, [NoStat EXCEPT !["available"] = 2, !["ready"] = 2, !["updated"] = 1]),
        Status("deployments", 2, [NoStat EXCEPT !["available"] = 300]),
        Spec_("get", "jobs", 1),
        Spec_("patch", "jobs", 2),
        Status("jobs", 2, [NoStat EXCEPT !["active"] = 2]),
        Created("pods", "d")}]

NothingAsked == [PodFeed EXCEPT !.rs = {"node"}]

MCFeeds == {PodFeed, ClaimFeed, SharedFeed, AgainFeed, ScaleFeed, NothingAsked}
=============================================================================
