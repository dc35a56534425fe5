----------------------------- MODULE CsiTracing -----------------------------
(***************************************************************************)
(* The CSI tracer of util/analysis/csi-tracing: PcapToLogs turns a packet  *)
(* capture of the gRPC traffic between the CSI sidecars and a driver into  *)
(* one log record per successful call.  The first half of the module is    *)
(* the traffic and its capture (gRPC over HTTP/2 over TCP, external): the  *)
(* calls, how their messages fall into frames and their frames into        *)
(* packets, and what a capture loses or sees twice.  The second half is    *)
(* the tracer: parsePackets, extractStreams, parseRPCs, sortRPCs and       *)
(* extractLogs, one action per step of its loops.                          *)
(*                                                                         *)
(* A header block is numbered in the order in which its sender encoded it: *)
(* the HPACK state after n blocks is needed to decode block n + 1.  What   *)
(* the decoder returns for any other block is arbitrary.                   *)
(***************************************************************************)
EXTENDS Naturals, FiniteSets, TLC, SequencesExt, CsiMessages

CONSTANTS
  Conns,     \* connections, each named by its :authority
  Ends,      \* their ends: [Conns -> [v4, client, cport, server, sport]]
  Calls,     \* calls: [conn, sid]
  Plain,     \* the path of an ordinary call
  Paths,     \* the paths a call may have: [pkg, service, rpc]
  MaxCalls,  \* calls that are made
  MaxOdd     \* unusual events: see Budget

VARIABLES
  call,      \* what was sent for each call that was made
  encoded,   \* header blocks encoded so far, per direction
  capture,   \* the captured packets
  odd,       \* unusual events so far
  disturbed, \* the directions of which it "lost" or "repeated" a packet
  phase,     \* the step of the tracer
  rf,        \* rawframes: per identifier the packets from a to b
  rs,        \* rawstreams
  rpcs,      \* the parsed calls
  logs       \* the result

env  == <<call, encoded, capture, odd, disturbed>>
vars == <<call, encoded, capture, odd, disturbed, phase, rf, rs, rpcs, logs>>

-----------------------------------------------------------------------------
(* The traffic.                                                            *)

(* A direction of a connection, and its addresses as packets carry them.   *)
Up(k)   == <<k, "up">>
Down(k) == <<k, "down">>
Client(k) == <<Ends[k].client, Ends[k].cport>>
Server(k) == <<Ends[k].server, Ends[k].sport>>
Source(d) == IF d[2] = "up" THEN Client(d[1]) ELSE Server(d[1])
Target(d) == IF d[2] = "up" THEN Server(d[1]) ELSE Client(d[1])
Directions == {Up(k) : k \in Conns} \cup {Down(k) : k \in Conns}

RequestHeaders(k, path) ==
  (":method" :> "POST") @@ (":scheme" :> "http") @@ (":path" :> path)
  @@ (":authority" :> k) @@ ("content-type" :> "application/grpc")
ResponseHeaders == (":status" :> "200") @@ ("content-type" :> "application/grpc")
Trailers == ("grpc-status" :> "0")
Nothing == [h \in {} |-> h]

(* A DATA frame's body: the gRPC prefix and whether the message is whole,  *)
(* and whether proto.Unmarshal takes it for the struct of its call.        *)
Body(flag, whole, valid, msg) ==
  [flag |-> flag, whole |-> whole, valid |-> valid, msg |-> msg]
NoBody == Body(0, FALSE, TRUE, {})
Frame(type, sid, end, n, fields, body) ==
  [type |-> type, sid |-> sid, end |-> end, n |-> n, fields |-> fields, body |-> body]
Headers(sid, end, n, fields) == Frame("HEADERS", sid, end, n, fields, NoBody)
Data(sid, body) == Frame("DATA", sid, TRUE, 0, Nothing, body)
Other(sid) == Frame("OTHER", sid, TRUE, 0, Nothing, NoBody)
Part == Frame("PART", 0, TRUE, 0, Nothing, NoBody)
Magic == Frame("MAGIC", 0, TRUE, 0, Nothing, NoBody)

(* How a message may fall into frames, and these into packets: the header  *)
(* block in one HEADERS frame or continued, in the same packet or the      *)
(* next; the message in the packet of its headers or in one of its own     *)
(* ("parted"); in one DATA frame, in two, compressed, malformed, or        *)
(* followed by an empty one; a frame cut by the end of the packet.  A      *)
(* response ends with trailers, in a packet of their own or not; a failed  *)
(* call's response is nothing but trailers.                                *)
Forms == {"plain", "parted", "continued", "apart", "split", "compressed", "malformed",
          "ended", "cut"}

Payloads(form, sid, n, fields, msg, trailers) ==
  LET H    == Headers(sid, TRUE, n, fields)
      H0   == Headers(sid, FALSE, n, fields)
      C    == Frame("CONTINUATION", sid, TRUE, n, fields, NoBody)
      D    == Data(sid, Body(0, TRUE, TRUE, msg))
      Half == Data(sid, Body(0, FALSE, TRUE, msg))
      Packed == Data(sid, Body(1, TRUE, TRUE, {}))
      Wrong  == Data(sid, Body(0, TRUE, FALSE, {}))
  IN CASE form = "plain"      -> << <<H, D>> \o trailers >>
       [] form = "parted"     -> << <<H>>, <<D>> \o trailers >>
       [] form = "trailing"   -> << <<H, D>>, trailers >>
       [] form = "continued"  -> << <<H0, C, D>> \o trailers >>
       [] form = "apart"      -> << <<H0>>, <<C, D>> \o trailers >>
       [] form = "split"      -> << <<H, Half, Half>> \o trailers >>
       [] form = "compressed" -> << <<H, Packed>> \o trailers >>
       [] form = "malformed"  -> << <<H, Wrong>> \o trailers >>
       [] form = "ended"      -> << <<H, D, Data(sid, NoBody)>> \o trailers >>
       [] form = "cut"        -> << <<H, Part>>, <<Part>> \o trailers >>
       [] form = "failed"     -> << <<Headers(sid, TRUE, n, Trailers)>> >>

(* Every departure from ordinary traffic counts: at most MaxOdd of them.   *)
(* An ordinary request may come in two packets.                            *)
Cost(test) == IF test THEN 1 ELSE 0
OddPath(s) == s.path # Plain \/ s.alt # 1
ShapeCost(s) == Cost(OddPath(s)) + Cost(s.form # "plain" /\ (OddPath(s) \/ s.form # "parted"))
Shapes == {s \in [path : Paths, alt : {1, 2}, form : Forms] : ShapeCost(s) <= MaxOdd}
Budget(n) == odd + n <= MaxOdd /\ odd' = odd + n

Packet(d, payload, t) == [dir |-> d, payload |-> payload, time |-> t]

(* The packets as captured: new ones, the first one joined to the last     *)
(* packet when that goes the same way.  Time is the number of the packet.  *)
Captured(d, payloads, join) ==
  IF join
  THEN LET last == Last(capture)
       IN Front(capture) \o <<[last EXCEPT !.payload = @ \o payloads[1]]>>
          \o [i \in 1..(Len(payloads) - 1) |->
                Packet(d, payloads[i + 1], Len(capture) + i)]
  ELSE capture \o [i \in 1..Len(payloads) |-> Packet(d, payloads[i], Len(capture) + i)]

(* The capture misses the packets in lost.                                 *)
Losses == {{}, {1}, {2}, {1, 2}}
Transmit(d, payloads, join, lost) ==
  LET seen == [i \in 1..(Len(payloads) - Cardinality(lost)) |->
                 payloads[IF 1 \in lost THEN i + 1 ELSE i]]
  IN /\ lost \subseteq DOMAIN payloads
     /\ join => lost = {} /\ capture # <<>> /\ Last(capture).dir = d
     /\ capture' = Captured(d, seen, join)
     /\ disturbed' = IF lost = {} THEN disturbed ELSE disturbed \cup {<<d, "lost">>}

(* The calls a driver has: those of CSI, and of an older version, whose    *)
(* messages are taken to be the same.                                      *)
Known(path) ==
  /\ path.pkg \in {"csi.v1", "csi.v0"}
  /\ path.service \in DOMAIN Methods
  /\ path.rpc \in Methods[path.service]

(* A client calls; the first packet of a connection has the preface.       *)
SendRequest(c, s, join, lost) ==
  LET d     == Up(c.conn)
      hello == IF encoded[d] = 0 THEN <<Magic, Other(0)>> ELSE <<>>
      msg   == IF Known(s.path) THEN Marshal(MethodInput(s.path.rpc), s.alt) ELSE {}
      p     == Payloads(s.form, c.sid, encoded[d] + 1, RequestHeaders(c.conn, s.path),
                        msg, <<>>)
  IN /\ Budget(ShapeCost(s) + Cost(lost # {}))
     /\ Transmit(d, <<hello \o p[1]>> \o Tail(p), join, lost)
     /\ encoded' = [encoded EXCEPT ![d] = @ + 1]
     /\ call' = call @@ (c :> [path |-> s.path, alt |-> s.alt, form |-> s.form,
                               answer |-> "none", start |-> Len(capture'), end |-> 0])
     /\ UNCHANGED <<phase, rf, rs, rpcs, logs>>

(* The driver answers.                                                     *)
SendResponse(c, form, join, lost) ==
  LET d   == Down(c.conn)
      msg == IF Known(call[c].path)
             THEN Marshal(MethodOutput(call[c].path.rpc), call[c].alt) ELSE {}
      p   == Payloads(form, c.sid, encoded[d] + 1, ResponseHeaders, msg,
                      <<Headers(c.sid, TRUE, encoded[d] + 2, Trailers)>>)
  IN /\ call[c].answer = "none"
     /\ Budget(Cost(form # "plain") + Cost(lost # {}))
     /\ Transmit(d, p, join, lost)
     /\ encoded' = [encoded EXCEPT ![d] = @ + (IF form = "failed" THEN 1 ELSE 2)]
     /\ call' = [call EXCEPT ![c].answer = form, ![c].end = Len(capture')]
     /\ UNCHANGED <<phase, rf, rs, rpcs, logs>>

(* Frames that belong to no message: WINDOW_UPDATE, PING, SETTINGS, RST.   *)
SendOther(d, sid) ==
  /\ phase = "capture" /\ encoded[d] > 0
  /\ Budget(1)
  /\ Transmit(d, << <<Other(sid)>> >>, FALSE, {})
  /\ UNCHANGED <<call, encoded, phase, rf, rs, rpcs, logs>>

(* A bare acknowledgement: a packet without a payload.                     *)
SendAck(d) ==
  /\ phase = "capture" /\ encoded[d] > 0
  /\ Budget(1)
  /\ Transmit(d, << <<>> >>, FALSE, {})
  /\ UNCHANGED <<call, encoded, phase, rf, rs, rpcs, logs>>

(* TCP sends a packet again, and the capture sees both.                    *)
Retransmit(i) ==
  /\ phase = "capture"
  /\ Budget(1)
  /\ capture' = Append(capture, [capture[i] EXCEPT !.time = Len(capture) + 1])
  /\ disturbed' = disturbed \cup {<<capture[i].dir, "repeated">>}
  /\ UNCHANGED <<call, encoded, phase, rf, rs, rpcs, logs>>

-----------------------------------------------------------------------------
(* pcap.go.  The identifier of a direction is its addresses and ports      *)
(* written one after the other, with nothing between them.                 *)
srcdstIdentifier(src, dst) == src[1] \o dst[1] \o src[2] \o dst[2]

(* parsePacket gives nothing for a packet that is not IPv4 or is empty.    *)
parsePacket(p) == Ends[p.dir[1]].v4 /\ p.payload # <<>>

parsePackets ==
  LET id(p) == srcdstIdentifier(Source(p.dir), Target(p.dir))
      kept  == SelectSeq(capture, parsePacket)
      of(i) == SelectSeq(kept, LAMBDA p : id(p) = i)
  IN [i \in {id(p) : p \in Range(kept)} |->
        [src |-> Source(of(i)[1].dir), dst |-> Target(of(i)[1].dir), frames |-> of(i)]]

(* The capture ends and the tracer is run on the file.                     *)
ParsePackets ==
  /\ phase = "capture"
  /\ phase' = "trace" /\ rf' = parsePackets
  /\ UNCHANGED <<call, encoded, capture, odd, disturbed, rs, rpcs, logs>>

-----------------------------------------------------------------------------
(* http2.go: framesToStreams.                                              *)

\* Mutant: the preface is left in the packet.
FramesOfRaw(p) ==
  [i \in DOMAIN p.payload |-> [frame |-> p.payload[i], first |-> i = 1, time |-> p.time]]

(* The frames of a packet, without a preface that starts it; "first" marks *)
(* where a new Framer starts to read.                                      *)
FramesOf(p) ==
  LET fs == IF p.payload[1].type = "MAGIC" THEN Tail(p.payload) ELSE p.payload
  IN [i \in DOMAIN fs |-> [frame |-> fs[i], first |-> i = 1, time |-> p.time]]

(* ReadFrame fails on an incomplete frame, on a preface, on a CONTINUATION *)
(* that follows no open header block, and on anything else that does.      *)
Readable(open, f) ==
  /\ f.type \notin {"PART", "MAGIC"}
  /\ (f.type = "CONTINUATION") = (open # 0)
  /\ open # 0 => f.sid = open

(* DecodeFull: out of order, an error, the fields, or someone else's.      *)
DecodeFull(next, f, garble) ==
  IF f.n = next THEN [err |-> FALSE, fields |-> f.fields, next |-> next + 1]
  ELSE [err |-> garble.err, next |-> 0,
        fields |-> IF garble.own THEN f.fields ELSE garble.fields]

Garbles(packets) ==
  LET seen == {f.fields : f \in UNION {Range(p.payload) : p \in Range(packets)}}
  IN [err : {FALSE}, own : {FALSE}, fields : seen]
     \cup [err : BOOLEAN, own : {TRUE}, fields : {Nothing}]

NoStream == [ended |-> TRUE, index |-> 0, frames |-> <<>>, time |-> 0]

(* One turn of the loop over the frames.                                   *)
ReadFrame(acc, e, garble) ==
  LET f    == e.frame
      open == IF e.first THEN 0 ELSE acc.open
      si   == IF f.sid \in DOMAIN acc.infos THEN acc.infos[f.sid] ELSE NoStream
      put(x) == [acc EXCEPT !.infos = (f.sid :> x) @@ @, !.open = 0]
      added  == [si EXCEPT !.frames = Append(@, [type |-> f.type, body |-> f.body,
                                                 fields |-> Nothing]),
                           !.time = e.time]
      (* The header block at index is complete: decode it. *)
      decoded(x) ==
        LET d == DecodeFull(acc.next, f, garble)
        IN IF d.err THEN [acc EXCEPT !.fatal = TRUE]
           ELSE [put([x EXCEPT !.frames[x.index].fields = d.fields])
                   EXCEPT !.next = d.next]
      headers == [added EXCEPT !.ended = f.end, !.index = Len(added.frames)]
  IN IF acc.fatal THEN acc
     ELSE IF ~Readable(open, f) THEN [acc EXCEPT !.fatal = TRUE]
     ELSE CASE f.type = "DATA" -> put(added)
            [] f.type = "HEADERS" /\ f.end -> decoded(headers)
            [] f.type = "HEADERS" /\ ~f.end -> [put(headers) EXCEPT !.open = f.sid]
            [] f.type = "CONTINUATION" /\ ~si.ended ->
                 decoded([si EXCEPT !.ended = f.end, !.time = e.time])
            [] OTHER -> put(si)

framesToStreams(packets, garble) ==
  LET acc == FoldLeft(LAMBDA a, e : ReadFrame(a, e, garble),
                      [infos |-> Nothing, next |-> 1, open |-> 0, fatal |-> FALSE],
                      FlattenSeq([i \in DOMAIN packets |-> FramesOf(packets[i])]))
      some == {sid \in DOMAIN acc.infos : acc.infos[sid].frames # <<>>}
  IN [fatal |-> acc.fatal,
      smap |-> [sid \in some |-> [frames |-> acc.infos[sid].frames,
                                  time |-> acc.infos[sid].time]]]

StreamsOf(packets) == {framesToStreams(packets, g) : g \in Garbles(packets)}

(* extractStreams: the next identifier of the map, in any order.           *)
ExtractStreams(id) ==
  LET x    == rf[id]
      rest == [i \in DOMAIN rf \ {id} |-> rf[i]]
      ba   == srcdstIdentifier(x.dst, x.src)
  IN /\ phase = "trace" /\ id \in DOMAIN rf
     /\ IF ba \notin DOMAIN rest
        THEN rf' = rest /\ UNCHANGED <<phase, rs>>
        ELSE \E p \in StreamsOf(x.frames), q \in StreamsOf(rest[ba].frames) :
               /\ rf' = [i \in DOMAIN rest \ {ba} |-> rest[i]]
               /\ IF p.fatal \/ q.fatal
                  THEN phase' = "fatal" /\ rs' = rs
                  ELSE /\ rs' = Append(rs, [a |-> x.src, b |-> x.dst,
                                            ab |-> p.smap, ba |-> q.smap])
                       /\ UNCHANGED phase
     /\ UNCHANGED <<call, encoded, capture, odd, disturbed, rpcs, logs>>

-----------------------------------------------------------------------------
(* csi.go.  The cases of its two switches are the same; each names the     *)
(* struct after the call.                                                  *)
Cases == [
   Identity |-> {"GetPluginInfo", "GetPluginCapabilities", "Probe"},
   Controller |-> {"CreateVolume", "DeleteVolume", "ControllerPublishVolume",
      "ControllerUnpublishVolume", "ValidateVolumeCapabilities", "ListVolumes",
      "GetCapacity", "ControllerGetCapabilities", "CreateSnapshot",
      "DeleteSnapshot", "ListSnapshots", "ControllerExpandVolume",
      "ControllerGetVolume"},
   Node |-> {"NodeStageVolume", "NodeUnstageVolume", "NodePublishVolume",
      "NodeUnpublishVolume", "NodeGetVolumeStats", "NodeExpandVolume",
      "NodeGetCapabilities", "NodeGetInfo"}]

\* Mutant: the service of the path is not looked at.
HasCaseAnyService(service, rpc) == \E s \in DOMAIN Cases : rpc \in Cases[s]

HasCase(service, rpc) == service \in DOMAIN Cases /\ rpc \in Cases[service]

csiRequestStruct(p) == IF HasCase(p.service, p.rpc) THEN p.rpc \o "Request" ELSE "nil"
csiResponseStruct(p) == IF HasCase(p.service, p.rpc) THEN p.rpc \o "Response" ELSE "nil"

(* proto.Unmarshal into the struct, if there is one; its error is fatal.   *)
parseCSI(t, body) ==
  [fatal |-> t # "nil" /\ ~body.valid,
   struct |-> IF t = "nil" THEN {} ELSE Unmarshal(t, body.msg)]

(* Only a whole uncompressed message in one frame is parsed.               *)
parseGRPCMessage(body) == body.flag = 0 /\ body.whole

-----------------------------------------------------------------------------
(* grpc.go.                                                                *)
findField(fields, name) == IF name \in DOMAIN fields THEN fields[name] ELSE ""

AllData(frames) == \A i \in DOMAIN frames : frames[i].type = "DATA"

isGRPCRequest(s) ==
  /\ Len(s.frames) >= 2
  /\ s.frames[1].type = "HEADERS" /\ AllData(Tail(s.frames))
  /\ LET h == s.frames[1].fields
     IN findField(h, ":method") = "POST" /\ findField(h, ":scheme") = "http"
        /\ findField(h, "content-type") = "application/grpc"

isGRPCResponse(s) ==
  /\ Len(s.frames) >= 3
  /\ s.frames[1].type = "HEADERS" /\ AllData(Tail(Front(s.frames)))
  /\ Last(s.frames).type = "HEADERS"
  /\ LET h == s.frames[1].fields
     IN findField(h, ":status") = "200"
        /\ findField(h, "content-type") = "application/grpc"

(* As many characters are cut as "/csi.v1." has, whatever they are: a      *)
(* package with a name of that length keeps its service, any other names   *)
(* none.  A path that is shorter, or has its last slash in what is cut,    *)
(* panics.                                                                 *)
Panicking == {"short", "early"}
parseRPCPath(path) ==
  IF path.pkg \in {"csi.v1", "csi.v0"} THEN path
  ELSE [path EXCEPT !.service = "", !.rpc = ""]

(* The messages are checked before the path is known to be one of CSI's.   *)
parseGRPC(req, rep, client) ==
  LET h    == req.frames[1].fields
      path == findField(h, ":path")
      what == parseRPCPath(path)
      reqT == csiRequestStruct(what)
      repT == csiResponseStruct(what)
      reqM == parseCSI(reqT, req.frames[2].body)
      repM == parseCSI(repT, rep.frames[2].body)
  IN [fatal |-> \/ path.pkg \in Panicking
                \/ ~parseGRPCMessage(req.frames[2].body)
                \/ ~parseGRPCMessage(rep.frames[2].body)
                \/ reqM.fatal \/ repM.fatal,
      ok |-> reqT # "nil" /\ repT # "nil",
      rpc |-> [client |-> client, name |-> findField(h, ":authority"), path |-> path,
               request |-> reqM.struct, response |-> repM.struct,
               start |-> req.time, end |-> rep.time]]

(* What the streams of one id give: nothing or one call.                   *)
parseStream(s, sid) ==
  LET x == s.ab[sid]
      y == s.ba[sid]
  IN IF isGRPCRequest(x) /\ isGRPCResponse(y) THEN {parseGRPC(x, y, s.a)}
     ELSE IF isGRPCRequest(y) /\ isGRPCResponse(x) THEN {parseGRPC(y, x, s.b)}
     ELSE {}

(* parseRPCs, once extractStreams is done: the next pair of hosts.         *)
ParseRPCs ==
  LET s    == Head(rs)
      sids == SetToSeq(DOMAIN s.ab \cap DOMAIN s.ba)
      got  == FlattenSeq([i \in DOMAIN sids |-> SetToSeq(parseStream(s, sids[i]))])
      good == SelectSeq(got, LAMBDA g : g.ok)
  IN /\ phase = "trace" /\ rf = Nothing /\ rs # <<>>
     /\ rs' = Tail(rs)
     /\ IF \E g \in Range(got) : g.fatal
        THEN phase' = "fatal" /\ rpcs' = rpcs
        ELSE /\ rpcs' = rpcs \o [i \in DOMAIN good |-> good[i].rpc]
             /\ UNCHANGED phase
     /\ UNCHANGED <<call, encoded, capture, odd, disturbed, rf, logs>>

-----------------------------------------------------------------------------
(* timing.go and tologs.go.                                                *)
\* Mutant: by the time of the request.
sortRPCsByStart(seq) ==
  {[i \in DOMAIN seq |-> seq[pi[i]]] :
     pi \in {q \in Permutations(DOMAIN seq) :
               \A i \in 1..(Len(seq) - 1) : seq[q[i]].start <= seq[q[i + 1]].start}}

sortRPCs(seq) ==
  {[i \in DOMAIN seq |-> seq[pi[i]]] :
     pi \in {q \in Permutations(DOMAIN seq) :
               \A i \in 1..(Len(seq) - 1) : seq[q[i]].end <= seq[q[i + 1]].end}}

processRPC(r) ==
  [action |-> r.path.rpc, path |-> r.path, name |-> r.name, agent |-> r.client,
   start |-> r.start, end |-> r.end, request |-> r.request, response |-> r.response]

SortAndLog ==
  /\ phase = "trace" /\ rf = Nothing /\ rs = <<>>
  /\ \E sorted \in sortRPCs(rpcs) :
       /\ rpcs' = sorted
       /\ logs' = [i \in DOMAIN sorted |-> processRPC(sorted[i])]
  /\ phase' = "done"
  /\ UNCHANGED <<call, encoded, capture, odd, disturbed, rf, rs>>

-----------------------------------------------------------------------------
Init ==
  /\ call = Nothing /\ encoded = [d \in Directions |-> 0]
  /\ capture = <<>> /\ odd = 0 /\ disturbed = {}
  /\ phase = "capture" /\ rf = Nothing /\ rs = <<>> /\ rpcs = <<>> /\ logs = <<>>

Next ==
  \/ /\ phase = "capture" /\ Cardinality(DOMAIN call) < MaxCalls
     /\ \E c \in Calls \ DOMAIN call, s \in Shapes, join \in BOOLEAN, lost \in Losses :
          SendRequest(c, s, join, lost)
  \/ /\ phase = "capture"
     /\ \E c \in DOMAIN call, form \in Forms \cup {"trailing", "failed"},
           join \in BOOLEAN, lost \in Losses :
          SendResponse(c, form, join, lost)
  \/ \E d \in Directions, sid \in {0} \cup {c.sid : c \in Calls} : SendOther(d, sid)
  \/ \E d \in Directions : SendAck(d)
  \/ \E i \in DOMAIN capture : Retransmit(i)
  \/ ParsePackets
  \/ \E id \in DOMAIN rf : ExtractStreams(id)
  \/ ParseRPCs
  \/ SortAndLog

Spec == Init /\ [][Next]_vars

-----------------------------------------------------------------------------
(* Properties.                                                             *)

(* The connections of which the capture has every packet once, and whose   *)
(* identifiers no other connection shares.                                 *)
Ids(k) == {srcdstIdentifier(Source(d), Target(d)) : d \in {Up(k), Down(k)}}
Active == {c.conn : c \in DOMAIN call}
Ambiguous(k) == \E j \in Active \ {k} : Ids(j) \cap Ids(k) # {}
Calm(k) == {d \in {Up(k), Down(k)} : <<d, "lost">> \in disturbed
                                     \/ <<d, "repeated">> \in disturbed} = {}
           /\ ~Ambiguous(k)

(* The record a successful call should leave.                              *)
Succeeded(c) == call[c].answer \notin {"none", "failed"}
Reported(c) == Succeeded(c) /\ Known(call[c].path) /\ Ends[c.conn].v4
Expected(c) ==
  LET x == call[c]
  IN [action |-> x.path.rpc, path |-> x.path, name |-> c.conn,
      agent |-> Client(c.conn), start |-> x.start, end |-> x.end,
      request |-> Fields(MethodInput(x.path.rpc), x.alt),
      response |-> Fields(MethodOutput(x.path.rpc), x.alt)]

(* When the tracer finishes, every successful CSI call of an IPv4          *)
(* connection that was captured whole is in the result once, with the      *)
(* client that made it, the times of its last request and response packets *)
(* and the messages of that call, read with their own structs:             *)
(* interleaved streams, joined packets and frames of no message do not     *)
(* hide one.  Nothing else is reported of such a connection: no failed     *)
(* call, no half of one taken for the half of another, and of other        *)
(* packages only the calls of one whose name is as long as "csi.v1" and    *)
(* whose services and methods are CSI's, an older CSI (framesToStreams,    *)
(* parseRPCs, isGRPCResponse, parseRPCPath, csi.go).                       *)
LogsExact ==
  /\ phase = "done" =>
       \A c \in {k \in DOMAIN call : Calm(k.conn) /\ Reported(k)} :
         Cardinality({i \in DOMAIN logs : logs[i] = Expected(c)})
           = Cardinality({k \in DOMAIN call : Reported(k) /\ Expected(k) = Expected(c)})
  /\ \A i \in DOMAIN logs : \A k \in Active :
       Calm(k) /\ logs[i].agent = Client(k)
         => \E c \in DOMAIN call : c.conn = k /\ Reported(c) /\ logs[i] = Expected(c)

(* The result is in the order of the responses, and no call ends before it *)
(* starts, whatever the capture lost, unless the capture has a packet of   *)
(* the client twice (a request's DATA frame seen again after the answer    *)
(* moves its time) or the client shares an identifier with another         *)
(* (sortRPCs; the time of a stream is that of its last message frame, not  *)
(* of a later WINDOW_UPDATE).                                              *)
TimesOrdered ==
  /\ \A i \in DOMAIN logs :
       \/ logs[i].start <= logs[i].end
       \/ \E k \in Active :
            /\ logs[i].agent = Client(k)
            /\ Ambiguous(k) \/ <<Up(k), "repeated">> \in disturbed
  /\ \A i, j \in DOMAIN logs : i < j => logs[i].end <= logs[j].end

(* The tracer gives the whole capture up (log.Fatal or a panic) only for   *)
(* one of the things it cannot read: a frame that crosses packets, a       *)
(* header block continued in another packet, a message that is compressed, *)
(* malformed or takes two DATA frames, a path that is shorter than the CSI *)
(* prefix or has its last slash within that length, packets the capture    *)
(* lost or repeated, or two connections with one identifier.               *)
FatalCause ==
  phase = "fatal" =>
    \/ disturbed # {}
    \/ \E k \in Active : Ambiguous(k)
    \/ \E c \in DOMAIN call :
         \/ {call[c].form, call[c].answer}
              \cap {"cut", "apart", "split", "compressed", "malformed"} # {}
         \/ call[c].path.pkg \in Panicking

============================================================================
