------------------------------ MODULE LogFeeds ------------------------------
(***************************************************************************)
(* The two ways the audit log reaches the object timing parser.            *)
(*                                                                         *)
(* tail (util/analysis/objecttiming/tail.go) follows the log file of the   *)
(* API server through file system events while it is written, rotated and  *)
(* truncated.  A line is two bytes and a newline here, so that it can be   *)
(* read in part and so that the reader's position, which does not count    *)
(* the newlines, falls behind its offset as it does in the code.           *)
(*                                                                         *)
(* QueryES and GetAuditLogs (pkg/utils/es.go) page through the records     *)
(* that Elasticsearch holds for a range of time, sorted by time, while     *)
(* late records still arrive.  A behaviour exercises one of the two.       *)
(***************************************************************************)
EXTENDS Integers, Sequences, FiniteSets, SequencesExt

CONSTANTS
    MaxLines,       \* lines written to the log file
    MaxRotations, MaxTruncations,
    Times,          \* timestamps of the records: a set of numbers
    MaxRecords,     \* records in Elasticsearch
    PageSize,       \* query["size"]
    MaxErrors       \* searches that fail

ASSUME FeedsAssumption ==
    /\ MaxLines \in Nat /\ MaxRotations \in Nat /\ MaxTruncations \in Nat
    /\ Times \subseteq Nat /\ MaxRecords \in Nat /\ MaxErrors \in Nat
    /\ PageSize \in Nat \ {0}

VARIABLES
    source,     \* "file", "bare" (a file named without its directory) or "es"
    \* the log file
    files,      \* contents of the files that had the name, the last one has it now
    written,    \* lines begun so far
    half,       \* the last line lacks its end
    split,      \* history: the lines that were written in two parts
    events,     \* file system events the reader has not received
    watching,   \* watcher.Add has returned
    truncated,  \* the current file was truncated behind the reader's back
    cuts,       \* truncations so far
    incidents,  \* history: what happened that the reader does not handle
    \* the reader
    pc, fd, offset, curReadPos,
    delivered,  \* what the callback was given
    \* the query
    index,      \* the records Elasticsearch holds, by time, then arrival
    qpc, lastTS, results, errors,
    ends        \* history: the last time of each page

file   == <<files, written, half, split, events, watching, truncated, cuts, incidents>>
reader == <<pc, fd, offset, curReadPos, delivered>>
query  == <<index, qpc, lastTS, results, errors, ends>>
vars   == <<source, file, reader, query>>

Init ==
    /\ source \in {"file", "bare", "es"}
    /\ files = << <<>> >> /\ written = 0 /\ half = FALSE /\ split = {}
    /\ events = <<>> /\ watching = FALSE /\ truncated = FALSE /\ cuts = 0 /\ incidents = {}
    /\ pc = "open" /\ fd = 0 /\ offset = 0 /\ curReadPos = 0 /\ delivered = <<>>
    /\ index = <<>> /\ qpc = "search" /\ lastTS = -1
    /\ results = <<>> /\ errors = 0 /\ ends = {}
-----------------------------------------------------------------------------
(***************************************************************************)
(* The writer of the log and the file system.                              *)
(***************************************************************************)
Byte(line, part) == [line |-> line, part |-> part]

NewLine == 3

current == files[Len(files)]

\* An event for the reader; identical events in a row may arrive as one.
Notify(event) ==
    \/ watching /\ events' = Append(events, event)
    \/ ~watching /\ UNCHANGED events
    \/ events # <<>> /\ Last(events) = event /\ UNCHANGED events

Incident(name, happened) == IF happened THEN {name} ELSE {}

Write(bytes) ==
    /\ files' = [files EXCEPT ![Len(files)] = @ \o bytes]
    /\ Notify("write")
    /\ incidents' = incidents
          \cup Incident("unwatched", ~watching /\ pc = "wait")
          \cup Incident("refilled", truncated /\ Len(current \o bytes) >= curReadPos)
    /\ UNCHANGED <<source, watching, truncated, cuts, reader, query>>

\* tail runs.
Tailing == source # "es" /\ pc # "done"

WriteLine ==
    /\ Tailing /\ ~half /\ written < MaxLines
    /\ written' = written + 1
    /\ Write([p \in 1..3 |-> Byte(written + 1, p)])
    /\ UNCHANGED <<half, split>>

\* A line that a reader can see in part.
WriteHalf ==
    /\ Tailing /\ ~half /\ written < MaxLines
    /\ written' = written + 1 /\ half' = TRUE /\ split' = split \cup {written + 1}
    /\ Write(<<Byte(written + 1, 1)>>)

WriteRest ==
    /\ Tailing /\ half
    /\ half' = FALSE
    /\ Write(<<Byte(written, 2), Byte(written, NewLine)>>)
    /\ UNCHANGED <<written, split>>

\* The file is renamed and a new one is created under its name.
Rotate ==
    /\ Tailing /\ ~half /\ Len(files) <= MaxRotations
    /\ files' = Append(files, <<>>)
    /\ Notify("create")
    /\ truncated' = FALSE
    /\ incidents' = incidents
          \cup Incident("early", pc = "open")
          \cup Incident("missed", ~watching)
          \cup Incident("overlap", Contains(events, "create") \/ pc = "stat")
          \cup Incident("refilled", truncated)
    /\ UNCHANGED <<source, written, half, split, watching, cuts, reader, query>>

\* The file is copied and emptied, at any time but within a line: one write
\* call adds a line, which a reader may see in part and a truncation may not.
Truncate ==
    /\ Tailing /\ ~half /\ current # <<>>
    /\ cuts < MaxTruncations
    /\ cuts' = cuts + 1
    /\ files' = [files EXCEPT ![Len(files)] = <<>>]
    /\ Notify("write")
    /\ truncated' = TRUE
    /\ incidents' = incidents
          \cup Incident("unread", fd # Len(files) \/ truncated \/ offset < Len(current))
    /\ UNCHANGED <<source, written, half, split, watching, reader, query>>

\* readLogFile: watcher.Add, while tail is already running.
Watch ==
    /\ source # "es" /\ ~watching
    /\ watching' = TRUE
    /\ UNCHANGED <<source, files, written, half, split, events, truncated, cuts, incidents, reader, query>>
-----------------------------------------------------------------------------
(***************************************************************************)
(* tail: the reader.                                                       *)
(***************************************************************************)

\* The lines between the offset and the end of the file, as the number of
\* the line and how many bytes of it were read.
Ends(bytes, from) == {i \in from + 1 .. Len(bytes) : bytes[i].part = NewLine}

NthEnd(bytes, from, n) ==
    CHOOSE i \in Ends(bytes, from) : Cardinality({j \in Ends(bytes, from) : j <= i}) = n

LineEnding(bytes, from, i) ==
    LET before == {from} \cup {j \in Ends(bytes, from) : j < i}
    IN  [line |-> bytes[i].line, len |-> i - 1 - Max(before)]

LinesFrom(bytes, from) ==
    [n \in 1 .. Cardinality(Ends(bytes, from)) |->
        LineEnding(bytes, from, NthEnd(bytes, from, n))]

\* readLines: everything up to the end of the file is consumed, and the bytes
\* after the last newline are dropped.  curReadPos counts the bytes of the
\* lines without their newlines.
readLines(from, pos) ==
    LET new == LinesFrom(files[fd], from)
        end == Max({from} \cup Ends(files[fd], from))
    IN  /\ delivered' = delivered \o new
        /\ offset' = Max({from, Len(files[fd])})
        /\ curReadPos' = pos + (end - from) - Len(new)

Open ==
    /\ source # "es" /\ pc = "open"
    /\ fd' = Len(files)
    /\ pc' = "read"
    /\ UNCHANGED <<source, file, offset, curReadPos, delivered, query>>

\* Existing lines first.
ReadExisting ==
    /\ pc = "read"
    /\ readLines(0, 0)
    /\ pc' = "wait"
    /\ UNCHANGED <<source, file, fd, query>>

\* event.Name == filename: the watcher puts the directory before the name of
\* the file, "." if the path has none, and then no event has the name.
Receive(event) ==
    /\ source = "file" /\ pc = "wait" /\ events # <<>> /\ Head(events) = event
    /\ events' = Tail(events)
    /\ UNCHANGED <<source, files, written, half, split, watching, cuts, incidents, query>>

IgnoreEvent ==
    /\ source = "bare" /\ pc = "wait" /\ events # <<>>
    /\ events' = Tail(events)
    /\ incidents' = incidents \cup {"ignored"}
    /\ UNCHANGED <<source, files, written, half, split, watching, truncated, cuts, reader, query>>

\* Mutant: the reader stays with the file it has.
HandleCreateKeepsFile ==
    /\ Receive("create")
    /\ UNCHANGED <<truncated, pc, fd, offset, curReadPos, delivered>>

\* A new file under the name: reopened, not read yet.
HandleCreate ==
    /\ Receive("create")
    /\ fd' = Len(files) /\ offset' = 0 /\ curReadPos' = 0
    /\ UNCHANGED <<truncated, pc, delivered>>

HandleWrite ==
    /\ Receive("write")
    /\ readLines(offset, curReadPos)
    /\ pc' = "stat"
    /\ UNCHANGED <<truncated, fd>>

\* Mutant: a truncated file is not read from the start.
StatNoSeek ==
    /\ pc = "stat"
    /\ pc' = "wait"
    /\ truncated' = FALSE
    /\ UNCHANGED <<offset, curReadPos, delivered>>
    /\ UNCHANGED <<source, files, written, half, split, events, watching, cuts, incidents, fd>>
    /\ UNCHANGED query

\* A file shorter than what was read of it was truncated.
Stat ==
    /\ pc = "stat"
    /\ pc' = "wait"
    /\ IF Len(files[fd]) < curReadPos
       THEN readLines(0, 0) /\ truncated' = FALSE
       ELSE UNCHANGED <<offset, curReadPos, delivered, truncated>>
    /\ UNCHANGED <<source, files, written, half, split, events, watching, cuts, incidents, fd>>
    /\ UNCHANGED query

\* SIGINT ends the loop.  An error of os.Open, of a read, of Stat, of the
\* watcher or of watcher.Add ends readLogFile wherever tail is.
Stop ==
    /\ Tailing
    /\ pc' = "done"
    /\ UNCHANGED <<source, file, fd, offset, curReadPos, delivered, query>>
-----------------------------------------------------------------------------
(***************************************************************************)
(* QueryES.                                                                *)
(***************************************************************************)

\* How many records have a time up to t.
UpTo(t) == Cardinality({i \in DOMAIN index : index[i].ts <= t})

\* A record arrives; Elasticsearch keeps them sorted by time.
Ingest ==
    /\ source = "es" /\ Len(index) < MaxRecords /\ qpc = "search"
    /\ \E t \in Times :
          index' = InsertAt(index, UpTo(t) + 1,
                            [ts |-> t, id |-> Len(index) + 1, late |-> lastTS # -1])
    /\ UNCHANGED <<source, file, reader, qpc, lastTS, results, errors, ends>>

\* search_after holds the last time only: the hits come after that time.
Hits == SubSeq(index, UpTo(lastTS) + 1, Len(index))

\* Mutant: a page that is not full is taken for the empty one.
PageFull == IF Len(Hits) < PageSize THEN <<>> ELSE SubSeq(Hits, 1, PageSize)

Page == SubSeq(Hits, 1, IF Len(Hits) < PageSize THEN Len(Hits) ELSE PageSize)

Search ==
    /\ source = "es" /\ qpc = "search"
    /\ \/ /\ Page # <<>>
          /\ results' = results \o Page
          /\ lastTS' = Last(Page).ts
          /\ ends' = ends \cup {Last(Page).ts}
          /\ UNCHANGED qpc
       \/ /\ Page = <<>>
          /\ qpc' = "returned"
          /\ UNCHANGED <<results, lastTS, ends>>
    /\ UNCHANGED <<source, file, reader, index, errors>>

\* A transport error is returned.  For an error response err is nil: the
\* records so far are returned as if they were all.
SearchFails ==
    /\ source = "es" /\ qpc = "search" /\ errors < MaxErrors
    /\ errors' = errors + 1
    /\ qpc' \in {"error", "returned"}
    /\ UNCHANGED <<source, file, reader, index, lastTS, results, ends>>

\* What GetAuditLogs returns of a query: nothing after an error.
GetAuditLogs == IF qpc = "error" THEN <<>> ELSE results
-----------------------------------------------------------------------------
Writer == WriteLine \/ WriteHalf \/ WriteRest \/ Rotate \/ Truncate

Tail_ == Open \/ ReadExisting \/ HandleCreate \/ HandleWrite \/ IgnoreEvent \/ Stat

Next ==
    \/ Writer \/ Watch \/ Tail_ \/ Stop
    \/ Ingest \/ Search \/ SearchFails

Spec == Init /\ [][Next]_vars

\* The reader and the query make progress, and watcher.Add returns.
FairSpec == Spec /\ WF_vars(Watch) /\ WF_vars(Tail_) /\ WF_vars(Search) /\ WF_vars(WriteRest)
-----------------------------------------------------------------------------
(***************************************************************************)
(* Properties.                                                             *)
(***************************************************************************)

(***************************************************************************)
(* "Accounts for log rotation and file truncation" (tail.go:3): the parser *)
(* gets every line once, in order and in full, except that a line written  *)
(* in two parts may lose its beginning; unless the file was rotated before *)
(* the reader watched it or again before it noticed, was written to before *)
(* it was watched, was truncated while the reader had not read all of it,  *)
(* was filled up again after a truncation, or is named without its         *)
(* directory.                                                              *)
(***************************************************************************)
OnePerLine ==
    incidents = {} =>
        \A i \in DOMAIN delivered :
            delivered[i].line = i /\ (delivered[i].len = 2 \/ i \in split)

(***************************************************************************)
(* Each line that was written is read in the end, unless the reader has    *)
(* stopped, by a signal or an error, or one of the incidents happened.     *)
(***************************************************************************)
CatchesUp ==
    [](written > 0 => <>(\/ incidents # {} \/ pc = "done"
                         \/ Len(delivered) = written))

Ids(s) == {s[i].id : i \in DOMAIN s}

(***************************************************************************)
(* No record is returned twice and the records are in the order of their   *)
(* times, whatever arrives between two pages.  A query that ends with an   *)
(* empty page has returned every record of the range, except those that    *)
(* arrived after the first page and those that have the time of a page's   *)
(* last record (search_after, es.go:28 and :65).                           *)
(***************************************************************************)
PagesComplete ==
    /\ Cardinality(Ids(results)) = Len(results)
    /\ \A i \in 1 .. Len(results) - 1 : results[i].ts <= results[i + 1].ts
    /\ qpc = "returned" /\ errors = 0 =>
          \A i \in DOMAIN index :
              \/ index[i].id \in Ids(GetAuditLogs)
              \/ index[i].late
              \/ index[i].ts \in ends
=============================================================================
