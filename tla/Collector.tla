------------------------------ MODULE Collector ------------------------------
(***************************************************************************)
(* Resubmitting a report that is in a file (ooni/collector_client.cpp and  *)
(* collector_client_impl.hpp): a connection to the collector, a report     *)
(* created from the first line, an update for each line, and the report    *)
(* closed at the end of the file.  The collector is external; a request    *)
(* that fails may have been served, when only its answer was lost.         *)
(***************************************************************************)
EXTENDS Naturals, Sequences

CONSTANT MaxLines \* bound: how many lines the file has

VARIABLES
  pc,      \* the callback that is awaited
  open,    \* connections held
  calls,   \* how many times callback was called
  failure, \* the error that it is called with
  lines,   \* the file: a line is good, no JSON, or no valid entry
  torn,    \* whether the last line lacks its newline
  line,    \* how many lines were read
  report,  \* external: the report of the collector
  stored   \* external: the lines that the collector stored

vars == <<pc, open, calls, failure, lines, torn, line, report, stored>>

file == <<lines, torn>>
collector == <<report, stored>>

Kinds == {"good", "json", "invalid"}

Init ==
  /\ pc = "start" /\ open = 0 /\ calls = 0 /\ failure = "none"
  /\ lines = <<>> /\ torn = FALSE /\ line = 0
  /\ report = "none" /\ stored = <<>>

\* Lines that end, which are the ones that are read: a last line without its
\* newline sets eof(), and what was read of it is dropped.
Complete == IF torn THEN Len(lines) - 1 ELSE Len(lines)

\* get_next_entry(), when it can read the file.
NextEntry ==
  CASE line >= Complete -> "eof"
    [] line < Complete /\ lines[line + 1] = "json" -> "json"
    [] OTHER -> "entry"

CallBack(err) == pc' = "done" /\ calls' = calls + 1 /\ failure' = err

\* txp->close(): the callback comes when the connection is closed.
Close(err) == pc' = "closing" /\ failure' = err

-----------------------------------------------------------------------------
\* submit_report_impl(): the file cannot be opened, or its first line is no entry.
OpenFails ==
  /\ pc = "start"
  /\ CallBack("open")
  /\ UNCHANGED <<open, file, line, collector>>

OpenFile ==
  /\ pc = "start" /\ pc' = "first"
  /\ \E n \in 0..MaxLines : lines' \in [1..n -> Kinds]
  /\ torn' \in IF lines' = <<>> THEN {FALSE} ELSE BOOLEAN
  /\ UNCHANGED <<open, calls, failure, line, collector>>

FirstFails ==
  /\ pc = "first"
  /\ \E err \in ({"io"} \cup {NextEntry}) \ {"entry"} : CallBack(err)
  /\ UNCHANGED <<open, file, line, collector>>

ReadFirst ==
  /\ pc = "first" /\ NextEntry = "entry"
  /\ pc' = "connect" /\ line' = 1
  /\ UNCHANGED <<open, calls, failure, file, collector>>

ConnectFails ==
  /\ pc = "connect" /\ CallBack("connect")
  /\ UNCHANGED <<open, file, line, collector>>

Connect ==
  /\ pc = "connect"
  /\ pc' = "create" /\ open' = open + 1
  /\ UNCHANGED <<calls, failure, file, line, collector>>

\* The entry is not valid, or the request fails; it may have been served.
CreateFails ==
  /\ pc = "create"
  /\ Close("create")
  /\ report' \in IF lines[1] = "good" THEN {"none", "open"} ELSE {"none"}
  /\ UNCHANGED <<open, calls, file, line, stored>>

Create ==
  /\ pc = "create" /\ lines[1] = "good"
  /\ pc' = "update" /\ report' = "open"
  /\ UNCHANGED <<open, calls, failure, file, line, stored>>

Store == stored' = Append(stored, line)

\* Mutant: the error of an update is only logged.
UpdateGoesOn ==
  /\ pc = "update"
  /\ pc' = "next"
  /\ (lines[line] = "good" /\ Store) \/ UNCHANGED stored
  /\ UNCHANGED <<open, calls, failure, file, line, report>>

UpdateFails ==
  /\ pc = "update"
  /\ Close("update")
  /\ (lines[line] = "good" /\ Store) \/ UNCHANGED stored
  /\ UNCHANGED <<open, calls, file, line, report>>

Update ==
  /\ pc = "update" /\ lines[line] = "good"
  /\ pc' = "next" /\ Store
  /\ UNCHANGED <<open, calls, failure, file, line, report>>

\* After call_soon(): what comes next in the file.
ReadFails ==
  /\ pc = "next"
  /\ \E err \in ({"io"} \cup {NextEntry}) \ {"entry", "eof"} : Close(err)
  /\ UNCHANGED <<open, calls, file, line, collector>>

ReadNext ==
  /\ pc = "next" /\ NextEntry = "entry"
  /\ pc' = "update" /\ line' = line + 1
  /\ UNCHANGED <<open, calls, failure, file, collector>>

ReadEof ==
  /\ pc = "next" /\ NextEntry = "eof"
  /\ pc' = "finish"
  /\ UNCHANGED <<open, calls, failure, file, line, collector>>

\* close_report(): whether it succeeds or not, the callback has its error.
CloseReport ==
  /\ pc = "finish"
  /\ \/ Close("none") /\ report' = "closed"
     \/ Close("close") /\ report' \in {"open", "closed"}
  /\ UNCHANGED <<open, calls, file, line, stored>>

Closed ==
  /\ pc = "closing"
  /\ open' = open - 1 /\ CallBack(failure)
  /\ UNCHANGED <<file, line, collector>>

Next ==
  \/ OpenFails \/ OpenFile \/ FirstFails \/ ReadFirst \/ ConnectFails \/ Connect
  \/ CreateFails \/ Create \/ UpdateFails \/ Update \/ ReadFails \/ ReadNext \/ ReadEof
  \/ CloseReport \/ Closed

Spec == Init /\ [][Next]_vars

-----------------------------------------------------------------------------
TypeOK ==
  /\ open \in 0..1 /\ calls \in 0..1
  /\ lines \in Seq(Kinds) /\ torn \in BOOLEAN /\ line \in 0..Len(lines)
  /\ report \in {"none", "open", "closed"} /\ stored \in Seq(1..MaxLines)

\* The collector stores the lines of the file in order and each one once; a report
\* that was closed lacks none of them, and a success says that it was closed.
ReportAccounted ==
  /\ stored = [i \in 1..Len(stored) |-> i]
  /\ report = "closed" => Len(stored) = Complete
  /\ calls = 1 /\ failure = "none" => report = "closed"
===============================================================================
