------------------------------ MODULE Reporter ------------------------------
(***************************************************************************)
(* A report with the two reporters that Runnable::open_report() adds: the  *)
(* file, which answers within the call, and the OONI collector, which      *)
(* answers later from the reactor (report/*.cpp).  A request to the        *)
(* collector may fail, or be served and its answer lost.  Report::open(),  *)
(* write_entry() and close() call both at once with mk::parallel() and     *)
(* call back when both have answered (CallbackIsLast in Parallel).         *)
(*                                                                         *)
(* The caller is Runnable: it opens the report, lets several writers       *)
(* submit entries at the same time, and closes it when all have stopped.   *)
(* Calls that failed may be made again, MaxTries times in all: Runnable    *)
(* does not (MaxTries = 1), the comments of BaseReporter say one may.      *)
(***************************************************************************)
EXTENDS Naturals, FiniteSets

CONSTANTS
  Writer,    \* the series of measurements that submit entries
  Main,      \* the part of Runnable that opens and closes the report
  Entry,     \* the entries that are submitted
  NoEntry,   \* prev_entry_ is empty
  MaxTries   \* bound: how often a call is made

ASSUME ReporterAssumption ==
  Main \notin Writer /\ NoEntry \notin Entry /\ MaxTries \in Nat \ {0}

Backend == {"file", "ooni"}
Caller == Writer \union {Main}

VARIABLES
  openned,   \* BaseReporter::openned_
  closed,    \* BaseReporter::closed_
  prev,      \* BaseReporter::prev_entry_
  stream,    \* the state of FileReporter::file
  reportId,  \* OoniReporter::report_id and Report::report_id, 0 when empty
  call,      \* the call of each caller to Report
  phase,     \* how far Runnable is
  left,      \* the entries nobody submitted yet
  created,   \* history: how many reports the collector has opened
  stored,    \* history: what each reporter holds, <<report, entry>>; the file
             \* is its report 0
  acked      \* history: the entries whose write was reported as a success

reporterVars == <<openned, closed, prev, stream, reportId, created, stored>>
vars == <<reporterVars, call, phase, left, acked>>

Idle == [op |-> "none", entry |-> NoEntry, report |-> 0, waiting |-> {}, failed |-> {},
         tries |-> 0]

Init ==
  /\ openned = [r \in Backend |-> FALSE]
  /\ closed = [r \in Backend |-> FALSE]
  /\ prev = [r \in Backend |-> NoEntry]
  /\ stream = "closed"
  /\ reportId = 0 /\ created = 0
  /\ call = [c \in Caller |-> Idle]
  /\ phase = "start"
  /\ left = Entry
  /\ stored = [r \in Backend |-> {}]
  /\ acked = {}

-----------------------------------------------------------------------------
(***************************************************************************)
(* The first part of do_open_(), do_write_entry_() and do_close_(): what a *)
(* reporter answers before it does anything.  "go" lets it proceed.        *)
(***************************************************************************)
Accept(r, op, e) ==
  CASE op = "open" -> IF openned[r] THEN "ok" ELSE "go"
    [] op = "write" -> IF ~openned[r] \/ closed[r] THEN "error"
                       ELSE IF prev[r] = e THEN "ok" ELSE "go"
    [] op = "close" -> IF closed[r] THEN "ok" ELSE "go"

\* OoniReporter needs the identifier that the collector gave it.
OoniAccepts(op, e) ==
  IF Accept("ooni", op, e) = "go" /\ op # "open" /\ reportId = 0
    THEN "error" ELSE Accept("ooni", op, e)

(***************************************************************************)
(* What FileReporter may answer, with the state of its stream afterwards.  *)
(* A stream that failed stays failed until it is opened again, and closing *)
(* a stream that is not open fails.                                        *)
(***************************************************************************)
FileOutcome(op) ==
  CASE op = "open"  -> {<<TRUE, "good">>, <<FALSE, "failed">>}
    [] op = "write" -> IF stream = "good"
                         THEN {<<TRUE, "good">>, <<FALSE, "failed">>}
                         ELSE {<<FALSE, "failed">>}
    [] op = "close" -> IF stream = "good"
                         THEN {<<TRUE, "closed">>, <<FALSE, "failed">>}
                         ELSE {<<FALSE, "failed">>}

(***************************************************************************)
(* The last part of do_open_(), do_write_entry_() and do_close_(): the     *)
(* state of a reporter changes when its operation succeeds.                *)
(***************************************************************************)
Succeed(r, op, e) ==
  /\ openned' = [openned EXCEPT ![r] = @ \/ op = "open"]
  /\ closed' = [closed EXCEPT ![r] = @ \/ op = "close"]
  /\ prev' = [prev EXCEPT ![r] = IF op = "write" THEN e ELSE @]

\* Mutant: the previous entry is saved also when it could not be stored.
FailButRemember(r, op, e) ==
  /\ prev' = [prev EXCEPT ![r] = IF op = "write" THEN e ELSE @]
  /\ UNCHANGED <<openned, closed>>

\* Mutant: a report that could not be opened counts as open.
FailButOpen(r, op, e) ==
  /\ openned' = [openned EXCEPT ![r] = @ \/ op = "open"]
  /\ UNCHANGED <<closed, prev>>

Fail(r, op, e) == UNCHANGED <<openned, closed, prev>>

\* A write leaves its entry in a report.
Store(r, op, id, e) ==
  stored' = IF op = "write" THEN [stored EXCEPT ![r] = @ \union {<<id, e>>}] ELSE stored

\* The answer of the file to a call, within the call.
FileAnswers(op, e, failed) ==
  IF Accept("file", op, e) = "go"
    THEN \E out \in FileOutcome(op) :
           /\ failed = (IF out[1] THEN {} ELSE {"file"})
           /\ stream' = out[2]
           /\ IF out[1] THEN Succeed("file", op, e) /\ Store("file", op, 0, e)
                        ELSE Fail("file", op, e) /\ UNCHANGED stored
    ELSE /\ failed = (IF Accept("file", op, e) = "ok" THEN {} ELSE {"file"})
         /\ UNCHANGED <<stream, openned, closed, prev, stored>>

(***************************************************************************)
(* Report::open(), write_entry() or close(), called by c: the file answers *)
(* at once, the request to the collector is sent with the identifier that  *)
(* the report has now.                                                     *)
(***************************************************************************)
Call(c, op, e) ==
  /\ \E failed \in SUBSET {"file"} :
       /\ FileAnswers(op, e, failed)
       /\ call' = [call EXCEPT ![c] =
            [op      |-> op,
             entry   |-> e,
             report  |-> reportId,
             waiting |-> IF OoniAccepts(op, e) = "go" THEN {"ooni"} ELSE {},
             failed  |-> failed \union
                           (IF OoniAccepts(op, e) = "error" THEN {"ooni"} ELSE {}),
             tries   |-> call[c].tries + 1]]
  /\ UNCHANGED <<reportId, created>>

(***************************************************************************)
(* The request fails, or the collector serves it; its answer arrives or    *)
(* is lost, which to OoniReporter is the same as a request that failed.    *)
(***************************************************************************)
CollectorAnswers(c) ==
  /\ call[c].waiting # {}
  /\ \E served, heard \in BOOLEAN : LET success == served /\ heard IN
       /\ heard => served
       /\ call' = [call EXCEPT ![c].waiting = {},
                               ![c].failed = IF success THEN @ ELSE @ \union {"ooni"}]
       /\ IF success
            THEN Succeed("ooni", call[c].op, call[c].entry)
            ELSE Fail("ooni", call[c].op, call[c].entry)
       /\ IF served
            THEN Store("ooni", call[c].op, call[c].report, call[c].entry)
            ELSE UNCHANGED stored
       /\ created' = IF served /\ call[c].op = "open" THEN created + 1 ELSE created
       /\ reportId' = IF success /\ call[c].op = "open" THEN created + 1 ELSE reportId
  /\ UNCHANGED <<stream, phase, left, acked>>

\* The call of c to Report has come to its callback, with or without error.
Returned(c, op) == call[c].op = op /\ call[c].waiting = {}
Succeeded(c) == call[c].failed = {}

-----------------------------------------------------------------------------
(***************************************************************************)
(* The calls that Runnable makes.                                          *)
(***************************************************************************)
Open ==
  /\ phase = "start"
  /\ Call(Main, "open", NoEntry)
  /\ phase' = "opening"
  /\ UNCHANGED <<left, acked>>

\* Runnable goes on when the report could not be opened, unless told not to.
OpenReturns ==
  /\ phase = "opening"
  /\ Returned(Main, "open")
  /\ \/ phase' = "loop"
     \/ ~Succeeded(Main) /\ phase' = "stop"
  /\ call' = [call EXCEPT ![Main] = Idle]
  /\ UNCHANGED <<reporterVars, left, acked>>

Write(w, e) ==
  /\ phase = "loop"
  /\ call[w] = Idle
  /\ e \in left
  /\ Call(w, "write", e)
  /\ left' = left \ {e}
  /\ UNCHANGED <<phase, acked>>

WriteReturns(w) ==
  /\ Returned(w, "write")
  /\ call' = [call EXCEPT ![w] = Idle]
  /\ acked' = IF Succeeded(w) THEN acked \union {call[w].entry} ELSE acked
  /\ UNCHANGED <<reporterVars, phase, left>>

\* The same call again, after an error.
Again(c, op) ==
  /\ Returned(c, op) /\ ~Succeeded(c)
  /\ call[c].tries < MaxTries
  /\ Call(c, op, call[c].entry)
  /\ UNCHANGED <<phase, left, acked>>

\* Mutant: the report is closed while measurements are being submitted.
CloseEarly ==
  /\ phase \in {"loop", "stop"}
  /\ call[Main] = Idle
  /\ Call(Main, "close", NoEntry)
  /\ phase' = "closing"
  /\ UNCHANGED <<left, acked>>

(***************************************************************************)
(* end(): the writers have all stopped, because there are no more entries  *)
(* or because the time is over.                                            *)
(***************************************************************************)
Close ==
  /\ phase \in {"loop", "stop"}
  /\ \A c \in Caller : call[c] = Idle
  /\ Call(Main, "close", NoEntry)
  /\ phase' = "closing"
  /\ UNCHANGED <<left, acked>>

CloseReturns ==
  /\ phase = "closing"
  /\ Returned(Main, "close")
  /\ call' = [call EXCEPT ![Main] = Idle]
  /\ phase' = "end"
  /\ UNCHANGED <<reporterVars, left, acked>>

Next ==
  \/ Open \/ OpenReturns \/ Close \/ CloseReturns
  \/ \E w \in Writer : WriteReturns(w) \/ \E e \in Entry : Write(w, e)
  \/ \E c \in Caller : CollectorAnswers(c) \/ \E op \in {"open", "write", "close"} : Again(c, op)

Spec == Init /\ [][Next]_vars

-----------------------------------------------------------------------------
(***************************************************************************)
(* An entry whose submission is reported as a success, which is what makes *)
(* Runnable emit status.measurement_submission, is in the file and, at the *)
(* collector, in the report whose identifier Runnable has.  This is where  *)
(* the duplicate check could go wrong: it answers with a success and       *)
(* stores nothing.                                                         *)
(***************************************************************************)
Place(r) == IF r = "ooni" THEN reportId ELSE 0

NoSilentLoss == \A e \in acked, r \in Backend : <<Place(r), e>> \in stored[r]

(***************************************************************************)
(* Entries are stored only between the opening and the closing of the      *)
(* report: no request is on its way to the collector for a report that is  *)
(* closed, or being closed, or is not the one that is open.                *)
(***************************************************************************)
WritesInsideReport == \A w \in Writer :
  call[w].waiting # {} =>
    /\ openned["ooni"] /\ ~closed["ooni"] /\ call[Main].op # "close"
    /\ call[w].report = reportId

(***************************************************************************)
(* Opening may be tried again because the file failed, or the collector,   *)
(* which may then have opened a report nobody knows of.  The collector is  *)
(* asked for another report only while no identifier is known              *)
(* (ooni_reporter.cpp:44 asserts it), the report counts as open when one   *)
(* is, and every entry at the collector is in that report: the reports     *)
(* whose identifier was lost stay empty, and no measurement is split.      *)
(***************************************************************************)
OneReportId ==
  /\ openned["ooni"] <=> reportId # 0
  /\ call[Main].op = "open" /\ call[Main].waiting # {} => reportId = 0
  /\ \A x \in stored["ooni"] : x[1] = reportId /\ reportId # 0

=============================================================================
