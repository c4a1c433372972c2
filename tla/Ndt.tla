--------------------------------- MODULE Ndt ---------------------------------
(***************************************************************************)
(* One NDT measurement (ndt/run_impl.hpp, ndt/protocol_impl.hpp): a chain  *)
(* of phases on a control connection, and inside of it the tests that the  *)
(* server grants, each with connections of its own.  One step is one       *)
(* callback of the loop.  The server may send anything: each message that  *)
(* is awaited may be the expected one, another one, or an error, and all   *)
(* of the ways in which it is not the expected one are one outcome.        *)
(* A read ends, because the control connection has a timeout.              *)
(***************************************************************************)
EXTENDS Integers, Sequences, FiniteSetsExt, SequencesExt

CONSTANTS
  MaxStreams, \* the most streams of a download (8 in the code)
  MaxTests    \* bound: how many tests the server grants

VARIABLES
  pc,        \* the callback that is awaited
  open,      \* connections held: the control one, those of the test and the leaked ones
  calls,     \* how many times ctx->callback was called
  failure,   \* the error that it is called with
  granted,   \* ctx->granted_suite
  test,      \* the test that runs
  streams,   \* params.num_streams, txp_list.size() of the test
  left,      \* ConnectManyCtx::left
  up,        \* flows that have neither ended nor failed
  completed, \* num_completed: flows that were closed
  results,   \* history: the tests run and the errors stored in phase_result
  entries,   \* how many entries test_c2s and test_s2c have
  leaked,    \* those of them that are never closed, as nothing refers to them any more
  chat       \* flips when the server makes the client wait for more

flow == <<streams, left, up, completed>>
record == <<results, entries>>
vars == <<pc, open, calls, failure, granted, test, flow, record, leaked, chat>>

Downloads == {"s2c", "s2c_ext"}
Tests == Downloads \cup {"c2s", "meta"}

Init ==
  /\ pc = "start" /\ open = 0 /\ calls = 0 /\ failure = "none"
  /\ granted = <<>> /\ test = "meta"
  /\ streams = 0 /\ left = 0 /\ up = 0 /\ completed = 0
  /\ results = <<>> /\ entries = [c2s |-> 0, s2c |-> 0]
  /\ leaked = 0 /\ chat = FALSE

-----------------------------------------------------------------------------
(***************************************************************************)
(* How the chain ends.                                                     *)
(***************************************************************************)
\* Called before there is a control connection.
CallBack(err) ==
  /\ pc' = "done" /\ calls' = calls + 1 /\ failure' = err
  /\ UNCHANGED <<open, granted, test, flow, record, leaked, chat>>

\* disconnect_and_callback_impl(): the callback comes when the transport is closed.
Disconnect(err) == pc' = "closing" /\ failure' = err

Abort(err) ==
  /\ Disconnect(err)
  /\ UNCHANGED <<open, calls, granted, test, flow, record, leaked, chat>>

\* Mutant: the chain forgets to call back.
ClosedSilently ==
  /\ pc = "closing"
  /\ pc' = "done" /\ open' = open - 1
  /\ UNCHANGED <<calls, failure, granted, test, flow, record, leaked, chat>>

Closed ==
  /\ pc = "closing"
  /\ pc' = "done" /\ open' = open - 1 /\ calls' = calls + 1
  /\ UNCHANGED <<failure, granted, test, flow, record, leaked, chat>>

-----------------------------------------------------------------------------
(***************************************************************************)
(* The phases before the tests.                                            *)
(***************************************************************************)
\* The port is not a number, or mlab-ns does not name a server.
StartFails ==
  /\ pc = "start"
  /\ \E err \in {"port", "mlabns"} : CallBack(err)

Goto(from, to) ==
  /\ pc = from /\ pc' = to
  /\ UNCHANGED <<open, calls, failure, granted, test, flow, record, leaked, chat>>

Start == Goto("start", "connect")

ConnectFails == pc = "connect" /\ CallBack("connect")

Connect ==
  /\ pc = "connect"
  /\ pc' = "login" /\ open' = open + 1
  /\ UNCHANGED <<calls, failure, granted, test, flow, record, leaked, chat>>

\* Each phase of the chain up to the tests may fail.
PhaseFails ==
  /\ pc \in {"login", "kickoff", "queue", "version", "ids", "results"}
  /\ Abort(pc)

LoggedIn == Goto("login", "kickoff")
Kickoff == Goto("kickoff", "queue")
Authorized == Goto("queue", "version")
Version == Goto("version", "ids")

\* The server speaks and the client goes on waiting.
GoesOn ==
  /\ chat' = ~chat
  /\ UNCHANGED <<pc, open, calls, failure, granted, test, flow, record, leaked>>

\* A heartbeat, which is answered, or our position in the queue.
StayInQueue == pc = "queue" /\ GoesOn

-----------------------------------------------------------------------------
(***************************************************************************)
(* The tests.                                                              *)
(***************************************************************************)
\* run_tests_impl() on what is left of the suite.
RunTests(suite) ==
  CASE suite = <<>> ->
         pc' = "results" /\ granted' = suite /\ UNCHANGED <<test, failure>>
    [] suite # <<>> /\ Head(suite) \in Tests ->
         /\ pc' = "prepare" /\ granted' = Tail(suite) /\ test' = Head(suite)
         /\ UNCHANGED failure
    [] OTHER ->
         /\ Disconnect("id") /\ granted' = Tail(suite) /\ UNCHANGED test

TestsId ==
  /\ pc = "ids"
  /\ \E n \in 0..MaxTests : \E suite \in [1..n -> Tests \cup {"other"}] : RunTests(suite)
  /\ UNCHANGED <<open, calls, flow, record, leaked, chat>>

\* Whatever became of the test, the next one runs.
TestEnds(err) ==
  /\ results' = Append(results, [test |-> test, err |-> err])
  /\ RunTests(granted)
  /\ streams' = 0 /\ left' = 0 /\ up' = 0 /\ completed' = 0
  /\ UNCHANGED <<calls, chat>>

\* The test ends before the flows start: nothing refers to what connected, nor closes it.
TestFails(err) ==
  /\ leaked' = leaked + (streams - left)
  /\ TestEnds(err)
  /\ UNCHANGED <<open, entries>>

PrepareFails == pc = "prepare" /\ TestFails("prepare")

Prepare ==
  /\ pc = "prepare"
  /\ \E n \in (CASE test = "meta" -> {0} [] test = "c2s" -> {1} [] OTHER -> 1..MaxStreams) :
       streams' = n /\ left' = n
  /\ pc' = IF test = "meta" THEN "begin" ELSE "connecting"
  /\ UNCHANGED <<open, calls, failure, granted, test, up, completed, record, leaked, chat>>

\* connect_many_impl(): the connections made before the error are in the list
\* it is called back with, and the test does not look at the list.
ConnectTestFails == pc = "connecting" /\ TestFails("connect")

\* connect_many_impl(): one connection after the other.
ConnectTest ==
  /\ pc = "connecting"
  /\ open' = open + 1 /\ left' = left - 1
  /\ pc' = IF left' = 0 THEN "begin" ELSE pc
  /\ UNCHANGED <<calls, failure, granted, test, streams, up, completed, record, leaked, chat>>

BeginFails == pc = "begin" /\ TestFails("begin")

\* TEST_START came: the flows of the coroutine start, or the metadata is sent.
Begin ==
  /\ pc = "begin"
  /\ pc' = IF test = "meta" THEN "written" ELSE "flows"
  /\ up' = streams
  /\ UNCHANGED <<open, calls, failure, granted, test, streams, left, completed, record, leaked,
                 chat>>

\* Data of a download, for as long as the server sends any.
Data == pc = "flows" /\ up > 0 /\ test \in Downloads /\ GoesOn

\* The on_error of a flow, also called for its regular end: the flow is closing.
FlowEnds ==
  /\ pc = "flows" /\ up > 0
  /\ up' = up - 1
  /\ UNCHANGED <<pc, open, calls, failure, granted, test, streams, left, completed, record,
                 leaked, chat>>

\* Mutant: the first flow that is closed completes the coroutine.
LastFlowTooSoon == completed' >= 1

LastFlow == completed' = streams

\* A flow was closed, and it is the last one.  One flow tells its error; the
\* errors of parallel flows are dropped.
FlowsFail ==
  /\ pc = "flows" /\ completed + up < streams
  /\ completed + 1 = streams /\ streams = 1
  /\ open' = open - 1
  /\ TestEnds("flow")
  /\ UNCHANGED <<entries, leaked>>

FlowClosed ==
  /\ pc = "flows" /\ completed + up < streams
  /\ completed' = completed + 1
  /\ open' = open - 1
  /\ pc' = IF LastFlow THEN "speed" ELSE pc
  /\ UNCHANGED <<calls, failure, granted, test, streams, left, up, record, leaked, chat>>

\* The end of a test after its flows were closed, with the entries as given.
Finish(err, e) ==
  /\ entries' = e
  /\ TestEnds(err)
  /\ UNCHANGED <<open, leaked>>

SpeedFails == pc = "speed" /\ Finish("speed", entries)

\* Mutant: a download pushes its entry as an upload does.
SpeedPushes ==
  /\ pc = "speed"
  /\ IF test = "c2s"
       THEN pc' = "final" /\ entries' = [entries EXCEPT !.c2s = @ + 1]
       ELSE pc' = "written" /\ entries' = [entries EXCEPT !.s2c = @ + 1]
  /\ UNCHANGED <<open, calls, failure, granted, test, flow, results, leaked, chat>>

\* The message with the speed that the server measured.  An upload pushes its
\* entry here, before the message that ends it.
Speed ==
  /\ pc = "speed"
  /\ IF test = "c2s"
       THEN pc' = "final" /\ entries' = [entries EXCEPT !.c2s = @ + 1]
       ELSE pc' = "written" /\ UNCHANGED entries
  /\ UNCHANGED <<open, calls, failure, granted, test, flow, results, leaked, chat>>

WriteFails == pc = "written" /\ Finish("write", entries)
Written == Goto("written", "final")

FinalFails == pc = "final" /\ Finish("final", entries)

\* One more line of web100 data.
Web100 == pc = "final" /\ test \in Downloads /\ GoesOn

\* TEST_FINALIZE: only now a download has its entry.
Finalize ==
  /\ pc = "final"
  /\ Finish("none", IF test \in Downloads THEN [entries EXCEPT !.s2c = @ + 1] ELSE entries)

-----------------------------------------------------------------------------
(***************************************************************************)
(* The phases after the tests.                                             *)
(***************************************************************************)
MoreResults == pc = "results" /\ GoesOn

Logout == Goto("results", "waitclose")

\* End of file and the timeout of one second are both fine; anything else is not.
WaitClose ==
  /\ pc = "waitclose"
  /\ \E err \in {"none", "waitclose"} : Abort(err)

Before == StartFails \/ Start \/ ConnectFails \/ Connect \/ PhaseFails \/ LoggedIn \/ Kickoff
            \/ Authorized \/ Version \/ TestsId
InTest == PrepareFails \/ Prepare \/ ConnectTestFails \/ ConnectTest \/ BeginFails \/ Begin
            \/ FlowEnds \/ FlowsFail \/ FlowClosed \/ SpeedFails \/ Speed \/ WriteFails \/ Written
            \/ FinalFails \/ Finalize
After == Logout \/ WaitClose \/ Closed
Talk == StayInQueue \/ Data \/ Web100 \/ MoreResults

Next == Before \/ InTest \/ After \/ Talk

Spec == Init /\ [][Next]_vars
FairSpec == Spec /\ WF_vars(Next)

-----------------------------------------------------------------------------
TypeOK ==
  /\ open \in Nat /\ calls \in 0..1 /\ leaked \in Nat /\ chat \in BOOLEAN
  /\ streams \in 0..MaxStreams /\ left \in 0..streams
  /\ up \in 0..streams /\ completed \in 0..(streams - up)
  /\ granted \in Seq(Tests \cup {"other"}) /\ test \in Tests
  /\ entries \in [{"c2s", "s2c"} -> Nat]

\* How many of the tests of a kind ended with one of the errors.
Count(kind, errs) == Quantify(DOMAIN results,
  LAMBDA i : results[i].test \in kind /\ results[i].err \in errs)

\* The most that the tests which failed early can have left connected: all the streams
\* of a download that was not told to begin, one less where a stream did not connect.
Forgotten ==
  (MaxStreams - 1) * Count(Downloads, {"connect"}) + MaxStreams * Count(Downloads, {"begin"})
    + Count({"c2s"}, {"begin"})

\* The record agrees with the tests: a download has an entry when it succeeded, an upload
\* has one also when only its last message failed; and no connection is leaked but by the
\* tests that failed between their first connection and the start of their flows.
NdtRecords ==
  /\ entries.s2c = Count(Downloads, {"none"})
  /\ entries.c2s = Count({"c2s"}, {"none", "final"})
                     + (IF pc = "final" /\ test = "c2s" THEN 1 ELSE 0)
  /\ leaked <= Forgotten

\* A test speaks to the server again only when all of its flows are closed.
FlowsAreTogether ==
  pc \in {"speed", "written", "final", "results", "waitclose"} => open = 1 + leaked
==============================================================================
