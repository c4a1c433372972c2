--------------------------- MODULE InvalidRequestLine ---------------------------
(***************************************************************************)
(* The http_invalid_request_line test (ooni/http_invalid_request_line.cpp):*)
(* five connections to an echo server, started one after the other, each   *)
(* with an invalid request line and five seconds to receive it back.  The  *)
(* test calls back at the fourth answer: the connection of the fifth is    *)
(* open by then, or not yet made, and its answer is not looked at.         *)
(***************************************************************************)
EXTENDS Naturals, Sequences, FiniteSets, SequencesExt

Requests == 5
Counted == 4 \* handle_response: *tests_run == 4

VARIABLES
  pc,        \* "start", "run", and "done" when callback was called
  open,      \* connections held
  calls,     \* how many times callback was called
  failure,   \* entry["failure"]
  request,   \* for each request, what it waits for
  inner,     \* tampering_list and failure_list: what each request says at its end
  tampering  \* entry["tampering"] when callback is called

vars == <<pc, open, calls, failure, request, inner, tampering>>

Init ==
  /\ pc = "start" /\ open = 0 /\ calls = 0 /\ failure = "none"
  /\ request = [r \in 1..Requests |-> "idle"] /\ inner = <<>> /\ tampering = "null"

\* The last answer that is true, or else one that is not null.
Tampering(answers) ==
  IF "tampered" \in Range(answers) THEN "true"
  ELSE IF "echoed" \in Range(answers) THEN "false" ELSE "null"

\* Mutant: one answer less is awaited.
handle_one_less(more) ==
  LET answers == inner \o more
      counted == [k \in 1..(Counted - 1) |-> answers[k]]
  IN  /\ inner' = answers
      /\ IF Len(inner) < Counted - 1 /\ Len(answers) >= Counted - 1
           THEN /\ pc' = "done" /\ calls' = calls + 1 /\ tampering' = Tampering(counted)
                /\ failure' = IF "failed" \in Range(counted) THEN "parallel" ELSE failure
           ELSE pc' = (IF pc = "done" THEN pc ELSE "run") /\ UNCHANGED <<calls, tampering, failure>>

\* Answers are added to the lists; at the fourth one, and only there, the test says what
\* the first four saw.
handle_response(more) ==
  LET answers == inner \o more
      counted == [k \in 1..Counted |-> answers[k]]
  IN  /\ inner' = answers
      /\ IF Len(inner) < Counted /\ Len(answers) >= Counted
           THEN /\ pc' = "done" /\ calls' = calls + 1 /\ tampering' = Tampering(counted)
                /\ failure' = IF "failed" \in Range(counted) THEN "parallel" ELSE failure
           ELSE pc' = (IF pc = "done" THEN pc ELSE "run") /\ UNCHANGED <<calls, tampering, failure>>

-----------------------------------------------------------------------------
InvalidBackend ==
  /\ pc = "start" /\ pc' = "done" /\ calls' = calls + 1 /\ failure' = "backend"
  /\ UNCHANGED <<open, request, inner, tampering>>

\* The five connections are attempted, of which some may be refused at once.
Start ==
  /\ pc = "start"
  /\ \E refused \in SUBSET (1..Requests) :
       /\ request' = [r \in 1..Requests |-> IF r \in refused THEN "over" ELSE "connecting"]
       /\ handle_response([k \in 1..Cardinality(refused) |-> "failed"])
  /\ UNCHANGED open

Connected ==
  \E r \in 1..Requests :
    /\ request[r] = "connecting"
    /\ request' = [request EXCEPT ![r] = "receiving"] /\ open' = open + 1
    /\ UNCHANGED <<pc, calls, failure, inner, tampering>>

NotConnected ==
  \E r \in 1..Requests :
    /\ request[r] = "connecting"
    /\ request' = [request EXCEPT ![r] = "over"] /\ handle_response(<<"failed">>)
    /\ UNCHANGED open

\* Five seconds later: what was received is compared with what was sent, and the
\* connection is closed.
TimerExpires ==
  \E r \in 1..Requests, seen \in {"tampered", "echoed"} :
    /\ request[r] = "receiving" /\ request' = [request EXCEPT ![r] = seen]
    /\ UNCHANGED <<pc, open, calls, failure, inner, tampering>>

Closed ==
  \E r \in 1..Requests :
    /\ request[r] \in {"tampered", "echoed"}
    /\ request' = [request EXCEPT ![r] = "over"] /\ open' = open - 1
    /\ handle_response(<<request[r]>>)

Next ==
  \/ InvalidBackend \/ Start \/ Connected \/ NotConnected \/ TimerExpires \/ Closed

Spec == Init /\ [][Next]_vars

-----------------------------------------------------------------------------
TypeOK ==
  /\ calls \in 0..1 /\ inner \in Seq({"failed", "tampered", "echoed"})
  /\ request \in [1..Requests -> {"idle", "connecting", "receiving", "tampered", "echoed", "over"}]
  /\ open = Cardinality({r \in 1..Requests : request[r] \in {"receiving", "tampered", "echoed"}})
  /\ tampering \in {"null", "false", "true"}

\* The answers that received something else than was sent, in the order in which they came.
Saw == {k \in DOMAIN inner : inner[k] = "tampered"}

\* What is told is true of the four answers that came first, and of no other: tampering
\* that is told was seen by one of them, and when none is told none of them saw it, though
\* the last answer may.
VerdictSound ==
  calls = 1 /\ failure # "backend" =>
    (tampering = "true" <=> Saw \cap (1..Counted) # {})
================================================================================
