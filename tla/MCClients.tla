------------------------------- MODULE MCClients -------------------------------
(***************************************************************************)
(* One client of the library against a server that may answer anything, or *)
(* mk::parallel() with operations that end in any order.  They all keep    *)
(* the same promise to the code that starts them, which is stated once     *)
(* (Session); the rest of their state is their own.                        *)
(***************************************************************************)
EXTENDS Naturals, Sequences

CONSTANTS
  Clients,
  MaxStreams, MaxTests,
  SampleCounts,
  MaxNegotiations, MaxIterations, Speeds, Times, Targets, Bitrates,
  MaxLines,
  MaxOps, MaxTime, Lifetime,
  Public, Private,
  Ports, MaxAnswers,
  Sizes, Widths

VARIABLES
  client,
  pc, open, unawaited, calls, failure,
  granted, test, streams, left, up, completed, results, entries, leaked, chat,
  single, multi, selected,
  options, negotiations, speed_kbit, segment, elapsed, delay,
  lines, torn, line, report, stored,
  op, ops, now, username, password, auth_token, expiry, logged_in, issued, cut,
  type, bases, freed, context,
  addresses, tcp, fetched, control, verdict,
  asked, ips, trying, reached, consistent, reachable, blocking,
  servers, endpoints,
  request, inner, tampering,
  size, width, next, active, pending, counted, overall, child, cb, finished

ndt == <<granted, test, streams, left, up, completed, results, entries, leaked, chat>>
multi_ndt == <<single, multi, selected>>
dash == <<options, negotiations, speed_kbit, segment, elapsed, delay>>
collector == <<lines, torn, line, report, stored>>
orchestrate == <<op, ops, now, username, password, auth_token, expiry, logged_in, issued, cut>>
dns == <<type, bases, freed, context>>
web == <<addresses, tcp, fetched, control, verdict>>
services == <<asked, ips, trying, reached>>
facebook == <<consistent, reachable, blocking>>
whatsapp == <<servers, endpoints>>
request_lines == <<request, inner, tampering>>
parallel == <<size, width, next, active, pending, counted, overall, child, cb, finished>>
vars == <<client, pc, open, unawaited, calls, failure, ndt, multi_ndt, dash, collector,
          orchestrate, dns, web, services, facebook, whatsapp, request_lines, parallel>>

ASSUME ClientsAssumption ==
  /\ Clients \subseteq {"ndt", "multi_ndt", "dash", "collector", "orchestrate", "dns",
                        "web_connectivity", "facebook_messenger", "whatsapp",
                        "http_invalid_request_line", "parallel"}
  /\ MaxStreams \in Nat \ {0} /\ MaxTests \in Nat /\ SampleCounts \subseteq Nat
  /\ MaxNegotiations \in Nat /\ MaxIterations \in Nat
  /\ Speeds \subseteq Nat /\ Times \subseteq Nat \ {0}
  /\ Targets \subseteq Nat /\ Bitrates \subseteq Nat
  /\ MaxLines \in Nat
  /\ MaxOps \in Nat \ {0} /\ MaxTime \in Nat /\ Lifetime \in Nat
  /\ Public \cap Private = {}
  /\ Ports # {} /\ MaxAnswers \in Nat
  /\ Sizes \subseteq Nat /\ Widths \subseteq Nat

\* The names are resolved in any order, and their addresses tried in the order of a map.
Services == <<"b_api", "star">>
Hosts == <<"e1", "e2">>

\* A page, the page of an error of the server, and one that stands in for the first.
Pages ==
  {[length |-> 10, status |-> 200, headers |-> {"date", "etag"}, title |-> <<"the", "welcome">>],
   [length |-> 7, status |-> 503, headers |-> {"date"}, title |-> <<"blocked">>],
   [length |-> 2, status |-> 200, headers |-> {"date", "via"}, title |-> <<"blocked">>]}

N == INSTANCE Ndt
M == INSTANCE MultiNdt
D == INSTANCE Dash
C == INSTANCE Collector
O == INSTANCE Orchestrate
Q == INSTANCE DnsQuery
W == INSTANCE WebConnectivity
F == INSTANCE FacebookMessenger
P == INSTANCE Whatsapp
I == INSTANCE InvalidRequestLine
L == INSTANCE Parallel WITH completed <- counted, calls <- cb

Calls == IF client = "parallel" THEN Len(cb) ELSE calls

\* The connections that a client let go of: an NDT test that fails forgets what it
\* connected, and three OONI tests close connections without waiting for that.
Adrift ==
  CASE client = "ndt" -> leaked
    [] client \in {"web_connectivity", "facebook_messenger"} -> unawaited
    [] client = "whatsapp" -> open
    [] OTHER -> 0

\* Only http_invalid_request_line does not wait for all that it started.
Late == IF client = "http_invalid_request_line" THEN I!Requests - I!Counted ELSE 0

S == INSTANCE Session WITH adrift <- Adrift, late <- Late, calls <- Calls

Init ==
  /\ client \in Clients
  /\ N!Init /\ M!Init /\ D!Init /\ C!Init /\ O!Init /\ Q!Init /\ W!Init
  /\ F!Init /\ P!Init /\ I!Init /\ L!Init
  /\ client # "parallel" => <<size, width>> = <<0, 0>>
  /\ unawaited = 0

Next ==
  /\ UNCHANGED client
  /\ \/ client = "ndt" /\ N!Next
          /\ UNCHANGED <<unawaited, multi_ndt, dash, collector, orchestrate, dns, web, services, facebook, whatsapp, request_lines, parallel>>
     \/ client = "multi_ndt" /\ M!Next
          /\ UNCHANGED <<unawaited, ndt, dash, collector, orchestrate, dns, web, services, facebook, whatsapp, request_lines, parallel>>
     \/ client = "dash" /\ D!Next
          /\ UNCHANGED <<unawaited, ndt, multi_ndt, collector, orchestrate, dns, web, services, facebook, whatsapp, request_lines, parallel>>
     \/ client = "collector" /\ C!Next
          /\ UNCHANGED <<unawaited, ndt, multi_ndt, dash, orchestrate, dns, web, services, facebook, whatsapp, request_lines, parallel>>
     \/ client = "orchestrate" /\ O!Next
          /\ UNCHANGED <<unawaited, ndt, multi_ndt, dash, collector, dns, web, services, facebook, whatsapp, request_lines, parallel>>
     \/ client = "dns" /\ Q!Next
          /\ UNCHANGED <<unawaited, ndt, multi_ndt, dash, collector, orchestrate, web, services, facebook, whatsapp, request_lines, parallel>>
     \/ client = "web_connectivity" /\ W!Next
          /\ UNCHANGED <<ndt, multi_ndt, dash, collector, orchestrate, dns, services, facebook, whatsapp, request_lines, parallel>>
     \/ client = "facebook_messenger" /\ F!Next
          /\ UNCHANGED <<ndt, multi_ndt, dash, collector, orchestrate, dns, web, whatsapp, request_lines, parallel>>
     \/ client = "whatsapp" /\ P!Next
          /\ UNCHANGED <<unawaited, ndt, multi_ndt, dash, collector, orchestrate, dns, web, facebook, request_lines, parallel>>
     \/ client = "http_invalid_request_line" /\ I!Next
          /\ UNCHANGED <<unawaited, ndt, multi_ndt, dash, collector, orchestrate, dns, web, services, facebook, whatsapp, parallel>>
     \/ client = "parallel" /\ L!Next
          /\ UNCHANGED <<pc, open, unawaited, calls, failure, ndt, multi_ndt, dash, collector, orchestrate, dns, web,
                         services, facebook, whatsapp, request_lines>>

\* A client goes on: each of the callbacks that it awaits comes, because the loop
\* calls it with an answer, an error or a timeout.  This takes for granted that its
\* requests do not go through a SOCKS5 proxy: one that does may never end (Http).
FairSpec == Init /\ [][Next]_vars /\ WF_vars(Next)

-----------------------------------------------------------------------------
\* The state of the client that runs keeps its type.
TypeOK ==
  CASE client = "ndt" -> N!TypeOK
    [] client = "multi_ndt" -> M!TypeOK
    [] client = "dash" -> D!TypeOK
    [] client = "collector" -> C!TypeOK
    [] client = "orchestrate" -> O!TypeOK
    [] client = "dns" -> Q!TypeOK
    [] client = "web_connectivity" -> W!TypeOK
    [] client = "facebook_messenger" -> F!TypeOK
    [] client = "whatsapp" -> P!TypeOK
    [] client = "http_invalid_request_line" -> I!TypeOK
    [] client = "parallel" -> L!TypeOK

\* Whatever the server does, a client calls back once for each time it is started.  The
\* connections that it holds then are only those that it let go of, and the one of the
\* request that http_invalid_request_line does not wait for; it makes no other after that.
ClientsAreSessions == S!Spec

\* Every client ends, and what it held is released in the end, but for what failed NDT
\* tests leak.  An NDT server that never stops to talk keeps the client from ending:
\* queue_impl(), the downloads and the web100 data wait for as long as it does.  So does an
\* exception: of facebook_messenger when all its connections are refused at once, of
\* web_connectivity when the control answers with another shape, or in dns_callback().
ClientEnds ==
  \/ []<><<N!Talk>>_vars
  \/ <>[](Calls = 1 /\ open = leaked)
  \/ <>(pc = "thrown")

\* The record of an NDT measurement agrees with the tests that were run.
NdtRecords == client = "ndt" => N!NdtRecords

\* The flows of an NDT download end together before the test goes on.
FlowsAreTogether == client = "ndt" => N!FlowsAreTogether

\* The rate and the size of a DASH segment, and the delay of the playback.
DashRight == client = "dash" => D!DashRight

\* A report that is resubmitted is closed only when none of its lines is missing.
ReportAccounted == client = "collector" => C!ReportAccounted

\* The probe updates its registration with a good token and keeps its user name.
CredentialsSound == [][client = "orchestrate" => O!SoundStep]_vars

\* The evdns base of a query is freed once, when nothing uses it any more.
BaseFreedOnce == client = "dns" => Q!BaseFreedOnce

\* No more operations of a vector are in flight than the caller of parallel() allows.
WidthRespected == client = "parallel" => L!WidthRespected

\* parallel() calls back last, with an error if and only if an operation failed.
CallbackIsLast == client = "parallel" => L!CallbackIsLast

\* What a test concludes follows from what it saw: the selection of multi_ndt, the
\* verdict of web_connectivity, the flags of facebook_messenger and whatsapp, and the one
\* of http_invalid_request_line.  Where the order in which the network answered decides as
\* well, each of them says how far: the flags of single sockets, a flag that is not told or
\* a host called blocked when all attempts were refused at once, the answer that came last.
VerdictSound ==
  CASE client = "multi_ndt" -> M!FastestSelected
    [] client = "web_connectivity" -> W!VerdictSound
    [] client = "facebook_messenger" -> F!VerdictSound
    [] client = "whatsapp" -> P!VerdictSound
    [] client = "http_invalid_request_line" -> I!VerdictSound
    [] OTHER -> TRUE
================================================================================
