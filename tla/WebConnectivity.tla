---------------------------- MODULE WebConnectivity ----------------------------
(***************************************************************************)
(* The web_connectivity test (ooni/web_connectivity.cpp): resolve the name *)
(* of a site, connect to each of its addresses at once, fetch its page,    *)
(* ask a control server to do the same from elsewhere, and compare what    *)
(* the two saw.  The network may block any of the steps, or nothing.  The  *)
(* connections of the two requests are those of Http.                      *)
(***************************************************************************)
EXTENDS Integers, Sequences, FiniteSets

CONSTANTS
  Public,  \* the addresses of the Internet
  Private, \* is_private_ipv4_addr()
  Pages    \* the pages that the site, or who stands in for it, may answer with

Addresses == Public \cup Private

VARIABLES
  pc,        \* the callback that is awaited
  open,      \* connections held by the attempts to connect
  unawaited, \* those of them that are closed and that nothing waits for
  calls,     \* how many times callback was called
  failure,   \* entry["failure"], the error of the URL
  addresses, \* what the query returned
  tcp,       \* entry["tcp_connect"], in the order in which the attempts ended
  fetched,   \* the page and entry["http_experiment_failure"]
  control,   \* entry["control"], or entry["control_failure"]
  verdict    \* dns_consistency, blocking and accessible

vars == <<pc, open, unawaited, calls, failure, addresses, tcp, fetched, control, verdict>>

NoPage == [length |-> 0, status |-> 0, headers |-> {}, title |-> <<>>]
NoVerdict == [dns |-> "null", blocking |-> "null", accessible |-> "null"]
NoControl == [failed |-> TRUE, http |-> "none", page |-> NoPage, addrs |-> {},
              dns |-> "none", tcp |-> <<>>, asn |-> FALSE]

Init ==
  /\ pc = "start" /\ open = 0 /\ unawaited = 0 /\ calls = 0 /\ failure = "none"
  /\ addresses = {} /\ tcp = <<>>
  /\ fetched = [failure |-> "none", page |-> NoPage]
  /\ control = NoControl /\ verdict = NoVerdict

-----------------------------------------------------------------------------
(***************************************************************************)
(* The comparison of what was seen with the control.                       *)
(***************************************************************************)
CommonHeaders == {"date"}
LongWords == {"welcome", "blocked"}

Shorter(m, n) == IF m < n THEN m ELSE n
Longer(m, n) == IF m < n THEN n ELSE m

body_length_match(p, q) ==
  p.length = q.length \/ 10 * Shorter(p.length, q.length) > 7 * Longer(p.length, q.length)

\* The status of a control that met an error of the server is not compared.
status_code_match(p, q) == q.status \div 100 = 5 \/ q.status = p.status

headers_match(p, q) ==
  p.headers = q.headers \/ (p.headers \cap q.headers) \ CommonHeaders # {}

\* The titles are equal, unless the first long word of the one has a counterpart:
\* then these two words decide.
title_match(p, q) ==
  LET long == {i \in DOMAIN p.title : p.title[i] \in LongWords}
      first == CHOOSE i \in long : \A j \in long : i <= j
  IN  IF long # {} /\ first <= Len(q.title) THEN p.title[first] = q.title[first]
      ELSE p.title = q.title

\* compare_http_requests(), of which the verdict reads four flags.
ExpectedPage(p, q) ==
  (body_length_match(p, q) \/ headers_match(p, q) \/ title_match(p, q))
    /\ status_code_match(p, q)

\* compare_dns_queries(): dns_experiment_failure is never set, so that a query that
\* failed is compared as one without addresses.
DnsConsistency(ctrl) ==
  IF addresses = ctrl.addrs THEN "consistent"
  ELSE IF addresses \cap Private # {} THEN "inconsistent"
  ELSE IF addresses \cap ctrl.addrs # {} THEN "consistent"
  ELSE IF addresses # {} /\ ctrl.addrs # {} /\ ctrl.asn THEN "consistent"
  ELSE "inconsistent"

\* compare_tcp_connect(): a socket that the control does not know is passed over,
\* and the index into the entry is then not moved on, so that the n-th socket that it
\* knows writes the n-th flag.
CompareTcp(reached) ==
  LET known == {i \in DOMAIN tcp : tcp[i].ip \in DOMAIN reached}
      idx(i) == Cardinality({j \in known : j <= i})
      writer(n) == CHOOSE i \in known : idx(i) = n
      blocked(i) == reached[tcp[i].ip] /\ ~tcp[i].success
  IN  [entry |-> [n \in DOMAIN tcp |->
                    IF n > Cardinality(known) THEN tcp[n]
                    ELSE [tcp[n] EXCEPT !.blocked = IF blocked(writer(n)) THEN "true"
                                                    ELSE "false"]],
       success |-> \A i \in known : ~blocked(i)]

\* Mutant: sockets that failed decide although the page was fetched.
BlockingBySockets(dns, success, expected, exp, ctrl, ctrldns) ==
  IF dns = "consistent" /\ ~success THEN "tcp_ip"
  ELSE IF dns = "inconsistent" /\ ~expected THEN "dns"
  ELSE IF exp # "none" THEN "http-failure" ELSE "false"

\* The reason of a blocking, from the consistency of the names, the success of the
\* sockets, whether the page is the expected one and the three failures.
Blocking(dns, success, expected, exp, ctrl, ctrldns) ==
  CASE dns = "consistent" /\ ~success /\ exp # "none" -> "tcp_ip"
    [] dns = "consistent" /\ success /\ ~expected /\ exp = "none" /\ ctrl = "none" ->
         "http-diff"
    [] dns = "consistent" /\ success /\ exp # "none" /\ ctrl = "none" ->
         IF exp = "dns_lookup_error" THEN "dns" ELSE "http-failure"
    [] dns = "inconsistent" /\ ~expected -> "dns"
    [] dns = "consistent" /\ ~success /\ ~expected /\ exp = "none" /\ ctrl = "none"
         /\ ctrldns # "none" -> "dns"
    [] OTHER -> "false"

\* compare_control_experiment()
Compare(exp, ctrl) ==
  LET dns == DnsConsistency(ctrl)
      sockets == CompareTcp(ctrl.tcp)
      expected == exp.failure = "none" /\ ctrl.http = "none" /\ ExpectedPage(exp.page, ctrl.page)
      blocking == Blocking(dns, sockets.success, expected, exp.failure, ctrl.http,
                           ctrl.dns)
  IN  /\ verdict' = [dns |-> dns, blocking |-> blocking,
                     accessible |-> IF blocking = "false" THEN "true" ELSE "false"]
      /\ tcp' = sockets.entry

-----------------------------------------------------------------------------
CallBack == pc' = "done" /\ calls' = calls + 1

InvalidUrl ==
  /\ pc = "start" /\ CallBack /\ failure' = "url"
  /\ UNCHANGED <<open, unawaited, addresses, tcp, fetched, control, verdict>>

\* The addresses of the name, or the address that the URL has; none when the query
\* fails, and then there is no socket to connect.
Resolved ==
  /\ pc = "start"
  /\ addresses' \in SUBSET Addresses
  /\ pc' = IF addresses' = {} THEN "http" ELSE "tcp"
  /\ UNCHANGED <<open, unawaited, calls, failure, tcp, fetched, control, verdict>>

Tested == {tcp[i].ip : i \in DOMAIN tcp}

Record(ip, ok) ==
  tcp' = Append(tcp, [ip |-> ip, success |-> ok, blocked |-> IF ok THEN "false" ELSE "null"])

\* The connections are attempted at once and end in any order; the last one goes on
\* with the test, after it was closed if it succeeded.  Nothing waits for the closing of
\* the others.
Connected ==
  /\ pc = "tcp" /\ open' = open + 1
  /\ \E ip \in addresses \ Tested :
       /\ Record(ip, TRUE)
       /\ IF Tested \cup {ip} = addresses
            THEN pc' = "tcpclosing" /\ UNCHANGED unawaited
            ELSE unawaited' = unawaited + 1 /\ UNCHANGED pc
  /\ UNCHANGED <<calls, failure, addresses, fetched, control, verdict>>

NotConnected ==
  /\ pc = "tcp"
  /\ \E ip \in addresses \ Tested :
       /\ Record(ip, FALSE)
       /\ pc' = IF Tested \cup {ip} = addresses THEN "http" ELSE pc
  /\ UNCHANGED <<open, unawaited, calls, failure, addresses, fetched, control, verdict>>

TcpClosed ==
  /\ pc = "tcpclosing" /\ pc' = "http"
  /\ open' = open - 1
  /\ UNCHANGED <<unawaited, calls, failure, addresses, tcp, fetched, control, verdict>>

\* The loop calls what shutdown() left to it, for a connection that nothing waits for.
Released ==
  /\ unawaited > 0 /\ pc # "thrown"
  /\ unawaited' = unawaited - 1 /\ open' = open - 1
  /\ UNCHANGED <<pc, calls, failure, addresses, tcp, fetched, control, verdict>>

Fetched ==
  /\ pc = "http" /\ pc' = "control"
  /\ \E p \in Pages : fetched' = [failure |-> "none", page |-> p]
  /\ UNCHANGED <<open, unawaited, calls, failure, addresses, tcp, control, verdict>>

NotFetched ==
  /\ pc = "http" /\ pc' = "control"
  /\ \E err \in {"dns_lookup_error", "other"} :
       fetched' = [failure |-> err, page |-> NoPage]
  /\ UNCHANGED <<open, unawaited, calls, failure, addresses, tcp, control, verdict>>

\* Without the control there is no verdict.
NoAnswer ==
  /\ pc = "control" /\ CallBack
  /\ UNCHANGED <<open, unawaited, failure, addresses, tcp, fetched, control, verdict>>

\* External: the answers that have the shape that the comparison expects.  The control is
\* not asked for the private addresses, and may leave out others; two sets of addresses may
\* have a network in common.
Answers ==
  UNION {[failed : {FALSE}, http : {w[1]}, page : {w[2]}, addrs : SUBSET Public,
          dns : {"none", "error"}, tcp : [known -> BOOLEAN], asn : BOOLEAN] :
         w \in ({"none"} \X Pages) \cup {<<"other", NoPage>>},
         known \in SUBSET (addresses \cap Public)}

Answer ==
  /\ pc = "control" /\ CallBack
  /\ control' \in Answers
  /\ Compare(fetched, control')
  /\ UNCHANGED <<open, unawaited, failure, addresses, fetched>>

\* An answer that is JSON of another shape: a field that is missing or has another type
\* throws where the comparison converts it, and nothing on the way to the loop catches
\* that.  What was compared before is lost with the entry.
Misshapen ==
  /\ pc = "control" /\ pc' = "thrown"
  /\ UNCHANGED <<open, unawaited, calls, failure, addresses, tcp, fetched, control, verdict>>

Next ==
  \/ InvalidUrl \/ Resolved \/ Connected \/ NotConnected \/ TcpClosed \/ Released
  \/ Fetched \/ NotFetched \/ NoAnswer \/ Answer \/ Misshapen

Spec == Init /\ [][Next]_vars

-----------------------------------------------------------------------------
TypeOK ==
  /\ open \in Nat /\ unawaited \in 0..open /\ calls \in 0..1 /\ addresses \subseteq Addresses
  /\ tcp \in Seq([ip : Addresses, success : BOOLEAN, blocked : {"null", "false", "true"}])
  /\ fetched.page \in Pages \cup {NoPage}

Failed(i) == ~tcp[i].success
Reached(ip) == ip \in DOMAIN control.tcp /\ control.tcp[ip]

\* A page that both received alike is never called blocked.
NoFalseAlarm ==
  fetched.failure = "none" /\ control.http = "none" /\ fetched.page = control.page =>
    verdict.blocking = "false"

\* A page that only the control could fetch is never called accessible.
NoBlockingMissed ==
  fetched.failure # "none" /\ control.http = "none" => verdict.accessible = "false"

\* The page is blocked by TCP exactly when the names agree, the page could not be fetched
\* and some socket failed that the control reached, in whatever order the sockets ended.
TcpJustified ==
  verdict.blocking = "tcp_ip" <=>
    /\ verdict.dns = "consistent" /\ fetched.failure # "none"
    /\ \E i \in DOMAIN tcp : Failed(i) /\ Reached(tcp[i].ip)

\* The flag of a socket tells of that socket when the control knows it and all those that
\* ended before it.  After a socket that the control does not know the flags are those of
\* later ones, so that there the order in which the sockets ended decides.
FlagsRight ==
  \A i \in DOMAIN tcp : (\A j \in 1..i : tcp[j].ip \in DOMAIN control.tcp) =>
    tcp[i].blocked = IF Failed(i) /\ Reached(tcp[i].ip) THEN "true" ELSE "false"

\* The verdict follows from what the experiment and the control saw, and so do the flags
\* of the sockets up to the first one that the control does not know; without the control
\* there is no verdict.
VerdictSound ==
  pc = "done" /\ failure = "none" =>
    IF control.failed THEN verdict = NoVerdict
    ELSE NoFalseAlarm /\ NoBlockingMissed /\ TcpJustified /\ FlagsRight
================================================================================
