-------------------------------- MODULE Http --------------------------------
(***************************************************************************)
(* One HTTP request with its redirects (http/request.cpp) over connections *)
(* made by net::connect() (net/connect.cpp, net/socks5.cpp) to a name that *)
(* dns::resolve_hostname() resolves (dns/query.cpp).  Everything is one    *)
(* chain of callbacks in the thread of the loop: the state is how far the  *)
(* chain has come, and which connection it holds.                          *)
(*                                                                         *)
(* Each step is one callback of the loop.  The outcomes of the network,    *)
(* and those of calls into OpenSSL and the HTTP parser, are choices.  A    *)
(* server speaks only after it has received the request.                   *)
(***************************************************************************)
EXTENDS Naturals, Sequences

CONSTANTS
  MaxAddresses, \* bound: the addresses that one DNS query returns
  MaxRedirects, \* bound: the setting http/max_redirects
  MaxReads      \* bound: how many pieces a response comes in

ASSUME HttpAssumption ==
  /\ MaxAddresses \in Nat /\ MaxRedirects \in Nat /\ MaxReads \in Nat

VARIABLES
  pc,        \* the callback that is awaited
  limit,     \* the setting http/max_redirects
  proxy,     \* the setting net/socks5_proxy is given
  via,       \* how the server is reached: plain, tls or socks
  redirs,    \* num_redirs
  addresses, \* how many addresses the name resolved to
  index,     \* the address that connect_first_of() tries
  open,      \* how many bufferevents exist
  deaf,      \* an error of the connection to the proxy was ignored
  reads,     \* pieces of the response received
  valid,     \* valid_response: the headers were parsed
  ended,     \* reached_end: the whole message was parsed
  error,     \* the error that request_sendrecv() calls back with
  previous,  \* the responses that led here: what response->previous links
  reported,  \* the responses handed to the callback of the request
  result     \* the error handed to the callback of the request

setting == <<limit, proxy>>
search == <<via, addresses, index>>
parser == <<reads, valid, ended>>
outcome == <<reported, result>>
vars == <<pc, setting, search, redirs, open, deaf, parser, error, previous, outcome>>

Init ==
  /\ pc = "start"
  /\ limit \in 0..MaxRedirects /\ proxy \in BOOLEAN
  /\ via = "plain" /\ redirs = 0
  /\ addresses = 0 /\ index = 0 /\ open = 0 /\ deaf = FALSE
  /\ reads = 0 /\ valid = FALSE /\ ended = FALSE
  /\ error = "none"
  /\ previous = <<>> /\ reported = <<>> /\ result = "pending"

\* The callback of the request is called.
CallBack(err, responses) ==
  /\ pc' = "done"
  /\ result' = err
  /\ reported' = responses

-----------------------------------------------------------------------------
(***************************************************************************)
(* request() and request_connect(): wrong settings, then the URL, which    *)
(* redirect() has checked already when this is not the first request.      *)
(* When only max_redirects and the URL are right, and the connection then  *)
(* fails, the response that is handed over holds the request and no more.  *)
(***************************************************************************)
Start ==
  /\ pc = "start"
  /\ redirs = 0
  /\ \E responses \in {<<>>, <<"request">>} : CallBack("value", responses)
  /\ UNCHANGED <<setting, search, redirs, open, deaf, parser, error, previous>>

\* With a proxy connect() never comes to the lines that start TLS.
Resolve ==
  /\ pc = "start"
  /\ via' \in (IF proxy THEN {"socks"} ELSE {"plain", "tls", "socks"})
  /\ pc' = "resolve4"
  /\ UNCHANGED <<setting, redirs, addresses, index, open, deaf, parser, error, previous,
                 outcome>>

\* The name is an address: there is nothing to ask.
Literal ==
  /\ pc = "resolve4"
  /\ addresses' = 1
  /\ pc' = "attempt"
  /\ UNCHANGED <<setting, via, index, redirs, open, deaf, parser, error, previous, outcome>>

\* The answer to the query for IPv4: an error counts as no address.
Resolve4 ==
  /\ pc = "resolve4"
  /\ addresses' \in 0..MaxAddresses
  /\ pc' = "resolve6"
  /\ UNCHANGED <<setting, via, index, redirs, open, deaf, parser, error, previous, outcome>>

\* The answer to the query for IPv6, and connect_logic() goes on.
Resolve6 ==
  /\ pc = "resolve6"
  /\ addresses' \in addresses..(addresses + MaxAddresses)
  /\ IF addresses' = 0
       THEN CallBack("dns", <<"request">>)
       ELSE pc' = "attempt" /\ UNCHANGED outcome
  /\ UNCHANGED <<setting, via, index, redirs, open, deaf, parser, error, previous>>

-----------------------------------------------------------------------------
\* connect_base() fails before it waits, and has freed the bufferevent.
FailAtOnce ==
  /\ index < addresses
  /\ index' = index + 1
  /\ UNCHANGED <<pc, open, outcome>>

Connecting ==
  /\ index < addresses
  /\ open' = open + 1
  /\ pc' = "connecting"
  /\ UNCHANGED <<index, outcome>>

AllFailed ==
  /\ index = addresses
  /\ CallBack("connect", <<"request">>)
  /\ UNCHANGED <<index, open>>

\* Mutant: nobody is told when the last address failed.
AttemptSilently ==
  /\ pc = "attempt"
  /\ FailAtOnce \/ Connecting
  /\ UNCHANGED <<setting, via, addresses, redirs, deaf, parser, error, previous>>

\* connect_first_of(): the next address.
Attempt ==
  /\ pc = "attempt"
  /\ FailAtOnce \/ Connecting \/ AllFailed
  /\ UNCHANGED <<setting, via, addresses, redirs, deaf, parser, error, previous>>

\* Mutant: the bufferevent is not freed.
ConnectFailsOpen ==
  /\ pc = "connecting"
  /\ index' = index + 1
  /\ pc' = "attempt"
  /\ UNCHANGED <<setting, via, addresses, redirs, open, deaf, parser, error, previous, outcome>>

ConnectFails ==
  /\ pc = "connecting"
  /\ open' = open - 1
  /\ index' = index + 1
  /\ pc' = "attempt"
  /\ UNCHANGED <<setting, via, addresses, redirs, deaf, parser, error, previous, outcome>>

\* disable_nagle() may fail: connect() reports it and frees nothing.
Connected ==
  /\ pc = "connecting"
  /\ \/ CallBack("nagle", <<"request">>)
     \/ /\ pc' = CASE via = "plain" -> "send"
                   [] via = "tls" -> "handshake"
                   [] via = "socks" -> "auth"
        /\ UNCHANGED outcome
  /\ UNCHANGED <<setting, search, redirs, open, deaf, parser, error, previous>>

\* No SSL object, the handshake, the certificate, a wrong setting.
HandshakeFails ==
  /\ pc = "handshake"
  /\ open' = open - 1
  /\ CallBack("ssl", <<"request">>)
  /\ UNCHANGED <<setting, search, redirs, deaf, parser, error, previous>>

HandshakeDone ==
  /\ pc = "handshake"
  /\ pc' = "send"
  /\ UNCHANGED <<setting, search, redirs, open, deaf, parser, error, previous, outcome>>

(***************************************************************************)
(* Socks5: the answers to the two messages.  On an error the callback of   *)
(* connect() receives the Socks5 transport, and nobody closes it.          *)
(***************************************************************************)
ProxyRefuses ==
  /\ pc \in {"auth", "proxy"} /\ ~deaf
  /\ CallBack("socks", <<"request">>)
  /\ UNCHANGED <<setting, search, redirs, open, deaf, parser, error, previous>>

ProxyAccepts ==
  /\ pc \in {"auth", "proxy"} /\ ~deaf
  /\ pc' = (IF pc = "auth" THEN "proxy" ELSE "send")
  /\ UNCHANGED <<setting, search, redirs, open, deaf, parser, error, previous, outcome>>

(***************************************************************************)
(* A timeout, an error or the end of file on the connection to the proxy:  *)
(* Socks5 sets no error handler on it, so that nothing is called, and      *)
(* libevent stops reading.                                                 *)
(***************************************************************************)
ProxyFault ==
  /\ via = "socks" /\ pc \in {"auth", "proxy", "send", "receive"} /\ ~deaf
  /\ deaf' = TRUE
  /\ UNCHANGED <<pc, setting, search, redirs, open, parser, error, previous, outcome>>

-----------------------------------------------------------------------------
\* request_recv_response() first reads the setting http/ignore_body.
Sent ==
  /\ pc = "send"
  /\ \/ pc' = "receive" /\ UNCHANGED error
     \/ pc' = "close" /\ error' = "value"
  /\ UNCHANGED <<setting, search, redirs, open, deaf, parser, previous, outcome>>

\* The error handler of write() and read(): a timeout or another error.
TransportFails ==
  /\ via # "socks" /\ pc \in {"send", "receive"}
  /\ error' = (IF pc = "send" THEN "write" ELSE "network")
  /\ pc' = "close"
  /\ UNCHANGED <<setting, search, redirs, open, deaf, parser, previous, outcome>>

\* The parser needs more.
Parsed ==
  /\ valid' \in {valid, TRUE}
  /\ UNCHANGED <<pc, ended, error>>

\* The message is complete: the parser is paused.
ParsedAll ==
  /\ valid' = TRUE /\ ended' = TRUE
  /\ pc' = "close"
  /\ UNCHANGED error

\* Wrong bytes, or bytes that follow a complete message.
ParserFails ==
  /\ \/ ended' = FALSE /\ valid' \in {valid, TRUE}
     \/ ended' = TRUE /\ valid' = TRUE
  /\ error' = "parser"
  /\ pc' = "close"

Received ==
  /\ pc = "receive" /\ ~deaf
  /\ reads < MaxReads
  /\ reads' = reads + 1
  /\ Parsed \/ ParsedAll \/ ParserFails
  /\ UNCHANGED <<setting, search, redirs, open, deaf, previous, outcome>>

\* Mutant: the parser is not told of the end of file.
EofUnparsed ==
  /\ pc = "receive" /\ via # "socks"
  /\ error' = (IF valid THEN "none" ELSE "network")
  /\ pc' = "close"
  /\ UNCHANGED <<setting, search, redirs, open, deaf, parser, previous, outcome>>

(***************************************************************************)
(* The end of file.  After the headers it may be how the body ends, and    *)
(* the parser says whether it is.                                          *)
(***************************************************************************)
Eof ==
  /\ pc = "receive" /\ via # "socks"
  /\ \/ ~valid /\ error' = "network" /\ UNCHANGED ended
     \/ valid /\ ended' = TRUE /\ UNCHANGED error
     \/ valid /\ error' = "parser" /\ UNCHANGED ended
  /\ pc' = "close"
  /\ UNCHANGED <<setting, search, redirs, open, deaf, reads, valid, previous, outcome>>

-----------------------------------------------------------------------------
\* close(): what follows comes when the transport is destroyed.
Close ==
  /\ pc = "close"
  /\ open' = open - 1
  /\ pc' = "closed"
  /\ UNCHANGED <<setting, search, redirs, deaf, parser, error, previous, outcome>>

(***************************************************************************)
(* On an error the response goes without those that led to it: with its    *)
(* request when that could not be sent, with what was parsed of it when    *)
(* its headers were, else with nothing in it.                              *)
(***************************************************************************)
Remains ==
  CASE error = "write" -> "request"
    [] error # "write" /\ valid -> "partial"
    [] error # "write" /\ ~valid -> "empty"

Failed ==
  /\ pc = "closed"
  /\ error # "none"
  /\ CallBack(error, <<Remains>>)
  /\ UNCHANGED <<setting, search, redirs, open, deaf, parser, error, previous>>

Responses(status) == Append(previous, status)

\* The response is the answer: not a redirect, or redirects are not followed.
Succeeded ==
  /\ pc = "closed"
  /\ error = "none"
  /\ \E status \in {"redirect", "other"} :
       /\ status = "redirect" => limit = 0
       /\ CallBack("ok", Responses(status))
  /\ UNCHANGED <<setting, search, redirs, open, deaf, parser, error, previous>>

\* A redirect without a location, with a wrong one, or one too many.
RedirectFails ==
  /\ pc = "closed"
  /\ error = "none" /\ limit > 0
  /\ \/ CallBack("location", Responses("redirect"))
     \/ redirs >= limit /\ CallBack("too_many", Responses("redirect"))
  /\ UNCHANGED <<setting, search, redirs, open, deaf, parser, error, previous>>

\* The next request starts from scratch, but for the responses so far.
Redirect ==
  /\ pc = "closed"
  /\ error = "none" /\ redirs < limit
  /\ previous' = Responses("redirect")
  /\ redirs' = redirs + 1
  /\ pc' = "start"
  /\ addresses' = 0 /\ index' = 0
  /\ reads' = 0 /\ valid' = FALSE /\ ended' = FALSE
  /\ UNCHANGED <<setting, via, open, deaf, error, outcome>>

-----------------------------------------------------------------------------
Next ==
  \/ Start \/ Resolve \/ Literal \/ Resolve4 \/ Resolve6
  \/ Attempt \/ ConnectFails \/ Connected
  \/ HandshakeFails \/ HandshakeDone
  \/ ProxyRefuses \/ ProxyAccepts \/ ProxyFault
  \/ Sent \/ TransportFails \/ Received \/ Eof
  \/ Close \/ Failed \/ Succeeded \/ RedirectFails \/ Redirect

Spec == Init /\ [][Next]_vars

(***************************************************************************)
(* The loop runs, and a wait ends: libevent times out every bufferevent    *)
(* (connect_impl.hpp:81), and an answer comes in finitely many pieces.     *)
(***************************************************************************)
FairSpec == Spec /\ WF_vars(Next)

-----------------------------------------------------------------------------
(***************************************************************************)
(* A request holds one connection at a time, however many addresses and    *)
(* redirects it goes through, and none when it calls back, with two        *)
(* exceptions: the errors of disable_nagle() (connect.cpp:134) and of the  *)
(* exchange with the proxy (socks5.cpp:157) leave the connection open.     *)
(***************************************************************************)
ConnectionsReleased ==
  /\ open = (IF \/ pc \in {"connecting", "handshake", "auth", "proxy", "send", "receive",
                           "close"}
                \/ result \in {"nagle", "socks"} THEN 1 ELSE 0)

(***************************************************************************)
(* When a request succeeds, or ends at a redirect that it cannot follow,   *)
(* the responses handed over are all of them, in order, each completely    *)
(* parsed: as many as requests were sent, no more than http/max_redirects  *)
(* allows, all redirects but the last.  With redirects followed, success   *)
(* ends with a response that is none.  After any other error one response  *)
(* at most is handed over, never the chain, and it holds an answer only    *)
(* when the headers of that answer were parsed.                            *)
(***************************************************************************)
Answered == result \in {"ok", "location", "too_many"}

ChainComplete ==
  /\ Answered =>
       /\ ended
       /\ Len(reported) = redirs + 1 /\ redirs <= limit
       /\ \A i \in 1..redirs : reported[i] = "redirect"
       /\ result = "ok" /\ limit > 0 => reported[redirs + 1] = "other"
  /\ ~Answered =>
       \/ reported \in {<<>>, <<"request">>, <<"empty">>}
       \/ reported = <<"partial">> /\ valid

(***************************************************************************)
(* Every request calls back, unless an error of the connection to a proxy  *)
(* was ignored.                                                            *)
(***************************************************************************)
RequestEnds == <>(pc = "done" \/ deaf)

(***************************************************************************)
(* include/measurement_kit/README.md:298 "net/timeout: (double) number of  *)
(* seconds after which network I/O operations will timeout".  A timeout on *)
(* the connection to a SOCKS5 proxy reaches nobody, and the request waits  *)
(* for ever.                                                               *)
(***************************************************************************)
TimeoutEndsRequest == deaf ~> pc = "done"
=============================================================================
