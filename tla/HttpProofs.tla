----------------------------- MODULE HttpProofs -----------------------------
(***************************************************************************)
(* For any number of addresses, redirects and pieces of a response, a      *)
(* request holds one connection at a time and releases it before it calls  *)
(* back, but for the two errors that leak it; and the responses that it    *)
(* hands over with an answer are the whole chain that http/request.cpp     *)
(* followed.                                                               *)
(***************************************************************************)
EXTENDS Http, SequenceTheorems, TLAPS

\* The callbacks that are awaited with a connection, and those without.
Attached == {"connecting", "handshake", "auth", "proxy", "send", "receive", "close"}
Detached == {"start", "resolve4", "resolve6", "attempt", "closed"}

HttpTypeOK ==
  /\ pc \in Attached \union Detached \union {"done"}
  /\ via \in {"plain", "tls", "socks"}
  /\ limit \in Nat /\ redirs \in Nat /\ open \in Nat
  /\ ended \in BOOLEAN
  /\ error \in {"none", "value", "write", "network", "parser"}
  /\ previous \in Seq({"redirect"})

\* Nothing is reported before the end; an error is set when the connection is closed.
NotOver ==
  /\ pc # "done" => result = "pending" /\ reported = <<>>
  /\ pc \notin {"close", "closed", "done"} => error = "none"

\* What was followed so far, and what the parser said of a response that is kept.
Chain ==
  /\ Len(previous) = redirs /\ redirs <= limit
  /\ pc \in {"close", "closed"} /\ error = "none" => ended

IInv == HttpTypeOK /\ NotOver /\ Chain /\ ConnectionsReleased /\ ChainComplete

LEMMA InitIInv == Init => IInv
<1>. SUFFICES ASSUME Init
              PROVE  IInv
  OBVIOUS
<1>1. previous \in Seq({"redirect"}) /\ Len(previous) = 0
  BY EmptySeq DEF Init
<1>2. /\ limit \in Nat /\ redirs = 0
      /\ pc = "start" /\ via = "plain" /\ open = 0 /\ ended = FALSE /\ error = "none"
  BY HttpAssumption DEF Init
<1>3. HttpTypeOK
  <2>1. ended \in BOOLEAN
    BY <1>2, Zenon
  <2>2. /\ pc \in Attached \union Detached \union {"done"}
        /\ via \in {"plain", "tls", "socks"}
        /\ redirs \in Nat /\ open \in Nat
        /\ error \in {"none", "value", "write", "network", "parser"}
    BY <1>2 DEF Attached, Detached
  <2>. QED
    BY <1>1, <1>2, <2>1, <2>2 DEF HttpTypeOK
<1>4. NotOver /\ Chain /\ ConnectionsReleased /\ ChainComplete
  BY <1>1, <1>2 DEF Init, NotOver, Chain, ConnectionsReleased, ChainComplete, Answered
<1>. QED
  BY <1>3, <1>4 DEF IInv

\* The chain with the response that was parsed last.
LEMMA ChainGrows ==
  ASSUME Chain, HttpTypeOK, NEW status \in {"redirect", "other"}
  PROVE  /\ Responses(status) # <<>>
         /\ Len(Responses(status)) = redirs + 1
         /\ \A i \in 1..redirs : Responses(status)[i] = "redirect"
         /\ Responses(status)[redirs + 1] = status
         /\ status = "redirect" => Responses(status) \in Seq({"redirect"})
<1>1. previous \in Seq({"redirect"}) /\ Len(previous) = redirs /\ redirs \in Nat
  BY DEF Chain, HttpTypeOK
<1>2. previous \in Seq({"redirect", "other"})
  BY <1>1
<1>3. /\ Len(Append(previous, status)) = redirs + 1
      /\ \A i \in 1..redirs : Append(previous, status)[i] = previous[i]
      /\ Append(previous, status)[redirs + 1] = status
  BY <1>1, <1>2, AppendProperties
<1>4. \A i \in 1..redirs : previous[i] = "redirect"
  BY <1>1
<1>5. Append(previous, status) # <<>>
  <2>1. Len(<<>>) = 0
    BY EmptySeq
  <2>2. Len(Append(previous, status)) # 0
    BY <1>1, <1>3
  <2>. QED
    BY <2>1, <2>2, Zenon
<1>6. status = "redirect" => Append(previous, status) \in Seq({"redirect"})
  BY <1>1, AppendProperties
<1>. QED
  BY <1>3, <1>4, <1>5, <1>6 DEF Responses

\* The steps in which the parser and the responses have no part.
LEMMA ConnectStep ==
  ASSUME IInv,
         \/ Start \/ Resolve \/ Literal \/ Resolve4 \/ Resolve6
         \/ Attempt \/ ConnectFails \/ Connected \/ HandshakeFails \/ HandshakeDone
         \/ ProxyRefuses \/ ProxyAccepts \/ ProxyFault
  PROVE  IInv'
<1>. USE DEF IInv, HttpTypeOK, Attached, Detached, NotOver, Chain, ConnectionsReleased,
             ChainComplete, Answered, CallBack, setting, search, parser, outcome
<1>1. CASE Start \/ Resolve \/ Literal \/ Resolve4 \/ Resolve6
  BY <1>1 DEF Start, Resolve, Literal, Resolve4, Resolve6
<1>2. CASE Attempt
  BY <1>2 DEF Attempt, FailAtOnce, Connecting, AllFailed
<1>3. CASE ConnectFails
  BY <1>3 DEF ConnectFails
<1>4. CASE Connected
  <2>1. /\ pc = "connecting" /\ open = 1
        /\ \/ pc' = "done" /\ result' = "nagle" /\ reported' = <<"request">>
           \/ pc' \in {"send", "handshake", "auth"} /\ UNCHANGED <<reported, result>>
        /\ UNCHANGED <<limit, via, redirs, open, ended, error, previous>>
    BY <1>4 DEF Connected
  <2>. QED
    BY <2>1
<1>5. CASE HandshakeFails \/ HandshakeDone
  BY <1>5 DEF HandshakeFails, HandshakeDone
<1>6. CASE ProxyRefuses \/ ProxyAccepts \/ ProxyFault
  BY <1>6 DEF ProxyRefuses, ProxyAccepts, ProxyFault
<1>. QED
  BY <1>1, <1>2, <1>3, <1>4, <1>5, <1>6

\* The request is sent, and its response read until the parser or the network ends it.
LEMMA ResponseStep ==
  ASSUME IInv, Sent \/ TransportFails \/ Received \/ Eof \/ Close
  PROVE  IInv'
<1>. USE DEF IInv, HttpTypeOK, Attached, Detached, NotOver, Chain, ConnectionsReleased,
             ChainComplete, Answered, setting, search, parser, outcome
<1>1. CASE Sent \/ TransportFails
  BY <1>1 DEF Sent, TransportFails
<1>2. CASE Received
  BY <1>2 DEF Received, Parsed, ParsedAll, ParserFails
<1>3. CASE Eof
  BY <1>3 DEF Eof
<1>4. CASE Close
  BY <1>4 DEF Close
<1>. QED
  BY <1>1, <1>2, <1>3, <1>4

\* The connection is closed: the request ends with an error or its responses, or goes on.
LEMMA ClosedStep ==
  ASSUME IInv, Failed \/ Succeeded \/ RedirectFails \/ Redirect
  PROVE  IInv'
<1>. USE DEF IInv
<1>1. CASE Failed
  <2>1. /\ pc = "closed" /\ pc' = "done" /\ error # "none"
        /\ result' = error /\ reported' = <<Remains>>
        /\ UNCHANGED <<limit, via, redirs, open, ended, valid, error, previous>>
    BY <1>1 DEF Failed, CallBack, setting, search, parser
  <2>2. result' \in {"value", "write", "network", "parser"}
    BY <2>1 DEF HttpTypeOK
  <2>3. Remains \in {"request", "empty"} \/ (Remains = "partial" /\ valid)
    BY DEF Remains
  <2>4. ChainComplete'
    BY <2>1, <2>2, <2>3 DEF ChainComplete, Answered
  <2>. QED
    BY <2>1, <2>2, <2>4 DEF HttpTypeOK, NotOver, Chain, ConnectionsReleased
<1>2. CASE Succeeded \/ RedirectFails
  <2>1. PICK status \in {"redirect", "other"} :
          /\ reported' = Responses(status) /\ result' \in {"ok", "location", "too_many"}
          /\ result' = "ok" /\ limit > 0 => status = "other"
    BY <1>2 DEF Succeeded, RedirectFails, CallBack, HttpTypeOK
  <2>2. /\ pc = "closed" /\ pc' = "done" /\ error = "none"
        /\ UNCHANGED <<limit, via, redirs, open, ended, error, previous>>
    BY <1>2 DEF Succeeded, RedirectFails, CallBack, setting, search, parser
  <2>3. ChainComplete'
    BY <2>1, <2>2, ChainGrows DEF ChainComplete, Answered, Chain
  <2>4. ConnectionsReleased'
    BY <2>1, <2>2 DEF ConnectionsReleased, NotOver, HttpTypeOK
  <2>. QED
    BY <2>2, <2>3, <2>4 DEF HttpTypeOK, NotOver, Chain
<1>3. CASE Redirect
  <2>1. /\ pc = "closed" /\ pc' = "start" /\ redirs < limit
        /\ error = "none" /\ previous' = Responses("redirect") /\ redirs' = redirs + 1
        /\ ended' = FALSE /\ UNCHANGED <<limit, via, open, error, reported, result>>
    BY <1>3 DEF Redirect, setting, outcome
  <2>2. previous' \in Seq({"redirect"}) /\ Len(previous') = redirs'
    BY <2>1, ChainGrows
  <2>3. limit \in Nat /\ redirs \in Nat /\ redirs' \in Nat /\ redirs' <= limit
    BY <2>1 DEF HttpTypeOK
  <2>5. HttpTypeOK'
    BY <2>1, <2>2, <2>3 DEF HttpTypeOK, Detached
  <2>6. Chain'
    BY <2>1, <2>2, <2>3 DEF Chain
  <2>4. NotOver' /\ ChainComplete' /\ ConnectionsReleased'
    BY <2>1 DEF NotOver, ChainComplete, Answered, ConnectionsReleased
  <2>. QED
    BY <2>4, <2>5, <2>6
<1>. QED
  BY <1>1, <1>2, <1>3

LEMMA NextIInv == IInv /\ [Next]_vars => IInv'
<1>1. IInv /\ UNCHANGED vars => IInv'
  BY DEF vars, setting, search, parser, outcome, IInv, HttpTypeOK, NotOver, Chain,
         ConnectionsReleased, ChainComplete, Answered
<1>. QED
  BY <1>1, ConnectStep, ResponseStep, ClosedStep DEF Next

\* How far a request of http/request.cpp has come, what it holds and what it has parsed.
THEOREM HttpInvariant == FairSpec => []IInv
BY InitIInv, NextIInv, PTL DEF FairSpec, Spec

(***************************************************************************)
(* ConnectionsReleased: one connection at a time, and none at the callback *)
(* but after the errors of disable_nagle() (net/connect.cpp) and of the    *)
(* exchange with the proxy (net/socks5.cpp).                               *)
(***************************************************************************)
THEOREM RequestsReleaseConnections == FairSpec => []ConnectionsReleased
<1>1. IInv => ConnectionsReleased
  BY DEF IInv
<1>. QED
  BY <1>1, HttpInvariant, PTL

(***************************************************************************)
(* ChainComplete: when it has an answer, request() of http/request.cpp     *)
(* hands over all of the responses of a chain of redirects, in order, each *)
(* parsed to its end; after an error, one response at most and no chain.   *)
(***************************************************************************)
THEOREM RequestsReportTheChain == FairSpec => []ChainComplete
<1>1. IInv => ChainComplete
  BY DEF IInv
<1>. QED
  BY <1>1, HttpInvariant, PTL
=============================================================================
