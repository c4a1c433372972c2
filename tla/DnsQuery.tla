------------------------------- MODULE DnsQuery -------------------------------
(***************************************************************************)
(* A query to a name server over libevent (dns/libevent_query.hpp): the    *)
(* base is created for the query, and it must be freed on each of the      *)
(* paths out of it, directly or with the context that then owns it.        *)
(* libevent is external: it may refuse a query, or call back later.        *)
(***************************************************************************)
EXTENDS Naturals

VARIABLES
  pc,        \* the callback that is awaited
  open,      \* connections held: none, the sockets belong to the base
  calls,     \* how many times cb was called
  failure,   \* the error that it is called with
  type,      \* dns_type
  bases,     \* how many bases were created
  freed,     \* how many times evdns_base_free() was called
  context    \* whether there is a QueryContext, which frees its base

vars == <<pc, open, calls, failure, type, bases, freed, context>>

Types == {"A", "AAAA", "REVERSE_A", "REVERSE_AAAA"}

Init ==
  /\ pc = "start" /\ open = 0 /\ calls = 0 /\ failure = "none"
  /\ type = "A" /\ bases = 0 /\ freed = 0 /\ context = FALSE

CallBack(err) == calls' = calls + 1 /\ failure' = err

\* The engine is not known, or the CNAME is asked for, which this one cannot do.
NotPossible ==
  /\ pc = "start" /\ pc' = "done"
  /\ \E err \in {"engine", "option", "not_implemented"} : CallBack(err)
  /\ UNCHANGED <<open, type, bases, freed, context>>

\* create_evdns_base(): when an option is wrong the smart pointer frees the base.
CreateFails ==
  /\ pc = "start" /\ pc' = "done"
  /\ bases' = bases + 1 /\ freed' = freed + 1
  /\ CallBack("generic")
  /\ UNCHANGED <<open, type, context>>

Create ==
  /\ pc = "start" /\ pc' = "created"
  /\ type' \in Types \cup {"PTR", "other"}
  /\ bases' = bases + 1
  /\ UNCHANGED <<open, calls, failure, freed, context>>

\* What frees the base before there is a context.
GiveUp(err) ==
  /\ pc' = "done" /\ freed' = freed + 1
  /\ CallBack(err)
  /\ UNCHANGED <<open, bases, context>>

\* The class is not IN, or the type is none of those that can be asked.
WrongClass == pc = "created" /\ GiveUp("class") /\ UNCHANGED type

WrongType == pc = "created" /\ type = "other" /\ GiveUp("type") /\ UNCHANGED type

\* A name that is no reversed address.
WrongName == pc = "created" /\ type = "PTR" /\ GiveUp("name") /\ UNCHANGED type

Unreversed ==
  /\ pc = "created" /\ type = "PTR"
  /\ type' \in {"REVERSE_A", "REVERSE_AAAA"}
  /\ UNCHANGED <<pc, open, calls, failure, bases, freed, context>>

\* inet_pton() does not take the address.
WrongAddress ==
  /\ pc = "created" /\ type \in {"REVERSE_A", "REVERSE_AAAA"}
  /\ GiveUp("address") /\ UNCHANGED type

\* Mutant: the base is freed next to the context that owns it.
RefusedTwice ==
  /\ pc = "created" /\ type \in Types
  /\ pc' = "done" /\ freed' = freed + 2
  /\ CallBack("resolver")
  /\ UNCHANGED <<open, type, bases, context>>

\* libevent refuses the query: the context goes, and the base with it.
Refused ==
  /\ pc = "created" /\ type \in Types
  /\ pc' = "done" /\ freed' = freed + 1
  /\ CallBack("resolver")
  /\ UNCHANGED <<open, type, bases, context>>

Asked ==
  /\ pc = "created" /\ type \in Types
  /\ pc' = "asked" /\ context' = TRUE
  /\ UNCHANGED <<open, calls, failure, type, bases, freed>>

\* dns_callback(): the caller first, and an Error that it throws goes no further.
Answered ==
  /\ pc = "asked" /\ pc' = "answered"
  /\ \E err \in {"none", "dns_error"} : CallBack(err)
  /\ UNCHANGED <<open, type, bases, freed, context>>

\* Then the context, which the rest of dns_callback() owns.
Delete ==
  /\ pc = "answered" /\ pc' = "done"
  /\ context' = FALSE /\ freed' = freed + 1
  /\ UNCHANGED <<open, calls, failure, type, bases>>

\* An exception leaves dns_callback() on its way to the loop, of which libevent knows
\* nothing: a std::runtime_error for an answer that cannot be, before the caller is told,
\* or one of the caller that is no Error.  The context stays, and the base with it.
Thrown ==
  /\ pc = "asked" /\ pc' = "thrown"
  /\ UNCHANGED <<calls, failure>> \/ \E err \in {"none", "dns_error"} : CallBack(err)
  /\ UNCHANGED <<open, type, bases, freed, context>>

Next ==
  \/ NotPossible \/ CreateFails \/ Create \/ WrongClass \/ WrongType \/ WrongName
  \/ Unreversed \/ WrongAddress \/ Refused \/ Asked \/ Answered \/ Thrown \/ Delete

Spec == Init /\ [][Next]_vars

-----------------------------------------------------------------------------
TypeOK ==
  /\ open = 0 /\ calls \in 0..1 /\ bases \in 0..1 /\ freed \in Nat /\ context \in BOOLEAN
  /\ type \in Types \cup {"PTR", "other"}

\* A base is there for as long as libevent may use it, and it is freed once, unless an
\* exception ends the query.
BaseFreedOnce ==
  /\ freed <= bases
  /\ context => freed < bases
  /\ pc = "done" => freed = bases
===============================================================================
