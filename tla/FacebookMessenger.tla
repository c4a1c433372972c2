--------------------------- MODULE FacebookMessenger ---------------------------
(***************************************************************************)
(* The facebook_messenger test (ooni/facebook_messenger.cpp): resolve the  *)
(* names of the services at once, connect at once to every address that    *)
(* was found, and set two flags for each service and two for all of them.  *)
(* An attempt to connect to an address may be refused before the function  *)
(* that starts it returns; when all of them are, the whole answer is       *)
(* computed inside the loop that is still setting the flags.               *)
(***************************************************************************)
EXTENDS Naturals, Sequences, SequencesExt

CONSTANTS
  Services,  \* a sequence: FB_SERVICE_HOSTNAMES in the order of the map, but for "stun"
  MaxAnswers \* bound: addresses of a name

VARIABLES
  pc,         \* the callbacks that are awaited
  open,       \* connections held
  unawaited,  \* those of them that are closed and that nothing waits for
  calls,      \* how many times callback was called
  failure,    \* not used by this test
  asked,      \* names whose query is not over
  ips,        \* fb_service_ips: for each address whether it is in Facebook's network
  trying,     \* attempts that are not over
  reached,    \* attempts that succeeded
  consistent, \* the keys facebook_*_dns_consistent that are set
  reachable,  \* the keys facebook_*_reachable that are set
  blocking    \* the keys facebook_dns_blocking and facebook_tcp_blocking that are set

vars == <<pc, open, unawaited, calls, failure, asked, ips, trying, reached, consistent,
          reachable, blocking>>

dns == <<asked, ips>>
flags == <<consistent, reachable, blocking>>

Tcp == Range(Services)
Names == Tcp \cup {"stun"}

Attempts == {a \in Tcp \X (1..MaxAnswers) : a[2] \in DOMAIN ips[a[1]]}

\* ip_in_fb_asn() for an address of the service.
Ours(name) == TRUE \in Range(ips[name])

Init ==
  /\ pc = "start" /\ open = 0 /\ unawaited = 0 /\ calls = 0 /\ failure = "none"
  /\ asked = {} /\ ips = <<>> /\ trying = {} /\ reached = {}
  /\ consistent = <<>> /\ reachable = <<>> /\ blocking = <<>>

CallBack == pc' = "done" /\ calls' = calls + 1

-----------------------------------------------------------------------------
Start ==
  /\ pc = "start" /\ pc' = "dns"
  /\ asked' = Names /\ ips' = [name \in Names |-> <<>>]
  /\ UNCHANGED <<open, unawaited, calls, failure, trying, reached, flags>>

\* A query that fails leaves its name without addresses.
Answer ==
  /\ pc = "dns"
  /\ \E name \in asked, answers \in BoundedSeq(BOOLEAN, MaxAnswers) :
       asked' = asked \ {name} /\ ips' = [ips EXCEPT ![name] = answers]
  /\ UNCHANGED <<open, unawaited, failure, reached>>

Resolved ==
  /\ Answer /\ asked' # {}
  /\ UNCHANGED <<pc, calls, trying, flags>>

\* No address to connect to: none of the flags is set, facebook_dns_blocking included.
NothingResolved ==
  /\ Answer /\ asked' = {} /\ Attempts' = {}
  /\ CallBack /\ UNCHANGED <<trying, flags>>

\* The last answer starts all the attempts; some of them may be refused at once.
Attempt ==
  /\ Answer /\ asked' = {} /\ pc' = "tcp"
  /\ \E refused \in SUBSET Attempts' : trying' = Attempts' \ refused
  /\ trying' # {}
  /\ consistent' = [name \in Names |-> Ours(name)']
  /\ reachable' = [s \in Tcp |-> FALSE]
  /\ blocking' = [key \in {"dns"} |-> \E name \in Names : ~consistent'[name]]
  /\ UNCHANGED calls

TcpBlocking(dns_consistent, tcp_reachable) ==
  \E s \in Tcp : dns_consistent[s] /\ ~tcp_reachable[s]

\* The loop is at the last service that has an address when its last attempt is refused.
\* The flag of a service after that one is not set yet, and to convert the null that is
\* read instead throws.  Otherwise the callback comes before the flag for the names is
\* set, and the caller copies the entry there.
AllRefused ==
  /\ Answer /\ asked' = {}
  /\ \E last \in DOMAIN Services :
       /\ ips'[Services[last]] # <<>>
       /\ \A k \in (last + 1)..Len(Services) : ips'[Services[k]] = <<>>
       /\ consistent' = [s \in {Services[k] : k \in 1..last} |-> Ours(s)']
       /\ reachable' = [s \in Tcp |-> FALSE]
       /\ \/ last < Len(Services) /\ pc' = "thrown" /\ UNCHANGED <<calls, blocking>>
          \/ last = Len(Services) /\ CallBack
               /\ blocking' = [key \in {"tcp"} |-> TcpBlocking(consistent', reachable')]
  /\ UNCHANGED trying

\* The last attempt to end computes the flag for all the services.
Conclude ==
  blocking' = [key \in {"dns", "tcp"} |->
                 IF key = "dns" THEN blocking.dns ELSE TcpBlocking(consistent, reachable')]

\* Mutant: an address outside of the network counts as well.
ReachesAny(a) == reachable' = [reachable EXCEPT ![a[1]] = TRUE]

\* Only an address in the network makes its service reachable.
Reaches(a) == reachable' = [reachable EXCEPT ![a[1]] = @ \/ ips[a[1]][a[2]]]

\* The last attempt waits for its connection to be closed, and for no other one.
Connected ==
  /\ pc = "tcp" /\ open' = open + 1
  /\ \E a \in trying :
       /\ trying' = trying \ {a} /\ reached' = reached \cup {a} /\ Reaches(a)
  /\ IF trying' = {} THEN pc' = "closing" /\ Conclude /\ UNCHANGED unawaited
     ELSE unawaited' = unawaited + 1 /\ UNCHANGED <<pc, blocking>>
  /\ UNCHANGED <<calls, failure, dns, consistent>>

NotConnected ==
  /\ pc = "tcp"
  /\ \E a \in trying : trying' = trying \ {a}
  /\ UNCHANGED reachable
  /\ IF trying' = {} THEN CallBack /\ Conclude ELSE UNCHANGED <<pc, calls, blocking>>
  /\ UNCHANGED <<open, unawaited, failure, dns, reached, consistent>>

Closed ==
  /\ pc = "closing" /\ CallBack
  /\ open' = open - 1
  /\ UNCHANGED <<unawaited, failure, dns, trying, reached, flags>>

\* The loop calls what shutdown() left to it, for a connection that nothing waits for.
Released ==
  /\ unawaited > 0
  /\ unawaited' = unawaited - 1 /\ open' = open - 1
  /\ UNCHANGED <<pc, calls, failure, dns, trying, reached, flags>>

Next ==
  \/ Start \/ Resolved \/ NothingResolved \/ Attempt \/ AllRefused
  \/ Connected \/ NotConnected \/ Closed \/ Released

Spec == Init /\ [][Next]_vars

-----------------------------------------------------------------------------
TypeOK ==
  /\ open \in Nat /\ unawaited \in 0..open /\ calls \in 0..1 /\ asked \subseteq Names
  /\ DOMAIN consistent \subseteq Names /\ DOMAIN reachable \in {{}, Tcp}
  /\ DOMAIN blocking \subseteq {"dns", "tcp"}
  /\ pc # "start" => reached \cup trying \subseteq Attempts

\* What a caller that sees all the addresses and attempts would say.
Unreached(s) == \A i \in DOMAIN ips[s] : ips[s][i] => <<s, i>> \notin reached

\* TCP is blocked exactly when a service with an address of Facebook was reached at
\* none of these; the names are blocked exactly when one has no such address.  TCP is
\* told whenever there was an attempt, and the names whenever one succeeded; when none
\* did, they are told or not, as the last attempt failed in the loop or before it.
VerdictSound ==
  pc = "done" =>
    /\ "tcp" \in DOMAIN blocking <=> Attempts # {}
    /\ "tcp" \in DOMAIN blocking => blocking.tcp = \E s \in Tcp : Ours(s) /\ Unreached(s)
    /\ "dns" \in DOMAIN blocking => blocking.dns = \E name \in Names : ~Ours(name)
    /\ reached # {} => "dns" \in DOMAIN blocking
================================================================================
