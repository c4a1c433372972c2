-------------------------------- MODULE Whatsapp --------------------------------
(***************************************************************************)
(* The whatsapp test (ooni/whatsapp.cpp): request the registration server, *)
(* then the two pages of the web client at once, then resolve the names of *)
(* the endpoints at once, then connect at once to every address and port.  *)
(* An endpoint is blocked when it has addresses of WhatsApp's networks and *)
(* none of them was reached, and inconsistent when it has none of these.   *)
(* The connections of its requests are those of Http.                      *)
(***************************************************************************)
EXTENDS Naturals, Sequences, FiniteSets, SequencesExt

CONSTANTS
  Hosts,     \* a sequence: the endpoints in the order of the map host_to_ips
  Ports,     \* the ports of an address that are tried
  MaxAnswers \* bound: addresses of a name

VARIABLES
  pc,        \* the callbacks that are awaited
  open,      \* connections held: each is closed once it is made, and nothing waits for that
  calls,     \* how many times callback was called
  failure,   \* not used by this test
  asked,     \* requests or queries that are not over
  ips,       \* host_to_ips: for each address whether it is in WHATSAPP_NETS
  trying,    \* attempts that are not over
  reached,   \* attempts that succeeded
  servers,   \* registration_server_status and whatsapp_web_status
  endpoints  \* the keys whatsapp_endpoints_*, and blocked_hostnames as hosts

vars == <<pc, open, calls, failure, asked, ips, trying, reached, servers, endpoints>>

Unset == [status |-> "unset", blocked |-> {}, inconsistent |-> {}, hosts |-> {}]

Pages == [registration_server |-> 1, whatsapp_web |-> 2]

Attempts == UNION {{h} \X (DOMAIN ips[h]) \X Ports : h \in DOMAIN ips}

Ours(h) == TRUE \in Range(ips[h])

Init ==
  /\ pc = "start" /\ open = 0 /\ calls = 0 /\ failure = "none"
  /\ asked = {} /\ ips = <<>> /\ trying = {} /\ reached = {}
  /\ servers = [s \in DOMAIN Pages |-> "unset"] /\ endpoints = Unset

CallBack == pc' = "done" /\ calls' = calls + 1

-----------------------------------------------------------------------------
Start ==
  /\ pc = "start" /\ pc' = "registration_server"
  /\ asked' = 1..Pages[pc'] /\ servers' = [servers EXCEPT ![pc'] = "ok"]
  /\ UNCHANGED <<open, calls, failure, ips, trying, reached, endpoints>>

\* http_many(): a request that fails blocks its server; the last one to end starts
\* what comes next.
Requested ==
  /\ pc \in DOMAIN Pages
  /\ \E url \in asked, status \in {servers[pc], "blocked"} :
       LET seen == [servers EXCEPT ![pc] = status]
       IN  \/ /\ asked # {url} /\ asked' = asked \ {url}
              /\ servers' = seen /\ UNCHANGED pc
           \/ /\ asked = {url} /\ pc = "registration_server" /\ pc' = "whatsapp_web"
              /\ asked' = 1..Pages[pc'] /\ servers' = [seen EXCEPT ![pc'] = "ok"]
           \/ /\ asked = {url} /\ pc = "whatsapp_web" /\ pc' = "dns"
              /\ asked' = Range(Hosts) /\ servers' = seen
  /\ UNCHANGED <<open, calls, failure, ips, trying, reached, endpoints>>

\* dns_many(): a name that has no address is not in the map.
Answer ==
  /\ pc = "dns"
  /\ \E h \in asked, answers \in BoundedSeq(BOOLEAN, MaxAnswers) :
       /\ asked' = asked \ {h}
       /\ ips' = [g \in DOMAIN ips \cup {x \in {h} : answers # <<>>} |->
                    IF g = h THEN answers ELSE ips[g]]
  /\ UNCHANGED <<open, failure, reached, servers>>

Resolved ==
  /\ Answer /\ asked' # {}
  /\ UNCHANGED <<pc, calls, trying, endpoints>>

\* What tcp_many() sets before its loop.
Fresh == [Unset EXCEPT !.status = "blocked"]

NothingResolved ==
  /\ Answer /\ asked' = {} /\ Attempts' = {}
  /\ CallBack /\ endpoints' = Fresh
  /\ UNCHANGED trying

\* The last answer starts all the attempts, of which some may be refused at once.  The
\* loop moves each host without a good address to the inconsistent ones.
Attempt ==
  /\ Answer /\ asked' = {} /\ pc' = "tcp"
  /\ \E refused \in SUBSET Attempts' : trying' = Attempts' \ refused
  /\ trying' # {}
  /\ endpoints' = [Fresh EXCEPT !.hosts = {h \in DOMAIN ips' : Ours(h)'},
                                !.inconsistent = {h \in DOMAIN ips' : ~Ours(h)'}]
  /\ UNCHANGED calls

\* The callback comes from the loop, before its last host is moved: that host is blocked
\* whether its addresses are good or not.
AllRefused ==
  /\ Answer /\ asked' = {}
  /\ \E last \in DOMAIN Hosts :
       /\ Hosts[last] \in DOMAIN ips'
       /\ \A k \in (last + 1)..Len(Hosts) : Hosts[k] \notin DOMAIN ips'
       /\ LET blocked == {h \in DOMAIN ips' : Ours(h)' \/ h = Hosts[last]}
          IN  endpoints' = [Fresh EXCEPT !.hosts = blocked, !.blocked = blocked,
                                         !.inconsistent = DOMAIN ips' \ blocked]
  /\ CallBack /\ UNCHANGED trying

\* Mutant: an address outside of the networks counts as well.
UnblockAny(a) ==
  endpoints' = [endpoints EXCEPT !.status = "ok", !.hosts = @ \ {a[1]},
                  !.blocked = IF trying = {a} THEN endpoints.hosts \ {a[1]} ELSE @]

\* A connection to a good address; the last attempt lists the hosts that are left.
Unblock(a) ==
  LET good == ips[a[1]][a[2]]
      hosts == IF good THEN endpoints.hosts \ {a[1]} ELSE endpoints.hosts
  IN  endpoints' = [endpoints EXCEPT !.status = IF good THEN "ok" ELSE @, !.hosts = hosts,
                                     !.blocked = IF trying = {a} THEN hosts ELSE @]

EndsAttempt(a) ==
  /\ pc = "tcp" /\ trying' = trying \ {a}
  /\ IF trying' = {} THEN CallBack ELSE UNCHANGED <<pc, calls>>
  /\ UNCHANGED <<failure, asked, ips, servers>>

\* txp->close(nullptr) comes right before the callback of the last attempt, so that its
\* connection is still held there.
Connected ==
  \E a \in trying :
    /\ EndsAttempt(a) /\ open' = open + 1
    /\ reached' = reached \cup {a} /\ Unblock(a)

NotConnected ==
  \E a \in trying :
    /\ EndsAttempt(a) /\ UNCHANGED <<open, reached>>
    /\ endpoints' = IF trying = {a} THEN [endpoints EXCEPT !.blocked = endpoints.hosts]
                    ELSE endpoints

\* What shutdown() asked of the loop: a connection that was closed goes.
Released ==
  /\ open > 0 /\ open' = open - 1
  /\ UNCHANGED <<pc, calls, failure, asked, ips, trying, reached, servers, endpoints>>

Next ==
  \/ Start \/ Requested \/ Resolved \/ NothingResolved \/ Attempt \/ AllRefused
  \/ Connected \/ NotConnected \/ Released

Spec == Init /\ [][Next]_vars

-----------------------------------------------------------------------------
TypeOK ==
  /\ open \in Nat /\ calls \in 0..1 /\ DOMAIN ips \subseteq Range(Hosts)
  /\ reached \cup trying \subseteq Attempts
  /\ servers \in [DOMAIN Pages -> {"unset", "ok", "blocked"}]
  /\ endpoints.blocked \cup endpoints.inconsistent \subseteq DOMAIN ips

\* The hosts that were reached at a good address.
Reached == {h \in DOMAIN ips : \E a \in reached : a[1] = h /\ ips[h][a[2]]}

\* The last of the names that have an address, in the order of the loop of tcp_many().
LastName(h) ==
  \E k \in DOMAIN Hosts : Hosts[k] = h /\ \A j \in (k + 1)..Len(Hosts) : Hosts[j] \notin DOMAIN ips

\* Each name that has an address ends as reached, blocked or inconsistent, and as one of
\* these only, and what is called inconsistent has no good address.  What is called
\* blocked has one, as the comment of the loop says, but for one name when no attempt
\* succeeded: the last, which is called blocked if all the attempts were refused before
\* the loop came to move it.
VerdictSound ==
  pc = "done" =>
    /\ endpoints.status = "ok" <=> Reached # {}
    /\ endpoints.blocked \cup endpoints.inconsistent = DOMAIN ips \ Reached
    /\ endpoints.blocked \cap endpoints.inconsistent = {}
    /\ \A h \in endpoints.inconsistent : ~Ours(h)
    /\ \A h \in endpoints.blocked : Ours(h) \/ (reached = {} /\ LastName(h))
=================================================================================
