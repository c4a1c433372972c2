# Measurement Kit in TLA+

This directory holds TLA+ models of the C++ library in `src/src/libmeasurement_kit`,
the TLC configurations that check them, and proofs of their main properties that
the TLA+ proof system (TLAPS) checks. File names below are relative to
`src/libmeasurement_kit` of the repository unless they say otherwise.

## 1. The system

An application creates a `Task` (engine.cpp) from JSON settings. The task runs a
nettest on a thread of its own: the thread waits for a process-wide semaphore,
validates the settings, builds a `Runnable` (nettests/runnable.cpp) and runs it
inside the event loop of a `Reactor` (common/libevent_reactor.hpp). Everything a
nettest does is a chain of callbacks run by that loop; only blocking name
resolution leaves it, for the threads of a `Worker` (common/worker.cpp). What
happens is told to the application as JSON events, through a queue that a
controller thread reads.

### Components

| Component | State | Operations | Interacts with |
|---|---|---|---|
| Worker (common/worker.cpp) | queue of callbacks, count of active threads, limit, one mutex | `call_in_thread`, the thread loop, `set_parallelism`, `concurrency` | its threads; Reactor |
| Reactor (common/libevent_reactor.hpp) | libevent's event base (external), a Worker, data usage | `run`, `stop`, `call_soon`, `call_later`, `pollin_once`, `pollout_once`, `call_in_thread` | libevent; Worker; everything asynchronous |
| Engine (engine.cpp) | per task: event queue, mutex, condition, `running`, `interrupted`; one static semaphore | task thread, `is_done`, `wait_for_next_event`, `interrupt`, destructor | application threads; Runnable; Reactor; Logger |
| parallel() (common/parallel.hpp) | counter of completed operations, overall error | start, continuation | Report, Runnable, Dash, NDT, nettests |
| Report (report/*.cpp) | per reporter: opened, closed, previous entry; file stream; report identifier | `open`, `write_entry`, `close` | parallel(); collector client; Runnable |
| Runnable (nettests/runnable.cpp) | list of inputs, counter of entries, options, report | `begin`, the measurement loop, `end` | bouncer, geolocation, Report, parallel(), the test's `main` |
| Transport (net/*emitter*, net/transport.cpp) | handlers, closing flag, output buffer, bufferevent (external) | `on_*`, `emit_*`, `write`, `read`, `readn`, `close` | libevent; every protocol |
| Connect (net/connect*) | list of errors, index of the address, connections so far | resolve, try each address, handshake, connect many | dns, libssl, Transport |
| SOCKS5 (net/socks5.cpp), HTTP (http/*), DNS (dns/*) | position in the exchange, parser state, redirect count | send, receive, follow redirects | Transport |
| OONI clients (ooni/collector*, bouncer*, orchestrate*) | the exchange with a server, the credentials, the file that is sent again | create/update/close a report, `submit_report`, query, register, login, update | HTTP |
| OONI tests (ooni/web_connectivity.cpp, whatsapp.cpp, ...) | the entry, counters of the requests that ended | one function each: requests in parallel, then a verdict | dns, HTTP, Transport; Runnable |
| NDT (ndt/*), DASH (neubot/*), multi_ndt, mlabns | phase of the protocol, streams, the rate, the record | login, tests, logout; negotiate, measure, collect | Transport, HTTP, connect_many |
| DNS over libevent (dns/libevent_query.hpp) | an evdns base and the context that owns it | `libevent_query` | libevent |
| Logger (common/logger.cpp) | handlers, progress scale and offset, one recursive mutex | `log`, `progress`, `emit_event_ex` | Engine |

### What is hard, and what makes each component correct

- **Worker.** `call_in_thread()` decides whether to spawn a thread at the same
  time as threads decide to exit. A callback must not stay in the queue with no
  thread to run it; none may run twice or out of order; threads must not exceed
  the limit in force when they were spawned.
- **Reactor.** `run()` must go on while background threads may still call
  `call_soon()`, although libevent itself sees no event meanwhile. It must not
  return early, nor sleep for ever, and an answer of a thread must be delivered.
- **Engine.** Three kinds of threads share a task: its own, the controller, and
  whoever interrupts it. Each event must be received once, in order, before
  `task_terminated`; a task must run alone and must end; no wake-up may be lost.
- **parallel().** A continuation may run inside the call that starts its
  operation or much later. The callback must come exactly once, last, with the
  overall error, and no more than the limit may be in flight.
- **Report.** Two reporters are called in parallel, either may fail, and calls
  are repeated. A request may be served and its answer lost. What is reported as
  written must be written in both, a repeated write must not duplicate, and the
  entries must not be split over two reports of the collector.
- **Runnable.** Chains of measurements share the list of inputs and a counter
  across callbacks. Each input is measured once under its own index, and the
  report is closed only when everything is submitted.
- **Transport.** Callbacks of libevent run user code that may start the next
  operation or close the transport from inside. No byte may be lost, the end of
  file must come after the data, each operation ends once, `close()` calls back.
- **Connect, SOCKS5, HTTP.** A long chain of callbacks, each able to fail: one
  connection at a time, released on every path; the whole chain of responses or
  an error; an end.
- **OONI clients, NDT, DASH.** Protocols with a server that may answer anything.
  All call back once. Most hold no connection then; which ones do hold some, that
  they close without waiting, that a failed NDT test forgot, or that belong to a
  request nobody waits for, is in section 5. The flows of an NDT test end together;
  a report that is sent again is not closed with a line missing; an update goes out
  with a token that is still good; a segment has the right rate and size, and the
  playout delay is the one the arrivals need.
- **OONI tests.** Attempts in parallel that end in any order, also inside the
  loop that starts them. The verdict must follow from what was seen; where it also
  depends on the order (section 5) it must be clear how far.
- **DNS over libevent.** The base of a query is freed on nine paths, once on each; a
  tenth, an exception, does not free it.

PROJECT.json lists the hazards at their lines, and the properties that would
notice each of them.

## 2. The modules

```
BackgroundCalls  <--implements--  Worker  <--EXTENDS--  Reactor
Parallel  <--INSTANCE--  Runnable
ByteStream  <--implements--  Transport
Engine        Reporter        Http
Ndt  MultiNdt  Dash  Collector  Orchestrate  DnsQuery  WebConnectivity
FacebookMessenger  Whatsapp  InvalidRequestLine  Parallel
        <--INSTANCE--  MCClients  --implements-->  Session
ReactorProofs (with those of Worker), EngineProofs, ParallelProofs, ReporterProofs,
RunnableProofs, TransportProofs, HttpProofs, ClientsProofs (theorems)
MCWorker ... MCHttp, MCClients               (instances for TLC)
```

**BackgroundCalls** is what the pool promises: calls are accepted, started in
order, each once, at most so many at a time, and all finish. **Worker** is
common/worker.cpp at the grain of its mutex: each critical section is one
action, and running a callback is a step of its own between `Pop` and `Finish`.
A `Thread` is a slot that a new thread may reuse; `active`, `queue` and
`parallelism` are the fields of `State`. `accepted`, `started`, `finished` are
history. `PoolFairSpec` is the refinement: the abstract specification under the
mapping of `accepted`, `started`, `finished` and the jobs of the running threads.

**Reactor** is `run()` with its local variable, and libevent as far as `run()`
depends on it: dispatch returns 0 when it finds the break flag, 1 when no event
is pending, and clears the flag when it starts. It extends Worker: `Init`, `Next`
and `Spec` are the pool alone, `LoopInit`, `LoopNext` and `LoopSpec` the I/O thread
together with the threads of the pool. `DispatchWithCall` is a callback that calls `call_in_thread()`,
`ThreadReturns` a background function that ends with `call_soon()`, as
`getaddrinfo_async()` does.

**Engine** is the thread of a task (`pc`), its controller (`ctl`, the loop
`while (!is_done()) wait_for_next_event()` of the documentation) and `Interrupt`.
Critical sections are single actions, with one exception that matters: in
`cond.wait()` the mutex is held from the evaluation of the predicate (`Awake`)
to the sleep (`Sleep`), while `running`, an atomic, changes without it. `Notify`
is a step of its own because the code notifies after it has unlocked. Events are
abstracted to their keys; `Mutable` are those that `disabled_events` may name.

**Parallel** is both overloads of `mk::parallel()`; `active` is the operation
being started on the stack, so an operation may complete at once or from the
loop. **Runnable** instantiates it: `begin()` and `end()` with their chain of
callbacks, and the measurement loop whose operations are chains that take inputs
from the shared list. `SavedIndex` is the index that a measurement captured,
`current` the shared counter.

**Reporter** is Report over two reporters, the file and the collector. A call
is split where the code is: what each reporter decides at once, and the answer
of the collector later, which may be lost after the request was served: `created`
counts the reports that the collector opened, `reportId` is the one that the probe
knows, and `stored` holds each entry with the report it went to. Writers are two chains of measurements; a failed call
may be repeated; the report may be closed at the end of the loop or in the
middle of it, after a failed opening, as Runnable does.

**Transport** is one `LibeventEmitter` over one bufferevent with `net::write()`
and `net::readn()`. `frame` records that `handle_read_()` is still on the stack
of the callback that it called; `soon` what `call_soon()` has still to do; the
transport is destroyed when neither its user, nor `self`, nor a handler refers
to it. **ByteStream** is what the code above net::write() and net::readn() relies
on: bytes that are left and bytes that were handed over, at most one operation
due, the error that ended the stream, and whether it was closed. Transport
implements it (`StreamImplemented`): the bytes left are those with the peer and in
the input of the bufferevent, those handed over the ones in the buffer of the user
and those it took. What the stream allows after `Close` is what the code does: the
answer that `readn()` left with `call_soon()` still comes, with no byte.

**Http** is one request with its redirects: resolve, try the addresses in
order, handshake or proxy, send, receive, parse, close, follow. The network,
OpenSSL and the (vendored) parser are choices; `open` counts the bufferevents
that exist. The proxy is a variant of the connection (`via`). `Remains` is the
response that comes with an error: its request when that could not be sent, what
was parsed when the headers were, else an empty one.

**Session** is what every client promises to the code that starts it. It may hold
connections while it works, and calls back once. The connections that it holds
then are `adrift`, of which it has let go (they are being closed and nothing
waits for that, or nothing refers to them any more), but for those of at most
`late` operations that its callback does not wait for; after it `adrift` only
gets smaller, and no other connection is made. The ten clients below, each a
module of its own, have `pc` (the callback that is awaited), `open` (all the
connections that exist), `calls` and `failure` in common; MCClients runs one at
a time, says which of its connections are adrift (`Adrift`: the leaked ones of
NDT, the unawaited ones of web_connectivity and facebook_messenger, those of
whatsapp), that only http_invalid_request_line has a late operation (`Late`),
and checks that it implements Session (`ClientsAreSessions`).

**Ndt** is ndt/run_impl.hpp with protocol_impl.hpp and the three tests. One step
is one callback. A message is the expected one or not; the server may grant any
suite, and `Talk` collects the steps in which it just goes on talking. `left`
counts down in `connect_many()`, `up` and `completed` are the flows of a test
that still transfer and that are closed, `results` and `entries` what is
recorded, `leaked` the connections, still in `open`, of tests that failed before
their flows started. **MultiNdt** is nettests/multi_ndt.cpp: the outcomes of the two runs,
the statistics of ndt/utils.cpp as operators, and the choice between the two.

**Dash** is neubot/dash_impl.hpp: the negotiation that is repeated while the
server is choked, the loop over the segments, the collection. Where `int`
overflows, `Product` is a negative number that stands for no result; the read
past the end of the table of rates gives the smallest or the largest value. `Ready`
and `Play` are the two running sums of the loop that computes the playout delay,
as functions of the number of turns; `PlayoutIsSmooth` compares the delay with the
arrivals. `LongestTarget` (343 s) is the longest target whose segment has a size
that is an `int` at every rate.

**Collector** is `submit_report()`: `lines` is the file, with a last line that
may lack its newline, `stored` what the collector has. **Orchestrate** is a
series of operations on one `Auth`, with a clock; `issued` is what the service
knows of its tokens, and `cut` whether the last login was answered without a
token or with an empty one. **DnsQuery** is one query over libevent: `bases`
created, `freed`, the `context` that owns one, and the exceptions that leave
`dns_callback()` before its delete (`Thrown`).

**WebConnectivity**, **FacebookMessenger**, **Whatsapp** and
**InvalidRequestLine** are four OONI tests. The comparisons of web_connectivity
are operators on a page (length, status, headers, words of the title) and on the
answers of the control; an answer of another shape is `Misshapen`. In the other three an attempt may be refused at once:
`AllRefused` and `Start` are what happens when the last answer comes inside the
loop. Each has a `VerdictSound` that states the verdict from all that was seen.

## 3. What the runs check

| Run | Instance | Checked |
|---|---|---|
| worker | 4 calls, limit moving in 2..3, 4 slots | BoundedThreads, WorkConserving, StartsInOrder, PoolFairSpec |
| reactor | 2 immediate callbacks, 1 I/O, 2 background calls, 2 threads, 2 stops | ReturnsWhenIdle, Answered, DrainsAndReturns |
| engine | 2 tasks, one of them perturbed | OneTaskAtATime, DeliveredInOrder, DrainedBeforeEof, EventOrder, TasksComplete, EventsReachController |
| reporter | 2 writers, 3 entries, 2 tries | NoSilentLoss, OneReportId, WritesInsideReport |
| runnable | 0..3 chains, up to 4 inputs | QuietAtEnd, EventsOfOneMeasurement, InputsExhausted, RunnableEnds |
| transport | 4 bytes, reads of 1..3, 4 operations | EofIsLast, OneOutcome, StreamImplemented, OperationsEnd, CloseCallsBack |
| http | 2 addresses per family, 2 redirects, 3 pieces | ConnectionsReleased, ChainComplete, RequestEnds |
| clients | one of 11 clients at a time, bounds below | TypeOK, ClientsAreSessions, ClientEnds, NdtRecords, FlowsAreTogether, DashRight, ReportAccounted, CredentialsSound, BaseFreedOnce, VerdictSound, WidthRespected, CallbackIsLast |
| reactor_lost, engine_lost, engine_failure, http_proxy | the same or smaller | one property each, refuted: section 5 |

`clients` checks the clients and `mk::parallel()` in one run because what they
promise is one thing: the same specification, the same liveness. They do not
interact; the state of those that do not run stays at its initial value.

Every property has a mutant of the code's definition that violates it (the
`mutants` of PROJECT.json); the mutated forms stand beside the definitions and
are marked as such.

**Bounds.** They are the smallest that let the interesting overlap happen. Worker:
more calls than threads, and a slot more than the largest limit, so that the
bound of threads is not the number of slots. Reactor: two background calls, so
that one may be running when the other's answer is delivered. Engine: two tasks
are what the semaphore needs; one warning or measurement is enough for a queue
longer than one, since `status.queued` and `status.started` come besides; one
event that can be disabled exercises the muted path, and it is the one the
last clause of the order depends on (the proof is for any set of them). Parallel and Runnable: fewer, as many and more
operations than the limit, with series of different lengths. Reporter: a third
entry separates "the last entry" from "some earlier entry". Transport: reads
longer and shorter than what arrives, before and after the end of file. Http:
an address after one that failed, and a first, a middle and a last response.
Clients: two streams and two tests (one flow ends before another, one test
before another); downloads of 0, 8, 9 and 10 samples, around the 8 that
`compute_speed` skips; two negotiations, three segments, speeds below, between
and above the rates; targets of 0, 2 and 60 s, and one of 400 s, past the longest
whose sizes fit; arrivals earlier and later than the target; three lines of a report, so that a middle one may fail; four
operations with tokens that live for one tick of four; two public addresses and
a private one; two services or hosts with up to two addresses, good and not;
vectors of none to five operations with limits of none to three.
Bounds that the program does not have are CONSTANTS marked `bound`.

**Deadlock** is not checked: every system here ends (the nettest is over, the
loop has returned, the request has called back), and the liveness properties say
that it ends where it should.

**Fairness**, and why the code justifies it:

- Worker: weak, for each thread. The operating system schedules threads, and
  callbacks end (`getaddrinfo()` has its own timeouts).
- Reactor: weak for the I/O thread, for each immediate callback and for the
  timer, and for each background thread. None for I/O: the network may be silent.
- Engine: weak for the controller, strong for the thread of the task. The mutex
  is free infinitely often but may be taken again and again by a controller that
  wakes for no reason. Nothing makes an application create or interrupt a task.
- Parallel, Runnable: weak for the loop and for each chain; an operation that is
  a request ends because requests do.
- Transport, Http: weak for the steps of the loop. The timeout set on every
  bufferevent (net/connect.cpp, net/connect_impl.hpp) ends each wait.
- Clients: weak for the next step of the client, since each request ends. That
  is so only without a SOCKS5 proxy: `http_proxy` shows that a request through
  one may never end, and then neither does the client that waits for it, which
  this run does not cover. Fairness does not make an NDT server stop talking:
  `ClientEnds` excepts the behaviours in which it talks for ever, for no deadline
  of the code ends these, and those that an exception ends (section 5).

## 4. What is proved

TLAPS checks these theorems for all values of the constants that the assumptions
allow, with no bound on the size of anything. Every invariant and action property
that a passing run checks is stated by one of them, and so is the safety half of
the three refinements.

The assumptions, which TLC evaluates in the runs: `WorkerAssumption` (a limit of at
least one, a finite set of slots larger than the largest limit), `ReactorAssumption`
(the kinds of callbacks are disjoint), `EngineAssumption` (`NoTask` is no task; the
bounds are of their types), `ReporterAssumption` (the main chain is not a writer, a
call is tried once at least), `RunnableAssumption`, `TransportAssumption`,
`HttpAssumption` and `ClientsAssumption` (sizes, limits, times and bounds are natural
numbers; a time is not zero; an address is public or private and not both; there is
a port to try). ParallelProofs has no assumption: its theorems say in their statement
that sizes and limits are natural numbers. The bounds may be any number, so that
what is proved holds of the code without them. The table of `dash_rates`, the
number of requests of http_invalid_request_line, the two services and the two
hosts are those of the modules.

| Module | Theorems | Argument |
|---|---|---|
| ReactorProofs, the pool | TypeCorrect, ThreadsBounded, NeverStranded, FirstInFirstOut | `PoolInv` is the conjunction of the four invariants. The heart is that `active` is the cardinality of the set of living threads: a spawn adds one element, an exit removes one. NeverStranded needs both: a thread exits only when it sees the queue empty under the mutex, so a queue that is not empty and an `active` below the limit leave a thread that is on its way to the queue. |
| | PoolImplemented | The refinement of BackgroundCalls, step by step: a submission, a pop and a return are its steps, a spawn, an exit and a change of the limit are none. `EachCallOnce` relates the jobs of the threads to `started`: no call was submitted twice, a call that runs or finished was popped, and no two threads run the same. |
| ReactorProofs, the loop | RunReturnsWhenIdle, LoopUsesPool | `NoOwnEvents`: after libevent has returned 1, only what background threads posted can be pending, because an event of the I/O thread is registered by the I/O thread. It makes the later reading of `active` good for the rest of the run. Each step of the loop is one of the pool or leaves the pool alone, so `LoopSpec => Spec`, and the theorems of the pool hold under the loop. |
| EngineProofs | TypeCorrect, MutualExclusion, NoEventLost, QueueDrained | `IInv` adds to TypeOK, OneTaskAtATime and DeliveredInOrder: `RunningWhileWorking` (`running` is set exactly while the task may still emit) and `OverMeansEmpty` (once the controller has seen the end, the queue is empty and the thread is past its last event). QueueDrained is not inductive without them: it holds because `running` is cleared after the last event is queued, and the controller looks at the queue first. One lemma per kind of step (emit, route, quiet, thread, controller) keeps the cases short. |
| | EventsOrdered | `EventsInOrder` ties what was emitted so far to where the thread is: what may have been emitted before each label, and what the last event then was. A lemma says that appending an event that may follow all those before keeps a sequence in order. |
| ParallelProofs | CallbackOnceAtTheEnd, ResultsRecorded, LimitRespected | `IInv` adds `ActiveIsPending`, `SeriesInOrder` (which operations have been started: those the loop came to, and those whose predecessor in the series completed, so the next one to start is always new) and `Tally` (`overall` tells whether one failed, and the callback was called only with the count at the size). A count equal to the size means that all completed, by `AllOrFewer`. The limit follows from `OnePerSeries`: each iteration of the loop starts one operation, and one that completes starts at most one. |
| ReporterProofs | SubmittedMeansStored, EntriesInOneReport, SubmittedInsideReport | `CallsOfPhase` says which calls there may be in each phase of Runnable, `OpenOnce` that the collector is asked for a report only while none is known, and that entries go only to the one that is. `PrevIsStored` and `AnswerIsStored` carry NoSilentLoss over a repeated call: the entry that the duplicate check compares with is in the reporter, in the file or in the report that is known, and a reporter of a call that neither is waited for nor has failed has its entry. |
| RunnableProofs | NothingAfterEnd, InputsLeftForAReason, MeasurementsDoNotMix | The invariant of ParallelProofs is taken over with chains for operations, and `ChainsOfLoop` says what mk::parallel() sees of a chain. `InputsInOrder` relates the list to the counter (what was taken is a prefix); `IndexOfOneChain` says that no two chains that measure have saved the same index, and that the events of it so far are those of its chain, although the chains share the counter and save it. |
| TransportProofs | EndOfFileIsLast, OperationsCallBackOnce | `HandlersOfOperation` determines, for each operation the user may wait for, which handlers are set, and `InputHasReader` when the bufferevent may hold bytes: `handle_read_()` then never runs without a handler, which is where a byte would be lost. |
| | TransportImplementsStream | The refinement of ByteStream. `OperationDue` says that one operation at most is due, also after `close()`, and that none is due once an error came. A lemma for each thing a step may do to the stream: nothing (`Unseen`), an error that ends an operation or finds no handler (`ErrorImplements`), an answer with the bytes that came with it (`AnswerImplements`), a new operation; each callback of the loop is one of them. |
| HttpProofs | RequestsReleaseConnections, RequestsReportTheChain | ConnectionsReleased is inductive once `open` is given for each callback (`Attached`, `Detached`). `Chain` says what was followed: as many responses as redirects, within the limit, and a response that comes to `close` without an error was parsed to its end; with an error, what remains of it depends on whether the headers were. `NotOver`: nothing is reported before `done`. |
| ClientsProofs | ClientsInvariant | The client is chosen at the start and takes every step, so `IInv` is one invariant for each of the eleven, and a step of the whole is a step of its module (`ClientSteps`). |
| | ClientsImplementSession | The refinement of Session. For each client, a lemma that each of its steps keeps to `Keeps`: it works with what is adrift among what is open, calls back with what is adrift and what is late, lets what is adrift go, or starts again. Its invariant says at each callback what is held and how often it has called back (`NdtConnections`, `DashInv`, ...). |
| | MeasurementsJoinFlows, NdtResultsRecorded | `NdtConnections` says how many connections are held: one, plus those connected so far, less those closed. It needs `NdtCounters`: a test that fails early forgets what it connected, which becomes `leaked`, and must leave zero behind. `NdtRecorded` counts the entries: the cardinality of the set of positions in `results` that have one grows by one, or not, with each result appended (`ResultCounted`); `ForgottenGrows` is the same for the bound of what is leaked. |
| | SegmentsAndPlayoutRight | `LowerRate`: the first index at which the condition of the loop fails exists, whatever is past the table, and one before it is the highest rate below the speed, because the table ascends. `SegmentSize`: with a target up to 343 s no product overflows. `PlayoutDelay`: `Ready` is the sum of the times, `Play` is when a segment is due, and the maximum of their difference is attained. |
| | SubmissionsAccountForLines | `LinesStored` says how many lines the collector has at each callback: one less than were read before the update, as many after it; with `LinesRead` (no line past the last complete one, all of them at `finish`) a closed report has every line. |
| | OperationsKeepCredentials | `TokenKept`: the expiry time that the probe has stored, when it can be parsed, is the one that the service gave to the stored token, unless the last login was answered without its token or with an empty one. Then `is_valid` implies that the service accepts it. An action property. |
| | QueriesFreeTheirBase | `DnsInv` says at each callback who must free the base: nobody, the call, or the context; a query that an exception ended keeps both. |
| | VerdictsAreSound | The verdict of each test is recomputed from what is left in its state. For multi_ndt, the statistics (`ChosenIsFastest`); for web_connectivity, the entries that `CompareTcp` writes: that the n-th flag is that of the n-th socket as long as the control knows the first n (`FlagsWritten`), and that success means that no socket failed which the control reached, in any order (`SocketsCompared`); for facebook_messenger and whatsapp, what the attempts that are over have cleared so far, in any order of their ends and with refusals inside the loop (`FacebookSeen`, `EndpointsLeft`); for http_invalid_request_line, that the answers are as many as the requests that are over (`OverCounted`) and that the first four do not change. |
| | VectorsCallBackLast, VectorsRespectLimits | ParallelProofs, carried over. |
| | ClientsTyped | `Typed` has what `IInv` does not say of the types. |

Each invariant is the classic triple, `Init => IInv`, `IInv /\ [Next]_vars => IInv'` and
`IInv => Inv`, joined by propositional temporal logic; each `IInv` was checked with
TLC on the instance of its run.

The operators that these properties fold over a sequence with are recursive
functions, of which the library's induction theorems, that take an operator, say
nothing to the provers. ClientsProofs has its own induction, over a set of numbers
(`SetInduction`, from the well-foundedness of `<`), and from it `Unrolled`: a function
given by its first value and a step exists. `ReadySums`, `PlayIsDue`, `GreatestValue`
and `TableAscends` are proved with it.

**Only model-checked**: liveness, which is out of the prover's reach. These are
`Answered` and `DrainsAndReturns` (Reactor), the fairness that `PoolFairSpec` adds to
`PoolSpec`, `TasksComplete` and `EventsReachController` (Engine), `RunnableEnds`,
`OperationsEnd` and `CloseCallsBack` (Transport), `RequestEnds` (Http), and
`ClientEnds`.

## 5. What the models disagree with

Four runs refute what a document or comment says. Each is a finding of
PROJECT.json.

- `engine_lost`. The thread of a task clears `running` and calls `notify_all()`
  without the mutex (engine.cpp:113). Both may fall between the predicate of
  `wait_for_next_event()` and its sleep. Nothing notifies again.
- `reactor_lost`. `run()` asks `concurrency()` after libevent said that nothing
  is pending. A thread that calls `call_soon()` and exits between the two leaves
  its answer pending in a loop that returns.
- `engine_failure`. The error of `begin()` is replaced by the result of `end()`,
  and an error of `end()` alone is dropped, so `status.end` reports no failure.
- `http_proxy`. Socks5 sets no error handler on the connection to the proxy: a
  timeout or end of file there is ignored, and the request never calls back.

Smaller ones are stated inside properties that hold:

- `ReturnsWhenIdle`: `stop()` only breaks one iteration of `run()`, which
  dispatches again until it has nothing left to do.
- `ConnectionsReleased`: an error of `disable_nagle()` or in the exchange with a
  proxy leaves the connection open.
- `ChainComplete`: after an error one response at most is handed over, not the chain
  of those before it, and it may be the part of an answer that came (request.cpp:351)
  or hold the request only (:264, :332). ooni/templates_impl.hpp records in the
  entry what there is of it.
- `OneReportId`: a report whose opening was served and whose answer was lost stays
  open and empty at the collector when `open()` is called again.
- `CloseCallsBack`: a transport closed while `readn()` waits is never destroyed,
  and the callback of `close()` never comes: its data handler refers to it.
- `ClientsAreSessions`: connections that are held when a client calls back. An NDT
  test that fails while it connects, or before its flows start, drops the list of
  what it connected without closing it (connect_impl.hpp:133, test_s2c_impl.hpp:31),
  and nothing closes it later: `leaked` counts these, `NdtRecords` bounds them by the
  tests that failed so. web_connectivity (:495) and facebook_messenger (:175) close
  each connection but the last without waiting, whatsapp (:248) all of them, with
  the callback of the test right after the last `close(nullptr)`: the loop releases
  these later (libevent_emitter.hpp:119). http_invalid_request_line calls back at the
  fourth answer, so that its fifth connection may be open then, or not yet made.
- `ClientEnds`: an NDT client waits for as long as the server goes on to talk. Three
  exceptions end a client without a callback. In facebook_messenger, when every
  connection is refused inside the loop and a later service has no address, a flag
  that is still null is converted to `bool`. In web_connectivity, an answer of the
  control that is JSON of another shape makes a conversion throw (:36, :164, :234),
  and only `std::out_of_range` is caught. In libevent_query.hpp, an answer that cannot
  be (:267, :286, :292, :321), or an exception of the caller that is no `Error`, leaves
  `dns_callback()` (the caller may have been called by then). And behind a SOCKS5
  proxy a request, and with it its client, may never end (`http_proxy`): the fairness
  of this run assumes that there is none.
- `BaseFreedOnce`: these last exceptions pass by the delete of the context, and the
  base of the query is not freed.
- `CredentialsSound`: the fields of the answer to a login are taken one by one, so
  that an answer without a token leaves the old token with a new expiry time; a token
  that is an empty string is stored, and the update goes out with it.
- `ReportAccounted`: a last line without its newline is not submitted, and the
  report is closed as complete without it.
- `WebConnectivity!VerdictSound`: after a socket that the control does not know, as it
  knows no private address (:361), the flag of each socket is written to the entry of
  an earlier one, so that the order in which the sockets ended decides which one has
  it: `FlagsRight` speaks of the sockets up to the first that is not known. The
  verdict itself does not depend on this order (`TcpJustified`). A site that neither
  side could fetch is accessible.
- `FacebookMessenger!VerdictSound`: no flag is set when nothing was resolved, and
  `facebook_dns_blocking` is set after the callback when all was refused at once.
- `Whatsapp!VerdictSound`: the comment at whatsapp.cpp:293-296 says that a host without
  a good address is not called blocked. When all was refused inside the loop the
  callback comes before the last host is looked at, and that host, and no other, is
  called blocked whether it has one or not (`LastName`).
- `InvalidRequestLine!VerdictSound`: the verdict is that of the four answers that came
  first; that of the fifth is lost, and which one is the fifth depends on the network.
- `DashRight`: only with fixed rates is the rate one of the table, and only up to a
  target of 343 s, which nothing enforces, is the size of a segment its product. The
  error of the test is only logged: the client goes on to collect and reports no
  failure.

Outside of any property: a reporter remembers only the last entry, so that a
repeated entry is stored twice when another was written in between.

## 6. What is not modelled, and what comes next

PROJECT.json names every component with its status. Left out for good: vendored
and generated code (which is most of the lines of the repository), wrappers
(`Buffer`, JSON entries, delegates, the C and C++ interfaces, most nettest
classes), pure conversions (encodings, URLs, MaxMind look-ups), the command
line, and the data of events, headers and bodies.

Inside of components that are modelled, these are left out:

- a loop that returns while `begin()` or `end()` has not called back, because a request
  never came back (Engine: `BodyEnds` has the callbacks of both; the fairness of
  the engine assumes that the body of a nettest ends);
- the exception of the constructor of `std::thread` (worker.cpp:72), which would leave
  `active` one too high;
- the file named `-` and the options without a file or without a collector
  (file_reporter.cpp, runnable.cpp:330-335): Reporter has both reporters;
- the option `initial_rate` of DASH (dash_impl.hpp:144-150 and 207), in the place of
  which the first segment has the constant rate;
- whether a connection that a client let go of is released before the loop of its
  task returns: that is the business of Reactor, which drains what `call_soon()` posted.

What could still be added, in this order:

1. **telegram**, which has the shape of Whatsapp, and the five OONI tests that
   are one request and a comparison.
2. **mlabns**: the checks of the answer, now one step of Ndt and Dash.
3. **Logger**: the scale and offset of the progress, and the periodic calls.

Proofs: every safety property of the runs has its theorem, so what a new client
needs is its part of `IInv` in ClientsProofs and the lemma that its steps keep it.
Worth stating besides: that the ranges of the CONSTANTS marked `bound` do not
matter to TLC's answers.
