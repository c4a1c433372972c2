--------------------------------- MODULE Dash ---------------------------------
(***************************************************************************)
(* The DASH test (neubot/dash_impl.hpp): negotiate with a server on one    *)
(* connection, download segments on a second one, each at the rate that    *)
(* the speed of the one before suggests, and send the results on the       *)
(* first.  A request and its response are one step.                        *)
(***************************************************************************)
EXTENDS Integers, Sequences, FiniteSetsExt

CONSTANTS
  MaxNegotiations, \* MAX_NEGOTIATIONS (512 in the code)
  MaxIterations,   \* the max_iteration option (15 by default)
  Speeds,          \* the speeds in kbit/s that a download may have
  Times,           \* the seconds that a download may take
  Targets,         \* the values of the elapsed_target option
  Bitrates         \* the values of the constant_bitrate option, 0 for none

VARIABLES
  pc,           \* the callback that is awaited
  open,         \* connections held
  calls,        \* how many times cb was called
  failure,      \* the error that it is called with
  options,      \* the options that the choice of a segment reads
  negotiations, \* how many times the client asked to be unchoked
  speed_kbit,   \* ctx->speed_kbit
  segment,      \* the segment asked for: its rate and its number of bytes
  elapsed,      \* what (*entry)["receiver_data"] holds: the time of each segment
  delay         \* (*entry)["simple"]["min_playout_delay"], or -1

vars == <<pc, open, calls, failure, options, negotiations, speed_kbit, segment, elapsed, delay>>

MaxInt == 2147483647

dash_rates == <<100, 150, 200, 250, 300, 400, 500, 700, 900, 1200, 1500, 2000, 2500, 3000,
                4000, 5000, 6000, 7000, 10000, 20000, 30000, 40000, 50000>>
InitialRate == 3000

\* dash_rates()[i], i counted from zero: one element past the end is anything.
Rate(i, past) == IF i < Len(dash_rates) THEN dash_rates[i + 1] ELSE past

\* The loop of select_lower_rate_index(), which reads before it checks the index: it
\* stops at the first index at which the condition fails.
select_lower_rate_index(speed, past) ==
  LET goes(i) == Rate(i, past) < speed /\ i < Len(dash_rates)
      rate_index == CHOOSE i \in 0..Len(dash_rates) :
                      ~goes(i) /\ \A j \in 0..(i - 1) : goes(j)
  IN  IF rate_index > 0 THEN rate_index - 1 ELSE rate_index

\* A product of ints: what overflows is anything, here any negative number.
Product(a, b) == IF b = 0 \/ a <= MaxInt \div b THEN a * b ELSE -1

\* Mutant: the division comes last.
BytesLate(rate, target) == Product(Product(rate, 1000), target) \div 8

Bytes(rate, target) == Product(Product(rate, 1000) \div 8, target)

\* frame_ready_time after n turns of the loop over receiver_data.
Ready(times) ==
  LET ready[n \in 0..Len(times)] == IF n = 0 THEN 0 ELSE ready[n - 1] + times[n]
  IN  ready

\* play_time after n turns: the first segment is played when it arrives, each one
\* after it the target later.
Play(times, target) ==
  LET play[n \in 0..Len(times)] ==
        IF n = 0 THEN 0
        ELSE play[n - 1] + (IF play[n - 1] = 0 THEN Ready(times)[n] ELSE target)
  IN  play

\* Mutant: the first segment is due after the target, as the others are.
StallsEarly(times, target) == {Ready(times)[n] - n * target : n \in DOMAIN times}

Stalls(times, target) == {Ready(times)[n] - Play(times, target)[n] : n \in DOMAIN times}

\* The delay with which the playback should have started not to stall.
min_playout_delay(times, target) ==
  IF times = <<>> THEN 0 ELSE Max(Stalls(times, target))

-----------------------------------------------------------------------------
Init ==
  /\ pc = "start" /\ open = 0 /\ calls = 0 /\ failure = "none"
  /\ options = [fixed |-> FALSE, fast |-> FALSE, target |-> 2, constant |-> 0]
  /\ negotiations = 0 /\ speed_kbit = -1
  /\ segment = [rate |-> 0, bytes |-> 0] /\ elapsed = <<>> /\ delay = -1

test == <<speed_kbit, segment, elapsed, delay>>

CallBack(err) == pc' = "done" /\ calls' = calls + 1 /\ failure' = err

\* mlab-ns does not name a server, or it cannot be reached.
StartFails ==
  /\ pc \in {"start", "connect"}
  /\ CallBack(pc)
  /\ UNCHANGED <<open, options, negotiations, test>>

Start ==
  /\ pc = "start" /\ pc' = "connect"
  /\ options' \in [fixed : BOOLEAN, fast : BOOLEAN, target : Targets,
                  constant : Bitrates]
  /\ UNCHANGED <<open, calls, failure, negotiations, test>>

Connect ==
  /\ pc = "connect" /\ pc' = "negotiate"
  /\ open' = open + 1
  /\ UNCHANGED <<calls, failure, options, negotiations, test>>

\* txp->close() of the first connection: the callback comes when it is closed.
Close(err) ==
  /\ pc' = "closing" /\ failure' = err
  /\ UNCHANGED <<open, calls, options>>

\* negotiate_loop_(): the request fails, or it is one too many.
NegotiateFails ==
  /\ pc = "negotiate"
  /\ Close(IF negotiations > MaxNegotiations THEN "too_many" ELSE "negotiate")
  /\ UNCHANGED <<negotiations, test>>

\* Mutant: the limit of negotiations is not looked at.
ChokedForever ==
  /\ pc = "negotiate"
  /\ negotiations' = negotiations + 1
  /\ UNCHANGED <<pc, open, calls, failure, options, test>>

Choked ==
  /\ pc = "negotiate" /\ negotiations <= MaxNegotiations
  /\ negotiations' = negotiations + 1
  /\ UNCHANGED <<pc, open, calls, failure, options, test>>

Unchoked ==
  /\ pc = "negotiate" /\ negotiations <= MaxNegotiations
  /\ pc' = "reconnect"
  /\ UNCHANGED <<open, calls, failure, options, negotiations, test>>

\* run_impl() cannot connect: the results, which are empty, are collected.
ReconnectFails ==
  /\ pc = "reconnect" /\ pc' = "collect"
  /\ UNCHANGED <<open, calls, failure, options, negotiations, test>>

Reconnect ==
  /\ pc = "reconnect" /\ pc' = "next"
  /\ open' = open + 1
  /\ UNCHANGED <<calls, failure, options, negotiations, test>>

\* run_loop_(): the request of the next segment.
NextSegment ==
  /\ pc = "next" /\ Len(elapsed) < MaxIterations
  /\ pc' = "segment"
  /\ speed_kbit' = IF speed_kbit >= 0 THEN speed_kbit
                   ELSE IF options.fixed THEN dash_rates[1] ELSE InitialRate
  /\ \E past \in {0, MaxInt} :
       LET rate == IF options.fixed
                     THEN Rate(select_lower_rate_index(speed_kbit', past), past)
                     ELSE IF options.constant > 0 THEN options.constant ELSE speed_kbit'
       IN  segment' = [rate |-> rate, bytes |-> Bytes(rate, options.target)]
  /\ UNCHANGED <<open, calls, failure, options, negotiations, elapsed, delay>>

\* A download that took longer than the target starts again from the lowest rate
\* under fast_scale_down: one minus a ratio above one is negative.  With a target of
\* zero the ratio is infinite, and times a speed of zero it is no number: what its
\* conversion gives depends on the machine.
Measured ==
  /\ pc = "segment" /\ pc' = "next"
  /\ \E speed \in Speeds, t \in Times, nan \in {-1, 0} :
       /\ elapsed' = Append(elapsed, t)
       /\ speed_kbit' = IF ~options.fast \/ t <= options.target THEN speed
                        ELSE IF options.target = 0 /\ speed = 0 THEN nan ELSE dash_rates[1]
  /\ UNCHANGED <<open, calls, failure, options, negotiations, segment, delay>>

\* An option that cannot be parsed; then an error, a status other than 200, a
\* connection that the server or a middlebox wants closed, a clock that went back.
SegmentFails ==
  /\ pc \in {"next", "segment"} /\ pc' = "testclosing"
  /\ UNCHANGED <<open, calls, failure, options, negotiations, test>>

AllSegments ==
  /\ pc = "next" /\ Len(elapsed) >= MaxIterations
  /\ pc' = "testclosing"
  /\ delay' = min_playout_delay(elapsed, options.target)
  /\ UNCHANGED <<open, calls, failure, options, negotiations, speed_kbit, segment, elapsed>>

\* Mutant: the second connection is forgotten.
TestNotClosed ==
  /\ pc = "testclosing" /\ pc' = "collect"
  /\ UNCHANGED <<open, calls, failure, options, negotiations, test>>

\* The second connection is closed; the error of the test is only logged.
TestClosed ==
  /\ pc = "testclosing" /\ pc' = "collect"
  /\ open' = open - 1
  /\ UNCHANGED <<calls, failure, options, negotiations, test>>

Collect ==
  /\ pc = "collect"
  /\ \E err \in {"none", "collect"} : Close(err)
  /\ UNCHANGED <<negotiations, test>>

Closed ==
  /\ pc = "closing"
  /\ open' = open - 1 /\ CallBack(failure)
  /\ UNCHANGED <<options, negotiations, test>>

Next ==
  \/ StartFails \/ Start \/ Connect \/ NegotiateFails \/ Choked \/ Unchoked
  \/ ReconnectFails \/ Reconnect \/ NextSegment \/ Measured \/ SegmentFails \/ AllSegments
  \/ TestClosed \/ Collect \/ Closed

Spec == Init /\ [][Next]_vars

-----------------------------------------------------------------------------
TypeOK ==
  /\ open \in 0..2 /\ calls \in 0..1
  /\ negotiations \in 0..(MaxNegotiations + 1)
  /\ speed_kbit \in {-1, dash_rates[1], InitialRate} \cup Speeds
  /\ elapsed \in Seq(Times) /\ Len(elapsed) <= MaxIterations /\ delay \in Int

\* The longest target for which the size of a segment is an int at every rate.
LongestTarget == MaxInt \div (125 * dash_rates[Len(dash_rates)])

\* Under fixed rates a segment is asked for at the highest rate below the speed
\* that was measured, or at the lowest one, whatever follows the table in memory;
\* its size is the rate times the target, unless the target is so long that the
\* product overflows, which no check of the option prevents.
SegmentRight ==
  pc = "segment" /\ options.fixed =>
    LET lower == {r \in Range(dash_rates) : r < speed_kbit}
    IN  /\ segment.rate = IF lower = {} THEN dash_rates[1] ELSE Max(lower)
        /\ options.target <= LongestTarget =>
             segment.bytes = (segment.rate * 125) * options.target

\* A playback that waits for min_playout_delay finds every segment there when it
\* is due, and with a shorter delay some segment would be late.
PlayoutIsSmooth ==
  delay >= 0 /\ elapsed # <<>> =>
    LET due(n) == elapsed[1] + (n - 1) * options.target
    IN  /\ \A n \in DOMAIN elapsed : Ready(elapsed)[n] <= due(n) + delay
        /\ delay > 0 => \E n \in DOMAIN elapsed : Ready(elapsed)[n] = due(n) + delay

\* What the server is asked for and what the user is told follow from what was
\* measured.
DashRight == SegmentRight /\ PlayoutIsSmooth
===============================================================================
