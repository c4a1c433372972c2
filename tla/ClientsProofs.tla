---------------------------- MODULE ClientsProofs ----------------------------
(***************************************************************************)
(* The clients of MCClients, for all the values that ClientsAssumption     *)
(* allows.  The client that runs is chosen at the start and takes all the  *)
(* steps, so that an invariant of each of them makes one of the whole      *)
(* (IInv).  From it follow the safety properties of the clients and that   *)
(* each of them implements Session: it calls back once each time it is     *)
(* started, and holds then what it let go of and what is late, no more.    *)
(***************************************************************************)
EXTENDS MCClients, FiniteSetTheorems, SequenceTheorems, WellFoundedInduction, TLAPS

LP == INSTANCE ParallelProofs WITH completed <- counted, calls <- cb

\* A step of Session, or none, with l late operations: from o connections, a of them
\* adrift, and c calls to p, b and d.
Keeps(o, a, c, p, b, d, l) ==
  \/ p = o /\ b = a /\ d = c
  \/ c = 0 /\ d = 0 /\ p \in Nat /\ b \in 0..p
  \/ c = 0 /\ d = 1 /\ b \in Nat /\ p \in b..(b + l)
  \/ c = 1 /\ d = 1 /\ b \in 0..a /\ p \in b..(b + l)
  \/ c = 1 /\ d = 0 /\ p = o /\ b = a

\* The same, where nothing is let go of and nothing is late.
Holds(o, c, p, d) == Keeps(o, 0, c, p, 0, d, 0)

-----------------------------------------------------------------------------
\* The counters of a test stay within what it has connected.
NdtNumbers ==
  /\ leaked \in Nat
  /\ streams \in Nat /\ left \in 0..streams /\ up \in 0..streams
  /\ completed \in 0..(streams - up)
  /\ streams <= MaxStreams /\ (test = "c2s" => streams <= 1)

\* Where only the control connection is held, and what is leaked.
NdtQuiet == {"login", "kickoff", "queue", "version", "ids", "prepare", "speed", "written", "final",
          "results", "waitclose", "closing"}

\* How many connections are held at each of the callbacks.
NdtConnections ==
  /\ pc \in {"start", "connect"} => open = 0 /\ leaked = 0
  /\ pc = "done" => open = leaked
  /\ pc \in NdtQuiet => open = 1 + leaked
  /\ pc \in {"connecting", "begin"} => open = (1 + leaked) + (streams - left)
  /\ pc = "begin" => left = 0
  /\ pc = "flows" => open = (1 + leaked) + (streams - completed)
  /\ calls = IF pc = "done" THEN 1 ELSE 0

\* What the counters of a test are when it starts, connects and transfers.
NdtCounters ==
  /\ pc \notin {"connecting", "begin", "flows", "speed", "written", "final"} =>
       streams = 0 /\ left = 0
  /\ pc \in {"connecting", "begin"} \/ pc \notin {"flows", "speed", "written", "final"} =>
       completed = 0
  /\ pc = "connecting" => test # "meta" /\ left > 0
  /\ pc = "begin" /\ test = "meta" => streams = 0

NdtInv == NdtNumbers /\ NdtConnections /\ NdtCounters

LEMMA NdtInit == N!Init => NdtInv
BY ClientsAssumption DEF N!Init, NdtInv, NdtNumbers, NdtConnections, NdtCounters, NdtQuiet

\* The suite decides where a test goes next, but it is always where all is quiet.
LEMMA NextTest ==
  ASSUME NEW suite, N!RunTests(suite)
  PROVE  pc' \in {"results", "prepare", "closing"}
<1>1. CASE suite = <<>>
  BY <1>1 DEF N!RunTests
<1>2. CASE suite # <<>> /\ Head(suite) \in N!Tests
  BY <1>2 DEF N!RunTests
<1>3. CASE suite # <<>> /\ Head(suite) \notin N!Tests
  BY <1>3 DEF N!RunTests, N!Disconnect
<1>. QED
  BY <1>1, <1>2, <1>3

\* A test that ends leaves its counters at zero.
LEMMA EndOfTest ==
  ASSUME NEW err, N!TestEnds(err), leaked' \in Nat, open' = 1 + leaked', calls = 0
  PROVE  NdtInv'
<1>1. N!RunTests(granted) /\ calls' = 0
  BY DEF N!TestEnds
<1>2. streams' = 0 /\ left' = 0 /\ up' = 0 /\ completed' = 0
  BY DEF N!TestEnds
<1>3. pc' \in {"results", "prepare", "closing"}
  BY <1>1, NextTest
<1>4. MaxStreams \in Nat
  BY ClientsAssumption
<1>5. NdtNumbers'
  BY <1>2, <1>4 DEF NdtNumbers
<1>6. NdtConnections'
  BY <1>1, <1>2, <1>3 DEF NdtConnections, NdtQuiet
<1>7. NdtCounters'
  BY <1>2, <1>3 DEF NdtCounters
<1>. QED
  BY <1>5, <1>6, <1>7 DEF NdtInv

\* A test that fails early forgets what it connected, and only that.
LEMMA EarlyEnd ==
  ASSUME NEW err, NdtInv, pc \in {"prepare", "connecting", "begin"}, N!TestFails(err)
  PROVE  NdtInv'
<1>1. leaked' \in Nat /\ open' = 1 + leaked' /\ calls = 0
  BY DEF N!TestFails, NdtInv, NdtNumbers, NdtConnections, NdtCounters, NdtQuiet
<1>. QED
  BY <1>1, EndOfTest DEF N!TestFails

\* One case for each phase.
LEMMA NdtStep == NdtInv /\ [N!Next]_(N!vars) => NdtInv'
<1>. SUFFICES ASSUME NdtInv, [N!Next]_(N!vars)
              PROVE  NdtInv'
  OBVIOUS
<1>. USE DEF NdtInv, NdtNumbers, NdtConnections, NdtCounters, NdtQuiet, N!flow, N!record
<1>1. CASE N!Before
  <2>1. CASE N!StartFails \/ N!Start \/ N!ConnectFails \/ N!Connect \/ N!PhaseFails
    BY <2>1 DEF N!StartFails, N!Start, N!ConnectFails, N!Connect, N!PhaseFails, N!CallBack, N!Goto, N!Abort,
                N!Disconnect
  <2>2. CASE N!LoggedIn \/ N!Kickoff \/ N!Authorized \/ N!Version
    BY <2>2 DEF N!LoggedIn, N!Kickoff, N!Authorized, N!Version, N!Goto
  <2>3. CASE N!TestsId
    <3>1. pc = "ids" /\ pc' \in {"results", "prepare", "closing"}
      BY <2>3, NextTest DEF N!TestsId
    <3>. QED
      BY <2>3, <3>1 DEF N!TestsId
  <2>. QED
    BY <1>1, <2>1, <2>2, <2>3 DEF N!Before
<1>2. CASE N!InTest
  <2>1. CASE N!PrepareFails \/ N!ConnectTestFails \/ N!BeginFails
    BY <2>1, EarlyEnd DEF N!PrepareFails, N!ConnectTestFails, N!BeginFails
  <2>2. CASE N!Prepare
    <3>1. PICK n \in (CASE test = "meta" -> {0} [] test = "c2s" -> {1} [] OTHER -> 1..MaxStreams) :
            streams' = n /\ left' = n
      BY <2>2 DEF N!Prepare
    <3>2. n \in Nat /\ (test = "meta" <=> n = 0) /\ n <= MaxStreams /\ (test = "c2s" => n <= 1)
      BY <3>1, ClientsAssumption
    <3>. QED
      BY <2>2, <3>1, <3>2 DEF N!Prepare
  <2>3. CASE N!ConnectTest \/ N!Begin \/ N!FlowEnds
    BY <2>3 DEF N!ConnectTest, N!Begin, N!FlowEnds
  <2>4. CASE N!FlowsFail
    <3>1. leaked' \in Nat /\ open' = 1 + leaked' /\ calls = 0 /\ N!TestEnds("flow")
      BY <2>4 DEF N!FlowsFail
    <3>. QED
      BY <3>1, EndOfTest
  <2>5. CASE N!FlowClosed
    BY <2>5 DEF N!FlowClosed, N!LastFlow
  <2>6. CASE N!SpeedFails \/ N!WriteFails \/ N!FinalFails \/ N!Finalize
    <3>1. PICK err, e : N!Finish(err, e) /\ open = 1 + leaked /\ calls = 0
      BY <2>6 DEF N!SpeedFails, N!WriteFails, N!FinalFails, N!Finalize
    <3>2. leaked' \in Nat /\ open' = 1 + leaked' /\ calls = 0 /\ N!TestEnds(err)
      BY <3>1 DEF N!Finish
    <3>. QED
      BY <3>2, EndOfTest
  <2>7. CASE N!Speed \/ N!Written
    BY <2>7 DEF N!Speed, N!Written, N!Goto
  <2>. QED
    BY <1>2, <2>1, <2>2, <2>3, <2>4, <2>5, <2>6, <2>7 DEF N!InTest
<1>3. CASE N!After
  BY <1>3 DEF N!After, N!Logout, N!WaitClose, N!Closed, N!Goto, N!Abort, N!Disconnect
<1>4. CASE N!Talk
  BY <1>4 DEF N!Talk, N!StayInQueue, N!Data, N!Web100, N!MoreResults, N!GoesOn
<1>5. CASE UNCHANGED N!vars
  BY <1>5 DEF N!vars
<1>. QED
  BY <1>1, <1>2, <1>3, <1>4, <1>5 DEF N!Next

\* The connections of a measurement: the callback comes when the control connection is
\* closed, and then only what is leaked is left.
LEMMA NdtSession ==
  NdtInv /\ [N!Next]_(N!vars) => Keeps(open, leaked, calls, open', leaked', calls', 0)
<1>. SUFFICES ASSUME NdtInv, [N!Next]_(N!vars)
              PROVE  Keeps(open, leaked, calls, open', leaked', calls', 0)
  OBVIOUS
<1>. USE DEF NdtInv, NdtNumbers, NdtConnections, NdtCounters, NdtQuiet, Keeps
<1>1. CASE N!StartFails \/ N!ConnectFails \/ N!Connect \/ N!Closed
  BY <1>1 DEF N!StartFails, N!ConnectFails, N!Connect, N!Closed, N!CallBack
<1>2. CASE N!PrepareFails \/ N!ConnectTestFails \/ N!BeginFails
  <2>1. /\ calls = 0 /\ calls' = 0 /\ open' = open /\ leaked' = leaked + (streams - left)
        /\ streams - left \in Nat /\ open = (1 + leaked) + (streams - left)
    BY <1>2 DEF N!PrepareFails, N!ConnectTestFails, N!BeginFails, N!TestFails, N!TestEnds
  <2>. QED
    BY <2>1
<1>3. CASE N!ConnectTest \/ N!FlowsFail \/ N!FlowClosed
  BY <1>3 DEF N!ConnectTest, N!FlowsFail, N!FlowClosed, N!TestEnds
<1>4. CASE N!Talk \/ N!Logout \/ N!WaitClose \/ UNCHANGED N!vars
  BY <1>4 DEF N!Talk, N!StayInQueue, N!Data, N!Web100, N!MoreResults, N!GoesOn, N!Logout,
              N!WaitClose, N!Goto, N!Abort, N!vars
<1>5. CASE N!Start \/ N!PhaseFails \/ N!LoggedIn \/ N!Kickoff \/ N!Authorized \/ N!Version
             \/ N!TestsId
  BY <1>5 DEF N!Start, N!PhaseFails, N!LoggedIn, N!Kickoff, N!Authorized, N!Version, N!TestsId,
              N!Goto, N!Abort
<1>6. CASE N!Prepare \/ N!Begin \/ N!FlowEnds \/ N!SpeedFails \/ N!Speed \/ N!WriteFails
             \/ N!Written \/ N!FinalFails \/ N!Finalize
  BY <1>6 DEF N!Prepare, N!Begin, N!FlowEnds, N!SpeedFails, N!Speed, N!WriteFails, N!Written,
              N!FinalFails, N!Finalize, N!Finish, N!TestEnds, N!Goto
<1>. QED
  BY <1>1, <1>2, <1>3, <1>4, <1>5, <1>6 DEF N!Next, N!Before, N!InTest, N!After

-----------------------------------------------------------------------------
\* What the end of a test is recorded with.
TestErrors == {"prepare", "connect", "begin", "flow", "speed", "write", "final", "none"}

\* What each test left, and what is lost or not yet recorded of it.
NdtRecorded ==
  /\ test \in N!Tests
  /\ results \in Seq([test : N!Tests, err : TestErrors])
  /\ entries \in [{"c2s", "s2c"} -> Nat] /\ leaked \in Nat
  /\ pc = "written" => test # "c2s"
  /\ N!NdtRecords

\* What is counted is a finite set.
LEMMA CountIsNatural ==
  ASSUME NEW T, results \in Seq(T), NEW CONSTANT kind, NEW CONSTANT errs
  PROVE  LET good == {i \in DOMAIN results : results[i].test \in kind /\ results[i].err \in errs}
         IN  /\ IsFiniteSet(good) /\ Cardinality(good) \in Nat
             /\ N!Count(kind, errs) = Cardinality(good)
<1>. DEFINE good == {i \in DOMAIN results : results[i].test \in kind /\ results[i].err \in errs}
            n == Len(results)
<1>1. \A A : N!Cardinality(A) = Cardinality(A)
  BY Zenon DEF N!Cardinality, Cardinality
<1>2. n \in Nat /\ DOMAIN results = 1..n
  OBVIOUS
<1>3. IsFiniteSet(1..n)
  BY <1>2, FS_Interval
<1>4. IsFiniteSet(good) /\ Cardinality(good) \in Nat
  BY <1>2, <1>3, FS_Subset, FS_CardinalityType
<1>. QED
  BY <1>1, <1>4 DEF N!Count, N!Quantify

\* One more result counts, or does not.
LEMMA ResultCounted ==
  ASSUME NEW T, results \in Seq(T), NEW res, results' = Append(results, res),
         NEW CONSTANT kind, NEW CONSTANT errs
  PROVE  /\ N!Count(kind, errs) \in Nat
         /\ N!Count(kind, errs)' =
              N!Count(kind, errs) + (IF res.test \in kind /\ res.err \in errs THEN 1 ELSE 0)
<1>. DEFINE Good == {i \in DOMAIN results : results[i].test \in kind /\ results[i].err \in errs}
            n == Len(results)
<1>1. \A A : N!Cardinality(A) = Cardinality(A)
  BY Zenon DEF N!Cardinality, Cardinality
<1>2. N!Count(kind, errs) = Cardinality(Good) /\ N!Count(kind, errs)' = Cardinality(Good')
  BY <1>1 DEF N!Count, N!Quantify
<1>3. n \in Nat /\ DOMAIN results = 1..n /\ DOMAIN results' = 1..(n + 1)
  BY AppendProperties
<1>4. results'[n + 1] = res /\ \A i \in 1..n : results'[i] = results[i]
  OBVIOUS
<1>5. IsFiniteSet(Good) /\ Cardinality(Good) \in Nat
  BY CountIsNatural
<1>6. CASE res.test \in kind /\ res.err \in errs
  <2>1. Good' = Good \union {n + 1} /\ n + 1 \notin Good
    BY <1>3, <1>4, <1>6
  <2>. HIDE DEF Good, n
  <2>. QED
    BY <1>2, <1>5, <1>6, <2>1, FS_AddElement
<1>7. CASE ~(res.test \in kind /\ res.err \in errs)
  <2>1. Good' = Good
    BY <1>3, <1>4, <1>7
  <2>. HIDE DEF Good, n
  <2>. QED
    BY <1>2, <1>5, <1>7, <2>1
<1>. QED
  BY <1>6, <1>7

\* No result, no change of what is counted.
LEMMA CountKept ==
  ASSUME NEW CONSTANT kind, NEW CONSTANT errs, results' = results
  PROVE  N!Count(kind, errs)' = N!Count(kind, errs)
BY DEF N!Count, N!Quantify

\* The next test is one that is known, or the one before.
LEMMA TestKnown ==
  ASSUME NEW suite, N!RunTests(suite), test \in N!Tests
  PROVE  test' \in N!Tests
BY DEF N!RunTests, N!Disconnect

\* A test that ends has its error recorded.
LEMMA TestRecorded ==
  ASSUME NdtRecorded, NEW err \in TestErrors, N!TestEnds(err)
  PROVE  /\ test' \in N!Tests
         /\ results' \in Seq([test : N!Tests, err : TestErrors])
         /\ pc' \notin {"final", "written"}
         /\ N!Count(N!Downloads, {"none"})' = N!Count(N!Downloads, {"none"})
              + (IF test \in N!Downloads /\ err = "none" THEN 1 ELSE 0)
         /\ N!Count({"c2s"}, {"none", "final"})' = N!Count({"c2s"}, {"none", "final"})
              + (IF test = "c2s" /\ err \in {"none", "final"} THEN 1 ELSE 0)
         /\ N!Count(N!Downloads, {"none"}) \in Nat
         /\ N!Count({"c2s"}, {"none", "final"}) \in Nat
<1>. DEFINE res == [test |-> test, err |-> err]
<1>1. results' = Append(results, res) /\ N!RunTests(granted)
  BY DEF N!TestEnds
<1>2. test' \in N!Tests /\ pc' \notin {"final", "written"}
  BY <1>1, TestKnown, NextTest DEF NdtRecorded
<1>3. results' \in Seq([test : N!Tests, err : TestErrors])
  <2>1. res \in [test : N!Tests, err : TestErrors]
    BY DEF NdtRecorded
  <2>. HIDE DEF res
  <2>. QED
    BY <1>1, <2>1, AppendProperties DEF NdtRecorded
<1>4. res.test = test /\ res.err = err
  OBVIOUS
<1>5. results \in Seq([test : N!Tests, err : TestErrors]) /\ test \in N!Tests
  BY DEF NdtRecorded
<1>. HIDE DEF res
<1>6. /\ N!Count(N!Downloads, {"none"}) \in Nat
      /\ N!Count(N!Downloads, {"none"})' = N!Count(N!Downloads, {"none"})
           + (IF res.test \in N!Downloads /\ res.err \in {"none"} THEN 1 ELSE 0)
  BY <1>1, <1>5, ResultCounted
<1>7. /\ N!Count({"c2s"}, {"none", "final"}) \in Nat
      /\ N!Count({"c2s"}, {"none", "final"})' = N!Count({"c2s"}, {"none", "final"})
           + (IF res.test \in {"c2s"} /\ res.err \in {"none", "final"} THEN 1 ELSE 0)
  BY <1>1, <1>5, ResultCounted
<1>. QED
  BY <1>2, <1>3, <1>4, <1>5, <1>6, <1>7

\* The sum of Forgotten, when one more test counts in it.
LEMMA ForgottenSum ==
  ASSUME NEW m \in Nat \ {0}, NEW c \in Nat, NEW b \in Nat, NEW u \in Nat,
         NEW x \in {0, 1}, NEW y \in {0, 1}, NEW z \in {0, 1}
  PROVE  /\ (m - 1) * c + m * b + u \in Nat
         /\ (m - 1) * (c + x) + m * (b + y) + (u + z) =
              ((m - 1) * c + m * b + u) + ((m - 1) * x + m * y + z)
<1>1. m - 1 \in Nat /\ (m - 1) * c \in Nat /\ m * b \in Nat
  OBVIOUS
<1>2. (m - 1) * (c + x) = (m - 1) * c + (m - 1) * x
  BY <1>1
<1>3. m * (b + y) = m * b + m * y
  OBVIOUS
<1>4. (m - 1) * x \in Nat /\ m * y \in Nat
  BY <1>1
<1>. QED
  BY <1>1, <1>2, <1>3, <1>4

\* What a test that ends with an error may have left connected.
MayForget(err) ==
  IF test \in N!Downloads /\ err = "connect" THEN MaxStreams - 1
  ELSE IF test \in N!Downloads /\ err = "begin" THEN MaxStreams
  ELSE IF test = "c2s" /\ err = "begin" THEN 1 ELSE 0

LEMMA ForgottenGrows ==
  ASSUME NdtRecorded, NEW err \in TestErrors, N!TestEnds(err)
  PROVE  /\ N!Forgotten \in Nat /\ MayForget(err) \in Nat
         /\ N!Forgotten' = N!Forgotten + MayForget(err)
<1>. DEFINE res == [test |-> test, err |-> err]
            x == IF test \in N!Downloads /\ err = "connect" THEN 1 ELSE 0
            y == IF test \in N!Downloads /\ err = "begin" THEN 1 ELSE 0
            z == IF test = "c2s" /\ err = "begin" THEN 1 ELSE 0
            c == N!Count(N!Downloads, {"connect"})
            b == N!Count(N!Downloads, {"begin"})
            u == N!Count({"c2s"}, {"begin"})
<1>1. results' = Append(results, res) /\ res.test = test /\ res.err = err
  BY DEF N!TestEnds
<1>2. results \in Seq([test : N!Tests, err : TestErrors])
  BY DEF NdtRecorded
<1>. HIDE DEF res
<1>3. c \in Nat /\ c' = c + (IF res.test \in N!Downloads /\ res.err \in {"connect"} THEN 1 ELSE 0)
  BY <1>1, <1>2, ResultCounted
<1>4. b \in Nat /\ b' = b + (IF res.test \in N!Downloads /\ res.err \in {"begin"} THEN 1 ELSE 0)
  BY <1>1, <1>2, ResultCounted
<1>5. u \in Nat /\ u' = u + (IF res.test \in {"c2s"} /\ res.err \in {"begin"} THEN 1 ELSE 0)
  BY <1>1, <1>2, ResultCounted
<1>6. c' = c + x /\ b' = b + y /\ u' = u + z
  BY <1>1, <1>3, <1>4, <1>5
<1>7. /\ N!Forgotten = (MaxStreams - 1) * c + MaxStreams * b + u
      /\ N!Forgotten' = (MaxStreams - 1) * c' + MaxStreams * b' + u'
  BY DEF N!Forgotten
<1>8. x \in {0, 1} /\ y \in {0, 1} /\ z \in {0, 1} /\ MaxStreams \in Nat \ {0}
  BY ClientsAssumption
<1>9. MayForget(err) = (MaxStreams - 1) * x + MaxStreams * y + z /\ MayForget(err) \in Nat
  BY <1>8 DEF MayForget, N!Downloads
<1>. HIDE DEF c, b, u, x, y, z
<1>. QED
  BY <1>3, <1>4, <1>5, <1>6, <1>7, <1>8, <1>9, ForgottenSum

\* A test that failed early did not connect more than that.
LEMMA ForgetsNoMore ==
  ASSUME NdtInv, NEW err, test \in N!Tests,
         \/ err = "prepare" /\ pc = "prepare"
         \/ err = "connect" /\ pc = "connecting"
         \/ err = "begin" /\ pc = "begin"
  PROVE  streams - left \in Nat /\ streams - left <= MayForget(err)
BY ClientsAssumption DEF NdtInv, NdtNumbers, NdtConnections, NdtCounters, MayForget, N!Tests,
  N!Downloads

LEMMA RecordedInit == N!Init => NdtRecorded
<1>. SUFFICES ASSUME N!Init
              PROVE  NdtRecorded
  OBVIOUS
<1>1. results \in Seq([test : N!Tests, err : TestErrors])
  BY DEF N!Init
<1>2. \A kind, errs : N!Count(kind, errs) = 0
  <2>1. \A A : N!Cardinality(A) = Cardinality(A)
    BY Zenon DEF N!Cardinality, Cardinality
  <2>2. DOMAIN results = {}
    BY DEF N!Init
  <2>3. \A kind, errs : N!Count(kind, errs) = N!Cardinality({})
    BY <2>2 DEF N!Count, N!Quantify
  <2>. QED
    BY <2>1, <2>3, FS_EmptySet
<1>3. N!Forgotten = 0
  BY <1>2, ClientsAssumption DEF N!Forgotten
<1>. QED
  BY <1>1, <1>2, <1>3 DEF N!Init, NdtRecorded, N!NdtRecords, N!Tests

\* A step inside of a test, and outside of one, that leaves the record alone.
LEMMA RecordKept ==
  ASSUME NdtRecorded, UNCHANGED <<results, entries, leaked>>,
         test' \in N!Tests, pc' = "written" => test' # "c2s",
         pc' = "final" /\ test' = "c2s" <=> pc = "final" /\ test = "c2s"
  PROVE  NdtRecorded'
<1>1. /\ N!Count(N!Downloads, {"none"})' = N!Count(N!Downloads, {"none"})
      /\ N!Count({"c2s"}, {"none", "final"})' = N!Count({"c2s"}, {"none", "final"})
      /\ N!Forgotten' = N!Forgotten
  BY CountKept DEF N!Forgotten
<1>. QED
  BY <1>1 DEF NdtRecorded, N!NdtRecords

\* A test that fails early leaves no entry, and may leave connections.
LEMMA EarlyRecorded ==
  ASSUME NdtInv, NdtRecorded, NEW err, N!TestFails(err),
         \/ err = "prepare" /\ pc = "prepare"
         \/ err = "connect" /\ pc = "connecting"
         \/ err = "begin" /\ pc = "begin"
  PROVE  NdtRecorded'
<1>0. err \in TestErrors
  BY DEF TestErrors
<1>1. N!TestEnds(err) /\ entries' = entries /\ leaked' = leaked + (streams - left)
  BY DEF N!TestFails
<1>2. streams - left \in Nat /\ streams - left <= MayForget(err)
  BY ForgetsNoMore DEF NdtRecorded
<1>3. entries.s2c \in Nat /\ entries.c2s \in Nat /\ leaked \in Nat /\ leaked' \in Nat
  BY <1>1, <1>2 DEF NdtRecorded
<1>4. entries'.s2c = N!Count(N!Downloads, {"none"})'
  BY <1>1, <1>0, TestRecorded DEF NdtRecorded, N!NdtRecords
<1>5. pc # "final" /\ pc' \notin {"final", "written"}
  BY <1>1, <1>0, TestRecorded
<1>6. entries'.c2s = N!Count({"c2s"}, {"none", "final"})'
  <2>1. entries.c2s = N!Count({"c2s"}, {"none", "final"})
    BY <1>3, <1>5, <1>1, <1>0, TestRecorded DEF NdtRecorded, N!NdtRecords
  <2>. QED
    BY <1>1, <2>1, <1>0, TestRecorded
<1>7. leaked' <= N!Forgotten'
  <2>1. leaked <= N!Forgotten
    BY DEF NdtRecorded, N!NdtRecords
  <2>. QED
    BY <1>0, <1>1, <1>2, <1>3, <2>1, ForgottenGrows
<1>8. N!NdtRecords'
  BY <1>4, <1>5, <1>6, <1>7, <1>1, <1>0, TestRecorded DEF N!NdtRecords
<1>. QED
  BY <1>1, <1>3, <1>5, <1>8, <1>0, TestRecorded DEF NdtRecorded

\* A test that ends after its flows has its entry when it should.
LEMMA LateRecorded ==
  ASSUME NdtRecorded, NEW err \in TestErrors, N!TestEnds(err),
         err \notin {"connect", "begin"}, leaked' = leaked,
         entries' \in [{"c2s", "s2c"} -> Nat], entries'.c2s = entries.c2s,
         entries'.s2c = entries.s2c + (IF test \in N!Downloads /\ err = "none" THEN 1 ELSE 0),
         err \in {"none", "final"} <=> pc = "final"
  PROVE  NdtRecorded'
<1>3. entries.s2c \in Nat /\ entries.c2s \in Nat /\ leaked \in Nat
  BY DEF NdtRecorded
<1>4. entries'.s2c = N!Count(N!Downloads, {"none"})'
  BY <1>3, TestRecorded DEF NdtRecorded, N!NdtRecords
<1>5. entries'.c2s = N!Count({"c2s"}, {"none", "final"})'
  BY <1>3, TestRecorded DEF NdtRecorded, N!NdtRecords
<1>6. leaked' <= N!Forgotten'
  <2>1. leaked <= N!Forgotten
    BY DEF NdtRecorded, N!NdtRecords
  <2>. QED
    BY <1>3, <2>1, ForgottenGrows
<1>7. pc' \notin {"final", "written"}
  BY TestRecorded
<1>8. N!NdtRecords'
  BY <1>3, <1>4, <1>5, <1>6, <1>7 DEF N!NdtRecords
<1>. QED
  BY <1>3, <1>7, <1>8, TestRecorded DEF NdtRecorded

LEMMA RecordedStep == NdtInv /\ NdtRecorded /\ [N!Next]_(N!vars) => NdtRecorded'
<1>. SUFFICES ASSUME NdtInv, NdtRecorded, [N!Next]_(N!vars)
              PROVE  NdtRecorded'
  OBVIOUS
<1>0. test \in N!Tests /\ entries \in [{"c2s", "s2c"} -> Nat]
  BY DEF NdtRecorded
<1>1. CASE N!Before
  <2>1. CASE N!TestsId
    <3>1. pc = "ids" /\ UNCHANGED <<results, entries, leaked>>
      BY <2>1 DEF N!TestsId, N!record
    <3>2. PICK suite : N!RunTests(suite)
      BY <2>1 DEF N!TestsId
    <3>3. pc' \in {"results", "prepare", "closing"} /\ test' \in N!Tests
      BY <1>0, <3>2, NextTest, TestKnown
    <3>. QED
      BY <3>1, <3>3, RecordKept
  <2>2. CASE ~N!TestsId
    <3>1. UNCHANGED <<results, entries, leaked, test>> /\ {pc, pc'} \cap {"written", "final"} = {}
      BY <1>1, <2>2 DEF N!Before, N!StartFails, N!Start, N!ConnectFails, N!Connect, N!PhaseFails,
        N!LoggedIn, N!Kickoff, N!Authorized, N!Version, N!CallBack, N!Goto, N!Abort, N!Disconnect,
        N!record
    <3>. QED
      BY <1>0, <3>1, RecordKept
  <2>. QED
    BY <2>1, <2>2
<1>2. CASE N!InTest
  <2>1. CASE N!PrepareFails \/ N!ConnectTestFails \/ N!BeginFails
    BY <2>1, EarlyRecorded DEF N!PrepareFails, N!ConnectTestFails, N!BeginFails
  <2>2. CASE N!Prepare \/ N!ConnectTest \/ N!FlowEnds \/ N!FlowClosed
    <3>1. UNCHANGED <<results, entries, leaked, test>> /\ {pc, pc'} \cap {"written", "final"} = {}
      BY <2>2 DEF N!Prepare, N!ConnectTest, N!FlowEnds, N!FlowClosed, N!record
    <3>. QED
      BY <1>0, <3>1, RecordKept
  <2>3. CASE N!Begin
    <3>1. UNCHANGED <<results, entries, leaked, test>> /\ pc = "begin"
          /\ pc' = (IF test = "meta" THEN "written" ELSE "flows")
      BY <2>3 DEF N!Begin, N!record
    <3>. QED
      BY <1>0, <3>1, RecordKept
  <2>4. CASE N!FlowsFail
    <3>1. N!TestEnds("flow") /\ pc = "flows" /\ UNCHANGED <<entries, leaked>>
      BY <2>4 DEF N!FlowsFail
    <3>2. entries.s2c + 0 = entries.s2c
      BY <1>0
    <3>. QED
      BY <1>0, <3>1, <3>2, LateRecorded DEF TestErrors
  <2>5. CASE N!SpeedFails \/ N!WriteFails \/ N!FinalFails \/ N!Finalize
    <3>1. PICK err \in {"speed", "write", "final", "none"} :
            /\ N!TestEnds(err) /\ leaked' = leaked
            /\ (err \in {"none", "final"} <=> pc = "final")
            /\ entries' = IF test \in N!Downloads /\ err = "none" THEN [entries EXCEPT !.s2c = @ + 1]
                          ELSE entries
      <4>1. CASE N!SpeedFails
        BY <4>1 DEF N!SpeedFails, N!Finish
      <4>2. CASE N!WriteFails
        BY <4>2 DEF N!WriteFails, N!Finish
      <4>3. CASE N!FinalFails
        BY <4>3 DEF N!FinalFails, N!Finish
      <4>4. CASE N!Finalize
        BY <4>4 DEF N!Finalize, N!Finish
      <4>. QED
        BY <2>5, <4>1, <4>2, <4>3, <4>4
    <3>2. /\ entries' \in [{"c2s", "s2c"} -> Nat] /\ entries'.c2s = entries.c2s
          /\ entries'.s2c = entries.s2c + (IF test \in N!Downloads /\ err = "none" THEN 1 ELSE 0)
      BY <1>0, <3>1
    <3>. QED
      BY <3>1, <3>2, LateRecorded DEF TestErrors
  <2>6. CASE N!Speed
    <3>1. pc = "speed" /\ UNCHANGED <<results, leaked, test>>
      BY <2>6 DEF N!Speed
    <3>2. CASE test = "c2s"
      <4>1. pc' = "final" /\ entries' = [entries EXCEPT !.c2s = @ + 1]
        BY <2>6, <3>2 DEF N!Speed
      <4>2. /\ N!Count(N!Downloads, {"none"})' = N!Count(N!Downloads, {"none"})
            /\ N!Count({"c2s"}, {"none", "final"})' = N!Count({"c2s"}, {"none", "final"})
            /\ N!Forgotten' = N!Forgotten
        BY <3>1, CountKept DEF N!Forgotten
      <4>3. N!Count({"c2s"}, {"none", "final"}) \in Nat
        BY CountIsNatural DEF NdtRecorded
      <4>4. /\ entries' \in [{"c2s", "s2c"} -> Nat] /\ entries'.s2c = entries.s2c
            /\ entries'.c2s = entries.c2s + 1 /\ entries.c2s \in Nat
        BY <1>0, <4>1
      <4>. QED
        BY <3>1, <3>2, <4>1, <4>2, <4>3, <4>4 DEF NdtRecorded, N!NdtRecords
    <3>3. CASE test # "c2s"
      <4>1. pc' = "written" /\ entries' = entries
        BY <2>6, <3>3 DEF N!Speed
      <4>. QED
        BY <1>0, <3>1, <3>3, <4>1, RecordKept
    <3>. QED
      BY <3>2, <3>3
  <2>7. CASE N!Written
    <3>1. pc = "written" /\ pc' = "final" /\ UNCHANGED <<results, entries, leaked, test>>
      BY <2>7 DEF N!Written, N!Goto, N!record
    <3>2. test # "c2s"
      BY <3>1 DEF NdtRecorded
    <3>. QED
      BY <1>0, <3>1, <3>2, RecordKept
  <2>. QED
    BY <1>2, <2>1, <2>2, <2>3, <2>4, <2>5, <2>6, <2>7 DEF N!InTest
<1>3. CASE N!After
  <2>1. UNCHANGED <<results, entries, leaked, test>> /\ {pc, pc'} \cap {"written", "final"} = {}
    BY <1>3 DEF N!After, N!Logout, N!WaitClose, N!Closed, N!Goto, N!Abort, N!Disconnect, N!record
  <2>. QED
    BY <1>0, <2>1, RecordKept
<1>4. CASE N!Talk
  <2>1. UNCHANGED <<results, entries, leaked, test, pc>>
    BY <1>4 DEF N!Talk, N!StayInQueue, N!Data, N!Web100, N!MoreResults, N!GoesOn, N!record
  <2>. QED
    BY <1>0, <2>1, RecordKept DEF NdtRecorded
<1>5. CASE UNCHANGED N!vars
  <2>1. UNCHANGED <<results, entries, leaked, test, pc>>
    BY <1>5 DEF N!vars, N!record
  <2>. QED
    BY <1>0, <2>1, RecordKept DEF NdtRecorded
<1>. QED
  BY <1>1, <1>2, <1>3, <1>4, <1>5 DEF N!Next

-----------------------------------------------------------------------------
\* multi_ndt leaves the connections to the tests that it runs.
MultiInv ==
  /\ pc \in {"start", "single", "multi", "done"}
  /\ open = 0 /\ calls = IF pc = "done" THEN 1 ELSE 0

LEMMA MultiStep ==
  MultiInv /\ [M!Next]_(M!vars) => MultiInv' /\ Holds(open, calls, open', calls')
BY DEF MultiInv, Holds, Keeps, M!Next, M!RunSingle, M!RunMulti, M!Complete, M!vars

-----------------------------------------------------------------------------
\* What multi_ndt selects is computed from what its two tests left.
MultiChosen ==
  /\ single \in M!Outcomes /\ multi \in M!Outcomes
  /\ pc = "done" =>
       selected = M!Select(M!compute_simple_stats(single), M!compute_simple_stats(multi))

LEMMA OutcomeNumbers ==
  ASSUME NEW r \in M!Outcomes
  PROVE  /\ r.pushed \in BOOLEAN /\ r.samples \in Nat
         /\ r.samples > 8 => r.pushed
<1>1. CASE r \in [err : BOOLEAN, pushed : {TRUE}, samples : SampleCounts]
  <2>1. r.pushed = TRUE /\ r.samples \in SampleCounts
    BY <1>1
  <2>. QED
    BY <2>1, ClientsAssumption
<1>2. CASE r \in [err : BOOLEAN, pushed : {FALSE}, samples : {0}]
  <2>1. r.pushed \in BOOLEAN /\ r.samples = 0
    BY <1>2
  <2>2. ~(r.samples > 8)
    BY <2>1
  <2>. QED
    BY <2>1, <2>2
<1>. QED
  BY <1>1, <1>2 DEF M!Outcomes

LEMMA ChosenInit == M!Init => MultiChosen
BY DEF M!Init, MultiChosen, M!Outcomes, M!Nothing

LEMMA ChosenStep == MultiChosen /\ [M!Next]_(M!vars) => MultiChosen'
BY DEF MultiChosen, M!Next, M!RunSingle, M!RunMulti, M!Complete, M!vars

\* The comparison of the two speeds, in all the ways in which one may be missing.
LEMMA ChosenIsFastest == MultiChosen => M!FastestSelected
<1>. SUFFICES ASSUME MultiChosen, pc = "done"
              PROVE  M!FastestSelected
  BY DEF M!FastestSelected
<1>1. /\ single.pushed \in BOOLEAN /\ single.samples \in Nat
      /\ single.samples > 8 => single.pushed
  BY OutcomeNumbers DEF MultiChosen
<1>2. /\ multi.pushed \in BOOLEAN /\ multi.samples \in Nat
      /\ multi.samples > 8 => multi.pushed
  BY OutcomeNumbers DEF MultiChosen
<1>3. /\ single.samples > 8 \/ multi.samples > 8 => selected \in {"single", "multi"}
      /\ selected = "single" /\ (single.samples > 8 \/ multi.samples > 8) =>
           single.samples > 8 /\ (multi.samples > 8 => single.samples >= multi.samples)
      /\ selected = "multi" /\ (single.samples > 8 \/ multi.samples > 8) =>
           multi.samples > 8 /\ (single.samples > 8 => multi.samples >= single.samples)
  BY <1>1, <1>2 DEF MultiChosen, M!Select, M!compute_simple_stats, M!compute_speed, M!Null
<1>4. M!Runs["single"] = single /\ M!Runs["multi"] = multi
  BY DEF M!Runs
<1>. QED
  BY <1>1, <1>2, <1>3, <1>4 DEF M!FastestSelected

-----------------------------------------------------------------------------
\* The connections of dash: the one for the negotiation, and in run_loop_() a second one.
DashInv ==
  /\ pc \in {"start", "connect", "negotiate", "reconnect", "next", "segment", "testclosing",
             "collect", "closing", "done"}
  /\ open = CASE pc \in {"start", "connect", "done"} -> 0
              [] pc \in {"next", "segment", "testclosing"} -> 2
              [] OTHER -> 1
  /\ calls = IF pc = "done" THEN 1 ELSE 0

LEMMA DashStep == DashInv /\ [D!Next]_(D!vars) => DashInv' /\ Holds(open, calls, open', calls')
<1>. SUFFICES ASSUME DashInv, [D!Next]_(D!vars)
              PROVE  DashInv' /\ Holds(open, calls, open', calls')
  OBVIOUS
<1>. USE DEF DashInv, Holds, Keeps
<1>1. CASE D!StartFails \/ D!Start \/ D!Connect \/ D!NegotiateFails \/ D!Choked \/ D!Unchoked
  BY <1>1 DEF D!StartFails, D!Start, D!Connect, D!NegotiateFails, D!Choked, D!Unchoked,
              D!CallBack, D!Close, D!test
<1>2. CASE D!ReconnectFails \/ D!Reconnect \/ D!NextSegment \/ D!Measured \/ D!SegmentFails
  BY <1>2 DEF D!ReconnectFails, D!Reconnect, D!NextSegment, D!Measured, D!SegmentFails
<1>3. CASE D!AllSegments \/ D!TestClosed \/ D!Collect \/ D!Closed
  BY <1>3 DEF D!AllSegments, D!TestClosed, D!Collect, D!Closed, D!CallBack, D!Close
<1>4. CASE UNCHANGED D!vars
  BY <1>4 DEF D!vars
<1>. QED
  BY <1>1, <1>2, <1>3, <1>4 DEF D!Next

\* Induction over the natural numbers for a set of them.
LEMMA SetInduction ==
  ASSUME NEW X \in SUBSET Nat, 0 \in X, \A n \in Nat : n \in X => n + 1 \in X
  PROVE  X = Nat
<1>. DEFINE T == Nat \ X
<1>. SUFFICES ASSUME T # {}
              PROVE  FALSE
  OBVIOUS
<1>1. PICK m \in T : \A k \in T : ~ (<<k, m>> \in OpToRel(<, Nat))
  <2>. HIDE DEF T
  <2>1. T \subseteq Nat
    BY DEF T
  <2>. QED
    BY <2>1, WFMin, NatLessThanWellFounded
<1>2. m \in Nat /\ m # 0
  OBVIOUS
<1>3. m - 1 \in Nat /\ m - 1 < m /\ (m - 1) + 1 = m
  BY <1>2
<1>4. m - 1 \notin T
  <2>1. m - 1 \in Nat => <<m - 1, m>> \in OpToRel(<, Nat)
    BY <1>2, <1>3 DEF OpToRel
  <2>. QED
    BY <1>1, <1>3, <2>1
<1>. QED
  BY <1>3, <1>4

\* A function that is defined by its first value and by a step from each value to the next.
Unrolls(f, n, a, step) == f[0] = a /\ \A i \in 1..n : f[i] = step[<<i, f[i - 1]>>]

LEMMA Unrolled ==
  ASSUME NEW N0 \in Nat, NEW Y, NEW a \in Y, NEW step \in [(1..N0) \X Y -> Y]
  PROVE  \E f \in [0..N0 -> Y] : Unrolls(f, N0, a, step)
<1>. USE DEF Unrolls
<1>. DEFINE Good(n, f) == Unrolls(f, n, a, step)
            X == {n \in Nat : n <= N0 => \E f \in [0..n -> Y] : Good(n, f)}
<1>1. 0 \in X
  <2>1. [i \in 0..0 |-> a] \in [0..0 -> Y] /\ Good(0, [i \in 0..0 |-> a])
    OBVIOUS
  <2>. QED
    BY <2>1
<1>2. ASSUME NEW n \in Nat, n \in X
      PROVE  n + 1 \in X
  <2>. SUFFICES ASSUME n + 1 <= N0
                PROVE  \E g \in [0..(n + 1) -> Y] : Good(n + 1, g)
    OBVIOUS
  <2>1. PICK f \in [0..n -> Y] : Good(n, f)
    BY <1>2
  <2>. DEFINE g == [i \in 0..(n + 1) |-> IF i <= n THEN f[i] ELSE step[<<n + 1, f[n]>>]]
  <2>2. f[n] \in Y /\ step[<<n + 1, f[n]>>] \in Y
    OBVIOUS
  <2>3. g \in [0..(n + 1) -> Y]
    BY <2>2
  <2>4. g[0] = a
    BY <2>1
  <2>5. ASSUME NEW i \in 1..(n + 1)
        PROVE  g[i] = step[<<i, g[i - 1]>>]
    <3>1. CASE i <= n
      BY <2>1, <3>1
    <3>2. CASE i = n + 1
      BY <3>2
    <3>. QED
      BY <3>1, <3>2
  <2>. QED
    BY <2>3, <2>4, <2>5
<1>3. X = Nat
  <2>. HIDE DEF X
  <2>1. X \in SUBSET Nat
    BY DEF X
  <2>. QED
    BY <1>1, <1>2, <2>1, SetInduction
<1>4. N0 \in X
  <2>. HIDE DEF X
  <2>. QED
    BY <1>3
<1>. QED
  BY <1>4


\* frame_ready_time is the sum of the times so far.
LEMMA ReadySums ==
  ASSUME NEW times \in Seq(Nat \ {0})
  PROVE  /\ D!Ready(times) \in [0..Len(times) -> Nat]
         /\ D!Ready(times)[0] = 0
         /\ \A i \in 1..Len(times) : D!Ready(times)[i] = D!Ready(times)[i - 1] + times[i]
<1>. DEFINE k == Len(times)
            G(f) == [n \in 0..Len(times) |-> IF n = 0 THEN 0 ELSE f[n - 1] + times[n]]
            step == [w \in (1..k) \X Nat |-> w[2] + times[w[1]]]
<1>1. k \in Nat /\ \A i \in 1..k : times[i] \in Nat
  OBVIOUS
<1>2. step \in [(1..k) \X Nat -> Nat]
  <2>1. ASSUME NEW w \in (1..k) \X Nat
        PROVE  w[2] + times[w[1]] \in Nat
    <3>1. w[1] \in 1..k /\ w[2] \in Nat
      OBVIOUS
    <3>2. times[w[1]] \in Nat
      BY <1>1, <3>1
    <3>. QED
      BY <3>1, <3>2
  <2>. QED
    BY <2>1
<1>3. PICK f \in [0..k -> Nat] : Unrolls(f, k, 0, step)
  <2>. HIDE DEF step, k
  <2>1. 0 \in Nat
    OBVIOUS
  <2>. QED
    BY <1>1, <1>2, <2>1, Unrolled
<1>4. ASSUME NEW i \in 1..k
      PROVE  f[i] = f[i - 1] + times[i]
  <2>. HIDE DEF k
  <2>1. i - 1 \in 0..k
    BY <1>1
  <2>2. <<i, f[i - 1]>> \in (1..k) \X Nat
    BY <1>3, <2>1
  <2>. QED
    BY <1>3, <2>2 DEF Unrolls
<1>5. f = G(f)
  <2>1. \A n \in 0..k : f[n] = IF n = 0 THEN 0 ELSE f[n - 1] + times[n]
    <3>. HIDE DEF k
    <3>1. ASSUME NEW n \in 0..k, n # 0
          PROVE  f[n] = f[n - 1] + times[n]
      <4>1. n \in 1..k
        BY <1>1, <3>1
      <4>. QED
        BY <1>4, <4>1
    <3>2. f[0] = 0
      BY <1>3 DEF Unrolls
    <3>. QED
      BY <3>1, <3>2
  <2>2. f = [n \in 0..k |-> f[n]]
    BY <1>3
  <2>. QED
    BY <2>1, <2>2
<1>6. D!Ready(times) = CHOOSE r : r = G(r)
  BY DEF D!Ready
<1>7. D!Ready(times) = G(D!Ready(times))
  <2>. HIDE DEF G
  <2>. QED
    BY <1>5, <1>6
<1>. DEFINE r == D!Ready(times)
<1>8. r = G(r)
  BY <1>7
<1>9. \A i \in 0..k : r[i] \in Nat
  <2>. HIDE DEF r
  <2>. DEFINE X == {n \in Nat : n <= k => r[n] \in Nat}
  <2>1. 0 \in X
    BY <1>1, <1>8
  <2>2. \A n \in Nat : n \in X => n + 1 \in X
    BY <1>1, <1>8
  <2>3. X = Nat
    <3>. HIDE DEF X
    <3>1. X \in SUBSET Nat
      BY DEF X
    <3>. QED
      BY <2>1, <2>2, <3>1, SetInduction
  <2>. QED
    BY <1>1, <2>3
<1>. HIDE DEF r
<1>10. r \in [0..k -> Nat]
  BY <1>8, <1>9
<1>11. r[0] = 0
  BY <1>1, <1>8
<1>12. \A i \in 1..k : r[i] = r[i - 1] + times[i]
  <2>1. \A n \in 0..k : r[n] = IF n = 0 THEN 0 ELSE r[n - 1] + times[n]
    BY <1>8
  <2>. HIDE DEF k
  <2>2. \A i \in 1..k : i \in 0..k /\ i # 0
    BY <1>1
  <2>. QED
    BY <2>1, <2>2
<1>. QED
  BY <1>10, <1>11, <1>12 DEF r


\* play_time is zero before the first segment, and then the time at which one is due.
LEMMA PlayIsDue ==
  ASSUME NEW times \in Seq(Nat \ {0}), NEW target \in Nat
  PROVE  \A n \in 1..Len(times) : D!Play(times, target)[n] = times[1] + (n - 1) * target
<1>. DEFINE k == Len(times)
            ready == D!Ready(times)
            G(f) == [n \in 0..Len(times) |->
                       IF n = 0 THEN 0
                       ELSE f[n - 1] + (IF f[n - 1] = 0 THEN D!Ready(times)[n] ELSE target)]
            step == [w \in (1..k) \X Nat |-> w[2] + (IF w[2] = 0 THEN ready[w[1]] ELSE target)]
<1>1. /\ k \in Nat /\ \A i \in 1..k : times[i] \in Nat \ {0}
      /\ ready \in [0..k -> Nat] /\ ready[0] = 0
      /\ \A i \in 1..k : ready[i] = ready[i - 1] + times[i]
  BY ReadySums
<1>. HIDE DEF ready
<1>2. step \in [(1..k) \X Nat -> Nat]
  <2>1. ASSUME NEW w \in (1..k) \X Nat
        PROVE  w[2] + (IF w[2] = 0 THEN ready[w[1]] ELSE target) \in Nat
    <3>1. w[1] \in 1..k /\ w[2] \in Nat
      OBVIOUS
    <3>2. ready[w[1]] \in Nat
      BY <1>1, <3>1
    <3>. QED
      BY <3>1, <3>2
  <2>. QED
    BY <2>1
<1>3. PICK f \in [0..k -> Nat] : Unrolls(f, k, 0, step)
  <2>. HIDE DEF step, k
  <2>1. 0 \in Nat
    OBVIOUS
  <2>. QED
    BY <1>1, <1>2, <2>1, Unrolled
<1>4. ASSUME NEW i \in 1..k
      PROVE  f[i] = f[i - 1] + (IF f[i - 1] = 0 THEN ready[i] ELSE target)
  <2>. HIDE DEF k
  <2>1. i - 1 \in 0..k
    BY <1>1
  <2>2. <<i, f[i - 1]>> \in (1..k) \X Nat
    BY <1>3, <2>1
  <2>. QED
    BY <1>3, <2>2 DEF Unrolls
<1>5. f = G(f)
  <2>1. \A n \in 0..k : f[n] = IF n = 0 THEN 0
                                ELSE f[n - 1] + (IF f[n - 1] = 0 THEN ready[n] ELSE target)
    <3>. HIDE DEF k
    <3>1. ASSUME NEW n \in 0..k, n # 0
          PROVE  f[n] = f[n - 1] + (IF f[n - 1] = 0 THEN ready[n] ELSE target)
      <4>1. n \in 1..k
        BY <1>1, <3>1
      <4>. QED
        BY <1>4, <4>1
    <3>2. f[0] = 0
      BY <1>3 DEF Unrolls
    <3>. QED
      BY <3>1, <3>2
  <2>2. f = [n \in 0..k |-> f[n]]
    BY <1>3
  <2>. QED
    BY <2>1, <2>2 DEF ready
<1>6. D!Play(times, target) = CHOOSE r : r = G(r)
  BY DEF D!Play
<1>7. D!Play(times, target) = G(D!Play(times, target))
  <2>. HIDE DEF G
  <2>. QED
    BY <1>5, <1>6
<1>. DEFINE play == D!Play(times, target)
<1>8. play = G(play)
  BY <1>7
<1>. HIDE DEF play
<1>9. /\ play[0] = 0
      /\ \A i \in 1..k : play[i] = play[i - 1] + (IF play[i - 1] = 0 THEN ready[i] ELSE target)
  <2>1. \A n \in 0..k : play[n] = IF n = 0 THEN 0
                                   ELSE play[n - 1] + (IF play[n - 1] = 0 THEN ready[n] ELSE target)
    BY <1>8 DEF ready
  <2>. HIDE DEF k
  <2>2. 0 \in 0..k /\ \A i \in 1..k : i \in 0..k /\ i # 0
    BY <1>1
  <2>. QED
    BY <2>1, <2>2
<1>. DEFINE X == {n \in Nat : n \in 1..k => play[n] = times[1] + (n - 1) * target}
<1>10. 0 \in X
  OBVIOUS
<1>11. ASSUME NEW n \in Nat, n \in X
       PROVE  n + 1 \in X
  <2>. SUFFICES ASSUME n + 1 \in 1..k
                PROVE  play[n + 1] = times[1] + ((n + 1) - 1) * target
    OBVIOUS
  <2>1. play[n + 1] = play[n] + (IF play[n] = 0 THEN ready[n + 1] ELSE target)
    BY <1>9
  <2>2. CASE n = 0
    <3>1. 1 \in 1..k /\ ready[1] = times[1] /\ times[1] \in Nat
      BY <1>1, <2>2
    <3>2. play[1] = times[1]
      BY <1>9, <2>1, <2>2, <3>1
    <3>. QED
      BY <2>2, <3>1, <3>2
  <2>3. CASE n # 0
    <3>1. n \in 1..k /\ 1 \in 1..k /\ times[1] \in Nat \ {0}
      BY <1>1, <2>3
    <3>2. play[n] = times[1] + (n - 1) * target
      BY <1>11, <3>1
    <3>3. (n - 1) * target \in Nat /\ n * target = (n - 1) * target + target
      BY <3>1
    <3>4. play[n] # 0
      BY <3>1, <3>2, <3>3
    <3>5. play[n + 1] = play[n] + target
      BY <2>1, <3>4
    <3>6. (n + 1) - 1 = n
      OBVIOUS
    <3>. QED
      BY <3>1, <3>2, <3>3, <3>5, <3>6
  <2>. QED
    BY <2>2, <2>3
<1>12. X = Nat
  <2>. HIDE DEF X
  <2>1. X \in SUBSET Nat
    BY DEF X
  <2>. QED
    BY <1>10, <1>11, <2>1, SetInduction
<1>13. \A n \in 1..k : play[n] = times[1] + (n - 1) * target
  BY <1>1, <1>12
<1>. QED
  BY <1>13 DEF play

\* The greatest of the values of a function.
LEMMA GreatestValue ==
  ASSUME NEW k \in Nat \ {0}, NEW e \in [1..k -> Int]
  PROVE  \E j \in 1..k : D!Max({e[n] : n \in 1..k}) = e[j] /\ \A n \in 1..k : e[n] <= e[j]
<1>. DEFINE X == {m \in Nat : m \in 1..k => \E j \in 1..m : \A n \in 1..m : e[n] <= e[j]}
            V == {e[n] : n \in 1..k}
<1>1. 0 \in X
  OBVIOUS
<1>2. ASSUME NEW m \in Nat, m \in X
      PROVE  m + 1 \in X
  <2>. SUFFICES ASSUME m + 1 \in 1..k
                PROVE  \E j \in 1..(m + 1) : \A n \in 1..(m + 1) : e[n] <= e[j]
    OBVIOUS
  <2>1. \A n \in 1..(m + 1) : e[n] \in Int
    OBVIOUS
  <2>2. CASE m = 0
    BY <2>1, <2>2
  <2>3. CASE m # 0
    <3>1. PICK j \in 1..m : \A n \in 1..m : e[n] <= e[j]
      BY <1>2, <2>3
    <3>2. CASE e[m + 1] <= e[j]
      <4>1. j \in 1..(m + 1) /\ \A n \in 1..(m + 1) : e[n] <= e[j]
        BY <3>1, <3>2
      <4>. QED
        BY <4>1
    <3>3. CASE e[j] <= e[m + 1]
      <4>1. ASSUME NEW n \in 1..(m + 1)
            PROVE  e[n] <= e[m + 1]
        <5>1. e[n] \in Int /\ e[j] \in Int /\ e[m + 1] \in Int
          BY <2>1, <3>1
        <5>2. CASE n \in 1..m
          BY <3>1, <3>3, <5>1, <5>2
        <5>3. CASE n = m + 1
          BY <5>1, <5>3
        <5>. QED
          BY <5>2, <5>3
      <4>2. m + 1 \in 1..(m + 1)
        OBVIOUS
      <4>. QED
        BY <4>1, <4>2
    <3>. QED
      BY <2>1, <3>2, <3>3
  <2>. QED
    BY <2>2, <2>3
<1>3. X = Nat
  <2>. HIDE DEF X
  <2>1. X \in SUBSET Nat
    BY DEF X
  <2>. QED
    BY <1>1, <1>2, <2>1, SetInduction
<1>4. PICK j \in 1..k : \A n \in 1..k : e[n] <= e[j]
  <2>1. k \in X
    BY <1>3
  <2>. QED
    BY <2>1
<1>5. e[j] \in V /\ \A v \in V : e[j] >= v
  BY <1>4
<1>6. D!Max(V) \in V /\ \A v \in V : D!Max(V) >= v
  <2>. HIDE DEF V
  <2>. QED
    BY <1>5 DEF D!Max
<1>7. D!Max(V) = e[j]
  <2>1. D!Max(V) >= e[j]
    BY <1>5, <1>6
  <2>2. e[j] >= D!Max(V)
    BY <1>5, <1>6
  <2>3. e[j] \in Int /\ D!Max(V) \in Int
    BY <1>6
  <2>. QED
    BY <2>1, <2>2, <2>3
<1>. QED
  BY <1>4, <1>7


\* With the delay that is told every segment is there when it is due, and one just then.
LEMMA PlayoutDelay ==
  ASSUME NEW times \in Seq(Nat \ {0}), times # <<>>, NEW target \in Nat
  PROVE  LET d == D!min_playout_delay(times, target)
         IN  /\ d \in Nat
             /\ \A n \in 1..Len(times) :
                  D!Ready(times)[n] <= (times[1] + (n - 1) * target) + d
             /\ \E n \in 1..Len(times) :
                  D!Ready(times)[n] = (times[1] + (n - 1) * target) + d
<1>. DEFINE k == Len(times)
            ready == D!Ready(times)
            due(n) == times[1] + (n - 1) * target
            e == [n \in 1..k |-> ready[n] - D!Play(times, target)[n]]
            d == D!min_playout_delay(times, target)
<1>1. /\ k \in Nat \ {0} /\ times[1] \in Nat
      /\ ready \in [0..k -> Nat] /\ ready[0] = 0
      /\ ready[1] = ready[0] + times[1]
  BY ReadySums
<1>2. \A n \in 1..k : D!Play(times, target)[n] = due(n)
  BY PlayIsDue
<1>3. \A n \in 1..k : due(n) \in Int /\ ready[n] \in Int
  BY <1>1
<1>. HIDE DEF ready, due
<1>4. e \in [1..k -> Int] /\ \A n \in 1..k : e[n] = ready[n] - due(n)
  BY <1>2, <1>3
<1>5. d = D!Max({e[n] : n \in 1..k})
  <2>1. DOMAIN times = 1..k
    OBVIOUS
  <2>2. D!Stalls(times, target) = {e[n] : n \in 1..k}
    BY <2>1 DEF D!Stalls, ready
  <2>. QED
    BY <2>2 DEF D!min_playout_delay
<1>. HIDE DEF e, d, k
<1>6. PICK j \in 1..k : d = e[j] /\ \A n \in 1..k : e[n] <= e[j]
  BY <1>1, <1>4, <1>5, GreatestValue
<1>7. e[1] = 0 /\ 1 \in 1..k
  <2>1. 1 \in 1..k /\ due(1) = times[1] /\ ready[1] = times[1]
    BY <1>1 DEF due
  <2>. QED
    BY <1>1, <1>4, <2>1
<1>8. d \in Nat
  BY <1>4, <1>6, <1>7
<1>9. \A n \in 1..k : ready[n] <= due(n) + d
  BY <1>3, <1>4, <1>6, <1>8
<1>10. ready[j] = due(j) + d
  BY <1>3, <1>4, <1>6, <1>8
<1>. QED
  BY <1>6, <1>8, <1>9, <1>10 DEF ready, due, d, k

-----------------------------------------------------------------------------
\* The table: twenty-three rates, each higher than the one before.
LEMMA TableAscends ==
  ASSUME NEW r,
         /\ r[1] = 100 /\ r[2] = 150 /\ r[3] = 200 /\ r[4] = 250 /\ r[5] = 300 /\ r[6] = 400
         /\ r[7] = 500 /\ r[8] = 700 /\ r[9] = 900 /\ r[10] = 1200 /\ r[11] = 1500 /\ r[12] = 2000
         /\ r[13] = 2500 /\ r[14] = 3000 /\ r[15] = 4000 /\ r[16] = 5000 /\ r[17] = 6000
         /\ r[18] = 7000 /\ r[19] = 10000 /\ r[20] = 20000 /\ r[21] = 30000 /\ r[22] = 40000
         /\ r[23] = 50000
  PROVE  \A i \in 1..23 : /\ r[i] \in Int /\ 100 <= r[i] /\ r[i] <= 50000
                          /\ \A j \in 1..23 : i < j => r[i] < r[j]
<1>1. ASSUME NEW i \in 1..23
      PROVE  r[i] \in Int /\ 100 <= r[i] /\ r[i] <= 50000
  OBVIOUS
<1>2. ASSUME NEW i \in 1..23, NEW j \in 1..23, i < j
      PROVE  r[i] < r[j]
  <2>1. \A n \in 1..22 : r[n] < r[n + 1]
    OBVIOUS
  <2>2. j - 1 \in 1..22 /\ (j - 1) + 1 = j
    BY <1>2
  <2>. DEFINE X == {n \in Nat : i + n <= 22 => r[i] < r[i + n + 1]}
  <2>3. 0 \in X
    BY <2>1
  <2>4. ASSUME NEW n \in Nat, n \in X
        PROVE  n + 1 \in X
    <3>. SUFFICES ASSUME i + (n + 1) <= 22
                  PROVE  r[i] < r[i + (n + 1) + 1]
      OBVIOUS
    <3>1. i + n + 1 \in 1..22 /\ r[i + n + 1] < r[(i + n + 1) + 1]
      BY <2>1
    <3>2. r[i] < r[i + n + 1]
      BY <2>4
    <3>3. (i + n + 1) + 1 = i + (n + 1) + 1
      OBVIOUS
    <3>4. r[i] \in Int /\ r[i + n + 1] \in Int /\ r[(i + n + 1) + 1] \in Int
      BY <1>1, <3>1
    <3>. QED
      BY <3>1, <3>2, <3>3, <3>4
  <2>5. X = Nat
    <3>. HIDE DEF X
    <3>1. X \in SUBSET Nat
      BY DEF X
    <3>. QED
      BY <2>3, <2>4, <3>1, SetInduction
  <2>6. (j - i) - 1 \in Nat /\ i + ((j - i) - 1) <= 22 /\ i + ((j - i) - 1) + 1 = j
    BY <1>2
  <2>7. (j - i) - 1 \in X
    BY <2>5, <2>6
  <2>. QED
    BY <2>6, <2>7
<1>. QED
  BY <1>1, <1>2


LEMMA RatesAscend ==
  /\ Len(D!dash_rates) = 23 /\ DOMAIN D!dash_rates = 1..23 /\ D!dash_rates[1] = 100
  /\ D!dash_rates[Len(D!dash_rates)] = 50000
  /\ \A i \in 1..23 :
       /\ D!dash_rates[i] \in Int /\ 100 <= D!dash_rates[i] /\ D!dash_rates[i] <= 50000
       /\ \A j \in 1..23 : i < j => D!dash_rates[i] < D!dash_rates[j]
<1>. DEFINE r == D!dash_rates
<1>1. /\ r[1] = 100 /\ r[2] = 150 /\ r[3] = 200 /\ r[4] = 250 /\ r[5] = 300 /\ r[6] = 400
      /\ r[7] = 500 /\ r[8] = 700 /\ r[9] = 900 /\ r[10] = 1200 /\ r[11] = 1500 /\ r[12] = 2000
      /\ r[13] = 2500 /\ r[14] = 3000 /\ r[15] = 4000 /\ r[16] = 5000 /\ r[17] = 6000
      /\ r[18] = 7000 /\ r[19] = 10000 /\ r[20] = 20000 /\ r[21] = 30000 /\ r[22] = 40000
      /\ r[23] = 50000
  BY DEF D!dash_rates
<1>2. Len(r) = 23 /\ DOMAIN r = 1..23
  BY DEF D!dash_rates
<1>3. \A i \in 1..23 : /\ r[i] \in Int /\ 100 <= r[i] /\ r[i] <= 50000
                       /\ \A j \in 1..23 : i < j => r[i] < r[j]
  <2>. HIDE DEF r
  <2>. QED
    BY <1>1, TableAscends
<1>. QED
  BY <1>1, <1>2, <1>3

\* The rate that the loop selects is the highest one below the speed, or the lowest one:
\* whatever follows the table in memory does not matter.
SelectedRate(speed, past) == D!Rate(D!select_lower_rate_index(speed, past), past)

HighestBelow(speed) ==
  LET lower == {r \in D!Range(D!dash_rates) : r < speed}
  IN  IF lower = {} THEN D!dash_rates[1] ELSE D!Max(lower)

LEMMA LowerRate ==
  ASSUME NEW speed \in Int, NEW past \in Int
  PROVE  /\ SelectedRate(speed, past) = HighestBelow(speed)
         /\ HighestBelow(speed) \in Int
         /\ 100 <= HighestBelow(speed) /\ HighestBelow(speed) <= 50000
<1>. DEFINE t == D!dash_rates
            goes(i) == D!Rate(i, past) < speed /\ i < Len(D!dash_rates)
            stops(i) == ~goes(i) /\ \A j \in 0..(i - 1) : goes(j)
            q == CHOOSE i \in 0..Len(D!dash_rates) : stops(i)
            rate == D!Rate(D!select_lower_rate_index(speed, past), past)
            lower == {r \in D!Range(D!dash_rates) : r < speed}
<1>. SUFFICES /\ rate = IF lower = {} THEN D!dash_rates[1] ELSE D!Max(lower)
              /\ rate \in Int /\ 100 <= rate /\ rate <= 50000
  BY DEF SelectedRate, HighestBelow
<1>1. /\ Len(t) = 23 /\ DOMAIN t = 1..23
      /\ \A i \in 1..23 : /\ t[i] \in Int /\ 100 <= t[i] /\ t[i] <= 50000
                          /\ \A j \in 1..23 : i < j => t[i] < t[j]
  BY RatesAscend
<1>2. \A i \in 0..22 : D!Rate(i, past) = t[i + 1]
  BY <1>1 DEF D!Rate
<1>. HIDE DEF t
<1>3. \E i \in 0..23 : stops(i)
  <2>. DEFINE X == {n \in Nat : n <= 23 => \/ \A j \in 0..(n - 1) : goes(j)
                                           \/ \E i \in 0..(n - 1) : stops(i)}
  <2>1. 0 \in X
    OBVIOUS
  <2>2. ASSUME NEW n \in Nat, n \in X
        PROVE  n + 1 \in X
    <3>. HIDE DEF goes
    <3>. SUFFICES ASSUME n + 1 <= 23
                  PROVE  \/ \A j \in 0..n : goes(j)
                         \/ \E i \in 0..n : stops(i)
      OBVIOUS
    <3>1. CASE \A j \in 0..(n - 1) : goes(j)
      <4>1. CASE goes(n)
        BY <3>1, <4>1
      <4>2. CASE ~goes(n)
        BY <3>1, <4>2
      <4>. QED
        BY <4>1, <4>2
    <3>2. CASE \E i \in 0..(n - 1) : stops(i)
      <4>. HIDE DEF stops
      <4>. QED
        BY <3>2
    <3>. QED
      BY <2>2, <3>1, <3>2
  <2>3. X = Nat
    <3>. HIDE DEF X
    <3>1. X \in SUBSET Nat
      BY DEF X
    <3>. QED
      BY <2>1, <2>2, <3>1, SetInduction
  <2>4. ~goes(23)
    BY <1>1 DEF t
  <2>5. CASE \A j \in 0..22 : goes(j)
    <3>1. stops(23)
      <4>. HIDE DEF goes
      <4>. QED
        BY <2>4, <2>5
    <3>. HIDE DEF stops
    <3>. QED
      BY <3>1
  <2>6. CASE \E i \in 0..22 : stops(i)
    <3>. HIDE DEF stops
    <3>. QED
      BY <2>6
  <2>7. 23 \in X
    BY <2>3
  <2>. HIDE DEF stops, goes
  <2>. QED
    BY <2>5, <2>6, <2>7
<1>4. q \in 0..23 /\ stops(q)
  <2>1. Len(D!dash_rates) = 23
    BY <1>1 DEF t
  <2>. HIDE DEF stops
  <2>. QED
    BY <1>3, <2>1
<1>5. rate = D!Rate(IF q > 0 THEN q - 1 ELSE q, past)
  BY DEF D!select_lower_rate_index
<1>6. Len(D!dash_rates) = 23 /\ D!Range(D!dash_rates) = {t[i] : i \in 1..23}
  BY <1>1 DEF t, D!Range
<1>. HIDE DEF q, rate, goes, stops
<1>7. /\ \A j \in 1..23 : j <= q => t[j] < speed
      /\ q < 23 => ~(t[q + 1] < speed)
  <2>1. q \in 0..23
    BY <1>4
  <2>2. ~goes(q) /\ \A j \in 0..(q - 1) : goes(j)
    BY <1>4 DEF stops
  <2>3. ASSUME NEW j \in 1..23, j <= q
        PROVE  t[j] < speed
    <3>1. j - 1 \in 0..(q - 1) /\ j - 1 \in 0..22 /\ (j - 1) + 1 = j
      BY <2>1, <2>3
    <3>2. goes(j - 1)
      BY <2>2, <3>1
    <3>3. D!Rate(j - 1, past) = t[j]
      BY <1>2, <3>1
    <3>. QED
      BY <3>2, <3>3 DEF goes
  <2>4. ASSUME q < 23
        PROVE  ~(t[q + 1] < speed)
    <3>1. q \in 0..22
      BY <2>1, <2>4
    <3>2. D!Rate(q, past) = t[q + 1]
      BY <1>2, <3>1
    <3>. QED
      BY <1>6, <2>2, <2>4, <3>2 DEF goes
  <2>. QED
    BY <2>3, <2>4
<1>8. CASE q = 0
  <2>1. rate = t[1]
    BY <1>2, <1>5, <1>8
  <2>2. \A i \in 1..23 : ~(t[i] < speed)
    BY <1>1, <1>7, <1>8
  <2>3. lower = {}
    BY <1>6, <2>2
  <2>. QED
    BY <1>1, <2>1, <2>3 DEF t, rate
<1>9. CASE q > 0
  <2>1. q \in 1..23 /\ q - 1 \in 0..22 /\ (q - 1) + 1 = q
    BY <1>4, <1>9
  <2>2. rate = t[q]
    BY <1>2, <1>5, <1>9, <2>1
  <2>3. t[q] \in lower
    BY <1>6, <1>7, <2>1
  <2>4. ASSUME NEW r \in lower
        PROVE  r <= t[q]
    <3>1. PICK i \in 1..23 : r = t[i] /\ t[i] < speed
      BY <1>6
    <3>2. CASE i <= q
      BY <1>1, <2>1, <3>1, <3>2
    <3>3. CASE i > q
      <4>1. q < 23 /\ q + 1 \in 1..23
        BY <2>1, <3>3
      <4>2. t[q + 1] <= t[i]
        BY <1>1, <3>3, <4>1, <2>1
      <4>. QED
        BY <1>1, <1>7, <3>1, <4>1, <4>2
    <3>. QED
      BY <2>1, <3>2, <3>3
  <2>5. \A r \in lower : r \in Int
    BY <1>1, <1>6
  <2>6. D!Max(lower) = t[q]
    <3>. HIDE DEF lower
    <3>1. D!Max(lower) \in lower /\ \A y \in lower : D!Max(lower) >= y
      BY <2>3, <2>4, <2>5 DEF D!Max
    <3>. QED
      BY <2>3, <2>4, <2>5, <3>1
  <2>7. lower # {}
    <3>. HIDE DEF lower
    <3>. QED
      BY <2>3
  <2>8. rate = IF lower = {} THEN D!dash_rates[1] ELSE D!Max(lower)
    <3>. HIDE DEF lower
    <3>. QED
      BY <2>2, <2>6, <2>7
  <2>9. rate \in Int /\ 100 <= rate /\ rate <= 50000
    BY <1>1, <2>1, <2>2
  <2>. QED
    BY <2>8, <2>9 DEF rate
<1>. QED
  BY <1>4, <1>8, <1>9


\* The size of a segment, in int arithmetic that rounds to a number of bytes first.
LEMMA SegmentSize ==
  ASSUME NEW rate \in Int, 100 <= rate, rate <= 50000,
         NEW target \in Nat, target <= D!LongestTarget
  PROVE  D!Bytes(rate, target) = (rate * 125) * target
<1>1. D!MaxInt = 2147483647 /\ D!LongestTarget = 343
  <2>1. 2147483647 \div (125 * 50000) = 343
    OBVIOUS
  <2>. QED
    BY <2>1, RatesAscend DEF D!MaxInt, D!LongestTarget
<1>2. D!Product(rate, 1000) = rate * 1000 /\ (rate * 1000) \div 8 = rate * 125
  BY <1>1 DEF D!Product
<1>3. rate * 125 \in Nat /\ rate * 125 <= 6250000
  OBVIOUS
<1>4. target = 0 \/ rate * 125 <= D!MaxInt \div target
  <2>. SUFFICES ASSUME target # 0
                PROVE  rate * 125 <= D!MaxInt \div target
    OBVIOUS
  <2>1. target \in 1..343
    BY <1>1
  <2>2. 6261000 * target <= 2147523000
    BY <2>1
  <2>3. 6250000 * target <= 2147483647
    BY <2>1
  <2>4. 6250000 <= 2147483647 \div target
    BY <2>1, <2>3
  <2>5. 2147483647 \div target \in Int
    BY <2>1
  <2>. QED
    BY <1>1, <1>3, <2>4, <2>5
<1>. QED
  BY <1>2, <1>4 DEF D!Bytes, D!Product

\* What is measured, and that the delay is told once, when all the segments are there.
DashTypes ==
  /\ options.target \in Nat
  /\ speed_kbit \in {-1, D!dash_rates[1], D!InitialRate} \union Speeds
  /\ elapsed \in Seq(Times) /\ Len(elapsed) <= MaxIterations
  /\ pc = "segment" => Len(elapsed) < MaxIterations
  /\ negotiations \in 0..(MaxNegotiations + 1)
  /\ delay \in Int
  /\ pc \notin {"testclosing", "collect", "closing", "done"} => delay = -1

DashMeasured == DashTypes /\ D!SegmentRight /\ D!PlayoutIsSmooth

LEMMA MeasuredInit == D!Init => DashMeasured
<1>. SUFFICES ASSUME D!Init
              PROVE  DashMeasured
  OBVIOUS
<1>1. elapsed \in Seq(Times) /\ Len(elapsed) = 0
  BY EmptySeq DEF D!Init
<1>2. DashTypes
  BY <1>1, ClientsAssumption DEF D!Init, DashTypes
<1>3. D!SegmentRight /\ D!PlayoutIsSmooth
  BY DEF D!Init, D!SegmentRight, D!PlayoutIsSmooth
<1>. QED
  BY <1>2, <1>3 DEF DashMeasured

LEMMA MeasuredStep == DashMeasured /\ [D!Next]_(D!vars) => DashMeasured'
<1>. SUFFICES ASSUME DashMeasured, [D!Next]_(D!vars)
              PROVE  DashMeasured'
  OBVIOUS
<1>. USE DEF DashMeasured
<1>0. /\ MaxIterations \in Nat /\ MaxNegotiations \in Nat
      /\ Speeds \subseteq Nat /\ Times \subseteq Nat \ {0} /\ Targets \subseteq Nat
  BY ClientsAssumption
<1>1. CASE D!Start
  <2>1. /\ pc = "start" /\ pc' = "connect" /\ options'.target \in Targets
        /\ UNCHANGED <<negotiations, speed_kbit, segment, elapsed, delay>>
    BY <1>1 DEF D!Start, D!test
  <2>2. delay' = -1
    BY <2>1 DEF DashTypes
  <2>3. DashTypes'
    BY <1>0, <2>1 DEF DashTypes
  <2>4. D!SegmentRight' /\ D!PlayoutIsSmooth'
    BY <2>1, <2>2 DEF D!SegmentRight, D!PlayoutIsSmooth
  <2>. QED
    BY <2>3, <2>4
<1>2. ASSUME UNCHANGED <<options, D!test>>, pc' # "segment",
             negotiations' \in 0..(MaxNegotiations + 1),
             delay = -1 \/ pc' \in {"testclosing", "collect", "closing", "done"}
      PROVE  DashMeasured'
  <2>1. DashTypes'
    BY <1>2 DEF D!test, DashTypes
  <2>2. D!SegmentRight'
    BY <1>2 DEF D!SegmentRight
  <2>3. D!PlayoutIsSmooth'
    BY <1>2 DEF D!test, D!PlayoutIsSmooth
  <2>. QED
    BY <2>1, <2>2, <2>3
<1>3. CASE D!StartFails \/ D!Connect \/ D!ReconnectFails \/ D!Reconnect
  BY <1>2, <1>3 DEF D!StartFails, D!CallBack, D!Connect, D!ReconnectFails, D!Reconnect, DashTypes
<1>4. CASE D!NegotiateFails \/ D!Choked \/ D!Unchoked
  BY <1>0, <1>2, <1>4 DEF D!NegotiateFails, D!Close, D!Choked, D!Unchoked, DashTypes
<1>5. CASE D!SegmentFails \/ D!TestClosed \/ D!Collect \/ D!Closed
  BY <1>2, <1>5 DEF D!SegmentFails, D!TestClosed, D!Collect, D!Close, D!Closed, D!CallBack,
                    DashTypes
<1>6. CASE D!NextSegment
  <2>1. /\ pc = "next" /\ pc' = "segment" /\ Len(elapsed) < MaxIterations
        /\ UNCHANGED <<options, negotiations, elapsed, delay>>
    BY <1>6 DEF D!NextSegment
  <2>2. speed_kbit' \in {-1, D!dash_rates[1], D!InitialRate} \union Speeds /\ speed_kbit' \in Int
    BY <1>0, <1>6, RatesAscend DEF D!NextSegment, D!InitialRate, DashTypes
  <2>3. DashTypes'
    BY <2>1, <2>2 DEF DashTypes
  <2>4. D!SegmentRight'
    <3>1. PICK past \in {0, D!MaxInt} :
            options.fixed =>
              segment' = [rate |-> SelectedRate(speed_kbit', past),
                          bytes |-> D!Bytes(SelectedRate(speed_kbit', past), options.target)]
      BY <1>6 DEF D!NextSegment, SelectedRate
    <3>. DEFINE best == HighestBelow(speed_kbit')
    <3>2. past \in Int
      BY DEF D!MaxInt
    <3>3. /\ SelectedRate(speed_kbit', past) = best
          /\ best \in Int /\ 100 <= best /\ best <= 50000
      BY <2>2, <3>2, LowerRate
    <3>. HIDE DEF best
    <3>4. options.target <= D!LongestTarget =>
            D!Bytes(best, options.target) = (best * 125) * options.target
      BY <3>3, SegmentSize DEF DashTypes
    <3>5. options.fixed =>
            /\ segment'.rate = best
            /\ options.target <= D!LongestTarget => segment'.bytes = (best * 125) * options.target
      BY <3>1, <3>3, <3>4
    <3>. QED
      BY <2>1, <3>5 DEF D!SegmentRight, best, HighestBelow
  <2>5. D!PlayoutIsSmooth'
    BY <2>1 DEF D!PlayoutIsSmooth, DashTypes
  <2>. QED
    BY <2>3, <2>4, <2>5
<1>7. CASE D!Measured
  <2>1. /\ pc = "segment" /\ pc' = "next" /\ UNCHANGED <<options, negotiations, delay>>
        /\ \E t \in Times : elapsed' = Append(elapsed, t)
    BY <1>7 DEF D!Measured
  <2>2. speed_kbit' \in {-1, D!dash_rates[1], D!InitialRate} \union Speeds
    <3>1. PICK speed \in Speeds, t \in Times, nan \in {-1, 0} :
            speed_kbit' = IF ~options.fast \/ t <= options.target THEN speed
                          ELSE IF options.target = 0 /\ speed = 0 THEN nan ELSE D!dash_rates[1]
      BY <1>7 DEF D!Measured
    <3>. QED
      BY <3>1
  <2>3. elapsed' \in Seq(Times) /\ Len(elapsed') = Len(elapsed) + 1
    BY <2>1 DEF DashTypes
  <2>4. DashTypes'
    BY <1>0, <2>1, <2>2, <2>3 DEF DashTypes
  <2>. QED
    BY <2>1, <2>4 DEF DashTypes, D!SegmentRight, D!PlayoutIsSmooth
<1>8. CASE D!AllSegments
  <2>1. /\ pc = "next" /\ pc' = "testclosing"
        /\ UNCHANGED <<options, negotiations, speed_kbit, segment, elapsed>>
        /\ delay' = D!min_playout_delay(elapsed, options.target)
    BY <1>8 DEF D!AllSegments
  <2>2. CASE elapsed = <<>>
    <3>1. delay' = 0
      BY <2>1, <2>2 DEF D!min_playout_delay
    <3>. QED
      BY <2>1, <2>2, <3>1 DEF DashTypes, D!SegmentRight, D!PlayoutIsSmooth
  <2>3. CASE elapsed # <<>>
    <3>1. elapsed \in Seq(Nat \ {0}) /\ options.target \in Nat
      <4>1. elapsed \in Seq(Times) /\ options.target \in Nat
        BY DEF DashTypes
      <4>2. ASSUME NEW i \in 1..Len(elapsed)
            PROVE  elapsed[i] \in Nat \ {0}
        <5>1. elapsed[i] \in Times
          BY <4>1
        <5>. QED
          BY <1>0, <5>1
      <4>3. elapsed = [i \in 1..Len(elapsed) |-> elapsed[i]] /\ Len(elapsed) \in Nat
        BY <4>1
      <4>. QED
        BY <4>1, <4>2, <4>3
    <3>2. /\ delay' \in Nat
          /\ \A n \in 1..Len(elapsed) :
               D!Ready(elapsed)[n] <= (elapsed[1] + (n - 1) * options.target) + delay'
          /\ \E n \in 1..Len(elapsed) :
               D!Ready(elapsed)[n] = (elapsed[1] + (n - 1) * options.target) + delay'
      BY <2>1, <2>3, <3>1, PlayoutDelay
    <3>3. DOMAIN elapsed = 1..Len(elapsed)
      BY <3>1
    <3>4. D!PlayoutIsSmooth'
      BY <2>1, <3>2, <3>3 DEF D!PlayoutIsSmooth
    <3>5. DashTypes' /\ D!SegmentRight'
      BY <2>1, <3>2 DEF DashTypes, D!SegmentRight
    <3>. QED
      BY <3>4, <3>5
  <2>. QED
    BY <2>2, <2>3
<1>9. CASE UNCHANGED D!vars
  BY <1>9 DEF D!vars, D!test, DashTypes, D!SegmentRight, D!PlayoutIsSmooth
<1>. QED
  BY <1>1, <1>3, <1>4, <1>5, <1>6, <1>7, <1>8, <1>9 DEF D!Next

-----------------------------------------------------------------------------
CollectorTypes ==
  /\ lines \in Seq(C!Kinds) /\ torn \in BOOLEAN
  /\ torn => Len(lines) > 0
  /\ line \in Nat /\ stored \in Seq(Nat)

\* Nothing is read before the file is open, and no line past the last complete one.
LinesRead ==
  /\ pc \in {"start", "first"} => line = 0
  /\ pc \in {"connect", "create"} => line = 1
  /\ pc \in {"update", "next", "finish"} => line > 0
  /\ pc # "start" => line <= C!Complete
  /\ pc = "finish" => line = C!Complete

\* The lines from the first one on, in order and without a gap.
Numbered(s) == s = [i \in 1..Len(s) |-> i]

\* The collector has the lines before the one that is read, and then that one.
LinesStored ==
  /\ Numbered(stored)
  /\ pc \in {"start", "first", "connect", "create"} => Len(stored) = 0
  /\ pc = "update" => Len(stored) = line - 1
  /\ pc \in {"next", "finish"} => Len(stored) = line

\* Only close_report() closes the report, and only without it there is an error.
ReportOpen ==
  /\ pc \in {"start", "first", "connect", "create", "update", "next", "finish"} =>
       report # "closed" /\ calls = 0
  /\ calls = IF pc = "done" THEN 1 ELSE 0
  /\ open = IF pc \in {"create", "update", "next", "finish", "closing"} THEN 1 ELSE 0
  /\ report = "closed" => Len(stored) = C!Complete
  /\ pc \in {"closing", "done"} /\ failure = "none" => report = "closed"

CollectorInv == CollectorTypes /\ LinesRead /\ LinesStored /\ ReportOpen

\* A function on the first numbers is a sequence, and empty when there is none of them.
LEMMA FirstNumbers ==
  ASSUME NEW T, NEW n \in Nat, NEW f \in [1..n -> T]
  PROVE  f \in Seq(T) /\ Len(f) = n /\ (n = 0 <=> f = <<>>)
<1>1. f \in Seq(T)
  BY SeqDef
<1>2. Len(f) = n
  BY <1>1, LenProperties
<1>. QED
  BY <1>1, <1>2, EmptySeq

LEMMA CollectorInit == C!Init => CollectorInv
<1>. SUFFICES ASSUME C!Init
              PROVE  CollectorInv
  OBVIOUS
<1>1. Len(stored) = 0 /\ stored \in Seq(Nat) /\ Numbered(stored)
  <2>1. [i \in 1..0 |-> i] \in [1..0 -> Nat]
    OBVIOUS
  <2>. QED
    BY <2>1, FirstNumbers DEF C!Init, Numbered
<1>2. Len(lines) = 0 /\ lines \in Seq(C!Kinds)
  BY DEF C!Init
<1>3. LinesStored
  <2>1. pc = "start"
    BY DEF C!Init
  <2>. QED
    BY <1>1, <2>1 DEF LinesStored
<1>4. CollectorTypes
  BY <1>1, <1>2 DEF C!Init, CollectorTypes
<1>5. LinesRead /\ ReportOpen
  BY DEF C!Init, LinesRead, ReportOpen
<1>. QED
  BY <1>3, <1>4, <1>5 DEF CollectorInv

\* The file that is opened is a sequence of lines, and a torn one is not empty.
LEMMA FileOpened ==
  ASSUME C!OpenFile
  PROVE  /\ lines' \in Seq(C!Kinds) /\ Len(lines') \in Nat
         /\ torn' \in BOOLEAN /\ (torn' => Len(lines') > 0)
         /\ 0 <= C!Complete'
<1>1. PICK n \in 0..MaxLines : lines' \in [1..n -> C!Kinds]
  BY DEF C!OpenFile
<1>2. n \in Nat
  BY ClientsAssumption
<1>3. lines' \in Seq(C!Kinds) /\ Len(lines') = n /\ (n = 0 <=> lines' = <<>>)
  BY <1>1, <1>2, FirstNumbers
<1>4. torn' \in BOOLEAN /\ (torn' => lines' # <<>>)
  BY DEF C!OpenFile
<1>5. Len(lines') \in Nat /\ (torn' => Len(lines') > 0)
  BY <1>2, <1>3, <1>4
<1>6. 0 <= C!Complete'
  <2>1. CASE torn'
    BY <1>5, <2>1 DEF C!Complete
  <2>2. CASE ~torn'
    BY <1>5, <2>2 DEF C!Complete
  <2>. QED
    BY <2>1, <2>2
<1>. QED
  BY <1>3, <1>4, <1>5, <1>6

\* One more line in the collector, which is the one that was read.
LEMMA StoreIsNext ==
  ASSUME CollectorInv, pc = "update", C!Store
  PROVE  /\ stored' \in Seq(Nat) /\ Len(stored') = line
         /\ Numbered(stored)'
<1>1. stored' = Append(stored, line) /\ line \in Nat /\ stored \in Seq(Nat)
  BY DEF CollectorInv, CollectorTypes, C!Store
<1>2. Len(stored) = line - 1 /\ stored = [i \in 1..Len(stored) |-> i]
  BY DEF CollectorInv, LinesStored, Numbered
<1>3. stored' \in Seq(Nat) /\ Len(stored') = line /\ DOMAIN stored' = 1..line
  BY <1>1, <1>2
<1>4. ASSUME NEW i \in 1..line
      PROVE  stored'[i] = i
  BY <1>1, <1>2, <1>4
<1>5. stored' = [i \in 1..line |-> i]
  BY <1>3, <1>4
<1>. QED
  BY <1>3, <1>5 DEF Numbered

\* Every step keeps the count of the lines.
LEMMA CollectorStep == CollectorInv /\ [C!Next]_(C!vars) => CollectorInv'
<1>. SUFFICES ASSUME CollectorInv, [C!Next]_(C!vars)
              PROVE  CollectorInv'
  OBVIOUS
<1>a. CollectorTypes /\ LinesRead /\ LinesStored /\ ReportOpen
  BY DEF CollectorInv
<1>b. /\ C!Complete \in Int /\ 0 <= C!Complete
      /\ C!NextEntry \in {"eof", "json", "entry"}
      /\ C!NextEntry = "eof" => line >= C!Complete
      /\ C!NextEntry # "eof" => line < C!Complete
  <2>1. C!Complete \in Int /\ 0 <= C!Complete
    BY <1>a DEF CollectorTypes, C!Complete
  <2>. HIDE DEF C!Complete
  <2>. QED
    BY <1>a, <2>1 DEF CollectorTypes, C!NextEntry
<1>c. ASSUME UNCHANGED C!file
      PROVE  C!Complete' = C!Complete
  BY <1>c DEF C!file, C!Complete
<1>d. ASSUME UNCHANGED <<lines, torn>>, line' \in Nat, stored' \in Seq(Nat)
      PROVE  CollectorTypes'
  BY <1>a, <1>d DEF CollectorTypes
<1>1. CASE C!OpenFails
  <2>1. UNCHANGED <<lines, torn, stored>> /\ line' = line
    BY <1>1 DEF C!OpenFails, C!CallBack, C!file, C!collector
  <2>2. C!Complete' = C!Complete /\ CollectorTypes'
    BY <1>a, <1>c, <1>d, <2>1 DEF C!file, CollectorTypes
  <2>3. LinesRead'
    BY <1>1, <1>a, <1>b, <2>1, <2>2 DEF C!OpenFails, C!CallBack, LinesRead, CollectorTypes
  <2>4. LinesStored'
    BY <1>1, <1>a, <2>1 DEF C!OpenFails, C!CallBack, LinesRead, LinesStored, CollectorTypes
  <2>5. ReportOpen'
    BY <1>1, <1>a, <1>b, <2>1, <2>2 DEF C!OpenFails, C!CallBack, C!collector, LinesRead, LinesStored, ReportOpen
  <2>. QED
    BY <2>2, <2>3, <2>4, <2>5 DEF CollectorInv
<1>2. CASE C!OpenFile
  <2>1. /\ lines' \in Seq(C!Kinds) /\ Len(lines') \in Nat
        /\ torn' \in BOOLEAN /\ (torn' => Len(lines') > 0)
        /\ 0 <= C!Complete'
    BY <1>2, FileOpened
  <2>2. /\ pc = "start" /\ pc' = "first"
        /\ UNCHANGED <<open, calls, failure, line, report, stored>>
    BY <1>2 DEF C!OpenFile, C!collector
  <2>3. CollectorTypes'
    BY <1>a, <2>1, <2>2 DEF CollectorTypes
  <2>4. LinesRead'
    BY <1>a, <2>1, <2>2 DEF LinesRead
  <2>5. LinesStored' /\ ReportOpen'
    BY <1>a, <2>2 DEF LinesStored, ReportOpen
  <2>. QED
    BY <2>3, <2>4, <2>5 DEF CollectorInv
<1>3. CASE C!FirstFails
  <2>1. UNCHANGED <<lines, torn, stored>> /\ line' = line
    BY <1>3 DEF C!FirstFails, C!CallBack, C!file, C!collector
  <2>2. C!Complete' = C!Complete /\ CollectorTypes'
    BY <1>a, <1>c, <1>d, <2>1 DEF C!file, CollectorTypes
  <2>3. LinesRead'
    BY <1>3, <1>a, <1>b, <2>1, <2>2 DEF C!FirstFails, C!CallBack, LinesRead, CollectorTypes
  <2>4. LinesStored'
    BY <1>3, <1>a, <2>1 DEF C!FirstFails, C!CallBack, LinesRead, LinesStored, CollectorTypes
  <2>5. ReportOpen'
    BY <1>3, <1>a, <1>b, <2>1, <2>2 DEF C!FirstFails, C!CallBack, C!collector, LinesRead, LinesStored, ReportOpen
  <2>. QED
    BY <2>2, <2>3, <2>4, <2>5 DEF CollectorInv
<1>4. CASE C!ReadFirst
  <2>1. UNCHANGED <<lines, torn, stored>> /\ line' = 1
    BY <1>4 DEF C!ReadFirst, C!file, C!collector
  <2>2. C!Complete' = C!Complete /\ CollectorTypes'
    BY <1>a, <1>c, <1>d, <2>1 DEF C!file, CollectorTypes
  <2>3. LinesRead'
    BY <1>4, <1>a, <1>b, <2>1, <2>2 DEF C!ReadFirst, LinesRead, CollectorTypes
  <2>4. LinesStored'
    BY <1>4, <1>a, <2>1 DEF C!ReadFirst, LinesRead, LinesStored, CollectorTypes
  <2>5. ReportOpen'
    BY <1>4, <1>a, <1>b, <2>1, <2>2 DEF C!ReadFirst, C!collector, LinesRead, LinesStored, ReportOpen
  <2>. QED
    BY <2>2, <2>3, <2>4, <2>5 DEF CollectorInv
<1>5. CASE C!ConnectFails
  <2>1. UNCHANGED <<lines, torn, stored>> /\ line' = line
    BY <1>5 DEF C!ConnectFails, C!CallBack, C!file, C!collector
  <2>2. C!Complete' = C!Complete /\ CollectorTypes'
    BY <1>a, <1>c, <1>d, <2>1 DEF C!file, CollectorTypes
  <2>3. LinesRead'
    BY <1>5, <1>a, <1>b, <2>1, <2>2 DEF C!ConnectFails, C!CallBack, LinesRead, CollectorTypes
  <2>4. LinesStored'
    BY <1>5, <1>a, <2>1 DEF C!ConnectFails, C!CallBack, LinesRead, LinesStored, CollectorTypes
  <2>5. ReportOpen'
    BY <1>5, <1>a, <1>b, <2>1, <2>2 DEF C!ConnectFails, C!CallBack, C!collector, LinesRead, LinesStored, ReportOpen
  <2>. QED
    BY <2>2, <2>3, <2>4, <2>5 DEF CollectorInv
<1>6. CASE C!Connect
  <2>1. UNCHANGED <<lines, torn, stored>> /\ line' = line
    BY <1>6 DEF C!Connect, C!file, C!collector
  <2>2. C!Complete' = C!Complete /\ CollectorTypes'
    BY <1>a, <1>c, <1>d, <2>1 DEF C!file, CollectorTypes
  <2>3. LinesRead'
    BY <1>6, <1>a, <1>b, <2>1, <2>2 DEF C!Connect, LinesRead, CollectorTypes
  <2>4. LinesStored'
    BY <1>6, <1>a, <2>1 DEF C!Connect, LinesRead, LinesStored, CollectorTypes
  <2>5. ReportOpen'
    BY <1>6, <1>a, <1>b, <2>1, <2>2 DEF C!Connect, C!collector, LinesRead, LinesStored, ReportOpen
  <2>. QED
    BY <2>2, <2>3, <2>4, <2>5 DEF CollectorInv
<1>7. CASE C!CreateFails
  <2>1. UNCHANGED <<lines, torn, stored>> /\ line' = line
    BY <1>7 DEF C!CreateFails, C!Close, C!file, C!collector
  <2>2. C!Complete' = C!Complete /\ CollectorTypes'
    BY <1>a, <1>c, <1>d, <2>1 DEF C!file, CollectorTypes
  <2>3. LinesRead'
    BY <1>7, <1>a, <1>b, <2>1, <2>2 DEF C!CreateFails, C!Close, LinesRead, CollectorTypes
  <2>4. LinesStored'
    BY <1>7, <1>a, <2>1 DEF C!CreateFails, C!Close, LinesRead, LinesStored, CollectorTypes
  <2>5. ReportOpen'
    BY <1>7, <1>a, <1>b, <2>1, <2>2 DEF C!CreateFails, C!Close, C!collector, LinesRead, LinesStored, ReportOpen
  <2>. QED
    BY <2>2, <2>3, <2>4, <2>5 DEF CollectorInv
<1>8. CASE C!Create
  <2>1. UNCHANGED <<lines, torn, stored>> /\ line' = line
    BY <1>8 DEF C!Create, C!file, C!collector
  <2>2. C!Complete' = C!Complete /\ CollectorTypes'
    BY <1>a, <1>c, <1>d, <2>1 DEF C!file, CollectorTypes
  <2>3. LinesRead'
    BY <1>8, <1>a, <1>b, <2>1, <2>2 DEF C!Create, LinesRead, CollectorTypes
  <2>4. LinesStored'
    BY <1>8, <1>a, <2>1 DEF C!Create, LinesRead, LinesStored, CollectorTypes
  <2>5. ReportOpen'
    BY <1>8, <1>a, <1>b, <2>1, <2>2 DEF C!Create, C!collector, LinesRead, LinesStored, ReportOpen
  <2>. QED
    BY <2>2, <2>3, <2>4, <2>5 DEF CollectorInv
<1>9. CASE C!UpdateFails
  <2>1. /\ pc = "update" /\ pc' = "closing" /\ failure' = "update"
        /\ UNCHANGED <<open, calls, lines, torn, line, report>>
        /\ C!Store \/ UNCHANGED stored
    BY <1>9 DEF C!UpdateFails, C!Close, C!file
  <2>2. C!Complete' = C!Complete
    BY <1>c, <2>1 DEF C!file
  <2>3. stored' \in Seq(Nat) /\ Numbered(stored)'
    <3>1. CASE C!Store
      BY <2>1, <3>1, StoreIsNext
    <3>2. CASE UNCHANGED stored
      BY <1>a, <3>2 DEF CollectorTypes, LinesStored
    <3>. QED
      BY <2>1, <3>1, <3>2
  <2>4. CollectorTypes'
    BY <1>a, <1>d, <2>1, <2>3 DEF CollectorTypes
  <2>5. LinesRead'
    BY <1>a, <2>1, <2>2 DEF LinesRead
  <2>6. LinesStored' /\ ReportOpen'
    BY <1>a, <2>1, <2>3 DEF LinesStored, ReportOpen
  <2>. QED
    BY <2>4, <2>5, <2>6 DEF CollectorInv
<1>10. CASE C!Update
  <2>1. /\ pc = "update" /\ pc' = "next" /\ C!Store
        /\ UNCHANGED <<open, calls, failure, lines, torn, line, report>>
    BY <1>10 DEF C!Update, C!file
  <2>2. C!Complete' = C!Complete
    BY <1>c, <2>1 DEF C!file
  <2>3. /\ stored' \in Seq(Nat) /\ Len(stored') = line
        /\ Numbered(stored)'
    BY <2>1, StoreIsNext
  <2>4. CollectorTypes'
    BY <1>a, <1>d, <2>1, <2>3 DEF CollectorTypes
  <2>5. LinesRead'
    BY <1>a, <2>1, <2>2 DEF LinesRead
  <2>6. LinesStored' /\ ReportOpen'
    BY <1>a, <2>1, <2>3 DEF LinesStored, ReportOpen
  <2>. QED
    BY <2>4, <2>5, <2>6 DEF CollectorInv
<1>11. CASE C!ReadFails
  <2>1. UNCHANGED <<lines, torn, stored>> /\ line' = line
    BY <1>11 DEF C!ReadFails, C!Close, C!file, C!collector
  <2>2. C!Complete' = C!Complete /\ CollectorTypes'
    BY <1>a, <1>c, <1>d, <2>1 DEF C!file, CollectorTypes
  <2>3. LinesRead'
    BY <1>11, <1>a, <1>b, <2>1, <2>2 DEF C!ReadFails, C!Close, LinesRead, CollectorTypes
  <2>4. LinesStored'
    BY <1>11, <1>a, <2>1 DEF C!ReadFails, C!Close, LinesRead, LinesStored, CollectorTypes
  <2>5. ReportOpen'
    BY <1>11, <1>a, <1>b, <2>1, <2>2 DEF C!ReadFails, C!Close, C!collector, LinesRead, LinesStored, ReportOpen
  <2>. QED
    BY <2>2, <2>3, <2>4, <2>5 DEF CollectorInv
<1>12. CASE C!ReadNext
  <2>1. UNCHANGED <<lines, torn, stored>> /\ line' = line + 1
    BY <1>12 DEF C!ReadNext, C!file, C!collector
  <2>2. C!Complete' = C!Complete /\ CollectorTypes'
    BY <1>a, <1>c, <1>d, <2>1 DEF C!file, CollectorTypes
  <2>3. LinesRead'
    BY <1>12, <1>a, <1>b, <2>1, <2>2 DEF C!ReadNext, LinesRead, CollectorTypes
  <2>4. LinesStored'
    BY <1>12, <1>a, <2>1 DEF C!ReadNext, LinesRead, LinesStored, CollectorTypes
  <2>5. ReportOpen'
    BY <1>12, <1>a, <1>b, <2>1, <2>2 DEF C!ReadNext, C!collector, LinesRead, LinesStored, ReportOpen
  <2>. QED
    BY <2>2, <2>3, <2>4, <2>5 DEF CollectorInv
<1>13. CASE C!ReadEof
  <2>1. UNCHANGED <<lines, torn, stored>> /\ line' = line
    BY <1>13 DEF C!ReadEof, C!file, C!collector
  <2>2. C!Complete' = C!Complete /\ CollectorTypes'
    BY <1>a, <1>c, <1>d, <2>1 DEF C!file, CollectorTypes
  <2>3. LinesRead'
    BY <1>13, <1>a, <1>b, <2>1, <2>2 DEF C!ReadEof, LinesRead, CollectorTypes
  <2>4. LinesStored'
    BY <1>13, <1>a, <2>1 DEF C!ReadEof, LinesRead, LinesStored, CollectorTypes
  <2>5. ReportOpen'
    BY <1>13, <1>a, <1>b, <2>1, <2>2 DEF C!ReadEof, C!collector, LinesRead, LinesStored, ReportOpen
  <2>. QED
    BY <2>2, <2>3, <2>4, <2>5 DEF CollectorInv
<1>14. CASE C!CloseReport
  <2>1. UNCHANGED <<lines, torn, stored>> /\ line' = line
    BY <1>14 DEF C!CloseReport, C!Close, C!file, C!collector
  <2>2. C!Complete' = C!Complete /\ CollectorTypes'
    BY <1>a, <1>c, <1>d, <2>1 DEF C!file, CollectorTypes
  <2>3. LinesRead'
    BY <1>14, <1>a, <1>b, <2>1, <2>2 DEF C!CloseReport, C!Close, LinesRead, CollectorTypes
  <2>4. LinesStored'
    BY <1>14, <1>a, <2>1 DEF C!CloseReport, C!Close, LinesRead, LinesStored, CollectorTypes
  <2>5. ReportOpen'
    BY <1>14, <1>a, <1>b, <2>1, <2>2 DEF C!CloseReport, C!Close, C!collector, LinesRead, LinesStored, ReportOpen
  <2>. QED
    BY <2>2, <2>3, <2>4, <2>5 DEF CollectorInv
<1>15. CASE C!Closed
  <2>1. UNCHANGED <<lines, torn, stored>> /\ line' = line
    BY <1>15 DEF C!Closed, C!CallBack, C!file, C!collector
  <2>2. C!Complete' = C!Complete /\ CollectorTypes'
    BY <1>a, <1>c, <1>d, <2>1 DEF C!file, CollectorTypes
  <2>3. LinesRead'
    BY <1>15, <1>a, <1>b, <2>1, <2>2 DEF C!Closed, C!CallBack, LinesRead, CollectorTypes
  <2>4. LinesStored'
    BY <1>15, <1>a, <2>1 DEF C!Closed, C!CallBack, LinesRead, LinesStored, CollectorTypes
  <2>5. ReportOpen'
    BY <1>15, <1>a, <1>b, <2>1, <2>2 DEF C!Closed, C!CallBack, C!collector, LinesRead, LinesStored, ReportOpen
  <2>. QED
    BY <2>2, <2>3, <2>4, <2>5 DEF CollectorInv
<1>16. CASE UNCHANGED C!vars
  <2>1. UNCHANGED <<pc, open, calls, failure, lines, torn, line, report, stored>>
    BY <1>16 DEF C!vars
  <2>2. C!Complete' = C!Complete
    BY <1>c, <2>1 DEF C!file
  <2>. QED
    BY <1>a, <2>1, <2>2 DEF CollectorInv, CollectorTypes, LinesRead, LinesStored, ReportOpen
<1>. QED
  BY <1>1, <1>2, <1>3, <1>4, <1>5, <1>6, <1>7, <1>8, <1>9, <1>10,
     <1>11, <1>12, <1>13, <1>14, <1>15, <1>16 DEF C!Next

\* The connection to the collector is closed before the callback.
LEMMA CollectorSession == CollectorInv /\ [C!Next]_(C!vars) => Holds(open, calls, open', calls')
<1>. SUFFICES ASSUME CollectorInv, [C!Next]_(C!vars)
              PROVE  Holds(open, calls, open', calls')
  OBVIOUS
<1>. USE DEF CollectorInv, ReportOpen, Holds, Keeps
<1>1. CASE C!OpenFails \/ C!FirstFails \/ C!ConnectFails \/ C!Connect \/ C!Closed
  BY <1>1 DEF C!OpenFails, C!FirstFails, C!ConnectFails, C!Connect, C!Closed, C!CallBack
<1>2. CASE ~(C!OpenFails \/ C!FirstFails \/ C!ConnectFails \/ C!Connect \/ C!Closed)
  BY <1>2 DEF C!Next, C!OpenFile, C!ReadFirst, C!CreateFails, C!Create, C!UpdateFails, C!Update,
              C!ReadFails, C!ReadNext, C!ReadEof, C!CloseReport, C!Close, C!vars
<1>. QED
  BY <1>1, <1>2

-----------------------------------------------------------------------------
OrchestrateTypes ==
  /\ open = 0 /\ calls = IF pc = "done" THEN 1 ELSE 0
  /\ now \in Int /\ expiry \in Int
  /\ issued \in Seq(Int)
  /\ auth_token \in 0..Len(issued)

\* The expiry time, when it was parsed, is the one that the service gave to the token.
TokenKept == auth_token # 0 /\ expiry # -1 => issued[auth_token] = expiry \/ cut

OrchestrateInv == OrchestrateTypes /\ TokenKept

LEMMA OrchestrateInit == O!Init => OrchestrateInv
BY DEF O!Init, OrchestrateInv, OrchestrateTypes, TokenKept

\* The credentials change where the service answers, and nowhere else.
LEMMA OrchestrateStep == OrchestrateInv /\ [O!Next]_(O!vars) => OrchestrateInv'
<1>. SUFFICES ASSUME OrchestrateInv, [O!Next]_(O!vars)
              PROVE  OrchestrateInv'
  OBVIOUS
<1>. USE DEF OrchestrateInv, OrchestrateTypes, TokenKept
<1>1. CASE O!Begin
  BY <1>1 DEF O!Begin, O!Forget, O!auth, O!service
<1>2. CASE O!LocateFails \/ O!Located
  BY <1>2 DEF O!LocateFails, O!Located, O!CallBack, O!Goto, O!auth, O!service
<1>3. CASE O!RegisterRefused \/ O!RegisterFails \/ O!Registered
  BY <1>3 DEF O!RegisterRefused, O!RegisterFails, O!Registered, O!CallBack, O!auth, O!service
<1>4. CASE O!Register \/ O!TokenValid \/ O!NoCredentials \/ O!Login \/ O!LoginFails
  BY <1>4 DEF O!Register, O!TokenValid, O!NoCredentials, O!Login, O!LoginFails, O!CallBack, O!Goto, O!auth, O!service
<1>5. CASE O!LoginCut
  BY <1>5 DEF O!LoginCut, O!CallBack
<1>6. CASE O!LoggedIn
  <2>0. now + Lifetime \in Int
    BY ClientsAssumption
  <2>1. CASE issued' = Append(issued, now + Lifetime) /\ auth_token' = Len(issued')
    <3>1. issued' \in Seq(Int) /\ Len(issued') = Len(issued) + 1
      BY <2>0, <2>1
    <3>2. auth_token' = Len(issued') /\ issued'[auth_token'] = now + Lifetime
      BY <2>0, <2>1, <3>1
    <3>. QED
      BY <1>6, <2>0, <3>1, <3>2 DEF O!LoggedIn, O!Goto
  <2>2. CASE auth_token' = 0 /\ issued' = issued
    BY <1>6, <2>0, <2>2 DEF O!LoggedIn, O!Goto
  <2>. QED
    BY <1>6, <2>1, <2>2 DEF O!LoggedIn
<1>7. CASE O!Put
  BY <1>7 DEF O!Put, O!CallBack, O!auth, O!service
<1>8. CASE O!Tick \/ O!Again
  BY <1>8 DEF O!Tick, O!Again, O!auth, O!service
<1>9. CASE UNCHANGED O!vars
  BY <1>9 DEF O!vars, O!auth, O!service
<1>. QED
  BY <1>1, <1>2, <1>3, <1>4, <1>5, <1>6, <1>7, <1>8, <1>9 DEF O!Next

\* What a step does to the credentials, from a state of the invariant.
LEMMA StepSound == OrchestrateInv /\ O!Next => O!SoundStep
<1>. SUFFICES ASSUME OrchestrateInv, O!Next
              PROVE  O!SoundStep
  OBVIOUS
<1>. USE DEF OrchestrateInv, OrchestrateTypes, O!SoundStep
<1>1. CASE O!Begin
  BY <1>1 DEF O!Begin, O!auth
<1>2. CASE O!LocateFails \/ O!Located
  BY <1>2 DEF O!LocateFails, O!Located, O!CallBack, O!Goto, O!auth
<1>3. CASE O!RegisterRefused \/ O!RegisterFails \/ O!Registered
  BY <1>3 DEF O!RegisterRefused, O!RegisterFails, O!Registered, O!CallBack, O!auth
<1>4. CASE O!TokenValid
  BY <1>4 DEF O!TokenValid, O!is_valid, TokenKept, O!Goto, O!auth, O!service
<1>5. CASE O!Register \/ O!Login
  BY <1>5 DEF O!Register, O!Login, O!Goto, O!auth
<1>6. CASE O!LoggedIn
  <2>0. now + Lifetime \in Int /\ now + Lifetime >= now
    BY ClientsAssumption
  <2>1. CASE issued' = Append(issued, now + Lifetime) /\ auth_token' = Len(issued')
    <3>1. auth_token' # 0 /\ issued'[auth_token'] = now + Lifetime
      BY <2>0, <2>1
    <3>. QED
      BY <1>6, <2>0, <3>1 DEF O!LoggedIn
  <2>2. CASE cut'
    BY <1>6, <2>2 DEF O!LoggedIn
  <2>. QED
    BY <1>6, <2>1, <2>2 DEF O!LoggedIn
<1>7. CASE O!NoCredentials \/ O!LoginFails \/ O!LoginCut
  BY <1>7 DEF O!NoCredentials, O!LoginFails, O!LoginCut, O!CallBack, O!auth
<1>8. CASE O!Put \/ O!Tick \/ O!Again
  BY <1>8 DEF O!Put, O!Tick, O!Again, O!CallBack, O!auth
<1>. QED
  BY <1>1, <1>2, <1>3, <1>4, <1>5, <1>6, <1>7, <1>8 DEF O!Next

\* The only client that is started again, by its caller.
LEMMA OrchestrateSession ==
  OrchestrateInv /\ [O!Next]_(O!vars) => Holds(open, calls, open', calls')
<1>. SUFFICES ASSUME OrchestrateInv, [O!Next]_(O!vars)
              PROVE  Holds(open, calls, open', calls')
  OBVIOUS
<1>1. /\ open = 0 /\ open' = 0
      /\ calls = IF pc = "done" THEN 1 ELSE 0
      /\ calls' = IF pc' = "done" THEN 1 ELSE 0
  BY OrchestrateStep DEF OrchestrateInv, OrchestrateTypes
<1>. QED
  BY <1>1 DEF Holds, Keeps

-----------------------------------------------------------------------------
\* First there is no base, then the call owns it, then the context does.
DnsInv ==
  /\ pc \in {"start", "created", "asked", "answered", "done", "thrown"}
  /\ bases \in Nat /\ freed \in Nat
  /\ pc = "start" => bases = 0 /\ freed = 0 /\ context = FALSE
  /\ pc = "created" => bases = 1 /\ freed = 0 /\ context = FALSE
  /\ pc \in {"asked", "answered", "thrown"} => bases = 1 /\ freed = 0 /\ context = TRUE
  /\ pc = "done" => bases = freed /\ context = FALSE
  /\ open = 0 /\ calls \in 0..1
  /\ pc # "thrown" => calls = IF pc \in {"answered", "done"} THEN 1 ELSE 0

LEMMA DnsStep == DnsInv /\ [Q!Next]_(Q!vars) => DnsInv'
<1>. SUFFICES ASSUME DnsInv, [Q!Next]_(Q!vars)
              PROVE  DnsInv'
  OBVIOUS
<1>. USE DEF DnsInv, Q!CallBack
<1>1. CASE Q!NotPossible \/ Q!CreateFails \/ Q!Create
  BY <1>1 DEF Q!NotPossible, Q!CreateFails, Q!Create
<1>2. CASE Q!WrongClass \/ Q!WrongType \/ Q!WrongName \/ Q!WrongAddress
  BY <1>2 DEF Q!WrongClass, Q!WrongType, Q!WrongName, Q!WrongAddress, Q!GiveUp
<1>3. CASE Q!Unreversed \/ Q!Refused \/ Q!Asked
  BY <1>3 DEF Q!Unreversed, Q!Refused, Q!Asked
<1>4. CASE Q!Answered \/ Q!Thrown \/ Q!Delete
  BY <1>4 DEF Q!Answered, Q!Thrown, Q!Delete
<1>5. CASE UNCHANGED Q!vars
  BY <1>5 DEF Q!vars
<1>. QED
  BY <1>1, <1>2, <1>3, <1>4, <1>5 DEF Q!Next

\* A query holds no connection of its own.
LEMMA DnsSession == DnsInv /\ [Q!Next]_(Q!vars) => Holds(open, calls, open', calls')
<1>. SUFFICES ASSUME DnsInv, [Q!Next]_(Q!vars)
              PROVE  Holds(open, calls, open', calls')
  OBVIOUS
<1>1. open = 0 /\ open' = 0
  BY DnsStep DEF DnsInv
<1>2. calls' = calls \/ (calls = 0 /\ calls' = 1)
  <2>1. CASE pc \in {"answered", "done", "thrown"}
    BY <2>1 DEF DnsInv, Q!Next, Q!NotPossible, Q!CreateFails, Q!Create, Q!WrongClass, Q!WrongType,
                Q!WrongName, Q!Unreversed, Q!WrongAddress, Q!Refused, Q!Asked, Q!Answered, Q!Thrown,
                Q!Delete, Q!vars
  <2>2. CASE pc \notin {"answered", "done", "thrown"}
    BY <2>2, DnsStep DEF DnsInv
  <2>. QED
    BY <2>1, <2>2
<1>. QED
  BY <1>1, <1>2 DEF Holds, Keeps

-----------------------------------------------------------------------------
\* web_connectivity waits for the closing of one connection, the last to end when it
\* succeeded; when the comparison throws, the callback never comes.
WebInv ==
  /\ pc \in {"start", "tcp", "tcpclosing", "http", "control", "thrown", "done"}
  /\ unawaited \in Nat /\ open = unawaited + (IF pc = "tcpclosing" THEN 1 ELSE 0)
  /\ calls = IF pc = "done" THEN 1 ELSE 0

LEMMA WebStep == WebInv /\ [W!Next]_(W!vars) => WebInv' /\ Keeps(open, unawaited, calls, open', unawaited', calls', 0)
<1>. SUFFICES ASSUME WebInv, [W!Next]_(W!vars)
              PROVE  WebInv' /\ Keeps(open, unawaited, calls, open', unawaited', calls', 0)
  OBVIOUS
<1>. USE DEF WebInv, Keeps
<1>1. CASE W!InvalidUrl \/ W!NoAnswer \/ W!Answer
  BY <1>1 DEF W!InvalidUrl, W!NoAnswer, W!Answer, W!CallBack
<1>2. CASE W!Resolved \/ W!TcpClosed \/ W!Fetched \/ W!NotFetched
  BY <1>2 DEF W!Resolved, W!TcpClosed, W!Fetched, W!NotFetched
<1>3. CASE W!Connected \/ W!NotConnected
  <2>1. pc = "tcp" /\ calls' = calls
    BY <1>3 DEF W!Connected, W!NotConnected
  <2>2. \/ pc' = "tcpclosing" /\ open' = open + 1 /\ unawaited' = unawaited
        \/ pc' = pc /\ open' = open + 1 /\ unawaited' = unawaited + 1
        \/ pc' \in {pc, "http"} /\ open' = open /\ unawaited' = unawaited
    BY <1>3 DEF W!Connected, W!NotConnected
  <2>. QED
    BY <2>1, <2>2
<1>5. CASE W!Released \/ W!Misshapen
  BY <1>5 DEF W!Released, W!Misshapen
<1>4. CASE UNCHANGED W!vars
  BY <1>4 DEF W!vars
<1>. QED
  BY <1>1, <1>2, <1>3, <1>4, <1>5 DEF W!Next

-----------------------------------------------------------------------------
\* What the sockets of the addresses told, in the order in which they ended.
Sockets == [ip : addresses, success : BOOLEAN, blocked : {"null", "false", "true"}]

\* There is a verdict once the control answered, and then it follows from what was seen.
WebJudged ==
  /\ tcp \in Seq(Sockets)
  /\ pc = "start" => tcp = <<>>
  /\ pc # "done" => control = W!NoControl /\ verdict = W!NoVerdict
  /\ W!VerdictSound

LEMMA JudgedInit == W!Init => WebJudged
<1>. SUFFICES ASSUME W!Init
              PROVE  WebJudged
  OBVIOUS
<1>1. tcp \in Seq(Sockets)
  BY EmptySeq DEF W!Init
<1>. QED
  BY <1>1 DEF W!Init, WebJudged, W!VerdictSound

\* What the control server answers with.
LEMMA AnswerShape ==
  ASSUME control' \in W!Answers
  PROVE  control'.failed = FALSE
<1>. DEFINE Shape(w, known) ==
              [failed : {FALSE}, http : {w[1]}, page : {w[2]}, addrs : SUBSET Public,
               dns : {"none", "error"}, tcp : [known -> BOOLEAN], asn : BOOLEAN]
            Requests == ({"none"} \X Pages) \union {<<"other", W!NoPage>>}
<1>1. ASSUME NEW w, NEW known, NEW c \in Shape(w, known)
      PROVE  c.failed = FALSE
  BY Zenon
<1>2. W!Answers = UNION {Shape(w, known) : w \in Requests, known \in SUBSET (addresses \cap Public)}
  BY SMT DEF W!Answers
<1>. HIDE DEF Shape, Requests
<1>3. PICK w \in Requests, known \in SUBSET (addresses \cap Public) : control' \in Shape(w, known)
  BY <1>2, SMT
<1>. QED
  BY <1>1, <1>3

\* The flags that compare_tcp_connect() writes, as far as the control knows the sockets.
LEMMA FlagsWritten ==
  ASSUME tcp \in Seq(Sockets), NEW socks, NEW n \in DOMAIN tcp,
         \A j \in 1..n : tcp[j].ip \in DOMAIN socks
  PROVE  W!CompareTcp(socks).entry[n].blocked =
           IF ~tcp[n].success /\ socks[tcp[n].ip] THEN "true" ELSE "false"
<1>. DEFINE known == {i \in DOMAIN tcp : tcp[i].ip \in DOMAIN socks}
            before(i) == {j \in known : j <= i}
            idx(i) == W!Cardinality({j \in known : j <= i})
            writer == CHOOSE i \in known : idx(i) = n
            blocked(i) == socks[tcp[i].ip] /\ ~tcp[i].success
<1>1. /\ DOMAIN tcp = 1..Len(tcp) /\ Len(tcp) \in Nat /\ n \in 1..Len(tcp)
      /\ tcp[n] \in Sockets
  OBVIOUS
<1>2. known \subseteq 1..Len(tcp) /\ 1..n \subseteq known
  BY <1>1
<1>3. W!CompareTcp(socks).entry =
        [k \in DOMAIN tcp |->
           IF k > W!Cardinality(known) THEN tcp[k]
           ELSE [tcp[k] EXCEPT !.blocked = IF blocked(CHOOSE i \in known : idx(i) = k) THEN "true"
                                           ELSE "false"]]
  BY Zenon DEF W!CompareTcp
<1>. HIDE DEF known
<1>4. \A A : W!Cardinality(A) = Cardinality(A)
  BY Zenon DEF W!Cardinality, Cardinality
<1>5. IsFiniteSet(known) /\ Cardinality(known) \in Nat
  <2>1. IsFiniteSet(1..Len(tcp))
    BY <1>1, FS_Interval
  <2>. QED
    BY <1>2, <2>1, FS_Subset, FS_CardinalityType
<1>6. \A k \in 0..n : IsFiniteSet(1..k) /\ Cardinality(1..k) = k
  <2>1. n \in Nat
    BY <1>1
  <2>. QED
    BY <2>1, FS_Interval
<1>7. ~(n > W!Cardinality(known))
  <2>1. Cardinality(1..n) <= Cardinality(known)
    BY <1>2, <1>5, FS_Subset
  <2>2. n \in 0..n
    BY <1>1
  <2>3. n <= Cardinality(known)
    BY <1>6, <2>1, <2>2
  <2>. QED
    BY <1>1, <1>4, <1>5, <2>3
<1>8. ASSUME NEW i \in known
      PROVE  i <= n => idx(i) = i
  <2>. SUFFICES ASSUME i <= n
                PROVE  idx(i) = i
    OBVIOUS
  <2>1. i \in 0..n
    BY <1>1, <1>2
  <2>2. {j \in known : j <= i} = 1..i
    <3>1. i \in Nat /\ n \in Nat /\ Len(tcp) \in Nat
      BY <1>1, <1>2
    <3>2. ASSUME NEW j \in known, j <= i
          PROVE  j \in 1..i
      BY <1>2, <3>1, <3>2
    <3>3. ASSUME NEW j \in 1..i
          PROVE  j \in known /\ j <= i
      <4>1. j \in 1..n /\ j <= i
        BY <3>1
      <4>. QED
        BY <1>2, <4>1
    <3>. QED
      BY <3>2, <3>3
  <2>. QED
    BY <1>4, <1>6, <2>1, <2>2
<1>9. ASSUME NEW i \in known
      PROVE  i > n => idx(i) > n
  <2>. SUFFICES ASSUME i > n
                PROVE  idx(i) > n
    OBVIOUS
  <2>1. (1..n) \union {i} \subseteq before(i)
    BY <1>1, <1>2
  <2>2. n \in 0..n /\ i \notin 1..n
    BY <1>1, <1>2
  <2>3. Cardinality((1..n) \union {i}) = n + 1
    BY <1>6, <2>2, FS_AddElement
  <2>4. IsFiniteSet(before(i)) /\ Cardinality(before(i)) \in Nat
    BY <1>5, FS_Subset, FS_CardinalityType
  <2>5. n + 1 <= Cardinality(before(i))
    BY <2>1, <2>3, <2>4, FS_Subset
  <2>6. idx(i) = Cardinality(before(i))
    BY <1>4
  <2>. HIDE DEF before, idx
  <2>. QED
    BY <1>1, <2>4, <2>5, <2>6
<1>10. writer = n
  <2>1. n \in known /\ n <= n
    BY <1>1, <1>2
  <2>2. \A i \in known : i \in Int
    BY <1>1, <1>2
  <2>3. \A i \in known : idx(i) = n => i = n
    BY <1>1, <1>8, <1>9, <2>2
  <2>4. idx(n) = n
    BY <1>8, <2>1
  <2>. HIDE DEF idx
  <2>. QED
    BY <2>1, <2>3, <2>4
<1>11. W!CompareTcp(socks).entry[n] =
        [tcp[n] EXCEPT !.blocked = IF blocked(writer) THEN "true" ELSE "false"]
  BY <1>3, <1>7
<1>. HIDE DEF writer
<1>. QED
  BY <1>1, <1>10, <1>11 DEF Sockets

\* The comparison leaves what the sockets told, and judges by one that the network blocks.
LEMMA SocketsCompared ==
  ASSUME tcp \in Seq(Sockets), NEW socks
  PROVE  /\ W!CompareTcp(socks).entry \in Seq(Sockets)
         /\ DOMAIN W!CompareTcp(socks).entry = DOMAIN tcp
         /\ \A n \in DOMAIN tcp :
              /\ W!CompareTcp(socks).entry[n].ip = tcp[n].ip
              /\ W!CompareTcp(socks).entry[n].success = tcp[n].success
         /\ ~W!CompareTcp(socks).success <=>
              \E i \in DOMAIN tcp :
                tcp[i].ip \in DOMAIN socks /\ socks[tcp[i].ip] /\ ~tcp[i].success
<1>. DEFINE known == {i \in DOMAIN tcp : tcp[i].ip \in DOMAIN socks}
            idx(i) == W!Cardinality({j \in known : j <= i})
            writer(n) == CHOOSE i \in known : idx(i) = n
            blocked(i) == socks[tcp[i].ip] /\ ~tcp[i].success
            flag(n) == IF blocked(writer(n)) THEN "true" ELSE "false"
            entry == [n \in DOMAIN tcp |-> IF n > W!Cardinality(known) THEN tcp[n]
                                           ELSE [tcp[n] EXCEPT !.blocked = flag(n)]]
<1>1. W!CompareTcp(socks).entry = entry
  BY Zenon DEF W!CompareTcp
<1>2. ~W!CompareTcp(socks).success <=>
        \E i \in DOMAIN tcp :
          tcp[i].ip \in DOMAIN socks /\ socks[tcp[i].ip] /\ ~tcp[i].success
  BY DEF W!CompareTcp
<1>3. \A n : flag(n) \in {"true", "false"}
  OBVIOUS
<1>. HIDE DEF flag, known
<1>4. \A n \in DOMAIN tcp :
        entry[n] \in Sockets /\ entry[n].ip = tcp[n].ip /\ entry[n].success = tcp[n].success
  <2>. SUFFICES ASSUME NEW n \in DOMAIN tcp
                PROVE  /\ entry[n] \in Sockets
                       /\ entry[n].ip = tcp[n].ip /\ entry[n].success = tcp[n].success
    OBVIOUS
  <2>1. tcp[n] \in Sockets
    OBVIOUS
  <2>2. CASE n > W!Cardinality(known)
    BY <2>1, <2>2
  <2>3. CASE ~(n > W!Cardinality(known))
    <3>1. entry[n] = [tcp[n] EXCEPT !.blocked = flag(n)]
      BY <2>3
    <3>. QED
      BY <1>3, <2>1, <3>1 DEF Sockets
  <2>. QED
    BY <2>2, <2>3
<1>5. DOMAIN entry = DOMAIN tcp
  OBVIOUS
<1>6. entry \in Seq(Sockets)
  <2>1. DOMAIN tcp = 1..Len(tcp) /\ Len(tcp) \in Nat
    OBVIOUS
  <2>. HIDE DEF entry
  <2>2. entry \in [1..Len(tcp) -> Sockets]
    <3>1. entry = [n \in 1..Len(tcp) |-> entry[n]]
      BY <2>1 DEF entry
    <3>. QED
      BY <1>4, <2>1, <3>1
  <2>. QED
    BY <2>1, <2>2, SeqDef
<1>. HIDE DEF entry
<1>. QED
  BY <1>1, <1>2, <1>4, <1>5, <1>6

LEMMA JudgedStep == WebInv /\ WebJudged /\ [W!Next]_(W!vars) => WebJudged'
<1>. SUFFICES ASSUME WebInv, WebJudged, [W!Next]_(W!vars)
              PROVE  WebJudged'
  OBVIOUS
<1>0. tcp \in Seq(Sockets)
  BY DEF WebJudged
<1>1. CASE W!InvalidUrl
  BY <1>1 DEF W!InvalidUrl, W!CallBack, WebJudged, Sockets, W!VerdictSound
<1>2. CASE W!Resolved
  <2>1. /\ pc = "start" /\ tcp' = <<>> /\ pc' \in {"http", "tcp"}
        /\ control' = control /\ verdict' = verdict
    BY <1>2 DEF W!Resolved, WebJudged
  <2>2. tcp' \in Seq(Sockets')
    BY <2>1, EmptySeq
  <2>. QED
    BY <2>1, <2>2 DEF WebJudged, W!VerdictSound
<1>3. CASE W!Connected \/ W!NotConnected
  <2>1. PICK ip \in addresses \ W!Tested, ok \in BOOLEAN : W!Record(ip, ok)
    BY <1>3 DEF W!Connected, W!NotConnected
  <2>2. /\ pc = "tcp" /\ pc' \in {"tcp", "tcpclosing", "http"}
        /\ UNCHANGED <<addresses, control, verdict>>
    BY <1>3 DEF W!Connected, W!NotConnected
  <2>3. tcp' \in Seq(Sockets)
    <3>. DEFINE socket == [ip |-> ip, success |-> ok,
                           blocked |-> IF ok THEN "false" ELSE "null"]
    <3>1. tcp' = Append(tcp, socket)
      BY <2>1 DEF W!Record
    <3>2. socket \in Sockets
      BY DEF Sockets
    <3>. QED
      BY <1>0, <3>1, <3>2, AppendProperties
  <2>. QED
    BY <2>2, <2>3 DEF WebJudged, Sockets, W!VerdictSound
<1>4. CASE W!TcpClosed \/ W!Fetched \/ W!NotFetched \/ W!Misshapen
  <2>1. /\ pc \in {"tcpclosing", "http", "control"} /\ pc' \in {"http", "control", "thrown"}
        /\ UNCHANGED <<addresses, tcp, control, verdict>>
    BY <1>4 DEF W!TcpClosed, W!Fetched, W!NotFetched, W!Misshapen
  <2>. QED
    BY <2>1 DEF WebJudged, Sockets, W!VerdictSound
<1>5. CASE W!NoAnswer
  <2>1. /\ pc = "control" /\ pc' = "done" /\ UNCHANGED <<addresses, tcp, control, verdict>>
    BY <1>5 DEF W!NoAnswer, W!CallBack
  <2>2. control'.failed = TRUE /\ verdict' = W!NoVerdict
    BY <2>1 DEF WebJudged, W!NoControl
  <2>. QED
    BY <2>1, <2>2 DEF WebJudged, Sockets, W!VerdictSound
<1>6. CASE W!Answer
  <2>. DEFINE ctrl == control'
              names == W!DnsConsistency(ctrl)
              sockets == W!CompareTcp(ctrl.tcp)
              expected == /\ fetched.failure = "none" /\ ctrl.http = "none"
                          /\ W!ExpectedPage(fetched.page, ctrl.page)
              blocking_ == W!Blocking(names, sockets.success, expected, fetched.failure, ctrl.http,
                                      ctrl.dns)
  <2>1. /\ pc' = "done" /\ UNCHANGED <<failure, addresses, fetched>> /\ control'.failed = FALSE
        /\ verdict' = [dns |-> names, blocking |-> blocking_,
                       accessible |-> IF blocking_ = "false" THEN "true" ELSE "false"]
        /\ tcp' = sockets.entry
    <3>1. control' \in W!Answers /\ pc' = "done" /\ UNCHANGED <<failure, addresses, fetched>>
      BY <1>6 DEF W!Answer, W!CallBack
    <3>2. W!Compare(fetched, control')
      BY <1>6 DEF W!Answer
    <3>3. /\ verdict' = [dns |-> names, blocking |-> blocking_,
                         accessible |-> IF blocking_ = "false" THEN "true" ELSE "false"]
          /\ tcp' = sockets.entry
      BY <3>2, Zenon DEF W!Compare
    <3>. QED
      BY <3>1, <3>3, AnswerShape
  <2>2. names \in {"consistent", "inconsistent"}
    BY DEF W!DnsConsistency
  <2>3. /\ verdict'.blocking = blocking_
        /\ verdict'.accessible = IF blocking_ = "false" THEN "true" ELSE "false"
    BY <2>1
  <2>4. /\ fetched.failure = "none" => expected \/ ~expected
        /\ fetched.failure = "none" /\ ctrl.http = "none" /\ fetched.page = ctrl.page => expected
        /\ fetched.failure # "none" => ~expected
    BY DEF W!ExpectedPage, W!body_length_match, W!status_code_match
  <2>. HIDE DEF names, expected
  <2>5. W!NoFalseAlarm'
    <3>. SUFFICES ASSUME fetched.failure = "none", ctrl.http = "none", fetched.page = ctrl.page
                  PROVE  blocking_ = "false"
      BY <2>1, <2>3 DEF W!NoFalseAlarm
    <3>1. expected
      BY <2>4
    <3>. QED
      BY <3>1 DEF W!Blocking
  <2>6. W!NoBlockingMissed'
    <3>. SUFFICES ASSUME fetched.failure # "none", ctrl.http = "none"
                  PROVE  blocking_ # "false"
      BY <2>1, <2>3 DEF W!NoBlockingMissed
    <3>1. ~expected
      BY <2>4
    <3>2. CASE names = "consistent" /\ ~sockets.success
      BY <3>1, <3>2 DEF W!Blocking
    <3>3. CASE names = "consistent" /\ sockets.success
      BY <3>1, <3>3 DEF W!Blocking
    <3>4. CASE names = "inconsistent"
      BY <3>1, <3>4 DEF W!Blocking
    <3>. QED
      BY <2>2, <3>2, <3>3, <3>4
  <2>7. W!TcpJustified'
    <3>1. sockets.success \in BOOLEAN
      BY DEF W!CompareTcp
    <3>2. ~sockets.success <=>
            \E i \in DOMAIN tcp :
              tcp[i].ip \in DOMAIN ctrl.tcp /\ ctrl.tcp[tcp[i].ip] /\ ~tcp[i].success
      BY <1>0, SocketsCompared
    <3>3. /\ DOMAIN tcp' = DOMAIN tcp
          /\ \A i \in DOMAIN tcp : tcp'[i].ip = tcp[i].ip /\ tcp'[i].success = tcp[i].success
      BY <1>0, <2>1, SocketsCompared
    <3>. HIDE DEF sockets
    <3>4. ~sockets.success <=> \E i \in DOMAIN tcp' : W!Failed(i)' /\ W!Reached(tcp[i].ip)'
      BY <3>2, <3>3 DEF W!Failed, W!Reached
    <3>5. blocking_ = "tcp_ip" <=>
            names = "consistent" /\ ~sockets.success /\ fetched.failure # "none"
      BY <2>2, <3>1 DEF W!Blocking
    <3>6. verdict'.dns = names
      BY <2>1
    <3>. QED
      BY <2>1, <2>3, <3>4, <3>5, <3>6 DEF W!TcpJustified
  <2>8. W!FlagsRight'
    <3>. SUFFICES ASSUME NEW i \in DOMAIN tcp',
                         \A j \in 1..i : tcp'[j].ip \in DOMAIN ctrl.tcp
                  PROVE  tcp'[i].blocked =
                           IF /\ ~tcp'[i].success
                              /\ tcp'[i].ip \in DOMAIN ctrl.tcp /\ ctrl.tcp[tcp'[i].ip]
                             THEN "true" ELSE "false"
      BY DEF W!FlagsRight, W!Failed, W!Reached
    <3>1. /\ DOMAIN tcp' = DOMAIN tcp
          /\ \A k \in DOMAIN tcp : tcp'[k].ip = tcp[k].ip /\ tcp'[k].success = tcp[k].success
      BY <1>0, <2>1, SocketsCompared
    <3>2. DOMAIN tcp = 1..Len(tcp) /\ Len(tcp) \in Nat
      BY <1>0
    <3>3. \A j \in 1..i : j \in DOMAIN tcp
      BY <3>1, <3>2
    <3>4. i \in DOMAIN tcp /\ i \in 1..i /\ \A j \in 1..i : tcp[j].ip \in DOMAIN ctrl.tcp
      BY <3>1, <3>2, <3>3
    <3>5. tcp'[i].blocked = IF ~tcp[i].success /\ ctrl.tcp[tcp[i].ip] THEN "true" ELSE "false"
      BY <1>0, <2>1, <3>4, FlagsWritten
    <3>. QED
      BY <3>1, <3>4, <3>5
  <2>9. tcp' \in Seq(Sockets)
    BY <1>0, <2>1, SocketsCompared
  <2>. QED
    BY <2>1, <2>5, <2>6, <2>7, <2>8, <2>9 DEF WebJudged, Sockets, W!VerdictSound
<1>7. CASE W!Released \/ UNCHANGED W!vars
  <2>1. UNCHANGED <<pc, failure, addresses, tcp, fetched, control, verdict>>
    BY <1>7 DEF W!Released, W!vars
  <2>. QED
    BY <2>1 DEF WebJudged, Sockets, W!VerdictSound, W!NoFalseAlarm, W!NoBlockingMissed,
                W!TcpJustified, W!FlagsRight, W!Failed, W!Reached
<1>. QED
  BY <1>1, <1>2, <1>3, <1>4, <1>5, <1>6, <1>7 DEF W!Next

LEMMA JudgedIsSound == WebJudged => W!VerdictSound
BY DEF WebJudged

-----------------------------------------------------------------------------
\* facebook_messenger too; when its loop throws, the callback never comes.
FacebookInv ==
  /\ pc \in {"start", "dns", "tcp", "closing", "thrown", "done"}
  /\ unawaited \in Nat /\ open = unawaited + (IF pc = "closing" THEN 1 ELSE 0)
  /\ calls = IF pc = "done" THEN 1 ELSE 0

LEMMA FacebookStep ==
  FacebookInv /\ [F!Next]_(F!vars) =>
    FacebookInv' /\ Keeps(open, unawaited, calls, open', unawaited', calls', 0)
<1>. SUFFICES ASSUME FacebookInv, [F!Next]_(F!vars)
              PROVE  FacebookInv' /\ Keeps(open, unawaited, calls, open', unawaited', calls', 0)
  OBVIOUS
<1>. USE DEF FacebookInv, Keeps
<1>1. CASE F!Resolved \/ F!NothingResolved \/ F!Attempt \/ F!AllRefused
  <2>1. F!Answer
    BY <1>1 DEF F!Resolved, F!NothingResolved, F!Attempt, F!AllRefused
  <2>2. pc = "dns" /\ open' = open /\ unawaited' = unawaited
    BY <2>1 DEF F!Answer
  <2>3. \/ pc' \in {"dns", "tcp", "thrown"} /\ calls' = calls
        \/ pc' = "done" /\ calls' = calls + 1
    BY <1>1, <2>2 DEF F!Resolved, F!NothingResolved, F!Attempt, F!AllRefused, F!CallBack
  <2>. QED
    BY <2>2, <2>3
<1>2. CASE F!Start \/ F!Closed
  BY <1>2 DEF F!Start, F!Closed, F!CallBack
<1>3. CASE F!Connected \/ F!NotConnected
  BY <1>3 DEF F!Connected, F!NotConnected, F!CallBack
<1>4. CASE F!Released \/ UNCHANGED F!vars
  BY <1>4 DEF F!Released, F!vars
<1>. QED
  BY <1>1, <1>2, <1>3, <1>4 DEF F!Next

-----------------------------------------------------------------------------
\* The addresses of a name.
ServiceAnswers == F!BoundedSeq(BOOLEAN, MaxAnswers)

\* What is told at the end of facebook_messenger, as in F!VerdictSound.
FacebookTold ==
  /\ "tcp" \in DOMAIN blocking <=> F!Attempts # {}
  /\ "tcp" \in DOMAIN blocking =>
       blocking.tcp = \E s \in F!Tcp : F!Ours(s) /\ F!Unreached(s)
  /\ "dns" \in DOMAIN blocking => blocking.dns = \E name \in F!Names : ~F!Ours(name)
  /\ reached # {} => "dns" \in DOMAIN blocking

\* The flags agree with the attempts that are over, at each of them.
FacebookSeen ==
  /\ pc # "start" => ips \in [F!Names -> ServiceAnswers]
  /\ pc \in {"start", "dns"} => reached = {} /\ trying = {} /\ blocking = <<>>
  /\ pc = "tcp" =>
       /\ consistent = [name \in F!Names |-> F!Ours(name)]
       /\ reachable \in [F!Tcp -> BOOLEAN]
       /\ \A s \in F!Tcp : reachable[s] <=> ~F!Unreached(s)
       /\ reached \union trying \subseteq F!Attempts /\ F!Attempts # {}
       /\ blocking = [key \in {"dns"} |-> \E name \in F!Names : ~F!Ours(name)]
  /\ pc \in {"closing", "done"} => FacebookTold

\* An answer is a sequence, and not empty when it has an address.
LEMMA AnswerAddresses ==
  ASSUME NEW x \in F!BoundedSeq(BOOLEAN, MaxAnswers)
  PROVE  /\ x \in Seq(BOOLEAN) /\ DOMAIN x \subseteq 1..MaxAnswers
         /\ \A i \in DOMAIN x : x[i] \in BOOLEAN
         /\ x # <<>> => 1 \in DOMAIN x
<1>1. PICK m \in 0..MaxAnswers : x \in [1..m -> BOOLEAN]
  BY DEF F!BoundedSeq, F!SeqOf
<1>2. m \in Nat /\ m <= MaxAnswers
  BY ClientsAssumption
<1>3. x \in Seq(BOOLEAN) /\ (m = 0 <=> x = <<>>)
  BY <1>1, <1>2, FirstNumbers
<1>. QED
  BY <1>1, <1>2, <1>3, ClientsAssumption

LEMMA SeenInit == F!Init => FacebookSeen
BY DEF F!Init, FacebookSeen

\* The addresses that one more answer adds.
LEMMA ServiceAnswered ==
  ASSUME FacebookSeen, F!Answer
  PROVE  /\ pc = "dns" /\ ips' \in [F!Names -> ServiceAnswers]
         /\ reached' = {} /\ reached = {}
BY DEF FacebookSeen, F!Answer, ServiceAnswers

\* The flag for TCP, from those of the services.
LEMMA TcpFlag ==
  ASSUME NEW ours, NEW through,
         \A s \in F!Tcp : ours[s] = F!Ours(s),
         \A s \in F!Tcp : through[s] <=> ~F!Unreached(s)
  PROVE  F!TcpBlocking(ours, through) = \E s \in F!Tcp : F!Ours(s) /\ F!Unreached(s)
BY DEF F!TcpBlocking

LEMMA SeenStep == FacebookInv /\ FacebookSeen /\ [F!Next]_(F!vars) => FacebookSeen'
<1>. SUFFICES ASSUME FacebookInv, FacebookSeen, [F!Next]_(F!vars)
              PROVE  FacebookSeen'
  OBVIOUS
<1>0. F!Tcp = {"b_api", "star"} /\ F!Names = {"b_api", "star", "stun"}
  BY DEF F!Tcp, F!Names, F!Range, Services
<1>1. CASE F!Start
  <2>1. <<>> \in ServiceAnswers
    <3>1. [i \in 1..0 |-> TRUE] \in [1..0 -> BOOLEAN] /\ 0 \in 0..MaxAnswers
      BY ClientsAssumption
    <3>2. [i \in 1..0 |-> TRUE] = <<>>
      BY <3>1, FirstNumbers
    <3>. QED
      BY <3>1, <3>2 DEF ServiceAnswers, F!BoundedSeq, F!SeqOf
  <2>. QED
    BY <1>1, <2>1 DEF F!Start, F!flags, FacebookSeen
<1>2. CASE F!Resolved
  BY <1>2, ServiceAnswered DEF F!Resolved, F!flags, FacebookSeen
<1>3. CASE F!NothingResolved
  <2>1. pc' = "done" /\ blocking' = <<>> /\ reached' = {} /\ F!Attempts' = {}
    BY <1>3, ServiceAnswered DEF F!NothingResolved, F!CallBack, F!flags, FacebookSeen
  <2>2. DOMAIN blocking' = {}
    BY <2>1
  <2>3. FacebookTold'
    BY <2>1, <2>2 DEF FacebookTold
  <2>4. ips' \in [F!Names -> ServiceAnswers]
    BY <1>3, ServiceAnswered DEF F!NothingResolved
  <2>. QED
    BY <2>1, <2>3, <2>4 DEF FacebookSeen
<1>4. CASE F!Attempt
  <2>1. /\ pc' = "tcp" /\ trying' # {} /\ trying' \subseteq F!Attempts'
        /\ consistent' = [name \in F!Names |-> F!Ours(name)']
        /\ reachable' = [s \in F!Tcp |-> FALSE]
        /\ blocking' = [key \in {"dns"} |-> \E name \in F!Names : ~consistent'[name]]
    BY <1>4 DEF F!Attempt
  <2>2. ips' \in [F!Names -> ServiceAnswers] /\ reached' = {}
    BY <1>4, ServiceAnswered DEF F!Attempt
  <2>3. \A s \in F!Tcp : F!Unreached(s)'
    BY <2>2 DEF F!Unreached
  <2>4. blocking' = [key \in {"dns"} |-> \E name \in F!Names : ~F!Ours(name)']
    BY <2>1
  <2>. QED
    BY <1>0, <2>1, <2>2, <2>3, <2>4 DEF FacebookSeen
<1>5. CASE F!AllRefused
  <2>1. ips' \in [F!Names -> ServiceAnswers] /\ reached' = {}
    BY <1>5, ServiceAnswered DEF F!AllRefused
  <2>2. PICK last \in DOMAIN Services :
          /\ ips'[Services[last]] # <<>>
          /\ consistent' = [s \in {Services[k] : k \in 1..last} |-> F!Ours(s)']
          /\ reachable' = [s \in F!Tcp |-> FALSE]
          /\ \/ last < Len(Services) /\ pc' = "thrown"
             \/ /\ last = Len(Services) /\ pc' = "done"
                /\ blocking' = [key \in {"tcp"} |-> F!TcpBlocking(consistent', reachable')]
    BY <1>5 DEF F!AllRefused, F!CallBack
  <2>3. CASE last < Len(Services)
    BY <2>1, <2>2, <2>3 DEF FacebookSeen
  <2>4. CASE last = Len(Services)
    <3>1. last = 2 /\ pc' = "done"
          /\ blocking' = [key \in {"tcp"} |-> F!TcpBlocking(consistent', reachable')]
      BY <2>2, <2>4 DEF Services
    <3>2. \A s \in F!Tcp : consistent'[s] = F!Ours(s)'
      <4>1. Services[1] = "b_api" /\ Services[2] = "star"
        BY DEF Services
      <4>2. {Services[k] : k \in 1..2} = {"b_api", "star"}
        BY <4>1
      <4>. QED
        BY <1>0, <2>2, <3>1, <4>2
    <3>3. \A s \in F!Tcp : F!Unreached(s)'
      BY <2>1 DEF F!Unreached
    <3>4. F!TcpBlocking(consistent', reachable') = \E s \in F!Tcp : F!Ours(s)' /\ F!Unreached(s)'
      BY <2>2, <3>2, <3>3 DEF F!TcpBlocking
    <3>5. F!Attempts' # {}
      <4>. DEFINE name == Services[last]
      <4>1. name \in F!Tcp /\ name \in F!Names
        BY <1>0, <3>1 DEF Services
      <4>2. 1 \in DOMAIN ips'[name] /\ 1 \in 1..MaxAnswers
        BY <2>1, <2>2, <4>1, AnswerAddresses DEF ServiceAnswers
      <4>. HIDE DEF name
      <4>3. <<name, 1>> \in F!Attempts'
        BY <4>1, <4>2 DEF F!Attempts
      <4>. QED
        BY <4>3
    <3>6. FacebookTold'
      BY <2>1, <3>1, <3>4, <3>5 DEF FacebookTold
    <3>. QED
      BY <2>1, <3>1, <3>6 DEF FacebookSeen
  <2>. QED
    BY <2>2, <2>3, <2>4
<1>6. CASE F!Connected \/ F!NotConnected
  <2>0. pc = "tcp" /\ ips' = ips
    BY <1>6 DEF F!Connected, F!NotConnected, F!dns
  <2>1. /\ ips \in [F!Names -> ServiceAnswers]
        /\ consistent = [name \in F!Names |-> F!Ours(name)]
        /\ reachable \in [F!Tcp -> BOOLEAN]
        /\ \A s \in F!Tcp : reachable[s] <=> ~F!Unreached(s)
        /\ reached \union trying \subseteq F!Attempts /\ F!Attempts # {}
        /\ blocking = [key \in {"dns"} |-> \E name \in F!Names : ~F!Ours(name)]
    BY <2>0 DEF FacebookSeen
  <2>2. F!Attempts' = F!Attempts /\ \A name \in F!Names : F!Ours(name)' = F!Ours(name)
    BY <2>0 DEF F!Attempts, F!Ours
  <2>3. /\ reachable' \in [F!Tcp -> BOOLEAN]
        /\ \A s \in F!Tcp : reachable'[s] <=> ~F!Unreached(s)'
        /\ reached' \union trying' \subseteq F!Attempts
    <3>1. CASE F!NotConnected
      BY <2>0, <2>1, <3>1 DEF F!NotConnected, F!Unreached
    <3>2. CASE F!Connected
      <4>1. PICK a \in trying :
              /\ trying' = trying \ {a} /\ reached' = reached \union {a}
              /\ reachable' = [reachable EXCEPT ![a[1]] = @ \/ ips[a[1]][a[2]]]
        BY <3>2 DEF F!Connected, F!Reaches
      <4>2. a \in F!Tcp \X (1..MaxAnswers) /\ a[2] \in DOMAIN ips[a[1]]
        BY <2>1 DEF F!Attempts
      <4>3. PICK t \in F!Tcp, n \in 1..MaxAnswers : a = <<t, n>>
        BY <4>2
      <4>4. n \in DOMAIN ips[t] /\ ips[t][n] \in BOOLEAN
        BY <1>0, <2>1, <4>2, <4>3, AnswerAddresses DEF ServiceAnswers
      <4>5. reachable' = [reachable EXCEPT ![t] = reachable[t] \/ ips[t][n]]
        BY <4>1, <4>3
      <4>6. \A s \in F!Tcp : F!Unreached(s)' <=>
              F!Unreached(s) /\ ~(s = t /\ ips[t][n])
        BY <2>0, <4>1, <4>3, <4>4 DEF F!Unreached
      <4>7. \A s \in F!Tcp : reachable'[s] <=> reachable[s] \/ (s = t /\ ips[t][n])
        BY <2>1, <4>5
      <4>8. /\ reachable' \in [F!Tcp -> BOOLEAN]
            /\ \A s \in F!Tcp : reachable'[s] <=> ~F!Unreached(s)'
        BY <2>1, <4>5, <4>6, <4>7
      <4>9. reached' \union trying' \subseteq F!Attempts
        BY <2>1, <4>1
      <4>. QED
        BY <4>8, <4>9
    <3>. QED
      BY <1>6, <3>1, <3>2
  <2>4. consistent' = consistent
    BY <1>6 DEF F!Connected, F!NotConnected
  <2>5. CASE trying' # {}
    <3>1. pc' = "tcp" /\ blocking' = blocking
      BY <1>6, <2>0, <2>5 DEF F!Connected, F!NotConnected
    <3>. QED
      BY <1>0, <2>0, <2>1, <2>2, <2>3, <2>4, <3>1 DEF FacebookSeen
  <2>6. CASE trying' = {}
    <3>1. pc' \in {"closing", "done"} /\ F!Conclude
      BY <1>6, <2>0, <2>6 DEF F!Connected, F!NotConnected, F!CallBack
    <3>2. F!TcpBlocking(consistent, reachable') =
            \E s \in F!Tcp : F!Ours(s)' /\ F!Unreached(s)'
      <4>1. \A s \in F!Tcp : consistent[s] = F!Ours(s)'
        BY <1>0, <2>1, <2>2
      <4>. QED
        BY <2>3, <4>1 DEF F!TcpBlocking
    <3>3. /\ DOMAIN blocking' = {"dns", "tcp"}
          /\ blocking'.tcp = F!TcpBlocking(consistent, reachable')
          /\ blocking'.dns = blocking.dns
      BY <3>1 DEF F!Conclude
    <3>4. blocking'.dns = \E name \in F!Names : ~F!Ours(name)'
      BY <2>1, <2>2, <3>3
    <3>5. FacebookTold'
      BY <2>1, <2>2, <3>2, <3>3, <3>4 DEF FacebookTold
    <3>. QED
      BY <2>0, <2>1, <3>1, <3>5 DEF FacebookSeen
  <2>. QED
    BY <2>5, <2>6
<1>7. CASE F!Closed
  <2>1. pc = "closing" /\ pc' = "done" /\ UNCHANGED <<ips, reached, blocking>>
    BY <1>7 DEF F!Closed, F!CallBack, F!dns, F!flags
  <2>2. FacebookTold'
    BY <2>1 DEF FacebookSeen, FacebookTold, F!Attempts, F!Ours, F!Unreached
  <2>. QED
    BY <2>1, <2>2 DEF FacebookSeen
<1>8. CASE F!Released \/ UNCHANGED F!vars
  <2>1. UNCHANGED <<pc, trying, reached>> /\ UNCHANGED F!dns /\ UNCHANGED F!flags
    BY <1>8 DEF F!Released, F!vars, F!dns, F!flags
  <2>. QED
    BY <2>1 DEF F!dns, F!flags, FacebookSeen, FacebookTold, F!Attempts, F!Ours, F!Unreached
<1>. QED
  BY <1>1, <1>2, <1>3, <1>4, <1>5, <1>6, <1>7, <1>8 DEF F!Next

LEMMA SeenIsSound == FacebookSeen => F!VerdictSound
BY DEF FacebookSeen, FacebookTold, F!VerdictSound

-----------------------------------------------------------------------------
\* whatsapp waits for no connection to be closed: those it made may be held at any time.
WhatsappInv ==
  /\ pc \in {"start", "registration_server", "whatsapp_web", "dns", "tcp", "done"}
  /\ open \in Nat /\ calls = IF pc = "done" THEN 1 ELSE 0

LEMMA WhatsappStep ==
  WhatsappInv /\ [P!Next]_(P!vars) =>
    WhatsappInv' /\ Keeps(open, open, calls, open', open', calls', 0)
<1>. SUFFICES ASSUME WhatsappInv, [P!Next]_(P!vars)
              PROVE  WhatsappInv' /\ Keeps(open, open, calls, open', open', calls', 0)
  OBVIOUS
<1>. USE DEF WhatsappInv, Keeps
<1>1. CASE P!Resolved \/ P!NothingResolved \/ P!Attempt \/ P!AllRefused
  <2>1. P!Answer
    BY <1>1 DEF P!Resolved, P!NothingResolved, P!Attempt, P!AllRefused
  <2>2. pc = "dns" /\ open' = open
    BY <2>1 DEF P!Answer
  <2>3. \/ pc' \in {"dns", "tcp"} /\ calls' = calls
        \/ pc' = "done" /\ calls' = calls + 1
    BY <1>1, <2>2 DEF P!Resolved, P!NothingResolved, P!Attempt, P!AllRefused, P!CallBack
  <2>. QED
    BY <2>2, <2>3
<1>2. CASE P!Start \/ P!Requested
  BY <1>2 DEF P!Start, P!Requested
<1>3. CASE P!Connected \/ P!NotConnected
  <2>1. PICK a : P!EndsAttempt(a) /\ open' \in {open, open + 1}
    BY <1>3 DEF P!Connected, P!NotConnected
  <2>2. pc = "tcp" /\ calls = 0 /\ open' \in Nat
    BY <2>1 DEF P!EndsAttempt
  <2>3. CASE trying' = {}
    <3>1. pc' = "done" /\ calls' = 1
      BY <2>1, <2>2, <2>3 DEF P!EndsAttempt, P!CallBack
    <3>2. open' \in open'..(open' + 0)
      <4>1. \A p \in Nat : p \in p..(p + 0)
        OBVIOUS
      <4>. QED
        BY <2>2, <4>1
    <3>. QED
      BY <2>2, <3>1, <3>2
  <2>4. CASE trying' # {}
    <3>1. pc' = pc /\ calls' = calls
      BY <2>1, <2>4 DEF P!EndsAttempt
    <3>. QED
      BY <2>1, <2>2, <3>1
  <2>. QED
    BY <2>3, <2>4
<1>4. CASE P!Released \/ UNCHANGED P!vars
  BY <1>4 DEF P!Released, P!vars
<1>. QED
  BY <1>1, <1>2, <1>3, <1>4 DEF P!Next

-----------------------------------------------------------------------------
\* What is told at the end of whatsapp, as in P!VerdictSound.
WhatsappTold ==
  /\ endpoints.status = "ok" <=> P!Reached # {}
  /\ endpoints.blocked \union endpoints.inconsistent = DOMAIN ips \ P!Reached
  /\ endpoints.blocked \cap endpoints.inconsistent = {}
  /\ \A h \in endpoints.inconsistent : ~P!Ours(h)
  /\ \A h \in endpoints.blocked : P!Ours(h) \/ (reached = {} /\ P!LastName(h))

\* The endpoints that are not listed yet, and those that were reached.
EndpointsLeft ==
  /\ endpoints.status = IF P!Reached = {} THEN "blocked" ELSE "ok"
  /\ endpoints.hosts = {h \in DOMAIN ips : P!Ours(h)} \ P!Reached
  /\ endpoints.inconsistent = {h \in DOMAIN ips : ~P!Ours(h)}

\* A name is in the map when it has an address.
WhatsappSeen ==
  /\ \A h \in DOMAIN ips : ips[h] \in P!BoundedSeq(BOOLEAN, MaxAnswers) /\ ips[h] # <<>>
  /\ DOMAIN endpoints = {"status", "blocked", "inconsistent", "hosts"}
  /\ pc \notin {"tcp", "done"} => reached = {}
  /\ pc \notin {"dns", "tcp", "done"} => ips = <<>>
  /\ pc = "dns" => asked \cap DOMAIN ips = {}
  /\ pc = "tcp" => reached \union trying \subseteq P!Attempts /\ EndpointsLeft
  /\ pc = "done" => WhatsappTold

\* What an attempt is: an address of a host, by its number, and a port.
LEMMA AttemptParts ==
  ASSUME NEW a \in P!Attempts
  PROVE  a[1] \in DOMAIN ips /\ a[2] \in DOMAIN ips[a[1]]
BY DEF P!Attempts

LEMMA HostAddresses ==
  ASSUME NEW x \in P!BoundedSeq(BOOLEAN, MaxAnswers)
  PROVE  /\ \A i \in DOMAIN x : x[i] \in BOOLEAN
         /\ x # <<>> => 1 \in DOMAIN x
<1>1. PICK m \in 0..MaxAnswers : x \in [1..m -> BOOLEAN]
  BY DEF P!BoundedSeq, P!SeqOf
<1>2. m \in Nat
  BY ClientsAssumption
<1>3. m = 0 <=> x = <<>>
  BY <1>1, <1>2, FirstNumbers
<1>. QED
  BY <1>1, <1>2, <1>3

LEMMA EndpointsInit == P!Init => WhatsappSeen
<1>. SUFFICES ASSUME P!Init
              PROVE  WhatsappSeen
  OBVIOUS
<1>1. DOMAIN ips = {} /\ reached = {} /\ pc = "start" /\ ips = <<>>
  BY DEF P!Init
<1>2. DOMAIN endpoints = {"status", "blocked", "inconsistent", "hosts"}
  BY DEF P!Init, P!Unset
<1>. QED
  BY <1>1, <1>2 DEF WhatsappSeen

\* One more name is resolved, or has no address.
LEMMA HostAnswered ==
  ASSUME WhatsappSeen, P!Answer
  PROVE  /\ pc = "dns" /\ reached = {} /\ reached' = {}
         /\ \A h \in DOMAIN ips' :
              ips'[h] \in P!BoundedSeq(BOOLEAN, MaxAnswers) /\ ips'[h] # <<>>
         /\ asked' \cap DOMAIN ips' = {} /\ P!Reached' = {}
<1>1. pc = "dns" /\ reached = {} /\ reached' = {}
  BY DEF WhatsappSeen, P!Answer
<1>2. PICK h \in asked, answers \in P!BoundedSeq(BOOLEAN, MaxAnswers) :
        /\ asked' = asked \ {h}
        /\ ips' = [g \in DOMAIN ips \cup {x \in {h} : answers # <<>>} |->
                     IF g = h THEN answers ELSE ips[g]]
  BY DEF P!Answer
<1>3. h \notin DOMAIN ips /\ asked \cap DOMAIN ips = {}
  BY <1>1 DEF WhatsappSeen
<1>4. ASSUME NEW g \in DOMAIN ips'
      PROVE  ips'[g] \in P!BoundedSeq(BOOLEAN, MaxAnswers) /\ ips'[g] # <<>>
  <2>1. CASE g = h
    BY <1>2, <1>3, <1>4, <2>1
  <2>2. CASE g # h
    BY <1>2, <1>4, <2>2 DEF WhatsappSeen
  <2>. QED
    BY <2>1, <2>2
<1>5. asked' \cap DOMAIN ips' = {}
  BY <1>2, <1>3
<1>6. P!Reached' = {}
  BY <1>1 DEF P!Reached
<1>. QED
  BY <1>1, <1>4, <1>5, <1>6

\* Nothing to connect to: no name has an address.
LEMMA NoAttempt ==
  ASSUME \A h \in DOMAIN ips' : ips'[h] \in P!BoundedSeq(BOOLEAN, MaxAnswers) /\ ips'[h] # <<>>,
         P!Attempts' = {}
  PROVE  DOMAIN ips' = {}
<1>. SUFFICES ASSUME NEW h \in DOMAIN ips'
              PROVE  FALSE
  OBVIOUS
<1>1. 1 \in DOMAIN ips'[h]
  BY HostAddresses
<1>2. PICK port : port \in Ports
  BY ClientsAssumption
<1>3. <<h, 1, port>> \in P!Attempts'
  BY <1>1, <1>2 DEF P!Attempts
<1>. QED
  BY <1>3

\* The last attempt lists the hosts that are left.
LEMMA LeftIsTold ==
  ASSUME \A h \in DOMAIN ips' : ips'[h] \in P!BoundedSeq(BOOLEAN, MaxAnswers),
         \A a \in reached' : a[1] \in DOMAIN ips' /\ a[2] \in DOMAIN ips'[a[1]],
         EndpointsLeft', endpoints'.blocked = endpoints'.hosts
  PROVE  WhatsappTold'
<1>1. \A h \in P!Reached' : h \in DOMAIN ips' /\ P!Ours(h)'
  <2>. SUFFICES ASSUME NEW h \in P!Reached'
                PROVE  h \in DOMAIN ips' /\ P!Ours(h)'
    OBVIOUS
  <2>1. PICK a \in reached' : a[1] = h /\ ips'[h][a[2]]
    BY DEF P!Reached
  <2>2. h \in DOMAIN ips' /\ a[2] \in DOMAIN ips'[h]
    BY <2>1
  <2>3. ips'[h][a[2]] = TRUE
    BY <2>1, <2>2, HostAddresses
  <2>. QED
    BY <2>2, <2>3 DEF P!Ours, P!Range
<1>. QED
  BY <1>1 DEF WhatsappTold, EndpointsLeft

LEMMA EndpointsStep == WhatsappInv /\ WhatsappSeen /\ [P!Next]_(P!vars) => WhatsappSeen'
<1>. SUFFICES ASSUME WhatsappInv, WhatsappSeen, [P!Next]_(P!vars)
              PROVE  WhatsappSeen'
  OBVIOUS
<1>0. DOMAIN P!Pages = {"registration_server", "whatsapp_web"}
  BY DEF P!Pages
<1>1. CASE P!Start \/ P!Requested
  <2>1. /\ pc \in {"start", "registration_server", "whatsapp_web"}
        /\ pc' \in {"registration_server", "whatsapp_web", "dns"}
        /\ UNCHANGED <<ips, trying, reached, endpoints>>
    BY <1>0, <1>1 DEF P!Start, P!Requested
  <2>2. reached' = {} /\ ips' = <<>> /\ DOMAIN ips' = {}
    BY <2>1 DEF WhatsappSeen
  <2>. QED
    BY <2>1, <2>2 DEF WhatsappSeen
<1>2. CASE P!Resolved
  BY <1>2, HostAnswered DEF P!Resolved, WhatsappSeen
<1>3. CASE P!NothingResolved
  <2>1. DOMAIN ips' = {} /\ reached' = {} /\ P!Reached' = {}
    BY <1>3, HostAnswered, NoAttempt DEF P!NothingResolved
  <2>2. /\ pc' = "done" /\ endpoints'.status = "blocked"
        /\ endpoints'.blocked = {} /\ endpoints'.inconsistent = {}
        /\ DOMAIN endpoints' = {"status", "blocked", "inconsistent", "hosts"}
    BY <1>3 DEF P!NothingResolved, P!CallBack, P!Fresh, P!Unset
  <2>3. WhatsappTold'
    BY <2>1, <2>2 DEF WhatsappTold
  <2>. QED
    BY <2>1, <2>2, <2>3 DEF WhatsappSeen
<1>4. CASE P!Attempt
  <2>1. /\ pc' = "tcp" /\ trying' \subseteq P!Attempts'
        /\ endpoints' = [P!Fresh EXCEPT !.hosts = {h \in DOMAIN ips' : P!Ours(h)'},
                                        !.inconsistent = {h \in DOMAIN ips' : ~P!Ours(h)'}]
    BY <1>4 DEF P!Attempt
  <2>2. /\ endpoints'.status = "blocked" /\ endpoints'.hosts = {h \in DOMAIN ips' : P!Ours(h)'}
        /\ endpoints'.inconsistent = {h \in DOMAIN ips' : ~P!Ours(h)'}
        /\ DOMAIN endpoints' = {"status", "blocked", "inconsistent", "hosts"}
    BY <2>1 DEF P!Fresh, P!Unset
  <2>3. /\ reached' = {} /\ P!Reached' = {}
        /\ \A h \in DOMAIN ips' :
             ips'[h] \in P!BoundedSeq(BOOLEAN, MaxAnswers) /\ ips'[h] # <<>>
    BY <1>4, HostAnswered DEF P!Attempt
  <2>4. EndpointsLeft'
    BY <2>2, <2>3 DEF EndpointsLeft
  <2>. QED
    BY <2>1, <2>2, <2>3, <2>4 DEF WhatsappSeen
<1>5. CASE P!AllRefused
  <2>1. /\ reached' = {} /\ P!Reached' = {}
        /\ \A h \in DOMAIN ips' :
             ips'[h] \in P!BoundedSeq(BOOLEAN, MaxAnswers) /\ ips'[h] # <<>>
    BY <1>5, HostAnswered DEF P!AllRefused
  <2>2. PICK last \in DOMAIN Hosts :
          /\ \A k \in (last + 1)..Len(Hosts) : Hosts[k] \notin DOMAIN ips'
          /\ LET blocked == {h \in DOMAIN ips' : P!Ours(h)' \/ h = Hosts[last]}
             IN  endpoints' = [P!Fresh EXCEPT !.hosts = blocked, !.blocked = blocked,
                                              !.inconsistent = DOMAIN ips' \ blocked]
    BY <1>5, Zenon DEF P!AllRefused
  <2>. DEFINE blocked == {h \in DOMAIN ips' : P!Ours(h)' \/ h = Hosts[last]}
  <2>3. /\ endpoints'.status = "blocked" /\ endpoints'.blocked = blocked
        /\ endpoints'.inconsistent = DOMAIN ips' \ blocked
        /\ DOMAIN endpoints' = {"status", "blocked", "inconsistent", "hosts"}
    BY <2>2 DEF P!Fresh, P!Unset
  <2>4. pc' = "done"
    BY <1>5 DEF P!AllRefused, P!CallBack
  <2>5. \A h \in blocked : P!Ours(h)' \/ h = Hosts[last]
    OBVIOUS
  <2>6. P!LastName(Hosts[last])'
    BY <2>2 DEF P!LastName
  <2>. HIDE DEF blocked
  <2>7. WhatsappTold'
    <3>1. \A h \in endpoints'.blocked : P!Ours(h)' \/ (reached' = {} /\ P!LastName(h)')
      BY <2>1, <2>3, <2>5, <2>6
    <3>. QED
      BY <2>1, <2>3, <2>5, <3>1 DEF WhatsappTold, blocked
  <2>. QED
    BY <2>1, <2>3, <2>4, <2>7 DEF WhatsappSeen
<1>6. CASE P!Connected \/ P!NotConnected
  <2>1. PICK a \in trying :
          /\ P!EndsAttempt(a)
          /\ \/ reached' = reached \union {a} /\ P!Unblock(a)
             \/ /\ reached' = reached
                /\ endpoints' = IF trying = {a} THEN [endpoints EXCEPT !.blocked = endpoints.hosts]
                                ELSE endpoints
    BY <1>6 DEF P!Connected, P!NotConnected
  <2>2. /\ pc = "tcp" /\ trying' = trying \ {a} /\ ips' = ips
        /\ pc' = IF trying = {a} THEN "done" ELSE "tcp"
    BY <2>1 DEF P!EndsAttempt, P!CallBack
  <2>3. /\ reached \union trying \subseteq P!Attempts /\ EndpointsLeft
        /\ DOMAIN endpoints = {"status", "blocked", "inconsistent", "hosts"}
        /\ \A h \in DOMAIN ips :
             ips[h] \in P!BoundedSeq(BOOLEAN, MaxAnswers) /\ ips[h] # <<>>
    BY <2>2 DEF WhatsappSeen
  <2>4. /\ P!Attempts' = P!Attempts /\ reached' \union trying' \subseteq P!Attempts'
        /\ \A h : P!Ours(h)' = P!Ours(h)
    BY <2>1, <2>2, <2>3 DEF P!Attempts, P!Ours
  <2>5. a[1] \in DOMAIN ips /\ a[2] \in DOMAIN ips[a[1]] /\ ips[a[1]][a[2]] \in BOOLEAN
    BY <2>3, AttemptParts, HostAddresses
  <2>6. /\ EndpointsLeft' /\ (trying = {a} => endpoints'.blocked = endpoints'.hosts)
        /\ DOMAIN endpoints' = {"status", "blocked", "inconsistent", "hosts"}
    <3>1. CASE reached' = reached \union {a} /\ P!Unblock(a)
      <4>. DEFINE good == ips[a[1]][a[2]]
                  hosts == IF good THEN endpoints.hosts \ {a[1]} ELSE endpoints.hosts
      <4>1. /\ endpoints'.status = IF good THEN "ok" ELSE endpoints.status
            /\ endpoints'.hosts = hosts /\ endpoints'.inconsistent = endpoints.inconsistent
            /\ trying = {a} => endpoints'.blocked = hosts
            /\ DOMAIN endpoints' = {"status", "blocked", "inconsistent", "hosts"}
        BY <2>3, <3>1 DEF P!Unblock
      <4>2. P!Reached' = IF good THEN P!Reached \union {a[1]} ELSE P!Reached
        BY <2>2, <2>5, <3>1 DEF P!Reached
      <4>. HIDE DEF good
      <4>3. EndpointsLeft'
        BY <2>2, <2>3, <2>4, <4>1, <4>2 DEF EndpointsLeft
      <4>. QED
        BY <4>1, <4>3
    <3>2. CASE reached' = reached /\ endpoints' =
                 IF trying = {a} THEN [endpoints EXCEPT !.blocked = endpoints.hosts] ELSE endpoints
      <4>1. P!Reached' = P!Reached
        BY <2>2, <3>2 DEF P!Reached
      <4>2. /\ endpoints'.status = endpoints.status /\ endpoints'.hosts = endpoints.hosts
            /\ endpoints'.inconsistent = endpoints.inconsistent
            /\ trying = {a} => endpoints'.blocked = endpoints.hosts
            /\ DOMAIN endpoints' = {"status", "blocked", "inconsistent", "hosts"}
        BY <2>3, <3>2
      <4>. QED
        BY <2>2, <2>3, <2>4, <4>1, <4>2 DEF EndpointsLeft
    <3>. QED
      BY <2>1, <3>1, <3>2
  <2>7. CASE trying # {a}
    BY <2>2, <2>3, <2>4, <2>6, <2>7 DEF WhatsappSeen
  <2>8. CASE trying = {a}
    <3>1. \A b \in reached' : b[1] \in DOMAIN ips' /\ b[2] \in DOMAIN ips'[b[1]]
      BY <2>2, <2>4, AttemptParts
    <3>2. WhatsappTold'
      BY <2>2, <2>3, <2>6, <2>8, <3>1, LeftIsTold
    <3>. QED
      BY <2>2, <2>3, <2>6, <2>8, <3>2 DEF WhatsappSeen
  <2>. QED
    BY <2>7, <2>8
<1>7. CASE P!Released \/ UNCHANGED P!vars
  <2>1. UNCHANGED <<pc, asked, ips, trying, reached, endpoints>>
    BY <1>7 DEF P!Released, P!vars
  <2>2. /\ P!Attempts' = P!Attempts /\ P!Reached' = P!Reached
        /\ \A h : P!Ours(h)' = P!Ours(h) /\ P!LastName(h)' = P!LastName(h)
    BY <2>1 DEF P!Attempts, P!Ours, P!Reached, P!LastName
  <2>3. WhatsappTold = WhatsappTold' /\ EndpointsLeft = EndpointsLeft'
    BY <2>1, <2>2 DEF WhatsappTold, EndpointsLeft
  <2>. QED
    BY <2>1, <2>2, <2>3 DEF WhatsappSeen
<1>. QED
  BY <1>1, <1>2, <1>3, <1>4, <1>5, <1>6, <1>7 DEF P!Next

LEMMA EndpointsAreSound == WhatsappSeen => P!VerdictSound
BY DEF WhatsappSeen, WhatsappTold, P!VerdictSound

-----------------------------------------------------------------------------
\* The requests of http_invalid_request_line that hold a connection.
Holding == {r \in 1..I!Requests : request[r] \in {"receiving", "tampered", "echoed"}}

\* It has called back exactly when four answers were counted, or when it did not start.
LineInv ==
  /\ request \in [1..I!Requests -> {"idle", "connecting", "receiving", "tampered", "echoed", "over"}]
  /\ open = Cardinality(Holding)
  /\ inner \in Seq({"failed", "tampered", "echoed"})
  /\ pc \in {"start", "run", "done"}
  /\ pc = "start" => inner = <<>> /\ \A r \in 1..I!Requests : request[r] = "idle"
  /\ calls = IF pc = "done" THEN 1 ELSE 0
  /\ pc # "done" => Len(inner) < I!Counted
  /\ pc = "done" => Len(inner) >= I!Counted \/ \A r \in 1..I!Requests : request[r] = "idle"

LEMMA RequestsAreFinite ==
  /\ IsFiniteSet(1..I!Requests)
  /\ \A T \in SUBSET (1..I!Requests) : IsFiniteSet(T) /\ Cardinality(T) \in Nat
<1>1. IsFiniteSet(1..5)
  BY 1 \in Int, 5 \in Int, FS_Interval
<1>2. IsFiniteSet(1..I!Requests)
  BY <1>1 DEF I!Requests
<1>. QED
  BY <1>2, FS_Subset, FS_CardinalityType

\* A request takes or releases its connection, or leaves it as it is.
LEMMA HoldingCounted ==
  ASSUME LineInv, NEW r \in 1..I!Requests, NEW state,
         request' = [request EXCEPT ![r] = state]
  PROVE  /\ IsFiniteSet(Holding) /\ Cardinality(Holding) \in Nat
         /\ r \in Holding /\ state \in {"receiving", "tampered", "echoed"} => Holding' = Holding
         /\ r \notin Holding /\ state \notin {"receiving", "tampered", "echoed"} =>
              Holding' = Holding
         /\ r \notin Holding /\ state \in {"receiving", "tampered", "echoed"} =>
              Cardinality(Holding') = Cardinality(Holding) + 1
         /\ r \in Holding /\ state \notin {"receiving", "tampered", "echoed"} =>
              Cardinality(Holding') = Cardinality(Holding) - 1 /\ Cardinality(Holding) > 0
<1>1. IsFiniteSet(Holding) /\ Cardinality(Holding) \in Nat
  BY RequestsAreFinite DEF Holding
<1>2. Holding' = IF state \in {"receiving", "tampered", "echoed"} THEN Holding \union {r}
                                                                  ELSE Holding \ {r}
  BY DEF Holding, LineInv
<1>3. r \in Holding => Cardinality(Holding) > 0
  BY <1>1, FS_EmptySet
<1>4. r \notin Holding => Cardinality(Holding \union {r}) = Cardinality(Holding) + 1
  BY <1>1, FS_AddElement
<1>5. r \in Holding => Cardinality(Holding \ {r}) = Cardinality(Holding) - 1
  BY <1>1, FS_RemoveElement
<1>. HIDE DEF Holding
<1>. QED
  BY <1>1, <1>2, <1>3, <1>4, <1>5

\* The fourth answer, and only that one, makes the test call back.
LEMMA AnswersCounted ==
  ASSUME inner \in Seq({"failed", "tampered", "echoed"}),
         NEW more \in Seq({"failed", "tampered", "echoed"}), I!handle_response(more)
  PROVE  /\ inner' \in Seq({"failed", "tampered", "echoed"})
         /\ Len(inner') = Len(inner) + Len(more)
         /\ Len(inner) < I!Counted /\ Len(inner') >= I!Counted =>
              pc' = "done" /\ calls' = calls + 1
         /\ ~(Len(inner) < I!Counted /\ Len(inner') >= I!Counted) =>
              pc' = (IF pc = "done" THEN "done" ELSE "run") /\ calls' = calls
<1>1. inner' = inner \o more
  BY DEF I!handle_response
<1>2. /\ inner' \in Seq({"failed", "tampered", "echoed"})
      /\ Len(inner') = Len(inner) + Len(more)
  BY <1>1, ConcatProperties
<1>3. /\ Len(inner) < I!Counted /\ Len(inner') >= I!Counted =>
           pc' = "done" /\ calls' = calls + 1
      /\ ~(Len(inner) < I!Counted /\ Len(inner') >= I!Counted) =>
           pc' = (IF pc = "done" THEN "done" ELSE "run") /\ calls' = calls
  BY <1>1 DEF I!handle_response
<1>. QED
  BY <1>2, <1>3

LEMMA LineInit == I!Init => LineInv
<1>. SUFFICES ASSUME I!Init
              PROVE  LineInv
  OBVIOUS
<1>1. Holding = {}
  BY DEF I!Init, Holding
<1>. QED
  BY <1>1, FS_EmptySet DEF I!Init, LineInv, I!Counted

LEMMA LineStep == LineInv /\ [I!Next]_(I!vars) => LineInv'
<1>. SUFFICES ASSUME LineInv, [I!Next]_(I!vars)
              PROVE  LineInv'
  OBVIOUS
<1>0. open \in Nat /\ Len(inner) \in Nat
  <2>1. Cardinality(Holding) \in Nat
    BY RequestsAreFinite DEF Holding
  <2>. QED
    BY <2>1 DEF LineInv
<1>1. CASE I!InvalidBackend
  <2>1. Holding' = Holding
    BY <1>1 DEF I!InvalidBackend, Holding
  <2>. QED
    BY <1>0, <1>1, <2>1 DEF I!InvalidBackend, LineInv
<1>2. CASE I!Start
  <2>1. PICK refused \in SUBSET (1..I!Requests) :
          /\ request' = [r \in 1..I!Requests |-> IF r \in refused THEN "over" ELSE "connecting"]
          /\ I!handle_response([k \in 1..I!Cardinality(refused) |-> "failed"])
    BY <1>2 DEF I!Start
  <2>. DEFINE more == [k \in 1..I!Cardinality(refused) |-> "failed"]
  <2>2. I!Cardinality(refused) \in Nat
    <3>1. I!Cardinality(refused) = Cardinality(refused)
      BY Zenon DEF I!Cardinality, Cardinality
    <3>. QED
      BY <3>1, RequestsAreFinite
  <2>3. more \in Seq({"failed", "tampered", "echoed"})
    BY <2>2
  <2>4. Holding' = {} /\ Holding = {}
    <3>1. \A r \in 1..I!Requests : request'[r] \in {"over", "connecting"}
      BY <2>1
    <3>2. \A r \in 1..I!Requests : request[r] = "idle"
      BY <1>2 DEF I!Start, LineInv
    <3>. QED
      BY <3>1, <3>2 DEF Holding
  <2>. QED
    BY <1>2, <2>1, <2>3, <2>4, FS_EmptySet, AnswersCounted DEF I!Start, LineInv, I!Counted
<1>3. CASE I!Connected
  <2>1. PICK r \in 1..I!Requests :
          /\ request[r] = "connecting" /\ request' = [request EXCEPT ![r] = "receiving"]
          /\ open' = open + 1 /\ UNCHANGED <<pc, calls, failure, inner, tampering>>
    BY <1>3 DEF I!Connected
  <2>2. Cardinality(Holding') = Cardinality(Holding) + 1
    BY <2>1, HoldingCounted DEF Holding
  <2>. QED
    BY <1>0, <2>1, <2>2 DEF LineInv
<1>4. CASE I!NotConnected
  <2>1. PICK r \in 1..I!Requests :
          /\ request[r] = "connecting" /\ request' = [request EXCEPT ![r] = "over"]
          /\ I!handle_response(<<"failed">>) /\ UNCHANGED open
    BY <1>4 DEF I!NotConnected
  <2>2. Holding' = Holding
    BY <2>1, HoldingCounted DEF Holding
  <2>3. <<"failed">> \in Seq({"failed", "tampered", "echoed"}) /\ Len(<<"failed">>) = 1
    OBVIOUS
  <2>4. /\ inner' \in Seq({"failed", "tampered", "echoed"})
        /\ Len(inner') = Len(inner) + 1
        /\ Len(inner) < 4 /\ Len(inner') >= 4 =>
             pc' = "done" /\ calls' = calls + 1
        /\ ~(Len(inner) < 4 /\ Len(inner') >= 4) =>
             pc' = (IF pc = "done" THEN "done" ELSE "run") /\ calls' = calls
    BY <2>1, <2>3, AnswersCounted DEF LineInv, I!Counted
  <2>5. pc # "start" /\ (pc = "done" => Len(inner) >= 4) /\ (pc # "done" => Len(inner) < 4)
    BY <2>1 DEF LineInv, I!Counted
  <2>. QED
    BY <1>0, <2>1, <2>2, <2>4, <2>5 DEF LineInv, I!Counted
<1>5. CASE I!TimerExpires
  <2>1. PICK r \in 1..I!Requests, seen \in {"tampered", "echoed"} :
          /\ request[r] = "receiving" /\ request' = [request EXCEPT ![r] = seen]
          /\ UNCHANGED <<pc, open, calls, failure, inner, tampering>>
    BY <1>5 DEF I!TimerExpires
  <2>2. Holding' = Holding
    BY <2>1, HoldingCounted DEF Holding
  <2>. QED
    BY <2>1, <2>2 DEF LineInv
<1>6. CASE I!Closed
  <2>1. PICK r \in 1..I!Requests :
          /\ request[r] \in {"tampered", "echoed"}
          /\ request' = [request EXCEPT ![r] = "over"] /\ open' = open - 1
          /\ I!handle_response(<<request[r]>>)
    BY <1>6 DEF I!Closed
  <2>2. Cardinality(Holding') = Cardinality(Holding) - 1 /\ Cardinality(Holding) > 0
    <3>1. r \in Holding
      BY <2>1 DEF Holding
    <3>2. request' = [request EXCEPT ![r] = "over"]
      BY <2>1
    <3>3. "over" \notin {"receiving", "tampered", "echoed"}
      OBVIOUS
    <3>. HIDE DEF Holding, LineInv
    <3>. QED
      BY <3>1, <3>2, <3>3, HoldingCounted
  <2>3. /\ <<request[r]>> \in Seq({"failed", "tampered", "echoed"})
        /\ Len(<<request[r]>>) = 1
    BY <2>1
  <2>4. /\ inner' \in Seq({"failed", "tampered", "echoed"})
        /\ Len(inner') = Len(inner) + 1
        /\ Len(inner) < 4 /\ Len(inner') >= 4 =>
             pc' = "done" /\ calls' = calls + 1
        /\ ~(Len(inner) < 4 /\ Len(inner') >= 4) =>
             pc' = (IF pc = "done" THEN "done" ELSE "run") /\ calls' = calls
    BY <2>1, <2>3, AnswersCounted DEF LineInv, I!Counted
  <2>5. pc # "start" /\ (pc = "done" => Len(inner) >= 4) /\ (pc # "done" => Len(inner) < 4)
    BY <2>1 DEF LineInv, I!Counted
  <2>. QED
    BY <1>0, <2>1, <2>2, <2>4, <2>5 DEF LineInv, I!Counted
<1>7. CASE UNCHANGED I!vars
  BY <1>7 DEF I!vars, LineInv, Holding
<1>. QED
  BY <1>1, <1>2, <1>3, <1>4, <1>5, <1>6, <1>7 DEF I!Next

-----------------------------------------------------------------------------
\* The requests of http_invalid_request_line that are over.
Over == {r \in 1..I!Requests : request[r] = "over"}

\* There is one answer for each request that is over, and the first four say what is told.
LineTold ==
  /\ Len(inner) = Cardinality(Over)
  /\ pc # "done" => failure = "none"
  /\ failure = "backend" => \A r \in 1..I!Requests : request[r] = "idle"
  /\ pc = "done" /\ failure # "backend" =>
       /\ Len(inner) >= I!Counted
       /\ tampering = "true" <=> \E k \in 1..I!Counted : inner[k] = "tampered"

LEMMA ToldInit == I!Init => LineTold
<1>. SUFFICES ASSUME I!Init
              PROVE  LineTold
  OBVIOUS
<1>1. Over = {} /\ Len(inner) = 0
  BY DEF I!Init, Over
<1>. QED
  BY <1>1, FS_EmptySet DEF I!Init, LineTold

\* What the answers make the test tell, at the fourth and later.
LEMMA AnswersTold ==
  ASSUME LineInv, pc = "done" => failure = "backend" \/ Len(inner) >= I!Counted,
         LineTold, failure # "backend",
         NEW more \in Seq({"failed", "tampered", "echoed"}), I!handle_response(more)
  PROVE  /\ failure' # "backend" /\ (pc' # "done" => failure' = "none")
         /\ pc' = "done" /\ failure' # "backend" =>
              /\ Len(inner') >= I!Counted
              /\ tampering' = "true" <=> \E k \in 1..I!Counted : inner'[k] = "tampered"
<1>1. /\ inner' = inner \o more /\ inner' \in Seq({"failed", "tampered", "echoed"})
      /\ Len(inner') = Len(inner) + Len(more)
      /\ \A k \in 1..Len(inner) : inner'[k] = inner[k]
      /\ Len(inner) \in Nat /\ Len(more) \in Nat
  BY ConcatProperties DEF I!handle_response, LineInv
<1>2. CASE Len(inner) < I!Counted /\ Len(inner') >= I!Counted
  <2>1. /\ pc' = "done"
        /\ tampering' = I!Tampering([k \in 1..I!Counted |-> inner'[k]])
    BY <1>1, <1>2 DEF I!handle_response
  <2>2. I!Range([k \in 1..I!Counted |-> inner'[k]]) = {inner'[k] : k \in 1..I!Counted}
    BY DEF I!Range
  <2>3. tampering' = "true" <=> \E k \in 1..I!Counted : inner'[k] = "tampered"
    BY <2>1, <2>2 DEF I!Tampering
  <2>4. failure' # "backend"
    BY <1>1, <1>2 DEF I!handle_response
  <2>. QED
    BY <1>2, <2>1, <2>3, <2>4
<1>3. CASE ~(Len(inner) < I!Counted /\ Len(inner') >= I!Counted)
  <2>1. /\ pc' = (IF pc = "done" THEN pc ELSE "run")
        /\ tampering' = tampering /\ failure' = failure
    BY <1>1, <1>3 DEF I!handle_response
  <2>2. pc = "done" => \A k \in 1..I!Counted : inner'[k] = inner[k]
    BY <1>1 DEF LineTold, I!Counted
  <2>. QED
    BY <1>1, <2>1, <2>2 DEF LineTold, I!Counted
<1>. QED
  BY <1>2, <1>3

\* A request that ends adds its answer.
LEMMA OverCounted ==
  ASSUME LineInv, NEW r \in 1..I!Requests, NEW state,
         request' = [request EXCEPT ![r] = state], request[r] # "over"
  PROVE  /\ Cardinality(Over) \in Nat
         /\ state = "over" => Cardinality(Over') = Cardinality(Over) + 1
         /\ state # "over" => Over' = Over
<1>1. IsFiniteSet(Over) /\ Cardinality(Over) \in Nat
  BY RequestsAreFinite DEF Over
<1>2. r \notin Over /\ Over' = IF state = "over" THEN Over \union {r} ELSE Over
  BY DEF Over, LineInv
<1>. HIDE DEF Over
<1>. QED
  BY <1>1, <1>2, FS_AddElement

LEMMA ToldStep == LineInv /\ LineTold /\ [I!Next]_(I!vars) => LineTold'
<1>. SUFFICES ASSUME LineInv, LineTold, [I!Next]_(I!vars)
              PROVE  LineTold'
  OBVIOUS
<1>0. pc = "done" => failure = "backend" \/ Len(inner) >= I!Counted
  BY DEF LineTold
<1>1. CASE I!InvalidBackend
  <2>1. \A r \in 1..I!Requests : request[r] = "idle"
    BY <1>1 DEF I!InvalidBackend, LineInv
  <2>2. Over' = Over
    BY <1>1 DEF I!InvalidBackend, Over
  <2>. QED
    BY <1>1, <2>1, <2>2 DEF I!InvalidBackend, LineTold
<1>2. CASE I!Start
  <2>1. PICK refused \in SUBSET (1..I!Requests) :
          /\ request' = [r \in 1..I!Requests |-> IF r \in refused THEN "over" ELSE "connecting"]
          /\ I!handle_response([k \in 1..I!Cardinality(refused) |-> "failed"])
    BY <1>2 DEF I!Start
  <2>2. pc = "start" /\ inner = <<>> /\ failure = "none"
    BY <1>2 DEF I!Start, LineInv, LineTold
  <2>3. I!Cardinality(refused) = Cardinality(refused) /\ Cardinality(refused) \in Nat
    <3>1. I!Cardinality(refused) = Cardinality(refused)
      BY Zenon DEF I!Cardinality, Cardinality
    <3>. QED
      BY <3>1, RequestsAreFinite
  <2>. DEFINE more == [k \in 1..I!Cardinality(refused) |-> "failed"]
  <2>4. more \in Seq({"failed", "tampered", "echoed"}) /\ Len(more) = Cardinality(refused)
    BY <2>3
  <2>5. Over' = refused
    BY <2>1 DEF Over
  <2>6. Len(inner') = Cardinality(Over')
    <3>1. Len(inner') = Len(inner) + Len(more)
      BY <2>1, <2>4, AnswersCounted DEF LineInv
    <3>2. Len(inner) = 0
      BY <2>2
    <3>. HIDE DEF more
    <3>. QED
      BY <2>3, <2>4, <2>5, <3>1, <3>2
  <2>7. I!handle_response(more) /\ failure # "backend" /\ pc # "done"
    BY <2>1, <2>2
  <2>. HIDE DEF more
  <2>8. /\ failure' # "backend" /\ (pc' # "done" => failure' = "none")
        /\ pc' = "done" /\ failure' # "backend" =>
             /\ Len(inner') >= I!Counted
             /\ tampering' = "true" <=> \E k \in 1..I!Counted : inner'[k] = "tampered"
    BY <2>4, <2>7, AnswersTold
  <2>9. failure' = "backend" => \A r \in 1..I!Requests : request'[r] = "idle"
    BY <2>8
  <2>. QED
    BY <2>6, <2>8, <2>9 DEF LineTold
<1>3. CASE I!Connected \/ I!TimerExpires
  <2>1. PICK r \in 1..I!Requests, seen \in {"receiving", "tampered", "echoed"} :
          /\ request[r] \in {"connecting", "receiving"}
          /\ request' = [request EXCEPT ![r] = seen]
          /\ UNCHANGED <<pc, failure, inner, tampering>>
    BY <1>3 DEF I!Connected, I!TimerExpires
  <2>2. Over' = Over
    BY <2>1, OverCounted
  <2>. QED
    BY <2>1, <2>2 DEF LineTold
<1>4. CASE I!NotConnected \/ I!Closed
  <2>1. PICK r \in 1..I!Requests, answer \in {"failed", "tampered", "echoed"} :
          /\ request[r] \in {"connecting", "tampered", "echoed"}
          /\ request' = [request EXCEPT ![r] = "over"] /\ I!handle_response(<<answer>>)
    BY <1>4 DEF I!NotConnected, I!Closed
  <2>2. Cardinality(Over') = Cardinality(Over) + 1
    <3>1. request[r] # "over" /\ request' = [request EXCEPT ![r] = "over"]
      BY <2>1
    <3>. HIDE DEF Over, LineInv
    <3>. QED
      BY <3>1, OverCounted
  <2>3. <<answer>> \in Seq({"failed", "tampered", "echoed"}) /\ Len(<<answer>>) = 1
    OBVIOUS
  <2>4. Len(inner') = Cardinality(Over')
    BY <2>1, <2>2, <2>3, AnswersCounted DEF LineInv, LineTold
  <2>5. failure # "backend"
    BY <2>1 DEF LineInv, LineTold
  <2>. QED
    BY <1>0, <2>1, <2>3, <2>4, <2>5, AnswersTold DEF LineTold
<1>5. CASE UNCHANGED I!vars
  BY <1>5 DEF I!vars, LineTold, Over
<1>. QED
  BY <1>1, <1>2, <1>3, <1>4, <1>5 DEF I!Next

\* Four of the five requests are counted: once they are, the fifth connection is all that
\* may be held.
LEMMA LastHeld ==
  ASSUME LineInv, LineTold, calls = 1
  PROVE  open \in 0..1
<1>1. CASE failure = "backend"
  <2>1. Holding = {}
    BY <1>1 DEF LineTold, Holding
  <2>. QED
    BY <2>1, FS_EmptySet DEF LineInv
<1>2. CASE failure # "backend"
  <2>1. Len(inner) >= 4 /\ Len(inner) = Cardinality(Over)
    BY <1>2 DEF LineInv, LineTold, I!Counted
  <2>2. IsFiniteSet(1..5) /\ Cardinality(1..5) = 5
    <3>1. /\ IsFiniteSet(1..5)
          /\ Cardinality(1..5) = IF 1 > 5 THEN 0 ELSE 5 - 1 + 1
      BY 1 \in Int, 5 \in Int, FS_Interval
    <3>. QED
      BY <3>1
  <2>3. /\ IsFiniteSet(Over) /\ IsFiniteSet(Holding)
        /\ Cardinality(Over) \in Nat /\ Cardinality(Holding) \in Nat
    BY RequestsAreFinite DEF Over, Holding
  <2>4. Over \cap Holding = {} /\ Over \union Holding \subseteq 1..5
    BY DEF Over, Holding, I!Requests
  <2>5. Cardinality(Over \union Holding) <= 5
    BY <2>2, <2>4, FS_Subset
  <2>6. Cardinality(Over \cap Holding) = 0
    BY <2>4, FS_EmptySet
  <2>7. Cardinality(Over \union Holding) =
          Cardinality(Over) + Cardinality(Holding) - Cardinality(Over \cap Holding)
    BY <2>3, FS_Union
  <2>8. open = Cardinality(Holding)
    BY DEF LineInv
  <2>. HIDE DEF Over, Holding
  <2>. QED
    BY <2>1, <2>3, <2>5, <2>6, <2>7, <2>8
<1>. QED
  BY <1>1, <1>2

\* The fifth request is not waited for, and the callback comes once.
LEMMA LineSession ==
  LineInv /\ LineTold /\ [I!Next]_(I!vars) => Keeps(open, 0, calls, open', 0, calls', 1)
<1>. SUFFICES ASSUME LineInv, LineTold, [I!Next]_(I!vars)
              PROVE  Keeps(open, 0, calls, open', 0, calls', 1)
  OBVIOUS
<1>1. LineInv' /\ LineTold'
  BY LineStep, ToldStep
<1>2. calls' = 1 => open' \in 0..1
  <2>. SUFFICES ASSUME calls' = 1
                PROVE  open' \in 0..1
    OBVIOUS
  <2>1. (LineInv /\ LineTold /\ calls = 1 => open \in 0..1)'
    BY LastHeld, PTL
  <2>. QED
    BY <1>1, <2>1
<1>3. open' \in Nat
  <2>1. open' = Cardinality(Holding')
    BY <1>1 DEF LineInv
  <2>2. Cardinality(Holding') \in Nat
    BY RequestsAreFinite DEF Holding
  <2>. QED
    BY <2>1, <2>2
<1>4. pc = "done" => pc' = "done"
  BY DEF I!Next, I!InvalidBackend, I!Start, I!Connected, I!NotConnected, I!TimerExpires, I!Closed,
    I!handle_response, I!vars
<1>5. /\ calls = IF pc = "done" THEN 1 ELSE 0
      /\ calls' = IF pc' = "done" THEN 1 ELSE 0
  BY <1>1 DEF LineInv
<1>. QED
  BY <1>2, <1>3, <1>4, <1>5 DEF Keeps

\* Tampering is told when one of the four answers that are counted saw it, and only then.
LEMMA ToldIsSound == LineInv /\ LineTold => I!VerdictSound
<1>. SUFFICES ASSUME LineInv, LineTold, calls = 1, failure # "backend"
              PROVE  tampering = "true" <=> I!Saw \cap (1..I!Counted) # {}
  BY DEF I!VerdictSound
<1>1. /\ Len(inner) >= I!Counted /\ DOMAIN inner = 1..Len(inner) /\ Len(inner) \in Nat
      /\ tampering = "true" <=> \E k \in 1..I!Counted : inner[k] = "tampered"
  BY DEF LineInv, LineTold
<1>2. \A k \in 1..I!Counted : k \in DOMAIN inner
  BY <1>1 DEF I!Counted
<1>. QED
  BY <1>1, <1>2 DEF I!Saw

-----------------------------------------------------------------------------
\* The steps of parallel are those that ParallelProofs is about.
LEMMA VectorStep == client = "parallel" /\ [Next]_vars => [LP!Next]_(LP!vars)
<1>. SUFFICES ASSUME client = "parallel", [Next]_vars
              PROVE  [LP!Next]_(LP!vars)
  OBVIOUS
<1>1. CASE L!Next
  BY <1>1 DEF L!Op, L!Stride, L!NoOp, L!Empty, L!Iterate, L!Suspend, L!MayComplete,
    L!Record, L!Successor, L!CallsBack, L!Complete, L!Next, LP!Op, LP!Stride, LP!NoOp,
    LP!Empty, LP!Iterate, LP!Suspend, LP!MayComplete, LP!Record, LP!Successor,
    LP!CallsBack, LP!Complete, LP!Next
<1>2. CASE UNCHANGED vars
  BY <1>2 DEF vars, parallel, LP!vars
<1>. QED
  BY <1>1, <1>2 DEF Next

\* parallel() makes no connection, and calls back once.
VectorInv == LP!IInv /\ open = 0

LEMMA VectorInit == Init /\ client = "parallel" => VectorInv
<1>. SUFFICES ASSUME Init, client = "parallel"
              PROVE  VectorInv
  OBVIOUS
<1>1. LP!Init
  BY DEF Init, L!Init, L!NoOp, LP!Init, LP!NoOp
<1>2. LP!IInv
  BY <1>1, ClientsAssumption, LP!InitIInv
<1>. QED
  BY <1>2 DEF Init, N!Init, VectorInv

LEMMA VectorInvStep == VectorInv /\ client = "parallel" /\ [Next]_vars => VectorInv'
<1>. SUFFICES ASSUME VectorInv, client = "parallel", [Next]_vars
              PROVE  VectorInv'
  OBVIOUS
<1>1. LP!IInv'
  BY VectorStep, ClientsAssumption, LP!NextIInv DEF VectorInv
<1>2. open' = 0
  BY DEF VectorInv, Next, vars
<1>. QED
  BY <1>1, <1>2 DEF VectorInv

LEMMA VectorSession == VectorInv /\ VectorInv' => Holds(open, Len(cb), open', Len(cb'))
<1>. SUFFICES ASSUME VectorInv, VectorInv'
              PROVE  Holds(open, Len(cb), open', Len(cb'))
  OBVIOUS
<1>1. Len(cb) \in {0, 1}
  BY DEF VectorInv, LP!IInv, LP!Tally
<1>2. Len(cb') \in {0, 1}
  BY DEF VectorInv, LP!IInv, LP!Tally
<1>. QED
  BY <1>1, <1>2 DEF VectorInv, Holds, Keeps

-----------------------------------------------------------------------------
IInv ==
  /\ client = "ndt" => NdtInv /\ NdtRecorded
  /\ client = "multi_ndt" => MultiInv /\ MultiChosen
  /\ client = "dash" => DashInv /\ DashMeasured
  /\ client = "collector" => CollectorInv
  /\ client = "orchestrate" => OrchestrateInv
  /\ client = "dns" => DnsInv
  /\ client = "web_connectivity" => WebInv /\ WebJudged
  /\ client = "facebook_messenger" => FacebookInv /\ FacebookSeen
  /\ client = "whatsapp" => WhatsappInv /\ WhatsappSeen
  /\ client = "http_invalid_request_line" => LineInv /\ LineTold
  /\ client = "parallel" => VectorInv

LEMMA InitIInv == Init => IInv
<1>. SUFFICES ASSUME Init
              PROVE  IInv
  OBVIOUS
<1>1. NdtInv /\ CollectorInv /\ OrchestrateInv /\ LineInv
  BY NdtInit, CollectorInit, OrchestrateInit, LineInit DEF Init
<1>2. MultiInv /\ DashInv /\ DnsInv /\ WebInv /\ FacebookInv /\ WhatsappInv
  BY DEF Init, M!Init, D!Init, Q!Init, W!Init, F!Init, P!Init,
    MultiInv, DashInv, DnsInv, WebInv, FacebookInv, WhatsappInv
<1>3. NdtRecorded /\ MultiChosen /\ WebJudged /\ FacebookSeen /\ WhatsappSeen /\ LineTold
  BY RecordedInit, ChosenInit, JudgedInit, SeenInit, EndpointsInit, ToldInit DEF Init
<1>4. DashMeasured
  BY MeasuredInit DEF Init
<1>. QED
  BY <1>1, <1>2, <1>3, <1>4, VectorInit DEF IInv

\* The steps are those of the client that runs.
LEMMA ClientSteps ==
  ASSUME [Next]_vars
  PROVE  /\ client' = client
         /\ client = "ndt" => [N!Next]_(N!vars)
         /\ client = "multi_ndt" => [M!Next]_(M!vars)
         /\ client = "dash" => [D!Next]_(D!vars)
         /\ client = "collector" => [C!Next]_(C!vars)
         /\ client = "orchestrate" => [O!Next]_(O!vars)
         /\ client = "dns" => [Q!Next]_(Q!vars)
         /\ client = "web_connectivity" => [W!Next]_(W!vars)
         /\ client = "facebook_messenger" => [F!Next]_(F!vars)
         /\ client = "whatsapp" => [P!Next]_(P!vars)
         /\ client = "http_invalid_request_line" => [I!Next]_(I!vars)
<1>1. CASE Next
  BY <1>1 DEF Next
<1>2. CASE UNCHANGED vars
  <2>1. UNCHANGED N!vars /\ UNCHANGED M!vars /\ UNCHANGED D!vars
    BY <1>2 DEF vars, ndt, multi_ndt, dash, N!vars, N!flow, N!record, M!vars, D!vars, D!test
  <2>2. UNCHANGED C!vars /\ UNCHANGED O!vars /\ UNCHANGED Q!vars
    BY <1>2 DEF vars, collector, orchestrate, dns, C!vars, C!file, C!collector,
      O!vars, O!auth, O!service, Q!vars
  <2>3. UNCHANGED W!vars /\ UNCHANGED F!vars
    BY <1>2 DEF vars, web, services, facebook, W!vars, F!vars
  <2>4. UNCHANGED P!vars /\ UNCHANGED I!vars
    BY <1>2 DEF vars, services, whatsapp, request_lines, P!vars, I!vars
  <2>. QED
    BY <1>2, <2>1, <2>2, <2>3, <2>4 DEF vars
<1>. QED
  BY <1>1, <1>2

LEMMA NextIInv == IInv /\ [Next]_vars => IInv'
<1>. SUFFICES ASSUME IInv, [Next]_vars
              PROVE  IInv'
  OBVIOUS
<1>1. client' = client
  BY ClientSteps
<1>2. /\ client = "ndt" => NdtInv'
      /\ client = "multi_ndt" => MultiInv'
      /\ client = "dash" => DashInv'
  BY ClientSteps, NdtStep, MultiStep, DashStep DEF IInv
<1>3. /\ client = "collector" => CollectorInv'
      /\ client = "orchestrate" => OrchestrateInv'
      /\ client = "dns" => DnsInv'
  BY ClientSteps, CollectorStep, OrchestrateStep, DnsStep DEF IInv
<1>4. /\ client = "web_connectivity" => WebInv'
      /\ client = "facebook_messenger" => FacebookInv'
      /\ client = "whatsapp" => WhatsappInv'
      /\ client = "http_invalid_request_line" => LineInv'
  BY ClientSteps, WebStep, FacebookStep, WhatsappStep, LineStep DEF IInv
<1>5. client = "parallel" => VectorInv'
  BY VectorInvStep DEF IInv
<1>6. /\ client = "ndt" => NdtRecorded'
      /\ client = "multi_ndt" => MultiChosen'
      /\ client = "web_connectivity" => WebJudged'
  BY ClientSteps, RecordedStep, ChosenStep, JudgedStep DEF IInv
<1>7. /\ client = "facebook_messenger" => FacebookSeen'
      /\ client = "whatsapp" => WhatsappSeen'
      /\ client = "http_invalid_request_line" => LineTold'
  BY ClientSteps, SeenStep, EndpointsStep, ToldStep DEF IInv
<1>8. client = "dash" => DashMeasured'
  BY ClientSteps, MeasuredStep DEF IInv
<1>. QED
  BY <1>1, <1>2, <1>3, <1>4, <1>5, <1>6, <1>7, <1>8 DEF IInv

LEMMA KeepsSession ==
  Keeps(open, Adrift, Calls, open', Adrift', Calls', Late) /\ Late' = Late => [S!Next]_(S!vars)
BY DEF Keeps, S!Next, S!Work, S!CallBack, S!Fade, S!Again, S!Settled, S!vars

LEMMA SessionStep == IInv /\ [Next]_vars => [S!Next]_(S!vars)
<1>. SUFFICES ASSUME IInv, [Next]_vars
              PROVE  /\ Keeps(open, Adrift, Calls, open', Adrift', Calls', Late)
                     /\ Late' = Late
  BY KeepsSession
<1>0. client' = client
  BY ClientSteps
<1>. USE DEF Adrift, Late, Calls, Holds
<1>1. CASE client = "ndt"
  <2>1. Keeps(open, leaked, calls, open', leaked', calls', 0)
    BY <1>1, ClientSteps, NdtSession DEF IInv
  <2>. QED
    BY <1>0, <1>1, <2>1
<1>2. CASE client = "multi_ndt"
  <2>1. Holds(open, calls, open', calls')
    BY <1>2, ClientSteps, MultiStep DEF IInv
  <2>. QED
    BY <1>0, <1>2, <2>1
<1>3. CASE client = "dash"
  <2>1. Holds(open, calls, open', calls')
    BY <1>3, ClientSteps, DashStep DEF IInv
  <2>. QED
    BY <1>0, <1>3, <2>1
<1>4. CASE client = "collector"
  <2>1. Holds(open, calls, open', calls')
    BY <1>4, ClientSteps, CollectorSession DEF IInv
  <2>. QED
    BY <1>0, <1>4, <2>1
<1>5. CASE client = "orchestrate"
  <2>1. Holds(open, calls, open', calls')
    BY <1>5, ClientSteps, OrchestrateSession DEF IInv
  <2>. QED
    BY <1>0, <1>5, <2>1
<1>6. CASE client = "dns"
  <2>1. Holds(open, calls, open', calls')
    BY <1>6, ClientSteps, DnsSession DEF IInv
  <2>. QED
    BY <1>0, <1>6, <2>1
<1>7. CASE client = "web_connectivity"
  <2>1. Keeps(open, unawaited, calls, open', unawaited', calls', 0)
    BY <1>7, ClientSteps, WebStep DEF IInv
  <2>. QED
    BY <1>0, <1>7, <2>1
<1>8. CASE client = "facebook_messenger"
  <2>1. Keeps(open, unawaited, calls, open', unawaited', calls', 0)
    BY <1>8, ClientSteps, FacebookStep DEF IInv
  <2>. QED
    BY <1>0, <1>8, <2>1
<1>9. CASE client = "whatsapp"
  <2>1. Keeps(open, open, calls, open', open', calls', 0)
    BY <1>9, ClientSteps, WhatsappStep DEF IInv
  <2>. QED
    BY <1>0, <1>9, <2>1
<1>10. CASE client = "http_invalid_request_line"
  <2>1. Keeps(open, 0, calls, open', 0, calls', 1)
    BY <1>10, ClientSteps, LineSession DEF IInv
  <2>. QED
    BY <1>0, <1>10, <2>1 DEF I!Requests, I!Counted
<1>11. CASE client = "parallel"
  <2>1. Holds(open, Len(cb), open', Len(cb'))
    BY <1>11, VectorInvStep, VectorSession DEF IInv
  <2>. QED
    BY <1>0, <1>11, <2>1
<1>12. CASE UNCHANGED vars
  BY <1>12 DEF vars, ndt, parallel, Keeps
<1>. QED
  BY <1>1, <1>2, <1>3, <1>4, <1>5, <1>6, <1>7, <1>8, <1>9, <1>10, <1>11, <1>12 DEF Next

-----------------------------------------------------------------------------
\* What each client has connected, read, stored, registered or freed is known from the
\* step that it is at, with any server and in any order of the answers.
THEOREM ClientsInvariant == FairSpec => []IInv
BY InitIInv, NextIInv, PTL DEF FairSpec

\* ClientsAreSessions: every client implements Session.  It calls back once each time that
\* it is started, and what it holds then is what its code let go of, without closing it or
\* without waiting for that, and the one request that is not waited for, if any (the callbacks of ndt/run_impl.hpp,
\* neubot/dash_impl.hpp, ooni/collector_client_impl.hpp, ooni/orchestrate_impl.hpp,
\* dns/libevent_query.hpp, common/parallel.hpp and of the tests under ooni/).
THEOREM ClientsImplementSession == FairSpec => ClientsAreSessions
<1>1. Init => S!Init
  BY DEF Init, N!Init, L!Init, S!Init, Adrift, Late, Calls, I!Requests, I!Counted
<1>2. IInv /\ [Next]_vars => [S!Next]_(S!vars)
  BY SessionStep
<1>3. FairSpec => []IInv
  BY ClientsInvariant
<1>. QED
  BY <1>1, <1>2, <1>3, PTL DEF FairSpec, ClientsAreSessions, S!Spec

\* FlowsAreTogether of Ndt: the flows of a test end before it speaks to the server again
\* (ndt/test_s2c_impl.hpp, ndt/test_c2s_impl.hpp).
THEOREM MeasurementsJoinFlows == FairSpec => []FlowsAreTogether
<1>1. IInv => FlowsAreTogether
  BY DEF IInv, NdtInv, NdtNumbers, NdtConnections, NdtCounters, NdtQuiet, FlowsAreTogether,
    N!FlowsAreTogether
<1>. QED
  BY <1>1, ClientsInvariant, PTL

\* NdtRecords of Ndt: the record has an entry for each download that succeeded and for each
\* upload of which at most the last message failed, and no more connections are leaked than
\* the tests that failed before their flows started had made (ndt/run_impl.hpp,
\* ndt/test_s2c_impl.hpp, ndt/test_c2s_impl.hpp).
THEOREM NdtResultsRecorded == FairSpec => []NdtRecords
<1>1. IInv => NdtRecords
  BY DEF IInv, NdtRecorded, NdtRecords
<1>. QED
  BY <1>1, ClientsInvariant, PTL

\* DashRight of Dash: with a fixed rate a segment has the highest rate of the table below
\* the speed and the size that goes with it, whatever was measured, and the delay that
\* is told is the least with which no segment comes late (select_lower_rate_index() and
\* the computation of min_playout_delay in neubot/dash_impl.hpp).
THEOREM SegmentsAndPlayoutRight == FairSpec => []DashRight
<1>1. IInv => DashRight
  BY DEF IInv, DashMeasured, DashRight, D!DashRight
<1>. QED
  BY <1>1, ClientsInvariant, PTL

\* VerdictSound: what the tests conclude is what the network showed them, as far as each of
\* them says: the order of the answers decides the flag of a socket after one that the
\* control does not know, a flag and a host when all attempts are refused at once, and which
\* four of five answers count (nettests/runnable.cpp of multi_ndt, ooni/web_connectivity.cpp,
\* ooni/facebook_messenger.cpp, ooni/whatsapp.cpp, ooni/http_invalid_request_line.cpp).
THEOREM VerdictsAreSound == FairSpec => []VerdictSound
<1>1. IInv => VerdictSound
  <2>. SUFFICES ASSUME IInv
                PROVE  VerdictSound
    OBVIOUS
  <2>1. client = "multi_ndt" => M!FastestSelected
    BY ChosenIsFastest DEF IInv
  <2>2. client = "web_connectivity" => W!VerdictSound
    BY JudgedIsSound DEF IInv
  <2>3. client = "facebook_messenger" => F!VerdictSound
    BY SeenIsSound DEF IInv
  <2>4. client = "whatsapp" => P!VerdictSound
    BY EndpointsAreSound DEF IInv
  <2>5. client = "http_invalid_request_line" => I!VerdictSound
    BY ToldIsSound DEF IInv
  <2>. QED
    BY <2>1, <2>2, <2>3, <2>4, <2>5 DEF VerdictSound
<1>. QED
  BY <1>1, ClientsInvariant, PTL

\* ReportAccounted of Collector: what became of the lines of a file that is resubmitted
\* (ooni/collector_client_impl.hpp).
THEOREM SubmissionsAccountForLines == FairSpec => []ReportAccounted
<1>1. IInv => ReportAccounted
  BY DEF IInv, CollectorInv, LinesStored, Numbered, ReportOpen, ReportAccounted, C!ReportAccounted
<1>. QED
  BY <1>1, ClientsInvariant, PTL

\* BaseFreedOnce of DnsQuery: each evdns base is freed once, and not while it is in use,
\* unless an exception left the callback of libevent before the delete
\* (dns/libevent_query.hpp).
THEOREM QueriesFreeTheirBase == FairSpec => []BaseFreedOnce
<1>1. IInv => BaseFreedOnce
  BY DEF IInv, DnsInv, BaseFreedOnce, Q!BaseFreedOnce
<1>. QED
  BY <1>1, ClientsInvariant, PTL

\* CredentialsSound of Orchestrate: the token that an update goes out with, unless the last
\* login was answered without one or with an empty one, and the user name that survives it
\* (ooni/orchestrate_impl.hpp).
THEOREM OperationsKeepCredentials == FairSpec => CredentialsSound
<1>1. IInv /\ [Next]_vars => [client = "orchestrate" => O!SoundStep]_vars
  <2>. SUFFICES ASSUME IInv, Next, client = "orchestrate"
                PROVE  O!SoundStep
    OBVIOUS
  <2>1. O!Next /\ OrchestrateInv
    BY DEF Next, IInv
  <2>. QED
    BY <2>1, StepSound
<1>. QED
  BY <1>1, ClientsInvariant, PTL DEF FairSpec, CredentialsSound

\* CallbackIsLast of Parallel: the callback comes once, when all the operations have
\* completed, with an error if one of them failed (common/parallel.hpp).
THEOREM VectorsCallBackLast == FairSpec => []CallbackIsLast
<1>1. Init /\ client = "parallel" => LP!Init
  BY DEF Init, L!Init, L!NoOp, LP!Init, LP!NoOp
<1>2. client = "parallel" /\ [Next]_vars => [LP!Next]_(LP!vars)
  BY VectorStep
<1>3. client = "parallel" /\ [Next]_vars => (client = "parallel")'
  BY ClientSteps
<1>4. ~(client = "parallel") /\ [Next]_vars => ~(client = "parallel")'
  BY ClientSteps
<1>5. LP!Spec => []LP!CallbackIsLast
  BY ClientsAssumption, LP!CallbackOnceAtTheEnd
<1>6. client = "parallel" /\ LP!CallbackIsLast => CallbackIsLast
  BY DEF CallbackIsLast, L!CallbackIsLast, LP!CallbackIsLast, L!Op, LP!Op, L!Completed,
    LP!Completed, L!Failed, LP!Failed
<1>7. ~(client = "parallel") => CallbackIsLast
  BY DEF CallbackIsLast
<1>. QED
  BY <1>1, <1>2, <1>3, <1>4, <1>5, <1>6, <1>7, PTL DEF FairSpec, LP!Spec

\* WidthRespected of Parallel: no more operations are in flight than the caller allows
\* (common/parallel.hpp).
THEOREM VectorsRespectLimits == FairSpec => []WidthRespected
<1>1. Init /\ client = "parallel" => LP!Init
  BY DEF Init, L!Init, L!NoOp, LP!Init, LP!NoOp
<1>2. client = "parallel" /\ [Next]_vars => [LP!Next]_(LP!vars)
  BY VectorStep
<1>3. client = "parallel" /\ [Next]_vars => (client = "parallel")'
  BY ClientSteps
<1>4. ~(client = "parallel") /\ [Next]_vars => ~(client = "parallel")'
  BY ClientSteps
<1>5. LP!Spec => []LP!WidthRespected
  BY ClientsAssumption, LP!LimitRespected
<1>6. client = "parallel" /\ LP!WidthRespected => WidthRespected
  BY DEF WidthRespected, L!WidthRespected, LP!WidthRespected, L!Stride, LP!Stride,
    L!Cardinality, LP!Cardinality
<1>7. ~(client = "parallel") => WidthRespected
  BY DEF WidthRespected
<1>. QED
  BY <1>1, <1>2, <1>3, <1>4, <1>5, <1>6, <1>7, PTL DEF FairSpec, LP!Spec

-----------------------------------------------------------------------------
(***************************************************************************)
(* The types of each client: what IInv does not say of them is kept by     *)
(* the steps of a client that keep its part of IInv.                       *)
(***************************************************************************)
\* What the types of ndt lack of the above: its phases and the tests that are left.
NdtTyped ==
  /\ pc \in NdtQuiet \union {"start", "connect", "connecting", "begin", "flows", "done"}
  /\ chat \in BOOLEAN
  /\ granted \in Seq(N!Tests \union {"other"})

LEMMA SuiteLeft ==
  ASSUME NEW suite \in Seq(N!Tests \union {"other"}), N!RunTests(suite)
  PROVE  /\ pc' \in {"results", "prepare", "closing"}
         /\ granted' \in Seq(N!Tests \union {"other"})
<1>1. CASE suite = <<>>
  BY <1>1 DEF N!RunTests
<1>2. CASE suite # <<>>
  <2>1. Tail(suite) \in Seq(N!Tests \union {"other"})
    BY <1>2
  <2>. QED
    BY <1>2, <2>1 DEF N!RunTests, N!Disconnect
<1>. QED
  BY <1>1, <1>2

LEMMA NdtTypedStep ==
  NdtInv /\ NdtTyped /\ [N!Next]_(N!vars) => NdtTyped'
<1>. SUFFICES ASSUME NdtInv, NdtTyped, [N!Next]_(N!vars)
              PROVE  NdtTyped'
  OBVIOUS
<1>1. ASSUME NEW e, N!TestEnds(e)
      PROVE  NdtTyped'
  <2>1. N!RunTests(granted) /\ chat' = chat
    BY <1>1 DEF N!TestEnds
  <2>. QED
    BY <2>1, SuiteLeft DEF NdtTyped, NdtQuiet
<1>2. CASE N!StartFails \/ N!Start \/ N!ConnectFails \/ N!Connect \/ N!PhaseFails
  BY <1>2 DEF N!StartFails, N!Start, N!ConnectFails, N!Connect, N!PhaseFails, N!CallBack,
    N!Goto, N!Abort, N!Disconnect, N!flow, NdtTyped, NdtQuiet
<1>3. CASE N!LoggedIn \/ N!Kickoff \/ N!Authorized \/ N!Version \/ N!Written \/ N!After
  BY <1>3 DEF N!LoggedIn, N!Kickoff, N!Authorized, N!Version, N!Written, N!After, N!Logout,
    N!WaitClose, N!Closed, N!Goto, N!Abort, N!Disconnect, N!flow, NdtTyped, NdtQuiet
<1>4. CASE N!TestsId
  <2>1. PICK n \in 0..MaxTests :
          \E suite \in [1..n -> N!Tests \union {"other"}] : N!RunTests(suite)
    BY <1>4 DEF N!TestsId
  <2>. PICK suite \in [1..n -> N!Tests \union {"other"}] : N!RunTests(suite)
    BY <2>1
  <2>2. suite \in Seq(N!Tests \union {"other"})
    BY ClientsAssumption
  <2>. QED
    BY <1>4, <2>1, <2>2, SuiteLeft DEF N!TestsId, N!flow, NdtTyped, NdtQuiet
<1>5. CASE N!PrepareFails \/ N!ConnectTestFails \/ N!BeginFails \/ N!FlowsFail
  BY <1>1, <1>5 DEF N!PrepareFails, N!ConnectTestFails, N!BeginFails, N!FlowsFail, N!TestFails
<1>6. CASE N!SpeedFails \/ N!WriteFails \/ N!FinalFails \/ N!Finalize
  BY <1>1, <1>6 DEF N!SpeedFails, N!WriteFails, N!FinalFails, N!Finalize, N!Finish
<1>7. CASE N!Prepare
  BY <1>7 DEF N!Prepare, NdtTyped
<1>8. CASE N!ConnectTest \/ N!Begin \/ N!FlowEnds \/ N!FlowClosed \/ N!Speed
  BY <1>8 DEF N!ConnectTest, N!Begin, N!FlowEnds, N!FlowClosed, N!Speed, N!flow, NdtTyped, NdtQuiet
<1>9. CASE N!Talk
  BY <1>9 DEF N!Talk, N!StayInQueue, N!Data, N!Web100, N!MoreResults, N!GoesOn, N!flow, NdtTyped
<1>10. CASE UNCHANGED N!vars
  BY <1>10 DEF N!vars, N!flow, NdtTyped
<1>. QED
  BY <1>2, <1>3, <1>4, <1>5, <1>6, <1>7, <1>8, <1>9, <1>10
     DEF N!Next, N!Before, N!InTest

LEMMA NdtTypes == NdtInv /\ NdtRecorded /\ NdtTyped => N!TypeOK
<1>. SUFFICES ASSUME NdtInv, NdtRecorded, NdtTyped
              PROVE  N!TypeOK
  OBVIOUS
<1>1. /\ streams \in Nat /\ left \in 0..streams /\ up \in 0..streams
      /\ completed \in 0..(streams - up) /\ leaked \in Nat /\ streams <= MaxStreams
  BY DEF NdtInv, NdtNumbers
<1>2. open \in Nat /\ calls \in 0..1
  BY <1>1 DEF NdtInv, NdtConnections, NdtTyped
<1>. QED
  BY <1>1, <1>2, ClientsAssumption DEF NdtRecorded, NdtTyped, N!TypeOK

\* The test that multi_ndt selects.
MultiTyped == selected \in {"single", "multi", "null"}

LEMMA MultiTypedStep == MultiTyped /\ [M!Next]_(M!vars) => MultiTyped'
<1>1. \A one, many : M!Select(one, many) \in {"single", "multi", "null"}
  BY DEF M!Select
<1>. QED
  BY <1>1 DEF MultiTyped, M!Next, M!RunSingle, M!RunMulti, M!Complete, M!vars

\* The lines of the file that collector reads.
CollectorTyped ==
  /\ Len(lines) <= MaxLines /\ Len(stored) <= line
  /\ report \in {"none", "open", "closed"}

LEMMA CollectorTypedStep == CollectorInv /\ CollectorTyped /\ [C!Next]_(C!vars) => CollectorTyped'
<1>. SUFFICES ASSUME CollectorInv, CollectorTyped, [C!Next]_(C!vars)
              PROVE  CollectorTyped'
  OBVIOUS
<1>0. line \in Nat /\ stored \in Seq(Nat) /\ Len(stored) \in Nat /\ Len(stored) <= line
  BY DEF CollectorInv, CollectorTypes, CollectorTyped
<1>1. CASE C!OpenFile
  <2>1. PICK n \in 0..MaxLines : lines' \in [1..n -> C!Kinds]
    BY <1>1 DEF C!OpenFile
  <2>2. n \in Nat /\ n <= MaxLines
    BY <2>1, ClientsAssumption
  <2>3. Len(lines') = n
    BY <2>1, <2>2
  <2>. QED
    BY <1>1, <2>2, <2>3 DEF C!OpenFile, C!collector, CollectorTyped
<1>2. CASE C!OpenFails \/ C!FirstFails \/ C!ConnectFails \/ C!Connect \/ C!CreateFails \/ C!Create
  BY <1>2 DEF C!OpenFails, C!FirstFails, C!ConnectFails, C!Connect, C!CreateFails, C!Create,
    C!CallBack, C!Close, C!file, C!collector, CollectorTyped
<1>3. CASE C!UpdateFails \/ C!Update
  <2>1. Len(stored) = line - 1 /\ (stored' = Append(stored, line) \/ stored' = stored)
    BY <1>3 DEF C!UpdateFails, C!Update, C!Store, CollectorInv, LinesStored
  <2>2. Len(stored') <= line
    BY <1>0, <2>1
  <2>. QED
    BY <1>3, <2>2 DEF C!UpdateFails, C!Update, C!file, CollectorTyped
<1>4. CASE C!ReadFirst \/ C!ReadNext
  <2>1. line' \in Nat /\ line <= line'
    BY <1>0, <1>4 DEF C!ReadFirst, C!ReadNext, CollectorInv, LinesRead
  <2>2. Len(stored) <= line'
    BY <1>0, <2>1
  <2>. QED
    BY <1>4, <2>2 DEF C!ReadFirst, C!ReadNext, C!file, C!collector, CollectorTyped
<1>5. CASE C!ReadFails \/ C!ReadEof \/ C!CloseReport \/ C!Closed \/ UNCHANGED C!vars
  BY <1>5 DEF C!ReadFails, C!ReadEof, C!CloseReport, C!Closed, C!Close, C!CallBack, C!vars,
    C!file, C!collector, CollectorTyped
<1>. QED
  BY <1>1, <1>2, <1>3, <1>4, <1>5 DEF C!Next

LEMMA CollectorTypesOK == CollectorInv /\ CollectorTyped => C!TypeOK
<1>. SUFFICES ASSUME CollectorInv, CollectorTyped
              PROVE  C!TypeOK
  OBVIOUS
<1>1. /\ lines \in Seq(C!Kinds) /\ Len(lines) \in Nat /\ torn \in BOOLEAN
      /\ torn => Len(lines) > 0
      /\ line \in Nat /\ stored \in Seq(Nat)
  BY DEF CollectorInv, CollectorTypes
<1>2. line <= C!Complete \/ line = 0
  BY DEF CollectorInv, LinesRead
<1>3. line \in 0..Len(lines)
  BY <1>1, <1>2 DEF C!Complete
<1>4. stored \in Seq(1..MaxLines)
  <2>1. Len(stored) \in Nat /\ Len(stored) <= MaxLines /\ MaxLines \in Nat
    BY <1>1, <1>3, ClientsAssumption DEF CollectorTyped
  <2>2. stored = [i \in 1..Len(stored) |-> i]
    BY Zenon DEF CollectorInv, LinesStored, Numbered
  <2>3. \A i \in 1..Len(stored) : i \in 1..MaxLines
    BY <2>1
  <2>4. [i \in 1..Len(stored) |-> i] \in [1..Len(stored) -> 1..MaxLines]
    BY <2>3
  <2>5. stored \in [1..Len(stored) -> 1..MaxLines]
    BY <2>2, <2>4, Zenon
  <2>. QED
    BY <2>1, <2>5
<1>5. open \in 0..1 /\ calls \in 0..1
  BY DEF CollectorInv, ReportOpen
<1>. QED
  BY <1>1, <1>3, <1>4, <1>5 DEF CollectorTyped, C!TypeOK

\* How far the operations of orchestrate and their clock go.
OrchestrateTyped ==
  /\ ops \in 0..MaxOps /\ now \in 0..MaxTime
  /\ pc = "start" => ops < MaxOps
  /\ issued \in Seq(Nat)
  /\ username \in BOOLEAN /\ password \in BOOLEAN
  /\ logged_in \in BOOLEAN /\ cut \in BOOLEAN

LEMMA OrchestrateTypedStep == OrchestrateTyped /\ [O!Next]_(O!vars) => OrchestrateTyped'
<1>. SUFFICES ASSUME OrchestrateTyped, [O!Next]_(O!vars)
              PROVE  OrchestrateTyped'
  OBVIOUS
<1>0. MaxOps \in Nat \ {0} /\ MaxTime \in Nat /\ Lifetime \in Nat
  BY ClientsAssumption
<1>1. CASE O!Begin
  <2>1. /\ ops' \in 0..MaxOps /\ now' = now /\ pc' # "start"
        /\ issued' = issued /\ cut' = cut
    BY <1>0, <1>1 DEF O!Begin, O!service, OrchestrateTyped
  <2>2. username' \in BOOLEAN /\ password' \in BOOLEAN /\ logged_in' \in BOOLEAN
    BY <1>1, Zenon DEF O!Begin, O!Forget, O!auth, OrchestrateTyped
  <2>. QED
    BY <2>1, <2>2 DEF OrchestrateTyped
<1>7. CASE O!Again \/ O!Tick
  BY <1>0, <1>7 DEF O!Again, O!Tick, O!auth, O!service, OrchestrateTyped
<1>2. CASE O!LocateFails \/ O!Located \/ O!RegisterRefused \/ O!Register \/ O!RegisterFails
  BY <1>2 DEF O!LocateFails, O!Located, O!RegisterRefused, O!Register, O!RegisterFails,
    O!CallBack, O!Goto, O!auth, O!service, OrchestrateTyped
<1>3. CASE O!Registered \/ O!TokenValid \/ O!NoCredentials \/ O!Login \/ O!LoginFails
  BY <1>3 DEF O!Registered, O!TokenValid, O!NoCredentials, O!Login, O!LoginFails,
    O!CallBack, O!Goto, O!auth, O!service, OrchestrateTyped
<1>4. CASE O!LoginCut \/ O!Put
  BY <1>4 DEF O!LoginCut, O!Put, O!CallBack, O!auth, O!service, OrchestrateTyped
<1>5. CASE O!LoggedIn
  <2>1. now + Lifetime \in Nat
    BY <1>0 DEF OrchestrateTyped
  <2>2. issued' \in Seq(Nat)
    BY <1>5, <2>1 DEF O!LoggedIn, OrchestrateTyped
  <2>. QED
    BY <1>5, <2>2 DEF O!LoggedIn, O!Goto, OrchestrateTyped
<1>6. CASE UNCHANGED O!vars
  BY <1>6 DEF O!vars, O!auth, O!service, OrchestrateTyped
<1>. QED
  BY <1>1, <1>2, <1>3, <1>4, <1>5, <1>6, <1>7 DEF O!Next

\* What dns asks for, and that a query has one base.
DnsTyped == bases <= 1 /\ type \in Q!Types \union {"PTR", "other"}

LEMMA DnsTypedStep == DnsInv /\ DnsTyped /\ [Q!Next]_(Q!vars) => DnsTyped'
<1>. SUFFICES ASSUME DnsInv, DnsTyped, [Q!Next]_(Q!vars)
              PROVE  DnsTyped'
  OBVIOUS
<1>1. CASE Q!NotPossible \/ Q!CreateFails \/ Q!Create
  BY <1>1 DEF Q!NotPossible, Q!CreateFails, Q!Create, Q!CallBack, DnsInv, DnsTyped
<1>2. CASE Q!WrongClass \/ Q!WrongType \/ Q!WrongName \/ Q!WrongAddress \/ Q!Unreversed
  BY <1>2 DEF Q!WrongClass, Q!WrongType, Q!WrongName, Q!WrongAddress, Q!Unreversed,
    Q!GiveUp, Q!Types, DnsTyped
<1>3. CASE Q!Refused \/ Q!Asked \/ Q!Answered \/ Q!Thrown \/ Q!Delete \/ UNCHANGED Q!vars
  BY <1>3 DEF Q!Refused, Q!Asked, Q!Answered, Q!Thrown, Q!Delete, Q!vars, DnsTyped
<1>. QED
  BY <1>1, <1>2, <1>3 DEF Q!Next

\* What web_connectivity resolved and fetched.
WebTyped == addresses \subseteq W!Addresses /\ fetched.page \in Pages \union {W!NoPage}

LEMMA WebTypedStep == WebTyped /\ [W!Next]_(W!vars) => WebTyped'
<1>. SUFFICES ASSUME WebTyped, [W!Next]_(W!vars)
              PROVE  WebTyped'
  OBVIOUS
<1>1. CASE W!Resolved
  BY <1>1 DEF W!Resolved, WebTyped
<1>2. CASE W!Fetched \/ W!NotFetched
  BY <1>2 DEF W!Fetched, W!NotFetched, WebTyped
<1>3. CASE W!InvalidUrl \/ W!Connected \/ W!NotConnected \/ W!TcpClosed \/ W!Released
  BY <1>3 DEF W!InvalidUrl, W!Connected, W!NotConnected, W!TcpClosed, W!Released, WebTyped
<1>4. CASE W!NoAnswer \/ W!Answer \/ W!Misshapen \/ UNCHANGED W!vars
  BY <1>4 DEF W!NoAnswer, W!Answer, W!Misshapen, W!vars, WebTyped
<1>. QED
  BY <1>1, <1>2, <1>3, <1>4 DEF W!Next

LEMMA WebTypes == WebInv /\ WebJudged /\ WebTyped => W!TypeOK
<1>. SUFFICES ASSUME WebInv, WebJudged, WebTyped
              PROVE  W!TypeOK
  OBVIOUS
<1>. DEFINE All == [ip : W!Addresses, success : BOOLEAN, blocked : {"null", "false", "true"}]
<1>1. tcp \in Seq(Sockets) /\ addresses \subseteq W!Addresses
  BY DEF WebJudged, WebTyped
<1>2. \A s \in Sockets : s \in All
  BY <1>1 DEF Sockets
<1>3. tcp \in Seq(All)
  <2>. HIDE DEF All
  <2>1. \A i \in 1..Len(tcp) : tcp[i] \in All
    BY <1>1, <1>2
  <2>. QED
    BY <1>1, <2>1
<1>. QED
  BY <1>3 DEF WebInv, WebTyped, W!TypeOK

\* The keys that facebook_messenger has set, and the attempts.
FacebookTyped ==
  /\ asked \subseteq F!Names
  /\ DOMAIN consistent \subseteq F!Names /\ DOMAIN reachable \in {{}, F!Tcp}
  /\ DOMAIN blocking \subseteq {"dns", "tcp"}
  /\ pc # "start" => reached \union trying \subseteq F!Attempts

LEMMA FacebookTypedStep ==
  FacebookInv /\ FacebookSeen /\ FacebookTyped /\ [F!Next]_(F!vars) => FacebookTyped'
<1>. SUFFICES ASSUME FacebookInv, FacebookSeen, FacebookTyped, [F!Next]_(F!vars)
              PROVE  FacebookTyped'
  OBVIOUS
<1>1. CASE F!Start
  BY <1>1 DEF F!Start, F!flags, FacebookSeen, FacebookTyped
<1>2. ASSUME F!Answer
      PROVE  /\ pc = "dns" /\ asked' \subseteq F!Names
             /\ reached = {} /\ reached' = {} /\ trying = {}
  BY <1>2 DEF F!Answer, FacebookSeen, FacebookTyped
<1>3. CASE F!Resolved \/ F!NothingResolved
  <2>1. /\ asked' \subseteq F!Names /\ reached' \union trying' = {}
        /\ UNCHANGED <<consistent, reachable, blocking>>
    BY <1>2, <1>3 DEF F!Resolved, F!NothingResolved, F!flags
  <2>. QED
    BY <2>1 DEF FacebookTyped
<1>4. CASE F!Attempt
  <2>1. asked' \subseteq F!Names /\ reached' = {} /\ trying' \subseteq F!Attempts'
    BY <1>2, <1>4 DEF F!Attempt
  <2>2. /\ DOMAIN consistent' = F!Names /\ DOMAIN reachable' = F!Tcp
        /\ DOMAIN blocking' = {"dns"}
    BY <1>4 DEF F!Attempt
  <2>. QED
    BY <2>1, <2>2 DEF FacebookTyped
<1>5. CASE F!AllRefused
  <2>1. asked' \subseteq F!Names /\ reached' \union trying' = {}
    BY <1>2, <1>5 DEF F!AllRefused
  <2>2. PICK last \in DOMAIN Services :
          /\ consistent' = [s \in {Services[k] : k \in 1..last} |-> F!Ours(s)']
          /\ reachable' = [s \in F!Tcp |-> FALSE]
          /\ \/ blocking' = blocking
             \/ blocking' = [key \in {"tcp"} |-> F!TcpBlocking(consistent', reachable')]
    BY <1>5 DEF F!AllRefused
  <2>3. \A k \in 1..last : Services[k] \in F!Names
    BY DEF Services, F!Names, F!Tcp, F!Range
  <2>4. DOMAIN consistent' \subseteq F!Names /\ DOMAIN reachable' = F!Tcp
    BY <2>2, <2>3
  <2>5. DOMAIN blocking' \subseteq {"dns", "tcp"}
    BY <2>2 DEF FacebookTyped
  <2>. QED
    BY <2>1, <2>4, <2>5 DEF FacebookTyped
<1>6. ASSUME F!Conclude \/ blocking' = blocking
      PROVE  DOMAIN blocking' \subseteq {"dns", "tcp"}
  BY <1>6 DEF F!Conclude, FacebookTyped
<1>7. CASE F!Connected
  <2>1. PICK a \in trying :
          trying' = trying \ {a} /\ reached' = reached \union {a} /\ F!Reaches(a)
    BY <1>7 DEF F!Connected
  <2>2. DOMAIN reachable' = DOMAIN reachable
    BY <2>1 DEF F!Reaches
  <2>3. DOMAIN blocking' \subseteq {"dns", "tcp"}
    BY <1>6, <1>7 DEF F!Connected
  <2>4. pc = "tcp" /\ UNCHANGED <<asked, ips, consistent>> /\ F!Attempts' = F!Attempts
    BY <1>7 DEF F!Connected, F!dns, F!Attempts
  <2>. QED
    BY <2>1, <2>2, <2>3, <2>4 DEF FacebookTyped
<1>8. CASE F!NotConnected
  <2>1. pc = "tcp" /\ trying' \subseteq trying /\ F!Attempts' = F!Attempts
        /\ UNCHANGED <<asked, reached, consistent, reachable>>
    BY <1>8 DEF F!NotConnected, F!dns, F!Attempts
  <2>2. DOMAIN blocking' \subseteq {"dns", "tcp"}
    BY <1>6, <1>8 DEF F!NotConnected
  <2>. QED
    BY <2>1, <2>2 DEF FacebookTyped
<1>9. CASE F!Closed \/ F!Released \/ UNCHANGED F!vars
  <2>1. /\ UNCHANGED <<asked, ips, trying, reached, consistent, reachable, blocking>>
        /\ pc = "start" => pc' = "start"
    BY <1>9 DEF F!Closed, F!Released, F!dns, F!flags, F!vars
  <2>2. F!Attempts' = F!Attempts
    BY <2>1 DEF F!Attempts
  <2>. QED
    BY <2>1, <2>2 DEF FacebookTyped
<1>. QED
  BY <1>1, <1>3, <1>4, <1>5, <1>7, <1>8, <1>9 DEF F!Next

\* The names and the attempts of whatsapp, and what it says of them.
WhatsappTyped ==
  /\ DOMAIN ips \subseteq P!Range(Hosts)
  /\ pc = "dns" => asked \subseteq P!Range(Hosts)
  /\ pc \notin {"tcp", "done"} => trying = {} /\ endpoints = P!Unset
  /\ reached \union trying \subseteq P!Attempts
  /\ servers \in [DOMAIN P!Pages -> {"unset", "ok", "blocked"}]
  /\ endpoints.blocked \union endpoints.inconsistent \subseteq DOMAIN ips

LEMMA WhatsappTypedStep ==
  WhatsappInv /\ WhatsappSeen /\ WhatsappTyped /\ [P!Next]_(P!vars) => WhatsappTyped'
<1>. SUFFICES ASSUME WhatsappInv, WhatsappSeen, WhatsappTyped, [P!Next]_(P!vars)
              PROVE  WhatsappTyped'
  OBVIOUS
<1>0. DOMAIN P!Pages = {"registration_server", "whatsapp_web"}
  BY DEF P!Pages
<1>1. CASE P!Start \/ P!Requested
  <2>1. /\ pc \in {"start", "registration_server", "whatsapp_web"}
        /\ pc' \in {"registration_server", "whatsapp_web", "dns"}
        /\ UNCHANGED <<ips, trying, reached, endpoints>>
        /\ pc' = "dns" => asked' = P!Range(Hosts)
    BY <1>0, <1>1 DEF P!Start, P!Requested
  <2>2. servers' \in [DOMAIN P!Pages -> {"unset", "ok", "blocked"}]
    <3>1. CASE P!Start
      BY <1>0, <3>1 DEF P!Start, WhatsappTyped
    <3>2. CASE P!Requested
      <4>1. PICK status \in {servers[pc], "blocked"} :
              \/ servers' = [servers EXCEPT ![pc] = status]
              \/ servers' = [[servers EXCEPT ![pc] = status] EXCEPT !["whatsapp_web"] = "ok"]
        BY <3>2 DEF P!Requested
      <4>2. status \in {"unset", "ok", "blocked"}
        BY <3>2 DEF P!Requested, WhatsappTyped
      <4>. QED
        BY <1>0, <4>1, <4>2 DEF WhatsappTyped
    <3>. QED
      BY <1>1, <3>1, <3>2
  <2>3. P!Attempts' = P!Attempts
    BY <2>1 DEF P!Attempts
  <2>. QED
    BY <2>1, <2>2, <2>3 DEF WhatsappTyped
<1>2. ASSUME P!Answer
      PROVE  /\ pc = "dns" /\ DOMAIN ips' \subseteq P!Range(Hosts)
             /\ asked' \subseteq P!Range(Hosts) /\ servers' = servers
             /\ reached' = {} /\ trying = {} /\ endpoints = P!Unset
  <2>1. PICK h \in asked, answers \in P!BoundedSeq(BOOLEAN, MaxAnswers) :
          /\ asked' = asked \ {h}
          /\ ips' = [g \in DOMAIN ips \union {x \in {h} : answers # <<>>} |->
                       IF g = h THEN answers ELSE ips[g]]
    BY <1>2 DEF P!Answer
  <2>2. pc = "dns" /\ servers' = servers /\ reached' = {}
    BY <1>2, HostAnswered DEF P!Answer
  <2>3. DOMAIN ips' \subseteq DOMAIN ips \union {h}
    BY <2>1
  <2>. QED
    BY <2>1, <2>2, <2>3 DEF WhatsappTyped
<1>3. CASE P!Resolved
  <2>1. trying' = {} /\ endpoints' = P!Unset
    BY <1>2, <1>3 DEF P!Resolved
  <2>2. endpoints'.blocked \union endpoints'.inconsistent = {}
    BY <2>1 DEF P!Unset
  <2>. QED
    BY <1>2, <1>3, <2>1, <2>2 DEF P!Resolved, WhatsappTyped
<1>4. CASE P!NothingResolved
  <2>1. pc' = "done" /\ trying' = {} /\ endpoints'.blocked \union endpoints'.inconsistent = {}
    BY <1>2, <1>4 DEF P!NothingResolved, P!CallBack, P!Fresh, P!Unset
  <2>. QED
    BY <1>2, <1>4, <2>1 DEF P!NothingResolved, WhatsappTyped
<1>5. CASE P!Attempt
  <2>1. pc' = "tcp" /\ trying' \subseteq P!Attempts'
    BY <1>5 DEF P!Attempt
  <2>2. endpoints'.blocked = {} /\ endpoints'.inconsistent \subseteq DOMAIN ips'
    BY <1>5 DEF P!Attempt, P!Fresh, P!Unset
  <2>. QED
    BY <1>2, <1>5, <2>1, <2>2 DEF P!Attempt, WhatsappTyped
<1>6. CASE P!AllRefused
  <2>1. pc' = "done" /\ trying' = {}
    BY <1>2, <1>6 DEF P!AllRefused, P!CallBack
  <2>2. PICK last \in DOMAIN Hosts :
          LET blocked == {h \in DOMAIN ips' : P!Ours(h)' \/ h = Hosts[last]}
          IN  endpoints' = [P!Fresh EXCEPT !.hosts = blocked, !.blocked = blocked,
                                           !.inconsistent = DOMAIN ips' \ blocked]
    BY <1>6, Zenon DEF P!AllRefused
  <2>3. endpoints'.blocked \union endpoints'.inconsistent \subseteq DOMAIN ips'
    BY <2>2 DEF P!Fresh, P!Unset
  <2>. QED
    BY <1>2, <1>6, <2>1, <2>3 DEF P!AllRefused, WhatsappTyped
<1>7. CASE P!Connected \/ P!NotConnected
  <2>1. PICK a \in trying : P!EndsAttempt(a) /\ reached' \subseteq reached \union {a}
    BY <1>7 DEF P!Connected, P!NotConnected
  <2>2. /\ pc = "tcp" /\ pc' \in {"tcp", "done"} /\ trying' = trying \ {a}
        /\ UNCHANGED <<ips, servers>> /\ P!Attempts' = P!Attempts
    BY <2>1 DEF P!EndsAttempt, P!CallBack, P!Attempts
  <2>3. endpoints.hosts \subseteq DOMAIN ips
    BY <2>2 DEF WhatsappSeen, EndpointsLeft
  <2>4. /\ endpoints'.blocked \subseteq endpoints.blocked \union endpoints.hosts
        /\ endpoints'.inconsistent = endpoints.inconsistent
    <3>0. DOMAIN endpoints = {"status", "blocked", "inconsistent", "hosts"}
      BY DEF WhatsappSeen
    <3>1. CASE P!Connected
      <4>1. PICK b \in trying : P!Unblock(b)
        BY <3>1 DEF P!Connected
      <4>. DEFINE good == ips[b[1]][b[2]]
                  hosts == IF good THEN endpoints.hosts \ {b[1]} ELSE endpoints.hosts
                  status == IF good THEN "ok" ELSE endpoints.status
                  blocked == IF trying = {b} THEN hosts ELSE endpoints.blocked
      <4>2. endpoints' = [endpoints EXCEPT !.status = status, !.hosts = hosts,
                                           !.blocked = blocked]
        BY <4>1 DEF P!Unblock
      <4>3. hosts \subseteq endpoints.hosts
        OBVIOUS
      <4>. HIDE DEF status, hosts
      <4>. QED
        BY <3>0, <4>2, <4>3
    <3>2. CASE P!NotConnected
      <4>1. \/ endpoints' = endpoints
            \/ endpoints' = [endpoints EXCEPT !.blocked = endpoints.hosts]
        BY <3>2 DEF P!NotConnected
      <4>. QED
        BY <3>0, <4>1
    <3>. QED
      BY <1>7, <3>1, <3>2
  <2>. QED
    BY <2>1, <2>2, <2>3, <2>4 DEF WhatsappTyped
<1>8. CASE P!Released \/ UNCHANGED P!vars
  BY <1>8 DEF P!Released, P!vars, P!Attempts, WhatsappTyped
<1>. QED
  BY <1>1, <1>3, <1>4, <1>5, <1>6, <1>7, <1>8 DEF P!Next

\* What http_invalid_request_line says of the tampering.
LineTyped == tampering \in {"null", "false", "true"}

LEMMA LineTypedStep == LineTyped /\ [I!Next]_(I!vars) => LineTyped'
<1>. SUFFICES ASSUME LineTyped, [I!Next]_(I!vars)
              PROVE  LineTyped'
  OBVIOUS
<1>1. ASSUME NEW more, I!handle_response(more)
      PROVE  LineTyped'
  BY <1>1 DEF I!handle_response, I!Tampering, LineTyped
<1>2. CASE I!Start \/ I!NotConnected \/ I!Closed
  BY <1>1, <1>2 DEF I!Start, I!NotConnected, I!Closed
<1>3. CASE I!InvalidBackend \/ I!Connected \/ I!TimerExpires \/ UNCHANGED I!vars
  BY <1>3 DEF I!InvalidBackend, I!Connected, I!TimerExpires, I!vars, LineTyped
<1>. QED
  BY <1>2, <1>3 DEF I!Next

-----------------------------------------------------------------------------
Typed ==
  /\ client \in Clients
  /\ client = "ndt" => NdtTyped
  /\ client = "multi_ndt" => MultiTyped
  /\ client = "collector" => CollectorTyped
  /\ client = "orchestrate" => OrchestrateTyped
  /\ client = "dns" => DnsTyped
  /\ client = "web_connectivity" => WebTyped
  /\ client = "facebook_messenger" => FacebookTyped
  /\ client = "whatsapp" => WhatsappTyped
  /\ client = "http_invalid_request_line" => LineTyped

LEMMA TypedInit == Init => Typed
<1>. SUFFICES ASSUME Init
              PROVE  Typed
  OBVIOUS
<1>0. N!Init /\ M!Init /\ C!Init /\ O!Init /\ Q!Init /\ W!Init /\ F!Init /\ P!Init /\ I!Init
  BY DEF Init
<1>1. NdtTyped
  <2>1. granted \in Seq(N!Tests \union {"other"})
    BY <1>0, EmptySeq DEF N!Init
  <2>2. chat \in BOOLEAN /\ pc = "start"
    BY <1>0 DEF N!Init
  <2>. QED
    BY <2>1, <2>2 DEF NdtTyped
<1>2. MultiTyped /\ DnsTyped /\ LineTyped /\ WebTyped
  <2>1. MultiTyped /\ LineTyped
    BY <1>0 DEF M!Init, I!Init, MultiTyped, LineTyped
  <2>2. DnsTyped
    BY <1>0 DEF Q!Init, Q!Types, DnsTyped
  <2>3. WebTyped
    BY <1>0 DEF W!Init, WebTyped
  <2>. QED
    BY <2>1, <2>2, <2>3
<1>3. CollectorTyped
  <2>1. Len(lines) = 0 /\ Len(stored) = 0 /\ line = 0 /\ report = "none"
    BY <1>0, EmptySeq DEF C!Init
  <2>. QED
    BY <2>1, ClientsAssumption DEF CollectorTyped
<1>4. OrchestrateTyped
  <2>1. issued \in Seq(Nat)
    BY <1>0, EmptySeq DEF O!Init
  <2>2. /\ ops = 0 /\ now = 0
        /\ username \in BOOLEAN /\ password \in BOOLEAN
        /\ logged_in \in BOOLEAN /\ cut \in BOOLEAN
    BY <1>0 DEF O!Init
  <2>. QED
    BY <2>1, <2>2, ClientsAssumption DEF OrchestrateTyped
<1>5. FacebookTyped
  <2>1. DOMAIN consistent = {} /\ DOMAIN reachable = {} /\ DOMAIN blocking = {}
    BY <1>0 DEF F!Init
  <2>. QED
    BY <1>0, <2>1 DEF F!Init, FacebookTyped
<1>6. WhatsappTyped
  <2>1. DOMAIN ips = {} /\ endpoints.blocked \union endpoints.inconsistent = {}
    BY <1>0 DEF P!Init, P!Unset
  <2>. QED
    BY <1>0, <2>1 DEF P!Init, WhatsappTyped
<1>. QED
  BY <1>1, <1>2, <1>3, <1>4, <1>5, <1>6 DEF Init, Typed

LEMMA TypedStep == IInv /\ Typed /\ [Next]_vars => Typed'
<1>. SUFFICES ASSUME IInv, Typed, [Next]_vars
              PROVE  Typed'
  OBVIOUS
<1>1. client' = client
  BY ClientSteps
<1>2. /\ client = "ndt" => NdtTyped'
      /\ client = "multi_ndt" => MultiTyped'
      /\ client = "collector" => CollectorTyped'
  BY ClientSteps, NdtTypedStep, MultiTypedStep, CollectorTypedStep DEF IInv, Typed
<1>3. /\ client = "orchestrate" => OrchestrateTyped'
      /\ client = "dns" => DnsTyped'
      /\ client = "web_connectivity" => WebTyped'
  BY ClientSteps, OrchestrateTypedStep, DnsTypedStep, WebTypedStep DEF IInv, Typed
<1>4. /\ client = "facebook_messenger" => FacebookTyped'
      /\ client = "whatsapp" => WhatsappTyped'
      /\ client = "http_invalid_request_line" => LineTyped'
  BY ClientSteps, FacebookTypedStep, WhatsappTypedStep, LineTypedStep DEF IInv, Typed
<1>. QED
  BY <1>1, <1>2, <1>3, <1>4 DEF Typed

LEMMA TypedIsOK == IInv /\ Typed => TypeOK
<1>. SUFFICES ASSUME IInv, Typed
              PROVE  TypeOK
  OBVIOUS
<1>1. /\ client = "ndt" => N!TypeOK
      /\ client = "collector" => C!TypeOK
      /\ client = "web_connectivity" => W!TypeOK
  BY NdtTypes, CollectorTypesOK, WebTypes DEF IInv, Typed
<1>2. client = "multi_ndt" => M!TypeOK
  <2>. SUFFICES ASSUME client = "multi_ndt"
                PROVE  M!TypeOK
    OBVIOUS
  <2>1. single \in M!Outcomes /\ multi \in M!Outcomes
    BY DEF IInv, MultiChosen
  <2>2. \A r \in {"single", "multi"} : M!Runs[r] \in M!Outcomes
    BY <2>1 DEF M!Runs
  <2>. QED
    BY <2>2 DEF IInv, Typed, MultiInv, MultiTyped, M!TypeOK
<1>3. client = "dash" => D!TypeOK
  BY DEF IInv, DashInv, DashMeasured, DashTypes, D!TypeOK
<1>4. client = "orchestrate" => O!TypeOK
  BY DEF IInv, Typed, OrchestrateInv, OrchestrateTypes, OrchestrateTyped, O!TypeOK
<1>5. client = "dns" => Q!TypeOK
  <2>. SUFFICES ASSUME client = "dns"
                PROVE  Q!TypeOK
    OBVIOUS
  <2>1. bases \in Nat /\ bases <= 1 /\ freed \in Nat
    BY DEF IInv, Typed, DnsInv, DnsTyped
  <2>2. open = 0 /\ calls \in 0..1
    BY DEF IInv, DnsInv
  <2>3. context \in BOOLEAN
    BY Zenon DEF IInv, DnsInv
  <2>. QED
    BY <2>1, <2>2, <2>3 DEF Typed, DnsTyped, Q!TypeOK
<1>6. client = "facebook_messenger" => F!TypeOK
  BY DEF IInv, Typed, FacebookInv, FacebookTyped, F!TypeOK
<1>7. client = "whatsapp" => P!TypeOK
  BY DEF IInv, Typed, WhatsappInv, WhatsappTyped, P!TypeOK
<1>8. client = "http_invalid_request_line" => I!TypeOK
  <2>. SUFFICES ASSUME client = "http_invalid_request_line"
                PROVE  I!TypeOK
    OBVIOUS
  <2>1. LineInv /\ LineTyped
    BY DEF IInv, Typed
  <2>2. I!Cardinality(Holding) = Cardinality(Holding)
    BY Zenon DEF I!Cardinality, Cardinality
  <2>3. calls \in 0..1
    BY <2>1 DEF LineInv
  <2>. QED
    BY <2>1, <2>2, <2>3 DEF LineInv, LineTyped, Holding, I!TypeOK
<1>9. client = "parallel" => L!TypeOK
  BY DEF IInv, VectorInv, LP!IInv, LP!TypeOK, L!TypeOK, LP!Op, L!Op, LP!NoOp, L!NoOp
<1>. QED
  BY <1>1, <1>2, <1>3, <1>4, <1>5, <1>6, <1>7, <1>8, <1>9, ClientsAssumption, ZenonT(60)
     DEF Typed, TypeOK

\* TypeOK: the state of the client that runs keeps its type, whatever the server does.
THEOREM ClientsTyped == FairSpec => []TypeOK
<1>1. IInv /\ Typed => TypeOK
  BY TypedIsOK
<1>2. FairSpec => []IInv
  BY ClientsInvariant
<1>. QED
  BY <1>1, <1>2, TypedInit, TypedStep, PTL DEF FairSpec
=============================================================================
