--------------------------- MODULE TransportProofs ---------------------------
(***************************************************************************)
(* The operations of a transport, for any number of bytes and of           *)
(* operations.  The invariant ties the handlers that are set, which are    *)
(* the state of the code, to the operation that the user waits for.        *)
(***************************************************************************)
EXTENDS Transport, Integers, TLAPS

Numbers ==
  /\ peer \in Nat /\ input \in Nat /\ buff \in Int /\ need \in Int /\ consumed \in Int
  /\ started \in Int /\ finished \in Int

Flags ==
  /\ user \in {"idle", "callback", "reading", "writing", "closed"}
  /\ closePending \in BOOLEAN /\ reading \in BOOLEAN /\ suppressed \in BOOLEAN
  /\ frame \in BOOLEAN

\* The handlers that each operation has set; close() is the only thing that leaves one.
HandlersOfOperation ==
  /\ closePending <=> user = "closed"
  /\ user \in {"idle", "callback"} => onData = "none" /\ onFlush = "none" /\ onError = "none"
  /\ user = "writing" => onData = "none" /\ onFlush = "writer" /\ onError = "writer"
  /\ user = "reading" =>
       /\ onFlush = "none"
       /\ IF "answer" \in soon THEN onData = "none" /\ onError = "none"
                               ELSE onData = "reader" /\ onError = "reader"
  /\ "answer" \in soon => user \in {"reading", "closed"}

\* The bufferevent reads, and holds bytes, only for a reader.
InputHasReader ==
  /\ ~closePending /\ reading => onData = "reader"
  /\ ~closePending /\ input > 0 => onData = "reader"
  /\ frame => input = 0

\* An end of file, delivered or held back, comes after the last byte.
EndOfInput ==
  /\ suppressed => peer = 0
  /\ EofIsLast

IInv == Numbers /\ Flags /\ HandlersOfOperation /\ InputHasReader /\ EndOfInput /\ OneOutcome

-----------------------------------------------------------------------------
LEMMA InitIInv == Init => IInv
<1>. SUFFICES ASSUME Init
              PROVE  IInv
  OBVIOUS
<1>1. peer \in Nat
  BY TransportAssumption DEF Init
<1>2. Numbers
  BY <1>1 DEF Init, Numbers
<1>5. Flags
  BY DEF Init, Flags
<1>3. HandlersOfOperation
  BY DEF Init, HandlersOfOperation
<1>4. InputHasReader /\ EndOfInput /\ OneOutcome
  BY DEF Init, InputHasReader, EndOfInput, EofIsLast, OneOutcome, Pending
<1>. QED
  BY <1>2, <1>3, <1>4, <1>5 DEF IInv

(***************************************************************************)
(* emit_error() is called from several places; whoever waits is called     *)
(* back, and its handlers are cleared.                                     *)
(***************************************************************************)
LEMMA ErrorEmitted ==
  ASSUME IInv, NEW err, NEW still \in BOOLEAN, EmitError(err, still), UNCHANGED soon
  PROVE  \/ /\ Pending /\ onError # "none" /\ user' = "callback"
            /\ onData' = "none" /\ onFlush' = "none" /\ onError' = "none"
            /\ reading' = (IF user = "reading" THEN FALSE ELSE still)
            /\ outcome' = err /\ finished' = finished + 1
         \/ /\ onError = "none" \/ closePending
            /\ UNCHANGED <<user, handlers, outcome, finished>> /\ reading' = still
<1>. USE DEF IInv, Numbers, Flags, HandlersOfOperation, Pending
<1>1. CASE onError = "reader" /\ ~closePending
  BY <1>1 DEF EmitError, ReaderDone, CallBack
<1>2. CASE onError = "writer" /\ ~closePending
  BY <1>2 DEF EmitError, WriterDone, CallBack
<1>3. CASE ~(onError = "reader" /\ ~closePending) /\ ~(onError = "writer" /\ ~closePending)
  BY <1>3 DEF EmitError, NoCallBack, handlers
<1>. QED
  BY <1>1, <1>2, <1>3

\* So a step that emits an error keeps the invariant; an end of file must be the last event.
LEMMA ErrorStep ==
  ASSUME IInv, NEW err, NEW still \in BOOLEAN, EmitError(err, still),
         UNCHANGED <<input, peer, closePending, soon, buff, need, started, consumed>>,
         still => reading,
         input = 0, err = "eof" => peer = 0,
         frame' => frame, suppressed' => suppressed,
         frame' \in BOOLEAN, suppressed' \in BOOLEAN
  PROVE  IInv'
<1>. USE DEF IInv, Numbers, Flags, HandlersOfOperation, InputHasReader, EndOfInput, EofIsLast, OneOutcome,
             Pending, handlers
<1>1. CASE /\ Pending /\ onError # "none" /\ user' = "callback"
           /\ onData' = "none" /\ onFlush' = "none" /\ onError' = "none"
           /\ reading' = (IF user = "reading" THEN FALSE ELSE still)
           /\ outcome' = err /\ finished' = finished + 1
  <2>1. Numbers' /\ OneOutcome'
    BY <1>1
  <2>2. Flags'
    BY <1>1
  <2>3. HandlersOfOperation'
    BY <1>1
  <2>4. InputHasReader'
    <3>1. ~still \/ user = "reading"
      BY <1>1
    <3>2. ~reading'
      BY <1>1, <3>1
    <3>3. (frame' => input' = 0) /\ (~closePending' /\ input' > 0 => onData' = "reader")
      BY <1>1
    <3>. QED
      BY <3>2, <3>3
  <2>5. EndOfInput'
    BY <1>1
  <2>. QED
    BY <2>1, <2>2, <2>3, <2>4, <2>5
<1>2. CASE /\ onError = "none" \/ closePending
           /\ UNCHANGED <<user, handlers, outcome, finished>> /\ reading' = still
  BY <1>2
<1>. QED
  BY <1>1, <1>2, ErrorEmitted

-----------------------------------------------------------------------------
\* The user starts an operation, returns, or closes the transport.
LEMMA UserKeepsIInv == IInv /\ (UserStep \/ Return) => IInv'
<1>. SUFFICES ASSUME IInv, UserStep \/ Return
              PROVE  IInv'
  OBVIOUS
<1>. USE DEF IInv, Numbers, Flags, HandlersOfOperation, InputHasReader, EndOfInput, EofIsLast, OneOutcome,
             Pending, handlers, bufferevent, emitter, history
<1>1. CASE StartWrite
  BY <1>1 DEF StartWrite, MayStart
<1>2. ASSUME NEW n \in 1..MaxRead, StartRead(n)
      PROVE  IInv'
  <2>1. n \in Int
    BY <1>2, TransportAssumption
  <2>2. CASE ReadFromBuffer(n)
    BY <1>2, <2>1, <2>2 DEF StartRead, MayStart, ReadFromBuffer
  <2>3. CASE ReadFromPeer(n)
    BY <1>2, <2>1, <2>3 DEF StartRead, MayStart, ReadFromPeer
  <2>. QED
    BY <1>2, <2>2, <2>3 DEF StartRead
<1>3. CASE Close
  BY <1>3 DEF Close
<1>4. CASE Return
  BY <1>4 DEF Return
<1>. QED
  BY <1>1, <1>2, <1>3, <1>4 DEF UserStep

\* handle_read_() hands the input over, and its frame stays while the user runs.
LEMMA ReadKeepsIInv == IInv /\ HandleRead => IInv'
<1>. SUFFICES ASSUME IInv, HandleRead
              PROVE  IInv'
  OBVIOUS
<1>. USE DEF IInv, Numbers, Flags, HandlersOfOperation, InputHasReader, EndOfInput, EofIsLast, OneOutcome,
             Pending, handlers, emitter
<1>1. onData = "reader" /\ user = "reading"
  BY DEF HandleRead
<1>2. CASE buff + input >= need
  <2>1. PICK taken \in {need, buff + input} :
          buff' = buff + input - taken /\ consumed' = consumed + taken
    BY <1>1, <1>2 DEF HandleRead, Consume
  <2>2. buff' \in Int /\ consumed' \in Int
    BY <2>1
  <2>3. /\ ReaderDone /\ CallBack("ok")
        /\ input' = 0 /\ frame' = TRUE
        /\ UNCHANGED <<output, peer, emitter, soon, need, started>>
    BY <1>1, <1>2 DEF HandleRead, Consume
  <2>4. user' = "callback" /\ outcome' = "ok" /\ finished' = finished + 1
    BY <1>1, <2>3 DEF CallBack
  <2>5. onData' = "none" /\ onError' = "none" /\ onFlush' = onFlush /\ ~reading'
    BY <2>3 DEF ReaderDone
  <2>6. Numbers' /\ OneOutcome'
    BY <1>1, <2>2, <2>3, <2>4
  <2>7. Flags'
    BY <2>3, <2>4, <2>5 DEF ReaderDone
  <2>8. HandlersOfOperation' /\ InputHasReader' /\ EndOfInput'
    BY <1>1, <2>3, <2>4, <2>5
  <2>. QED
    BY <2>6, <2>7, <2>8
<1>3. CASE ~(buff + input >= need)
  BY <1>1, <1>3 DEF HandleRead, NoCallBack
<1>. QED
  BY <1>2, <1>3

\* The other callbacks of the loop.
LEMMA LoopKeepsIInv == IInv /\ (LoopStep \/ Arrive) => IInv'
<1>. SUFFICES ASSUME IInv, LoopStep \/ Arrive
              PROVE  IInv'
  OBVIOUS
<1>. USE DEF IInv, Numbers, Flags, HandlersOfOperation, InputHasReader, EndOfInput, EofIsLast, OneOutcome,
             Pending, handlers, bufferevent, emitter, history
<1>1. CASE HandleRead
  BY <1>1, ReadKeepsIInv
<1>2. CASE HandleReadReturns
  <2>1. CASE suppressed
    <3>1. EmitError("eof", reading) /\ UNCHANGED soon
      BY <1>2, <2>1 DEF HandleReadReturns
    <3>2. UNCHANGED <<input, peer, closePending, soon, buff, need, started, consumed>>
      BY <1>2 DEF HandleReadReturns
    <3>3. ~frame' /\ ~suppressed' /\ frame' \in BOOLEAN /\ suppressed' \in BOOLEAN
      BY <1>2 DEF HandleReadReturns
    <3>4. input = 0 /\ peer = 0 /\ reading \in BOOLEAN
      BY <1>2, <2>1 DEF HandleReadReturns
    <3>. QED
      BY <3>1, <3>2, <3>3, <3>4, ErrorStep
  <2>2. CASE ~suppressed
    BY <1>2, <2>2 DEF HandleReadReturns, NoCallBack
  <2>. QED
    BY <2>1, <2>2
<1>3. CASE HandleWrite
  BY <1>3 DEF HandleWrite, WriterDone, CallBack, NoCallBack
<1>4. CASE HandleEof
  <2>1. CASE input > 0
    BY <1>4, <2>1 DEF HandleEof, NoCallBack
  <2>2. CASE ~(input > 0)
    <3>1. EmitError("eof", FALSE) /\ UNCHANGED soon
      BY <1>4, <2>2 DEF HandleEof
    <3>2. UNCHANGED <<input, peer, closePending, suppressed, frame, soon, buff, need, started,
                      consumed>>
      BY <1>4, <2>2 DEF HandleEof
    <3>3. input = 0 /\ peer = 0
      BY <1>4, <2>2 DEF HandleEof
    <3>. QED
      BY <3>1, <3>2, <3>3, ErrorStep
  <2>. QED
    BY <2>1, <2>2
<1>5. ASSUME NEW err \in Fault, HandleFault(err)
      PROVE  IInv'
  <2>1. EmitError(err, FALSE) /\ input = 0 /\ err # "eof"
    BY <1>5 DEF HandleFault, Fault
  <2>2. UNCHANGED <<input, peer, closePending, suppressed, frame, soon, buff, need, started,
                    consumed>>
    BY <1>5 DEF HandleFault
  <2>. QED
    BY <2>1, <2>2, ErrorStep
<1>6. CASE Answer
  <2>1. PICK taken \in {need, buff} : buff' = buff - taken /\ consumed' = consumed + taken
    BY <1>6 DEF Answer, Consume
  <2>2. buff' \in Int /\ consumed' \in Int
    BY <2>1
  <2>. QED
    BY <1>6, <2>2 DEF Answer, Consume, CallBack
<1>7. CASE Release
  BY <1>7 DEF Release
<1>8. CASE Destroy
  BY <1>8 DEF Destroy
<1>9. CASE Arrive
  BY <1>9 DEF Arrive, Loop
<1>. QED
  BY <1>1, <1>2, <1>3, <1>4, <1>5, <1>6, <1>7, <1>8, <1>9 DEF LoopStep

LEMMA StepIInv == IInv /\ [Next]_vars => IInv'
<1>. SUFFICES ASSUME IInv, [Next]_vars
              PROVE  IInv'
  OBVIOUS
<1>1. CASE UNCHANGED vars
  BY <1>1 DEF vars, handlers, bufferevent, emitter, history, IInv, Numbers, Flags, HandlersOfOperation,
              InputHasReader, EndOfInput, EofIsLast, OneOutcome, Pending
<1>. QED
  BY <1>1, UserKeepsIInv, LoopKeepsIInv DEF Next

THEOREM TransportInvariant == Spec => []IInv
BY InitIInv, StepIInv, PTL DEF Spec

-----------------------------------------------------------------------------
\* The end of file that handle_event_() holds back is delivered after the last byte
\* (libevent_emitter.hpp:162).
THEOREM EndOfFileIsLast == Spec => []EofIsLast
<1>1. IInv => EofIsLast
  BY DEF IInv, EndOfInput
<1>. QED
  BY <1>1, TransportInvariant, PTL

\* Each write() and readn() calls back once, whatever libevent reports (transport.cpp).
THEOREM OperationsCallBackOnce == Spec => []OneOutcome
<1>1. IInv => OneOutcome
  BY DEF IInv
<1>. QED
  BY <1>1, TransportInvariant, PTL

-----------------------------------------------------------------------------
(***************************************************************************)
(* The refinement of ByteStream.  The invariant above speaks of the        *)
(* operation that the user waits for; the stream also owes the answer that *)
(* readn() left with call_soon() when the transport was closed meanwhile.  *)
(***************************************************************************)
OperationDue ==
  /\ started - finished \in {0, 1}
  /\ "answer" \in soon => started - finished = 1
  /\ started - finished = 1 => outcome \in {"none", "ok"}
  /\ outcome \in {"none", "ok"} \union Stream!Errors

Implements == OperationDue' /\ [Stream!Next]_(Stream!vars)

LEMMA InitStream == Init => OperationDue /\ Stream!Init
BY TransportAssumption DEF Init, OperationDue, Stream!Init

\* A step of the code that the stream does not see.
LEMMA Unseen ==
  ASSUME IInv, OperationDue, peer' + input' = peer + input, buff' + consumed' = buff + consumed,
         UNCHANGED <<started, finished, outcome, closePending>>,
         "answer" \in soon' => "answer" \in soon
  PROVE  Implements
BY DEF OperationDue, Implements, Stream!vars

\* Whoever emits an error ends the operation that is due, or ends nothing.
LEMMA ErrorImplements ==
  ASSUME IInv, OperationDue, NEW err \in Stream!Errors, NEW still \in BOOLEAN,
         EmitError(err, still),
         UNCHANGED <<input, peer, closePending, soon, buff, started, consumed>>,
         err = "eof" => peer + input = 0
  PROVE  Implements
<1>1. CASE Pending /\ onError # "none" /\ outcome' = err /\ finished' = finished + 1
  <2>1. ~closePending /\ started - finished = 1 /\ "answer" \notin soon
    BY <1>1 DEF IInv, HandlersOfOperation, OneOutcome, Pending
  <2>2. started' - finished' = 0
    BY <1>1, <2>1 DEF IInv, Numbers
  <2>3. OperationDue'
    BY <1>1, <2>1, <2>2 DEF OperationDue
  <2>4. outcome \in {"none", "ok"} /\ outcome' \notin {"none", "ok"}
    BY <1>1, <2>1 DEF OperationDue, Stream!Errors
  <2>5. Stream!Fail(err)
    BY <1>1, <2>1, <2>2, <2>4 DEF Stream!Fail
  <2>. QED
    BY <2>3, <2>5 DEF Implements, Stream!Next
<1>2. CASE UNCHANGED <<finished, outcome>>
  BY <1>2, Unseen
<1>. QED
  BY <1>1, <1>2, ErrorEmitted

\* The answer of an operation hands over what came with it.
LEMMA AnswerImplements ==
  ASSUME IInv, OperationDue, started - finished = 1, NEW n \in 0..(peer + input),
         closePending => n = 0, CallBack("ok"), "answer" \notin soon',
         peer' + input' = (peer + input) - n, buff' + consumed' = buff + consumed + n,
         UNCHANGED <<started, closePending>>
  PROVE  Implements
<1>1. outcome' = "ok" /\ started' - finished' = 0
  BY DEF CallBack, IInv, Numbers
<1>2. outcome \in {"none", "ok"}
  BY DEF OperationDue
<1>3. Stream!HandOver(n)
  BY DEF Stream!HandOver
<1>5. Stream!Succeed(n)
  BY <1>1, <1>2, <1>3 DEF Stream!Succeed
<1>4. OperationDue'
  BY <1>1 DEF OperationDue
<1>. QED
  BY <1>4, <1>5 DEF Implements, Stream!Next

\* A new operation is the next one that is due.
LEMMA StartImplements ==
  ASSUME IInv, OperationDue, MayStart, started' = started + 1,
         UNCHANGED <<input, peer, buff, consumed, finished, outcome, closePending>>
  PROVE  Implements
<1>1. ~closePending /\ started - finished = 0 /\ outcome \in {"none", "ok"}
  BY DEF MayStart, IInv, HandlersOfOperation, OneOutcome, Pending
<1>2. started' - finished' = 1
  BY <1>1 DEF IInv, Numbers
<1>3. OperationDue'
  BY <1>1, <1>2 DEF OperationDue
<1>4. Stream!Start
  BY <1>1, <1>2 DEF Stream!Start
<1>. QED
  BY <1>3, <1>4 DEF Implements, Stream!Next

\* handle_read_() with a reader: part of what it waits for, or the rest.
LEMMA ReadImplements == IInv /\ OperationDue /\ HandleRead => Implements
<1>. SUFFICES ASSUME IInv, OperationDue, HandleRead
              PROVE  Implements
  OBVIOUS
<1>1. onData = "reader" /\ user = "reading" /\ "answer" \notin soon /\ ~closePending
  BY DEF HandleRead, IInv, HandlersOfOperation, InputHasReader, Flags
<1>2. started - finished = 1
  BY <1>1 DEF IInv, OneOutcome, Pending
<1>3. input' = 0 /\ UNCHANGED <<peer, closePending, soon, started>>
  BY DEF HandleRead, emitter
<1>4. input \in 1..(peer + input) /\ input \in 0..(peer + input)
  BY DEF HandleRead, IInv, Numbers
<1>5. peer' + input' = (peer + input) - input
  BY <1>3 DEF IInv, Numbers
<1>6. CASE buff + input >= need
  <2>1. PICK taken \in {need, buff + input} :
          buff' = buff + input - taken /\ consumed' = consumed + taken
    BY <1>1, <1>6 DEF HandleRead, Consume, IInv, Numbers
  <2>2. buff' + consumed' = buff + consumed + input
    BY <2>1 DEF IInv, Numbers
  <2>3. CallBack("ok")
    BY <1>1, <1>6 DEF HandleRead, Consume
  <2>. QED
    BY <1>1, <1>2, <1>3, <1>4, <1>5, <2>2, <2>3, AnswerImplements
<1>7. CASE ~(buff + input >= need)
  <2>1. buff' = buff + input /\ UNCHANGED <<consumed, user, outcome, finished>>
    BY <1>1, <1>7 DEF HandleRead, NoCallBack
  <2>2. buff' + consumed' = buff + consumed + input
    BY <2>1 DEF IInv, Numbers
  <2>5. Stream!HandOver(input)
    BY <1>5, <2>2 DEF Stream!HandOver
  <2>3. Stream!Part(input)
    BY <1>1, <1>2, <1>3, <2>1, <2>5 DEF Stream!Part
  <2>4. OperationDue'
    BY <1>3, <2>1 DEF OperationDue
  <2>. QED
    BY <1>4, <2>3, <2>4 DEF Implements, Stream!Next
<1>. QED
  BY <1>6, <1>7

LEMMA StepImplements == IInv /\ OperationDue /\ Next => Implements
<1>. SUFFICES ASSUME IInv, OperationDue, Next
              PROVE  Implements
  OBVIOUS
<1>1. CASE HandleRead
  BY <1>1, ReadImplements
<1>2. CASE HandleReadReturns
  <2>1. UNCHANGED <<input, peer, closePending, soon, buff, started, consumed>>
    BY <1>2 DEF HandleReadReturns
  <2>2. CASE suppressed
    <3>1. EmitError("eof", reading) /\ reading \in BOOLEAN
      BY <1>2, <2>2 DEF HandleReadReturns, IInv, Flags
    <3>2. peer + input = 0
      BY <1>2, <2>2 DEF HandleReadReturns, IInv, InputHasReader, EndOfInput
    <3>. QED
      BY <2>1, <3>1, <3>2, ErrorImplements DEF Stream!Errors
  <2>3. CASE ~suppressed
    <3>1. UNCHANGED <<finished, outcome>>
      BY <1>2, <2>3 DEF HandleReadReturns, NoCallBack
    <3>. QED
      BY <2>1, <3>1, Unseen
  <2>. QED
    BY <2>2, <2>3
<1>3. CASE HandleWrite
  <2>1. UNCHANGED <<input, peer, closePending, soon, buff, started, consumed>>
    BY <1>3 DEF HandleWrite, emitter
  <2>2. CASE onFlush = "writer"
    <3>1. user = "writing" /\ "answer" \notin soon /\ ~closePending
      BY <1>3, <2>2 DEF HandleWrite, IInv, HandlersOfOperation, Flags
    <3>2. CallBack("ok") /\ started - finished = 1
      BY <1>3, <2>2, <3>1 DEF HandleWrite, IInv, OneOutcome, Pending
    <3>3. 0 \in 0..(peer + input) /\ peer' + input' = (peer + input) - 0
          /\ buff' + consumed' = buff + consumed + 0
      BY <2>1 DEF IInv, Numbers
    <3>. QED
      BY <2>1, <3>1, <3>2, <3>3, AnswerImplements
  <2>3. CASE onFlush # "writer"
    <3>1. UNCHANGED <<finished, outcome>>
      BY <1>3, <2>3 DEF HandleWrite, NoCallBack
    <3>. QED
      BY <2>1, <3>1, Unseen
  <2>. QED
    BY <2>2, <2>3
<1>4. CASE HandleEof
  <2>1. UNCHANGED <<input, peer, closePending, soon, buff, started, consumed>>
    BY <1>4 DEF HandleEof
  <2>2. CASE input > 0
    <3>1. UNCHANGED <<finished, outcome>>
      BY <1>4, <2>2 DEF HandleEof, NoCallBack
    <3>. QED
      BY <2>1, <3>1, Unseen
  <2>3. CASE ~(input > 0)
    <3>1. EmitError("eof", FALSE)
      BY <1>4, <2>3 DEF HandleEof
    <3>2. peer + input = 0
      BY <1>4, <2>3 DEF HandleEof, IInv, Numbers
    <3>. QED
      BY <2>1, <3>1, <3>2, ErrorImplements DEF Stream!Errors
  <2>. QED
    BY <2>2, <2>3
<1>5. CASE \E err \in Fault : HandleFault(err)
  <2>1. PICK err \in Fault : HandleFault(err)
    BY <1>5
  <2>2. err \in Stream!Errors /\ err # "eof"
    BY DEF Fault, Stream!Errors
  <2>3. EmitError(err, FALSE)
        /\ UNCHANGED <<input, peer, closePending, soon, buff, started, consumed>>
    BY <2>1 DEF HandleFault, emitter
  <2>. QED
    BY <2>2, <2>3, ErrorImplements
<1>6. CASE Answer
  <2>1. PICK taken \in {need, buff} : buff' = buff - taken /\ consumed' = consumed + taken
    BY <1>6 DEF Answer, Consume
  <2>2. /\ "answer" \in soon /\ soon' = soon \ {"answer"} /\ CallBack("ok")
        /\ UNCHANGED <<input, peer, closePending, started>>
    BY <1>6 DEF Answer, Consume, bufferevent, emitter
  <2>3. started - finished = 1 /\ "answer" \notin soon'
    BY <2>2 DEF OperationDue
  <2>4. 0 \in 0..(peer + input) /\ peer' + input' = (peer + input) - 0
        /\ buff' + consumed' = buff + consumed + 0
    BY <2>1, <2>2 DEF IInv, Numbers
  <2>. QED
    BY <2>2, <2>3, <2>4, AnswerImplements
<1>7. CASE Release \/ Destroy \/ Return
  <2>1. UNCHANGED <<input, peer, buff, consumed, started, finished, outcome, closePending>>
    BY <1>7 DEF Release, Destroy, Return, bufferevent, history, emitter
  <2>2. "answer" \in soon' => "answer" \in soon
    BY <1>7 DEF Release, Destroy, Return
  <2>. QED
    BY <2>1, <2>2, Unseen
<1>8. CASE Arrive
  <2>1. peer' + input' = peer + input
    BY <1>8 DEF Arrive, IInv, Numbers
  <2>2. UNCHANGED <<buff, consumed, started, finished, outcome, closePending, soon>>
    BY <1>8 DEF Arrive, history, emitter
  <2>. QED
    BY <2>1, <2>2, Unseen
<1>9. CASE StartWrite
  BY <1>9, StartImplements DEF StartWrite, emitter
<1>10. CASE \E n \in 1..MaxRead : StartRead(n)
  BY <1>10, StartImplements DEF StartRead, emitter
<1>11. CASE Close
  <2>1. ~closePending /\ closePending'
    BY <1>11 DEF Close, IInv, HandlersOfOperation
  <2>2. UNCHANGED <<input, peer, buff, consumed, started, finished, outcome>>
    BY <1>11 DEF Close, bufferevent, history
  <2>3. "answer" \in soon' => "answer" \in soon
    BY <1>11 DEF Close
  <2>4. OperationDue'
    BY <2>2, <2>3 DEF OperationDue
  <2>5. Stream!Close
    BY <1>11, <2>1, <2>2 DEF Stream!Close, Close
  <2>. QED
    BY <2>4, <2>5 DEF Implements, Stream!Next
<1>. QED
  BY <1>1, <1>2, <1>3, <1>4, <1>5, <1>6, <1>7, <1>8, <1>9, <1>10, <1>11 DEF Next, LoopStep, UserStep

\* What waits for net::write() and net::readn() sees a stream of bytes, for any number of
\* bytes and operations and whatever libevent reports in between.
THEOREM TransportImplementsStream == Spec => StreamImplemented
<1>1. IInv /\ OperationDue /\ UNCHANGED vars => OperationDue' /\ UNCHANGED Stream!vars
  BY DEF vars, handlers, bufferevent, emitter, history, OperationDue, Stream!vars
<1>2. IInv /\ OperationDue /\ [Next]_vars => OperationDue' /\ [Stream!Next]_(Stream!vars)
  BY <1>1, StepImplements DEF Implements
<1>. QED
  BY <1>2, InitStream, TransportInvariant, PTL DEF Spec, StreamImplemented, Stream!Spec
==============================================================================
