----------------------------- MODULE Transport ------------------------------
(***************************************************************************)
(* One transport: EmitterBase and LibeventEmitter (net/emitter.hpp,        *)
(* net/libevent_emitter.hpp) over a bufferevent of libevent, used through  *)
(* net::write() and net::readn() (net/transport.cpp), which set and clear  *)
(* the handlers.  Everything runs in the thread of the loop, so a callback *)
(* of libevent is interrupted by nothing; but the code it calls back may   *)
(* start the next operation or close the transport from inside of it.     *)
(*                                                                         *)
(* The user does one operation at a time (transport.hpp:133 "when you need *)
(* only to write or read"), and nothing but close() after an error, as the *)
(* callers do.  It may close the transport at any time.  A transport is    *)
(* destroyed when nothing refers to it: not the user, not its own `self`,  *)
(* and none of its handlers, which capture it.                             *)
(***************************************************************************)
EXTENDS Naturals

CONSTANTS
  MaxBytes,  \* bound: bytes that the peer sends
  MaxRead,   \* bound: the longest read
  MaxOps     \* bound: operations that the user starts

ASSUME TransportAssumption ==
  /\ MaxBytes \in Nat /\ MaxRead \in Nat \ {0} /\ MaxOps \in Nat

VARIABLES
  onData,       \* EmitterBase::do_data
  onFlush,      \* EmitterBase::do_flush
  onError,      \* EmitterBase::do_error
  closePending, \* EmitterBase::close_pending
  suppressed,   \* LibeventEmitter::suppressed_eof
  self,         \* LibeventEmitter::self keeps the transport alive
  gone,         \* the transport was destroyed and called back
  reading,      \* the bufferevent is enabled for reading
  input,        \* bytes in the input of the bufferevent
  output,       \* the bufferevent has bytes to send
  frame,        \* handle_read_() has not returned yet
  soon,         \* what call_soon() has still to call
  buff,         \* bytes in the buffer that the user passes to readn()
  need,         \* the argument n of readn()
  peer,         \* how many bytes the peer has still to send; it then closes
  user,         \* what the user is doing
  outcome,      \* how its last operation ended
  started,      \* history: operations started
  finished,     \* history: operations called back
  consumed      \* history: bytes the user took from its buffer

handlers == <<onData, onFlush, onError>>
bufferevent == <<reading, input, output, peer>>
emitter == <<closePending, suppressed, self, gone>>
history == <<outcome, started, finished, consumed>>
vars == <<handlers, bufferevent, emitter, frame, soon, buff, need, user, history>>

Fault == {"timeout", "error"}
Pending == user \in {"reading", "writing"}

Init ==
  /\ onData = "none" /\ onFlush = "none" /\ onError = "none"
  /\ closePending = FALSE /\ suppressed = FALSE /\ self = TRUE /\ gone = FALSE
  /\ reading = FALSE /\ input = 0 /\ output = FALSE
  /\ peer \in 0..MaxBytes
  /\ frame = FALSE
  /\ soon = {}
  /\ buff = 0 /\ need = 0
  /\ user = "idle"
  /\ outcome = "none" /\ started = 0 /\ finished = 0 /\ consumed = 0

\* The loop calls back only when the previous callback has returned.
Loop == user # "callback" /\ ~frame

-----------------------------------------------------------------------------
(***************************************************************************)
(* The user.                                                               *)
(***************************************************************************)
MayStart ==
  /\ user = "callback" \/ (user = "idle" /\ Loop)
  /\ outcome \in {"none", "ok"}
  /\ started < MaxOps

StartWrite ==
  /\ MayStart
  /\ onFlush' = "writer" /\ onError' = "writer"
  /\ output' = TRUE
  /\ user' = "writing"
  /\ started' = started + 1
  /\ UNCHANGED <<onData, reading, input, peer, emitter, frame, soon, buff, need, outcome,
                 finished, consumed>>

\* readn() of what is there already: no handler, the answer comes soon.
ReadFromBuffer(n) ==
  /\ buff >= n
  /\ soon' = soon \union {"answer"}
  /\ UNCHANGED <<onData, onError, reading>>

ReadFromPeer(n) ==
  /\ buff < n
  /\ onData' = "reader" /\ onError' = "reader"
  /\ reading' = TRUE
  /\ UNCHANGED soon

StartRead(n) ==
  /\ MayStart
  /\ need' = n
  /\ ReadFromBuffer(n) \/ ReadFromPeer(n)
  /\ user' = "reading"
  /\ started' = started + 1
  /\ UNCHANGED <<onFlush, input, output, peer, emitter, frame, buff, outcome, finished,
                 consumed>>

\* A callback that starts nothing.
Return ==
  /\ user = "callback"
  /\ user' = "idle"
  /\ UNCHANGED <<handlers, bufferevent, emitter, frame, soon, buff, need, history>>

\* Mutant: the transport does not let go of itself.
CloseHoldingSelf ==
  /\ user = "callback" \/ (user # "closed" /\ Loop)
  /\ closePending' = TRUE
  /\ onFlush' = "none" /\ onError' = "none"
  /\ user' = "closed"
  /\ UNCHANGED <<onData, bufferevent, suppressed, self, gone, frame, soon, buff, need, history>>

(***************************************************************************)
(* close(): close_pending is set first, so that on_data(nullptr) returns   *)
(* early and the data handler stays; the other handlers are cleared, and   *)
(* the bufferevent will call nothing back.                                 *)
(***************************************************************************)
Close ==
  /\ user = "callback" \/ (user # "closed" /\ Loop)
  /\ closePending' = TRUE
  /\ soon' = soon \union {"release"}
  /\ onFlush' = "none" /\ onError' = "none"
  /\ user' = "closed"
  /\ UNCHANGED <<onData, bufferevent, suppressed, self, gone, frame, buff, need, history>>

-----------------------------------------------------------------------------
(***************************************************************************)
(* The lambdas of readn() and write().                                     *)
(***************************************************************************)
\* The callback of the operation is called: control goes to the user.
CallBack(err) ==
  /\ user' = IF user = "closed" THEN "closed" ELSE "callback"
  /\ outcome' = err
  /\ finished' = finished + 1

NoCallBack == UNCHANGED <<user, outcome, finished>>

\* Mutant: the error handler is not cleared.
ReaderKeepsError ==
  /\ onData' = "none"
  /\ reading' = FALSE
  /\ UNCHANGED <<onFlush, onError>>

\* Mutant: only the handlers are cleared, reading goes on.
ReaderGoesOn ==
  /\ onData' = "none" /\ onError' = "none"
  /\ UNCHANGED <<onFlush, reading>>

\* on_data(nullptr) stops reading.
ReaderDone ==
  /\ onData' = "none" /\ onError' = "none"
  /\ reading' = FALSE
  /\ UNCHANGED onFlush

WriterDone ==
  /\ onFlush' = "none" /\ onError' = "none"
  /\ UNCHANGED onData

\* emit_error(), with what libevent has done to the bufferevent before it.
EmitError(err, stillReading) ==
  CASE onError = "reader" /\ ~closePending -> ReaderDone /\ CallBack(err)
    [] onError = "writer" /\ ~closePending ->
         WriterDone /\ reading' = stillReading /\ CallBack(err)
    [] OTHER -> UNCHANGED handlers /\ reading' = stillReading /\ NoCallBack

-----------------------------------------------------------------------------
(***************************************************************************)
(* The loop: libevent and call_soon().                                     *)
(***************************************************************************)
Arrive ==
  /\ Loop
  /\ reading /\ peer > 0 /\ ~gone
  /\ input' = input + 1
  /\ peer' = peer - 1
  /\ UNCHANGED <<handlers, reading, output, emitter, frame, soon, buff, need, user, history>>

\* The user is called back and takes what it asked for, or all there is.
Consume(bytes) ==
  /\ CallBack("ok")
  /\ \E taken \in {need, bytes} :
       /\ buff' = bytes - taken
       /\ consumed' = consumed + taken

(***************************************************************************)
(* handle_read_() takes the whole input; when no handler is set the data   *)
(* is lost.  The frame of handle_read_() stays on the stack while the user *)
(* is called back.                                                         *)
(***************************************************************************)
HandleRead ==
  /\ Loop /\ ~closePending
  /\ input > 0
  /\ input' = 0
  /\ frame' = TRUE
  /\ IF onData = "reader"
       THEN IF buff + input >= need
              THEN ReaderDone /\ Consume(buff + input)
              ELSE /\ buff' = buff + input
                   /\ NoCallBack
                   /\ UNCHANGED <<handlers, reading, consumed>>
       ELSE NoCallBack /\ UNCHANGED <<handlers, reading, buff, consumed>>
  /\ UNCHANGED <<output, peer, emitter, soon, need, started>>

\* Mutant: the end of file that was held back is forgotten.
HandleReadReturnsSilently ==
  /\ frame /\ user # "callback"
  /\ frame' = FALSE
  /\ suppressed' = FALSE
  /\ NoCallBack
  /\ UNCHANGED <<handlers, reading, input, output, peer, closePending, self, gone, soon, buff,
                 need, started, consumed>>

\* The end of handle_read_() delivers the end of file that was held back.
HandleReadReturns ==
  /\ frame /\ user # "callback"
  /\ frame' = FALSE
  /\ suppressed' = FALSE
  /\ IF suppressed
       THEN EmitError("eof", reading)
       ELSE NoCallBack /\ UNCHANGED <<handlers, reading>>
  /\ UNCHANGED <<input, output, peer, closePending, self, gone, soon, buff, need, started,
                 consumed>>

HandleWrite ==
  /\ Loop /\ ~closePending
  /\ output
  /\ output' = FALSE
  /\ IF onFlush = "writer"
       THEN WriterDone /\ CallBack("ok")
       ELSE UNCHANGED handlers /\ NoCallBack
  /\ UNCHANGED <<reading, input, peer, emitter, frame, soon, buff, need, started, consumed>>

\* Mutant: the end of file is not held back.
HandleEofAtOnce ==
  /\ Loop /\ ~closePending
  /\ reading /\ peer = 0
  /\ EmitError("eof", FALSE)
  /\ UNCHANGED <<input, output, peer, emitter, frame, soon, buff, need, started, consumed>>

(***************************************************************************)
(* handle_event_() with BEV_EVENT_EOF; libevent has stopped reading, and   *)
(* reports the end of file again when reading is enabled again.            *)
(***************************************************************************)
HandleEof ==
  /\ Loop /\ ~closePending
  /\ reading /\ peer = 0
  /\ IF input > 0
       THEN /\ suppressed' = TRUE
            /\ reading' = FALSE
            /\ UNCHANGED handlers /\ NoCallBack
       ELSE /\ EmitError("eof", FALSE)
            /\ UNCHANGED suppressed
  /\ UNCHANGED <<input, output, peer, closePending, self, gone, frame, soon, buff, need,
                 started, consumed>>

(***************************************************************************)
(* handle_event_() with a timeout or another error.  libevent runs the     *)
(* read callback first, so the input is empty, and gives up what it was    *)
(* doing.                                                                  *)
(***************************************************************************)
HandleFault(err) ==
  /\ Loop /\ ~closePending
  /\ reading \/ output
  /\ input = 0
  /\ output' = FALSE
  /\ EmitError(err, FALSE)
  /\ UNCHANGED <<input, peer, emitter, frame, soon, buff, need, started, consumed>>

\* The call_soon() of readn(): nothing looks at close_pending here.
Answer ==
  /\ Loop
  /\ "answer" \in soon
  /\ soon' = soon \ {"answer"}
  /\ Consume(buff)
  /\ UNCHANGED <<handlers, bufferevent, emitter, frame, need, started>>

\* The call_soon() of shutdown().
Release ==
  /\ Loop
  /\ "release" \in soon
  /\ soon' = soon \ {"release"}
  /\ self' = FALSE
  /\ UNCHANGED <<handlers, bufferevent, closePending, suppressed, gone, frame, buff, need,
                 user, history>>

\* ~EmitterBase() calls the callback of close().
Destroy ==
  /\ Loop
  /\ ~gone /\ ~self /\ user = "closed"
  /\ onData = "none" /\ onFlush = "none" /\ onError = "none"
  /\ gone' = TRUE
  /\ UNCHANGED <<handlers, bufferevent, closePending, suppressed, self, frame, soon, buff,
                 need, user, history>>

LoopStep ==
  \/ HandleRead \/ HandleReadReturns \/ HandleWrite \/ HandleEof \/ Answer \/ Release
  \/ Destroy \/ \E err \in Fault : HandleFault(err)

UserStep == StartWrite \/ (\E n \in 1..MaxRead : StartRead(n)) \/ Close

Next == LoopStep \/ Arrive \/ UserStep \/ Return

Spec == Init /\ [][Next]_vars

(***************************************************************************)
(* The loop runs; timeouts are set on every transport (connect.cpp:209),   *)
(* so that a wait which nothing else ends is ended by HandleFault; code    *)
(* that was called back returns.                                           *)
(***************************************************************************)
FairSpec == Spec /\ WF_vars(LoopStep) /\ WF_vars(Return)

-----------------------------------------------------------------------------
(***************************************************************************)
(* What was handed over is what the user took and what waits in its        *)
(* buffer; the input of the bufferevent still belongs to the stream.       *)
(***************************************************************************)
Stream == INSTANCE ByteStream WITH
  left <- peer + input,
  handed <- buff + consumed,
  due <- started - finished,
  end <- IF outcome \in {"none", "ok"} THEN "open" ELSE outcome,
  closed <- closePending

(***************************************************************************)
(* The transport implements the stream of bytes.  In particular            *)
(* handle_read_() never runs without a handler, where it would drop what   *)
(* it read, because handlers are cleared and reading is stopped together   *)
(* (libevent_emitter.hpp:207), also when the code that is called back      *)
(* starts the next operation or closes the transport.                      *)
(***************************************************************************)
StreamImplemented == Stream!Spec

(***************************************************************************)
(* When an operation ends with EofError, everything the peer sent before   *)
(* it closed was handed over (libevent_emitter.hpp:162 "Suppress EOF with  *)
(* data lingering in input buffer").                                       *)
(***************************************************************************)
EofIsLast == outcome = "eof" => peer = 0 /\ input = 0

(***************************************************************************)
(* Each write() and readn() calls back exactly once: whatever event comes  *)
(* after it ended, also in the same callback of libevent, finds no handler *)
(* of it.                                                                  *)
(***************************************************************************)
OneOutcome == user # "closed" => started - finished = (IF Pending THEN 1 ELSE 0)

(***************************************************************************)
(* Every operation ends, with success or with an error, or the transport   *)
(* is closed.                                                              *)
(***************************************************************************)
OperationsEnd == Pending ~> ~Pending

(***************************************************************************)
(* emitter.cpp:19 "the user expects a callback to be called after close is *)
(* successful": it is, unless the transport is closed while readn() waits  *)
(* for the peer.  Then the data handler, which captures the transport, is  *)
(* not cleared, and the transport is never destroyed.                      *)
(***************************************************************************)
CloseCallsBack == (user = "closed" /\ onData = "none") ~> gone
=============================================================================
