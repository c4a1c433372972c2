----------------------------- MODULE ByteStream -----------------------------
(***************************************************************************)
(* What a transport promises to the code that uses net::write() and        *)
(* net::readn() (net/transport.hpp), without handlers, bufferevents and    *)
(* callbacks of libevent: no byte of the peer is lost or handed over       *)
(* twice, each operation ends once, an end of file comes after the last    *)
(* byte, nothing follows an error, and a closed transport takes no byte.   *)
(***************************************************************************)
EXTENDS Naturals

VARIABLES
  left,    \* how many bytes of the peer were not handed over yet
  handed,  \* how many bytes were handed over
  due,     \* how many operations have still to call back
  end,     \* "open", or the error that ended the stream
  closed   \* the user has closed it

vars == <<left, handed, due, end, closed>>

Errors == {"eof", "timeout", "error"}

Init ==
  /\ left \in Nat
  /\ handed = 0 /\ due = 0
  /\ end = "open"
  /\ closed = FALSE

\* The user starts an operation, when it waits for none.
Start ==
  /\ ~closed /\ end = "open" /\ due = 0
  /\ due' = 1
  /\ UNCHANGED <<left, handed, end, closed>>

HandOver(n) ==
  /\ left' = left - n
  /\ handed' = handed + n

\* Some bytes, which are not enough for the operation.
Part(n) ==
  /\ ~closed /\ due = 1
  /\ HandOver(n)
  /\ UNCHANGED <<due, end, closed>>

\* What is already in the buffer of the user may be answered after close(); no byte moves.
Succeed(n) ==
  /\ due = 1 /\ end = "open"
  /\ closed => n = 0
  /\ HandOver(n)
  /\ due' = 0
  /\ UNCHANGED <<end, closed>>

Fail(err) ==
  /\ ~closed /\ due = 1 /\ end = "open"
  /\ err = "eof" => left = 0
  /\ end' = err
  /\ due' = 0
  /\ UNCHANGED <<left, handed, closed>>

Close ==
  /\ ~closed
  /\ closed' = TRUE
  /\ UNCHANGED <<left, handed, due, end>>

Next ==
  \/ Start \/ Close
  \/ \E n \in 1..left : Part(n)
  \/ \E n \in 0..left : Succeed(n)
  \/ \E err \in Errors : Fail(err)

Spec == Init /\ [][Next]_vars
=============================================================================
