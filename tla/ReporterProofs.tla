--------------------------- MODULE ReporterProofs ---------------------------
(***************************************************************************)
(* What a report promises Runnable, for any number of writers, of entries  *)
(* and of repeated calls: an entry that is reported as submitted is in     *)
(* both reporters, at the collector all entries are in one report, however *)
(* many were opened there, and nothing is submitted outside of it.         *)
(***************************************************************************)
EXTENDS Reporter, TLAPS

Request == [op      : {"none", "open", "write", "close"},
            entry   : Entry \union {NoEntry},
            report  : Nat,
            waiting : SUBSET {"ooni"},
            failed  : SUBSET Backend,
            tries   : Nat]

ReportTypes ==
  /\ openned \in [Backend -> BOOLEAN] /\ closed \in [Backend -> BOOLEAN]
  /\ prev \in [Backend -> Entry \union {NoEntry}]
  /\ stored \in [Backend -> SUBSET (Nat \X Entry)]
  /\ reportId \in Nat /\ created \in Nat

CallTypes ==
  /\ call \in [Caller -> Request]
  /\ phase \in {"start", "opening", "loop", "stop", "closing", "end"}
  /\ left \subseteq Entry /\ acked \subseteq Entry

\* Runnable opens and closes the report from one place, and submits only in between.
CallsOfPhase ==
  /\ phase = "opening" <=> call[Main].op = "open"
  /\ phase = "closing" <=> call[Main].op = "close"
  /\ call[Main].op # "write"
  /\ \A w \in Writer : call[w].op # "none" =>
       call[w].op = "write" /\ call[w].entry \in Entry /\ phase = "loop"
  /\ \A c \in Caller : call[c].op = "none" => call[c].waiting = {}
  /\ \A r \in Backend : closed[r] => phase \in {"closing", "end"}

\* The entry is in the report whose identifier Runnable has.
Kept(r, e) == <<Place(r), e>> \in stored[r]

\* The entry that makes the duplicate check answer with a success is stored.
PrevIsStored == \A r \in Backend : prev[r] # NoEntry => Kept(r, prev[r])

\* A reporter that answered a submission with a success has stored the entry.
AnswerIsStored == \A w \in Writer, r \in Backend :
  call[w].op = "write" /\ r \notin call[w].waiting \union call[w].failed =>
    Kept(r, call[w].entry)

IInv ==
  /\ ReportTypes /\ CallTypes
  /\ CallsOfPhase /\ PrevIsStored /\ AnswerIsStored
  /\ OneReportId /\ NoSilentLoss /\ WritesInsideReport

-----------------------------------------------------------------------------
LEMMA InitIInv == Init => IInv
<1>. SUFFICES ASSUME Init
              PROVE  IInv
  OBVIOUS
<1>1. ReportTypes
  BY DEF Init, ReportTypes
<1>2. Idle \in Request /\ \A c \in Caller : call[c] = Idle
  BY DEF Init, Idle, Request
<1>3. CallTypes
  BY <1>2 DEF Init, CallTypes
<1>4. CallsOfPhase
  BY <1>2 DEF Init, CallsOfPhase, Idle, Caller
<1>5. PrevIsStored
  BY DEF Init, PrevIsStored
<1>6. AnswerIsStored /\ WritesInsideReport
  BY <1>2 DEF AnswerIsStored, WritesInsideReport, Idle, Caller
<1>7. OneReportId /\ NoSilentLoss
  BY <1>2 DEF Init, OneReportId, NoSilentLoss, Backend, Idle, Caller
<1>. QED
  BY <1>1, <1>3, <1>4, <1>5, <1>6, <1>7 DEF IInv

-----------------------------------------------------------------------------
(***************************************************************************)
(* What Succeed() and Store() leave: an entry that is stored stays, the    *)
(* entry of a write is stored, and the other reporter is as it was.        *)
(***************************************************************************)
LEMMA SucceedKeeps ==
  ASSUME ReportTypes, NEW r \in Backend, NEW op, NEW e, op = "write" => e \in Entry,
         Succeed(r, op, e)
  PROVE  /\ openned' \in [Backend -> BOOLEAN] /\ closed' \in [Backend -> BOOLEAN]
         /\ prev' \in [Backend -> Entry \union {NoEntry}]
         /\ \A b \in Backend : openned'[b] = (openned[b] \/ (b = r /\ op = "open"))
         /\ \A b \in Backend : closed'[b] = (closed[b] \/ (b = r /\ op = "close"))
         /\ \A b \in Backend : prev'[b] = IF b = r /\ op = "write" THEN e ELSE prev[b]
BY DEF ReportTypes, Succeed

LEMMA StoreKeeps ==
  ASSUME ReportTypes, NEW r \in Backend, NEW op, NEW id \in Nat, NEW e,
         op = "write" => e \in Entry, Store(r, op, id, e)
  PROVE  /\ stored' \in [Backend -> SUBSET (Nat \X Entry)]
         /\ \A b \in Backend : stored[b] \subseteq stored'[b]
         /\ \A b \in Backend : b # r => stored'[b] = stored[b]
         /\ op = "write" => stored'[r] = stored[r] \union {<<id, e>>}
         /\ op # "write" => stored' = stored
<1>1. CASE op = "write"
  <2>1. stored' = [stored EXCEPT ![r] = stored[r] \union {<<id, e>>}]
    BY <1>1 DEF Store
  <2>2. stored[r] \union {<<id, e>>} \in SUBSET (Nat \X Entry)
    BY <1>1 DEF ReportTypes
  <2>. QED
    BY <1>1, <2>1, <2>2 DEF ReportTypes
<1>2. CASE op # "write"
  BY <1>2 DEF Store, ReportTypes
<1>. QED
  BY <1>1, <1>2

\* What the file does within a call: the collector's side of the report is as it was.
LEMMA FileKeeps ==
  ASSUME ReportTypes, PrevIsStored, NEW op \in {"open", "write", "close"}, NEW e,
         op = "write" => e \in Entry, NEW failed \in SUBSET {"file"}, FileAnswers(op, e, failed),
         NoEntry \notin Entry, reportId' = reportId
  PROVE  /\ openned' \in [Backend -> BOOLEAN] /\ closed' \in [Backend -> BOOLEAN]
         /\ prev' \in [Backend -> Entry \union {NoEntry}]
         /\ stored' \in [Backend -> SUBSET (Nat \X Entry)]
         /\ \A b \in Backend : stored[b] \subseteq stored'[b]
         /\ PrevIsStored'
         /\ op = "write" /\ "file" \notin failed => Kept("file", e)'
         /\ openned'["ooni"] = openned["ooni"] /\ closed'["ooni"] = closed["ooni"]
         /\ stored'["ooni"] = stored["ooni"]
         /\ \A b \in Backend : closed'[b] => closed[b] \/ op = "close"
<1>0. "file" \in Backend /\ "ooni" \in Backend /\ Place("file") = 0 /\ Place("file")' = 0
      /\ Place("ooni")' = Place("ooni")
  BY DEF Backend, Place
<1>1. CASE Succeed("file", op, e) /\ Store("file", op, 0, e)
  <2>1. /\ openned' \in [Backend -> BOOLEAN] /\ closed' \in [Backend -> BOOLEAN]
        /\ prev' \in [Backend -> Entry \union {NoEntry}]
        /\ openned'["ooni"] = openned["ooni"] /\ closed'["ooni"] = closed["ooni"]
        /\ \A b \in Backend : closed'[b] => closed[b] \/ op = "close"
        /\ \A b \in Backend : prev'[b] = IF b = "file" /\ op = "write" THEN e ELSE prev[b]
    BY <1>0, <1>1, SucceedKeeps DEF ReportTypes
  <2>2. /\ stored' \in [Backend -> SUBSET (Nat \X Entry)]
        /\ \A b \in Backend : stored[b] \subseteq stored'[b]
        /\ stored'["ooni"] = stored["ooni"]
        /\ op = "write" => <<0, e>> \in stored'["file"]
    BY <1>0, <1>1, StoreKeeps
  <2>3. op = "write" => Kept("file", e)'
    BY <1>0, <2>2 DEF Kept
  <2>4. PrevIsStored'
    <3>. SUFFICES ASSUME NEW b \in Backend, prev'[b] # NoEntry
                  PROVE  Kept(b, prev[b])'
      BY DEF PrevIsStored
    <3>1. CASE b = "file" /\ op = "write"
      BY <2>1, <2>3, <3>1 DEF Kept
    <3>2. CASE ~(b = "file" /\ op = "write")
      <4>1. prev'[b] = prev[b] /\ Kept(b, prev[b])
        BY <2>1, <3>2 DEF PrevIsStored
      <4>2. Place(b)' = Place(b)
        BY <1>0 DEF Backend
      <4>. QED
        BY <2>2, <4>1, <4>2 DEF Kept
    <3>. QED
      BY <3>1, <3>2
  <2>. QED
    BY <2>1, <2>2, <2>3, <2>4
<1>2. CASE UNCHANGED <<openned, closed, prev, stored>>
  <2>1. op = "write" /\ "file" \notin failed => Kept("file", e)'
    <3>1. HAVE op = "write" /\ "file" \notin failed
    <3>2. CASE Accept("file", op, e) = "go"
      <4>1. PICK out \in FileOutcome(op) :
              /\ failed = (IF out[1] THEN {} ELSE {"file"})
              /\ IF out[1] THEN Succeed("file", op, e) /\ Store("file", op, 0, e)
                           ELSE Fail("file", op, e) /\ UNCHANGED stored
        BY <3>2 DEF FileAnswers
      <4>2. Store("file", op, 0, e)
        BY <3>1, <4>1
      <4>3. <<0, e>> \in stored'["file"]
        BY <3>1, <4>2 DEF Store, ReportTypes, Backend
      <4>. QED
        BY <1>0, <4>3 DEF Kept
    <3>3. CASE Accept("file", op, e) # "go"
      <4>1. Accept("file", op, e) = "ok"
        BY <3>1, <3>3 DEF FileAnswers
      <4>2. prev["file"] = e /\ e \in Entry
        BY <3>1, <4>1 DEF Accept
      <4>3. Kept("file", e)
        BY <1>0, <4>2 DEF PrevIsStored
      <4>. QED
        BY <1>0, <1>2, <4>3 DEF Kept
    <3>. QED
      BY <3>2, <3>3
  <2>2. PrevIsStored'
    BY <1>2 DEF PrevIsStored, Kept, Place
  <2>. QED
    BY <1>2, <2>1, <2>2 DEF ReportTypes
<1>3. \/ Succeed("file", op, e) /\ Store("file", op, 0, e)
      \/ UNCHANGED <<openned, closed, prev, stored>>
  BY DEF FileAnswers, Fail
<1>. QED
  BY <1>1, <1>2, <1>3

(***************************************************************************)
(* The record of a call, after the file has answered and the request to    *)
(* the collector was sent.                                                 *)
(***************************************************************************)
Made(c, op, e, req) ==
  /\ call' = [call EXCEPT ![c] = req]
  /\ req \in Request /\ req.op = op /\ req.entry = e /\ req.report = reportId
  /\ req.waiting # {} => OoniAccepts(op, e) = "go"
  /\ op = "write" =>
       \A r \in Backend : r \notin req.waiting \union req.failed => Kept(r, e)'

LEMMA CallMakes ==
  ASSUME IInv, NEW c \in Caller, NEW op \in {"open", "write", "close"},
         NEW e \in Entry \union {NoEntry}, op = "write" => e \in Entry, Call(c, op, e)
  PROVE  /\ openned' \in [Backend -> BOOLEAN] /\ closed' \in [Backend -> BOOLEAN]
         /\ prev' \in [Backend -> Entry \union {NoEntry}]
         /\ stored' \in [Backend -> SUBSET (Nat \X Entry)]
         /\ \A b \in Backend : stored[b] \subseteq stored'[b]
         /\ PrevIsStored'
         /\ openned'["ooni"] = openned["ooni"] /\ closed'["ooni"] = closed["ooni"]
         /\ stored'["ooni"] = stored["ooni"]
         /\ \A b \in Backend : closed'[b] => closed[b] \/ op = "close"
         /\ reportId' = reportId /\ created' = created
         /\ \E req : Made(c, op, e, req)
<1>1. PICK failed \in SUBSET {"file"} :
        /\ FileAnswers(op, e, failed)
        /\ call' = [call EXCEPT ![c] =
             [op      |-> op,
              entry   |-> e,
              report  |-> reportId,
              waiting |-> IF OoniAccepts(op, e) = "go" THEN {"ooni"} ELSE {},
              failed  |-> failed \union
                            (IF OoniAccepts(op, e) = "error" THEN {"ooni"} ELSE {}),
              tries   |-> call[c].tries + 1]]
  BY DEF Call
<1>0. reportId' = reportId /\ created' = created
  BY DEF Call
<1>2. /\ openned' \in [Backend -> BOOLEAN] /\ closed' \in [Backend -> BOOLEAN]
      /\ prev' \in [Backend -> Entry \union {NoEntry}]
      /\ stored' \in [Backend -> SUBSET (Nat \X Entry)]
      /\ \A b \in Backend : stored[b] \subseteq stored'[b]
      /\ PrevIsStored'
      /\ op = "write" /\ "file" \notin failed => Kept("file", e)'
      /\ openned'["ooni"] = openned["ooni"] /\ closed'["ooni"] = closed["ooni"]
      /\ stored'["ooni"] = stored["ooni"]
      /\ \A b \in Backend : closed'[b] => closed[b] \/ op = "close"
  BY <1>0, <1>1, FileKeeps, ReporterAssumption DEF IInv
<1>. DEFINE req == [op      |-> op,
                    entry   |-> e,
                    report  |-> reportId,
                    waiting |-> IF OoniAccepts(op, e) = "go" THEN {"ooni"} ELSE {},
                    failed  |-> failed \union
                                  (IF OoniAccepts(op, e) = "error" THEN {"ooni"} ELSE {}),
                    tries   |-> call[c].tries + 1]
<1>3. req \in Request
  <2>1. call[c].tries + 1 \in Nat /\ reportId \in Nat
    BY DEF IInv, CallTypes, ReportTypes, Request
  <2>2. failed \union (IF OoniAccepts(op, e) = "error" THEN {"ooni"} ELSE {}) \in SUBSET Backend
    BY DEF Backend
  <2>. QED
    BY <2>1, <2>2 DEF Request
<1>4. ASSUME op = "write", NEW r \in Backend, r \notin req.waiting \union req.failed
      PROVE  Kept(r, e)'
  <2>1. CASE r = "file"
    BY <1>2, <1>4, <2>1
  <2>2. CASE r = "ooni"
    <3>1. OoniAccepts(op, e) # "go" /\ OoniAccepts(op, e) # "error"
      BY <1>4, <2>2
    <3>2. prev["ooni"] = e
      BY <1>4, <3>1 DEF OoniAccepts, Accept
    <3>3. e \in Entry /\ e # NoEntry
      BY <1>4, ReporterAssumption
    <3>4. Kept("ooni", e)
      BY <3>2, <3>3 DEF IInv, PrevIsStored, Backend
    <3>. QED
      BY <1>0, <1>2, <2>2, <3>4 DEF Kept, Place
  <2>. QED
    BY <2>1, <2>2 DEF Backend
<1>5. Made(c, op, e, req)
  BY <1>1, <1>3, <1>4 DEF Made
<1>. QED
  BY <1>0, <1>2, <1>5

\* What such a call keeps, as soon as the calls of the other callers are the ones of its phase.
LEMMA CallKeeps ==
  ASSUME IInv, NEW c \in Caller, NEW op \in {"open", "write", "close"},
         NEW e \in Entry \union {NoEntry}, op = "write" => e \in Entry, Call(c, op, e),
         c = Main <=> op # "write", op = "write" => phase = "loop",
         op # "write" => \A w \in Writer : call[w].op = "none",
         phase' = (CASE op = "open" -> "opening" [] op = "close" -> "closing" [] OTHER -> phase),
         op = "open" => phase \in {"start", "opening"},
         left' \subseteq Entry, UNCHANGED acked
  PROVE  IInv'
<1>1. PICK req : Made(c, op, e, req)
  BY CallMakes
<1>2. /\ openned' \in [Backend -> BOOLEAN] /\ closed' \in [Backend -> BOOLEAN]
      /\ prev' \in [Backend -> Entry \union {NoEntry}]
      /\ stored' \in [Backend -> SUBSET (Nat \X Entry)]
      /\ \A b \in Backend : stored[b] \subseteq stored'[b]
      /\ PrevIsStored'
      /\ openned'["ooni"] = openned["ooni"] /\ closed'["ooni"] = closed["ooni"]
      /\ stored'["ooni"] = stored["ooni"]
      /\ \A b \in Backend : closed'[b] => closed[b] \/ op = "close"
      /\ reportId' = reportId /\ created' = created
  BY CallMakes
<1>3. /\ call \in [Caller -> Request] /\ call' = [call EXCEPT ![c] = req]
      /\ req \in Request /\ req.op = op /\ req.entry = e /\ req.report = reportId
      /\ call'[c] = req /\ \A d \in Caller : d # c => call'[d] = call[d]
  BY <1>1 DEF Made, IInv, CallTypes
<1>4. phase' \in {"start", "opening", "loop", "stop", "closing", "end"}
      /\ (phase' = "opening" <=> op = "open" \/ (op = "write" /\ phase = "opening"))
      /\ (phase' = "closing" <=> op = "close" \/ (op = "write" /\ phase = "closing"))
      /\ (op = "write" => phase' = phase)
  BY DEF IInv, CallTypes
<1>5. ReportTypes' /\ CallTypes'
  BY <1>2, <1>3, <1>4 DEF ReportTypes, CallTypes, IInv
<1>6. CallsOfPhase'
  <2>1. Main \in Caller /\ Writer \subseteq Caller /\ Main \notin Writer
    BY ReporterAssumption DEF Caller
  <2>2. /\ phase' = "opening" <=> call'[Main].op = "open"
        /\ phase' = "closing" <=> call'[Main].op = "close"
        /\ call'[Main].op # "write"
    BY <1>3, <1>4, <2>1 DEF IInv, CallsOfPhase
  <2>3. \A w \in Writer : call'[w].op # "none" =>
          call'[w].op = "write" /\ call'[w].entry \in Entry /\ phase' = "loop"
    BY <1>3, <1>4, <2>1 DEF IInv, CallsOfPhase
  <2>4. \A d \in Caller : call'[d].op = "none" => call'[d].waiting = {}
    BY <1>3 DEF IInv, CallsOfPhase
  <2>5. \A r \in Backend : closed'[r] => phase' \in {"closing", "end"}
    BY <1>2, <1>4 DEF IInv, CallsOfPhase
  <2>. QED
    BY <2>2, <2>3, <2>4, <2>5 DEF CallsOfPhase
<1>7. OneReportId'
  <2>1. ASSUME call'[Main].op = "open", call'[Main].waiting # {}
        PROVE  reportId = 0
    <3>1. CASE c = Main
      <4>1. OoniAccepts("open", e) = "go"
        BY <1>1, <1>3, <2>1, <3>1 DEF Made
      <4>. QED
        BY <4>1 DEF OoniAccepts, Accept, IInv, OneReportId
    <3>2. CASE c # Main
      BY <1>3, <2>1, <3>2 DEF IInv, OneReportId, Caller
    <3>. QED
      BY <3>1, <3>2
  <2>. QED
    BY <1>2, <2>1 DEF IInv, OneReportId
<1>8. AnswerIsStored'
  <2>. SUFFICES ASSUME NEW w \in Writer, NEW r \in Backend, call'[w].op = "write",
                       r \notin call'[w].waiting \union call'[w].failed
                PROVE  Kept(r, call[w].entry)'
    BY DEF AnswerIsStored
  <2>1. CASE w = c
    BY <1>1, <1>3, <2>1 DEF Made, Kept
  <2>2. CASE w # c
    <3>1. call'[w] = call[w]
      BY <1>3, <2>2 DEF Caller
    <3>2. call[w].entry \in Entry
      BY <3>1 DEF IInv, CallsOfPhase
    <3>3. Kept(r, call[w].entry)
      BY <3>1 DEF IInv, AnswerIsStored
    <3>. QED
      BY <1>2, <3>1, <3>3 DEF Kept, Place
  <2>. QED
    BY <2>1, <2>2
<1>9. NoSilentLoss'
  BY <1>2 DEF IInv, NoSilentLoss, Place
<1>10. WritesInsideReport'
  <2>. SUFFICES ASSUME NEW w \in Writer, call'[w].waiting # {}
                PROVE  /\ openned'["ooni"] /\ ~closed'["ooni"] /\ call'[Main].op # "close"
                       /\ call'[w].report = reportId'
    BY DEF WritesInsideReport
  <2>1. w \in Caller /\ Main \in Caller /\ w # Main
    BY ReporterAssumption DEF Caller
  <2>2. CASE c = w
    <3>1. op = "write" /\ OoniAccepts("write", e) = "go"
      BY <1>1, <1>3, <2>1, <2>2 DEF Made
    <3>2. openned["ooni"] /\ ~closed["ooni"]
      BY <3>1 DEF OoniAccepts, Accept
    <3>3. call'[Main].op # "close"
      BY <1>3, <2>1, <2>2, <3>1 DEF IInv, CallsOfPhase
    <3>. QED
      BY <1>2, <1>3, <2>2, <3>2, <3>3
  <2>3. CASE c # w
    <3>1. call[w].waiting # {}
      BY <1>3, <2>1, <2>3
    <3>2. op = "write" /\ c # Main
      BY <2>1, <3>1 DEF IInv, CallsOfPhase
    <3>. QED
      BY <1>2, <1>3, <2>1, <3>1, <3>2 DEF IInv, WritesInsideReport
  <2>. QED
    BY <2>2, <2>3
<1>. QED
  BY <1>2, <1>5, <1>6, <1>7, <1>8, <1>9, <1>10 DEF IInv

-----------------------------------------------------------------------------
\* The collector answers: an identifier, a stored entry, or an error.
LEMMA AnswerKeepsIInv ==
  ASSUME IInv, NEW c \in Caller, CollectorAnswers(c)
  PROVE  IInv'
<1>1. PICK served \in BOOLEAN, heard \in BOOLEAN :
        /\ heard => served
        /\ call' = [call EXCEPT ![c].waiting = {},
                                ![c].failed = IF served /\ heard THEN @ ELSE @ \union {"ooni"}]
        /\ IF served /\ heard
             THEN Succeed("ooni", call[c].op, call[c].entry)
             ELSE Fail("ooni", call[c].op, call[c].entry)
        /\ IF served
             THEN Store("ooni", call[c].op, call[c].report, call[c].entry)
             ELSE UNCHANGED stored
        /\ created' = IF served /\ call[c].op = "open" THEN created + 1 ELSE created
        /\ reportId' = IF served /\ heard /\ call[c].op = "open" THEN created + 1 ELSE reportId
  BY DEF CollectorAnswers
<1>2. UNCHANGED <<stream, phase, left, acked>> /\ call[c].waiting # {}
  BY DEF CollectorAnswers
<1>. DEFINE op == call[c].op
            e  == call[c].entry
            success == served /\ heard
            After(b, x) == <<Place(b)', x>> \in stored'[b]
<1>3. /\ call \in [Caller -> Request] /\ call[c] \in Request /\ op \in {"open", "write", "close"}
      /\ (c = Main <=> op # "write") /\ (op = "write" => e \in Entry /\ phase = "loop")
      /\ (op = "open" <=> phase = "opening") /\ (op = "close" <=> phase = "closing")
  BY <1>2, ReporterAssumption DEF IInv, CallTypes, CallsOfPhase, Caller, Request
<1>4. /\ call' \in [Caller -> Request]
      /\ \A d \in Caller : /\ call'[d].op = call[d].op /\ call'[d].entry = call[d].entry
                           /\ call'[d].report = call[d].report
      /\ \A d \in Caller : d # c => call'[d] = call[d]
      /\ call'[c].waiting = {} /\ ("ooni" \notin call'[c].failed => success)
      /\ \A d \in Caller, r \in {"file"} : r \in call'[d].failed <=> r \in call[d].failed
  BY <1>1, <1>3 DEF Request, Backend
<1>5. "ooni" \in Backend /\ "file" \in Backend /\ call[c].report \in Nat /\ served \in BOOLEAN
      /\ success \in BOOLEAN
  BY <1>3 DEF Backend, Request
<1>6. /\ openned' \in [Backend -> BOOLEAN] /\ closed' \in [Backend -> BOOLEAN]
      /\ prev' \in [Backend -> Entry \union {NoEntry}]
      /\ openned'["ooni"] = (openned["ooni"] \/ (success /\ op = "open"))
      /\ closed'["ooni"] => closed["ooni"] \/ op = "close"
      /\ \A b \in Backend : closed'[b] => closed[b] \/ op = "close"
      /\ \A b \in Backend : prev'[b] = IF b = "ooni" /\ success /\ op = "write" THEN e ELSE prev[b]
  <2>1. CASE success
    <3>1. Succeed("ooni", op, e)
      BY <1>1, <2>1
    <3>. QED
      BY <1>3, <1>5, <2>1, <3>1, SucceedKeeps DEF IInv
  <2>2. CASE ~success
    <3>1. UNCHANGED <<openned, closed, prev>>
      BY <1>1, <2>2 DEF Fail
    <3>. QED
      BY <1>5, <2>2, <3>1 DEF IInv, ReportTypes
  <2>. QED
    BY <2>1, <2>2
<1>7. /\ stored' \in [Backend -> SUBSET (Nat \X Entry)]
      /\ \A b \in Backend : stored[b] \subseteq stored'[b]
      /\ stored'["file"] = stored["file"]
      /\ op # "write" => stored' = stored
      /\ success /\ op = "write" => <<call[c].report, e>> \in stored'["ooni"]
      /\ \A x \in stored'["ooni"] :
           x \in stored["ooni"] \/ (op = "write" /\ x = <<call[c].report, e>>)
  <2>1. CASE served
    <3>1. Store("ooni", op, call[c].report, e)
      BY <1>1, <2>1
    <3>2. /\ stored' \in [Backend -> SUBSET (Nat \X Entry)]
          /\ \A b \in Backend : stored[b] \subseteq stored'[b]
          /\ \A b \in Backend : b # "ooni" => stored'[b] = stored[b]
          /\ op = "write" => stored'["ooni"] = stored["ooni"] \union {<<call[c].report, e>>}
          /\ op # "write" => stored' = stored
      BY <1>3, <1>5, <3>1, StoreKeeps DEF IInv
    <3>. QED
      BY <1>5, <3>2
  <2>2. CASE ~served
    BY <1>1, <2>2 DEF IInv, ReportTypes
  <2>. QED
    BY <1>5, <2>1, <2>2
<1>8. reportId' \in Nat /\ created' \in Nat
      /\ (op # "open" => reportId' = reportId)
      /\ (success /\ op = "open" => reportId' # 0)
      /\ (~success => reportId' = reportId)
  BY <1>1 DEF IInv, ReportTypes
\* A write goes to the report whose identifier Runnable has.
<1>9. op = "write" => call[c].report = reportId /\ openned["ooni"] /\ reportId # 0
  <2>1. op = "write" => c \in Writer
    BY <1>3 DEF Caller
  <2>. QED
    BY <1>2, <2>1 DEF IInv, WritesInsideReport, OneReportId
\* When an identifier comes, nothing is stored at the collector yet.
<1>10. op = "open" => reportId = 0 /\ stored["ooni"] = {} /\ c = Main
  BY <1>2, <1>3 DEF IInv, OneReportId
<1>11. ASSUME NEW b \in Backend, NEW x, Kept(b, x)
       PROVE  After(b, x)
  <2>1. CASE b = "file"
    BY <1>7, <1>11, <2>1 DEF Kept, Place
  <2>2. CASE b = "ooni"
    <3>1. op # "open"
      BY <1>10, <1>11, <2>2 DEF Kept
    <3>. QED
      BY <1>7, <1>8, <1>11, <2>2, <3>1 DEF Kept, Place
  <2>. QED
    BY <2>1, <2>2 DEF Backend
<1>12. success /\ op = "write" => After("ooni", e)
  BY <1>7, <1>8, <1>9 DEF Place
<1>13. ReportTypes' /\ CallTypes'
  BY <1>2, <1>4, <1>6, <1>7, <1>8 DEF ReportTypes, CallTypes, IInv
<1>14. PrevIsStored'
  <2>. SUFFICES ASSUME NEW b \in Backend, prev'[b] # NoEntry
                PROVE  After(b, prev'[b])
    BY DEF PrevIsStored, Kept
  <2>1. CASE b = "ooni" /\ success /\ op = "write"
    BY <1>6, <1>12, <2>1
  <2>2. CASE ~(b = "ooni" /\ success /\ op = "write")
    <3>1. prev'[b] = prev[b] /\ Kept(b, prev[b])
      BY <1>6, <2>2 DEF IInv, PrevIsStored
    <3>. QED
      BY <1>11, <3>1
  <2>. QED
    BY <2>1, <2>2
<1>15. CallsOfPhase'
  <2>1. Main \in Caller /\ Writer \subseteq Caller
    BY DEF Caller
  <2>2. \A d \in Caller : call'[d].op = "none" => call'[d].waiting = {}
    BY <1>4 DEF IInv, CallsOfPhase
  <2>3. \A r \in Backend : closed'[r] => phase' \in {"closing", "end"}
    BY <1>2, <1>3, <1>6 DEF IInv, CallsOfPhase
  <2>. QED
    BY <1>2, <1>4, <2>1, <2>2, <2>3 DEF IInv, CallsOfPhase
<1>16. OneReportId'
  <2>1. CASE op = "open"
    <3>1. c = Main /\ call'[Main].waiting = {} /\ stored'["ooni"] = {} /\ ~openned["ooni"]
          /\ reportId = 0
      BY <1>4, <1>7, <1>10, <2>1 DEF IInv, OneReportId
    <3>2. openned'["ooni"] <=> reportId' # 0
      BY <1>5, <1>6, <1>8, <2>1, <3>1
    <3>. QED
      BY <3>1, <3>2 DEF OneReportId
  <2>2. CASE op # "open"
    <3>1. reportId' = reportId /\ openned'["ooni"] = openned["ooni"]
      BY <1>5, <1>6, <1>8, <2>2 DEF IInv, ReportTypes
    <3>2. call'[Main].op = "open" => call'[Main] = call[Main]
      BY <1>4, <2>2 DEF Caller
    <3>3. \A x \in stored'["ooni"] : x[1] = reportId /\ reportId # 0
      BY <1>7, <1>9 DEF IInv, OneReportId
    <3>. QED
      BY <3>1, <3>2, <3>3 DEF IInv, OneReportId
  <2>. QED
    BY <2>1, <2>2
<1>17. AnswerIsStored'
  <2>. SUFFICES ASSUME NEW w \in Writer, NEW r \in Backend, call'[w].op = "write",
                       r \notin call'[w].waiting \union call'[w].failed
                PROVE  After(r, call'[w].entry)
    BY DEF AnswerIsStored, Kept
  <2>1. w \in Caller /\ call[w].op = "write" /\ call'[w].entry = call[w].entry
    BY <1>4 DEF Caller
  <2>2. CASE w = c /\ r = "ooni"
    BY <1>4, <1>12, <2>1, <2>2
  <2>3. CASE ~(w = c /\ r = "ooni")
    <3>1. r \notin call[w].failed /\ r \notin call[w].waiting
      BY <1>3, <1>4, <2>1, <2>3 DEF Request, Backend
    <3>2. Kept(r, call[w].entry)
      BY <2>1, <3>1 DEF IInv, AnswerIsStored
    <3>. QED
      BY <1>11, <2>1, <3>2
  <2>. QED
    BY <2>2, <2>3
<1>18. NoSilentLoss'
  <2>. SUFFICES ASSUME NEW x \in acked, NEW r \in Backend
                PROVE  After(r, x)
    BY <1>2 DEF NoSilentLoss
  <2>1. Kept(r, x)
    BY DEF IInv, NoSilentLoss, Kept
  <2>. QED
    BY <1>11, <2>1
<1>19. WritesInsideReport'
  <2>. SUFFICES ASSUME NEW w \in Writer, call'[w].waiting # {}
                PROVE  /\ openned'["ooni"] /\ ~closed'["ooni"] /\ call'[Main].op # "close"
                       /\ call'[w].report = reportId'
    BY DEF WritesInsideReport
  <2>1. w \in Caller /\ Main \in Caller /\ w # c /\ call[w].waiting # {} /\ call[w].op # "none"
    BY <1>4 DEF Caller, IInv, CallsOfPhase
  <2>2. phase = "loop" /\ op = "write"
    BY <1>3, <2>1 DEF IInv, CallsOfPhase
  <2>3. /\ openned["ooni"] /\ ~closed["ooni"] /\ call[Main].op # "close"
        /\ call[w].report = reportId
    BY <2>1 DEF IInv, WritesInsideReport
  <2>. QED
    BY <1>4, <1>6, <1>8, <2>1, <2>2, <2>3
<1>. QED
  BY <1>13, <1>14, <1>15, <1>16, <1>17, <1>18, <1>19 DEF IInv

\* A call has come to its callback: the caller is idle again.
LEMMA ReturnKeepsIInv ==
  ASSUME IInv, NEW c \in Caller, NEW op \in {"open", "write", "close"}, Returned(c, op),
         call' = [call EXCEPT ![c] = Idle], UNCHANGED <<reporterVars, left>>,
         CASE op = "open"  -> phase' \in {"loop", "stop"}
           [] op = "close" -> phase' = "end"
           [] OTHER        -> UNCHANGED phase,
         acked' = acked \/ (op = "write" /\ Succeeded(c) /\ acked' = acked \union {call[c].entry})
  PROVE  IInv'
<1>1. /\ call \in [Caller -> Request] /\ call' \in [Caller -> Request]
      /\ call'[c] = Idle /\ \A d \in Caller : d # c => call'[d] = call[d]
  BY DEF IInv, CallTypes, Idle, Request
<1>2. Main \in Caller /\ Writer \subseteq Caller /\ Main \notin Writer
  BY ReporterAssumption DEF Caller
<1>3. Idle.op = "none" /\ Idle.waiting = {}
  BY DEF Idle
<1>4. /\ call[c].op = op /\ (op = "open" <=> phase = "opening") /\ (op = "close" <=> phase = "closing")
      /\ (c = Main <=> op # "write") /\ (op = "write" => call[c].entry \in Entry /\ phase = "loop")
  BY <1>2 DEF Returned, IInv, CallsOfPhase, Caller
<1>5. ReportTypes' /\ PrevIsStored'
  BY DEF IInv, ReportTypes, PrevIsStored, Kept, Place, reporterVars
<1>6. CallTypes'
  BY <1>1, <1>4 DEF IInv, CallTypes
<1>7. CallsOfPhase'
  BY <1>1, <1>2, <1>3, <1>4 DEF IInv, CallsOfPhase, reporterVars
<1>8. OneReportId' /\ WritesInsideReport'
  BY <1>1, <1>2, <1>3 DEF IInv, OneReportId, WritesInsideReport, reporterVars
<1>9. AnswerIsStored'
  BY <1>1, <1>2, <1>3 DEF IInv, AnswerIsStored, Kept, Place, reporterVars
<1>10. NoSilentLoss'
  <2>1. CASE acked' = acked
    BY <2>1 DEF IInv, NoSilentLoss, Place, reporterVars
  <2>2. CASE op = "write" /\ Succeeded(c) /\ acked' = acked \union {call[c].entry}
    <3>1. \A r \in Backend : Kept(r, call[c].entry)
      BY <1>2, <1>4, <2>2 DEF IInv, AnswerIsStored, Returned, Succeeded, Caller
    <3>. QED
      BY <2>2, <3>1 DEF IInv, NoSilentLoss, Kept, Place, reporterVars
  <2>. QED
    BY <2>1, <2>2
<1>. QED
  BY <1>5, <1>6, <1>7, <1>8, <1>9, <1>10 DEF IInv

LEMMA StepIInv == IInv /\ [Next]_vars => IInv'
<1>. SUFFICES ASSUME IInv, [Next]_vars
              PROVE  IInv'
  OBVIOUS
<1>0. Main \in Caller /\ Writer \subseteq Caller /\ Main \notin Writer /\ left \subseteq Entry
  BY ReporterAssumption DEF Caller, IInv, CallTypes
<1>1. CASE Open
  <2>1. \A w \in Writer : call[w].op = "none"
    BY <1>1 DEF Open, IInv, CallsOfPhase
  <2>. QED
    BY <1>0, <1>1, <2>1, CallKeeps DEF Open
<1>2. CASE OpenReturns
  BY <1>0, <1>2, ReturnKeepsIInv DEF OpenReturns
<1>3. CASE Close
  <2>1. \A w \in Writer : call[w].op = "none"
    BY <1>0, <1>3 DEF Close, Idle
  <2>. QED
    BY <1>0, <1>3, <2>1, CallKeeps DEF Close
<1>4. CASE CloseReturns
  BY <1>0, <1>4, ReturnKeepsIInv DEF CloseReturns
<1>5. ASSUME NEW w \in Writer, WriteReturns(w)
      PROVE  IInv'
  BY <1>0, <1>5, ReturnKeepsIInv DEF WriteReturns
<1>6. ASSUME NEW w \in Writer, NEW e \in Entry, Write(w, e)
      PROVE  IInv'
  <2>1. left' \subseteq Entry
    BY <1>0, <1>6 DEF Write
  <2>. QED
    BY <1>0, <1>6, <2>1, CallKeeps DEF Write
<1>7. ASSUME NEW c \in Caller, CollectorAnswers(c)
      PROVE  IInv'
  BY <1>7, AnswerKeepsIInv
<1>8. ASSUME NEW c \in Caller, NEW op \in {"open", "write", "close"}, Again(c, op)
      PROVE  IInv'
  <2>1. call[c].op = op /\ call[c].entry \in Entry \union {NoEntry}
    BY <1>8 DEF Again, Returned, IInv, CallTypes, Request
  <2>2. /\ c = Main <=> op # "write"
        /\ op = "write" => call[c].entry \in Entry /\ phase = "loop"
        /\ (op = "open" <=> phase = "opening") /\ (op = "close" <=> phase = "closing")
        /\ op # "write" => \A w \in Writer : call[w].op = "none"
    BY <1>0, <2>1 DEF IInv, CallsOfPhase, Caller
  <2>. QED
    BY <1>0, <1>8, <2>1, <2>2, CallKeeps DEF Again
<1>9. CASE UNCHANGED vars
  BY <1>9 DEF vars, reporterVars, IInv, ReportTypes, CallTypes, CallsOfPhase, Kept, Place,
              PrevIsStored, AnswerIsStored, OneReportId, NoSilentLoss, WritesInsideReport
<1>. QED
  BY <1>1, <1>2, <1>3, <1>4, <1>5, <1>6, <1>7, <1>8, <1>9 DEF Next

THEOREM ReporterInvariant == Spec => []IInv
BY InitIInv, StepIInv, PTL DEF Spec

-----------------------------------------------------------------------------
\* An entry whose submission Runnable is told to be a success is in the file and at the
\* collector, whatever the duplicate check answered before (base_reporter.cpp).
THEOREM SubmittedMeansStored == Spec => []NoSilentLoss
<1>1. IInv => NoSilentLoss
  BY DEF IInv
<1>. QED
  BY <1>1, ReporterInvariant, PTL

\* However often opening is tried again and however many reports the collector opened
\* without Runnable learning of it, an identifier is asked for only while none is known
\* (ooni_reporter.cpp:44), and all of the entries at the collector are in one report.
THEOREM EntriesInOneReport == Spec => []OneReportId
<1>1. IInv => OneReportId
  BY DEF IInv
<1>. QED
  BY <1>1, ReporterInvariant, PTL

\* No entry is on its way to the collector before the report is open or once it is being
\* closed (runnable.cpp).
THEOREM SubmittedInsideReport == Spec => []WritesInsideReport
<1>1. IInv => WritesInsideReport
  BY DEF IInv
<1>. QED
  BY <1>1, ReporterInvariant, PTL
=============================================================================
