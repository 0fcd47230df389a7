----------------------------- MODULE IntakeProofs -----------------------------
(***************************************************************************)
(* For any number of webhook deliveries, scan results, calls and restarts: *)
(* the event of a delivery tells what became of its signals, a promoted    *)
(* result leads to its request, and an answered promotion is not repeated  *)
(* unless its mark was overwritten.  An answer leaves the result marked as *)
(* promoted, or the overwriting on record; a promotion under way that saw  *)
(* an earlier answer therefore found the mark overwritten.                 *)
(***************************************************************************)
EXTENDS SignalIntake, TLAPS

\* What a call has in hand: a row that exists and, once created, its request.
InHand(c) ==
    /\ call[c].phase \in {"loaded", "created"} =>
         call[c].of \in Results /\ result[call[c].of] # None
    /\ call[c].phase = "loaded" =>
         call[c].kind \in {"promote", "acknowledged", "dismissed"} /\ call[c].loaded \in Statuses
    /\ call[c].phase = "created" => c \in requests[call[c].of]
    /\ call[c].kind = "promote" /\ call[c].answered # {} => call[c].of \in reopened

\* A request was made by a promotion of an existing result.
Made(r, c) ==
    /\ result[r] # None
    /\ call[c].of = r /\ call[c].kind = "promote"
    /\ call[c].phase \in {"created", "done", "failed"}

\* An answered promotion left its mark, or the mark was overwritten.
Marked(r) == Answered(r) # {} => result[r].status = "promoted" \/ r \in reopened

CallInv == \A c \in Calls : InHand(c)
RequestInv == \A r \in Results : \A c \in requests[r] : Made(r, c)
MarkInv == \A r \in Results : Marked(r)

ScanInv == CallInv /\ RequestInv /\ MarkInv /\ PromotedLeadsToRequest

Delivery == [phase : {"new", "open", "sent", "ok", "failed"},
             signals : 0 .. MaxSignals, reached : 0 .. MaxSignals,
             recorded : 0 .. MaxSignals,
             session : {"none", "pending", "processed"},
             event : {"none", "pending", "processed"}]

\* The event of one delivery is true.
Tells(e) ==
    /\ e.event = "processed" <=> e.phase = "ok"
    /\ e.event = "processed" => e.recorded = e.signals
    /\ e.event = "pending" => e.recorded > 0
    /\ e.event = "none" => e.recorded = 0
    /\ e.reached \in {e.recorded, e.recorded + 1}
    /\ e.reached # e.recorded => e.phase \in {"sent", "failed"}

\* While a delivery is served its session holds the pending event, and one
\* signal is out without a record exactly between the broker and the commit.
Served(e) ==
    /\ e.phase = "new" => e.reached = 0 /\ e.event = "none"
    /\ e.phase \in {"open", "sent"} => e.session = "pending"
    /\ e.phase = "sent" => e.reached = e.recorded + 1

DeliveryInv == \A d \in Deliveries : Tells(delivery[d]) /\ Served(delivery[d])

Call == [phase : {"free", "loaded", "created", "done", "failed"},
         kind : {None, "promote", "acknowledged", "dismissed"},
         of : Results \union {None}, loaded : Statuses \union {None},
         answered : SUBSET Calls]

IInv == TypeOK /\ DeliveryInv /\ ScanInv

scanning == <<result, call, requests, reopened>>

-----------------------------------------------------------------------------
\* The initial states satisfy the invariant.
LEMMA IInvInit == Init => IInv
<1> SUFFICES ASSUME Init PROVE IInv
  OBVIOUS
<1>1. NewResult \in Result /\ NewResult # None
  BY IntakeAssumption DEF NewResult, Result, Statuses
<1>2. TypeOK
  BY <1>1, IntakeAssumption DEF Init, TypeOK, NewDelivery, NoCall
<1>3. DeliveryInv
  BY DEF Init, DeliveryInv, Tells, Served, NewDelivery
<1>4. CallInv /\ RequestInv /\ MarkInv
  BY DEF Init, CallInv, RequestInv, MarkInv, InHand, Marked, Answered, NoCall
<1>5. PromotedLeadsToRequest
  BY DEF Init, PromotedLeadsToRequest, NewResult
<1> QED BY <1>2, <1>3, <1>4, <1>5 DEF IInv, ScanInv

\* Nothing of the scanner's side changes.
LEMMA SameScan == ASSUME ScanInv, UNCHANGED scanning PROVE ScanInv'
BY DEF ScanInv, scanning, CallInv, RequestInv, MarkInv, InHand, Made, Marked, Answered,
       PromotedLeadsToRequest

\* The record of a signal, with its commit.
LEMMA RecordedTells ==
    ASSUME NEW e \in Delivery, e.session = "pending", e.phase \in {"open", "sent"},
           e.reached = e.recorded + 1
    PROVE  Recorded(e) \in Delivery /\ Tells(Recorded(e)) /\ Served(Recorded(e))
<1>1. e.recorded \in Nat /\ e.recorded + 1 \in 0 .. MaxSignals
  BY IntakeAssumption DEF Delivery
<1> DEFINE f == Recorded(e)
<1>2. /\ f.phase = "open" /\ f.signals = e.signals /\ f.reached = e.recorded + 1
      /\ f.recorded = e.recorded + 1 /\ f.session = "pending" /\ f.event = "pending"
  BY DEF Recorded, Delivery
<1>3. f \in Delivery
  BY <1>1 DEF Recorded, Delivery
<1>4. Tells(f) /\ Served(f)
  BY <1>1, <1>2 DEF Tells, Served
<1> QED BY <1>3, <1>4

\* An end without an answer leaves the record as it is.
LEMMA EndedTells ==
    ASSUME NEW e \in Delivery, Tells(e), Served(e)
    PROVE  Ended(e) \in Delivery /\ Tells(Ended(e)) /\ Served(Ended(e))
BY DEF Ended, Delivery, Tells, Served

\* The webhooks' side: a delivery is opened, sends, records, fails or is closed.
LEMMA DeliveryStep ==
    ASSUME IInv, NEW d \in Deliveries,
           \/ \E s \in Sources : Receive(d, s)
           \/ AskApproval(d) \/ SendSignal(d) \/ CommitSignal(d)
           \/ DeliveryFails(d) \/ CloseEvent(d)
    PROVE  IInv'
<1>1. UNCHANGED <<active, scanning, crashes>>
  BY DEF Receive, AskApproval, SendSignal, CommitSignal, DeliveryFails, CloseEvent, scanning
<1>2. ASSUME NEW e \in Delivery, delivery' = [delivery EXCEPT ![d] = e], Tells(e), Served(e)
      PROVE  IInv'
  <2>1. TypeOK'
    BY <1>1, <1>2 DEF IInv, TypeOK, scanning, Delivery
  <2>2. DeliveryInv'
    BY <1>2 DEF IInv, TypeOK, DeliveryInv
  <2> QED BY <1>1, <2>1, <2>2, SameScan DEF IInv
<1> DEFINE e == delivery[d]
<1>3. e \in Delivery /\ Tells(e) /\ Served(e)
  BY DEF IInv, TypeOK, Delivery, DeliveryInv
<1>4. CASE \E s \in Sources : Receive(d, s)
  <2>1. PICK n \in 0 .. MaxSignals :
          delivery' = [delivery EXCEPT ![d].phase = "open", ![d].signals = n,
                                       ![d].session = "pending"]
    BY <1>4 DEF Receive
  <2> DEFINE f == [e EXCEPT !.phase = "open", !.signals = n, !.session = "pending"]
  <2>2. delivery' = [delivery EXCEPT ![d] = f]
    BY <2>1 DEF IInv, TypeOK
  <2>3. f \in Delivery /\ Tells(f) /\ Served(f)
    BY <1>3, <1>4 DEF Receive, Delivery, Tells, Served
  <2> QED BY <2>2, <2>3, <1>2
<1>5. ASSUME e.phase = "open", e.reached < e.signals
      PROVE  /\ [e EXCEPT !.reached = @ + 1] \in Delivery
             /\ e.recorded \in Nat /\ e.reached = e.recorded
  BY <1>3, <1>5, IntakeAssumption DEF Delivery, Tells
<1>6. CASE AskApproval(d)
  <2> DEFINE f == [e EXCEPT !.reached = @ + 1]
  <2>1. delivery' = [delivery EXCEPT ![d] = Recorded(f)]
    BY <1>6 DEF AskApproval, IInv, TypeOK
  <2>2. f \in Delivery /\ e.reached = e.recorded /\ e.phase = "open"
    BY <1>5, <1>6 DEF AskApproval
  <2>3. /\ f.session = "pending" /\ f.phase = "open" /\ f.reached = f.recorded + 1
    BY <1>3, <2>2 DEF Delivery, Served
  <2> QED BY <2>1, <2>2, <2>3, <1>2, RecordedTells
<1>7. CASE SendSignal(d)
  <2> DEFINE f == [e EXCEPT !.phase = "sent", !.reached = @ + 1]
  <2>1. delivery' = [delivery EXCEPT ![d] = f]
    BY <1>7 DEF SendSignal, IInv, TypeOK
  <2>2. /\ e.phase = "open" /\ e.recorded \in Nat /\ e.reached = e.recorded
        /\ [e EXCEPT !.reached = @ + 1] \in Delivery
    BY <1>5, <1>7 DEF SendSignal
  <2>3. f \in Delivery
    BY <1>3, <2>2 DEF Delivery
  <2>4. /\ f.phase = "sent" /\ f.signals = e.signals /\ f.reached = e.recorded + 1
        /\ f.recorded = e.recorded /\ f.session = e.session /\ f.event = e.event
    BY <1>3, <2>2 DEF Delivery
  <2>5. Tells(f) /\ Served(f)
    BY <1>3, <2>2, <2>4 DEF Tells, Served
  <2> QED BY <2>1, <2>3, <2>5, <1>2
<1>8. CASE CommitSignal(d)
  <2>1. delivery' = [delivery EXCEPT ![d] = Recorded(e)] /\ e.phase = "sent"
    BY <1>8 DEF CommitSignal, IInv, TypeOK
  <2>2. e.session = "pending" /\ e.reached = e.recorded + 1
    BY <1>3, <2>1 DEF Served
  <2> QED BY <2>1, <2>2, <1>2, <1>3, RecordedTells
<1>9. CASE DeliveryFails(d)
  <2>1. delivery' = [delivery EXCEPT ![d] = Ended(e)]
    BY <1>9 DEF DeliveryFails, IInv, TypeOK
  <2> QED BY <2>1, <1>2, <1>3, EndedTells
<1>10. CASE CloseEvent(d)
  <2> DEFINE f == [e EXCEPT !.phase = "ok", !.event = "processed"]
  <2>1. delivery' = [delivery EXCEPT ![d] = f]
    BY <1>10 DEF CloseEvent, IInv, TypeOK
  <2>2. f \in Delivery /\ Tells(f) /\ Served(f)
    BY <1>3, <1>10 DEF CloseEvent, Delivery, Tells, Served
  <2> QED BY <2>1, <2>2, <1>2
<1> QED BY <1>4, <1>6, <1>7, <1>8, <1>9, <1>10

-----------------------------------------------------------------------------
\* The deliveries are left alone and the scanner's side keeps its types.
LEMMA ScanTypes ==
    ASSUME IInv, UNCHANGED <<active, delivery>>, ScanInv',
           result' \in [Results -> {None} \union Result], call' \in [Calls -> Call],
           requests' \in [Results -> SUBSET Calls], reopened' \in SUBSET Results,
           crashes' \in 0 .. MaxCrashes
    PROVE  IInv'
BY DEF IInv, TypeOK, DeliveryInv, Call

\* A call that has not created its request made none.
LEMMA NotMade ==
    ASSUME IInv, NEW c \in Calls, call[c].phase \in {"free", "loaded"}, NEW r \in Results
    PROVE  c \notin requests[r]
BY DEF IInv, ScanInv, RequestInv, Made

\* A scanner's run adds rows where there were none.
LEMMA ScanRunStep == ASSUME IInv, ScanRun PROVE IInv'
<1>1. PICK found \in SUBSET {r \in Results : result[r] = None} :
        result' = [r \in Results |-> IF r \in found THEN NewResult ELSE result[r]]
  BY DEF ScanRun
<1>2. UNCHANGED <<active, delivery, call, requests, reopened, crashes>>
  BY DEF ScanRun
<1>3. NewResult \in Result /\ NewResult # None
  BY IntakeAssumption DEF NewResult, Result, Statuses
<1>4. /\ result' \in [Results -> {None} \union Result]
      /\ \A r \in Results : result[r] # None => result'[r] = result[r]
  BY <1>1, <1>3 DEF IInv, TypeOK
<1>5. CallInv' /\ RequestInv'
  BY <1>2, <1>4 DEF IInv, ScanInv, TypeOK, CallInv, RequestInv, InHand, Made
<1>6. MarkInv'
  <2> SUFFICES ASSUME NEW r \in Results, Answered(r) # {}
               PROVE  result'[r].status = "promoted" \/ r \in reopened
    BY <1>2 DEF MarkInv, Marked, Answered
  <2>1. result[r] # None
    BY DEF IInv, ScanInv, RequestInv, Made, Answered
  <2> QED BY <2>1, <1>4 DEF IInv, ScanInv, MarkInv, Marked
<1>7. PromotedLeadsToRequest'
  <2> SUFFICES ASSUME NEW r \in Results, result'[r] # None
               PROVE  /\ result'[r].status = "promoted" => result'[r].promoted_approval_id # None
                      /\ result'[r].promoted_approval_id # None
                           => result'[r].promoted_approval_id \in requests[r]
    BY <1>2 DEF PromotedLeadsToRequest
  <2>1. CASE r \in found
    BY <2>1, <1>1 DEF NewResult
  <2>2. CASE r \notin found
    BY <2>2, <1>1 DEF IInv, ScanInv, PromotedLeadsToRequest
  <2> QED BY <2>1, <2>2
<1> QED BY <1>2, <1>4, <1>5, <1>6, <1>7, ScanTypes DEF IInv, TypeOK, ScanInv, Call

\* A call loads a row; a promotion that sees an earlier answer sees its mark gone.
LEMMA LoadStep ==
    ASSUME IInv, NEW c \in Calls, NEW r \in Results,
           \/ LoadToPromote(c, r)
           \/ LoadToMark(c, r, "acknowledged") \/ LoadToMark(c, r, "dismissed")
    PROVE  IInv'
<1>1. /\ call[c].phase = "free" /\ result[r] # None
      /\ UNCHANGED <<active, delivery, result, requests, reopened, crashes>>
  BY DEF LoadToPromote, LoadToMark
<1>2. result[r].status \in Statuses
  BY <1>1 DEF IInv, TypeOK, Result
<1>3. PICK kind \in {"promote", "acknowledged", "dismissed"}, answered \in SUBSET Calls :
        /\ call' = [call EXCEPT ![c] = [phase |-> "loaded", kind |-> kind, of |-> r,
                                        loaded |-> result[r].status, answered |-> answered]]
        /\ kind = "promote" => answered = Answered(r) /\ result[r].status # "promoted"
  <2>1. Answered(r) \in SUBSET Calls
    BY DEF Answered, IInv, TypeOK
  <2>2. CASE LoadToPromote(c, r)
    BY <2>1, <2>2 DEF LoadToPromote
  <2>3. CASE LoadToMark(c, r, "acknowledged")
    <3> WITNESS "acknowledged" \in {"promote", "acknowledged", "dismissed"}, {} \in SUBSET Calls
    <3> QED BY <2>3 DEF LoadToMark
  <2>4. CASE LoadToMark(c, r, "dismissed")
    <3> WITNESS "dismissed" \in {"promote", "acknowledged", "dismissed"}, {} \in SUBSET Calls
    <3> QED BY <2>4 DEF LoadToMark
  <2> QED BY <2>2, <2>3, <2>4
<1> DEFINE k == [phase |-> "loaded", kind |-> kind, of |-> r,
                 loaded |-> result[r].status, answered |-> answered]
<1>4. /\ call' \in [Calls -> Call] /\ call'[c] = k
      /\ \A x \in Calls \ {c} : call'[x] = call[x]
  BY <1>2, <1>3 DEF IInv, TypeOK, Call
<1>5. \A q \in Results : c \notin requests[q] /\ requests[q] \subseteq Calls
  BY <1>1, NotMade DEF IInv, TypeOK
<1>6. CallInv'
  <2>1. k.kind = "promote" /\ k.answered # {} => r \in reopened
    BY <1>3 DEF IInv, ScanInv, MarkInv, Marked
  <2>2. InHand(c)'
    BY <1>1, <1>2, <1>4, <2>1 DEF InHand
  <2>3. \A x \in Calls \ {c} : InHand(x)'
    BY <1>1, <1>4 DEF IInv, ScanInv, CallInv, InHand
  <2> QED BY <2>2, <2>3 DEF CallInv
<1>7. RequestInv' /\ MarkInv'
  BY <1>1, <1>4, <1>5 DEF IInv, ScanInv, RequestInv, MarkInv, Made, Marked, Answered
<1>8. PromotedLeadsToRequest'
  BY <1>1 DEF IInv, ScanInv, PromotedLeadsToRequest
<1> QED BY <1>1, <1>4, <1>6, <1>7, <1>8, ScanTypes DEF IInv, TypeOK, ScanInv

\* A call without a request sets a status other than promoted; if that was
\* the mark of a promotion, the overwriting goes on record.
LEMMA MarkStep ==
    ASSUME IInv, NEW c \in Calls, Mark(c) \/ PromoteNothing(c)
    PROVE  IInv'
<1> DEFINE r == call[c].of
<1>1. /\ call[c].phase = "loaded" /\ r \in Results /\ result[r] # None
      /\ result[r] \in Result
      /\ UNCHANGED <<active, delivery, requests, crashes>>
  BY DEF Mark, PromoteNothing, IInv, TypeOK, ScanInv, CallInv, InHand
<1>2. PICK status \in {"acknowledged", "dismissed"} : SetStatus(c, status)
  BY DEF Mark, PromoteNothing, IInv, ScanInv, CallInv, InHand
<1> DEFINE k == [call[c] EXCEPT !.phase = "done"]
           new == [result[r] EXCEPT !.status = status]
<1>3. /\ call' \in [Calls -> Call] /\ call'[c] = k /\ k.kind = call[c].kind
      /\ k.of = r /\ k.answered = call[c].answered /\ k.phase = "done"
      /\ \A x \in Calls \ {c} : call'[x] = call[x]
  <2>1. call[c] \in Call /\ call' = [call EXCEPT ![c] = k]
    BY <1>2 DEF SetStatus, IInv, TypeOK, Call
  <2>2. k \in Call /\ k.kind = call[c].kind /\ k.of = r /\ k.answered = call[c].answered
        /\ k.phase = "done"
    BY <2>1 DEF Call
  <2> QED BY <2>1, <2>2 DEF IInv, TypeOK, Call
<1>4. /\ new \in Result /\ new # None /\ new.status = status
      /\ new.promoted_approval_id = result[r].promoted_approval_id
  BY <1>1, <1>2, IntakeAssumption DEF Result, Statuses
<1>5. result' = result \/ result' = [result EXCEPT ![r] = new]
  BY <1>2 DEF SetStatus, IInv, TypeOK
<1>6. /\ result' \in [Results -> {None} \union Result]
      /\ \A q \in Results \ {r} : result'[q] = result[q]
      /\ result'[r] = result[r] \/ result'[r] = new
  BY <1>1, <1>4, <1>5 DEF IInv, TypeOK
<1>7. /\ reopened' \in SUBSET Results /\ reopened \subseteq reopened'
      /\ result[r].status = "promoted" => result'[r].status = "promoted" \/ r \in reopened'
  BY <1>1, <1>2, <1>6 DEF SetStatus, IInv, TypeOK
<1>8. \A q \in Results : c \notin requests[q] /\ requests[q] \subseteq Calls
  BY <1>1, NotMade DEF IInv, TypeOK
<1>9. CallInv'
  <2>1. InHand(c)'
    BY <1>3, <1>7 DEF IInv, ScanInv, CallInv, InHand
  <2>2. \A x \in Calls \ {c} : InHand(x)'
    BY <1>1, <1>3, <1>4, <1>6, <1>7 DEF IInv, ScanInv, CallInv, InHand
  <2> QED BY <2>1, <2>2 DEF CallInv
<1>10. RequestInv'
  BY <1>1, <1>3, <1>4, <1>6, <1>8 DEF IInv, ScanInv, RequestInv, Made
<1>11. MarkInv'
  BY <1>1, <1>3, <1>6, <1>7, <1>8 DEF IInv, ScanInv, MarkInv, Marked, Answered
<1>12. PromotedLeadsToRequest'
  <2>1. new.status # "promoted"
    BY <1>2, <1>4
  <2> QED BY <1>1, <1>4, <1>6, <2>1 DEF IInv, ScanInv, PromotedLeadsToRequest
<1> QED BY <1>1, <1>3, <1>6, <1>7, <1>9, <1>10, <1>11, <1>12, ScanTypes
        DEF IInv, TypeOK, ScanInv

\* The first commit of a promotion adds its request.
LEMMA PromoteCreateStep == ASSUME IInv, NEW c \in Calls, PromoteCreate(c) PROVE IInv'
<1> DEFINE r == call[c].of
<1>1. /\ call[c].phase = "loaded" /\ call[c].kind = "promote"
      /\ r \in Results /\ result[r] # None
      /\ UNCHANGED <<active, delivery, result, reopened, crashes>>
  BY DEF PromoteCreate, IInv, ScanInv, CallInv, InHand
<1> DEFINE k == [call[c] EXCEPT !.phase = "created"]
<1>2. /\ call' \in [Calls -> Call] /\ call'[c] = k /\ k.kind = "promote"
      /\ k.of = r /\ k.answered = call[c].answered /\ k.phase = "created"
      /\ \A x \in Calls \ {c} : call'[x] = call[x]
  <2>1. call[c] \in Call /\ call' = [call EXCEPT ![c] = k]
    BY DEF PromoteCreate, IInv, TypeOK, Call
  <2>2. k \in Call /\ k.kind = "promote" /\ k.of = r /\ k.answered = call[c].answered
        /\ k.phase = "created"
    BY <1>1, <2>1 DEF Call
  <2> QED BY <2>1, <2>2 DEF IInv, TypeOK, Call
<1>3. /\ requests' \in [Results -> SUBSET Calls] /\ requests'[r] = requests[r] \union {c}
      /\ \A q \in Results \ {r} : requests'[q] = requests[q]
  BY <1>1 DEF PromoteCreate, IInv, TypeOK
<1>4. \A q \in Results : c \notin requests[q] /\ requests[q] \subseteq Calls
  BY <1>1, NotMade DEF IInv, TypeOK
<1>5. CallInv'
  <2>1. InHand(c)'
    BY <1>1, <1>2, <1>3 DEF IInv, ScanInv, CallInv, InHand
  <2>2. \A x \in Calls \ {c} : InHand(x)'
    BY <1>1, <1>2, <1>3 DEF IInv, ScanInv, CallInv, InHand
  <2> QED BY <2>1, <2>2 DEF CallInv
<1>6. RequestInv'
  <2> SUFFICES ASSUME NEW q \in Results, NEW x \in requests'[q] PROVE Made(q, x)'
    BY DEF RequestInv
  <2>1. CASE x = c
    <3>1. q = r
      BY <2>1, <1>3, <1>4
    <3> QED BY <3>1, <2>1, <1>1, <1>2 DEF Made
  <2>2. CASE x # c
    <3>1. x \in requests[q] /\ x \in Calls \ {c}
      BY <2>2, <1>3, <1>4
    <3>2. Made(q, x)
      BY <3>1 DEF IInv, ScanInv, RequestInv
    <3> QED BY <3>1, <3>2, <1>1, <1>2 DEF Made
  <2> QED BY <2>1, <2>2
<1>7. MarkInv'
  <2>1. \A q \in Results : Answered(q)' = Answered(q)
    <3> SUFFICES ASSUME NEW q \in Results PROVE Answered(q)' = Answered(q)
      OBVIOUS
    <3>1. c \notin Answered(q)' /\ c \notin Answered(q)
      BY <1>1, <1>2 DEF Answered
    <3>2. \A x : x # c => (x \in requests'[q] <=> x \in requests[q])
      BY <1>3
    <3>3. \A x : x \in requests[q] /\ x # c => call'[x] = call[x]
      BY <1>2, <1>4
    <3>4. \A x : x # c => (x \in Answered(q)' <=> x \in Answered(q))
      BY <3>2, <3>3 DEF Answered
    <3> QED BY <3>1, <3>4
  <2> QED BY <2>1, <1>1 DEF IInv, ScanInv, MarkInv, Marked
<1>8. PromotedLeadsToRequest'
  BY <1>1, <1>3 DEF IInv, ScanInv, PromotedLeadsToRequest
<1> QED BY <1>1, <1>2, <1>3, <1>5, <1>6, <1>7, <1>8, ScanTypes DEF IInv, TypeOK, ScanInv

\* The second commit marks the result and links it to the request.
LEMMA PromoteCommitStep == ASSUME IInv, NEW c \in Calls, PromoteCommit(c) PROVE IInv'
<1> DEFINE r == call[c].of
<1>1. /\ call[c].phase = "created" /\ r \in Results /\ result[r] # None /\ c \in requests[r]
      /\ UNCHANGED <<active, delivery, requests, reopened, crashes>>
  BY DEF PromoteCommit, IInv, ScanInv, CallInv, InHand
<1> DEFINE k == [call[c] EXCEPT !.phase = "done"]
           new == [status |-> "promoted", promoted_approval_id |-> c]
<1>2. /\ call' \in [Calls -> Call] /\ call'[c] = k /\ k.kind = call[c].kind
      /\ k.of = r /\ k.answered = call[c].answered /\ k.phase = "done"
      /\ \A x \in Calls \ {c} : call'[x] = call[x]
  <2>1. call[c] \in Call /\ call' = [call EXCEPT ![c] = k]
    BY DEF PromoteCommit, IInv, TypeOK, Call
  <2>2. k \in Call /\ k.kind = call[c].kind /\ k.of = r /\ k.answered = call[c].answered
        /\ k.phase = "done"
    BY <1>1, <2>1 DEF Call
  <2> QED BY <2>1, <2>2 DEF IInv, TypeOK, Call
<1>3. new \in Result /\ new # None /\ c # None
  BY IntakeAssumption DEF Result, Statuses
<1>4. /\ result' \in [Results -> {None} \union Result] /\ result'[r] = new
      /\ \A q \in Results \ {r} : result'[q] = result[q]
  BY <1>1, <1>3 DEF PromoteCommit, IInv, TypeOK
<1>5. \A q \in Results : requests[q] \subseteq Calls /\ (c \in requests[q] => q = r)
  BY DEF IInv, TypeOK, ScanInv, RequestInv, Made
<1>6. CallInv'
  <2>1. InHand(c)'
    BY <1>1, <1>2 DEF IInv, ScanInv, CallInv, InHand
  <2>2. \A x \in Calls \ {c} : InHand(x)'
    BY <1>1, <1>2, <1>3, <1>4 DEF IInv, ScanInv, CallInv, InHand
  <2> QED BY <2>1, <2>2 DEF CallInv
<1>7. RequestInv'
  <2> SUFFICES ASSUME NEW q \in Results, NEW x \in requests[q] PROVE Made(q, x)'
    BY <1>1 DEF RequestInv
  <2>1. Made(q, x) /\ x \in Calls
    BY <1>5 DEF IInv, ScanInv, RequestInv
  <2>2. result'[q] # None
    BY <2>1, <1>3, <1>4 DEF Made
  <2>3. CASE x = c
    BY <2>1, <2>2, <2>3, <1>2 DEF Made
  <2>4. CASE x # c
    BY <2>1, <2>2, <2>4, <1>2 DEF Made
  <2> QED BY <2>3, <2>4
<1>8. MarkInv'
  <2>1. \A q \in Results \ {r} : Answered(q)' = Answered(q)
    BY <1>1, <1>2, <1>5 DEF Answered
  <2> QED BY <2>1, <1>1, <1>4 DEF IInv, ScanInv, MarkInv, Marked
<1>9. PromotedLeadsToRequest'
  BY <1>1, <1>3, <1>4 DEF IInv, ScanInv, PromotedLeadsToRequest
<1> QED BY <1>1, <1>2, <1>4, <1>6, <1>7, <1>8, <1>9, ScanTypes DEF IInv, TypeOK, ScanInv

-----------------------------------------------------------------------------
\* Calls that end where they are, without an answer.
LEMMA Stopped ==
    ASSUME IInv, UNCHANGED <<result, requests, reopened>>, call' \in [Calls -> Call],
           \A x \in Calls :
             /\ call'[x].kind = call[x].kind /\ call'[x].of = call[x].of
             /\ call'[x].answered = call[x].answered /\ call'[x].loaded = call[x].loaded
             /\ \/ call'[x].phase = call[x].phase
                \/ call[x].phase \in {"loaded", "created"} /\ call'[x].phase = "failed"
    PROVE  ScanInv'
<1>1. CallInv'
  BY DEF IInv, ScanInv, CallInv, InHand
<1>2. \A q \in Results : requests[q] \subseteq Calls
  BY DEF IInv, TypeOK
<1>3. RequestInv'
  <2> SUFFICES ASSUME NEW q \in Results, NEW x \in requests[q] PROVE Made(q, x)'
    BY DEF RequestInv
  <2> QED BY <1>2 DEF IInv, ScanInv, RequestInv, Made
<1>4. MarkInv'
  <2>1. \A q \in Results : Answered(q)' \subseteq Answered(q)
    BY <1>2 DEF Answered
  <2> QED BY <2>1 DEF IInv, ScanInv, MarkInv, Marked
<1>5. PromotedLeadsToRequest'
  BY DEF IInv, ScanInv, PromotedLeadsToRequest
<1> QED BY <1>1, <1>3, <1>4, <1>5 DEF ScanInv

\* A failed call, or the end of the server.
LEMMA FailStep == ASSUME IInv, Crash \/ \E c \in Calls : CallFails(c) PROVE IInv'
<1>1. /\ UNCHANGED <<active, result, requests, reopened>>
      /\ crashes' \in 0 .. MaxCrashes
  BY IntakeAssumption DEF Crash, CallFails, IInv, TypeOK
<1>2. call \in [Calls -> Call]
  BY DEF IInv, TypeOK, Call
<1>3. CASE Crash
  <2>1. \A x \in Calls : call'[x] = IF call[x].phase \in {"loaded", "created"}
                                    THEN [call[x] EXCEPT !.phase = "failed"] ELSE call[x]
    BY <1>3 DEF Crash
  <2>2. call' \in [Calls -> Call]
    BY <1>2, <1>3 DEF Crash, Call
  <2>3. ScanInv'
    BY <1>1, <1>2, <2>1, <2>2, Stopped DEF Call
  <2>4. delivery' \in [Deliveries -> Delivery] /\ DeliveryInv'
    <3>1. delivery' = [d \in Deliveries |-> Ended(delivery[d])]
      BY <1>3 DEF Crash
    <3>2. \A d \in Deliveries :
            /\ Ended(delivery[d]) \in Delivery
            /\ Tells(Ended(delivery[d])) /\ Served(Ended(delivery[d]))
      BY EndedTells DEF IInv, TypeOK, DeliveryInv, Delivery
    <3> QED BY <3>1, <3>2 DEF DeliveryInv
  <2> QED BY <1>1, <2>2, <2>3, <2>4 DEF IInv, TypeOK, Delivery, Call
<1>4. ASSUME NEW c \in Calls, CallFails(c) PROVE IInv'
  <2>1. call' = [call EXCEPT ![c] = [call[c] EXCEPT !.phase = "failed"]]
    BY <1>2, <1>4 DEF CallFails
  <2>2. call' \in [Calls -> Call]
    BY <1>2, <2>1 DEF Call
  <2>3. ScanInv'
    BY <1>1, <1>2, <1>4, <2>1, <2>2, Stopped DEF CallFails, Call
  <2> QED BY <1>1, <1>4, <2>2, <2>3, ScanTypes DEF CallFails, IInv, TypeOK
<1> QED BY <1>3, <1>4

\* Every step keeps the invariant.
LEMMA IInvStep == IInv /\ [Next]_vars => IInv'
<1> SUFFICES ASSUME IInv, [Next]_vars PROVE IInv'
  OBVIOUS
<1>1. CASE UNCHANGED vars
  <2>1. UNCHANGED <<active, delivery, scanning, crashes>>
    BY <1>1 DEF vars, scanning
  <2> QED BY <2>1, SameScan DEF IInv, TypeOK, DeliveryInv, scanning
<1>2. ASSUME NEW s \in Sources, ChangeSource(s) PROVE IInv'
  <2>1. UNCHANGED <<delivery, scanning, crashes>> /\ active' \in [Sources -> BOOLEAN]
    BY <1>2 DEF ChangeSource, scanning, IInv, TypeOK
  <2> QED BY <2>1, SameScan DEF IInv, TypeOK, DeliveryInv, scanning
<1>3. CASE Next
  BY <1>2, <1>3, DeliveryStep, ScanRunStep, LoadStep, MarkStep, PromoteCreateStep,
     PromoteCommitStep, FailStep DEF Next
<1> QED BY <1>1, <1>3

\* The invariant holds throughout.
LEMMA Inductive == Spec => []IInv
BY IInvInit, IInvStep, PTL DEF Spec

-----------------------------------------------------------------------------
\* Every variable keeps its type.
THEOREM IntakeTypeCorrect == Spec => []TypeOK
<1>1. IInv => TypeOK
  BY DEF IInv
<1> QED BY Inductive, <1>1, PTL

\* What the event row of a webhook delivery says of its signals is true, wherever
\* the delivery failed or the server went down, and at most one signal went out
\* without a record.
THEOREM EventsAreTrue == Spec => []EventTellsSignals
<1>1. IInv => EventTellsSignals
  BY DEF IInv, DeliveryInv, Tells, EventTellsSignals
<1> QED BY Inductive, <1>1, PTL

\* A scan result that shows as promoted leads to a request that was made for it.
THEOREM PromotionsLeadToRequests == Spec => []PromotedLeadsToRequest
<1>1. IInv => PromotedLeadsToRequest
  BY DEF IInv, ScanInv
<1> QED BY Inductive, <1>1, PTL

\* An answered promotion is repeated only after its mark was overwritten.
THEOREM AnsweredPromotionsAreNotRepeated == Spec => []PromotedOnce
<1>1. IInv => PromotedOnce
  <2> SUFFICES ASSUME IInv, NEW r \in Results, NEW c \in requests[r], call[c].answered # {}
               PROVE  r \in reopened
    BY DEF PromotedOnce
  <2>1. c \in Calls /\ call[c].of = r /\ call[c].kind = "promote"
    BY DEF IInv, TypeOK, ScanInv, RequestInv, Made
  <2> QED BY <2>1 DEF IInv, ScanInv, CallInv, InHand
<1> QED BY Inductive, <1>1, PTL
=============================================================================
