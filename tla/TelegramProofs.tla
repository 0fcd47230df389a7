---------------------------- MODULE TelegramProofs ----------------------------
(***************************************************************************)
(* For any number of approvals, updates and restarts: Telegram forgets no  *)
(* update that was not handled, and taps call place_order once.  The       *)
(* listener only ever moves past an update when its handler ends, so that  *)
(* whatever the next poll confirms lies below what is handled; and an      *)
(* approval that the listener has approved never shows as pending again.   *)
(***************************************************************************)
EXTENDS TelegramListener, TLAPS

\* Everything before the current update is handled; the offset is above what is
\* confirmed, and so is the batch.
OrderInv ==
    /\ 1 .. next - 1 \subseteq ended
    /\ offset # 0 => confirmed < offset
    /\ at # "poll" => confirmed < next

\* What the listener has approved is not pending, neither in the table nor in what
\* the current handler has found.
DecidedInv ==
    /\ \A a \in tapped : status[a] # "pending"
    /\ at = "decide" /\ seen = "pending" => Tapped \notin tapped
    /\ at = "place" => Tapped \in tapped /\ calls[Tapped] = 0

IInv == TypeOK /\ ForgottenIsHandled /\ CalledOnce /\ OrderInv /\ DecidedInv

-----------------------------------------------------------------------------
\* The update at hand, when there is one.
LEMMA AtHand ==
    ASSUME TypeOK, next <= last
    PROVE  /\ next \in 1 .. Len(sent) /\ next + 1 \in 1 .. Len(sent) + 1
           /\ sent[next] \in Update /\ Tapped \in Approvals \union {None}
           /\ at = "batch" => Taken = next + 1
<1>1. next \in 1 .. Len(sent) /\ next + 1 \in 1 .. Len(sent) + 1
  BY DEF TypeOK
<1>2. sent[next] \in Update
  BY <1>1 DEF TypeOK
<1>3. Tapped \in Approvals \union {None}
  BY <1>2 DEF Update, Tapped
<1>4. at = "batch" => Taken = next + 1
  BY <1>1 DEF TypeOK, Taken, Larger
<1> QED BY <1>1, <1>2, <1>3, <1>4

\* A new update changes none of those that were sent.
LEMMA SendKeeps ==
    ASSUME TypeOK, NEW u \in Update
    PROVE  /\ Append(sent, u) \in Seq(Update) /\ Len(Append(sent, u)) = Len(sent) + 1
           /\ \A i \in 1 .. Len(sent) : Append(sent, u)[i] = sent[i]
BY DEF TypeOK

-----------------------------------------------------------------------------
\* The initial states satisfy the invariant.
LEMMA IInvInit == Init => IInv
<1> SUFFICES ASSUME Init PROVE IInv
  OBVIOUS
<1>1. TypeOK
  BY ListenerAssumption DEF Init, TypeOK, Tapped
<1>2. ForgottenIsHandled /\ CalledOnce /\ OrderInv /\ DecidedInv
  BY DEF Init, ForgottenIsHandled, CalledOnce, OrderInv, DecidedInv, Tapped
<1> QED BY <1>1, <1>2 DEF IInv

\* A poll confirms what the offset says, and that was handled.
LEMMA PollStep == IInv /\ (Poll \/ PollFails \/ BatchDone) => IInv'
<1> SUFFICES ASSUME IInv, Poll \/ PollFails \/ BatchDone PROVE IInv'
  OBVIOUS
<1> USE DEF IInv
<1>1. CASE Poll
  <2>1. /\ confirmed' \in 0 .. Len(sent) /\ confirmed' >= confirmed
        /\ 1 .. confirmed' \subseteq ended
        /\ offset # 0 => confirmed' = offset - 1
    BY <1>1 DEF Poll, TypeOK, Larger, ForgottenIsHandled, OrderInv
  <2>2. TypeOK'
    BY <1>1, <2>1 DEF Poll, TypeOK, Tapped, db, seenBy
  <2>3. ForgottenIsHandled' /\ OrderInv'
    BY <1>1, <2>1 DEF Poll, ForgottenIsHandled, OrderInv, TypeOK
  <2>4. CalledOnce' /\ DecidedInv'
    BY <1>1 DEF Poll, CalledOnce, DecidedInv, db, seenBy
  <2> QED BY <2>2, <2>3, <2>4
<1>2. CASE PollFails
  <2>1. /\ confirmed' \in 0 .. Len(sent) /\ 1 .. confirmed' \subseteq ended
        /\ offset # 0 => confirmed' < offset
    BY <1>2 DEF PollFails, TypeOK, Larger, ForgottenIsHandled, OrderInv
  <2>2. TypeOK'
    BY <1>2, <2>1, ListenerAssumption DEF PollFails, TypeOK, Tapped, db, seenBy
  <2>3. ForgottenIsHandled' /\ OrderInv'
    BY <1>2, <2>1 DEF PollFails, ForgottenIsHandled, OrderInv, TypeOK
  <2>4. CalledOnce' /\ DecidedInv'
    BY <1>2 DEF PollFails, CalledOnce, DecidedInv, db, seenBy
  <2> QED BY <2>2, <2>3, <2>4
<1>3. CASE BatchDone
  <2>1. TypeOK'
    BY <1>3 DEF BatchDone, TypeOK, Tapped, bot, db, seenBy
  <2>2. ForgottenIsHandled' /\ OrderInv' /\ CalledOnce' /\ DecidedInv'
    BY <1>3 DEF BatchDone, ForgottenIsHandled, OrderInv, CalledOnce, DecidedInv, bot, db, seenBy
  <2> QED BY <2>1, <2>2
<1> QED BY <1>1, <1>2, <1>3

\* Taking an update moves the offset past it and loads its approval.
LEMMA TakeTapStep == IInv /\ TakeTap => IInv'
<1> SUFFICES ASSUME IInv, TakeTap PROVE IInv'
  OBVIOUS
<1> USE DEF IInv
<1>1. /\ next \in 1 .. Len(sent) /\ Tapped \in Approvals /\ Tapped' = Tapped
      /\ offset' = next + 1
  BY AtHand DEF TakeTap, Tapped, bot
<1>2. TypeOK'
  BY <1>1 DEF TakeTap, TypeOK, Found, Tapped, bot, db, seenBy
<1>3. ForgottenIsHandled' /\ OrderInv'
  BY <1>1 DEF TakeTap, ForgottenIsHandled, OrderInv, TypeOK, bot
<1>4. CalledOnce'
  BY DEF TakeTap, CalledOnce, db, seenBy
<1>5. DecidedInv'
  BY <1>1 DEF TakeTap, DecidedInv, Found, db, seenBy
<1> QED BY <1>2, <1>3, <1>4, <1>5

\* The end of a handler keeps the types and the order of the updates.
LEMMA EndKeeps ==
    ASSUME IInv, End, next <= last, at \in {"batch", "decide", "place"},
           offset' = next + 1, UNCHANGED <<bot, last>>
    PROVE  /\ ForgottenIsHandled' /\ OrderInv'
           /\ next' = next + 1 /\ next' \in 1 .. Len(sent) + 1 /\ at' = "batch"
           /\ ended' \subseteq 1 .. Len(sent) /\ offset' \in {0, next'}
<1>1. next \in 1 .. Len(sent)
  BY AtHand DEF IInv
<1>2. 1 .. next' - 1 \subseteq ended'
  BY <1>1 DEF IInv, OrderInv, End, TypeOK
<1> QED BY <1>1, <1>2 DEF IInv, End, ForgottenIsHandled, OrderInv, TypeOK, bot

\* A handler that decides nothing.
LEMMA RefuseStep == IInv /\ (TakeOther \/ Refuse \/ CommitFails) => IInv'
<1> SUFFICES ASSUME IInv, TakeOther \/ Refuse \/ CommitFails PROVE IInv'
  OBVIOUS
<1> USE DEF IInv
<1>1. next <= last /\ at \in {"batch", "decide"}
  BY DEF TakeOther, Refuse, CommitFails, TypeOK
<1>2. End /\ UNCHANGED <<bot, last, seen, status, late, web, tapped, calls, cut>>
  BY DEF TakeOther, Refuse, CommitFails, db, seenBy
<1>3. offset' = next + 1
  BY <1>1, AtHand DEF TakeOther, Refuse, CommitFails, TypeOK
<1>4. faults' \in 0 .. MaxFaults
  BY ListenerAssumption DEF TakeOther, Refuse, CommitFails, TypeOK
<1>5. TypeOK'
  BY <1>1, <1>2, <1>3, <1>4, EndKeeps DEF TypeOK, bot
<1>6. CalledOnce' /\ DecidedInv'
  BY <1>1, <1>2, <1>3, EndKeeps DEF CalledOnce, DecidedInv, TypeOK
<1> QED BY <1>1, <1>2, <1>3, <1>5, <1>6, EndKeeps

\* An approval that the tap has found pending is rejected, or expired.
LEMMA CloseStep == IInv /\ (MarkExpired \/ Reject) => IInv'
<1> SUFFICES ASSUME IInv, MarkExpired \/ Reject PROVE IInv'
  OBVIOUS
<1> USE DEF IInv
<1>1. next <= last /\ at = "decide" /\ Tapped \in Approvals /\ offset' = next + 1
  BY AtHand DEF MarkExpired, Reject, TypeOK
<1>2. End /\ UNCHANGED <<bot, last, seen, late, web, tapped, calls, cut, faults>>
  BY DEF MarkExpired, Reject, seenBy
<1>3. PICK v \in {"expired", "rejected"} : status' = [status EXCEPT ![Tapped] = v]
  BY DEF MarkExpired, Reject
<1>4. TypeOK'
  BY <1>1, <1>2, <1>3, EndKeeps DEF TypeOK, bot
<1>5. CalledOnce'
  BY <1>1, <1>2, EndKeeps DEF CalledOnce
<1>6. DecidedInv'
  BY <1>1, <1>2, <1>3, EndKeeps DEF DecidedInv, TypeOK
<1> QED BY <1>1, <1>2, <1>4, <1>5, <1>6, EndKeeps

\* The commit of an approval; no handler has approved it before.
LEMMA ApproveStep == IInv /\ Approve => IInv'
<1> SUFFICES ASSUME IInv, Approve PROVE IInv'
  OBVIOUS
<1> USE DEF IInv
<1>1. next <= last /\ Tapped \in Approvals /\ Tapped' = Tapped
  BY AtHand DEF Approve, TypeOK, Tapped, bot
<1>2. Tapped \notin tapped /\ calls[Tapped] = 0
  BY <1>1 DEF Approve, DecidedInv, CalledOnce, TypeOK
<1>3. TypeOK'
  BY <1>1 DEF Approve, TypeOK, bot, Tapped
<1>4. ForgottenIsHandled' /\ OrderInv'
  BY DEF Approve, ForgottenIsHandled, OrderInv, bot
<1>5. CalledOnce'
  BY <1>1, <1>2 DEF Approve, CalledOnce
<1>6. DecidedInv'
  BY <1>1, <1>2 DEF Approve, DecidedInv, TypeOK
<1> QED BY <1>3, <1>4, <1>5, <1>6

\* A decision committed by a handler that does not know of it.
LEMMA AnswerLostStep == IInv /\ AnswerLost => IInv'
<1> SUFFICES ASSUME IInv, AnswerLost PROVE IInv'
  OBVIOUS
<1> USE DEF IInv
<1>1. next <= last /\ at = "decide" /\ Tapped \in Approvals /\ offset' = next + 1
  BY AtHand DEF AnswerLost, TypeOK
<1>2. End /\ UNCHANGED <<bot, last, seen, late, web, calls>> /\ faults' \in 0 .. MaxFaults
  BY ListenerAssumption DEF AnswerLost, TypeOK
<1>3. PICK v \in {"expired", "rejected", "approved"} : status' = [status EXCEPT ![Tapped] = v]
  BY DEF AnswerLost, Decision
<1>4. /\ tapped \subseteq tapped' /\ cut \subseteq cut'
      /\ \A a \in tapped' : a \notin tapped => a = Tapped /\ a \in cut'
      /\ cut' \subseteq cut \union {Tapped}
      /\ tapped' # tapped => seen = "pending"
  BY DEF AnswerLost, Approved, Decision, TypeOK
<1>5. TypeOK'
  BY <1>1, <1>2, <1>3, <1>4, EndKeeps DEF TypeOK, bot
<1>6. CalledOnce'
  BY <1>1, <1>2, <1>4, EndKeeps DEF CalledOnce, DecidedInv
<1>7. DecidedInv'
  BY <1>1, <1>2, <1>3, <1>4, EndKeeps DEF DecidedInv, TypeOK
<1> QED BY <1>1, <1>2, <1>5, <1>6, <1>7, EndKeeps

\* The call of place_order, the first one for this approval.
LEMMA PlaceStep == IInv /\ Place => IInv'
<1> SUFFICES ASSUME IInv, Place PROVE IInv'
  OBVIOUS
<1> USE DEF IInv
<1>1. /\ next <= last /\ at = "place" /\ Tapped \in Approvals /\ offset' = next + 1
      /\ Tapped \in tapped /\ calls[Tapped] = 0
  BY AtHand DEF Place, TypeOK, DecidedInv
<1>2. End /\ UNCHANGED <<bot, last>>
  BY DEF Place
<1>3. TypeOK'
  BY <1>1, <1>2, EndKeeps DEF Place, TypeOK, bot, db
<1>4. CalledOnce'
  BY <1>1, <1>2, EndKeeps DEF Place, CalledOnce, TypeOK
<1>5. DecidedInv'
  BY <1>1, <1>2, EndKeeps DEF Place, DecidedInv, db
<1> QED BY <1>1, <1>2, <1>3, <1>4, <1>5, EndKeeps

\* A restart forgets the offset and the batch, and cuts at most one handler.
LEMMA RestartStep == IInv /\ Restart => IInv'
<1> SUFFICES ASSUME IInv, Restart PROVE IInv'
  OBVIOUS
<1> USE DEF IInv
<1>1. /\ next' = 1 /\ last' = 0 /\ at' = "poll" /\ offset' = 0
      /\ UNCHANGED <<sent, confirmed, seen, ended, tapped, calls, status, late, web>>
  BY DEF Restart, Fresh, bot, db
<1>2. cut' \subseteq Approvals /\ cut \subseteq cut' /\ (at = "place" => Tapped \in cut')
  <2>1. at = "place" => Tapped \in Approvals
    BY AtHand DEF TypeOK
  <2> QED BY <2>1 DEF Restart, Cut, TypeOK
<1>3. TypeOK'
  BY <1>1, <1>2, ListenerAssumption DEF TypeOK, Restart
<1>4. ForgottenIsHandled' /\ OrderInv' /\ DecidedInv'
  BY <1>1 DEF ForgottenIsHandled, OrderInv, DecidedInv
<1>5. CalledOnce'
  BY <1>1, <1>2 DEF CalledOnce
<1> QED BY <1>3, <1>4, <1>5

\* A new update joins the queue at Telegram.
LEMMA SendStep == IInv /\ (\E u \in Update : Send(u)) => IInv'
<1> SUFFICES ASSUME IInv, NEW u \in Update, Send(u) PROVE IInv'
  OBVIOUS
<1> USE DEF IInv
<1>1. /\ sent' \in Seq(Update) /\ Len(sent') = Len(sent) + 1
      /\ at \in {"decide", "place"} => Tapped' = Tapped
  BY SendKeeps, AtHand DEF Send, Tapped, TypeOK
<1>2. TypeOK'
  BY <1>1 DEF Send, TypeOK, db, seenBy
<1>3. ForgottenIsHandled' /\ OrderInv'
  BY DEF Send, ForgottenIsHandled, OrderInv
<1>4. CalledOnce' /\ DecidedInv'
  BY <1>1 DEF Send, CalledOnce, DecidedInv, db, seenBy
<1> QED BY <1>2, <1>3, <1>4

\* The clock and the other channels never make an approval pending again.
LEMMA OthersStep ==
    IInv /\ (\E a \in Approvals : Expire(a) \/ WebLoad(a) \/ WebCommit(a)) => IInv'
<1> SUFFICES ASSUME IInv, NEW a \in Approvals, Expire(a) \/ WebLoad(a) \/ WebCommit(a)
             PROVE  IInv'
  OBVIOUS
<1> USE DEF IInv
<1>1. UNCHANGED <<sent, confirmed, offset, next, last, at, seen, ended, faults,
                  tapped, calls, cut>> /\ Tapped' = Tapped
  BY DEF Expire, WebLoad, WebCommit, bot, seenBy, Tapped
<1>2. /\ status' \in [Approvals -> {"pending", "approved", "rejected", "expired"}]
      /\ late' \subseteq Approvals
      /\ web' \in [Approvals -> {"idle", "approved", "rejected", "expired"}]
      /\ \A b \in Approvals : status[b] # "pending" => status'[b] # "pending"
  BY DEF Expire, WebLoad, WebCommit, TypeOK
<1>3. TypeOK'
  BY <1>1, <1>2 DEF TypeOK
<1>4. ForgottenIsHandled' /\ OrderInv' /\ CalledOnce'
  BY <1>1 DEF ForgottenIsHandled, OrderInv, CalledOnce
<1>5. DecidedInv'
  BY <1>1, <1>2 DEF DecidedInv, TypeOK
<1> QED BY <1>3, <1>4, <1>5

\* Every step keeps the invariant.
LEMMA IInvStep == IInv /\ [Next]_vars => IInv'
<1>1. IInv /\ UNCHANGED vars => IInv'
  BY DEF IInv, TypeOK, ForgottenIsHandled, CalledOnce, OrderInv, DecidedInv, vars, Tapped
<1> QED BY <1>1, PollStep, TakeTapStep, RefuseStep, CloseStep, ApproveStep, AnswerLostStep,
           PlaceStep, RestartStep, SendStep, OthersStep DEF Next, Listen, Handle

\* The invariant holds throughout.
LEMMA Inductive == Spec => []IInv
BY IInvInit, IInvStep, PTL DEF Spec

-----------------------------------------------------------------------------
\* The variables of the listener keep their types, and its offset stays one past
\* the last update it took.
THEOREM ListenerTypeCorrect == Spec => []TypeOK
<1>1. IInv => TypeOK
  BY DEF IInv
<1> QED BY Inductive, <1>1, PTL

\* Telegram forgets no update that the listener did not handle, wherever the
\* process stops.
THEOREM NoUpdateIsLost == Spec => []ForgottenIsHandled
<1>1. IInv => ForgottenIsHandled
  BY DEF IInv
<1> QED BY Inductive, <1>1, PTL

\* Repeated taps and repeated deliveries call place_order once, and only a restart
\* in between or a lost answer leaves an approval without its call.
THEOREM TapsCallOnce == Spec => []CalledOnce
<1>1. IInv => CalledOnce
  BY DEF IInv
<1> QED BY Inductive, <1>1, PTL
=============================================================================
