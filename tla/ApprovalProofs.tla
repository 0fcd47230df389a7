--------------------------- MODULE ApprovalProofs ---------------------------
(***************************************************************************)
(* What holds of ApprovalWorkflow for any number of handlers, orders and   *)
(* requests.  One lemma per part of the inductive invariant IInv: types,   *)
(* rows a handler works on, bookings, requests not yet made, links, orders *)
(* sent.  Serial, the part that needs decisions that do not overlap, is    *)
(* kept apart, since the workflow with overlapping decisions lacks it.     *)
(***************************************************************************)
EXTENDS ApprovalWorkflow, FiniteSetTheorems, TLAPS

USE NoneAssumption

-----------------------------------------------------------------------------
(* Types.                                                                   *)

\* Rows and the broker's orders keep their types.
LEMMA DataTypesNext ==
  ASSUME TypeOK, Next
  PROVE  DataTypes'
<1> USE DEF DataTypes, TaskTypes, OrderStatuses, BrokerStatuses, ApprovalStatuses, Acks,
    orderVars, approvalVars
<1>1. ASSUME NEW h \in Handlers, Expire(h) PROVE DataTypes'
  BY <1>1 DEF TypeOK, Expire, HandlerHasRows, Leave
<1>2. ASSUME NEW h \in Handlers, CommitApproval(h) PROVE DataTypes'
  BY <1>2 DEF TypeOK, CommitApproval, HandlerHasRows, GoTo, ClosePlaceholder
<1>3. ASSUME NEW h \in Handlers, CommitRejection(h) PROVE DataTypes'
  BY <1>3 DEF TypeOK, CommitRejection, HandlerHasRows, Leave, ClosePlaceholder
<1>4. ASSUME NEW h \in Handlers, CreateApproval(h) PROVE DataTypes'
  BY <1>4 DEF TypeOK, CreateApproval, NewApproval
<1>5. ASSUME NEW h \in Handlers, CreatePendingApproval(h) PROVE DataTypes'
  BY <1>5 DEF TypeOK, CreatePendingApproval, NewApproval
<1>6. ASSUME NEW h \in Handlers, Send(h) PROVE DataTypes'
  BY <1>6 DEF TypeOK, Send, Take
<1>7. ASSUME NEW h \in Handlers, SendTimesOut(h) PROVE DataTypes'
  BY <1>7 DEF TypeOK, SendTimesOut, Take
<1>8. ASSUME NEW h \in Handlers, Book(h) PROVE DataTypes'
  BY <1>8 DEF TypeOK, Book, HandlerHasRows
<1>9. ASSUME NEW h \in Handlers, CancelAtBroker(h) PROVE DataTypes'
  BY <1>9 DEF TypeOK, CancelAtBroker, HandlerHasRows
<1>10. ASSUME NEW h \in Handlers, CommitCancel(h) PROVE DataTypes'
  BY <1>10 DEF TypeOK, CommitCancel, HandlerHasRows
<1>11. ASSUME NEW o \in OrderIds, BrokerFills(o) PROVE DataTypes'
  BY <1>11 DEF TypeOK, BrokerFills
<1>12. ASSUME NEW a \in ApprovalIds, Lapse(a) PROVE DataTypes'
  BY <1>12 DEF TypeOK, Lapse
<1>13. ASSUME NEW h \in Handlers,
       Request(h) \/ Interrupt(h) \/ Refuse(h) \/ NoBrokerToCancelAt(h) \/ NextCancel(h)
       PROVE  DataTypes'
  <2>1. UNCHANGED <<orderVars, approvalVars>>
    BY <1>13 DEF Request, Interrupt, Refuse, NoBrokerToCancelAt, NextCancel, BeginApprove,
         BeginReject, BeginAsk, BeginPlace, BeginCancel, BeginCancelAll
  <2> QED BY <2>1 DEF TypeOK
<1> QED BY <1>1, <1>2, <1>3, <1>4, <1>5, <1>6, <1>7, <1>8, <1>9, <1>10, <1>11, <1>12,
    <1>13 DEF Next, Progress, Decision, Placement, Cancelling

\* What a handler holds keeps its type.
LEMMA TaskTypesNext ==
  ASSUME TypeOK, Next
  PROVE  TaskTypes'
<1> USE DEF DataTypes, TaskTypes, Resting, Stages, Acts, Acks
<1>1. ASSUME NEW h \in Handlers, NEW end \in Resting, Leave(h, end) PROVE TaskTypes'
  BY <1>1 DEF TypeOK, Leave
<1>2. ASSUME NEW h \in Handlers, NEW next \in Stages, GoTo(h, next) PROVE TaskTypes'
  BY <1>2 DEF TypeOK, GoTo, taskVars
<1>3. ASSUME NEW h \in Handlers, NEW what \in Acts, NEW a \in ApprovalIds \cup {None},
             NEW o \in OrderIds \cup {None}, NEW next \in Resting \cup Stages,
             Begin(h, what, a, o, next)
      PROVE TaskTypes'
  BY <1>3 DEF TypeOK, Begin, taskVars
<1>4. ASSUME NEW h \in Handlers, Expire(h) \/ CommitRejection(h) PROVE TaskTypes'
  BY <1>1, <1>4 DEF Expire, CommitRejection
<1>5. ASSUME NEW h \in Handlers, CommitApproval(h) PROVE TaskTypes'
  BY <1>2, <1>5 DEF CommitApproval
<1>6. ASSUME NEW h \in Handlers, CreateApproval(h) \/ CreatePendingApproval(h) \/ Book(h)
      PROVE TaskTypes'
  BY <1>1, <1>6 DEF CreateApproval, CreatePendingApproval, Book, Finish
<1>7. ASSUME NEW h \in Handlers, Refuse(h) \/ SendTimesOut(h) \/ Interrupt(h)
      PROVE  TaskTypes'
  BY <1>1, <1>7 DEF Refuse, SendTimesOut, Interrupt
<1>8. ASSUME NEW h \in Handlers, Send(h) PROVE TaskTypes'
  BY <1>8 DEF TypeOK, Send
<1>9. ASSUME NEW h \in Handlers,
             CancelAtBroker(h) \/ NoBrokerToCancelAt(h) \/ CommitCancel(h)
      PROVE TaskTypes'
  BY <1>1, <1>2, <1>9 DEF CancelAtBroker, NoBrokerToCancelAt, CommitCancel, NextOrLeave
<1>10. ASSUME NEW h \in Handlers, NextCancel(h) PROVE TaskTypes'
  <2>1. ASSUME NEW o \in todo[h], TryNext(h, o), todo' = [todo EXCEPT ![h] = @ \ {o}]
        PROVE TaskTypes'
    BY <2>1 DEF TypeOK, TryNext
  <2> QED BY <1>1, <1>10, <2>1 DEF NextCancel
<1>11. ASSUME NEW h \in Handlers, Request(h) PROVE TaskTypes'
  <2>1. CASE BeginCancelAll(h)
    BY <2>1 DEF TypeOK, BeginCancelAll
  <2>2. CASE ~BeginCancelAll(h)
    BY <1>3, <1>11, <2>2 DEF Request, BeginApprove, BeginReject, BeginAsk, BeginPlace,
         BeginCancel
  <2> QED BY <2>1, <2>2
<1>12. ASSUME UNCHANGED <<pc, taskVars>> PROVE TaskTypes'
  BY <1>12 DEF TypeOK, taskVars
<1> QED
  BY <1>4, <1>5, <1>6, <1>7, <1>8, <1>9, <1>10, <1>11, <1>12
     DEF Next, Progress, Decision, Placement, Cancelling, BrokerFills, Lapse

\* Two handlers never book one order, and the order a handler books is at the
\* broker and not yet in the database.
Booking ==
  \A h \in Handlers : pc[h] = "book" =>
    /\ order[ord[h]] = "none" /\ broker[ord[h]] # "none"
    /\ \A g \in Handlers \ {h} : pc[g] = "book" => ord[g] # ord[h]

\* A step that lets no handler begin to book.
LEMMA BookingQuiet ==
  ASSUME TypeOK, Booking,
         \A g \in Handlers : pc'[g] = "book" => pc[g] = "book" /\ ord'[g] = ord[g],
         \A o \in OrderIds : broker[o] # "none" => broker'[o] # "none",
         \A o \in OrderIds : order[o] = "none" => order'[o] = "none"
  PROVE  Booking'
BY DEF Booking, TypeOK, HandlerHasRows

\* Booking is inductive.
LEMMA BookingNext ==
  ASSUME TypeOK, Booking, Next
  PROVE  Booking'
<1> USE DEF TypeOK, DataTypes, TaskTypes, Leave, GoTo, orderVars, approvalVars, taskVars
<1>1. ASSUME NEW h \in Handlers, Decision(h) PROVE Booking'
  BY <1>1, BookingQuiet DEF Decision, Expire, CommitApproval, CommitRejection,
       ClosePlaceholder
<1>2. ASSUME NEW h \in Handlers, CreateApproval(h) \/ Refuse(h) \/ Interrupt(h)
      PROVE  Booking'
  BY <1>2, BookingQuiet DEF CreateApproval, Refuse, Interrupt, Finish, Resting
<1>3. ASSUME NEW h \in Handlers, Request(h) PROVE Booking'
  BY <1>3, BookingQuiet DEF Request, BeginApprove, BeginReject, BeginAsk, BeginPlace,
       BeginCancel, BeginCancelAll, Begin, Resting
<1>4. ASSUME NEW h \in Handlers, CreatePendingApproval(h) PROVE Booking'
  BY <1>4 DEF Booking, CreatePendingApproval, Finish, Resting, FreeOrder, HandlerHasRows
<1>5. ASSUME NEW h \in Handlers, Send(h) PROVE Booking'
  BY <1>5 DEF Booking, Send, Take, FreeOrder, HandlerHasRows
<1>6. ASSUME NEW h \in Handlers, SendTimesOut(h) PROVE Booking'
  BY <1>6, BookingQuiet DEF SendTimesOut, Take
<1>7. ASSUME NEW h \in Handlers, Book(h) PROVE Booking'
  BY <1>7 DEF Booking, Book, Finish, Resting, HandlerHasRows
<1>8. ASSUME NEW h \in Handlers, CancelAtBroker(h) PROVE Booking'
  BY <1>8, BookingQuiet DEF CancelAtBroker
<1>9. ASSUME NEW h \in Handlers, NoBrokerToCancelAt(h) \/ CommitCancel(h) PROVE Booking'
  <2>1. \A g \in Handlers : pc'[g] = "book" => pc[g] = "book" /\ ord'[g] = ord[g]
    BY <1>9 DEF NoBrokerToCancelAt, CommitCancel, NextOrLeave
  <2>2. UNCHANGED broker /\ \A o \in OrderIds : order[o] = "none" => order'[o] = "none"
    BY <1>9 DEF NoBrokerToCancelAt, CommitCancel, HandlerHasRows
  <2> QED BY <2>1, <2>2, BookingQuiet
<1>10. ASSUME NEW h \in Handlers, NextCancel(h) PROVE Booking'
  BY <1>10, BookingQuiet DEF NextCancel, TryNext
<1>11. ASSUME \/ \E o \in OrderIds : BrokerFills(o)
              \/ \E a \in ApprovalIds : Lapse(a)
       PROVE  Booking'
  BY <1>11, BookingQuiet DEF BrokerFills, Lapse
<1> QED
  BY <1>1, <1>2, <1>3, <1>4, <1>5, <1>6, <1>7, <1>8, <1>9, <1>10, <1>11
     DEF Next, Progress, Placement, Cancelling

\* The rows clause of TypeOK.
Rows == \A h \in Handlers : HandlerHasRows(h)

\* What a handler works on exists: the rows clause of TypeOK is inductive.
LEMMA RowsNext ==
  ASSUME TypeOK, Booking, Next
  PROVE  Rows'
<1> USE DEF Rows, Booking, DataTypes, TaskTypes, TypeOK, HandlerHasRows, Leave, GoTo,
    orderVars, approvalVars, taskVars, Finish, NextOrLeave, Resting
<1>1. ASSUME NEW h \in Handlers, Expire(h) PROVE Rows'
  BY <1>1 DEF Expire
<1>2. ASSUME NEW h \in Handlers, CommitApproval(h) PROVE Rows'
  BY <1>2 DEF CommitApproval, ClosePlaceholder
<1>3. ASSUME NEW h \in Handlers, CommitRejection(h) PROVE Rows'
  BY <1>3 DEF CommitRejection, ClosePlaceholder
<1>4. ASSUME NEW h \in Handlers, CreateApproval(h) PROVE Rows'
  BY <1>4 DEF CreateApproval, NewApproval, FreeApproval
<1>5. ASSUME NEW h \in Handlers, CreatePendingApproval(h) PROVE Rows'
  BY <1>5 DEF CreatePendingApproval, NewApproval, FreeApproval, FreeOrder
<1>6. ASSUME NEW h \in Handlers, Refuse(h) PROVE Rows'
  BY <1>6 DEF Refuse
<1>7. ASSUME NEW h \in Handlers, Send(h) PROVE Rows'
  BY <1>7 DEF Send, Take, FreeOrder
<1>8. ASSUME NEW h \in Handlers, SendTimesOut(h) PROVE Rows'
  BY <1>8 DEF SendTimesOut, Take, FreeOrder
<1>9. ASSUME NEW h \in Handlers, Book(h) PROVE Rows'
  BY <1>9 DEF Book
<1>10. ASSUME NEW h \in Handlers, CancelAtBroker(h) PROVE Rows'
  BY <1>10 DEF CancelAtBroker
<1>11. ASSUME NEW h \in Handlers, NoBrokerToCancelAt(h) PROVE Rows'
  BY <1>11 DEF NoBrokerToCancelAt
<1>12. ASSUME NEW h \in Handlers, CommitCancel(h) PROVE Rows'
  BY <1>12 DEF CommitCancel
<1>13. ASSUME NEW h \in Handlers, NextCancel(h) PROVE Rows'
  BY <1>13 DEF NextCancel, TryNext
<1>14. ASSUME NEW h \in Handlers, Request(h) PROVE Rows'
  <2>1. CASE \E a \in ApprovalIds : BeginApprove(h, a) \/ BeginReject(h, a)
    BY <2>1 DEF BeginApprove, BeginReject, Begin
  <2>2. CASE \E what \in Acts : BeginAsk(h, what) \/ BeginPlace(h, what)
    BY <2>2 DEF BeginAsk, BeginPlace, Begin
  <2>3. CASE \E o \in OrderIds : BeginCancel(h, o)
    BY <2>3 DEF BeginCancel, Begin
  <2>4. CASE BeginCancelAll(h)
    BY <2>4 DEF BeginCancelAll
  <2> QED BY <1>14, <2>1, <2>2, <2>3, <2>4 DEF Request
<1>15. ASSUME NEW h \in Handlers, Interrupt(h) PROVE Rows'
  BY <1>15 DEF Interrupt
<1>16. ASSUME NEW o \in OrderIds, BrokerFills(o) PROVE Rows'
  BY <1>16 DEF BrokerFills
<1>17. ASSUME NEW a \in ApprovalIds, Lapse(a) PROVE Rows'
  BY <1>17 DEF Lapse
<1> QED
  BY <1>1, <1>2, <1>3, <1>4, <1>5, <1>6, <1>7, <1>8, <1>9, <1>10, <1>11, <1>12, <1>13,
       <1>14, <1>15, <1>16, <1>17
     DEF Next, Progress, Decision, Placement, Cancelling


\* A request that has not been made is nowhere referred to.
Fresh ==
  \A a \in ApprovalIds : status[a] = "absent" =>
    /\ ~gated[a] /\ link[a] = None
    /\ \A o \in OrderIds : from[o] # a
    /\ \A h \in Handlers : app[h] # a

\* Fresh is inductive.
LEMMA FreshNext ==
  ASSUME TypeOK, Fresh, Next
  PROVE  Fresh'
<1> USE DEF Fresh, DataTypes, TaskTypes, TypeOK, HandlerHasRows, Leave, GoTo, orderVars,
    approvalVars, taskVars, Finish, NextOrLeave, Resting
<1>1. ASSUME NEW h \in Handlers, Expire(h) PROVE Fresh'
  BY <1>1 DEF Expire
<1>2. ASSUME NEW h \in Handlers, CommitApproval(h) PROVE Fresh'
  BY <1>2 DEF CommitApproval, ClosePlaceholder
<1>3. ASSUME NEW h \in Handlers, CommitRejection(h) PROVE Fresh'
  BY <1>3 DEF CommitRejection, ClosePlaceholder
<1>4. ASSUME NEW h \in Handlers, CreateApproval(h) PROVE Fresh'
  BY <1>4 DEF CreateApproval, NewApproval, FreeApproval
<1>5. ASSUME NEW h \in Handlers, CreatePendingApproval(h) PROVE Fresh'
  BY <1>5 DEF CreatePendingApproval, NewApproval, FreeApproval, FreeOrder
<1>6. ASSUME NEW h \in Handlers, Refuse(h) PROVE Fresh'
  BY <1>6 DEF Refuse
<1>7. ASSUME NEW h \in Handlers, Send(h) PROVE Fresh'
  BY <1>7 DEF Send, Take, FreeOrder
<1>8. ASSUME NEW h \in Handlers, SendTimesOut(h) PROVE Fresh'
  BY <1>8 DEF SendTimesOut, Take, FreeOrder
<1>9. ASSUME NEW h \in Handlers, Book(h) PROVE Fresh'
  BY <1>9 DEF Book
<1>10. ASSUME NEW h \in Handlers, CancelAtBroker(h) PROVE Fresh'
  BY <1>10 DEF CancelAtBroker
<1>11. ASSUME NEW h \in Handlers, NoBrokerToCancelAt(h) PROVE Fresh'
  BY <1>11 DEF NoBrokerToCancelAt
<1>12. ASSUME NEW h \in Handlers, CommitCancel(h) PROVE Fresh'
  BY <1>12 DEF CommitCancel
<1>13. ASSUME NEW h \in Handlers, NextCancel(h) PROVE Fresh'
  BY <1>13 DEF NextCancel, TryNext
<1>14. ASSUME NEW h \in Handlers, Request(h) PROVE Fresh'
  BY <1>14 DEF Request, BeginApprove, BeginReject, BeginAsk, BeginPlace, BeginCancel,
       BeginCancelAll, Begin, MayDecide
<1>15. ASSUME NEW h \in Handlers, Interrupt(h) PROVE Fresh'
  BY <1>15 DEF Interrupt
<1>16. ASSUME NEW o \in OrderIds, BrokerFills(o) PROVE Fresh'
  BY <1>16 DEF BrokerFills
<1>17. ASSUME NEW a \in ApprovalIds, Lapse(a) PROVE Fresh'
  BY <1>17 DEF Lapse
<1> QED
  BY <1>1, <1>2, <1>3, <1>4, <1>5, <1>6, <1>7, <1>8, <1>9, <1>10, <1>11, <1>12, <1>13,
       <1>14, <1>15, <1>16, <1>17
     DEF Next, Progress, Decision, Placement, Cancelling


\* No two requests share a placeholder, which exists; a request that has been
\* approved or rejected has closed its own, and an order waits for approval
\* only as a placeholder.
Linked ==
  /\ \A a, b \in ApprovalIds : link[a] # None /\ link[a] = link[b] => a = b
  /\ \A a \in ApprovalIds : link[a] # None => order[link[a]] # "none"
  /\ \A a \in ApprovalIds : status[a] \in {"approved", "rejected"} /\ link[a] # None
        => order[link[a]] # "pending_approval"
  /\ \A o \in OrderIds : order[o] = "pending_approval" => \E a \in ApprovalIds : link[a] = o

\* Linked is inductive.
LEMMA LinkedNext ==
  ASSUME TypeOK, Booking, Fresh, Linked, Next
  PROVE  Linked'
<1> USE DEF Linked, Fresh, Booking, DataTypes, TaskTypes, TypeOK, HandlerHasRows, Leave,
    GoTo, orderVars, approvalVars, taskVars, Finish, NextOrLeave, Resting
<1>1. ASSUME NEW h \in Handlers, Expire(h) PROVE Linked'
  BY <1>1 DEF Expire
<1>2. ASSUME NEW h \in Handlers, CommitApproval(h) PROVE Linked'
  BY <1>2 DEF CommitApproval, ClosePlaceholder
<1>3. ASSUME NEW h \in Handlers, CommitRejection(h) PROVE Linked'
  BY <1>3 DEF CommitRejection, ClosePlaceholder
<1>4. ASSUME NEW h \in Handlers, CreateApproval(h) PROVE Linked'
  BY <1>4 DEF CreateApproval, NewApproval, FreeApproval
<1>5. ASSUME NEW h \in Handlers, CreatePendingApproval(h) PROVE Linked'
  BY <1>5 DEF CreatePendingApproval, NewApproval, FreeApproval, FreeOrder
<1>6. ASSUME NEW h \in Handlers, Refuse(h) PROVE Linked'
  BY <1>6 DEF Refuse
<1>7. ASSUME NEW h \in Handlers, Send(h) PROVE Linked'
  BY <1>7 DEF Send, Take, FreeOrder
<1>8. ASSUME NEW h \in Handlers, SendTimesOut(h) PROVE Linked'
  BY <1>8 DEF SendTimesOut, Take, FreeOrder
<1>9. ASSUME NEW h \in Handlers, Book(h) PROVE Linked'
  BY <1>9 DEF Book
<1>10. ASSUME NEW h \in Handlers, CancelAtBroker(h) PROVE Linked'
  BY <1>10 DEF CancelAtBroker
<1>11. ASSUME NEW h \in Handlers, NoBrokerToCancelAt(h) PROVE Linked'
  BY <1>11 DEF NoBrokerToCancelAt
<1>12. ASSUME NEW h \in Handlers, CommitCancel(h) PROVE Linked'
  BY <1>12 DEF CommitCancel
<1>13. ASSUME NEW h \in Handlers, NextCancel(h) PROVE Linked'
  BY <1>13 DEF NextCancel, TryNext
<1>14. ASSUME NEW h \in Handlers, Request(h) PROVE Linked'
  BY <1>14 DEF Request, BeginApprove, BeginReject, BeginAsk, BeginPlace, BeginCancel,
       BeginCancelAll, Begin
<1>15. ASSUME NEW h \in Handlers, Interrupt(h) PROVE Linked'
  BY <1>15 DEF Interrupt
<1>16. ASSUME NEW o \in OrderIds, BrokerFills(o) PROVE Linked'
  BY <1>16 DEF BrokerFills
<1>17. ASSUME NEW a \in ApprovalIds, Lapse(a) PROVE Linked'
  BY <1>17 DEF Lapse
<1> QED
  BY <1>1, <1>2, <1>3, <1>4, <1>5, <1>6, <1>7, <1>8, <1>9, <1>10, <1>11, <1>12, <1>13,
       <1>14, <1>15, <1>16, <1>17
     DEF Next, Progress, Decision, Placement, Cancelling


\* What a strategy that requires approval asks for has not reached the broker
\* and is not being booked.
GatedNeverSent ==
  /\ \A o \in OrderIds : from[o] # None => ~gated[from[o]]
  /\ \A h \in Handlers : pc[h] = "book" => ~Gated(h)

\* No step sends it: see GateHolds.
LEMMA GateNext ==
  ASSUME TypeOK, Fresh, GatedNeverSent, Next
  PROVE  GatedNeverSent'
<1> USE DEF GatedNeverSent, Gated, Fresh, DataTypes, TaskTypes, TypeOK, HandlerHasRows,
    Leave, GoTo, orderVars, approvalVars, taskVars, Finish, NextOrLeave, Resting
<1>1. ASSUME NEW h \in Handlers, Expire(h) PROVE GatedNeverSent'
  BY <1>1 DEF Expire
<1>2. ASSUME NEW h \in Handlers, CommitApproval(h) PROVE GatedNeverSent'
  BY <1>2 DEF CommitApproval, ClosePlaceholder
<1>3. ASSUME NEW h \in Handlers, CommitRejection(h) PROVE GatedNeverSent'
  BY <1>3 DEF CommitRejection, ClosePlaceholder
<1>4. ASSUME NEW h \in Handlers, CreateApproval(h) PROVE GatedNeverSent'
  BY <1>4 DEF CreateApproval, NewApproval, FreeApproval
<1>5. ASSUME NEW h \in Handlers, CreatePendingApproval(h) PROVE GatedNeverSent'
  BY <1>5 DEF CreatePendingApproval, NewApproval, FreeApproval, FreeOrder
<1>6. ASSUME NEW h \in Handlers, Refuse(h) PROVE GatedNeverSent'
  BY <1>6 DEF Refuse
<1>7. ASSUME NEW h \in Handlers, Send(h) PROVE GatedNeverSent'
  BY <1>7 DEF Send, Take, FreeOrder
<1>8. ASSUME NEW h \in Handlers, SendTimesOut(h) PROVE GatedNeverSent'
  BY <1>8 DEF SendTimesOut, Take, FreeOrder
<1>9. ASSUME NEW h \in Handlers, Book(h) PROVE GatedNeverSent'
  BY <1>9 DEF Book
<1>10. ASSUME NEW h \in Handlers, CancelAtBroker(h) PROVE GatedNeverSent'
  BY <1>10 DEF CancelAtBroker
<1>11. ASSUME NEW h \in Handlers, NoBrokerToCancelAt(h) PROVE GatedNeverSent'
  BY <1>11 DEF NoBrokerToCancelAt
<1>12. ASSUME NEW h \in Handlers, CommitCancel(h) PROVE GatedNeverSent'
  BY <1>12 DEF CommitCancel
<1>13. ASSUME NEW h \in Handlers, NextCancel(h) PROVE GatedNeverSent'
  BY <1>13 DEF NextCancel, TryNext
<1>14. ASSUME NEW h \in Handlers, Request(h) PROVE GatedNeverSent'
  BY <1>14 DEF Request, BeginApprove, BeginReject, BeginAsk, BeginPlace, BeginCancel,
       BeginCancelAll, Begin, MayDecide
<1>15. ASSUME NEW h \in Handlers, Interrupt(h) PROVE GatedNeverSent'
  BY <1>15 DEF Interrupt
<1>16. ASSUME NEW o \in OrderIds, BrokerFills(o) PROVE GatedNeverSent'
  BY <1>16 DEF BrokerFills
<1>17. ASSUME NEW a \in ApprovalIds, Lapse(a) PROVE GatedNeverSent'
  BY <1>17 DEF Lapse
<1> QED
  BY <1>1, <1>2, <1>3, <1>4, <1>5, <1>6, <1>7, <1>8, <1>9, <1>10, <1>11, <1>12, <1>13,
       <1>14, <1>15, <1>16, <1>17
     DEF Next, Progress, Decision, Placement, Cancelling


\* One handler at a time decides a request, which is pending until it does;
\* orders are sent for approved requests, once.
Serial ==
  /\ \A h \in Handlers : pc[h] \in {"expire", "decide"} =>
       /\ status[app[h]] = "pending"
       /\ \A g \in Handlers \ {h} : ~Deciding(g, app[h])
  /\ \A h \in Handlers : pc[h] = "check" /\ act[h] = "approve" =>
       /\ status[app[h]] = "approved"
       /\ \A o \in OrderIds : from[o] # app[h]
       /\ \A g \in Handlers \ {h} : pc[g] = "check" => app[g] # app[h]
  /\ \A o \in OrderIds : from[o] # None => status[from[o]] = "approved"
  /\ \A o, p \in OrderIds : from[o] # None /\ from[o] = from[p] => o = p

\* A step that decides and sends nothing.
LEMMA SerialQuiet ==
  ASSUME Serial, UNCHANGED <<status, from>>,
         \A g \in Handlers : pc'[g] \in {"expire", "decide", "check"} =>
           pc'[g] = pc[g] /\ act'[g] = act[g] /\ app'[g] = app[g]
  PROVE  Serial'
BY DEF Serial, Deciding

\* Serial is inductive when decisions do not overlap.
LEMMA SerialNext ==
  ASSUME ~Overlap, TypeOK, Fresh, Serial, Next
  PROVE  Serial'
<1> USE DEF TypeOK, DataTypes, TaskTypes, Leave, GoTo, orderVars, approvalVars, taskVars
<1>1. ASSUME NEW h \in Handlers, Expire(h) PROVE Serial'
  BY <1>1 DEF Serial, Deciding, Expire, HandlerHasRows
<1>2. ASSUME NEW h \in Handlers, CommitApproval(h) PROVE Serial'
  BY <1>2 DEF Serial, Deciding, CommitApproval, HandlerHasRows
<1>3. ASSUME NEW h \in Handlers, CommitRejection(h) PROVE Serial'
  BY <1>3 DEF Serial, Deciding, CommitRejection, HandlerHasRows
<1>4. ASSUME NEW h \in Handlers, CreateApproval(h) PROVE Serial'
  BY <1>4 DEF Serial, Deciding, Fresh, CreateApproval, NewApproval, FreeApproval, Finish,
       Resting, HandlerHasRows
<1>5. ASSUME NEW h \in Handlers, CreatePendingApproval(h) PROVE Serial'
  BY <1>5 DEF Serial, Deciding, Fresh, CreatePendingApproval, NewApproval, FreeApproval,
       Finish, Resting, HandlerHasRows
<1>6. ASSUME NEW h \in Handlers, Send(h) PROVE Serial'
  BY <1>6 DEF Serial, Deciding, Send, Take, FreeOrder, HandlerHasRows
<1>7. ASSUME NEW h \in Handlers, SendTimesOut(h) PROVE Serial'
  BY <1>7 DEF Serial, Deciding, SendTimesOut, Take, FreeOrder, HandlerHasRows
<1>8. ASSUME NEW h \in Handlers, Refuse(h) \/ Interrupt(h) \/ Book(h) PROVE Serial'
  BY <1>8, SerialQuiet DEF Refuse, Interrupt, Book, Finish, Resting
<1>9. ASSUME NEW h \in Handlers, CancelAtBroker(h) PROVE Serial'
  BY <1>9, SerialQuiet DEF CancelAtBroker
<1>10. ASSUME NEW h \in Handlers, NoBrokerToCancelAt(h) \/ CommitCancel(h) PROVE Serial'
  BY <1>10, SerialQuiet DEF NoBrokerToCancelAt, CommitCancel, NextOrLeave
<1>11. ASSUME NEW h \in Handlers, NextCancel(h) PROVE Serial'
  BY <1>11, SerialQuiet DEF NextCancel, TryNext
<1>12. ASSUME NEW h \in Handlers, NEW a \in ApprovalIds, BeginApprove(h,
       a) \/ BeginReject(h, a)
       PROVE  Serial'
  <2>1. CASE status[a] # "pending"
    BY <1>12, <2>1, SerialQuiet DEF BeginApprove, BeginReject, Begin, Resting
  <2>2. CASE status[a] = "pending"
    <3>1. /\ pc'[h] \in {"expire", "decide"} /\ app'[h] = a
          /\ \A g \in Handlers \ {h} : pc'[g] = pc[g] /\ act'[g] = act[g] /\ app'[g] = app[g]
          /\ UNCHANGED <<status, from>>
      BY <1>12, <2>2 DEF BeginApprove, BeginReject, Begin, Resting
    <3>2. \A g \in Handlers \ {h} : ~Deciding(g, a)
      BY <1>12 DEF BeginApprove, BeginReject, MayDecide
    <3> QED BY <2>2, <3>1, <3>2 DEF Serial, Deciding
  <2> QED BY <2>1, <2>2
<1>13. ASSUME NEW h \in Handlers, NEW what \in Acts, BeginAsk(h, what) PROVE Serial'
  BY <1>13, SerialQuiet DEF BeginAsk, Begin, Resting
<1>14. ASSUME NEW h \in Handlers, NEW what \in Acts, BeginPlace(h, what) PROVE Serial'
  <2>1. /\ pc'[h] = "check" /\ act'[h] \in {"place", "place_gated"} /\ app'[h] = None
        /\ \A g \in Handlers \ {h} : pc'[g] = pc[g] /\ act'[g] = act[g] /\ app'[g] = app[g]
        /\ UNCHANGED <<status, from>>
    BY <1>14 DEF BeginPlace, Begin, Resting
  <2>2. \A g \in Handlers : pc[g] = "check" /\ act[g] = "approve" => app[g] # None
    BY DEF HandlerHasRows
  <2> QED BY <2>1, <2>2 DEF Serial, Deciding
<1>15. ASSUME NEW h \in Handlers, NEW o \in OrderIds, BeginCancel(h, o) PROVE Serial'
  BY <1>15, SerialQuiet DEF BeginCancel, Begin, Resting
<1>16. ASSUME NEW h \in Handlers, BeginCancelAll(h) PROVE Serial'
  BY <1>16, SerialQuiet DEF BeginCancelAll, Resting
<1>17. ASSUME \/ \E o \in OrderIds : BrokerFills(o)
              \/ \E a \in ApprovalIds : Lapse(a)
       PROVE  Serial'
  BY <1>17, SerialQuiet DEF BrokerFills, Lapse
<1> QED
  BY <1>1, <1>2, <1>3, <1>4, <1>5, <1>6, <1>7, <1>8, <1>9, <1>10, <1>11, <1>12, <1>13,
     <1>14, <1>15, <1>16, <1>17
     DEF Next, Progress, Request, Decision, Placement, Cancelling

\* An order sent for a request is known to the broker.
Taken == \A o \in OrderIds : from[o] # None => broker[o] # "none"

\* Taken is inductive.
LEMMA TakenNext ==
  ASSUME TypeOK, Taken, Next
  PROVE  Taken'
<1> USE DEF Taken, BrokerStatuses, DataTypes, TaskTypes, TypeOK, HandlerHasRows, Leave,
    GoTo, orderVars, approvalVars, taskVars, Finish, NextOrLeave, Resting
<1>1. ASSUME NEW h \in Handlers, Expire(h) PROVE Taken'
  BY <1>1 DEF Expire
<1>2. ASSUME NEW h \in Handlers, CommitApproval(h) PROVE Taken'
  BY <1>2 DEF CommitApproval, ClosePlaceholder
<1>3. ASSUME NEW h \in Handlers, CommitRejection(h) PROVE Taken'
  BY <1>3 DEF CommitRejection, ClosePlaceholder
<1>4. ASSUME NEW h \in Handlers, CreateApproval(h) PROVE Taken'
  BY <1>4 DEF CreateApproval, NewApproval, FreeApproval
<1>5. ASSUME NEW h \in Handlers, CreatePendingApproval(h) PROVE Taken'
  BY <1>5 DEF CreatePendingApproval, NewApproval, FreeApproval, FreeOrder
<1>6. ASSUME NEW h \in Handlers, Refuse(h) PROVE Taken'
  BY <1>6 DEF Refuse
<1>7. ASSUME NEW h \in Handlers, Send(h) PROVE Taken'
  BY <1>7 DEF Send, Take, FreeOrder, Acks
<1>8. ASSUME NEW h \in Handlers, SendTimesOut(h) PROVE Taken'
  BY <1>8 DEF SendTimesOut, Take, FreeOrder
<1>9. ASSUME NEW h \in Handlers, Book(h) PROVE Taken'
  BY <1>9 DEF Book
<1>10. ASSUME NEW h \in Handlers, CancelAtBroker(h) PROVE Taken'
  BY <1>10 DEF CancelAtBroker
<1>11. ASSUME NEW h \in Handlers, NoBrokerToCancelAt(h) PROVE Taken'
  BY <1>11 DEF NoBrokerToCancelAt
<1>12. ASSUME NEW h \in Handlers, CommitCancel(h) PROVE Taken'
  BY <1>12 DEF CommitCancel
<1>13. ASSUME NEW h \in Handlers, NextCancel(h) PROVE Taken'
  BY <1>13 DEF NextCancel, TryNext
<1>14. ASSUME NEW h \in Handlers, Request(h) PROVE Taken'
  BY <1>14 DEF Request, BeginApprove, BeginReject, BeginAsk, BeginPlace, BeginCancel,
       BeginCancelAll, Begin
<1>15. ASSUME NEW h \in Handlers, Interrupt(h) PROVE Taken'
  BY <1>15 DEF Interrupt
<1>16. ASSUME NEW o \in OrderIds, BrokerFills(o) PROVE Taken'
  BY <1>16 DEF BrokerFills
<1>17. ASSUME NEW a \in ApprovalIds, Lapse(a) PROVE Taken'
  BY <1>17 DEF Lapse
<1> QED
  BY <1>1, <1>2, <1>3, <1>4, <1>5, <1>6, <1>7, <1>8, <1>9, <1>10, <1>11, <1>12, <1>13,
       <1>14, <1>15, <1>16, <1>17
     DEF Next, Progress, Decision, Placement, Cancelling

-----------------------------------------------------------------------------
(* The inductive invariant and the theorems it gives.                       *)

IInv == TypeOK /\ Booking /\ Fresh /\ Linked /\ Taken

\* The initial state satisfies the invariant.
LEMMA InitIInv ==
  ASSUME Init
  PROVE  IInv
<1>1. DataTypes
  BY DEF Init, DataTypes, OrderStatuses, BrokerStatuses, ApprovalStatuses
<1>2. TaskTypes
  BY DEF Init, TaskTypes, Resting, Stages, Acts, Acks
<1>3. \A h \in Handlers : HandlerHasRows(h)
  BY DEF Init, HandlerHasRows, Resting
<1>4. Booking /\ Fresh /\ Linked /\ Taken
  BY NoneAssumption DEF Init, Booking, Fresh, Linked, Taken, Resting
<1> QED BY <1>1, <1>2, <1>3, <1>4 DEF IInv, TypeOK

\* Every step keeps the invariant.
LEMMA IInvStep ==
  ASSUME IInv, [Next]_vars
  PROVE  IInv'
<1>1. CASE Next
  BY <1>1, DataTypesNext, TaskTypesNext, RowsNext, BookingNext, FreshNext, LinkedNext,
       TakenNext
     DEF IInv, TypeOK, Rows
<1>2. CASE UNCHANGED vars
  BY <1>2 DEF IInv, vars, orderVars, approvalVars, taskVars, TypeOK, DataTypes, TaskTypes,
              HandlerHasRows, Booking, Fresh, Linked, Taken
<1> QED BY <1>1, <1>2

\* The invariant holds always.
LEMMA IInvAlways == Spec => []IInv
<1>1. Init => IInv
  BY InitIInv
<1>2. IInv /\ [Next]_vars => IInv'
  BY IInvStep
<1> QED BY <1>1, <1>2, PTL DEF Spec

\* Type invariant of the workflow, for any number of handlers, orders and
\* requests, whatever overlaps, fails or crashes.
THEOREM WorkflowTypeCorrect == Spec => []TypeOK
<1>1. IInv => TypeOK
  BY DEF IInv
<1> QED BY <1>1, IInvAlways, PTL

\* The placeholder of create_pending_approval and its request never part,
\* whichever decisions, expiries and cancellations race for them.
THEOREM PlaceholdersFollowApprovals == Spec => []PlaceholderFollowsApproval
<1>1. ASSUME IInv PROVE PlaceholderFollowsApproval
  <2> SUFFICES ASSUME NEW o \in OrderIds, order[o] = "pending_approval"
               PROVE  \E a \in ApprovalIds :
                        /\ status[a] \in {"pending", "expired"}
                        /\ {b \in ApprovalIds : link[b] = o} = {a}
    BY DEF PlaceholderFollowsApproval
  <2>1. PICK a \in ApprovalIds : link[a] = o
    BY <1>1 DEF IInv, Linked
  <2>2. o # None
    BY NoneAssumption
  <2>3. status[a] \in {"pending", "expired"}
    BY <1>1, <2>1, <2>2 DEF IInv, TypeOK, DataTypes, ApprovalStatuses, Linked, Fresh
  <2>4. {b \in ApprovalIds : link[b] = o} = {a}
    BY <1>1, <2>1, <2>2 DEF IInv, Linked
  <2> QED BY <2>3, <2>4
<1> QED BY <1>1, IInvAlways, PTL

\* The approval gate of _place_one lets nothing through, approve included: what
\* the gate holds is held again whenever it is approved, and never sent, for any
\* number of approvals.  It is what the run gated shows on one approval, and
\* the opposite of what the documentation says of approve.
THEOREM GateHolds == Spec => []GatedNeverSent
<1>1. Init => GatedNeverSent
  BY DEF Init, GatedNeverSent
<1>2. IInv /\ GatedNeverSent /\ [Next]_vars => GatedNeverSent'
  <2> SUFFICES ASSUME IInv, GatedNeverSent, [Next]_vars PROVE GatedNeverSent'
    OBVIOUS
  <2>1. CASE Next
    BY <2>1, GateNext DEF IInv
  <2>2. CASE UNCHANGED vars
    BY <2>2 DEF GatedNeverSent, Gated, vars, orderVars, approvalVars, taskVars
  <2> QED BY <2>1, <2>2
<1> QED BY <1>1, <1>2, IInvAlways, PTL DEF Spec

-----------------------------------------------------------------------------
(* Orders are sent against approvals.                                       *)

\* The sets that are counted are finite.
LEMMA Finite ==
  ASSUME NEW a \in ApprovalIds
  PROVE  /\ IsFiniteSet(SentFor(a)) /\ Cardinality(SentFor(a)) \in Nat
         /\ IsFiniteSet(Sending(a)) /\ Cardinality(Sending(a)) \in Nat
<1>1. SentFor(a) \subseteq OrderIds /\ Sending(a) \subseteq Handlers
  BY DEF SentFor, Sending
<1>2. IsFiniteSet(SentFor(a)) /\ IsFiniteSet(Sending(a))
  BY <1>1, FiniteAssumption, FS_Subset
<1> QED BY <1>2, FS_CardinalityType

\* The balance of one request, in this state and in the next.
Balance(a) == Cardinality(SentFor(a)) + Cardinality(Sending(a)) <= approves[a]

\* Nothing is sent and nothing is about to be.
LEMMA BalanceQuiet ==
  ASSUME TypeOK, NEW a \in ApprovalIds, Balance(a), UNCHANGED <<from, approves>>,
         \A g \in Handlers : pc'[g] = "check" /\ act'[g] = "approve" =>
           pc'[g] = pc[g] /\ act'[g] = act[g] /\ app'[g] = app[g]
  PROVE  Balance(a)'
<1>1. SentFor(a)' = SentFor(a) /\ Sending(a)' \subseteq Sending(a)
  BY DEF SentFor, Sending
<1>2. /\ Cardinality(Sending(a)') \in Nat
      /\ Cardinality(Sending(a)') <= Cardinality(Sending(a))
  BY <1>1, Finite, FS_Subset, FS_CardinalityType
<1>3. approves[a] \in Nat
  BY DEF TypeOK, DataTypes
<1> QED BY <1>1, <1>2, <1>3, Finite DEF Balance

\* approve counts the order it is about to send.
LEMMA BalanceApproval ==
  ASSUME TypeOK, NEW a \in ApprovalIds, Balance(a), NEW h \in Handlers, CommitApproval(h)
  PROVE  Balance(a)'
<1>1. /\ app[h] \in ApprovalIds /\ approves[a] \in Nat /\ SentFor(a)' = SentFor(a)
      /\ approves'[a] = IF a = app[h] THEN approves[a] + 1 ELSE approves[a]
  BY DEF TypeOK, DataTypes, TaskTypes, HandlerHasRows, CommitApproval, SentFor
<1>2. Sending(a)' = IF a = app[h] THEN Sending(a) \cup {h} ELSE Sending(a)
  BY DEF Sending, CommitApproval, GoTo, taskVars, TypeOK, TaskTypes
<1>3. Cardinality(Sending(a) \cup {h}) <= Cardinality(Sending(a)) + 1
  <2>1. IsFiniteSet(Sending(a)) /\ Cardinality(Sending(a)) \in Nat
    BY Finite
  <2>2. \/ Cardinality(Sending(a) \cup {h}) = Cardinality(Sending(a))
        \/ Cardinality(Sending(a) \cup {h}) = Cardinality(Sending(a)) + 1
    BY <2>1, FS_AddElement, Zenon
  <2> QED BY <2>1, <2>2
<1>4. CASE a = app[h]
  <2>1. Cardinality(Sending(a)') \in Nat
    BY <1>2, <1>4, Finite, FS_AddElement, FS_CardinalityType
  <2> QED BY <1>1, <1>2, <1>3, <1>4, <2>1, Finite DEF Balance
<1>5. CASE a # app[h]
  BY <1>1, <1>2, <1>5, Finite DEF Balance
<1> QED BY <1>4, <1>5

\* A handler sends the order that was counted for it.
LEMMA BalanceSend ==
  ASSUME TypeOK, Taken, NEW a \in ApprovalIds, Balance(a), NEW h \in Handlers,
         Send(h) \/ SendTimesOut(h)
  PROVE  Balance(a)'
<1>1. PICK o \in OrderIds : FreeOrder(o) /\ from' = [from EXCEPT ![o] = app[h]]
  BY DEF Send, SendTimesOut, Take
<1>2. from[o] = None /\ pc[h] = "check" /\ approves[a] \in Nat /\ UNCHANGED approves
  BY <1>1 DEF Taken, FreeOrder, Send, SendTimesOut, Take, TypeOK, DataTypes, approvalVars
<1>3. Sending(a)' = Sending(a) \ {h}
  BY DEF Sending, Send, SendTimesOut, Leave, TypeOK, TaskTypes
<1>4. CASE app[h] = a
  <2>1. h \in Sending(a)
    BY <1>2, <1>4, NoneAssumption DEF Sending, TypeOK, HandlerHasRows
  <2>2. SentFor(a)' = SentFor(a) \cup {o} /\ o \notin SentFor(a)
    BY <1>1, <1>2, <1>4, NoneAssumption DEF SentFor, TypeOK, DataTypes
  <2>3. IsFiniteSet(SentFor(a)) /\ IsFiniteSet(Sending(a))
    BY Finite
  <2>4. Cardinality(SentFor(a)') = Cardinality(SentFor(a)) + 1
    BY <2>2, <2>3, FS_AddElement, Zenon
  <2>5. Cardinality(Sending(a)') = Cardinality(Sending(a)) - 1
    BY <1>3, <2>1, <2>3, FS_RemoveElement, Zenon
  <2> QED BY <1>2, <2>4, <2>5, Finite DEF Balance
<1>5. CASE app[h] # a
  <2>1. SentFor(a)' = SentFor(a)
    BY <1>1, <1>2, <1>5, NoneAssumption DEF SentFor, TypeOK, DataTypes
  <2>2. Sending(a)' = Sending(a)
    BY <1>3, <1>5 DEF Sending
  <2> QED BY <1>2, <2>1, <2>2 DEF Balance
<1> QED BY <1>4, <1>5

\* Every step keeps the balance of a request.
LEMMA BalanceNext ==
  ASSUME TypeOK, Taken, NEW a \in ApprovalIds, Balance(a), Next
  PROVE  Balance(a)'
<1> USE DEF TypeOK, TaskTypes, Leave, GoTo, orderVars, approvalVars, taskVars, Finish,
    NextOrLeave, Resting
<1>1. ASSUME NEW h \in Handlers, CommitApproval(h) PROVE Balance(a)'
  BY <1>1, BalanceApproval
<1>2. ASSUME NEW h \in Handlers, Send(h) \/ SendTimesOut(h) PROVE Balance(a)'
  BY <1>2, BalanceSend
<1>3. ASSUME NEW h \in Handlers, Expire(h) \/ CommitRejection(h) PROVE Balance(a)'
  BY <1>3, BalanceQuiet DEF Expire, CommitRejection
<1>4. ASSUME NEW h \in Handlers, CreateApproval(h) \/ CreatePendingApproval(h)
      PROVE  Balance(a)'
  BY <1>4, BalanceQuiet DEF CreateApproval, CreatePendingApproval, NewApproval
<1>5. ASSUME NEW h \in Handlers, Refuse(h) \/ Book(h) \/ Interrupt(h) PROVE Balance(a)'
  BY <1>5, BalanceQuiet DEF Refuse, Book, Interrupt
<1>6. ASSUME NEW h \in Handlers,
      CancelAtBroker(h) \/ NoBrokerToCancelAt(h) \/ CommitCancel(h)
      PROVE  Balance(a)'
  BY <1>6, BalanceQuiet DEF CancelAtBroker, NoBrokerToCancelAt, CommitCancel
<1>7. ASSUME NEW h \in Handlers, NextCancel(h) PROVE Balance(a)'
  BY <1>7, BalanceQuiet DEF NextCancel, TryNext
<1>8. ASSUME NEW h \in Handlers, Request(h) PROVE Balance(a)'
  BY <1>8, BalanceQuiet DEF Request, BeginApprove, BeginReject, BeginAsk, BeginPlace,
       BeginCancel, BeginCancelAll, Begin
<1>9. ASSUME \/ \E o \in OrderIds : BrokerFills(o)
             \/ \E b \in ApprovalIds : Lapse(b)
      PROVE  Balance(a)'
  BY <1>9, BalanceQuiet DEF BrokerFills, Lapse
<1> QED BY <1>1, <1>2, <1>3, <1>4, <1>5, <1>6, <1>7, <1>8, <1>9
     DEF Next, Progress, Decision, Placement, Cancelling

\* Every order approve sends stands for an approval committed for its request,
\* however many clients decide it at once.
THEOREM OrdersStandForApprovals == Spec => []EveryOrderWasApproved
<1>1. Init => EveryOrderWasApproved
  <2> SUFFICES ASSUME Init, NEW a \in ApprovalIds PROVE Balance(a)
    BY DEF EveryOrderWasApproved, Balance
  <2>1. SentFor(a) = {} /\ Sending(a) = {} /\ approves[a] = 0
    BY NoneAssumption DEF Init, SentFor, Sending
  <2> QED BY <2>1, FS_EmptySet DEF Balance
<1>2. IInv /\ EveryOrderWasApproved /\ [Next]_vars => EveryOrderWasApproved'
  <2> SUFFICES ASSUME IInv, EveryOrderWasApproved, [Next]_vars, NEW a \in ApprovalIds
               PROVE  Balance(a)'
    BY DEF EveryOrderWasApproved, Balance
  <2>1. Balance(a)
    BY DEF EveryOrderWasApproved, Balance
  <2>2. CASE Next
    BY <2>1, <2>2, BalanceNext DEF IInv
  <2>3. CASE UNCHANGED vars
    BY <2>1, <2>3 DEF Balance, SentFor, Sending, vars, orderVars, approvalVars, taskVars
  <2> QED BY <2>2, <2>3
<1> QED BY <1>1, <1>2, IInvAlways, PTL DEF Spec

RowsStay == \A o \in OrderIds : order[o] \in {"filled", "cancelled"} => order'[o] = order[o]

\* No step takes an order row out of filled or cancelled.
LEMMA RowsStayNext ==
  ASSUME TypeOK, Booking, Next
  PROVE  RowsStay
<1> USE DEF RowsStay, Booking, DataTypes, TaskTypes, TypeOK, HandlerHasRows, Leave, GoTo,
    orderVars, approvalVars, taskVars, Finish, NextOrLeave, Resting
<1>1. ASSUME NEW h \in Handlers, Expire(h) PROVE RowsStay
  BY <1>1 DEF Expire
<1>2. ASSUME NEW h \in Handlers, CommitApproval(h) PROVE RowsStay
  BY <1>2 DEF CommitApproval, ClosePlaceholder
<1>3. ASSUME NEW h \in Handlers, CommitRejection(h) PROVE RowsStay
  BY <1>3 DEF CommitRejection, ClosePlaceholder
<1>4. ASSUME NEW h \in Handlers, CreateApproval(h) PROVE RowsStay
  BY <1>4 DEF CreateApproval, NewApproval, FreeApproval
<1>5. ASSUME NEW h \in Handlers, CreatePendingApproval(h) PROVE RowsStay
  BY <1>5 DEF CreatePendingApproval, NewApproval, FreeApproval, FreeOrder
<1>6. ASSUME NEW h \in Handlers, Refuse(h) PROVE RowsStay
  BY <1>6 DEF Refuse
<1>7. ASSUME NEW h \in Handlers, Send(h) PROVE RowsStay
  BY <1>7 DEF Send, Take, FreeOrder
<1>8. ASSUME NEW h \in Handlers, SendTimesOut(h) PROVE RowsStay
  BY <1>8 DEF SendTimesOut, Take, FreeOrder
<1>9. ASSUME NEW h \in Handlers, Book(h) PROVE RowsStay
  BY <1>9 DEF Book
<1>10. ASSUME NEW h \in Handlers, CancelAtBroker(h) PROVE RowsStay
  BY <1>10 DEF CancelAtBroker
<1>11. ASSUME NEW h \in Handlers, NoBrokerToCancelAt(h) PROVE RowsStay
  BY <1>11 DEF NoBrokerToCancelAt
<1>12. ASSUME NEW h \in Handlers, CommitCancel(h) PROVE RowsStay
  BY <1>12 DEF CommitCancel
<1>13. ASSUME NEW h \in Handlers, NextCancel(h) PROVE RowsStay
  BY <1>13 DEF NextCancel, TryNext
<1>14. ASSUME NEW h \in Handlers, Request(h) PROVE RowsStay
  BY <1>14 DEF Request, BeginApprove, BeginReject, BeginAsk, BeginPlace, BeginCancel,
       BeginCancelAll, Begin
<1>15. ASSUME NEW h \in Handlers, Interrupt(h) PROVE RowsStay
  BY <1>15 DEF Interrupt
<1>16. ASSUME NEW o \in OrderIds, BrokerFills(o) PROVE RowsStay
  BY <1>16 DEF BrokerFills
<1>17. ASSUME NEW a \in ApprovalIds, Lapse(a) PROVE RowsStay
  BY <1>17 DEF Lapse
<1> QED
  BY <1>1, <1>2, <1>3, <1>4, <1>5, <1>6, <1>7, <1>8, <1>9, <1>10, <1>11, <1>12, <1>13,
       <1>14, <1>15, <1>16, <1>17
     DEF Next, Progress, Decision, Placement, Cancelling


\* A filled or cancelled order row is never changed again, although cancel_order
\* and cancel_all act on statuses they read earlier.
THEOREM TerminalRowsAreFinal == Spec => TerminalRowsStay
<1>1. IInv /\ [Next]_vars => [RowsStay]_vars
  BY RowsStayNext DEF IInv
<1>2. [RowsStay]_vars <=>
        [\A o \in OrderIds : order[o] \in {"filled",
             "cancelled"} => order'[o] = order[o]]_vars
  BY DEF RowsStay
<1> QED BY <1>1, <1>2, IInvAlways, PTL DEF Spec, TerminalRowsStay

-----------------------------------------------------------------------------
(* The promise of the action centre, when decisions do not overlap.         *)

\* Serial holds always when decisions do not overlap.
LEMMA SerialAlways ==
  ASSUME ~Overlap
  PROVE  Spec => []Serial
<1>1. Init => Serial
  BY NoneAssumption DEF Init, Serial
<1>2. IInv /\ Serial /\ [Next]_vars => Serial'
  <2> SUFFICES ASSUME IInv, Serial, [Next]_vars PROVE Serial'
    OBVIOUS
  <2>1. CASE Next
    BY <2>1, SerialNext DEF IInv
  <2>2. CASE UNCHANGED vars
    BY <2>2 DEF Serial, Deciding, vars, orderVars, approvalVars, taskVars
  <2> QED BY <2>1, <2>2
<1> QED BY <1>1, <1>2, IInvAlways, PTL DEF Spec

\* The initial states map to initial states.
LEMMA InitPromise ==
  ASSUME Init
  PROVE  Promise!Init
BY NoneAssumption DEF Init, Promise!Init, Waiting, SentFor

\* A step that changes neither the requests nor what they wait for.
LEMMA Stutters ==
  ASSUME UNCHANGED <<status, link, from>>,
         \A o \in OrderIds : order'[o] = "pending_approval" <=> order[o] = "pending_approval"
  PROVE  UNCHANGED Promise!decisionVars
<1>1. Waiting' = Waiting
  BY DEF Waiting
<1>2. \A a \in ApprovalIds : SentFor(a)' = SentFor(a)
  BY DEF SentFor
<1> QED BY <1>1, <1>2 DEF Promise!decisionVars

\* A decision is committed with its placeholder.
LEMMA DecidesPromise ==
  ASSUME IInv, NEW a \in ApprovalIds, NEW verdict \in {"approved", "rejected"},
         status[a] = "pending", status' = [status EXCEPT ![a] = verdict],
         ClosePlaceholder(a), UNCHANGED <<link, from>>
  PROVE  Promise!Next
<1>1. Waiting' = Waiting \ {a}
  <2>1. ASSUME NEW b \in ApprovalIds PROVE b \in Waiting' <=> b \in Waiting \ {a}
    <3>1. CASE b = a
      BY <3>1, NoneAssumption DEF Waiting, ClosePlaceholder
    <3>2. CASE b # a
      <4>1. ASSUME NEW o \in OrderIds, link[b] = o PROVE o # link[a]
        BY <3>2, <4>1, NoneAssumption DEF IInv, Linked
      <4> QED BY <3>2, <4>1 DEF Waiting, ClosePlaceholder
    <3> QED BY <3>1, <3>2
  <2> QED BY <2>1 DEF Waiting
<1>2. [b \in ApprovalIds |-> SentFor(b)]' = [b \in ApprovalIds |-> SentFor(b)]
  BY DEF SentFor
<1>3. Promise!Decide(a, verdict)
  BY <1>1, <1>2 DEF Promise!Decide
<1> QED BY <1>3 DEF Promise!Next

\* An expiry is committed, the placeholder stays.
LEMMA ExpiresPromise ==
  ASSUME NEW a \in ApprovalIds,
         status[a] = "pending", status' = [status EXCEPT ![a] = "expired"],
         UNCHANGED <<order, link, from>>
  PROVE  Promise!Next
<1>1. Waiting' = Waiting
  BY DEF Waiting
<1>2. [b \in ApprovalIds |-> SentFor(b)]' = [b \in ApprovalIds |-> SentFor(b)]
  BY DEF SentFor
<1>3. Promise!Decide(a, "expired")
  BY <1>1, <1>2 DEF Promise!Decide
<1> QED BY <1>3 DEF Promise!Next

\* A request is made, with a new placeholder or with none.
LEMMA AsksPromise ==
  ASSUME IInv, NEW a \in ApprovalIds, NEW g \in BOOLEAN,
         NEW o \in OrderIds \cup {None}, NewApproval(a, g, o), UNCHANGED from,
         \/ o = None /\ UNCHANGED order
         \/ /\ o \in OrderIds /\ order[o] = "none"
            /\ order' = [order EXCEPT ![o] = "pending_approval"]
  PROVE  Promise!Next
<1>1. status[a] = "absent" /\ status' = [status EXCEPT ![a] = "pending"]
  BY DEF NewApproval, FreeApproval
<1>2. Waiting' \in {Waiting, Waiting \cup {a}}
  <2>1. CASE o = None
    <3>1. Waiting' = Waiting
      BY <2>1, NoneAssumption DEF Waiting, NewApproval, IInv, Fresh, FreeApproval, TypeOK,
           DataTypes
    <3> QED BY <3>1
  <2>2. CASE o \in OrderIds
    <3>1. ASSUME NEW b \in ApprovalIds PROVE b \in Waiting' <=> b \in Waiting \cup {a}
      BY <2>2, <3>1, NoneAssumption
         DEF Waiting, NewApproval, IInv, Fresh, FreeApproval, Linked, TypeOK, DataTypes
    <3>2. Waiting' = Waiting \cup {a}
      BY <3>1 DEF Waiting
    <3> QED BY <3>2
  <2> QED BY <2>1, <2>2
<1>3. [b \in ApprovalIds |-> SentFor(b)]' = [b \in ApprovalIds |-> SentFor(b)]
  BY DEF SentFor
<1>4. Promise!Ask(a)
  BY <1>1, <1>2, <1>3 DEF Promise!Ask
<1> QED BY <1>4 DEF Promise!Next

\* An order is sent, for an approved request or for none.
LEMMA TakesPromise ==
  ASSUME IInv, Serial, NEW h \in Handlers, pc[h] = "check",
         NEW o \in OrderIds, NEW st \in BrokerStatuses, Take(h, o, st)
  PROVE  Promise!Next \/ UNCHANGED Promise!decisionVars
<1>1. UNCHANGED <<order, link, status>> /\ from' = [from EXCEPT ![o] = app[h]]
  BY DEF Take, approvalVars
<1>2. Waiting' = Waiting
  BY <1>1 DEF Waiting
<1>3. from[o] = None
  BY DEF Take, FreeOrder, IInv, Taken
<1>4. CASE app[h] = None
  <2>1. \A b \in ApprovalIds : SentFor(b)' = SentFor(b)
    BY <1>1, <1>3, <1>4, NoneAssumption DEF SentFor, IInv, TypeOK, DataTypes
  <2> QED BY <1>1, <1>2, <2>1 DEF Promise!decisionVars
<1>5. CASE app[h] # None
  <2>1. /\ app[h] \in ApprovalIds /\ status[app[h]] = "approved"
        /\ SentFor(app[h]) = {}
    BY <1>5 DEF IInv, TypeOK, TaskTypes, HandlerHasRows, Serial, SentFor
  <2>2. ASSUME NEW b \in ApprovalIds
        PROVE  SentFor(b)' = IF b = app[h] THEN {o} ELSE SentFor(b)
    BY <1>1, <1>3, <2>1, NoneAssumption DEF SentFor, IInv, TypeOK, DataTypes
  <2>3. [b \in ApprovalIds |-> SentFor(b)]' =
          [[b \in ApprovalIds |-> SentFor(b)] EXCEPT ![app[h]] = {o}]
    BY <2>1, <2>2
  <2>4. Promise!Place(app[h], o)
    BY <1>1, <1>2, <2>1, <2>3 DEF Promise!Place
  <2> QED BY <2>1, <2>4 DEF Promise!Next
<1> QED BY <1>4, <1>5

\* An order row is cancelled: perhaps the placeholder of a request.
LEMMA CancelsPromise ==
  ASSUME IInv, NEW o \in OrderIds, order' = [order EXCEPT ![o] = "cancelled"],
         UNCHANGED <<status, link, from>>
  PROVE  Promise!Next \/ UNCHANGED Promise!decisionVars
<1>1. [b \in ApprovalIds |-> SentFor(b)]' = [b \in ApprovalIds |-> SentFor(b)]
  BY DEF SentFor
<1>2. CASE order[o] # "pending_approval"
  BY <1>2, Stutters DEF IInv, TypeOK, DataTypes
<1>3. CASE order[o] = "pending_approval"
  <2>1. PICK a \in ApprovalIds : link[a] = o
    BY <1>3 DEF IInv, Linked
  <2>2. a \in Waiting
    BY <1>3, <2>1 DEF Waiting
  <2>3. ASSUME NEW b \in ApprovalIds PROVE b \in Waiting' <=> b \in Waiting \ {a}
    <3>1. CASE b = a
      BY <2>1, <3>1 DEF Waiting, IInv, TypeOK, DataTypes
    <3>2. CASE b # a
      <4>1. link[b] # o
        BY <2>1, <3>2, NoneAssumption DEF IInv, Linked
      <4> QED BY <3>2, <4>1 DEF Waiting, IInv, TypeOK, DataTypes
    <3> QED BY <3>1, <3>2
  <2>4. Waiting' = Waiting \ {a}
    BY <2>3 DEF Waiting
  <2>5. Promise!Withdraw(a)
    BY <1>1, <2>2, <2>4 DEF Promise!Withdraw
  <2> QED BY <2>5 DEF Promise!Next
<1> QED BY <1>2, <1>3

\* Every step maps to a step of the promise or to a stutter.
LEMMA PromiseStep ==
  ASSUME IInv, Serial, [Next]_vars
  PROVE  [Promise!Next]_(Promise!decisionVars)
<1> SUFFICES Promise!Next \/ UNCHANGED Promise!decisionVars
  OBVIOUS
<1>1. ASSUME NEW h \in Handlers, Expire(h)
      PROVE  Promise!Next
  <2>1. app[h] \in ApprovalIds /\ status[app[h]] = "pending"
    BY <1>1 DEF IInv, TypeOK, TaskTypes, HandlerHasRows, Serial, Expire
  <2> QED BY <1>1, <2>1, ExpiresPromise DEF Expire, orderVars
<1>2. ASSUME NEW h \in Handlers, CommitApproval(h) \/ CommitRejection(h)
      PROVE  Promise!Next
  <2>1. app[h] \in ApprovalIds /\ status[app[h]] = "pending"
    BY <1>2 DEF IInv, TypeOK, TaskTypes, HandlerHasRows, Serial, CommitApproval,
         CommitRejection
  <2>2. CASE CommitApproval(h)
    BY <2>1, <2>2, DecidesPromise DEF CommitApproval
  <2>3. CASE CommitRejection(h)
    BY <2>1, <2>3, DecidesPromise DEF CommitRejection
  <2> QED BY <1>2, <2>2, <2>3
<1>3. ASSUME NEW h \in Handlers, CreateApproval(h)
      PROVE  Promise!Next
  BY <1>3, AsksPromise DEF CreateApproval, orderVars
<1>4. ASSUME NEW h \in Handlers, CreatePendingApproval(h)
      PROVE  Promise!Next
  BY <1>4, AsksPromise DEF CreatePendingApproval, FreeOrder
<1>5. ASSUME NEW h \in Handlers, Send(h) \/ SendTimesOut(h)
      PROVE  Promise!Next \/ UNCHANGED Promise!decisionVars
  <2>1. pc[h] = "check" /\ \E o \in OrderIds, st \in BrokerStatuses : Take(h, o, st)
    BY <1>5 DEF Send, SendTimesOut, BrokerStatuses
  <2> QED BY <2>1, TakesPromise
<1>6. ASSUME NEW h \in Handlers, Book(h)
      PROVE  UNCHANGED Promise!decisionVars
  <2>1. ord[h] \in OrderIds /\ order[ord[h]] = "none"
    BY <1>6 DEF Book, IInv, TypeOK, HandlerHasRows, Booking
  <2>2. \A o \in OrderIds : order'[o] = "pending_approval" <=> order[o] = "pending_approval"
    BY <1>6, <2>1 DEF Book, IInv, TypeOK, DataTypes
  <2> QED BY <1>6, <2>2, Stutters DEF Book, approvalVars
<1>7. ASSUME NEW h \in Handlers, CommitCancel(h)
      PROVE  Promise!Next \/ UNCHANGED Promise!decisionVars
  <2>1. ord[h] \in OrderIds
    BY <1>7 DEF CommitCancel, IInv, TypeOK, HandlerHasRows
  <2> QED BY <1>7, <2>1, CancelsPromise DEF CommitCancel, approvalVars
<1>8. ASSUME NEW h \in Handlers,
             \/ Request(h) \/ Interrupt(h) \/ Refuse(h) \/ CancelAtBroker(h)
             \/ NoBrokerToCancelAt(h) \/ NextCancel(h)
      PROVE  UNCHANGED Promise!decisionVars
  <2>1. UNCHANGED <<order, from, status, link>>
    BY <1>8 DEF Request, BeginApprove, BeginReject, BeginAsk, BeginPlace, BeginCancel,
         BeginCancelAll, Interrupt, Refuse, CancelAtBroker, NoBrokerToCancelAt, NextCancel,
         orderVars, approvalVars
  <2> QED BY <2>1, Stutters
<1>9. ASSUME \/ \E o \in OrderIds : BrokerFills(o)
             \/ \E a \in ApprovalIds : Lapse(a)
             \/ UNCHANGED vars
      PROVE  UNCHANGED Promise!decisionVars
  <2>1. UNCHANGED <<order, from, status, link>>
    BY <1>9 DEF BrokerFills, Lapse, vars, orderVars, approvalVars
  <2> QED BY <2>1, Stutters
<1> QED
  BY <1>1, <1>2, <1>3, <1>4, <1>5, <1>6, <1>7, <1>8, <1>9
     DEF Next, Progress, Decision, Placement, Cancelling

\* When no two clients decide one request at a time, the workflow implements
\* ApprovalDecision: a request is decided once, only an approved one reaches
\* the broker, and at most once.
THEOREM WorkflowKeepsThePromise ==
  ASSUME ~Overlap
  PROVE  Spec => KeepsThePromise
<1>1. Init => Promise!Init
  BY InitPromise
<1>2. IInv /\ Serial /\ [Next]_vars => [Promise!Next]_(Promise!decisionVars)
  BY PromiseStep
<1> QED BY <1>1, <1>2, IInvAlways, SerialAlways, PTL DEF Spec, Promise!Spec, KeepsThePromise

\* At most one order was sent for a request, and only for an approved one.
SentOnce ==
  \A a \in ApprovalIds :
    SentFor(a) # {} => status[a] = "approved" /\ \E o \in OrderIds : SentFor(a) = {o}

\* The promise entails it: a decision is final and Place looks at what was sent.
LEMMA PromiseSendsOnce ==
  ASSUME TypeOK, SentOnce, [Promise!Next]_(Promise!decisionVars)
  PROVE  SentOnce'
<1> SUFFICES ASSUME NEW b \in ApprovalIds, SentFor(b)' # {}
             PROVE  status'[b] = "approved" /\ \E o \in OrderIds : SentFor(b)' = {o}
  BY DEF SentOnce
<1> DEFINE sent == [a \in ApprovalIds |-> SentFor(a)]
<1>1. SentFor(b)' = sent'[b] /\ SentFor(b) = sent[b]
  OBVIOUS
<1>2. SentFor(b) # {} => status[b] = "approved" /\ \E o \in OrderIds : SentFor(b) = {o}
  BY DEF SentOnce
<1>3. CASE UNCHANGED sent /\ status' = status
  BY <1>1, <1>2, <1>3
<1>4. ASSUME NEW a \in ApprovalIds, UNCHANGED sent, NEW verdict,
             status[a] # "approved", status' = [status EXCEPT ![a] = verdict]
      PROVE  status'[b] = "approved" /\ \E o \in OrderIds : SentFor(b)' = {o}
  BY <1>1, <1>2, <1>4 DEF TypeOK, DataTypes
<1>5. ASSUME NEW a \in ApprovalIds, NEW o \in OrderIds, Promise!Place(a, o)
      PROVE  status'[b] = "approved" /\ \E p \in OrderIds : SentFor(b)' = {p}
  BY <1>1, <1>2, <1>5 DEF Promise!Place
<1> QED
  BY <1>3, <1>4, <1>5
     DEF Promise!Next, Promise!Ask, Promise!Decide, Promise!Withdraw, Promise!decisionVars

\* When decisions do not overlap, what the documentation says is true: a request
\* that was rejected, or expired, or is still pending has no order at the broker,
\* and an approved one has at most one.  Only overlapping decisions break it.
THEOREM RejectedIsNotPlaced ==
  ASSUME ~Overlap
  PROVE  Spec => [](/\ SentOnce
                    /\ \A a \in ApprovalIds : status[a] = "rejected" => SentFor(a) = {})
<1>1. Init => SentOnce
  BY NoneAssumption DEF Init, SentOnce, SentFor
<1>2. IInv /\ Serial /\ SentOnce /\ [Next]_vars => SentOnce'
  BY PromiseStep, PromiseSendsOnce DEF IInv
<1>3. SentOnce => \A a \in ApprovalIds : status[a] = "rejected" => SentFor(a) = {}
  BY DEF SentOnce
<1> QED BY <1>1, <1>2, <1>3, IInvAlways, SerialAlways, PTL DEF Spec
=============================================================================
