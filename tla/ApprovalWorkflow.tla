-------------------------- MODULE ApprovalWorkflow --------------------------
(***************************************************************************)
(* The life of an order around ExecutionService and ApprovalService: the   *)
(* gate that holds an order for approval, the requests strategies and the  *)
(* scanner raise themselves, approve, reject and expiry, placement at the  *)
(* broker, cancel_order and cancel_all.                                    *)
(*                                                                         *)
(* A handler is a coroutine (REST, gRPC, Telegram, WhatsApp, the strategy  *)
(* loop) with a database session of its own.  It acts on the row it read   *)
(* when it began: the UPDATEs it commits name the row's id and compare     *)
(* nothing.  The approval and its placeholder are written in one commit,   *)
(* and a placeholder leaves pending_approval for cancelled only, so that   *)
(* reading it when the decision commits loses no behaviour.                *)
(***************************************************************************)
EXTENDS Integers, FiniteSets

CONSTANTS
  Handlers,      \* coroutines serving requests, each again and again
  OrderIds,      \* bound on the orders made
  ApprovalIds,   \* bound on the approval requests made
  None,          \* no order, no approval
  Offered,       \* the requests clients make in an instance
  Overlap        \* whether clients may decide one approval concurrently

ASSUME NoneAssumption == None \notin OrderIds /\ None \notin ApprovalIds
ASSUME FiniteAssumption == IsFiniteSet(Handlers) /\ IsFiniteSet(OrderIds)
ASSUME OverlapAssumption == Overlap \in BOOLEAN

OrderStatuses    == {"none", "pending_approval", "pending", "filled", "cancelled"}
BrokerStatuses   == {"none", "open", "filled", "cancelled"}
ApprovalStatuses == {"absent", "pending", "approved", "rejected", "expired"}
Acks             == {"none", "pending", "accepted", "filled"}
Acts             == {"none", "approve", "reject", "place", "place_gated",
                     "signal", "scan", "cancel", "cancel_all"}
Resting          == {"idle", "failed"}
Stages           == {"expire", "decide", "ask", "check", "book", "withdraw",
                     "close", "next"}

ASSUME OfferedAssumption == Offered \subseteq Acts \ {"none"}

VARIABLES
  \* the orders: the row's status, and the broker's own
  order, broker,
  \* the approval rows: status, whether the payload names a strategy that
  \* requires approval, the placeholder, whether expires_at has passed
  status, gated, link, late,
  \* the handlers
  pc, act, app, ord, ack, todo,
  \* history, for the properties only: the approval an order was sent for,
  \* and the approvals committed for a request
  from, approves

orderVars    == <<order, broker, from>>
approvalVars == <<status, gated, link, late, approves>>
taskVars     == <<act, app, ord, ack, todo>>
vars         == <<orderVars, approvalVars, pc, taskVars>>

Init ==
  /\ order = [o \in OrderIds |-> "none"]
  /\ broker = [o \in OrderIds |-> "none"]
  /\ from = [o \in OrderIds |-> None]
  /\ status = [a \in ApprovalIds |-> "absent"]
  /\ gated = [a \in ApprovalIds |-> FALSE]
  /\ link = [a \in ApprovalIds |-> None]
  /\ late = [a \in ApprovalIds |-> FALSE]
  /\ approves = [a \in ApprovalIds |-> 0]
  /\ pc = [h \in Handlers |-> "idle"]
  /\ act = [h \in Handlers |-> "none"]
  /\ app = [h \in Handlers |-> None]
  /\ ord = [h \in Handlers |-> None]
  /\ ack = [h \in Handlers |-> "none"]
  /\ todo = [h \in Handlers |-> {}]

-----------------------------------------------------------------------------
(* A handler begins, goes on, and what it works on.                        *)

\* Which requests the clients make in an instance is given by Offered.
Begin(h, what, a, o, next) ==
  /\ pc[h] \in Resting /\ what \in Offered
  /\ pc' = [pc EXCEPT ![h] = next]
  /\ IF next \in Resting THEN UNCHANGED taskVars
     ELSE /\ act' = [act EXCEPT ![h] = what]
          /\ app' = [app EXCEPT ![h] = a]
          /\ ord' = [ord EXCEPT ![h] = o]
          /\ UNCHANGED <<ack, todo>>

GoTo(h, next) == pc' = [pc EXCEPT ![h] = next] /\ UNCHANGED taskVars

\* The handler answers ("idle") or raises ("failed") and is gone.
Leave(h, end) ==
  /\ pc' = [pc EXCEPT ![h] = end]
  /\ act' = [act EXCEPT ![h] = "none"]
  /\ app' = [app EXCEPT ![h] = None]
  /\ ord' = [ord EXCEPT ![h] = None]
  /\ ack' = [ack EXCEPT ![h] = "none"]
  /\ todo' = [todo EXCEPT ![h] = {}]

\* The refresh that follows a commit may fail.
Finish(h) == \E end \in Resting : Leave(h, end)

\* cancel_all goes on with its list.
NextOrLeave(h, end) ==
  IF act[h] = "cancel_all" THEN GoTo(h, "next") ELSE Leave(h, end)

FreeOrder(o)    == order[o] = "none" /\ broker[o] = "none"
FreeApproval(a) == status[a] = "absent"

\* Whether the request's strategy_id names a strategy that requires approval.
Gated(h) ==
  \/ act[h] = "place_gated"
  \/ act[h] = "approve" /\ gated[app[h]]

Deciding(h, a) == app[h] = a /\ pc[h] \in {"expire", "decide"}

-----------------------------------------------------------------------------
(* ApprovalService.approve and reject.                                     *)

MayDecide(h, a) ==
  /\ ~FreeApproval(a)
  /\ Overlap \/ \A g \in Handlers \ {h} : ~Deciding(g, a)

BeginApprove(h, a) ==
  /\ MayDecide(h, a)
  /\ Begin(h, "approve", a, None,
           IF status[a] # "pending" THEN "failed"
           ELSE IF late[a] THEN "expire" ELSE "decide")
  /\ UNCHANGED <<orderVars, approvalVars>>

\* Mutant: reject does not look at the status.
BeginRejectAny(h, a) ==
  /\ MayDecide(h, a)
  /\ Begin(h, "reject", a, None, "decide")
  /\ UNCHANGED <<orderVars, approvalVars>>

BeginReject(h, a) ==
  /\ MayDecide(h, a)
  /\ Begin(h, "reject", a, None,
           IF status[a] # "pending" THEN "failed" ELSE "decide")
  /\ UNCHANGED <<orderVars, approvalVars>>

\* Mutant: approve marks the request expired and places the order.
ExpireAndPlace(h) ==
  /\ pc[h] = "expire"
  /\ status' = [status EXCEPT ![app[h]] = "expired"]
  /\ GoTo(h, "check")
  /\ UNCHANGED <<orderVars, gated, link, late, approves>>

Expire(h) ==
  /\ pc[h] = "expire"
  /\ status' = [status EXCEPT ![app[h]] = "expired"]
  /\ Leave(h, "failed")
  /\ UNCHANGED <<orderVars, gated, link, late, approves>>

ClosePlaceholder(a) ==
  order' = [o \in OrderIds |->
              IF o = link[a] /\ order[o] = "pending_approval"
                THEN "cancelled" ELSE order[o]]

CommitApproval(h) ==
  /\ pc[h] = "decide" /\ act[h] = "approve"
  /\ status' = [status EXCEPT ![app[h]] = "approved"]
  /\ approves' = [approves EXCEPT ![app[h]] = @ + 1]
  /\ ClosePlaceholder(app[h])
  /\ GoTo(h, "check")
  /\ UNCHANGED <<broker, from, gated, link, late>>

\* Mutant: reject leaves the placeholder.
CommitRejectionOnly(h) ==
  /\ pc[h] = "decide" /\ act[h] = "reject"
  /\ status' = [status EXCEPT ![app[h]] = "rejected"]
  /\ Leave(h, "idle")
  /\ UNCHANGED <<orderVars, gated, link, late, approves>>

CommitRejection(h) ==
  /\ pc[h] = "decide" /\ act[h] = "reject"
  /\ status' = [status EXCEPT ![app[h]] = "rejected"]
  /\ ClosePlaceholder(app[h])
  /\ Leave(h, "idle")
  /\ UNCHANGED <<broker, from, gated, link, late, approves>>

-----------------------------------------------------------------------------
(* Requests for approval raised outside ExecutionService: by the signal of *)
(* a strategy that requires approval, and by the scanner (no strategy).    *)

BeginAsk(h, what) ==
  /\ what \in {"signal", "scan"}
  /\ Begin(h, what, None, None, "ask")
  /\ UNCHANGED <<orderVars, approvalVars>>

NewApproval(a, g, o) ==
  /\ FreeApproval(a)
  /\ status' = [status EXCEPT ![a] = "pending"]
  /\ gated' = [gated EXCEPT ![a] = g]
  /\ link' = [link EXCEPT ![a] = o]
  /\ UNCHANGED <<late, approves>>

CreateApproval(h) ==
  /\ pc[h] = "ask"
  /\ \E a \in ApprovalIds : NewApproval(a, act[h] = "signal", None)
  /\ Finish(h)
  /\ UNCHANGED orderVars

-----------------------------------------------------------------------------
(* ExecutionService.place_order, called by a client, by a strategy that    *)
(* requires no approval, or by approve with the payload it kept.           *)

BeginPlace(h, what) ==
  /\ what \in {"place", "place_gated"}
  /\ Begin(h, what, None, None, "check")
  /\ UNCHANGED <<orderVars, approvalVars>>

\* The risk engine or the broker refuses the order.
Refuse(h) ==
  /\ pc[h] = "check"
  /\ Leave(h, "failed")
  /\ UNCHANGED <<orderVars, approvalVars>>

CreatePendingApproval(h) ==
  /\ pc[h] = "check" /\ Gated(h)
  /\ \E o \in OrderIds, a \in ApprovalIds :
       /\ FreeOrder(o)
       /\ order' = [order EXCEPT ![o] = "pending_approval"]
       /\ NewApproval(a, TRUE, o)
  /\ Finish(h)
  /\ UNCHANGED <<broker, from>>

\* The broker takes the order for the handler.
Take(h, o, st) ==
  /\ FreeOrder(o)
  /\ broker' = [broker EXCEPT ![o] = st]
  /\ from' = [from EXCEPT ![o] = app[h]]
  /\ UNCHANGED <<order, approvalVars>>

\* A live adapter answers "accepted" for an order that is open.
Send(h) ==
  /\ pc[h] = "check" /\ ~Gated(h)
  /\ \E o \in OrderIds, ans \in Acks \ {"none"} :
       /\ Take(h, o, IF ans = "filled" THEN "filled" ELSE "open")
       /\ ord' = [ord EXCEPT ![h] = o]
       /\ ack' = [ack EXCEPT ![h] = ans]
  /\ pc' = [pc EXCEPT ![h] = "book"]
  /\ UNCHANGED <<act, app, todo>>

\* The order is taken and the answer is lost.
SendTimesOut(h) ==
  /\ pc[h] = "check" /\ ~Gated(h)
  /\ \E o \in OrderIds, st \in {"open", "filled"} : Take(h, o, st)
  /\ Leave(h, "failed")

Book(h) ==
  /\ pc[h] = "book"
  /\ order' = [order EXCEPT ![ord[h]] =
                 IF ack[h] \in {"filled", "accepted"} THEN "filled" ELSE "pending"]
  /\ Finish(h)
  /\ UNCHANGED <<broker, from, approvalVars>>

-----------------------------------------------------------------------------
(* ExecutionService.cancel_order and cancel_all.                           *)

\* Mutant: cancel_order does not find out that the order does not exist.
BeginCancelUnknown(h, o) ==
  /\ Begin(h, "cancel", None, o,
           IF order[o] \in {"filled", "cancelled"} THEN "failed"
           ELSE IF order[o] = "pending" THEN "withdraw" ELSE "close")
  /\ UNCHANGED <<orderVars, approvalVars>>

\* Mutant: cancel_order accepts a filled order.
BeginCancelFilled(h, o) ==
  /\ order[o] # "none"
  /\ Begin(h, "cancel", None, o,
           IF order[o] = "cancelled" THEN "failed"
           ELSE IF order[o] = "pending_approval" THEN "close" ELSE "withdraw")
  /\ UNCHANGED <<orderVars, approvalVars>>

\* A row with a broker_order_id is first cancelled at the broker.
BeginCancel(h, o) ==
  /\ order[o] # "none"
  /\ Begin(h, "cancel", None, o,
           IF order[o] \in {"filled", "cancelled"} THEN "failed"
           ELSE IF order[o] = "pending" THEN "withdraw" ELSE "close")
  /\ UNCHANGED <<orderVars, approvalVars>>

\* The broker may refuse, or be too late: the error is logged.
CancelAtBroker(h) ==
  /\ pc[h] = "withdraw"
  /\ broker' \in {broker} \cup
       { [broker EXCEPT ![o] = "cancelled"] : o \in {ord[h]} \cap {p \in OrderIds : broker[p] = "open"} }
  /\ GoTo(h, "close")
  /\ UNCHANGED <<order, from, approvalVars>>

\* No broker client: cancel_all logs it and goes on.
NoBrokerToCancelAt(h) ==
  /\ pc[h] = "withdraw"
  /\ NextOrLeave(h, "failed")
  /\ UNCHANGED <<orderVars, approvalVars>>

CommitCancel(h) ==
  /\ pc[h] = "close"
  /\ order' = [order EXCEPT ![ord[h]] = "cancelled"]
  /\ NextOrLeave(h, "idle")
  /\ UNCHANGED <<broker, from, approvalVars>>

BeginCancelAll(h) ==
  /\ pc[h] \in Resting /\ "cancel_all" \in Offered
  /\ pc' = [pc EXCEPT ![h] = "next"]
  /\ act' = [act EXCEPT ![h] = "cancel_all"]
  /\ todo' = [todo EXCEPT ![h] = {o \in OrderIds : order[o] = "pending"}]
  /\ UNCHANGED <<orderVars, approvalVars, app, ord, ack>>

TryNext(h, o) ==
  /\ pc' = [pc EXCEPT ![h] = "withdraw"]
  /\ ord' = [ord EXCEPT ![h] = o]
  /\ UNCHANGED <<act, app, ack>>

\* Mutant: an order that has been tried stays on the list.
NextCancelForever(h) ==
  /\ pc[h] = "next"
  /\ \/ todo[h] = {} /\ Leave(h, "idle")
     \/ \E o \in todo[h] : TryNext(h, o) /\ UNCHANGED todo
  /\ UNCHANGED <<orderVars, approvalVars>>

\* Every listed order is taken for pending, as it was when it was listed.
NextCancel(h) ==
  /\ pc[h] = "next"
  /\ \/ todo[h] = {} /\ Leave(h, "idle")
     \/ \E o \in todo[h] :
          TryNext(h, o) /\ todo' = [todo EXCEPT ![h] = @ \ {o}]
  /\ UNCHANGED <<orderVars, approvalVars>>

-----------------------------------------------------------------------------
(* The environment.                                                        *)

BrokerFills(o) ==
  /\ broker[o] = "open"
  /\ broker' = [broker EXCEPT ![o] = "filled"]
  /\ UNCHANGED <<order, from, approvalVars, pc, taskVars>>

Lapse(a) ==
  /\ status[a] = "pending" /\ ~late[a]
  /\ late' = [late EXCEPT ![a] = TRUE]
  /\ UNCHANGED <<orderVars, status, gated, link, approves, pc, taskVars>>

\* The process stops or the database fails: nothing more is committed.
\* cancel_all logs what failed and answers with the rest.
Interrupt(h) ==
  /\ pc[h] \notin Resting
  /\ \/ Leave(h, "failed")
     \/ act[h] = "cancel_all" /\ Leave(h, "idle")
  /\ UNCHANGED <<orderVars, approvalVars>>

-----------------------------------------------------------------------------
Decision(h) == Expire(h) \/ CommitApproval(h) \/ CommitRejection(h)
Placement(h) ==
  \/ Refuse(h) \/ CreatePendingApproval(h) \/ Send(h) \/ SendTimesOut(h)
  \/ Book(h)
Cancelling(h) ==
  CancelAtBroker(h) \/ NoBrokerToCancelAt(h) \/ CommitCancel(h) \/ NextCancel(h)

\* What a handler does once it has begun.
Progress(h) == Decision(h) \/ CreateApproval(h) \/ Placement(h) \/ Cancelling(h)

Request(h) ==
  \/ \E a \in ApprovalIds : BeginApprove(h, a) \/ BeginReject(h, a)
  \/ \E what \in Acts : BeginAsk(h, what) \/ BeginPlace(h, what)
  \/ \E o \in OrderIds : BeginCancel(h, o)
  \/ BeginCancelAll(h)

Next ==
  \/ \E h \in Handlers : Progress(h) \/ Request(h) \/ Interrupt(h)
  \/ \E o \in OrderIds : BrokerFills(o)
  \/ \E a \in ApprovalIds : Lapse(a)

Spec == Init /\ [][Next]_vars

\* The event loop runs every handler that can go on.
FairSpec == Spec /\ \A h \in Handlers : WF_vars(Progress(h))
-----------------------------------------------------------------------------
(* Properties.                                                             *)

DataTypes ==
  /\ order \in [OrderIds -> OrderStatuses]
  /\ broker \in [OrderIds -> BrokerStatuses]
  /\ from \in [OrderIds -> ApprovalIds \cup {None}]
  /\ status \in [ApprovalIds -> ApprovalStatuses]
  /\ gated \in [ApprovalIds -> BOOLEAN]
  /\ link \in [ApprovalIds -> OrderIds \cup {None}]
  /\ late \in [ApprovalIds -> BOOLEAN]
  /\ approves \in [ApprovalIds -> Nat]

TaskTypes ==
  /\ pc \in [Handlers -> Resting \cup Stages]
  /\ act \in [Handlers -> Acts]
  /\ app \in [Handlers -> ApprovalIds \cup {None}]
  /\ ord \in [Handlers -> OrderIds \cup {None}]
  /\ ack \in [Handlers -> Acks]
  /\ todo \in [Handlers -> SUBSET OrderIds]

\* What a handler works on exists: a decision has its approval row, and
\* cancel_order the row of an order it may cancel.
HandlerHasRows(h) ==
  /\ act[h] \in {"approve", "reject"} <=> app[h] # None
  /\ pc[h] \in Resting => app[h] = None
  /\ pc[h] \in {"expire", "decide"} => act[h] \in {"approve", "reject"}
  /\ pc[h] = "check" => act[h] \in {"approve", "place", "place_gated"}
  /\ pc[h] = "book" => ord[h] \in OrderIds
  /\ pc[h] \in {"withdraw", "close"} =>
       ord[h] \in OrderIds /\ order[ord[h]] \notin {"none", "filled"}
  /\ \A o \in todo[h] : order[o] \notin {"none", "filled"}

\* Type invariant.
TypeOK ==
  /\ DataTypes
  /\ TaskTypes
  /\ \A h \in Handlers : HandlerHasRows(h)

\* The placeholder and its approval never part: an order waits for approval
\* only while exactly one request, not yet approved or rejected, is linked
\* to it.  A decision, an expiry and a cancellation may all race for it.
PlaceholderFollowsApproval ==
  \A o \in OrderIds : order[o] = "pending_approval" =>
    \E a \in ApprovalIds :
      /\ status[a] \in {"pending", "expired"}
      /\ {b \in ApprovalIds : link[b] = o} = {a}

\* Orders sent for a request, or about to be.
Sending(a) == {h \in Handlers : act[h] = "approve" /\ app[h] = a /\ pc[h] = "check"}
SentFor(a) == {o \in OrderIds : from[o] = a}

\* Every order sent for a request stands for an approval committed for that
\* request: none is sent for a request that was only rejected or expired,
\* and no approval is spent twice.
EveryOrderWasApproved ==
  \A a \in ApprovalIds :
    Cardinality(SentFor(a)) + Cardinality(Sending(a)) <= approves[a]

\* A row that says filled or cancelled says so for ever, whatever cancel,
\* cancel_all and a decision had read before.
TerminalRowsStay ==
  [][\A o \in OrderIds :
       order[o] \in {"filled", "cancelled"} => order'[o] = order[o]]_vars

\* A request's placeholder, when it has one, awaits the decision.
Waiting == {a \in ApprovalIds : \E o \in OrderIds :
              link[a] = o /\ order[o] = "pending_approval"}

Promise == INSTANCE ApprovalDecision WITH
  Approvals <- ApprovalIds, Orders <- OrderIds,
  decision <- status, waiting <- Waiting,
  sent <- [a \in ApprovalIds |-> SentFor(a)]

\* When no two clients decide one request at a time, the handlers keep the
\* promise of the action centre.
KeepsThePromise == Promise!Spec

\* cancel_all gets to the end of its list, whatever others do to the orders
\* on it and whichever of its cancellations fail.
CancelAllEnds ==
  \A h \in Handlers : act[h] = "cancel_all" ~> act[h] # "cancel_all"
=============================================================================
