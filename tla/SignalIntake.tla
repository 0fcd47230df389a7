----------------------------- MODULE SignalIntake -----------------------------
(***************************************************************************)
(* Two ways signals come in from outside the strategy loop. A webhook      *)
(* delivery logs an event and executes one signal after the other. Each is *)
(* an approval request, or an order that the broker takes before the       *)
(* commit that records it. The event row rides along with the first of     *)
(* these commits and is closed by a last one; whatever fails in between    *)
(* rolls back what is not committed, but not what the broker has taken. A  *)
(* scan result is promoted into an approval request by two commits, and    *)
(* acknowledged or dismissed by anyone in between. What an executed signal *)
(* or a request becomes is the business of OrderExecution and              *)
(* ApprovalWorkflow.                                                       *)
(***************************************************************************)
EXTENDS Integers, FiniteSets

CONSTANTS
    Sources,      \* webhook sources
    Deliveries,   \* webhook calls, each made once; a retry is a delivery of its own
    MaxSignals,   \* bound: stocks an alert lists
    Results,      \* scan results
    Calls,        \* calls of the scan-result endpoints, each made once
    MaxCrashes,   \* bound: restarts of the server
    None          \* not yet, nothing

VARIABLES
    active,     \* is_active of each source
    delivery,   \* each webhook call, with the event row it has committed
    result,     \* the table of scan results
    call,       \* each call to acknowledge, dismiss or promote
    requests,   \* the approval requests of each result, named by the call that made them
    reopened,   \* results whose promoted status was overwritten
    crashes

vars == <<active, delivery, result, call, requests, reopened, crashes>>

Statuses == {"new", "acknowledged", "promoted", "dismissed"}
Result == [status : Statuses, promoted_approval_id : Calls \union {None}]

ASSUME IntakeAssumption ==
    /\ MaxSignals \in Nat /\ MaxCrashes \in Nat
    /\ None \notin Calls \union Results \union Result

(* Of a delivery: how many of its signals became an order at the broker or *)
(* a request, how many of these a commit has recorded, and its event row,  *)
(* in the session and in the table.                                        *)
NewDelivery == [phase |-> "new", signals |-> 0, reached |-> 0, recorded |-> 0,
                session |-> "none", event |-> "none"]
NewResult == [status |-> "new", promoted_approval_id |-> None]
NoCall == [phase |-> "free", kind |-> None, of |-> None, loaded |-> None, answered |-> {}]

Init ==
    /\ active \in [Sources -> BOOLEAN]
    /\ delivery = [d \in Deliveries |-> NewDelivery]
    /\ result \in [Results -> {None, NewResult}]
    /\ call = [c \in Calls |-> NoCall]
    /\ requests = [r \in Results |-> {}]
    /\ reopened = {}
    /\ crashes = 0

-----------------------------------------------------------------------------
(* Webhooks. *)

ChangeSource(s) ==
    /\ active' = [active EXCEPT ![s] = ~@]
    /\ UNCHANGED <<delivery, result, call, requests, reopened, crashes>>

(* The token names an active source; the event is flushed, not committed.  *)
(* An alert of ChartInk lists any number of stocks, the others one symbol. *)
Receive(d, s) ==
    /\ delivery[d].phase = "new" /\ active[s]
    /\ \E n \in 0 .. MaxSignals :
         delivery' = [delivery EXCEPT ![d].phase = "open", ![d].signals = n,
                                      ![d].session = "pending"]
    /\ UNCHANGED <<active, result, call, requests, reopened, crashes>>

(* The session's commit, which takes the event along.  It may have been    *)
(* written although the answer to it is lost and the request then fails.   *)
Recorded(e) == [e EXCEPT !.phase = "open", !.recorded = @ + 1, !.event = e.session]

(* The strategy wants approvals: create commits the request. *)
AskApproval(d) ==
    /\ delivery[d].phase = "open" /\ delivery[d].reached < delivery[d].signals
    /\ LET sent == [delivery[d] EXCEPT !.reached = @ + 1]
       IN  delivery' = [delivery EXCEPT ![d] = Recorded(sent)]
    /\ UNCHANGED <<active, result, call, requests, reopened, crashes>>

\* Mutant: the event is closed before its signals are executed.
SendSignalClosed(d) ==
    /\ delivery[d].phase = "open" /\ delivery[d].reached < delivery[d].signals
    /\ delivery' = [delivery EXCEPT ![d].phase = "sent", ![d].reached = @ + 1,
                                    ![d].session = "processed"]
    /\ UNCHANGED <<active, result, call, requests, reopened, crashes>>

(* It does not: the broker takes the order ... *)
SendSignal(d) ==
    /\ delivery[d].phase = "open" /\ delivery[d].reached < delivery[d].signals
    /\ delivery' = [delivery EXCEPT ![d].phase = "sent", ![d].reached = @ + 1]
    /\ UNCHANGED <<active, result, call, requests, reopened, crashes>>

(* ... and place_order commits its row. *)
CommitSignal(d) ==
    /\ delivery[d].phase = "sent"
    /\ delivery' = [delivery EXCEPT ![d] = Recorded(@)]
    /\ UNCHANGED <<active, result, call, requests, reopened, crashes>>

(* The request ends, with an error or with the server, and its transaction *)
(* is rolled back.                                                         *)
Ended(e) == IF e.phase \in {"open", "sent"}
            THEN [e EXCEPT !.phase = "failed", !.session = "none"] ELSE e

(* A price that is not a number, a risk rejection, a broker that refuses   *)
(* or does not answer, a row that cannot be written, the strategy or its   *)
(* account gone, an error of the database before or after a commit.        *)
DeliveryFails(d) ==
    /\ delivery[d].phase \in {"open", "sent"}
    /\ delivery' = [delivery EXCEPT ![d] = Ended(@)]
    /\ UNCHANGED <<active, result, call, requests, reopened, crashes>>

CloseEvent(d) ==
    /\ delivery[d].phase = "open" /\ delivery[d].reached = delivery[d].signals
    /\ delivery' = [delivery EXCEPT ![d].phase = "ok", ![d].event = "processed"]
    /\ UNCHANGED <<active, result, call, requests, reopened, crashes>>

-----------------------------------------------------------------------------
(* Scan results. *)

(* A scanner's run adds its candidates in one commit. *)
ScanRun ==
    /\ \E found \in (SUBSET {r \in Results : result[r] = None}) \ {{}} :
         result' = [r \in Results |-> IF r \in found THEN NewResult ELSE result[r]]
    /\ UNCHANGED <<active, delivery, call, requests, reopened, crashes>>

Answered(r) == {c \in requests[r] : call[c].phase = "done"}

(* A call loads the row.  set_result_status asks nothing of it ... *)
LoadToMark(c, r, kind) ==
    /\ call[c].phase = "free" /\ result[r] # None
    /\ call' = [call EXCEPT ![c] = [phase |-> "loaded", kind |-> kind, of |-> r,
                                    loaded |-> result[r].status, answered |-> {}]]
    /\ UNCHANGED <<active, delivery, result, requests, reopened, crashes>>

\* Mutant: only a dismissed result cannot be promoted.
LoadToPromoteAgain(c, r) ==
    /\ call[c].phase = "free" /\ result[r] # None
    /\ result[r].status # "dismissed"
    /\ call' = [call EXCEPT ![c] = [phase |-> "loaded", kind |-> "promote", of |-> r,
                                    loaded |-> result[r].status, answered |-> Answered(r)]]
    /\ UNCHANGED <<active, delivery, result, requests, reopened, crashes>>

(* ... promote refuses the terminal ones. *)
LoadToPromote(c, r) ==
    /\ call[c].phase = "free" /\ result[r] # None
    /\ result[r].status \notin {"promoted", "dismissed"}
    /\ call' = [call EXCEPT ![c] = [phase |-> "loaded", kind |-> "promote", of |-> r,
                                    loaded |-> result[r].status, answered |-> Answered(r)]]
    /\ UNCHANGED <<active, delivery, result, requests, reopened, crashes>>

(* The status is only written when it differs from the one loaded. *)
SetStatus(c, status) ==
    LET r == call[c].of  written == call[c].loaded # status IN
    /\ result' = IF written THEN [result EXCEPT ![r].status = status] ELSE result
    /\ reopened' = IF written /\ result[r].status = "promoted" /\ status # "promoted"
                   THEN reopened \union {r} ELSE reopened
    /\ call' = [call EXCEPT ![c].phase = "done"]

Mark(c) ==
    /\ call[c].phase = "loaded" /\ call[c].kind # "promote"
    /\ SetStatus(c, call[c].kind)
    /\ UNCHANGED <<active, delivery, requests, crashes>>

(* The sizer finds no quantity: the result is acknowledged. *)
PromoteNothing(c) ==
    /\ call[c].phase = "loaded" /\ call[c].kind = "promote"
    /\ SetStatus(c, "acknowledged")
    /\ UNCHANGED <<active, delivery, requests, crashes>>

\* Mutant: the status is set before the request is created, whose commit
\* takes it along.
PromoteCreateMarks(c) ==
    LET r == call[c].of IN
    /\ call[c].phase = "loaded" /\ call[c].kind = "promote"
    /\ requests' = [requests EXCEPT ![r] = @ \union {c}]
    /\ result' = [result EXCEPT ![r].status = "promoted"]
    /\ call' = [call EXCEPT ![c].phase = "created"]
    /\ UNCHANGED <<active, delivery, reopened, crashes>>

(* ApprovalService.create commits the request ... *)
PromoteCreate(c) ==
    LET r == call[c].of IN
    /\ call[c].phase = "loaded" /\ call[c].kind = "promote"
    /\ requests' = [requests EXCEPT ![r] = @ \union {c}]
    /\ call' = [call EXCEPT ![c].phase = "created"]
    /\ UNCHANGED <<active, delivery, result, reopened, crashes>>

\* Mutant: the result is linked to itself.
PromoteCommitOwnId(c) ==
    LET r == call[c].of IN
    /\ call[c].phase = "created"
    /\ result' = [result EXCEPT ![r] = [status |-> "promoted", promoted_approval_id |-> r]]
    /\ call' = [call EXCEPT ![c].phase = "done"]
    /\ UNCHANGED <<active, delivery, requests, reopened, crashes>>

(* ... and a second commit marks the result. *)
PromoteCommit(c) ==
    LET r == call[c].of IN
    /\ call[c].phase = "created"
    /\ result' = [result EXCEPT ![r] = [status |-> "promoted", promoted_approval_id |-> c]]
    /\ call' = [call EXCEPT ![c].phase = "done"]
    /\ UNCHANGED <<active, delivery, requests, reopened, crashes>>

(* An error of the database, in the size or in a commit. *)
CallFails(c) ==
    /\ call[c].phase \in {"loaded", "created"} /\ crashes < MaxCrashes
    /\ crashes' = crashes + 1
    /\ call' = [call EXCEPT ![c].phase = "failed"]
    /\ UNCHANGED <<active, delivery, result, requests, reopened>>

(* The server goes down: every request in flight ends where it is. *)
Crash ==
    /\ crashes < MaxCrashes
    /\ crashes' = crashes + 1
    /\ delivery' = [d \in Deliveries |-> Ended(delivery[d])]
    /\ call' = [c \in Calls |-> IF call[c].phase \in {"loaded", "created"}
                                THEN [call[c] EXCEPT !.phase = "failed"] ELSE call[c]]
    /\ UNCHANGED <<active, result, requests, reopened>>

-----------------------------------------------------------------------------
Next ==
    \/ ScanRun \/ Crash
    \/ \E s \in Sources : ChangeSource(s) \/ (\E d \in Deliveries : Receive(d, s))
    \/ \E d \in Deliveries : \/ AskApproval(d) \/ SendSignal(d) \/ CommitSignal(d)
                             \/ DeliveryFails(d) \/ CloseEvent(d)
    \/ \E c \in Calls : \/ \E r \in Results : \/ LoadToPromote(c, r)
                                              \/ LoadToMark(c, r, "acknowledged")
                                              \/ LoadToMark(c, r, "dismissed")
                        \/ Mark(c) \/ PromoteNothing(c)
                        \/ PromoteCreate(c) \/ PromoteCommit(c) \/ CallFails(c)

Spec == Init /\ [][Next]_vars

-----------------------------------------------------------------------------
\* Every variable keeps its type.
TypeOK ==
    /\ active \in [Sources -> BOOLEAN]
    /\ delivery \in [Deliveries -> [phase : {"new", "open", "sent", "ok", "failed"},
                                    signals : 0 .. MaxSignals, reached : 0 .. MaxSignals,
                                    recorded : 0 .. MaxSignals,
                                    session : {"none", "pending", "processed"},
                                    event : {"none", "pending", "processed"}]]
    /\ result \in [Results -> {None} \union Result]
    /\ call \in [Calls -> [phase : {"free", "loaded", "created", "done", "failed"},
                           kind : {None, "promote", "acknowledged", "dismissed"},
                           of : Results \union {None}, loaded : Statuses \union {None},
                           answered : SUBSET Calls]]
    /\ requests \in [Results -> SUBSET Calls]
    /\ reopened \in SUBSET Results
    /\ crashes \in 0 .. MaxCrashes

\* What the event log says of a delivery, wherever it failed or the server went
\* down, between the broker's answer and the commit too.  Processed: every signal
\* went out and is recorded.  A pending row of a call that ended: some are
\* recorded.  No row: none is recorded, and at most one went out.  In every case at
\* most one signal went out without a record, and only if the call failed there.
EventTellsSignals ==
    \A d \in Deliveries : LET e == delivery[d] IN
        /\ e.event = "processed" <=> e.phase = "ok"
        /\ e.event = "processed" => e.recorded = e.signals
        /\ e.event = "pending" => e.recorded > 0
        /\ e.event = "none" => e.recorded = 0
        /\ e.reached \in {e.recorded, e.recorded + 1}
        /\ e.reached # e.recorded => e.phase \in {"sent", "failed"}

\* A result that shows as promoted leads to a request that was made for it, though
\* request and mark are separate commits and other calls write the same row.
PromotedLeadsToRequest ==
    \A r \in Results : result[r] # None =>
        /\ result[r].status = "promoted" => result[r].promoted_approval_id # None
        /\ result[r].promoted_approval_id # None
             => result[r].promoted_approval_id \in requests[r]

\* Once a promotion has been answered, a later one makes no second request,
\* unless somebody has overwritten the promoted status: that is all that
\* set_result_status, which asks nothing of the row, lets through.
PromotedOnce ==
    \A r \in Results : \A c \in requests[r] : call[c].answered # {} => r \in reopened
=============================================================================
