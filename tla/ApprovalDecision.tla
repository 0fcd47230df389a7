-------------------------- MODULE ApprovalDecision --------------------------
(***************************************************************************)
(* What the action centre promises of a request for approval: a pending    *)
(* request is decided once, by approval, rejection or expiry, and only an  *)
(* approved one sends an order to the broker, at most once.  The order     *)
(* that stands in for it while it waits is closed with the decision.       *)
(* ApprovalWorkflow describes the handlers that are to keep this promise.  *)
(***************************************************************************)
CONSTANTS Approvals, Orders

VARIABLES
  decision,   \* the state of each request
  waiting,    \* the requests whose placeholder order awaits the decision
  sent        \* the orders sent to the broker for each request

decisionVars == <<decision, waiting, sent>>

Decisions == {"absent", "pending", "approved", "rejected", "expired"}

Init ==
  /\ decision = [a \in Approvals |-> "absent"]
  /\ waiting = {}
  /\ sent = [a \in Approvals |-> {}]

Ask(a) ==
  /\ decision[a] = "absent"
  /\ decision' = [decision EXCEPT ![a] = "pending"]
  /\ waiting' \in {waiting, waiting \cup {a}}
  /\ UNCHANGED sent

\* Approval and rejection take the request out of waiting, expiry does not.
Decide(a, verdict) ==
  /\ decision[a] = "pending"
  /\ decision' = [decision EXCEPT ![a] = verdict]
  /\ waiting' = IF verdict = "expired" THEN waiting ELSE waiting \ {a}
  /\ UNCHANGED sent

Place(a, o) ==
  /\ decision[a] = "approved"
  /\ sent[a] = {}
  /\ sent' = [sent EXCEPT ![a] = {o}]
  /\ UNCHANGED <<decision, waiting>>

\* The placeholder is cancelled like any other order.
Withdraw(a) ==
  /\ a \in waiting
  /\ waiting' = waiting \ {a}
  /\ UNCHANGED <<decision, sent>>

Next ==
  \E a \in Approvals :
    \/ Ask(a)
    \/ \E verdict \in {"approved", "rejected", "expired"} : Decide(a, verdict)
    \/ \E o \in Orders : Place(a, o)
    \/ Withdraw(a)

Spec == Init /\ [][Next]_decisionVars
=============================================================================
