------------------------- MODULE MCApprovalWorkflow -------------------------
(***************************************************************************)
(* Small instances of ApprovalWorkflow, and two statements of the          *)
(* repository's documentation that the code does not keep.                 *)
(***************************************************************************)
EXTENDS ApprovalWorkflow, TLC

Symmetry ==
  Permutations(Handlers) \cup Permutations(OrderIds) \cup Permutations(ApprovalIds)

-----------------------------------------------------------------------------
\* "Rejecting marks it rejected; no order placed": a rejected request has no
\* order at the broker.
RejectedNeverPlaced ==
  \A a \in ApprovalIds : status[a] = "rejected" => SentFor(a) = {}

\* "approve: marks the approval row, then submits the order to the broker": a
\* call of approve that answers, and does not raise, has sent an order for the
\* request.
ApprovingSubmits ==
  [][\A h \in Handlers :
       act[h] = "approve" /\ pc'[h] = "idle" => SentFor(app[h]) # {}]_vars
=============================================================================
