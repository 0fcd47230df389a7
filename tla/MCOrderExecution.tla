-------------------------- MODULE MCOrderExecution --------------------------
(***************************************************************************)
(* Small instances of OrderExecution.                                      *)
(***************************************************************************)
EXTENDS OrderExecution

CONSTANTS A, B, C, Bulk   \* three traded symbols and the rest of the portfolio

L(y, q) == [sym |-> y, qty |-> q]
R(k, legs) == [kind |-> k, legs |-> legs]

\* The traded symbols are small beside the rest, so that the 30 % cap lets
\* some orders through and stops others.
MCSeed     == [y \in Symbols |-> IF y = A THEN 1 ELSE IF y = Bulk THEN 9 ELSE 0]
MCSeedRows == {A, Bulk}

\* Every kind of request, on symbols with a row and without; positions in both of the
\* latter reach the limit.  Two baskets take two rows in opposite orders.
MixedRequests ==
  { R("place", <<L(A, 2)>>), R("place", <<L(B, 1)>>), R("place", <<L(C, 1)>>),
    R("smart", <<L(A, 3)>>), R("close", <<L(A, 0)>>), R("atomic", <<L(A, 1), L(B, 1)>>),
    R("atomic", <<L(B, 1), L(A, 1)>>), R("basket", <<L(A, 1), L(A, -1)>>) }
=============================================================================
