-------------------------- MODULE MCStrategyDispatch --------------------------
(* An instance of StrategyDispatch for TLC. *)
EXTENDS StrategyDispatch

CONSTANTS x, y

\* A list may name a symbol twice; an edit takes one off and puts one on.
MCLists == {<<x, x>>, <<y>>}
=============================================================================
