-------------------------- MODULE MCStreamingManager --------------------------
(* An instance of StreamingManager for TLC: two accounts with the same     *)
(* broker.  The first may hold and watch a symbol, and watch another, which *)
(* is all the second may hold.                                             *)
EXTENDS StreamingManager

CONSTANTS a1, a2, b1, x, y

MCBrokerOf == [a \in Accounts |-> b1]
MCWishes == {<<a1, x, "positions">>, <<a1, x, "strategies">>,
             <<a1, y, "strategies">>, <<a2, y, "positions">>}
=============================================================================
