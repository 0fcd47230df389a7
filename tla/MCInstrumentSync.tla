--------------------------- MODULE MCInstrumentSync ---------------------------
(* An instance of InstrumentSync for TLC.  The first broker publishes two   *)
(* files, and its second contract swaps their instruments: a download that  *)
(* gets the first file of the one and the second of the other lacks one.    *)
(* The adapter of the second broker yields nothing.                         *)
EXTENDS InstrumentSync

CONSTANTS b1, b2, x, y

MCContract ==
    [b \in Brokers |->
        IF b = b1 THEN << << <<x>>, <<y>> >>, << <<y>>, <<x>> >> >>
                  ELSE << <<>>, <<>> >>]
=============================================================================
