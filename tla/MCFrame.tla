-------------------------------- MODULE MCFrame --------------------------------
(* Frame for TLC: two roots, an object below the first, one key, one button. *)
EXTENDS Frame

OneBelow == [c \in {3} |-> 1]
=============================================================================
