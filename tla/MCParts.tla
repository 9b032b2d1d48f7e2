-------------------------------- MODULE MCParts --------------------------------
(***************************************************************************)
(* Parts for TLC: the sizes of the objects and of the values, and where    *)
(* the objects are.                                                        *)
(***************************************************************************)
EXTENDS Parts

MCRadius    == [c \in Circles |-> 128]
MCHalfWidth == [p \in Polys |-> 64]
MCPlaces    == {0, 64, 160}

\* A byte, and words of two
MCSizeOf == [v \in Values |-> IF v = CHOOSE u \in Values : TRUE THEN 1 ELSE 2]
================================================================================
