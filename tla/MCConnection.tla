----------------------------- MODULE MCConnection -----------------------------
(***************************************************************************)
(* Connection for TLC.  Three messages stand for all: one that was filled, *)
(* one that was filled and emptied again, one that was never filled.       *)
(***************************************************************************)
EXTENDS Connection

Filled  == [id |-> 1, size |-> HeaderSize + 1, body |-> <<7>>]
Emptied == [id |-> 2, size |-> HeaderSize, body |-> << >>]
Bare    == [id |-> 3, size |-> 0, body |-> << >>]

ThreeKindsAndOne == [client |-> {Filled, Emptied, Bare}, server |-> {Filled}]
OneKindEach      == [client |-> {Filled}, server |-> {Filled}]

TwoAndOne  == [client |-> 2, server |-> 1]
OneAndOne  == [client |-> 1, server |-> 1]
OneAndNone == [client |-> 1, server |-> 0]
=============================================================================
