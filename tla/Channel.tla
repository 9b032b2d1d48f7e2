-------------------------------- MODULE Channel --------------------------------
(***************************************************************************)
(* What a connection promises the programs at its two ends: whatever one   *)
(* of them sends reaches the other in order, each message once, up to some *)
(* point; the server gets nothing from a client it has not admitted; and   *)
(* an end that closes gets at most one message more, the one whose handler *)
(* was already on its way.                                                 *)
(***************************************************************************)
EXTENDS Naturals, Sequences

CONSTANTS Ends,       \* "server" is one of them
          Messages,
          Arrived(_)  \* what the messages of a sequence are when they arrive

VARIABLES pushed,  \* end -> all that the other end has sent to it
          got,     \* end -> all that has arrived at it
          state,   \* end -> "open", "closing" or "closed"
          admitted \* the server has admitted the client

vars == <<pushed, got, state, admitted>>

Init ==
    /\ pushed = [e \in Ends |-> << >>] /\ got = [e \in Ends |-> << >>]
    /\ state = [e \in Ends |-> "open"]
    /\ admitted = FALSE

Send(e) ==
    /\ UNCHANGED <<got, state, admitted>>
    /\ \E m \in Messages : pushed' = [pushed EXCEPT ![e] = Append(@, m)]

Admit == ~admitted /\ admitted' = TRUE /\ UNCHANGED <<pushed, got, state>>

Deliver(e) ==
    /\ state[e] # "closed" /\ (e = "server" => admitted)
    /\ Len(got[e]) < Len(pushed[e])
    /\ got' = [got EXCEPT ![e] = Append(@, Arrived(pushed[e])[Len(@) + 1])]
    /\ state' = [state EXCEPT ![e] = IF @ = "open" THEN "open" ELSE "closed"]
    /\ UNCHANGED <<pushed, admitted>>

Close(e) ==
    /\ \/ state[e] = "open" /\ state' = [state EXCEPT ![e] = "closing"]
       \/ state[e] # "closed" /\ state' = [state EXCEPT ![e] = "closed"]
    /\ UNCHANGED <<pushed, got, admitted>>

Next == Admit \/ \E e \in Ends : Send(e) \/ Deliver(e) \/ Close(e)

Spec == Init /\ [][Next]_vars
=============================================================================
