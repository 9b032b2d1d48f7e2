----------------------------- MODULE AtomicDeque -----------------------------
(***************************************************************************)
(* What TsQueue (p2d.hpp:195-283) promises its callers: a double-ended     *)
(* queue whose every operation takes effect in one indivisible step,       *)
(* somewhere between its call and its return.  Locks, the condition        *)
(* variable and the steps of a call do not appear here; TsQueue is shown   *)
(* to implement this specification.                                        *)
(***************************************************************************)
EXTENDS Naturals, Sequences

CONSTANTS Consumers,  \* the threads that take items out
          Items,      \* what is queued
          NoItem      \* what a consumer that took nothing yet holds

VARIABLES items,      \* the queued items, front first
          taken       \* consumer -> the item its last pop returned

PutBack(x)   == items' = Append(items, x) /\ UNCHANGED taken
PutFront(x)  == items' = <<x>> \o items   /\ UNCHANGED taken

TakeFront(c) == /\ items # << >>
                /\ taken' = [taken EXCEPT ![c] = Head(items)]
                /\ items' = Tail(items)

TakeBack(c)  == /\ items # << >>
                /\ taken' = [taken EXCEPT ![c] = items[Len(items)]]
                /\ items' = SubSeq(items, 1, Len(items) - 1)

Empty        == items' = << >> /\ UNCHANGED taken

Init == items = << >> /\ taken = [c \in Consumers |-> NoItem]

Next == \/ \E x \in Items : PutBack(x) \/ PutFront(x)
        \/ \E c \in Consumers : TakeFront(c) \/ TakeBack(c)
        \/ Empty

Spec == Init /\ [][Next]_<<items, taken>>
=============================================================================
