---------------------------- MODULE TsQueueProofs ----------------------------
(***************************************************************************)
(* What holds of TsQueue for any number of producers, any items and any    *)
(* bound, as long as one thread only takes items out (SingleConsumer).     *)
(*                                                                         *)
(* The inductive invariant IInv adds to the type invariant what the mutex  *)
(* owners are doing, that a consumer about to pop has items to pop and in  *)
(* the middle of one holds the item it will remove, and the strengthening  *)
(* of AsleepOnItemsOnlyIfMissed to the consumers that have seen the queue  *)
(* empty but do not sleep yet.                                             *)
(***************************************************************************)
EXTENDS TsQueue, TLAPS

\* Each kind of thread stays in its own steps.
RoleOK ==
    /\ \A p \in Producers : pc[p] \in {"idle"} \cup PushSteps
    /\ \A c \in Consumers : pc[c] \in {"idle"} \cup WaitSteps \cup TakeSteps

\* muxQueue is held across steps by a pushing producer, or by a consumer in the
\* middle of a pop.
QueueOwner ==
    /\ \A p \in Producers : (muxQueue = p) <=> (pc[p] \in PushSteps)
    /\ \A c \in Consumers : (muxQueue = c) <=> (pc[c] \in {"read", "remove"})

\* muxBlocking is held by a notifying producer or by a consumer about to sleep.
BlockingOwner ==
    /\ \A p \in Producers : (muxBlocking = p) <=> (pc[p] \in {"notify", "unlock"})
    /\ \A c \in Consumers : (muxBlocking = c) <=> (pc[c] = "sleep")

\* Nobody empties the queue between a consumer's empty() and its pop.
PopSafe ==
    \A c \in Consumers : (pc[c] \in {"pop", "read", "remove"}) => (deqQueue # << >>)

\* What a pop has read is still at its end of the deque when it removes it.
PopHolds ==
    \A c \in Consumers :
        (pc[c] = "remove") => (arg[c].item = AtEnd(deqQueue, arg[c].end))

\* AsleepOnItemsOnlyIfMissed, from the moment the queue was seen empty.
SleepInv ==
    \A c \in Consumers :
        (pc[c] \in {"lockToSleep", "sleep", "asleep"}
            /\ deqQueue # << >> /\ ~NotificationDue) => missed[c]

IInv == /\ TypeOK /\ RoleOK /\ QueueOwner /\ BlockingOwner
        /\ PopSafe /\ PopHolds /\ NoPopOnEmpty /\ SleepInv

-----------------------------------------------------------------------------
(* What the operations on the deque return. *)

LEMMA EmplacedType ==
    ASSUME NEW q \in Seq(Items), NEW a \in [item : Items, end : Ends]
    PROVE  Emplaced(q, a) \in Seq(Items) /\ Emplaced(q, a) # << >>
<1>1. CASE a.end = "back"
  BY <1>1 DEF Emplaced
<1>2. CASE a.end # "back"
  <2>1. <<a.item>> \in Seq(Items)
    OBVIOUS
  <2>2. Emplaced(q, a) = <<a.item>> \o q
    BY <1>2 DEF Emplaced
  <2>. QED  BY <2>1, <2>2
<1>. QED  BY <1>1, <1>2

LEMMA PoppedType ==
    ASSUME NEW q \in Seq(Items), q # << >>, NEW e \in Ends
    PROVE  Without(q, e) \in Seq(Items) /\ AtEnd(q, e) \in Items
<1>1. Len(q) \in Nat /\ Len(q) # 0
  OBVIOUS
<1>2. SubSeq(q, 1, Len(q) - 1) \in Seq(Items) /\ Tail(q) \in Seq(Items)
  BY <1>1
<1>3. q[Len(q)] \in Items /\ Head(q) \in Items
  BY <1>1
<1>. QED  BY <1>2, <1>3 DEF Without, AtEnd

-----------------------------------------------------------------------------
LEMMA InitIInv == Init => IInv
<1>. SUFFICES ASSUME Init PROVE IInv
  OBVIOUS
<1>. USE ThreadsAssumption DEF Init
<1>1. TypeOK
  <2>1. deqQueue \in Seq(Items)
    OBVIOUS
  <2>2. muxQueue \in Producers \cup {NoThread} /\ muxBlocking \in Threads \cup {NoThread}
    OBVIOUS
  <2>. QED  BY <2>1, <2>2 DEF TypeOK
<1>2. RoleOK /\ QueueOwner /\ BlockingOwner
  BY DEF RoleOK, QueueOwner, BlockingOwner, Threads, PushSteps
<1>3. PopSafe /\ PopHolds /\ NoPopOnEmpty /\ SleepInv
  BY DEF PopSafe, PopHolds, NoPopOnEmpty, SleepInv, Threads
<1>. QED  BY <1>1, <1>2, <1>3 DEF IInv

LEMMA NextIInv == IInv /\ [Next]_vars => IInv'
<1>. SUFFICES ASSUME IInv, [Next]_vars PROVE IInv'
  OBVIOUS
<1>. USE ThreadsAssumption, SingleConsumer
      DEF IInv, Goto, Threads
<1>1. ASSUME NEW p \in Producers, LockQueue(p) PROVE IInv'
  <2>. USE <1>1 DEF LockQueue
  <2>1. TypeOK'  BY DEF TypeOK, PushSteps
  <2>2. RoleOK' /\ QueueOwner' /\ BlockingOwner'
    BY DEF TypeOK, RoleOK, QueueOwner, BlockingOwner, PushSteps
  <2>3. PopSafe' /\ PopHolds' /\ NoPopOnEmpty'
    BY DEF TypeOK, PopSafe, PopHolds, NoPopOnEmpty
  <2>4. SleepInv'
    BY DEF TypeOK, SleepInv, NotificationDue
  <2>. QED  BY <2>1, <2>2, <2>3, <2>4
<1>2. ASSUME NEW p \in Producers, Emplace(p) PROVE IInv'
  <2>. USE <1>2 DEF Emplace
  <2>1. deqQueue' \in Seq(Items) /\ deqQueue' # << >>
    BY EmplacedType DEF TypeOK
  <2>2. TypeOK'  BY <2>1 DEF TypeOK, PushSteps
  <2>3. RoleOK' /\ QueueOwner' /\ BlockingOwner'
    BY DEF TypeOK, RoleOK, QueueOwner, BlockingOwner, PushSteps
  <2>4. PopSafe' /\ PopHolds' /\ NoPopOnEmpty'
    <3>1. \A c \in Consumers : pc'[c] # "remove"
      BY DEF TypeOK, RoleOK, QueueOwner, PushSteps
    <3>. QED  BY <2>1, <3>1 DEF PopSafe, PopHolds, NoPopOnEmpty
  <2>5. NotificationDue'
    BY DEF NotificationDue, TypeOK
  <2>6. SleepInv'
    BY <2>5 DEF SleepInv
  <2>. QED  BY <2>2, <2>3, <2>4, <2>6
<1>3. ASSUME NEW p \in Producers, LockBlocking(p) PROVE IInv'
  <2>. USE <1>3 DEF LockBlocking
  <2>1. TypeOK'  BY DEF TypeOK, PushSteps
  <2>2. RoleOK' /\ QueueOwner' /\ BlockingOwner'
    BY DEF TypeOK, RoleOK, QueueOwner, BlockingOwner, PushSteps, WaitSteps, TakeSteps
  <2>3. PopSafe' /\ PopHolds' /\ NoPopOnEmpty'
    BY DEF TypeOK, PopSafe, PopHolds, NoPopOnEmpty
  <2>4. NotificationDue'
    BY DEF NotificationDue, TypeOK
  <2>5. SleepInv'
    BY <2>4 DEF SleepInv
  <2>. QED  BY <2>1, <2>2, <2>3, <2>5
<1>4. ASSUME NEW p \in Producers, Notify(p) PROVE IInv'
  <2>. USE <1>4
  <2>1. TypeOK'
    BY DEF Notify, TypeOK, PushSteps, WaitSteps, Asleep, AboutToSleep
  <2>2. RoleOK' /\ QueueOwner' /\ BlockingOwner'
    BY DEF Notify, TypeOK, RoleOK, QueueOwner, BlockingOwner, PushSteps, WaitSteps,
           TakeSteps, Asleep
  <2>3. PopSafe' /\ PopHolds' /\ NoPopOnEmpty'
    BY DEF Notify, TypeOK, PopSafe, PopHolds, NoPopOnEmpty, Asleep
  <2>4. SleepInv'
    <3>. SUFFICES ASSUME NEW c \in Consumers,
                         pc'[c] \in {"lockToSleep", "sleep", "asleep"}
                  PROVE  missed'[c]
      BY DEF SleepInv
    <3>1. pc'[c] = pc[c] /\ pc[c] # "asleep"
      BY DEF Notify, TypeOK, Asleep
    <3>. QED  BY <3>1 DEF Notify, AboutToSleep
  <2>. QED  BY <2>1, <2>2, <2>3, <2>4
<1>5. ASSUME NEW p \in Producers, Unlock(p) PROVE IInv'
  <2>. USE <1>5 DEF Unlock
  <2>1. TypeOK'  BY DEF TypeOK
  <2>2. RoleOK' /\ QueueOwner' /\ BlockingOwner'
    BY DEF TypeOK, RoleOK, QueueOwner, BlockingOwner, PushSteps
  <2>3. PopSafe' /\ PopHolds' /\ NoPopOnEmpty'
    BY DEF TypeOK, PopSafe, PopHolds, NoPopOnEmpty
  <2>4. SleepInv'
    BY DEF TypeOK, SleepInv, NotificationDue
  <2>. QED  BY <2>1, <2>2, <2>3, <2>4
<1>6. ASSUME NEW c \in Consumers, Update(c) PROVE IInv'
  <2>. USE <1>6 DEF Update
  <2>1. TypeOK'  BY DEF TypeOK, WaitSteps, TakeSteps
  <2>2. RoleOK' /\ QueueOwner' /\ BlockingOwner'
    BY DEF TypeOK, RoleOK, QueueOwner, BlockingOwner, WaitSteps, TakeSteps
  <2>3. PopSafe' /\ PopHolds' /\ NoPopOnEmpty' /\ SleepInv'
    BY DEF TypeOK, PopSafe, PopHolds, NoPopOnEmpty, SleepInv
  <2>. QED  BY <2>1, <2>2, <2>3
<1>7. ASSUME NEW c \in Consumers, CheckEmpty(c) PROVE IInv'
  <2>. USE <1>7 DEF CheckEmpty
  <2>1. TypeOK'  BY DEF TypeOK, WaitSteps, TakeSteps
  <2>2. RoleOK' /\ QueueOwner' /\ BlockingOwner'
    BY DEF TypeOK, RoleOK, QueueOwner, BlockingOwner, WaitSteps, TakeSteps
  <2>3. PopSafe' /\ PopHolds' /\ NoPopOnEmpty' /\ SleepInv'
    BY DEF TypeOK, PopSafe, PopHolds, NoPopOnEmpty, SleepInv
  <2>. QED  BY <2>1, <2>2, <2>3
<1>8. ASSUME NEW c \in Consumers, LockToSleep(c) PROVE IInv'
  <2>. USE <1>8 DEF LockToSleep
  <2>1. TypeOK'  BY DEF TypeOK, WaitSteps
  <2>2. RoleOK' /\ QueueOwner' /\ BlockingOwner'
    BY DEF TypeOK, RoleOK, QueueOwner, BlockingOwner, WaitSteps, PushSteps
  <2>3. PopSafe' /\ PopHolds' /\ NoPopOnEmpty'
    BY DEF TypeOK, PopSafe, PopHolds, NoPopOnEmpty
  <2>4. SleepInv'
    BY DEF TypeOK, SleepInv, NotificationDue
  <2>. QED  BY <2>1, <2>2, <2>3, <2>4
<1>9. ASSUME NEW c \in Consumers, Sleep(c) PROVE IInv'
  <2>. USE <1>9 DEF Sleep
  <2>1. TypeOK'  BY DEF TypeOK, WaitSteps
  <2>2. RoleOK' /\ QueueOwner' /\ BlockingOwner'
    BY DEF TypeOK, RoleOK, QueueOwner, BlockingOwner, WaitSteps
  <2>3. PopSafe' /\ PopHolds' /\ NoPopOnEmpty'
    BY DEF TypeOK, PopSafe, PopHolds, NoPopOnEmpty
  <2>4. SleepInv'
    BY DEF TypeOK, SleepInv, NotificationDue
  <2>. QED  BY <2>1, <2>2, <2>3, <2>4
<1>10. ASSUME NEW c \in Consumers, SpuriousWakeup(c) PROVE IInv'
  <2>. USE <1>10 DEF SpuriousWakeup
  <2>1. TypeOK'  BY DEF TypeOK, WaitSteps
  <2>2. RoleOK' /\ QueueOwner' /\ BlockingOwner'
    BY DEF TypeOK, RoleOK, QueueOwner, BlockingOwner, WaitSteps
  <2>3. PopSafe' /\ PopHolds' /\ NoPopOnEmpty' /\ SleepInv'
    BY DEF TypeOK, PopSafe, PopHolds, NoPopOnEmpty, SleepInv
  <2>. QED  BY <2>1, <2>2, <2>3
<1>11. ASSUME NEW c \in Consumers, Relock(c) PROVE IInv'
  <2>. USE <1>11 DEF Relock
  <2>1. TypeOK'  BY DEF TypeOK, WaitSteps
  <2>2. RoleOK' /\ QueueOwner' /\ BlockingOwner'
    BY DEF TypeOK, RoleOK, QueueOwner, BlockingOwner, WaitSteps
  <2>3. PopSafe' /\ PopHolds' /\ NoPopOnEmpty' /\ SleepInv'
    BY DEF TypeOK, PopSafe, PopHolds, NoPopOnEmpty, SleepInv
  <2>. QED  BY <2>1, <2>2, <2>3
<1>12. ASSUME NEW c \in Consumers, DrainCheck(c) PROVE IInv'
  <2>. USE <1>12 DEF DrainCheck
  <2>1. TypeOK'  BY DEF TypeOK, TakeSteps
  <2>2. RoleOK' /\ QueueOwner' /\ BlockingOwner'
    BY DEF TypeOK, RoleOK, QueueOwner, BlockingOwner, TakeSteps
  <2>3. PopSafe' /\ PopHolds' /\ NoPopOnEmpty' /\ SleepInv'
    BY DEF TypeOK, PopSafe, PopHolds, NoPopOnEmpty, SleepInv
  <2>. QED  BY <2>1, <2>2, <2>3
<1>13. ASSUME NEW c \in Consumers, LockToPop(c) PROVE IInv'
  <2>. USE <1>13 DEF LockToPop
  <2>1. TypeOK'  BY DEF TypeOK, TakeSteps
  <2>2. RoleOK' /\ QueueOwner' /\ BlockingOwner'
    BY DEF TypeOK, RoleOK, QueueOwner, BlockingOwner, TakeSteps
  <2>3. PopSafe' /\ PopHolds' /\ NoPopOnEmpty' /\ SleepInv'
    BY DEF TypeOK, PopSafe, PopHolds, NoPopOnEmpty, SleepInv
  <2>. QED  BY <2>1, <2>2, <2>3
<1>14. ASSUME NEW c \in Consumers, ReadEnd(c) PROVE IInv'
  <2>. USE <1>14
  <2>1. deqQueue \in Seq(Items) /\ deqQueue # << >> /\ arg[c].end \in Ends
    BY DEF ReadEnd, PopSafe, TypeOK
  <2>2. PICK x \in Items :
           /\ x = AtEnd(deqQueue, arg[c].end)
           /\ arg' = [arg EXCEPT ![c].item = x]
    BY <2>1 DEF ReadEnd
  <2>3. TypeOK'
    BY <2>1, <2>2 DEF ReadEnd, TypeOK, TakeSteps
  <2>4. RoleOK' /\ QueueOwner' /\ BlockingOwner'
    BY DEF ReadEnd, TypeOK, RoleOK, QueueOwner, BlockingOwner, TakeSteps
  <2>5. PopSafe' /\ NoPopOnEmpty' /\ SleepInv'
    BY <2>1 DEF ReadEnd, TypeOK, PopSafe, NoPopOnEmpty, SleepInv
  <2>6. PopHolds'
    BY <2>1, <2>2 DEF ReadEnd, TypeOK, PopHolds
  <2>. QED  BY <2>3, <2>4, <2>5, <2>6
<1>15. ASSUME NEW c \in Consumers, RemoveEnd(c) PROVE IInv'
  <2>. USE <1>15
  <2>1. deqQueue \in Seq(Items) /\ deqQueue # << >> /\ arg[c] \in [item : Items, end : Ends]
    BY DEF RemoveEnd, PopSafe, TypeOK
  <2>2. deqQueue' \in Seq(Items) /\ result' \in [Consumers -> Items \cup {NoItem}]
    BY <2>1, PoppedType DEF RemoveEnd, TypeOK
  <2>3. TypeOK'  BY <2>1, <2>2 DEF RemoveEnd, TypeOK, TakeSteps
  <2>4. RoleOK' /\ QueueOwner' /\ BlockingOwner'
    BY DEF RemoveEnd, TypeOK, RoleOK, QueueOwner, BlockingOwner, TakeSteps
  <2>5. PopSafe' /\ PopHolds' /\ NoPopOnEmpty'
    BY <2>1 DEF RemoveEnd, TypeOK, PopSafe, PopHolds, NoPopOnEmpty
  <2>6. SleepInv'
    BY DEF RemoveEnd, TypeOK, SleepInv
  <2>. QED  BY <2>3, <2>4, <2>5, <2>6
<1>16. ASSUME NEW c \in Consumers, Clear(c) PROVE IInv'
  <2>. USE <1>16 DEF Clear
  <2>1. TypeOK'  BY DEF TypeOK
  <2>2. RoleOK' /\ QueueOwner' /\ BlockingOwner'
    BY DEF RoleOK, QueueOwner, BlockingOwner
  <2>3. PopSafe' /\ PopHolds' /\ NoPopOnEmpty' /\ SleepInv'
    BY DEF PopSafe, PopHolds, NoPopOnEmpty, SleepInv
  <2>. QED  BY <2>1, <2>2, <2>3
<1>17. CASE UNCHANGED vars
  BY <1>17 DEF vars, TypeOK, RoleOK, QueueOwner, BlockingOwner, PopSafe, PopHolds, NoPopOnEmpty,
               SleepInv, NotificationDue
<1>. QED
  BY <1>1, <1>2, <1>3, <1>4, <1>5, <1>6, <1>7, <1>8, <1>9, <1>10, <1>11, <1>12,
     <1>13, <1>14, <1>15, <1>16, <1>17 DEF Next, PushStep, TakeStep

\* IInv holds in every reachable state.
THEOREM Invariance == Spec => []IInv
BY InitIInv, NextIInv, PTL DEF Spec

\* Every variable keeps its type.
THEOREM TypeCorrect == Spec => []TypeOK
<1>1. IInv => TypeOK
  BY DEF IInv
<1>. QED  BY <1>1, Invariance, PTL

\* The two critical sections of "empty() then pop_front()" are as good as one:
\* no pop meets an empty deque, however many threads push.
THEOREM PopsAreSafe == Spec => []NoPopOnEmpty
<1>1. IInv => NoPopOnEmpty
  BY DEF IInv
<1>. QED  BY <1>1, Invariance, PTL

\* A consumer sleeps on a non-empty queue only after a notification that came
\* between its empty() and its sleep.
THEOREM OnlyMissedNotificationsLinger == Spec => []AsleepOnItemsOnlyIfMissed
<1>1. IInv => AsleepOnItemsOnlyIfMissed
  BY DEF IInv, SleepInv, AsleepOnItemsOnlyIfMissed
<1>. QED  BY <1>1, Invariance, PTL

\* The nested locking of push_back cannot close a cycle with wait().
THEOREM LocksAreOrdered == Spec => []NoLockCycle
<1>1. IInv => NoLockCycle
  BY ThreadsAssumption
     DEF IInv, TypeOK, QueueOwner, BlockingOwner, NoLockCycle, WaitsForBlocking,
         WaitsForQueue, Threads
<1>. QED  BY <1>1, Invariance, PTL

\* TsQueue implements an atomic deque: between the read and the removal of a pop
\* nothing comes to either end, because the pop owns muxQueue (PopHolds).
THEOREM Refinement == Spec => ImplementsDeque
<1>1. Init => Deque!Init
  BY DEF Init, Deque!Init
<1>2. IInv /\ [Next]_vars => [Deque!Next]_<<deqQueue, result>>
  <2>. SUFFICES ASSUME IInv, [Next]_vars PROVE [Deque!Next]_<<deqQueue, result>>
    OBVIOUS
  <2>1. ASSUME NEW p \in Producers, Emplace(p) PROVE Deque!Next
    <3>1. arg[p].item \in Items
      BY DEF IInv, TypeOK, Threads
    <3>2. Deque!PutBack(arg[p].item) \/ Deque!PutFront(arg[p].item)
      BY <2>1 DEF Emplace, Emplaced, Deque!PutBack, Deque!PutFront
    <3>. QED  BY <3>1, <3>2 DEF Deque!Next
  <2>2. ASSUME NEW c \in Consumers, RemoveEnd(c) PROVE Deque!Next
    <3>1. deqQueue # << >> /\ arg[c].item = AtEnd(deqQueue, arg[c].end)
      BY <2>2 DEF RemoveEnd, IInv, PopSafe, PopHolds
    <3>2. Deque!TakeFront(c) \/ Deque!TakeBack(c)
      BY <2>2, <3>1 DEF RemoveEnd, AtEnd, Without, Deque!TakeFront, Deque!TakeBack
    <3>. QED  BY <3>2 DEF Deque!Next
  <2>3. ASSUME NEW c \in Consumers, Clear(c) PROVE Deque!Next
    BY <2>3 DEF Clear, Deque!Next, Deque!Empty
  <2>4. ASSUME NEW p \in Producers, LockQueue(p) \/ LockBlocking(p) \/ Notify(p) \/ Unlock(p)
        PROVE  UNCHANGED <<deqQueue, result>>
    BY <2>4 DEF LockQueue, LockBlocking, Notify, Unlock
  <2>5. ASSUME NEW c \in Consumers,
               \/ Update(c) \/ CheckEmpty(c) \/ LockToSleep(c) \/ Sleep(c)
               \/ Relock(c) \/ DrainCheck(c) \/ SpuriousWakeup(c)
               \/ LockToPop(c) \/ ReadEnd(c)
        PROVE  UNCHANGED <<deqQueue, result>>
    BY <2>5 DEF Update, CheckEmpty, LockToSleep, Sleep, Relock, DrainCheck, SpuriousWakeup,
               LockToPop, ReadEnd
  <2>6. CASE UNCHANGED vars
    BY <2>6 DEF vars
  <2>. QED
    BY <2>1, <2>2, <2>3, <2>4, <2>5, <2>6 DEF Next, PushStep, TakeStep
<1>. QED  BY <1>1, <1>2, Invariance, PTL DEF Spec, ImplementsDeque, Deque!Spec
=============================================================================
