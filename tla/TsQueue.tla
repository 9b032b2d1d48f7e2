------------------------------- MODULE TsQueue -------------------------------
(***************************************************************************)
(* The thread-safe queue of p2d.hpp:195-283, at the grain of its mutexes.  *)
(*                                                                         *)
(* muxQueue guards the deque.  muxBlocking guards nothing but the          *)
(* condition variable: a push takes it while it holds muxQueue, only to    *)
(* call notify_one; wait() takes it only to sleep, AFTER empty() has       *)
(* released muxQueue.  Between these two a push can slip in, and its       *)
(* notification finds nobody asleep.                                       *)
(*                                                                         *)
(* Producers call push_back and push_front.  Consumers run the code of     *)
(* server_interface::update (p2d.hpp:721-731): wait(), if asked to, then   *)
(* pop while empty() says there is something to pop.                       *)
(***************************************************************************)
EXTENDS Naturals, Sequences

CONSTANTS Producers,  \* threads that push
          Consumers,  \* threads that wait and pop
          Items,      \* what is queued
          NoItem,     \* not an item: no pop returned yet
          NoThread,   \* the owner of a free mutex
          MaxLen      \* bound of the model: no push starts on a longer queue

Threads == Producers \cup Consumers

ASSUME ThreadsAssumption ==
    /\ Producers \cap Consumers = {}
    /\ NoThread \notin Threads
    /\ NoItem \notin Items
    /\ MaxLen \in Nat

\* m_qMessagesIn is drained by one thread only (exampleServer.cpp:47-52 and
\* exampleClient.cpp:37-39 call update() and pop_front() on the main thread).
ASSUME SingleConsumer == \A c, d \in Consumers : c = d

VARIABLES deqQueue,     \* the deque, front first
          muxQueue,     \* owner of muxQueue
          muxBlocking,  \* owner of muxBlocking
          pc,           \* thread -> the step of the call it is in
          arg,          \* thread -> the end its call works at, and the item: the
                        \* argument of a push, the local t of a pop
          result,       \* consumer -> the item its last pop returned
          undefined,    \* a pop met an empty deque: undefined behaviour
          missed        \* history: a notification came after consumer c saw
                        \* the queue empty and before it slept

vars == <<deqQueue, muxQueue, muxBlocking, pc, arg, result, undefined, missed>>

PushSteps == {"emplace", "lockBlocking", "notify", "unlock"}
WaitSteps == {"checkEmpty", "lockToSleep", "sleep", "asleep", "relock"}
TakeSteps == {"drain", "pop", "read", "remove"}
Ends      == {"back", "front"}

Goto(t, step) == pc' = [pc EXCEPT ![t] = step]

Init ==
    /\ deqQueue = << >>
    /\ muxQueue = NoThread /\ muxBlocking = NoThread
    /\ pc = [t \in Threads |-> "idle"]
    /\ arg \in [Threads -> [item : Items, end : Ends]]
    /\ result = [c \in Consumers |-> NoItem]
    /\ undefined = FALSE
    /\ missed = [c \in Consumers |-> FALSE]

-----------------------------------------------------------------------------
(* Faulty variants.  No specification uses them: each takes the place of the  *)
(* definition it is named after, to see that a property notices.              *)

\* pop_front and pop_back without their scoped_lock
LockToPop_NoLock(c) ==
    /\ pc[c] = "pop"
    /\ \E e \in Ends : arg' = [arg EXCEPT ![c].end = e]
    /\ Goto(c, "read")
    /\ UNCHANGED <<deqQueue, muxQueue, muxBlocking, result, undefined, missed>>

\* the notification is forgotten
Notify_Dropped(p) ==
    /\ pc[p] = "notify" /\ Goto(p, "unlock")
    /\ UNCHANGED <<deqQueue, muxQueue, muxBlocking, arg, result, undefined, missed>>

\* wait() sleeps with muxBlocking held
Sleep_KeepsMutex(c) ==
    /\ pc[c] = "sleep" /\ Goto(c, "asleep")
    /\ UNCHANGED <<deqQueue, muxQueue, muxBlocking, arg, result, undefined, missed>>

\* the lock of wait() is declared outside its loop and lives on
Relock_KeepsMutex(c) ==
    /\ pc[c] = "relock" /\ muxBlocking = NoThread
    /\ muxBlocking' = c /\ Goto(c, "checkEmpty")
    /\ UNCHANGED <<deqQueue, muxQueue, arg, result, undefined, missed>>

\* wait() tests with if, not with while, and its caller pops at once
Relock_NoRecheck(c) ==
    /\ pc[c] = "relock" /\ muxBlocking = NoThread
    /\ Goto(c, "pop")
    /\ UNCHANGED <<deqQueue, muxQueue, muxBlocking, arg, result, undefined, missed>>

-----------------------------------------------------------------------------
(* push_back and push_front *)

\* std::scoped_lock lock(muxQueue)
LockQueue(p) ==
    /\ pc[p] = "idle" /\ muxQueue = NoThread /\ Len(deqQueue) < MaxLen
    /\ muxQueue' = p
    /\ \E x \in Items, e \in Ends : arg' = [arg EXCEPT ![p] = [item |-> x, end |-> e]]
    /\ Goto(p, "emplace")
    /\ UNCHANGED <<deqQueue, muxBlocking, result, undefined, missed>>

Emplaced(q, a) == IF a.end = "back" THEN Append(q, a.item) ELSE <<a.item>> \o q

Emplace(p) ==
    /\ pc[p] = "emplace"
    /\ deqQueue' = Emplaced(deqQueue, arg[p])
    /\ Goto(p, "lockBlocking")
    /\ UNCHANGED <<muxQueue, muxBlocking, arg, result, undefined, missed>>

\* std::unique_lock<std::mutex> ul(muxBlocking), with muxQueue still held
LockBlocking(p) ==
    /\ pc[p] = "lockBlocking" /\ muxBlocking = NoThread
    /\ muxBlocking' = p
    /\ Goto(p, "notify")
    /\ UNCHANGED <<deqQueue, muxQueue, arg, result, undefined, missed>>

Asleep == {c \in Consumers : pc[c] = "asleep"}

\* A consumer that found the queue empty and is on its way to sleep.
AboutToSleep(c) == pc[c] \in {"lockToSleep", "sleep"}

\* blocking.notify_one(): wakes one sleeper, is lost when there is none
Notify(p) ==
    /\ pc[p] = "notify"
    /\ \/ \E c \in Asleep : pc' = [pc EXCEPT ![p] = "unlock", ![c] = "relock"]
       \/ Asleep = {} /\ Goto(p, "unlock")
    /\ missed' = [c \in Consumers |-> missed[c] \/ AboutToSleep(c)]
    /\ UNCHANGED <<deqQueue, muxQueue, muxBlocking, arg, result, undefined>>

\* the destructors of ul and lock
Unlock(p) ==
    /\ pc[p] = "unlock"
    /\ muxBlocking' = NoThread /\ muxQueue' = NoThread
    /\ Goto(p, "idle")
    /\ UNCHANGED <<deqQueue, arg, result, undefined, missed>>

-----------------------------------------------------------------------------
(* wait(), and the loop of server_interface::update around pop_front *)

\* update(max, wait): wait() first, or straight to the loop
Update(c) ==
    /\ pc[c] = "idle"
    /\ Goto(c, "checkEmpty") \/ Goto(c, "drain")
    /\ UNCHANGED <<deqQueue, muxQueue, muxBlocking, arg, result, undefined, missed>>

\* while(empty()): empty() locks muxQueue, reads and unlocks
CheckEmpty(c) ==
    /\ pc[c] = "checkEmpty" /\ muxQueue = NoThread
    /\ Goto(c, IF deqQueue = << >> THEN "lockToSleep" ELSE "drain")
    /\ missed' = [missed EXCEPT ![c] = FALSE]
    /\ UNCHANGED <<deqQueue, muxQueue, muxBlocking, arg, result, undefined>>

\* std::unique_lock<std::mutex> ul(muxBlocking)
LockToSleep(c) ==
    /\ pc[c] = "lockToSleep" /\ muxBlocking = NoThread
    /\ muxBlocking' = c
    /\ Goto(c, "sleep")
    /\ UNCHANGED <<deqQueue, muxQueue, arg, result, undefined, missed>>

\* blocking.wait(ul): releases muxBlocking and sleeps, in one step
Sleep(c) ==
    /\ pc[c] = "sleep"
    /\ muxBlocking' = NoThread
    /\ Goto(c, "asleep")
    /\ UNCHANGED <<deqQueue, muxQueue, arg, result, undefined, missed>>

\* std::condition_variable::wait may return without a notification
SpuriousWakeup(c) ==
    /\ pc[c] = "asleep"
    /\ Goto(c, "relock")
    /\ UNCHANGED <<deqQueue, muxQueue, muxBlocking, arg, result, undefined, missed>>

\* wait(ul) returns owning muxBlocking, and ul dies at the end of the loop's
\* body, before empty() is called again
Relock(c) ==
    /\ pc[c] = "relock" /\ muxBlocking = NoThread
    /\ Goto(c, "checkEmpty")
    /\ UNCHANGED <<deqQueue, muxQueue, muxBlocking, arg, result, undefined, missed>>

\* while(messageCount < maxMessages && !m_qMessagesIn.empty())
DrainCheck(c) ==
    /\ pc[c] = "drain" /\ muxQueue = NoThread
    /\ Goto(c, IF deqQueue = << >> THEN "idle" ELSE "pop")
    /\ UNCHANGED <<deqQueue, muxQueue, muxBlocking, arg, result, undefined, missed>>

\* pop_front() or pop_back(): std::scoped_lock lock(muxQueue)
LockToPop(c) ==
    /\ pc[c] = "pop" /\ muxQueue = NoThread
    /\ muxQueue' = c
    /\ \E e \in Ends : arg' = [arg EXCEPT ![c].end = e]
    /\ Goto(c, "read")
    /\ UNCHANGED <<deqQueue, muxBlocking, result, undefined, missed>>

AtEnd(q, e)   == IF e = "front" THEN Head(q) ELSE q[Len(q)]
Without(q, e) == IF e = "front" THEN Tail(q) ELSE SubSeq(q, 1, Len(q) - 1)

\* auto t = std::move(deqQueue.front()), or back(): of an empty deque, anything
ReadEnd(c) ==
    /\ pc[c] = "read"
    /\ undefined' = (undefined \/ deqQueue = << >>)
    /\ \E x \in Items :
        /\ deqQueue # << >> => x = AtEnd(deqQueue, arg[c].end)
        /\ arg' = [arg EXCEPT ![c].item = x]
    /\ Goto(c, "remove")
    /\ UNCHANGED <<deqQueue, muxQueue, muxBlocking, result, missed>>

\* deqQueue.pop_front() or pop_back(), return t, and the lock's destructor;
\* update goes on, or stops at maxMessages
RemoveEnd(c) ==
    /\ pc[c] = "remove"
    /\ undefined' = (undefined \/ deqQueue = << >>)
    /\ deqQueue' = IF deqQueue = << >> THEN << >> ELSE Without(deqQueue, arg[c].end)
    /\ result' = [result EXCEPT ![c] = arg[c].item]
    /\ muxQueue' = NoThread
    /\ Goto(c, "drain") \/ Goto(c, "idle")
    /\ UNCHANGED <<muxBlocking, arg, missed>>

\* clear(), which the destructor calls too
Clear(c) ==
    /\ pc[c] = "idle" /\ muxQueue = NoThread
    /\ deqQueue' = << >>
    /\ UNCHANGED <<muxQueue, muxBlocking, pc, arg, result, undefined, missed>>

-----------------------------------------------------------------------------
PushStep(p) == Emplace(p) \/ LockBlocking(p) \/ Notify(p) \/ Unlock(p)

TakeStep(c) == \/ CheckEmpty(c) \/ LockToSleep(c) \/ Sleep(c) \/ Relock(c)
               \/ DrainCheck(c) \/ LockToPop(c) \/ ReadEnd(c) \/ RemoveEnd(c)

Next == \/ \E p \in Producers : LockQueue(p) \/ PushStep(p)
        \/ \E c \in Consumers : Update(c) \/ TakeStep(c) \/ SpuriousWakeup(c) \/ Clear(c)

Spec == Init /\ [][Next]_vars

\* A thread that runs keeps running through its call; nobody is obliged to
\* start a call, and a spurious wakeup need not come.
Fairness == /\ \A p \in Producers : WF_vars(PushStep(p))
            /\ \A c \in Consumers : WF_vars(TakeStep(c))

FairSpec == Spec /\ Fairness
-----------------------------------------------------------------------------
(* Properties *)

TypeOK ==
    /\ deqQueue \in Seq(Items)
    /\ muxQueue \in Threads \cup {NoThread}
    /\ muxBlocking \in Threads \cup {NoThread}
    /\ pc \in [Threads -> {"idle"} \cup PushSteps \cup WaitSteps \cup TakeSteps]
    /\ arg \in [Threads -> [item : Items, end : Ends]]
    /\ result \in [Consumers -> Items \cup {NoItem}]
    /\ undefined \in BOOLEAN
    /\ missed \in [Consumers -> BOOLEAN]

\* update() reads empty() and pops in two separate critical sections; still no
\* pop ever meets an empty deque (front() of an empty deque is undefined
\* behaviour).  True because one thread only takes items out.
NoPopOnEmpty == ~undefined

WaitsForQueue(t)    == pc[t] \in {"checkEmpty", "drain", "pop"}
WaitsForBlocking(t) == pc[t] \in {"lockBlocking", "lockToSleep", "relock"}

\* A push holds muxQueue while it waits for muxBlocking.  It never waits for a
\* thread that waits for muxQueue in its turn: wait() gives muxBlocking up
\* before it calls empty() again.
NoLockCycle ==
    \A p \in Producers, t \in Threads :
        (muxQueue = p /\ WaitsForBlocking(p) /\ muxBlocking = t) => ~WaitsForQueue(t)

\* Some push has put its item in and still owes its notification.
NotificationDue == \E p \in Producers : pc[p] \in {"lockBlocking", "notify"}

\* wait() checks the queue and goes to sleep in two steps, so a consumer can
\* sleep on a queue that holds items.  The only way there is a notification
\* that came between the two: no push that finds the consumer asleep leaves it
\* asleep.
AsleepOnItemsOnlyIfMissed ==
    \A c \in Consumers :
        (pc[c] = "asleep" /\ deqQueue # << >> /\ ~NotificationDue) => missed[c]

\* What bounds the damage of a missed notification: the next push that reaches
\* its notification makes a sleeping consumer look at the queue again.
WokenByNextPush ==
    \A c \in Consumers :
        (pc[c] = "asleep" /\ \E p \in Producers : pc[p] = "notify")
            ~> (pc[c] = "checkEmpty")

\* A push that got muxQueue returns, although it waits for muxBlocking with
\* muxQueue held.
PushReturns == \A p \in Producers : (pc[p] = "emplace") ~> (pc[p] = "idle")

\* TsQueue is an atomic deque, although a pop reads the item in one step and
\* takes it off the deque in another (255-257, 263-265), while other threads push
\* at the same end: what a pop returns is what it removed, and neither is ever
\* taken of an empty deque.
Deque == INSTANCE AtomicDeque WITH items <- deqQueue, taken <- result

ImplementsDeque == Deque!Spec
=============================================================================
