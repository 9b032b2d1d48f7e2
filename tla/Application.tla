------------------------------ MODULE Application ------------------------------
(***************************************************************************)
(* Application (p2d.hpp:2328-2700): the frame loop of start(), its timers, *)
(* and the two lists of objects it updates in turn: those in range of the  *)
(* camera every simulatedTargetDeltaTime, the others every                 *)
(* emulatedTargetDeltaTime.                                                *)
(*                                                                         *)
(* Time is counted in ticks, and an interval is a whole number of them.    *)
(* Of GameObject (GameObject.tla has the rest) an object keeps what the    *)
(* frame loop reads and writes; the object at the root of a tree updates   *)
(* those below it.  Where objects are is not described: at each refresh    *)
(* the quadtree may find any of them in range, in any order.               *)
(***************************************************************************)
EXTENDS Integers, Sequences, FiniteSets

LOCAL INSTANCE SequencesExt  \* ToSet, SetToSeqs

CONSTANTS Roots,      \* the objects the program adds to the Application: their ids
          Inner,      \* the objects below them
          RootOf,     \* Inner -> the root they are below
          Simulated,  \* simulatedTargetDeltaTime
          Emulated,   \* emulatedTargetDeltaTime
          FrameTime,  \* timeBetweenFrames
          Second,     \* a second, which deltaTime is set to before the first frame
          Deltas,     \* how long an iteration of the loop may take
          MaxFrames,  \* bound of the model: iterations
          MaxChanges, \* bound of the model: changes the scripts make
          MaxEmulated \* bound of the model: length of gameObjectsEmulated

Objects == Roots \cup Inner

\* The intervals come out whole.
ASSUME TimeAssumption ==
    /\ Objects \subseteq Nat /\ IsFiniteSet(Objects)
    /\ Roots \cap Inner = {} /\ RootOf \in [Inner -> Roots]
    /\ Simulated \in Nat /\ Emulated \in Nat
    /\ FrameTime \in Nat /\ Second \in Nat /\ MaxFrames \in Nat /\ MaxChanges \in Nat
    /\ MaxEmulated \in Nat
    /\ Deltas \subseteq Nat \ {0}
    /\ \A n \in 1 .. Cardinality(Objects) : Simulated % n = 0
    /\ \A n \in 1 .. MaxEmulated : Emulated % n = 0

VARIABLES gameObjects,          \* the roots that are in gameObjects
          enabled,              \* the objects whose enabled is true
          simulated,            \* the objects whose simulated is true
          timer,                \* object -> _timer
          gameObjectsSimulated, simulatedIT, simulatedTimer,
          gameObjectsEmulated,  emulatedIT,  emulatedTimer,
          refreshTimer, collisionTimer, actualFrameTimer,
          deltaTime,            \* time.deltaTime
          vsync,
          at,                   \* the part of the loop that is next
          since,                \* root -> time since its last update
          owed,                 \* root -> time since a refresh added it to gameObjectsEmulated
                                \* and it has had no turn since, or Never
          steady,               \* the roots in gameObjects and enabled since their last update
          added,                \* the roots added since the last refresh
          refreshed,            \* the lists were refreshed in this frame
          frames, changes       \* what the bounds count

objects == <<gameObjects, enabled, simulated>>
lists   == <<gameObjectsSimulated, gameObjectsEmulated>>
turns   == <<simulatedIT, emulatedIT>>
timers  == <<simulatedTimer, emulatedTimer, refreshTimer, collisionTimer, actualFrameTimer, deltaTime>>
past    == <<since, owed, steady, added, refreshed>>
counts  == <<frames, changes>>
vars    == <<objects, timer, lists, turns, timers, vsync, at, past, counts>>

Unset == -1  \* a _timer that was never written
Never == -1  \* no update yet, or no turn owed

Below(o) == {c \in Inner : RootOf[c] = o}

\* What Application::OnCreate() adds.  vsync is as the program sets it.
Init ==
    /\ gameObjects \in SUBSET Roots
    /\ enabled = Objects
    /\ simulated = gameObjects
    /\ timer = [o \in Objects |-> Unset]
    /\ gameObjectsSimulated = << >> /\ gameObjectsEmulated = << >>
    /\ simulatedIT = 0 /\ emulatedIT = 0
    /\ simulatedTimer = 0 /\ emulatedTimer = 0
    /\ refreshTimer = 0 /\ collisionTimer = 0 /\ actualFrameTimer = 0
    /\ deltaTime = Second
    /\ vsync \in BOOLEAN
    /\ at = "top"
    /\ since = [o \in Roots |-> Never] /\ owed = [o \in Roots |-> Never]
    /\ steady = {} /\ added = gameObjects /\ refreshed = FALSE
    /\ frames = 0 /\ changes = 0

\* while(emulatedTimer > emulatedInterval)
EmulatedInterval == Emulated \div Len(gameObjectsEmulated)

EmulatedDue == gameObjectsEmulated # << >> /\ emulatedTimer > EmulatedInterval

-----------------------------------------------------------------------------
(* Faulty variants.  No specification uses them: each takes the place of the  *)
(* definition it is named after, to see that a property notices.              *)

\* the flags of the last refresh stay
Marked_NotCleared(inRange) == simulated \cup inRange

\* _timer is left as it is
TimerReset_Not(o) == timer

\* each turn is the first one's
Wrapped_Always(it, list) == 0

\* the timer starts anew, as the one of the title does
Collide_Restarts ==
    /\ at = "emulated" /\ ~EmulatedDue /\ at' = "time"
    /\ collisionTimer' = IF collisionTimer >= Simulated THEN 0 ELSE collisionTimer
    /\ UNCHANGED <<objects, timer, lists, turns, simulatedTimer, emulatedTimer, refreshTimer,
                   actualFrameTimer, deltaTime, vsync, past, counts>>

\* the timer is not looked at
Collide_Unchecked ==
    /\ at = "emulated" /\ ~EmulatedDue /\ at' = "time"
    /\ collisionTimer' = collisionTimer - Simulated
    /\ UNCHANGED <<objects, timer, lists, turns, simulatedTimer, emulatedTimer, refreshTimer,
                   actualFrameTimer, deltaTime, vsync, past, counts>>

\* the whole interval for each turn
SimulatedInterval_Whole == Simulated

-----------------------------------------------------------------------------
(* What a script, or OnUpdate(), does to the objects: at most one change *)

NoChange == [do |-> "none"]

Changes == {NoChange}
           \cup (IF changes < MaxChanges
                 THEN [do : {"add"}, obj : Roots \ gameObjects]
                      \cup [do : {"remove"}, obj : gameObjects]
                      \cup [do : {"enable"}, obj : Objects \ enabled]
                      \cup [do : {"disable"}, obj : enabled]
                 ELSE {})

Is(c, do) == IF c.do = do THEN {c.obj} ELSE {}

Registered(c) == (gameObjects \cup Is(c, "add")) \ Is(c, "remove")
Enabled(c)    == (enabled \cup Is(c, "enable")) \ Is(c, "disable")
Flagged(c)    == simulated \cup Is(c, "add")

Make(c) ==
    /\ gameObjects' = Registered(c)
    /\ enabled' = Enabled(c)
    /\ added' = (added \cup Is(c, "add")) \ Is(c, "remove")
    /\ changes' = IF c = NoChange THEN changes ELSE changes + 1

-----------------------------------------------------------------------------
(* The frame *)

\* An iteration draws a frame when vsync is on or the frame is due.
Iterate ==
    /\ at = "top" /\ frames < MaxFrames
    /\ LET t == IF vsync THEN 0 ELSE actualFrameTimer
       IN  \/ /\ t >= FrameTime \/ vsync
              /\ actualFrameTimer' = t - FrameTime
              /\ at' = "refresh"
           \/ /\ t < FrameTime /\ ~vsync
              /\ at' = "time"
              /\ UNCHANGED actualFrameTimer
    /\ frames' = frames + 1 /\ refreshed' = FALSE
    /\ UNCHANGED <<objects, timer, lists, turns, simulatedTimer, emulatedTimer, refreshTimer,
                   collisionTimer, deltaTime, vsync, since, owed, steady, added, changes>>

\* The objects that _qt inserts: the enabled ones, each below enabled ones
Inserted == {o \in Roots \cap enabled : o \in gameObjects}
            \cup {c \in Inner \cap enabled : RootOf[c] \in gameObjects \cap enabled}

\* simulated = false for every root, then true for those found
Marked(inRange) == (simulated \ gameObjects) \cup inRange

\* The order of a map keyed by id
ById(S) == [i \in 1 .. Cardinality(S) |->
                CHOOSE o \in S : Cardinality({p \in S : p < o}) = i - 1]

\* The quadtree manager: the objects in range are simulated, the other roots are
\* added to those emulated.
Refresh ==
    /\ at = "refresh" /\ at' = "events"
    /\ \/ /\ refreshTimer >= Simulated
          /\ \E inRange \in SUBSET Inserted :
                /\ gameObjectsSimulated' \in SetToSeqs(inRange)
                /\ simulated' = Marked(inRange)
          /\ LET away == (gameObjects \cap enabled) \ simulated'
             IN  /\ gameObjectsEmulated' = gameObjectsEmulated \o ById(away)
                 /\ Len(gameObjectsEmulated') <= MaxEmulated
                 /\ owed' = [o \in Roots |-> IF o \in away /\ owed[o] = Never THEN 0 ELSE owed[o]]
          /\ refreshTimer' = refreshTimer - Simulated
          /\ added' = {} /\ refreshed' = TRUE
       \/ /\ refreshTimer < Simulated
          /\ UNCHANGED <<simulated, lists, refreshTimer, owed, added, refreshed>>
    /\ UNCHANGED <<gameObjects, enabled, timer, turns, simulatedTimer, emulatedTimer,
                   collisionTimer, actualFrameTimer, deltaTime, vsync, since, steady, counts>>

\* The event handler: the window is closed, or it is not.  Exit() calls OnDestroy(),
\* which looks objects up by index in a map keyed by id: the first makes a null entry.
Events ==
    /\ at = "events"
    /\ at' \in {"update", IF gameObjects = {} THEN "exited" ELSE "null"}
    /\ UNCHANGED <<objects, timer, lists, turns, timers, vsync, past, counts>>

\* OnUpdate(), and the time of every root that is enabled
Begin ==
    /\ at = "update" /\ at' = "simulated"
    /\ \E c \in Changes : Make(c) /\ simulated' = Flagged(c)
    /\ LET active == gameObjects' \cap enabled'
       IN  /\ timer' = [o \in Objects |-> IF o \in active /\ timer[o] # Unset
                                          THEN timer[o] + deltaTime ELSE timer[o]]
           /\ steady' = steady \cap active
    /\ UNCHANGED <<lists, turns, timers, vsync, since, owed, refreshed, frames>>

\* object->_timer = 0
TimerReset(o) == [timer EXCEPT ![o] = 0]

\* object->dt = object->_timer; object->_timer = 0; object->_update()
UpdateObject(o) ==
    /\ timer' = TimerReset(o)
    /\ owed' = [r \in Roots |-> IF r = o THEN Never ELSE owed[r]]
    /\ \/ /\ o \in enabled
          /\ \E c \in Changes :
                /\ Make(c)
                /\ simulated' = IF o \in Flagged(c) THEN Flagged(c) \cup Below(o)
                                                    ELSE Flagged(c) \ Below(o)
          /\ since' = [r \in Roots |-> IF r = o THEN 0 ELSE since[r]]
          /\ steady' = steady \cup ({o} \cap gameObjects)
       \/ /\ o \notin enabled
          /\ steady' = steady \ {o}
          /\ UNCHANGED <<objects, since, added, changes>>

\* if(IT >= list.size()) IT = 0; ...; IT++
Wrapped(it, list) == IF it >= Len(list) THEN 0 ELSE it

\* while(simulatedTimer >= simulatedInterval)
SimulatedInterval == Simulated \div Len(gameObjectsSimulated)

SimulatedDue == gameObjectsSimulated # << >> /\ simulatedTimer >= SimulatedInterval

UpdateSimulated ==
    /\ at = "simulated" /\ SimulatedDue
    /\ LET it == Wrapped(simulatedIT, gameObjectsSimulated)
       IN  UpdateObject(gameObjectsSimulated[it + 1]) /\ simulatedIT' = it + 1
    /\ simulatedTimer' = simulatedTimer - SimulatedInterval
    /\ UNCHANGED <<lists, emulatedIT, emulatedTimer, refreshTimer, collisionTimer,
                   actualFrameTimer, deltaTime, vsync, at, refreshed, frames>>

UpdateEmulated ==
    /\ at = "emulated" /\ EmulatedDue
    /\ LET it == Wrapped(emulatedIT, gameObjectsEmulated)
       IN  UpdateObject(gameObjectsEmulated[it + 1]) /\ emulatedIT' = it + 1
    /\ emulatedTimer' = emulatedTimer - EmulatedInterval
    /\ UNCHANGED <<lists, simulatedIT, simulatedTimer, refreshTimer, collisionTimer,
                   actualFrameTimer, deltaTime, vsync, at, refreshed, frames>>

EndSimulated ==
    /\ at = "simulated" /\ ~SimulatedDue /\ at' = "emulated"
    /\ UNCHANGED <<objects, timer, lists, turns, timers, vsync, past, counts>>

\* The collision handler; then rendering, which changes nothing here
Collide ==
    /\ at = "emulated" /\ ~EmulatedDue /\ at' = "time"
    /\ collisionTimer' = IF collisionTimer >= Simulated THEN collisionTimer - Simulated
                                                        ELSE collisionTimer
    /\ UNCHANGED <<objects, timer, lists, turns, simulatedTimer, emulatedTimer, refreshTimer,
                   actualFrameTimer, deltaTime, vsync, past, counts>>

\* The time manager
TimeManager ==
    /\ at = "time" /\ at' = "top"
    /\ \E d \in Deltas :
          /\ deltaTime' = d
          /\ refreshTimer' = refreshTimer + d
          /\ simulatedTimer' = simulatedTimer + d
          /\ emulatedTimer' = emulatedTimer + d
          /\ collisionTimer' = collisionTimer + d
          /\ actualFrameTimer' = actualFrameTimer + d
          /\ since' = [o \in Roots |-> IF since[o] = Never THEN Never ELSE since[o] + d]
          /\ owed' = [o \in Roots |-> IF owed[o] = Never THEN Never ELSE owed[o] + d]
    /\ UNCHANGED <<objects, timer, lists, turns, vsync, steady, added, refreshed, counts>>

Next ==
    \/ Iterate \/ Refresh \/ Events \/ Begin
    \/ UpdateSimulated \/ EndSimulated \/ UpdateEmulated
    \/ Collide \/ TimeManager

Spec == Init /\ [][Next]_vars

-----------------------------------------------------------------------------
(* Properties *)

TypeOK ==
    /\ gameObjects \subseteq Roots /\ enabled \subseteq Objects /\ simulated \subseteq Objects
    /\ timer \in [Objects -> Nat \cup {Unset}]
    /\ gameObjectsSimulated \in Seq(Objects) /\ gameObjectsEmulated \in Seq(Roots)
    /\ simulatedIT \in Nat /\ emulatedIT \in Nat
    /\ simulatedTimer \in Nat /\ emulatedTimer \in Nat
    /\ refreshTimer \in Nat /\ collisionTimer \in Nat
    /\ actualFrameTimer \in Int /\ actualFrameTimer >= -FrameTime
    /\ deltaTime \in Deltas \cup {Second}
    /\ vsync \in BOOLEAN
    /\ at \in {"top", "refresh", "events", "update", "simulated", "emulated", "time",
               "exited", "null"}
    /\ since \in [Roots -> Nat \cup {Never}] /\ owed \in [Roots -> Nat \cup {Never}]
    /\ steady \subseteq Roots /\ added \subseteq gameObjects
    /\ refreshed \in BOOLEAN

\* From its second update on, the dt a root is given is no more than the time
\* since the one before, however often it is in the lists, and just that time when
\* vsync is on and it was there and enabled all along.  An object below a root is
\* given the root's dt when the root is updated; a turn of its own in between, which it
\* has while it is in range, gives it no time on top of that, but what its memory
\* held the first time.
DeltaIsElapsed ==
    at \in {"simulated", "emulated"} =>
        /\ \A o \in Roots : since[o] # Never =>
              /\ timer[o] <= since[o]
              /\ vsync /\ o \in steady => timer[o] = since[o]
        /\ \A c \in Inner : timer[c] \in {Unset, 0}

\* Collisions are looked for in the frames that have refreshed the quadtree, and in
\* no other: their timers are two, but never apart.
CollisionsOnFreshTree == at = "emulated" => (refreshed <=> collisionTimer >= Simulated)

\* What the scripts of a root are told by simulated is which list it is in, since the
\* last refresh at least.  Those of an object below a root are told what the root is
\* whenever the root has a turn: that they are in range if both are, but of an object in
\* range below a root that is not, or the other way round, nothing can be said.
FlagTellsList ==
    /\ \A o \in gameObjects \ added : o \in simulated <=> o \in ToSet(gameObjectsSimulated)
    /\ \A c \in Inner \cap ToSet(gameObjectsSimulated) :
          RootOf[c] \in ToSet(gameObjectsSimulated) => c \in simulated

\* A root that a refresh found out of range has its next turn within
\* emulatedTargetDeltaTime: a frame leaves none that was owed one for longer, although
\* every refresh makes the list longer and leaves in it what it held.
ServedInTime ==
    at = "emulated" /\ ~EmulatedDue => \A o \in Roots : owed[o] <= Emulated
=============================================================================
