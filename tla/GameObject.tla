------------------------------ MODULE GameObject ------------------------------
(***************************************************************************)
(* GameObject and Script (p2d.hpp:1280-1341, 2091-2326), with the registry *)
(* of root objects that Application keeps (p2d.hpp:2398-2415): the object  *)
(* tree, the callbacks of the scripts, and what the callbacks do to the    *)
(* tree while a loop goes over it.                                         *)
(*                                                                         *)
(* One thread runs all of it.  Its call stack is explicit: a frame is one  *)
(* of the loops of the code, and one step is one callback, which may call  *)
(* back into the tree (at most once), or the return from a loop.           *)
(*                                                                         *)
(* Objects are numbered in the order of their ids, so that the cursor of a *)
(* loop over a map is a number; 0 stands for the Application.  The program *)
(* calls with care: it adds an object only where none holds it, never      *)
(* below itself and not while it is being destroyed; and it calls          *)
(* RemoveObject() of the parent that holds it.                             *)
(***************************************************************************)
EXTENDS Integers, Sequences, FiniteSets

LOCAL INSTANCE SequencesExt  \* ToSet

CONSTANTS N,        \* the number of objects the program makes
          Scripts,  \* the components it makes, besides the Transforms
          MaxCalls  \* bound of the model: calls of the program's

App     == 0
Objects == 1 .. N
Wild    == -1    \* a pointer that was never set
Erased  == -1    \* an iterator whose element was erased
Transform == "Transform"  \* the component each object is made with

ASSUME TreeAssumption == N \in Nat /\ MaxCalls \in Nat /\ Transform \notin Scripts

VARIABLES children,   \* App: gameObjects.  Object: children
          parent,     \* Object -> parent; App is nullptr
          components, \* Object -> components
          did,        \* Object -> which of its flags are set
          enabled,    \* the objects whose enabled is true
          stack,      \* the loops under way, innermost first
          log,        \* Script -> the callbacks it has seen
          early,      \* the objects added below one that was not set up
          listed,     \* the objects that may be in gameObjectsSimulated or -Emulated
          due,        \* the objects the update under way has to reach
          visits,     \* Object -> how often it has, 2 for more than once
          calls,      \* the calls the program made
          fault       \* the undefined behaviour met, or "none"

tree == <<children, parent, components, did, enabled, early>>
pass == <<due, visits>>
vars == <<tree, stack, listed, log, pass, calls, fault>>

Flags == {"setup", "created", "started"}

\* "raw": updated before Start.  "late": called after OnDestroy.
Marks == {"OnCreate", "Start", "Update", "OnDestroy", "raw", "late"}

\* A frame: the loop, its object, the component it is at, 0 before the loop; in
\* the loops that go on to the children, then the child the iterator is at, N + 1
\* at the end, and whether that child has had its turn.
Method == [setup |-> "OnCreate", create |-> "OnCreate", start |-> "Start",
           update |-> "Update", destroy |-> "OnDestroy"]
Loops  == DOMAIN Method
Nested == {"update", "destroy"}
Loop(name, o) == [loop |-> name, obj |-> o, i |-> 0, it |-> 0, back |-> FALSE]
Added(o, s)   == [loop |-> "added", obj |-> o, i |-> 1, script |-> s]
Erase(p, o)   == [loop |-> "erase", obj |-> p, child |-> o]

Placed(o) == \E p \in 0 .. N : o \in children[p]

\* o and everything that the edges lead to from there
Reach(o, edges) ==
    LET within[n \in 0 .. N] ==
            IF n = 0 THEN {o}
            ELSE within[n - 1] \cup UNION {edges[x] : x \in within[n - 1]}
    IN  within[N]

\* o and everything below it
Subtree(o) == Reach(o, children)

Init ==
    /\ children = [p \in 0 .. N |-> {}]
    /\ parent = [o \in Objects |-> Wild]
    /\ components = [o \in Objects |-> <<Transform>>]
    /\ did = [o \in Objects |-> {}]
    /\ enabled = Objects
    /\ stack = << >>
    /\ log = [s \in Scripts |-> {}]
    /\ early = {} /\ listed = {}
    /\ due = {} /\ visits = [o \in Objects |-> 0]
    /\ calls = 0
    /\ fault = "none"

-----------------------------------------------------------------------------
(* Faulty variants.  No specification uses them: each takes the place of the  *)
(* definition it is named after, to see that a property notices.              *)

\* the parent is inserted instead of the child
Insert_Itself(p, o) ==
    /\ children' = [children EXCEPT ![p] = @ \cup {p}]
    /\ parent' = [parent EXCEPT ![o] = p]

\* the parent pointer is left as it was
Insert_NoParent(p, o) ==
    /\ children' = [children EXCEPT ![p] = @ \cup {o}]
    /\ UNCHANGED parent

\* _start() is forgotten
SetUpLoops_NoStart(o) ==
    (IF "setup" \in did[o] THEN << >> ELSE <<Loop("setup", o)>>) \o <<Loop("create", o)>>

\* a key is passed over
After_Skips(p, c) ==
    IF \E d \in children[p] : d > c + 1
    THEN CHOOSE d \in children[p] : d > c + 1 /\ \A e \in children[p] : e > c + 1 => d <= e
    ELSE N + 1

\* the iterator is not advanced
Advance_Stays(f) == [f EXCEPT !.back = FALSE]

\* the components stay
Cleared_Not(o) == components

\* Start before OnCreate
AddedCalls_StartFirst ==
    <<[flag |-> "started", method |-> "Start"], [flag |-> "created", method |-> "OnCreate"]>>

\* no Start
AddedCalls_NoStart == <<[flag |-> "created", method |-> "OnCreate"]>>

-----------------------------------------------------------------------------
(* What the program calls, from OnUpdate() or from a callback.  st is the     *)
(* stack it returns to.                                                       *)

\* The next key of p's map after c
After(p, c) ==
    IF \E d \in children[p] : d > c
    THEN CHOOSE d \in children[p] : d > c /\ \A e \in children[p] : e > c => d <= e
    ELSE N + 1

\* component is fresh
AddComponent(st) ==
    \E o \in Objects, s \in Scripts :
        /\ \A x \in Objects : s \notin ToSet(components[x])
        /\ log[s] = {}
        /\ components' = [components EXCEPT ![o] = Append(@, s)]
        /\ stack' = <<Added(o, s)>> \o st
        /\ UNCHANGED <<children, parent, did, enabled, early, due, fault>>

\* p sets up the objects it is given.
TakesIn(p) == p # App => "setup" \in did[p]

\* children.insert({id, object}); object->parent = this
Insert(p, o) ==
    /\ children' = [children EXCEPT ![p] = @ \cup {o}]
    /\ parent' = [parent EXCEPT ![o] = p]

\* object->_setup(..); object->_onCreate(); object->_start()
SetUpLoops(o) ==
    (IF "setup" \in did[o] THEN << >> ELSE <<Loop("setup", o)>>)
        \o <<Loop("create", o), Loop("start", o)>>

\* Application::AddObject, and GameObject::AddObject, which does no more than
\* insert when the parent is not set up
AddObject(st) ==
    \E o \in Objects, p \in 0 .. N :
        /\ ~Placed(o) /\ p \notin Subtree(o)
        /\ \A k \in DOMAIN st : st[k].loop = "destroy" => o \notin Subtree(st[k].obj)
        /\ Insert(p, o)
        /\ \/ /\ ~TakesIn(p)
              /\ early' = early \cup {o}
              /\ stack' = st
              /\ UNCHANGED did
           \/ /\ TakesIn(p)
              /\ early' = early \ {o}
              /\ did' = [did EXCEPT ![o] = @ \cup {"setup"}]
              /\ stack' = SetUpLoops(o) \o st
        /\ due' = due \ Subtree(o)
        /\ UNCHANGED <<components, enabled, fault>>

\* map::erase: an iterator at the child is no longer valid
Without(st, p, o) ==
    [k \in DOMAIN st |->
        IF st[k].loop \in Nested /\ st[k].obj = p /\ st[k].it = o
        THEN [st[k] EXCEPT !.it = Erased] ELSE st[k]]

\* RemoveObject(object, callOnDestroy) of p
Removal(p, o, st) ==
    /\ due' = due \ Subtree(o)
    /\ \/ stack' = <<Loop("destroy", o), Erase(p, o)>> \o st /\ UNCHANGED children
       \/ /\ children' = [children EXCEPT ![p] = @ \ {o}]
          /\ stack' = Without(st, p, o)
    /\ UNCHANGED <<parent, components, did, enabled, early>>

RemoveObject(st) == \E p \in 0 .. N : \E o \in children[p] : Removal(p, o, st) /\ UNCHANGED fault

\* Destroy(callOnDestroy) goes to the parent, which may have let go of the object
\* already; of a root through nullptr, of an object never added through a pointer
\* that was never set.
Destroy(st) ==
    \E o \in Objects :
        \/ parent[o] \in Objects /\ Removal(parent[o], o, st) /\ UNCHANGED fault
        \/ /\ \/ parent[o] = App /\ fault' = "null"
              \/ parent[o] = Wild /\ fault' = "wild"
           /\ stack' = st
           /\ UNCHANGED <<tree, due>>

SetEnabled(st) ==
    /\ \/ \E o \in enabled : enabled' = enabled \ {o} /\ due' = due \ Subtree(o)
       \/ \E o \in Objects \ enabled : enabled' = enabled \cup {o} /\ UNCHANGED due
    /\ stack' = st
    /\ UNCHANGED <<children, parent, components, did, early, fault>>

Call(st) ==
    /\ calls < MaxCalls /\ calls' = calls + 1
    /\ AddComponent(st) \/ AddObject(st) \/ SetEnabled(st) \/ RemoveObject(st) \/ Destroy(st)

-----------------------------------------------------------------------------
(* The loops *)

Top   == Head(stack)
Below == Tail(stack)
In(loops) == stack # << >> /\ fault = "none" /\ Top.loop \in loops
AtEnd == Top.i > Len(components[Top.obj])

\* Script s is called back with method m: it does something, or not.
CallBack(s, m, st) ==
    /\ log' = [log EXCEPT ![s] = @ \cup {m}
                  \cup (IF m = "Update" /\ "Start" \notin @ THEN {"raw"} ELSE {})
                  \cup (IF "OnDestroy" \in @ THEN {"late"} ELSE {})]
    /\ UNCHANGED visits
    /\ \/ Call(st)
       \/ stack' = st /\ UNCHANGED <<tree, due, calls, fault>>

\* The callbacks of a Transform, which only clear() takes from the front, do nothing.
FirstScript(o) == IF components[o] # << >> /\ Head(components[o]) = Transform THEN 2 ELSE 1

\* Into a loop: _onCreate and _start set their flag
Enter ==
    /\ In(Loops) /\ Top.i = 0
    /\ stack' = <<[Top EXCEPT !.i = FirstScript(Top.obj)]>> \o Below
    /\ did' = [did EXCEPT ![Top.obj] = @ \cup (CASE Top.loop = "create" -> {"created"}
                                                [] Top.loop = "start" -> {"started"}
                                                [] OTHER -> {})]
    /\ UNCHANGED <<children, parent, components, enabled, early, log, pass, calls, fault>>

\* One component's turn; components.size() is read anew each time.
Turn ==
    /\ In(Loops) /\ Top.i > 0 /\ Top.it = 0 /\ ~AtEnd
    /\ CallBack(components[Top.obj][Top.i], Method[Top.loop],
                <<[Top EXCEPT !.i = @ + 1]>> \o Below)

\* The end of a loop that has no children to go on to
Return ==
    /\ In(Loops \ Nested) /\ AtEnd
    /\ stack' = Below
    /\ UNCHANGED <<tree, log, pass, calls, fault>>

\* auto it = children.begin()
ToChildren ==
    /\ In(Nested) /\ Top.i > 0 /\ Top.it = 0 /\ AtEnd
    /\ stack' = <<[Top EXCEPT !.it = After(Top.obj, 0)]>> \o Below
    /\ UNCHANGED <<tree, log, pass, calls, fault>>

\* The child's own loop; _update returns at once when the child is not enabled.
Child ==
    /\ In(Nested) /\ Top.it \in Objects /\ ~Top.back
    /\ LET c == Top.it
           skip == Top.loop = "update" /\ c \notin enabled
       IN  /\ stack' = (IF skip THEN << >> ELSE <<Loop(Top.loop, c)>>)
                       \o <<[Top EXCEPT !.back = TRUE]>> \o Below
           /\ visits' = IF Top.loop = "update" /\ ~skip
                        THEN [visits EXCEPT ![c] = IF @ = 0 THEN 1 ELSE 2] ELSE visits
    /\ UNCHANGED <<tree, log, due, calls, fault>>

\* it++
Advance(f) == [f EXCEPT !.it = After(f.obj, f.it), !.back = FALSE]

NextChild ==
    /\ In(Nested) /\ Top.back
    /\ \/ /\ Top.it # Erased
          /\ stack' = <<Advance(Top)>> \o Below
          /\ UNCHANGED fault
       \/ Top.it = Erased /\ fault' = "iterator" /\ UNCHANGED stack
    /\ UNCHANGED <<tree, log, pass, calls>>

\* components.clear()
Cleared(o) == [components EXCEPT ![o] = << >>]

\* Past the last child; _onDestroy clears the components.
LastChild ==
    /\ In(Nested) /\ Top.it = N + 1
    /\ stack' = Below
    /\ components' = IF Top.loop = "destroy" THEN Cleared(Top.obj) ELSE components
    /\ UNCHANGED <<children, parent, did, enabled, early, log, pass, calls, fault>>

\* RemoveObject, after _onDestroy
EraseChild ==
    /\ In({"erase"})
    /\ children' = [children EXCEPT ![Top.obj] = @ \ {Top.child}]
    /\ stack' = Without(Below, Top.obj, Top.child)
    /\ UNCHANGED <<parent, components, did, enabled, early, log, pass, calls, fault>>

\* AddComponent, once the component is in: if(created) OnCreate; if(started) Start
AddedCalls == <<[flag |-> "created", method |-> "OnCreate"], [flag |-> "started", method |-> "Start"]>>

TurnOfAdded ==
    /\ In({"added"}) /\ Top.i \in DOMAIN AddedCalls
    /\ LET st == <<[Top EXCEPT !.i = @ + 1]>> \o Below
           flag == AddedCalls[Top.i].flag
       IN  \/ /\ flag \in did[Top.obj]
              /\ CallBack(Top.script, AddedCalls[Top.i].method, st)
           \/ /\ flag \notin did[Top.obj]
              /\ stack' = st /\ UNCHANGED <<tree, log, pass, calls, fault>>

ReturnFromAdd ==
    /\ In({"added"}) /\ Top.i > Len(AddedCalls)
    /\ stack' = Below
    /\ UNCHANGED <<tree, log, pass, calls, fault>>

Step ==
    /\ UNCHANGED listed
    /\ \/ Enter \/ Turn \/ Return \/ ToChildren \/ Child \/ NextChild \/ LastChild
       \/ EraseChild \/ TurnOfAdded \/ ReturnFromAdd

\* From the frame loop, which may have refreshed its lists: a call from OnUpdate(),
\* or the update of an object that is in a list.  (The quadtree holds the objects
\* below others too, and an object that is removed stays in the lists.)
Main ==
    /\ stack = << >> /\ fault = "none"
    /\ listed' = listed \cup (Subtree(App) \ {App})
    /\ Call(<< >>)
    /\ UNCHANGED <<log, visits>>

\* o and what is below it down to the first object that is not enabled
Active(o) == Reach(o, [p \in 0 .. N |-> children[p] \cap enabled])

Update ==
    /\ stack = << >> /\ fault = "none"
    /\ listed' = listed \cup (Subtree(App) \ {App})
    /\ \E o \in enabled \cap listed' :
          /\ stack' = <<Loop("update", o)>>
          /\ due' = Active(o)
          /\ visits' = [x \in Objects |-> IF x = o THEN 1 ELSE 0]
    /\ UNCHANGED <<tree, log, calls, fault>>

Next == Main \/ Update \/ Step

Spec == Init /\ [][Next]_vars

\* The thread runs on, and a callback returns.
FairSpec == Spec /\ WF_vars(Step)

-----------------------------------------------------------------------------
(* Properties *)

Frame == [loop : Loops, obj : Objects, i : Nat, it : -1 .. N + 1, back : BOOLEAN]
         \cup [loop : {"added"}, obj : Objects, i : 1 .. 3, script : Scripts]
         \cup [loop : {"erase"}, obj : 0 .. N, child : Objects]

TypeOK ==
    /\ children \in [0 .. N -> SUBSET Objects]
    /\ parent \in [Objects -> -1 .. N]
    /\ components \in [Objects -> Seq(Scripts \cup {Transform})]
    /\ did \in [Objects -> SUBSET Flags]
    /\ enabled \subseteq Objects /\ early \subseteq Objects /\ listed \subseteq Objects
    /\ stack \in Seq(Frame)
    /\ log \in [Scripts -> SUBSET Marks]
    /\ due \subseteq Objects
    /\ visits \in [Objects -> 0 .. 2]
    /\ calls \in 0 .. MaxCalls
    /\ fault \in {"none", "null", "wild", "iterator"}

\* Nothing calls a script once its OnDestroy has been called, though its object
\* may still be in a map, in a loop under way, or be added again, with two exceptions:
\* AddComponent calls Start even when the OnCreate before it destroyed the object;
\* and an object that is destroyed again from within its own destruction, by a callback
\* of its own or of one below it, has OnDestroy called again, since its components are
\* cleared only at the end.
NothingAfterDestroy ==
    [][\A s \in Scripts : "late" \in log'[s] \ log[s] =>
          \/ /\ Top.loop = "added" /\ Top.i = 2 /\ Top.script = s
             /\ "created" \in did[Top.obj]
          \/ /\ Top.loop = "destroy"
             /\ \E k \in 2 .. Len(stack) : stack[k].loop = "destroy" /\ stack[k].obj = Top.obj]_vars

\* A script whose Start was never called is updated only if its object was added
\* below one that was not set up, which sets it up neither then nor later.
UpdateAfterStart ==
    [][\A s \in Scripts : "raw" \in log'[s] \ log[s] =>
          \E o \in early : s \in ToSet(components[o])]_vars

\* Start comes after OnCreate, in whichever order components and objects are
\* added.  Between the program's calls, every object in the tree is set up, created
\* and started, and so are its components, except those added too early.
ReadyAtRest ==
    /\ \A s \in Scripts : "Start" \in log[s] => "OnCreate" \in log[s]
    /\ stack = << >> => \A o \in Subtree(App) \ ({App} \cup early) :
        /\ did[o] = Flags
        /\ \A s \in ToSet(components[o]) \ {Transform} : {"OnCreate", "Start"} \subseteq log[s]

\* An update reaches each object of the tree below once: those that were there
\* and enabled when it began, and that no callback removed, disabled or added
\* elsewhere since.
EachUpdatedOnce ==
    /\ \A o \in due : visits[o] <= 1
    /\ stack = << >> => \A o \in due : visits[o] = 1

\* Destroy() goes to the parent that holds the object; and the tree, the flags and
\* the calls under way are what they should be (the types).
ParentHolds == TypeOK /\ \A p \in 0 .. N : \A o \in children[p] : parent[o] = p

\* Every call returns, although the callbacks change what the loops go over.
CallsReturn == stack # << >> ~> (stack = << >> \/ fault # "none")
=============================================================================
