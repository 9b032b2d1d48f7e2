--------------------------------- MODULE Parts ---------------------------------
(***************************************************************************)
(* Three parts of the engine, each by itself: part says which.  They share *)
(* no state, and none of them calls another.                               *)
(***************************************************************************)
EXTENDS Collision

CONSTANTS Keys, Buttons, Unknown,                  \* of Input
          Values, SizeOf, Paths, Mixed, MaxBytes   \* of Storage

VARIABLES part,
          held,  \* the keys and buttons that were down at the last _update()
          input, thrown, data, disk, saving, taken, wrapped, items, saved, whole

In == INSTANCE Input
St == INSTANCE Storage

\* Mixed is no sequence of values, and every type has a size.
ASSUME StorageAssumption ==
    /\ Mixed \notin Seq(Values)
    /\ SizeOf \in [Values -> Nat] /\ MaxBytes \in Nat

inputVars   == <<input, thrown, held>>
storageVars == <<data, disk, saving, taken, wrapped, items, saved, whole>>

AtRest == position = [o \in Objects |-> 0] /\ IsColliding = {}

PartsInit ==
    /\ part \in {"collision", "input", "storage"}
    /\ Init /\ In!Init /\ held = In!Down /\ St!Init
    /\ part = "collision" \/ AtRest

\* Any sequence of calls
InputNext ==
    /\ ~thrown
    /\ \/ In!Update /\ held' = In!Down
       \/ /\ (\E b \in Buttons : In!GetButtonUp(b)) \/ (\E e \in In!Events : In!Poll(e))
          /\ UNCHANGED held

PartsNext ==
    /\ UNCHANGED part
    /\ \/ part = "collision" /\ Next /\ UNCHANGED <<inputVars, storageVars>>
       \/ part = "input" /\ InputNext /\ UNCHANGED <<vars, storageVars>>
       \/ part = "storage" /\ St!Next /\ UNCHANGED <<vars, inputVars>>

PartsSpec == PartsInit /\ [][PartsNext]_<<part, vars, inputVars, storageVars>>

-----------------------------------------------------------------------------
(* The properties of Input.tla and Storage.tla with their types, to be named in a .cfg *)

\* What happened to a key or a button since the last _update() can be told from its flags.
TapsVisible == In!TypeOK /\ In!TapsVisible(held)

\* What is read from a File in the reverse order of its writing is what was written, and
\* no more, after a whole Save(), a Load() and a restart too.
RoundTrip == St!RoundTrip

\* A file cut short is the beginning of what was to be there.
DiskIsPrefix == St!TypeOK /\ St!DiskIsPrefix
=============================================================================
