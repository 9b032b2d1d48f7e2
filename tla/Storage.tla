-------------------------------- MODULE Storage --------------------------------
(***************************************************************************)
(* File (p2d.hpp:780-840): values written to it and read back by << and    *)
(* >>, which are the same as Message's (p2d.hpp:170-193; the header.size   *)
(* that those set as well is in Connection.tla), and Save() and Load().    *)
(*                                                                         *)
(* A value is the bytes it is made of.  An ofstream keeps what it is given *)
(* in a buffer, and writes that out in pieces.  Opening may fail, and so   *)
(* may a write when the device is full: nobody looks at the stream's       *)
(* state.  The program may end at any time, and start again with a new     *)
(* File.  A file that is not there is one that is empty.                   *)
(***************************************************************************)
EXTENDS Integers, Sequences, SequencesExt  \* FlattenSeq, IsPrefix, Front, Last

CONSTANTS Values,   \* what is stored
          SizeOf,   \* Value -> sizeof its type
          Paths,    \* the files
          Mixed,    \* data that is not known to be whole values
          MaxBytes  \* bound of the model: Size()

VARIABLES data,     \* data
          disk,     \* path -> the bytes of the file
          saving,   \* the call of Save() under way, and the bytes not yet written
          taken,    \* the bytes that the last >> gave
          wrapped,  \* size() - sizeof(DataType) has wrapped around
          items,    \* the values that data should be made of
          saved,    \* path -> those it should have been made of at the last Save()
          whole     \* the paths whose last Save() wrote all it had to

memory == <<items, saved, whole>>
vars   == <<data, disk, saving, taken, wrapped, memory>>

Idle == [path |-> "none", rest |-> << >>]

Bytes(v) == [i \in 1 .. SizeOf[v] |-> <<v, i>>]

\* The bytes of the values vs, one after the other
Encoded(vs) == FlattenSeq([i \in DOMAIN vs |-> Bytes(vs[i])])

Init ==
    /\ data = << >>
    /\ disk = [p \in Paths |-> << >>]
    /\ saving = Idle
    /\ taken = << >> /\ wrapped = FALSE
    /\ items = << >> /\ saved = [p \in Paths |-> << >>] /\ whole = Paths

-----------------------------------------------------------------------------
(* Faulty variants.  No specification uses them: each takes the place of the  *)
(* definition it is named after, to see that a property notices.              *)

\* std::ios::app
Truncated_Append(p) == disk

\* what was there is kept
Loaded_Appends(p) == data \o disk[p]

\* what was written first is read first
Split_FromFront(n) ==
    [kept |-> SubSeq(data, n + 1, Len(data)), read |-> SubSeq(data, 1, n)]

-----------------------------------------------------------------------------
(* << and >> *)

Put(v) ==
    /\ saving = Idle
    /\ Len(data) + SizeOf[v] <= MaxBytes
    /\ data' = data \o Bytes(v)
    /\ items' = IF items = Mixed THEN Mixed ELSE Append(items, v)
    /\ UNCHANGED <<disk, saving, taken, wrapped, saved, whole>>

\* memcpy() from data.data() + i, then resize(i), where i = size() - sizeof(DataType)
Split(n) ==
    [kept |-> SubSeq(data, 1, Len(data) - n),
     read |-> SubSeq(data, Len(data) - n + 1, Len(data))]

\* The type of a value to be read tells its size, n.  When there is less than that,
\* i wraps around, and the bytes are read from where no data is.
Take(n) ==
    /\ saving = Idle
    /\ \/ /\ n > Len(data)
          /\ wrapped' = TRUE
          /\ UNCHANGED <<data, taken, items>>
       \/ /\ n <= Len(data)
          /\ taken' = Split(n).read /\ data' = Split(n).kept
          /\ items' = IF items # Mixed /\ items # << >> /\ SizeOf[Last(items)] = n
                      THEN Front(items) ELSE Mixed
          /\ UNCHANGED wrapped
    /\ UNCHANGED <<disk, saving, saved, whole>>

-----------------------------------------------------------------------------
(* Save() and Load() *)

Truncated(p) == [disk EXCEPT ![p] = << >>]

\* The ofstream opens the file, and empties it; or it does not, and no more happens.
Save(p) ==
    /\ saving = Idle
    /\ \/ /\ disk' = Truncated(p)
          /\ saving' = [path |-> p, rest |-> data]
          /\ saved' = [saved EXCEPT ![p] = items] /\ whole' = whole \ {p}
       \/ UNCHANGED <<disk, saving, saved, whole>>
    /\ UNCHANGED <<data, taken, wrapped, items>>

\* A piece of the buffer goes to the file: at close(), all that is left.
Flush ==
    /\ saving # Idle /\ saving.rest # << >>
    /\ \E n \in 1 .. Len(saving.rest) :
          /\ disk' = [disk EXCEPT ![saving.path] = @ \o SubSeq(saving.rest, 1, n)]
          /\ saving' = [saving EXCEPT !.rest = SubSeq(@, n + 1, Len(@))]
    /\ UNCHANGED <<data, taken, wrapped, memory>>

\* close(): all is written, or the device is full
Close ==
    /\ saving # Idle
    /\ saving' = Idle
    /\ whole' = IF saving.rest = << >> THEN whole \cup {saving.path} ELSE whole
    /\ UNCHANGED <<data, disk, taken, wrapped, items, saved>>

\* The bytes of the file, in place of those of this->data
Loaded(p) == disk[p]

\* Load(): an ifstream that does not open gives no bytes.  What should be in a file is
\* what was last saved there, if all of it was written; otherwise nobody knows.
Load(p) ==
    /\ saving = Idle
    /\ \/ /\ data' = Loaded(p)
          /\ items' = IF p \in whole THEN saved[p] ELSE Mixed
       \/ data' = << >> /\ items' = << >>
    /\ UNCHANGED <<disk, saving, taken, wrapped, saved, whole>>

\* The program ends, and is started again.
Restart ==
    /\ data' = << >> /\ items' = << >>
    /\ saving' = Idle
    /\ UNCHANGED <<disk, taken, wrapped, saved, whole>>

Next ==
    /\ ~wrapped
    /\ \/ \E v \in Values : Put(v)
       \/ \E n \in {SizeOf[v] : v \in Values} : Take(n)
       \/ \E p \in Paths : Save(p) \/ Load(p)
       \/ Flush \/ Close \/ Restart

Spec == Init /\ [][Next]_vars

-----------------------------------------------------------------------------
(* Properties *)

IsBytes(s) == \A i \in DOMAIN s : s[i] \in {<<v, j>> : v \in Values, j \in 1 .. MaxBytes}

TypeOK ==
    /\ IsBytes(data) /\ Len(data) <= MaxBytes
    /\ \A p \in Paths : IsBytes(disk[p])
    /\ saving = Idle \/ (saving.path \in Paths /\ IsBytes(saving.rest))
    /\ IsBytes(taken) /\ wrapped \in BOOLEAN
    /\ items = Mixed \/ items \in Seq(Values)
    /\ \A p \in Paths : saved[p] = Mixed \/ saved[p] \in Seq(Values)
    /\ whole \subseteq Paths

\* As long as it is read in the reverse order of how it was written, each value by
\* its own type, a File gives every value back as it was, and nothing more: with all
\* read, the next >> finds no bytes and its index wraps around.  So it does when the
\* values have gone through a Save() that wrote them all, a Load() and a restart.
\* (Of values read in another order nothing is said.)
RoundTrip ==
    [][\A n \in 1 .. MaxBytes : Take(n) /\ items # Mixed =>
          /\ items = << >> => wrapped'
          /\ items # << >> /\ SizeOf[Last(items)] = n => taken' = Bytes(Last(items))]_vars

\* Wherever a Save() was cut short, what is in a file is the beginning of what was
\* to be there, and nothing of what was there before.
DiskIsPrefix ==
    \A p \in Paths : saved[p] # Mixed => IsPrefix(disk[p], Encoded(saved[p]))
=============================================================================
