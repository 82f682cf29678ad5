------------------------------ MODULE FileHandles ------------------------------
(***************************************************************************)
(* The handles of the filesystem layer (filesystem.c): callers hold a slot *)
(* number and the generation the slot had when it was opened, and a call   *)
(* is served only if the slot is in use and its generation is still that   *)
(* one.  The pool of files has NumSlots = 4; the pool of listings has the  *)
(* same code and one slot.  What the handles reach is in OpenEntries.      *)
(* Refused calls change nothing and are stuttering steps.                  *)
(***************************************************************************)
EXTENDS Naturals

CONSTANTS
    NumSlots,   \* FILESYSTEM_MAX_OPEN_FILES, or FILESYSTEM_MAX_OPEN_DIRS
    GenMod,     \* generations are counted modulo this: 2^16
    Callers     \* who keeps handles

ASSUME NumSlotsAssumption == NumSlots \in Nat \ {0}
ASSUME GenModAssumption == GenMod \in Nat /\ GenMod >= 3

VARIABLES
    mounted,
    inUse,          \* inUse[s]: the slot holds an open file
    generation,     \* generation[s]: 0 only before the slot's first release or open
    handle,         \* handle[c]: what the caller kept, whether or not it is still good
    age             \* ghost: how often handle[c]'s slot has advanced since the handle was issued, up to Round

vars == <<mounted, inUse, generation, handle, age>>

Slots == 0 .. NumSlots - 1

\* A generation comes round after this many advances, because 0 is skipped.
Round == GenMod - 1

Handles == [slot : Slots, generation : 0 .. Round]

TypeOK ==
    /\ mounted \in BOOLEAN
    /\ inUse \in [Slots -> BOOLEAN]
    /\ generation \in [Slots -> 0 .. Round]
    /\ handle \in [Callers -> Handles]
    /\ age \in [Callers -> 0 .. Round]

(***************************************************************************)
(* A zero-initialised handle was never issued: its age counts as a whole   *)
(* round.                                                                  *)
(***************************************************************************)
Init ==
    /\ mounted = FALSE
    /\ inUse = [s \in Slots |-> FALSE]
    /\ generation = [s \in Slots |-> 0]
    /\ handle = [c \in Callers |-> [slot |-> 0, generation |-> 0]]
    /\ age = [c \in Callers |-> Round]

\* A counter that stops at its last value instead of coming round.
NextGenerationStops(g) == IF g = Round THEN Round ELSE g + 1

NextGeneration(g) == IF g + 1 = GenMod THEN 1 ELSE g + 1

Older(a) == IF a = Round THEN Round ELSE a + 1

\* The slot a handle resolves to (file_slot, dir_slot) is served.
Resolves(h) == h.generation # 0 /\ inUse[h.slot] /\ generation[h.slot] = h.generation

(***************************************************************************)
(* The generations of the slots in S advance, which makes every handle to  *)
(* them one advance older.                                                 *)
(***************************************************************************)
Advanced(S) == [s \in Slots |-> IF s \in S THEN NextGeneration(generation[s]) ELSE generation[s]]
Aged(S) == [c \in Callers |-> IF handle[c].slot \in S THEN Older(age[c]) ELSE age[c]]

FirstFree(s) == ~inUse[s] /\ \A r \in Slots : ~inUse[r] => s <= r

Mount == ~mounted /\ mounted' = TRUE /\ UNCHANGED <<inUse, generation, handle, age>>

(***************************************************************************)
(* filesystem_open and filesystem_opendir, where FatFs opened the object.  *)
(***************************************************************************)
Open(c) ==
    /\ mounted
    /\ \E s \in Slots :
         /\ FirstFree(s)
         /\ inUse' = [inUse EXCEPT ![s] = TRUE]
         /\ generation' = Advanced({s})
         /\ handle' = [handle EXCEPT ![c] = [slot |-> s, generation |-> generation'[s]]]
         /\ age' = [Aged({s}) EXCEPT ![c] = 0]
    /\ UNCHANGED mounted

(***************************************************************************)
(* filesystem_close and filesystem_closedir: the slot is released whatever *)
(* FatFs answered.                                                         *)
(***************************************************************************)
Close(c) ==
    /\ Resolves(handle[c])
    /\ inUse' = [inUse EXCEPT ![handle[c].slot] = FALSE]
    /\ generation' = Advanced({handle[c].slot})
    /\ age' = Aged({handle[c].slot})
    /\ UNCHANGED <<mounted, handle>>

(***************************************************************************)
(* filesystem_unmount: every slot is released, in use or not.              *)
(***************************************************************************)
Unmount ==
    /\ mounted
    /\ mounted' = FALSE
    /\ inUse' = [s \in Slots |-> FALSE]
    /\ generation' = Advanced(Slots)
    /\ age' = Aged(Slots)
    /\ UNCHANGED handle

\* Handles are values: a caller may hand one on.
Copy(c, d) ==
    /\ handle' = [handle EXCEPT ![d] = handle[c]]
    /\ age' = [age EXCEPT ![d] = age[c]]
    /\ UNCHANGED <<mounted, inUse, generation>>

Next ==
    \/ Mount
    \/ Unmount
    \/ \E c \in Callers : Open(c) \/ Close(c)
    \/ \E c, d \in Callers : Copy(c, d)

Spec == Init /\ [][Next]_vars

(***************************************************************************)
(* Over any history of opens, closes, unmounts and copies, a handle less   *)
(* than a whole round old is served exactly when nothing has happened to   *)
(* its slot since the handle was issued: a live handle is never refused,   *)
(* and a handle to a closed or unmounted file never reaches the file       *)
(* opened in the slot since.                                               *)
(***************************************************************************)
HandlesAreExact ==
    \A c \in Callers : age[c] < Round => (Resolves(handle[c]) <=> age[c] = 0)
================================================================================
