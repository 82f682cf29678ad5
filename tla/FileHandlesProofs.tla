--------------------------- MODULE FileHandlesProofs ---------------------------
(***************************************************************************)
(* Handles are exact for every pool size, generation width and set of      *)
(* callers.  The invariant relates a handle's generation to its slot's:    *)
(* they differ by the handle's age, once round or not.                     *)
(***************************************************************************)
EXTENDS FileHandles, TLAPS

\* A younger handle's generation, advanced by its age, is the slot's.
Apart(c) ==
    \/ generation[handle[c].slot] = handle[c].generation + age[c]
    \/ age[c] > 0 /\ generation[handle[c].slot] = handle[c].generation + age[c] - Round

AgesCount ==
    \A c \in Callers : age[c] < Round => handle[c].generation # 0 /\ Apart(c)

\* The slot of a handle of age 0 is still in use.
NewestInUse == \A c \in Callers : age[c] = 0 => inUse[handle[c].slot]

IInv == TypeOK /\ AgesCount /\ NewestInUse

\* The next generation is never 0 and is one further, once round or not (next_generation).
LEMMA NextGenerationEffect ==
    ASSUME NEW g \in 0 .. Round
    PROVE  /\ NextGeneration(g) \in 1 .. Round
           /\ NextGeneration(g) = g + 1 \/ (g = Round /\ NextGeneration(g) = 1)
BY GenModAssumption DEF NextGeneration, Round

\* An age stays in its range, and counts by one until it stops at Round.
LEMMA OlderEffect ==
    ASSUME NEW a \in 0 .. Round
    PROVE  /\ Older(a) \in 1 .. Round
           /\ Older(a) < Round => a < Round /\ Older(a) = a + 1
BY GenModAssumption DEF Older, Round

\* Advancing the slots in S keeps the types.
LEMMA AdvanceTypes ==
    ASSUME TypeOK, NEW S
    PROVE  Advanced(S) \in [Slots -> 0 .. Round] /\ Aged(S) \in [Callers -> 0 .. Round]
<1>1. ASSUME NEW s \in Slots
      PROVE  (IF s \in S THEN NextGeneration(generation[s]) ELSE generation[s]) \in 0 .. Round
  <2>1. generation[s] \in 0 .. Round BY DEF TypeOK
  <2>2. NextGeneration(generation[s]) \in 1 .. Round BY <2>1, NextGenerationEffect
  <2> QED BY <2>1, <2>2, GenModAssumption DEF Round
<1>2. ASSUME NEW c \in Callers
      PROVE  (IF handle[c].slot \in S THEN Older(age[c]) ELSE age[c]) \in 0 .. Round
  <2>1. age[c] \in 0 .. Round BY DEF TypeOK
  <2>2. Older(age[c]) \in 1 .. Round BY <2>1, OlderEffect
  <2> QED BY <2>1, <2>2, GenModAssumption DEF Round
<1> QED BY <1>1, <1>2, Zenon DEF Advanced, Aged

\* Advancing the slots in S keeps every handle as far from its slot as its age says.
LEMMA AdvanceKeepsAges ==
    ASSUME TypeOK, AgesCount, NEW S, NEW c \in Callers, Aged(S)[c] < Round
    PROVE  /\ handle[c].generation # 0
           /\ \/ Advanced(S)[handle[c].slot] = handle[c].generation + Aged(S)[c]
              \/ Aged(S)[c] > 0 /\ Advanced(S)[handle[c].slot] = handle[c].generation + Aged(S)[c] - Round
<1> DEFINE h == handle[c]
<1>1. h.slot \in Slots /\ h.generation \in 0 .. Round /\ age[c] \in 0 .. Round
  BY DEF TypeOK, Handles
<1>2. generation[h.slot] \in 0 .. Round BY <1>1 DEF TypeOK
<1>3. CASE h.slot \in S
  <2>1. Aged(S)[c] = Older(age[c]) /\ Advanced(S)[h.slot] = NextGeneration(generation[h.slot])
    BY <1>1, <1>3 DEF Aged, Advanced
  <2>2. age[c] < Round /\ Aged(S)[c] = age[c] + 1 BY <1>1, <2>1, OlderEffect
  <2>3. h.generation # 0 /\ Apart(c) BY <2>2 DEF AgesCount
  <2>4. \/ Advanced(S)[h.slot] = generation[h.slot] + 1
        \/ generation[h.slot] = Round /\ Advanced(S)[h.slot] = 1
    BY <1>2, <2>1, NextGenerationEffect
  <2> QED BY <1>1, <1>2, <2>2, <2>3, <2>4, GenModAssumption DEF Apart, Round
<1>4. CASE h.slot \notin S
  <2>1. Aged(S)[c] = age[c] /\ Advanced(S)[h.slot] = generation[h.slot]
    BY <1>1, <1>4 DEF Aged, Advanced
  <2> QED BY <2>1 DEF AgesCount, Apart
<1> QED BY <1>3, <1>4

\* A handle whose age is 0 after an advance was not to a slot that advanced.
LEMMA AdvancedIsOlder ==
    ASSUME TypeOK, NEW S, NEW c \in Callers, Aged(S)[c] = 0
    PROVE  handle[c].slot \notin S /\ age[c] = 0
<1>1. age[c] \in 0 .. Round BY DEF TypeOK
<1>2. Older(age[c]) # 0 BY <1>1, OlderEffect
<1> QED BY <1>2 DEF Aged

\* At the start no handle is young.
LEMMA InitCorrect == Init => IInv
<1> SUFFICES ASSUME Init PROVE IInv
  OBVIOUS
<1>1. 0 \in Slots BY NumSlotsAssumption DEF Slots
<1>2. Round \in Nat /\ Round > 0 BY GenModAssumption DEF Round
<1>3. TypeOK
  <2>1. [slot |-> 0, generation |-> 0] \in Handles BY <1>1, <1>2 DEF Handles
  <2>2. handle \in [Callers -> Handles] BY <2>1 DEF Init
  <2>3. generation \in [Slots -> 0 .. Round] /\ age \in [Callers -> 0 .. Round]
    BY <1>2 DEF Init
  <2>4. mounted \in BOOLEAN /\ inUse \in [Slots -> BOOLEAN] BY Zenon DEF Init
  <2> QED BY <2>2, <2>3, <2>4 DEF TypeOK
<1>4. \A c \in Callers : age[c] = Round BY DEF Init
<1> QED BY <1>2, <1>3, <1>4 DEF IInv, AgesCount, NewestInUse

\* Opening a file issues a handle of age 0 and ages the others of its slot.
LEMMA OpenCorrect ==
    ASSUME IInv, NEW c \in Callers, Open(c)
    PROVE  IInv'
<1> USE DEF IInv
<1>1. PICK s \in Slots :
        /\ FirstFree(s)
        /\ inUse' = [inUse EXCEPT ![s] = TRUE]
        /\ generation' = Advanced({s})
        /\ handle' = [handle EXCEPT ![c] = [slot |-> s, generation |-> generation'[s]]]
        /\ age' = [Aged({s}) EXCEPT ![c] = 0]
  BY DEF Open
<1>2. Advanced({s}) \in [Slots -> 0 .. Round] /\ Aged({s}) \in [Callers -> 0 .. Round]
  BY AdvanceTypes
<1>3. generation'[s] \in 1 .. Round
  <2>1. generation[s] \in 0 .. Round BY DEF TypeOK
  <2>2. NextGeneration(generation[s]) \in 1 .. Round BY <2>1, NextGenerationEffect
  <2> QED BY <1>1, <2>2 DEF Advanced
<1>4. [slot |-> s, generation |-> generation'[s]] \in Handles
  BY <1>3, GenModAssumption DEF Handles, Round
<1>5. 0 \in 0 .. Round BY GenModAssumption DEF Round
<1>6. TypeOK'
  <2>1. mounted' \in BOOLEAN BY DEF Open, TypeOK
  <2>2. inUse' \in [Slots -> BOOLEAN] BY <1>1, Zenon DEF TypeOK
  <2>3. generation' \in [Slots -> 0 .. Round] BY <1>1, <1>2
  <2>4. handle' \in [Callers -> Handles] BY <1>1, <1>4, Zenon DEF TypeOK
  <2>5. age' \in [Callers -> 0 .. Round] BY <1>1, <1>2, <1>5
  <2> QED BY <2>1, <2>2, <2>3, <2>4, <2>5 DEF TypeOK
<1>7. AgesCount'
  <2> SUFFICES ASSUME NEW d \in Callers, age'[d] < Round
               PROVE  handle'[d].generation # 0 /\ Apart(d)'
    BY DEF AgesCount
  <2>1. CASE d = c
    <3>1. handle'[d].slot = s /\ handle'[d].generation = generation'[s] /\ age'[d] = 0
      BY <1>1, <1>2, <2>1 DEF TypeOK
    <3> QED BY <1>3, <3>1 DEF Apart
  <2>2. CASE d # c
    <3>1. handle'[d] = handle[d] /\ age'[d] = Aged({s})[d] BY <1>1, <1>2, <2>2 DEF TypeOK
    <3>2. Aged({s})[d] < Round BY <3>1
    <3>3. /\ handle[d].generation # 0
          /\ \/ Advanced({s})[handle[d].slot] = handle[d].generation + Aged({s})[d]
             \/ Aged({s})[d] > 0 /\ Advanced({s})[handle[d].slot] = handle[d].generation + Aged({s})[d] - Round
      BY <3>2, AdvanceKeepsAges
    <3> QED BY <1>1, <3>1, <3>3 DEF Apart
  <2> QED BY <2>1, <2>2
<1>8. NewestInUse'
  <2> SUFFICES ASSUME NEW d \in Callers, age'[d] = 0
               PROVE  inUse'[handle'[d].slot]
    BY DEF NewestInUse
  <2>1. CASE d = c
    BY <1>1, <2>1 DEF TypeOK
  <2>2. CASE d # c
    <3>1. handle'[d] = handle[d] /\ Aged({s})[d] = 0 BY <1>1, <1>2, <2>2 DEF TypeOK
    <3>2. handle[d].slot # s /\ age[d] = 0 BY <3>1, AdvancedIsOlder
    <3>3. handle[d].slot \in Slots BY DEF TypeOK, Handles
    <3> QED BY <1>1, <3>1, <3>2, <3>3 DEF NewestInUse, TypeOK
  <2> QED BY <2>1, <2>2
<1> QED BY <1>6, <1>7, <1>8

\* Releasing the slots in S keeps the invariant.
LEMMA ReleaseCorrect ==
    ASSUME IInv, NEW S,
           mounted' \in BOOLEAN, inUse' \in [Slots -> BOOLEAN],
           \A s \in Slots : s \notin S => inUse'[s] = inUse[s],
           generation' = Advanced(S), age' = Aged(S), handle' = handle
    PROVE  IInv'
<1> USE DEF IInv
<1>1. Advanced(S) \in [Slots -> 0 .. Round] /\ Aged(S) \in [Callers -> 0 .. Round]
  BY AdvanceTypes
<1>2. TypeOK' BY <1>1 DEF TypeOK
<1>3. AgesCount'
  <2> SUFFICES ASSUME NEW d \in Callers, age'[d] < Round
               PROVE  handle'[d].generation # 0 /\ Apart(d)'
    BY DEF AgesCount
  <2>1. /\ handle[d].generation # 0
        /\ \/ Advanced(S)[handle[d].slot] = handle[d].generation + Aged(S)[d]
           \/ Aged(S)[d] > 0 /\ Advanced(S)[handle[d].slot] = handle[d].generation + Aged(S)[d] - Round
    BY AdvanceKeepsAges
  <2> QED BY <2>1 DEF Apart
<1>4. NewestInUse'
  <2> SUFFICES ASSUME NEW d \in Callers, age'[d] = 0
               PROVE  inUse'[handle'[d].slot]
    BY DEF NewestInUse
  <2>1. handle[d].slot \notin S /\ age[d] = 0 BY AdvancedIsOlder
  <2>2. handle[d].slot \in Slots BY DEF TypeOK, Handles
  <2> QED BY <2>1, <2>2 DEF NewestInUse
<1> QED BY <1>2, <1>3, <1>4

\* A copy is as old as what it was copied from.
LEMMA CopyCorrect ==
    ASSUME IInv, NEW c \in Callers, NEW d \in Callers, Copy(c, d)
    PROVE  IInv'
<1> USE DEF IInv
<1>1. TypeOK' BY DEF TypeOK, Copy
<1>2. \A e \in Callers : \E f \in Callers : handle'[e] = handle[f] /\ age'[e] = age[f]
  BY DEF TypeOK, Copy
<1>3. inUse' = inUse /\ generation' = generation BY DEF Copy
<1> QED BY <1>1, <1>2, <1>3 DEF AgesCount, NewestInUse, Apart

\* Every step of the filesystem layer keeps the invariant.
LEMMA NextCorrect == IInv /\ [Next]_vars => IInv'
<1> SUFFICES ASSUME IInv, [Next]_vars PROVE IInv'
  OBVIOUS
<1>1. CASE Mount
  BY <1>1 DEF Mount, IInv, TypeOK, AgesCount, NewestInUse, Apart
<1>2. CASE Unmount
  <2>1. mounted' \in BOOLEAN /\ inUse' \in [Slots -> BOOLEAN] BY <1>2, Zenon DEF Unmount
  <2>2. generation' = Advanced(Slots) /\ age' = Aged(Slots) /\ handle' = handle
    BY <1>2 DEF Unmount
  <2>3. \A s \in Slots : s \notin Slots => inUse'[s] = inUse[s] OBVIOUS
  <2> QED BY <2>1, <2>2, <2>3, ReleaseCorrect
<1>3. ASSUME NEW c \in Callers, Open(c) PROVE IInv'
  BY <1>3, OpenCorrect
<1>4. ASSUME NEW c \in Callers, Close(c) PROVE IInv'
  <2>1. inUse' \in [Slots -> BOOLEAN] BY <1>4 DEF Close, IInv, TypeOK
  <2>2. mounted' \in BOOLEAN BY <1>4 DEF Close, IInv, TypeOK
  <2>3. \A s \in Slots : s \notin {handle[c].slot} => inUse'[s] = inUse[s]
    BY <1>4 DEF Close, IInv, TypeOK
  <2>4. /\ generation' = Advanced({handle[c].slot})
        /\ age' = Aged({handle[c].slot})
        /\ handle' = handle
    BY <1>4 DEF Close
  <2> QED BY <2>1, <2>2, <2>3, <2>4, ReleaseCorrect
<1>5. ASSUME NEW c \in Callers, NEW d \in Callers, Copy(c, d) PROVE IInv'
  BY <1>5, CopyCorrect
<1>6. CASE UNCHANGED vars
  BY <1>6 DEF vars, IInv, TypeOK, AgesCount, NewestInUse, Apart
<1> QED BY <1>1, <1>2, <1>3, <1>4, <1>5, <1>6 DEF Next

\* The inductive invariant holds in every reachable state.
THEOREM InductiveInvariant == Spec => []IInv
BY InitCorrect, NextCorrect, PTL DEF Spec

\* The pool's variables keep their types (filesystem.c's slots and handles).
THEOREM HandleTypesCorrect == Spec => []TypeOK
<1>1. IInv => TypeOK BY DEF IInv
<1> QED BY <1>1, InductiveInvariant, PTL

\* A handle less than a whole round old is served exactly when its slot has not advanced since (file_slot).
THEOREM HandlesAreExactCorrect == Spec => []HandlesAreExact
<1>1. IInv => HandlesAreExact
  <2> SUFFICES ASSUME IInv, NEW c \in Callers, age[c] < Round
               PROVE  Resolves(handle[c]) <=> age[c] = 0
    BY DEF HandlesAreExact
  <2>1. handle[c].generation # 0 /\ Apart(c) BY DEF IInv, AgesCount
  <2>2. /\ handle[c].generation \in 0 .. Round
        /\ age[c] \in 0 .. Round
        /\ generation[handle[c].slot] \in 0 .. Round
    BY DEF IInv, TypeOK, Handles
  <2>3. generation[handle[c].slot] = handle[c].generation <=> age[c] = 0
    BY <2>1, <2>2, GenModAssumption DEF Apart, Round
  <2>4. age[c] = 0 => inUse[handle[c].slot] BY DEF IInv, NewestInUse
  <2> QED BY <2>1, <2>3, <2>4 DEF Resolves
<1> QED BY <1>1, InductiveInvariant, PTL
================================================================================
