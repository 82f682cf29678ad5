-------------------------- MODULE SavePointProofs --------------------------
(***************************************************************************)
(* Theorems about the save points, for every modulus, every set of record  *)
(* contents and every buffer size.  What carries them is Prepared: from    *)
(* the moment a save has chosen its slot, the other slot holds the record  *)
(* its checks settled on, and the save's number is the one after it.       *)
(***************************************************************************)
EXTENDS SavePoint, TLAPS

SlotType == Contents \cup {Nothing}
FoundType == Contents \cup {Nothing, Unreadable}

-----------------------------------------------------------------------------
(* Lemmas about slots and sequence numbers *)

\* A slot's fields have their types, and only a record holds data.
LEMMA SlotFields ==
    ASSUME NEW slot \in FoundType
    PROVE  /\ IsRecord(slot) => slot.sequence \in Sequences /\ slot.data \in Data
           /\ ~IsRecord(slot) => slot.data = NoData /\ slot \in {Nothing, Unreadable}
           /\ IsRecord(slot) => slot \in Contents
  BY DEF FoundType, Contents, Nothing, Unreadable, IsRecord

LEMMA NothingIsNoRecord == ~IsRecord(Nothing) /\ ~IsRecord(Unreadable) /\ Nothing # Unreadable
                           /\ Nothing.data = NoData /\ Unreadable.data = NoData
  BY DEF Nothing, Unreadable, IsRecord

\* The number after a number is newer than it, and not the other way round.
LEMMA AfterIsNewer ==
    ASSUME NEW s \in Sequences
    PROVE  /\ After(s) \in Sequences
           /\ Newer(After(s), s)
           /\ ~Newer(s, After(s))
  BY SeqAssumption DEF Sequences, After, Newer, Distance

\* The newest of a pair with one record is that record, of a pair with none is
\* no data.
LEMMA NewestOfOne ==
    ASSUME NEW s, s[0] \in FoundType, s[1] \in FoundType
    PROVE  /\ ~IsRecord(s[0]) => NewestData(s) = s[1].data
           /\ ~IsRecord(s[1]) => NewestData(s) = s[0].data
  <1>1. CASE ~IsRecord(s[0]) /\ ~IsRecord(s[1])
    BY <1>1, SlotFields DEF NewestData, Newest, None
  <1>2. CASE ~IsRecord(s[0]) /\ IsRecord(s[1])
    BY <1>2 DEF NewestData, Newest, None
  <1>3. CASE IsRecord(s[0]) /\ ~IsRecord(s[1])
    BY <1>3 DEF NewestData, Newest, None
  <1> QED BY <1>1, <1>2, <1>3

\* The newest of a pair is one of the two.
LEMMA NewestOfTwo ==
    ASSUME NEW s, s[0] \in FoundType, s[1] \in FoundType
    PROVE  /\ Newest(s) \in {None, 0, 1}
           /\ Newest(s) = 0 => IsRecord(s[0]) /\ NewestData(s) = s[0].data
           /\ Newest(s) = 1 => IsRecord(s[1]) /\ NewestData(s) = s[1].data
           /\ Newest(s) = None => ~IsRecord(s[0]) /\ ~IsRecord(s[1]) /\ NewestData(s) = NoData
  BY DEF NewestData, Newest, None

\* A pair of which slot t was written after the other is as new as slot t.
LEMMA WrittenIsNewest ==
    ASSUME NEW s, NEW t \in Files, s[0] \in FoundType, s[1] \in FoundType,
           IsRecord(s[t]),
           IsRecord(s[1 - t]) => s[t].sequence = After(s[1 - t].sequence)
    PROVE  NewestData(s) = s[t].data
  <1>1. CASE ~IsRecord(s[1 - t])
    BY <1>1, NewestOfOne DEF Files
  <1>2. CASE t = 0 /\ IsRecord(s[1])
    <2>1. ~Newer(s[1].sequence, s[0].sequence)
      BY <1>2, AfterIsNewer, SlotFields
    <2> QED BY <1>2, <2>1 DEF NewestData, Newest, None
  <1>3. CASE t = 1 /\ IsRecord(s[0])
    <2>1. Newer(s[1].sequence, s[0].sequence)
      BY <1>3, AfterIsNewer, SlotFields
    <2> QED BY <1>3, <2>1 DEF NewestData, Newest, None
  <1> QED BY <1>1, <1>2, <1>3 DEF Files

-----------------------------------------------------------------------------
(* The inductive invariant *)

Writing == phase \in {"open", "write", "close"}

\* The other slot holds what the checks settled on, and the number to write is
\* the one after it.
Prepared ==
    Writing =>
        /\ call = "save"
        /\ payload \in Data
        /\ NewestData(found) = slots[1 - target].data
        /\ IsRecord(slots[1 - target]) => sequence = After(slots[1 - target].sequence)

\* What has been checked has not changed since; without read errors it is what
\* the card holds.
Checked ==
    /\ phase = "check_b" => found[0] \in {slots[0], Unreadable}
    /\ phase = "check_b" /\ ~flaky => found[0] = slots[0]
    /\ phase = "open" /\ ~flaky => found[0] = slots[0] /\ found[1] = slots[1]

\* A save under way has data to save.
Saving == phase # "idle" /\ call = "save" => payload \in Data

IInv == TypeOK /\ SlotsAdjacent /\ Prepared /\ Checked /\ Saving

LEMMA SlotsHaveType ==
    ASSUME TypeOK
    PROVE  /\ slots[0] \in FoundType /\ slots[1] \in FoundType
           /\ found[0] \in FoundType /\ found[1] \in FoundType
           /\ \A i \in Files : slots[i] \in SlotType
  BY DEF TypeOK, FoundType, SlotType, Files

\* The slots after each of the two writes a save makes.
LEMMA TruncatedEffect ==
    ASSUME TypeOK
    PROVE  /\ Truncated \in [Files -> SlotType]
           /\ Truncated[target] = Nothing
           /\ Truncated[1 - target] = slots[1 - target]
           /\ NewestData(Truncated) = slots[1 - target].data
  <1>1. /\ Truncated \in [Files -> SlotType]
        /\ Truncated[target] = Nothing
        /\ Truncated[1 - target] = slots[1 - target]
    BY DEF TypeOK, Truncated, SlotType, Files
  <1>2. Truncated[0] \in FoundType /\ Truncated[1] \in FoundType
    BY <1>1 DEF SlotType, FoundType, Files
  <1>3. CASE target = 0
    BY <1>1, <1>2, <1>3, NewestOfOne, NothingIsNoRecord
  <1>4. CASE target = 1
    BY <1>1, <1>2, <1>4, NewestOfOne, NothingIsNoRecord
  <1> QED BY <1>1, <1>3, <1>4 DEF TypeOK, Files

LEMMA WrittenEffect ==
    ASSUME TypeOK, Prepared, Writing
    PROVE  /\ Written \in [Files -> SlotType]
           /\ IsRecord(Written[target]) /\ Written[target].sequence = sequence
           /\ Written[1 - target] = slots[1 - target]
           /\ NewestData(Written) = payload
  <1>1. /\ Written \in [Files -> SlotType]
        /\ IsRecord(Written[target]) /\ Written[target].sequence = sequence
        /\ Written[target].data = payload
        /\ Written[1 - target] = slots[1 - target]
    BY DEF TypeOK, Prepared, Written, SlotType, Contents, Files, IsRecord
  <1>2. Written[0] \in FoundType /\ Written[1] \in FoundType
    BY <1>1 DEF SlotType, FoundType, Files
  <1>3. target \in Files
    BY DEF TypeOK
  <1>4. NewestData(Written) = Written[target].data
    BY <1>1, <1>2, <1>3, WrittenIsNewest DEF Prepared
  <1> QED BY <1>1, <1>4

LEMMA AdjacentAround ==
    ASSUME NEW t \in Files, IsRecord(slots'[0]) /\ IsRecord(slots'[1]) =>
               slots'[t].sequence = After(slots'[1 - t].sequence)
    PROVE  SlotsAdjacent'
  BY DEF SlotsAdjacent, Files, After, IsRecord

-----------------------------------------------------------------------------
(* What a save makes of its checks *)

LEMMA TargetIsNotNewest ==
    ASSUME TypeOK, Checked, phase = "check_b",
           NEW verdict \in Verdicts(1), NEW f, f = [found EXCEPT ![1] = verdict],
           ~(f[0] = Unreadable /\ f[1] = Unreadable)
    PROVE  /\ Target(f) \in Files
           /\ f[1 - Target(f)] = slots[1 - Target(f)]
           /\ NewestData(f) = slots[1 - Target(f)].data
           /\ Newest(f) = None => ~IsRecord(slots[1 - Target(f)])
           /\ Newest(f) # None /\ IsRecord(slots[1 - Target(f)])
                => Newest(f) = 1 - Target(f)
  <1>1. f[0] \in {slots[0], Unreadable} /\ f[1] \in {slots[1], Unreadable}
    BY DEF TypeOK, Checked, Verdicts, Files
  <1>2. f[0] \in FoundType /\ f[1] \in FoundType
    BY <1>1, SlotsHaveType DEF FoundType
  <1>3. CASE f[0] = Unreadable
    <2>1. Target(f) = 0 /\ 1 - Target(f) = 1 /\ f[1] = slots[1] /\ ~IsRecord(f[0])
      BY <1>1, <1>3, NothingIsNoRecord DEF Target
    <2>2. NewestData(f) = f[1].data
      BY <1>2, <2>1, NewestOfOne
    <2> QED BY <1>2, <2>1, <2>2, NewestOfTwo DEF Files
  <1>4. CASE f[0] # Unreadable /\ f[1] = Unreadable
    <2>1. Target(f) = 1 /\ 1 - Target(f) = 0 /\ f[0] = slots[0] /\ ~IsRecord(f[1])
      BY <1>1, <1>4, NothingIsNoRecord DEF Target
    <2>2. NewestData(f) = f[0].data
      BY <1>2, <2>1, NewestOfOne
    <2> QED BY <1>2, <2>1, <2>2, NewestOfTwo DEF Files
  <1>5. CASE f[0] # Unreadable /\ f[1] # Unreadable /\ Newest(f) = 0
    <2>1. Target(f) = 1 /\ 1 - Target(f) = 0 /\ f[0] = slots[0]
      BY <1>1, <1>5 DEF Target
    <2> QED BY <1>2, <1>5, <2>1, NewestOfTwo DEF Files, None
  <1>6. CASE f[0] # Unreadable /\ f[1] # Unreadable /\ Newest(f) # 0
    <2>1. Target(f) = 0 /\ 1 - Target(f) = 1 /\ f[1] = slots[1]
      BY <1>1, <1>6 DEF Target
    <2>2. Newest(f) = None => f[1].data = NoData
      BY <1>2, NewestOfTwo, SlotFields
    <2> QED BY <1>2, <1>6, <2>1, <2>2, NewestOfTwo DEF Files, None
  <1> QED BY <1>3, <1>4, <1>5, <1>6

-----------------------------------------------------------------------------
(* The invariant holds at first and every step keeps it *)

LEMMA InitInvariant == Init => IInv
  <1> SUFFICES ASSUME Init PROVE IInv
    OBVIOUS
  <1>1. TypeOK
    BY SeqAssumption DEF Init, TypeOK, Sequences, Files
  <1>2. SlotsAdjacent
    BY NothingIsNoRecord DEF Init, SlotsAdjacent, Files
  <1>3. Prepared /\ Checked /\ Saving
    BY DEF Init, Prepared, Checked, Saving, Writing
  <1> QED BY <1>1, <1>2, <1>3 DEF IInv

LEMMA TypeStep == IInv /\ [Next]_vars => TypeOK'
  <1> SUFFICES ASSUME IInv, [Next]_vars PROVE TypeOK'
    OBVIOUS
  <1> USE DEF IInv, End, Continue
  <1>1. ASSUME NEW d \in Data, BeginSave(d) PROVE TypeOK'
    BY <1>1 DEF BeginSave, TypeOK
  <1>2. ASSUME NEW size \in Capacities, BeginRead(size) PROVE TypeOK'
    BY <1>2 DEF BeginRead, TypeOK
  <1>3. CASE CheckSlotA
    <2>1. PICK verdict \in Verdicts(0) :
              /\ found' = [found EXCEPT ![0] = verdict]
              /\ buffer' = IF call = "read" /\ Fits(verdict) THEN verdict.data ELSE buffer
      BY <1>3 DEF CheckSlotA
    <2>2. verdict \in FoundType
      BY <2>1, SlotsHaveType DEF Verdicts, FoundType
    <2>3. buffer' \in Data \cup {NoData}
      BY <2>1, <2>2, SlotFields DEF Fits, TypeOK
    <2> QED BY <1>3, <2>1, <2>2, <2>3 DEF CheckSlotA, TypeOK, FoundType, Files
  <1>4. CASE CheckSlotBToSave
    <2>1. PICK verdict \in Verdicts(1) :
              LET f == [found EXCEPT ![1] = verdict]
              IN  /\ found' = f
                  /\ \/ /\ f[0] = Unreadable /\ f[1] = Unreadable
                        /\ End("storage_error")
                        /\ UNCHANGED <<target, sequence>>
                     \/ /\ ~(f[0] = Unreadable /\ f[1] = Unreadable)
                        /\ target' = Target(f)
                        /\ sequence' = IF Newest(f) = None THEN 1 ELSE After(f[Newest(f)].sequence)
                        /\ Continue("open")
      BY <1>4 DEF CheckSlotBToSave
    <2> DEFINE f == [found EXCEPT ![1] = verdict]
    <2>2. verdict \in FoundType
      BY <2>1, SlotsHaveType DEF Verdicts, FoundType
    <2>3. f \in [Files -> FoundType]
      BY <2>2 DEF TypeOK, FoundType, Files
    <2>4. f[0] \in FoundType /\ f[1] \in FoundType
      BY <2>3 DEF Files
    <2>5. Target(f) \in Files
      BY DEF Target, Files
    <2>6. Newest(f) # None => f[Newest(f)].sequence \in Sequences
      BY <2>4, NewestOfTwo, SlotFields
    <2>7. (IF Newest(f) = None THEN 1 ELSE After(f[Newest(f)].sequence)) \in Sequences
      BY <2>6, AfterIsNewer, SeqAssumption DEF Sequences
    <2>8. found' = f /\ target' \in Files /\ sequence' \in Sequences
      BY <2>1, <2>5, <2>7 DEF TypeOK
    <2>9. /\ phase' \in {"idle", "check_a", "check_b", "open", "write", "close", "reread"}
          /\ result' \in {"ok", "not_found", "too_small", "storage_error", "failed", "write_failed"}
      BY <2>1 DEF TypeOK
    <2> HIDE DEF f
    <2> QED BY <1>4, <2>3, <2>8, <2>9 DEF CheckSlotBToSave, TypeOK, FoundType
  <1>5. CASE CheckSlotBToRead
    <2>1. PICK verdict \in Verdicts(1) :
              found' = [found EXCEPT ![1] = verdict] /\ AnswerRead([found EXCEPT ![1] = verdict])
      BY <1>5 DEF CheckSlotBToRead
    <2>2. verdict \in FoundType
      BY <2>1, SlotsHaveType DEF Verdicts, FoundType
    <2>3. /\ phase' \in {"idle", "reread"}
          /\ result' \in {"ok", "not_found", "too_small", "storage_error", "failed", "write_failed"}
      BY <2>1 DEF AnswerRead, TypeOK
    <2> QED BY <1>5, <2>1, <2>2, <2>3 DEF CheckSlotBToRead, TypeOK, FoundType, Files
  <1>6. CASE ReadSlotBAgain
    <2>1. slots[1].data \in Data \cup {NoData}
      BY SlotsHaveType, SlotFields
    <2> QED BY <1>6, <2>1 DEF ReadSlotBAgain, TypeOK
  <1>7. CASE OpenTarget
    <2>1. slots' \in {slots, Truncated}
      BY <1>7 DEF OpenTarget
    <2>2. slots' \in [Files -> SlotType]
      BY <2>1, TruncatedEffect DEF TypeOK, SlotType
    <2> QED BY <1>7, <2>2 DEF OpenTarget, TypeOK, SlotType
  <1>8. CASE WriteTarget \/ WriteFails
    BY <1>8 DEF WriteTarget, WriteFails, TypeOK
  <1>9. CASE CloseTarget
    <2>1. slots' \in {slots, Written}
      BY <1>9 DEF CloseTarget
    <2>2. slots' \in [Files -> SlotType]
      BY <1>9, <2>1, WrittenEffect DEF CloseTarget, Writing, TypeOK, SlotType
    <2> QED BY <1>9, <2>2 DEF CloseTarget, TypeOK, SlotType
  <1>10. CASE Interrupted
    <2>1. \/ slots' = slots
          \/ slots' = Truncated
          \/ phase = "close" /\ slots' = Written
      BY <1>10 DEF Interrupted
    <2>2. slots' \in [Files -> SlotType]
      BY <2>1, TruncatedEffect, WrittenEffect DEF Writing, TypeOK, SlotType
    <2> QED BY <1>10, <2>2 DEF Interrupted, TypeOK, SlotType
  <1>11. CASE UNCHANGED vars
    BY <1>11 DEF vars, TypeOK
  <1> QED BY <1>1, <1>2, <1>3, <1>4, <1>5, <1>6, <1>7, <1>8, <1>9, <1>10, <1>11 DEF Next

\* The card is touched in three ways only.
LEMMA SlotsStep ==
    ASSUME IInv, [Next]_vars
    PROVE  \/ slots' = slots
           \/ phase = "open" /\ slots' = Truncated /\ UNCHANGED <<found, payload, call>>
           \/ phase = "close" /\ slots' = Written /\ UNCHANGED <<found, payload, call>>
  BY DEF Next, vars, BeginSave, BeginRead, CheckSlotA, CheckSlotBToSave, CheckSlotBToRead,
         ReadSlotBAgain, OpenTarget, WriteTarget, WriteFails, CloseTarget, Interrupted

LEMMA AdjacentStep == IInv /\ [Next]_vars => SlotsAdjacent'
  <1> SUFFICES ASSUME IInv, [Next]_vars PROVE SlotsAdjacent'
    OBVIOUS
  <1>0. target \in Files
    BY DEF IInv, TypeOK
  <1>1. CASE slots' = slots
    BY <1>1 DEF IInv, SlotsAdjacent
  <1>2. CASE slots' = Truncated
    <2>1. ~IsRecord(slots'[target])
      BY <1>2, TruncatedEffect, NothingIsNoRecord DEF IInv
    <2> QED BY <1>0, <2>1 DEF SlotsAdjacent, Files
  <1>3. CASE phase = "close" /\ slots' = Written
    <2>1. IsRecord(slots'[1 - target]) => slots'[target].sequence = After(slots'[1 - target].sequence)
      BY <1>3, WrittenEffect DEF IInv, Prepared, Writing
    <2> QED BY <1>0, <2>1, AdjacentAround DEF Files
  <1> QED BY <1>1, <1>2, <1>3, SlotsStep

\* A write keeps the other slot, and so what was prepared.
LEMMA PreparedKept ==
    ASSUME IInv, Writing, UNCHANGED <<call, found, payload, target, sequence>>,
           slots' = slots \/ slots' = Truncated
    PROVE  Prepared'
  <1>1. slots'[1 - target] = slots[1 - target]
    BY TruncatedEffect DEF IInv
  <1>2. NewestData(found)' = NewestData(found)
    BY DEF NewestData, Newest
  <1> QED BY <1>1, <1>2 DEF IInv, Prepared

LEMMA PreparedStep == IInv /\ [Next]_vars => Prepared'
  <1> SUFFICES ASSUME IInv, [Next]_vars PROVE Prepared'
    OBVIOUS
  <1> USE DEF End, Continue
  <1>1. CASE \E d \in Data : BeginSave(d)
    BY <1>1 DEF BeginSave, Prepared, Writing
  <1>2. CASE \E size \in Capacities : BeginRead(size)
    BY <1>2 DEF BeginRead, Prepared, Writing
  <1>3. CASE CheckSlotA
    BY <1>3 DEF CheckSlotA, Prepared, Writing
  <1>4. CASE CheckSlotBToSave
    <2> SUFFICES ASSUME phase' = "open" PROVE Prepared'
      BY <1>4 DEF CheckSlotBToSave, Prepared, Writing
    <2>1. PICK verdict \in Verdicts(1) :
              LET f == [found EXCEPT ![1] = verdict]
              IN  /\ found' = f
                  /\ ~(f[0] = Unreadable /\ f[1] = Unreadable)
                  /\ target' = Target(f)
                  /\ sequence' = IF Newest(f) = None THEN 1 ELSE After(f[Newest(f)].sequence)
      BY <1>4 DEF CheckSlotBToSave
    <2> DEFINE f == [found EXCEPT ![1] = verdict]
    <2>2. /\ f[1 - Target(f)] = slots[1 - Target(f)]
          /\ NewestData(f) = slots[1 - Target(f)].data
          /\ Newest(f) = None => ~IsRecord(slots[1 - Target(f)])
          /\ Newest(f) # None /\ IsRecord(slots[1 - Target(f)]) => Newest(f) = 1 - Target(f)
      BY <1>4, <2>1, TargetIsNotNewest DEF CheckSlotBToSave, IInv
    <2>3. IsRecord(slots[1 - Target(f)]) =>
              sequence' = After(slots[1 - Target(f)].sequence)
      BY <2>1, <2>2
    <2>4. NewestData(found)' = NewestData(f)
      BY <2>1 DEF NewestData, Newest
    <2>5. slots' = slots /\ target' = Target(f) /\ call' = "save" /\ payload' \in Data
      BY <1>4, <2>1 DEF CheckSlotBToSave, IInv, Saving
    <2> HIDE DEF f
    <2> QED BY <2>2, <2>3, <2>4, <2>5 DEF Prepared
  <1>5. CASE CheckSlotBToRead
    BY <1>5 DEF CheckSlotBToRead, AnswerRead, Prepared, Writing
  <1>6. CASE ReadSlotBAgain
    BY <1>6 DEF ReadSlotBAgain, Prepared, Writing
  <1>7. CASE OpenTarget
    BY <1>7, PreparedKept DEF OpenTarget, Writing
  <1>8. CASE WriteTarget \/ WriteFails
    BY <1>8, PreparedKept DEF WriteTarget, WriteFails, Writing
  <1>9. CASE CloseTarget \/ Interrupted
    BY <1>9 DEF CloseTarget, Interrupted, Prepared, Writing
  <1>10. CASE UNCHANGED vars
    BY <1>10 DEF vars, IInv, Prepared, Writing, NewestData, Newest
  <1> QED BY <1>1, <1>2, <1>3, <1>4, <1>5, <1>6, <1>7, <1>8, <1>9, <1>10 DEF Next

LEMMA CheckedStep == IInv /\ [Next]_vars => (Checked /\ Saving)'
  <1> SUFFICES ASSUME IInv, [Next]_vars PROVE (Checked /\ Saving)'
    OBVIOUS
  <1> USE DEF End, Continue, Checked, Saving
  <1>1. CASE \E d \in Data : BeginSave(d)
    BY <1>1 DEF BeginSave
  <1>2. CASE \E size \in Capacities : BeginRead(size)
    BY <1>2 DEF BeginRead
  <1>3. CASE CheckSlotA
    BY <1>3 DEF CheckSlotA, Verdicts, IInv, TypeOK, Files
  <1>4. CASE CheckSlotBToSave
    BY <1>4 DEF CheckSlotBToSave, Verdicts, IInv, TypeOK, Files
  <1>5. CASE CheckSlotBToRead
    BY <1>5 DEF CheckSlotBToRead, AnswerRead
  <1>6. CASE ReadSlotBAgain
    BY <1>6 DEF ReadSlotBAgain, IInv
  <1>7. CASE OpenTarget \/ CloseTarget
    BY <1>7 DEF OpenTarget, CloseTarget, IInv
  <1>8. CASE WriteTarget \/ WriteFails \/ Interrupted
    BY <1>8 DEF WriteTarget, WriteFails, Interrupted, IInv
  <1>9. CASE UNCHANGED vars
    BY <1>9 DEF vars, IInv
  <1> QED BY <1>1, <1>2, <1>3, <1>4, <1>5, <1>6, <1>7, <1>8, <1>9 DEF Next

\* The inductive invariant behind the results below.
THEOREM InductiveInvariant == Spec => []IInv
  <1>1. IInv /\ [Next]_vars => IInv'
    BY TypeStep, AdjacentStep, PreparedStep, CheckedStep DEF IInv
  <1> QED BY <1>1, InitInvariant, PTL DEF Spec

-----------------------------------------------------------------------------
(* Results *)

\* Every variable keeps its type.
THEOREM TypeCorrect == Spec => []TypeOK
  <1>1. IInv => TypeOK
    BY DEF IInv
  <1> QED BY <1>1, InductiveInvariant, PTL

\* Two records on the card are always one save apart (newest_slot).
THEOREM AdjacentCorrect == Spec => []SlotsAdjacent
  <1>1. IInv => SlotsAdjacent
    BY DEF IInv
  <1> QED BY <1>1, InductiveInvariant, PTL

\* What the card holds changes only inside a save, to the data saved or to the
\* newest record its checks could read (save_point_write).
THEOREM CardChangesCorrect == Spec => CardChangesOnlyAsSaved
  <1>1. IInv /\ [Next]_vars =>
            [OnCard' # OnCard => call = "save" /\ OnCard' \in {payload, NewestData(found)}]_vars
    <2> SUFFICES ASSUME IInv, [Next]_vars, OnCard' # OnCard
                 PROVE  call = "save" /\ OnCard' \in {payload, NewestData(found)}
      OBVIOUS
    <2>1. CASE slots' = slots
      BY <2>1 DEF OnCard, NewestData, Newest
    <2>2. CASE phase = "open" /\ slots' = Truncated
      <3>1. OnCard' = NewestData(Truncated)
        BY <2>2 DEF OnCard, NewestData, Newest
      <3> QED BY <2>2, <3>1, TruncatedEffect DEF IInv, Prepared, Writing
    <2>3. CASE phase = "close" /\ slots' = Written
      <3>1. OnCard' = NewestData(Written)
        BY <2>3 DEF OnCard, NewestData, Newest
      <3> QED BY <2>3, <3>1, WrittenEffect DEF IInv, Prepared, Writing
    <2> QED BY <2>1, <2>2, <2>3, SlotsStep
  <1> QED BY <1>1, InductiveInvariant, PTL DEF Spec, CardChangesOnlyAsSaved

-----------------------------------------------------------------------------
(* The refinement.  A read relies on two more facts: slot a's data is in the
   buffer once it has been checked, and slot b is read again only when it is
   the newest. *)

Reading ==
    /\ phase = "check_b" /\ call = "read" /\ Fits(found[0]) => buffer = found[0].data
    /\ phase = "reread" =>
           /\ call = "read"
           /\ Newest(found) = 1 /\ IsRecord(slots[1])
           /\ found[1] = slots[1] /\ found[0] \in {slots[0], Unreadable}
           /\ ~flaky => OnCard = slots[1].data

LEMMA OnCardKept == slots' = slots => OnCard' = OnCard
  BY DEF OnCard, NewestData, Newest

LEMMA OnCardWritten ==
    /\ slots' = Truncated => OnCard' = NewestData(Truncated)
    /\ slots' = Written => OnCard' = NewestData(Written)
  BY DEF OnCard, NewestData, Newest

\* Without read errors the checks find what the card holds.
LEMMA FoundIsSlots ==
    ASSUME ~flaky, IInv, phase = "check_b", NEW verdict \in Verdicts(1)
    PROVE  [found EXCEPT ![1] = verdict] = slots
  <1>1. verdict = slots[1] /\ found[0] = slots[0]
    BY DEF Verdicts, IInv, Checked
  <1>2. slots \in [Files -> SlotType] /\ found \in [Files -> FoundType]
    BY DEF IInv, TypeOK, SlotType, FoundType
  <1> QED BY <1>1, <1>2 DEF Files

LEMMA ReadingStep == IInv /\ Reading /\ [Next]_vars => Reading'
  <1> SUFFICES ASSUME IInv, Reading, [Next]_vars PROVE Reading'
    OBVIOUS
  <1> USE DEF End, Continue
  <1>1. CASE (\E d \in Data : BeginSave(d)) \/ (\E size \in Capacities : BeginRead(size))
    BY <1>1 DEF BeginSave, BeginRead, Reading
  <1>2. CASE CheckSlotA
    BY <1>2, SlotsHaveType DEF CheckSlotA, Reading, Fits, IInv, TypeOK, Files
  <1>3. CASE CheckSlotBToSave
    BY <1>3 DEF CheckSlotBToSave, Reading
  <1>4. CASE CheckSlotBToRead
    <2> SUFFICES ASSUME phase' = "reread" PROVE Reading'
      BY <1>4 DEF CheckSlotBToRead, AnswerRead, Reading
    <2>1. PICK verdict \in Verdicts(1) :
              found' = [found EXCEPT ![1] = verdict] /\ AnswerRead([found EXCEPT ![1] = verdict])
      BY <1>4 DEF CheckSlotBToRead
    <2> DEFINE f == [found EXCEPT ![1] = verdict]
    <2>2. Newest(f) = 1 /\ Fits(f[1])
      BY <2>1 DEF AnswerRead
    <2>3. f[1] = verdict
      BY DEF IInv, TypeOK, Files
    <2>4. IsRecord(slots[1])
      BY <2>2, <2>3, NothingIsNoRecord DEF Verdicts, Fits
    <2>5. ASSUME ~flaky PROVE OnCard = slots[1].data
      <3>1. f = slots
        BY <1>4, <2>5, FoundIsSlots DEF CheckSlotBToRead
      <3>2. Newest(slots) = 1
        BY <2>2, <3>1
      <3> QED BY <3>2 DEF OnCard, NewestData, None
    <2>6. f[1] = slots[1] /\ f[0] \in {slots[0], Unreadable}
      BY <1>4, <2>2, <2>3, NothingIsNoRecord DEF Verdicts, Fits, CheckSlotBToRead, IInv, TypeOK, Checked, Files
    <2>7. /\ found'[1] = slots'[1] /\ found'[0] \in {slots'[0], Unreadable} /\ Newest(found)' = 1
          /\ call' = "read" /\ flaky' = flaky /\ slots' = slots
      BY <1>4, <2>1, <2>2, <2>6 DEF CheckSlotBToRead, Newest
    <2> HIDE DEF f
    <2> QED BY <1>4, <2>4, <2>5, <2>7, OnCardKept DEF CheckSlotBToRead, Reading
  <1>5. CASE ReadSlotBAgain \/ OpenTarget \/ WriteTarget \/ WriteFails \/ CloseTarget \/ Interrupted
    BY <1>5 DEF ReadSlotBAgain, OpenTarget, WriteTarget, WriteFails, CloseTarget, Interrupted, Reading
  <1>6. CASE UNCHANGED vars
    BY <1>6, OnCardKept DEF vars, Reading, Fits, Newest
  <1> QED BY <1>1, <1>2, <1>3, <1>4, <1>5, <1>6 DEF Next

\* Whatever the checks found, a card whose checks found no record and nothing
\* unreadable holds none, and one that answers has answered with a record.
LEMMA ReadVerdicts ==
    ASSUME IInv, Reading, phase = "check_b", call = "read", NEW verdict \in Verdicts(1), NEW f,
           f = [found EXCEPT ![1] = verdict]
    PROVE  /\ f[0] \in FoundType /\ f[1] \in FoundType
           /\ Newest(f) \in {None, 0, 1}
           /\ Newest(f) = None /\ Unreadable \notin {f[0], f[1]} => OnCard = NoData
           /\ Newest(f) = 0 /\ Fits(f[0]) => buffer \in Data /\ (~flaky => buffer = OnCard)
  <1>1. /\ f[0] = found[0] /\ f[1] = verdict
        /\ f[0] \in {slots[0], Unreadable} /\ f[1] \in {slots[1], Unreadable}
    BY DEF IInv, TypeOK, Checked, Verdicts, Files
  <1>2. f[0] \in FoundType /\ f[1] \in FoundType
    BY <1>1, SlotsHaveType DEF FoundType, IInv
  <1>3. Newest(f) \in {None, 0, 1}
    BY <1>2, NewestOfTwo
  <1>4. ASSUME Newest(f) = None, Unreadable \notin {f[0], f[1]} PROVE OnCard = NoData
    <2>1. slots[0] = f[0] /\ slots[1] = f[1]
      BY <1>1, <1>4
    <2>2. ~IsRecord(slots[0]) /\ ~IsRecord(slots[1])
      BY <1>2, <1>4, <2>1, NewestOfTwo
    <2> QED BY <2>2 DEF OnCard, NewestData, Newest, None
  <1>5. ASSUME Newest(f) = 0, Fits(f[0]) PROVE buffer \in Data /\ (~flaky => buffer = OnCard)
    <2>1. buffer = f[0].data
      BY <1>1, <1>5 DEF Reading
    <2>2. buffer \in Data
      BY <1>2, <1>5, <2>1, SlotFields DEF Fits
    <2>3. ASSUME ~flaky PROVE buffer = OnCard
      <3>1. f = slots
        BY <2>3, FoundIsSlots
      <3>2. Newest(slots) = 0 /\ buffer = slots[0].data
        BY <1>5, <2>1, <3>1
      <3> QED BY <3>2 DEF OnCard, NewestData, None
    <2> QED BY <2>2, <2>3
  <1> QED BY <1>2, <1>3, <1>4, <1>5

\* What is on the card is a record's contents, or none.
LEMMA OnCardType == IInv => OnCard \in Data \cup {NoData}
  <1> SUFFICES ASSUME IInv PROVE OnCard \in Data \cup {NoData}
    OBVIOUS
  <1> QED BY SlotsHaveType, NewestOfTwo, SlotFields DEF IInv, OnCard

\* A truncation costs the record only on a flaky card.
LEMMA TruncatedIsDisturbed ==
    ASSUME IInv, phase = "open"
    PROVE  NewestData(Truncated) \in Atomic!Before
  <1>1. NewestData(Truncated) = NewestData(found) /\ NewestData(Truncated) \in Data \cup {NoData}
    BY TruncatedEffect, SlotsHaveType, SlotFields DEF IInv, Prepared, Writing, TypeOK, Files
  <1>2. ~flaky => NewestData(found) = OnCard
    BY DEF IInv, Checked, OnCard, NewestData, Newest
  <1> QED BY <1>1, <1>2 DEF Atomic!Before

\* A save whose checks end goes on to write, or finds that it cannot.
LEMMA AnyEndOfChecks ==
    ASSUME CheckSlotBToSave
    PROVE  (phase' = "open" /\ result' = result) \/ (phase' = "idle" /\ result' = "storage_error")
  <1>1. PICK verdict \in Verdicts(1) :
            LET f == [found EXCEPT ![1] = verdict]
            IN  /\ found' = f
                /\ \/ /\ f[0] = Unreadable /\ f[1] = Unreadable
                      /\ End("storage_error")
                      /\ UNCHANGED <<target, sequence>>
                   \/ /\ ~(f[0] = Unreadable /\ f[1] = Unreadable)
                      /\ target' = Target(f)
                      /\ sequence' = IF Newest(f) = None THEN 1 ELSE After(f[Newest(f)].sequence)
                      /\ Continue("open")
    BY DEF CheckSlotBToSave
  <1>2. End("storage_error") \/ Continue("open")
    BY <1>1, Zenon
  <1> QED BY <1>2 DEF End, Continue

LEMMA StepIsAtomic ==
    IInv /\ Reading /\ [Next]_vars => [Atomic!RNext]_(Atomic!record)
  <1> SUFFICES ASSUME IInv, Reading, [Next]_vars
               PROVE  [Atomic!RNext]_(Atomic!record)
    OBVIOUS
  <1> USE DEF End, Continue, Report
  <1>0. payload \in Data => payload # NoData
    BY DataAssumption
  <1>1. ASSUME NEW d \in Data, BeginSave(d) PROVE Atomic!Begin(d)
    BY <1>1, OnCardKept DEF BeginSave, Atomic!Begin, Atomic!Idle
  <1>2. ASSUME NEW size \in Capacities, BeginRead(size) PROVE Atomic!Begin(NoData)
    BY <1>2, OnCardKept DEF BeginRead, Atomic!Begin, Atomic!Idle
  <1>3. CASE CheckSlotA
    BY <1>3, OnCardKept DEF CheckSlotA, Atomic!record
  <1>4. CASE CheckSlotBToSave
    <2>1. /\ phase = "check_b" /\ call = "save" /\ call' = "save" /\ payload' = payload /\ payload # NoData
          /\ OnCard' = OnCard /\ flaky' = flaky
      BY <1>0, <1>4, OnCardKept DEF CheckSlotBToSave, IInv, Saving
    <2>2. (phase' = "open" /\ result' = result) \/ (phase' = "idle" /\ result' = "storage_error")
      BY <1>4, AnyEndOfChecks
    <2>3. OnCard \in Atomic!Before
      BY OnCardType DEF Atomic!Before
    <2> QED BY <2>1, <2>2, <2>3 DEF Atomic!record, Atomic!RNext, Atomic!Fail, Atomic!Ended, Atomic!Idle
  <1>5. CASE CheckSlotBToRead
    <2>1. PICK verdict \in Verdicts(1) :
              found' = [found EXCEPT ![1] = verdict] /\ AnswerRead([found EXCEPT ![1] = verdict])
      BY <1>5 DEF CheckSlotBToRead
    <2> DEFINE f == [found EXCEPT ![1] = verdict]
    <2>2. AnswerRead(f)
      BY <2>1
    <2>3. /\ phase = "check_b" /\ call = "read" /\ call' = "read" /\ OnCard' = OnCard
          /\ buffer' = buffer /\ flaky' = flaky
      BY <1>5, OnCardKept DEF CheckSlotBToRead
    <2>4. /\ Newest(f) = None /\ Unreadable \notin {f[0], f[1]} => OnCard = NoData
          /\ Newest(f) = 0 /\ Fits(f[0]) => buffer \in Data /\ (~flaky => buffer = OnCard)
      BY <2>3, ReadVerdicts
    <2> HIDE DEF f
    <2>5. CASE phase' = "idle" /\ result' \in {"storage_error", "too_small"}
      BY <2>3, <2>5 DEF Atomic!RNext, Atomic!GiveUpReading, Atomic!Ended, Atomic!Idle
    <2>6. CASE phase' = "idle" /\ result' = "not_found"
      <3>1. OnCard = NoData
        BY <2>2, <2>4, <2>6 DEF AnswerRead
      <3> QED BY <2>3, <2>6, <3>1 DEF Atomic!RNext, Atomic!Answer, Atomic!Ended, Atomic!Idle
    <2>7. CASE phase' = "idle" /\ result' = "ok"
      <3>1. buffer \in Data /\ (~flaky => buffer = OnCard)
        BY <2>2, <2>4, <2>7 DEF AnswerRead
      <3> QED BY <2>3, <2>7, <3>1 DEF Atomic!RNext, Atomic!Answer, Atomic!Ended, Atomic!Idle
    <2>8. CASE phase' = "reread" /\ result' = result
      BY <2>3, <2>8 DEF Atomic!record
    <2> QED BY <2>2, <2>5, <2>6, <2>7, <2>8 DEF AnswerRead
  <1>6. CASE ReadSlotBAgain
    <2>1. call = "read" /\ call' = "read" /\ OnCard' = OnCard /\ flaky' = flaky /\ phase' = "idle" /\ phase = "reread"
      BY <1>6, OnCardKept DEF ReadSlotBAgain, Reading
    <2>2. CASE result' = "ok" /\ buffer' = slots[1].data
      <3>1. buffer' \in Data /\ (~flaky => buffer' = OnCard)
        BY <2>1, <2>2, SlotsHaveType, SlotFields DEF Reading, IInv
      <3> QED BY <2>1, <2>2, <3>1 DEF Atomic!RNext, Atomic!Answer, Atomic!Ended, Atomic!Idle
    <2>3. CASE result' = "storage_error"
      BY <2>1, <2>3 DEF Atomic!RNext, Atomic!GiveUpReading, Atomic!Ended, Atomic!Idle
    <2> QED BY <1>6, <2>2, <2>3 DEF ReadSlotBAgain
  <1>7. CASE OpenTarget
    <2>1. /\ call = "save" /\ call' = "save" /\ payload' = payload /\ payload # NoData
          /\ phase = "open" /\ flaky' = flaky
      BY <1>7, <1>0 DEF OpenTarget, IInv, Prepared, Writing
    <2>2. OnCard' \in Atomic!Before
      BY <1>7, <2>1, TruncatedIsDisturbed, OnCardType, OnCardKept, OnCardWritten
      DEF OpenTarget, Atomic!Before
    <2>3. CASE phase' = "write" /\ result' = result
      BY <2>1, <2>2, <2>3 DEF Atomic!RNext, Atomic!Disturb
    <2>4. CASE phase' = "idle" /\ result' = "write_failed"
      BY <2>1, <2>2, <2>4 DEF Atomic!RNext, Atomic!Fail, Atomic!Ended, Atomic!Idle
    <2> QED BY <1>7, <2>3, <2>4 DEF OpenTarget
  <1>8. CASE WriteTarget
    BY <1>8, OnCardKept DEF WriteTarget, Atomic!record
  <1>9. CASE WriteFails
    <2>1. OnCard \in Atomic!Before
      BY OnCardType DEF Atomic!Before
    <2> QED BY <1>9, <1>0, <2>1, OnCardKept
            DEF WriteFails, IInv, Prepared, Writing, Atomic!RNext, Atomic!Fail, Atomic!Ended, Atomic!Idle
  <1>10. CASE CloseTarget
    <2>1. /\ call = "save" /\ call' = "save" /\ payload' = payload /\ payload # NoData
          /\ phase = "close" /\ phase' = "idle" /\ flaky' = flaky /\ NewestData(Written) = payload
      BY <1>10, <1>0, WrittenEffect DEF CloseTarget, IInv, Prepared, Writing
    <2>2. OnCard \in Atomic!Before
      BY OnCardType DEF Atomic!Before
    <2>3. CASE slots' = Written /\ result' = "ok"
      BY <2>1, <2>3, OnCardWritten DEF Atomic!RNext, Atomic!Succeed, Atomic!Ended, Atomic!Idle
    <2>4. CASE slots' \in {slots, Written} /\ result' = "write_failed"
      BY <2>1, <2>2, <2>4, OnCardKept, OnCardWritten
      DEF Atomic!RNext, Atomic!Fail, Atomic!Ended, Atomic!Idle
    <2> QED BY <1>10, <2>3, <2>4 DEF CloseTarget
  <1>11. CASE Interrupted /\ call = "save"
    <2>1. payload # NoData
      BY <1>11, <1>0 DEF Interrupted, IInv, Saving
    <2>2. OnCard \in Atomic!Before
      BY OnCardType DEF Atomic!Before
    <2>3. phase = "close" => NewestData(Written) = payload
      BY WrittenEffect DEF IInv, Writing
    <2>4. OnCard' \in Atomic!Before \cup {payload}
      BY <1>11, <2>2, <2>3, TruncatedIsDisturbed, OnCardKept, OnCardWritten DEF Interrupted
    <2>5. /\ phase # "idle" /\ phase' = "idle" /\ result' # "ok" /\ call' = "save"
          /\ payload' = payload /\ flaky' = flaky
      BY <1>11 DEF Interrupted
    <2> QED BY <1>11, <2>1, <2>4, <2>5 DEF Atomic!RNext, Atomic!Fail, Atomic!Ended, Atomic!Idle
  <1>12. CASE Interrupted /\ call # "save"
    <2>1. slots' = slots /\ call' = "read" /\ call = "read" /\ flaky' = flaky
      BY <1>12 DEF Interrupted, IInv, Prepared, Writing, TypeOK
    <2>2. phase # "idle" /\ phase' = "idle" /\ result' \notin {"ok", "not_found"}
      BY <1>12 DEF Interrupted
    <2> QED BY <2>1, <2>2, OnCardKept
            DEF Atomic!RNext, Atomic!GiveUpReading, Atomic!Ended, Atomic!Idle
  <1>13. CASE UNCHANGED vars
    BY <1>13, OnCardKept DEF vars, Atomic!record
  <1> QED
    BY <1>1, <1>2, <1>3, <1>4, <1>5, <1>6, <1>7, <1>8, <1>9, <1>10, <1>11, <1>12, <1>13
    DEF Next, Atomic!RNext

\* The two slots implement one record: with atomic saves on a card that reads
\* without errors, and on a flaky one with what AtomicRecord leaves of that
\* (save_point_write, save_point_read).
THEOREM ImplementsAtomicRecordCorrect == Spec => ImplementsAtomicRecord
  <1>1. Init => Atomic!RInit /\ Reading
    BY NothingIsNoRecord
    DEF Init, Atomic!RInit, Reading, Report, OnCard, NewestData, Newest, Files
  <1>2. IInv /\ Reading /\ [Next]_vars => Reading'
    BY ReadingStep
  <1>3. IInv /\ Reading /\ [Next]_vars => [Atomic!RNext]_(Atomic!record)
    BY StepIsAtomic
  <1> QED BY <1>1, <1>2, <1>3, InductiveInvariant, PTL DEF Spec, ImplementsAtomicRecord, Atomic!RSpec

-----------------------------------------------------------------------------
(* Honest results.  A save's was made true by its last step; a read's follows
   from what its checks found. *)

HInv == IInv /\ Reading /\ ResultsAreHonest

LEMMA HonestStep == HInv /\ [Next]_vars => ResultsAreHonest'
  <1> SUFFICES ASSUME HInv, [Next]_vars PROVE ResultsAreHonest'
    OBVIOUS
  <1> USE DEF End, Continue, HInv, ResultsAreHonest, SaveIsHonest, ReadIsHonest
  <1>1. CASE (\E d \in Data : BeginSave(d)) \/ (\E size \in Capacities : BeginRead(size))
    BY <1>1 DEF BeginSave, BeginRead
  <1>2. CASE CheckSlotA
    BY <1>2 DEF CheckSlotA
  <1>3. CASE CheckSlotBToSave
    BY <1>3 DEF CheckSlotBToSave
  <1>4. CASE CheckSlotBToRead
    <2>1. PICK verdict \in Verdicts(1) :
              found' = [found EXCEPT ![1] = verdict] /\ AnswerRead([found EXCEPT ![1] = verdict])
      BY <1>4 DEF CheckSlotBToRead
    <2> DEFINE f == [found EXCEPT ![1] = verdict]
    <2>2. found' = f /\ AnswerRead(f)
      BY <2>1
    <2>3. /\ phase = "check_b" /\ call = "read" /\ call' = "read" /\ OnCard' = OnCard
          /\ buffer' = buffer /\ slots' = slots
      BY <1>4, OnCardKept DEF CheckSlotBToRead
    <2>4. /\ f[0] \in {slots[0], Unreadable} /\ f[1] \in {slots[1], Unreadable}
          /\ f[0] = found[0]
      BY <2>3 DEF IInv, TypeOK, Checked, Verdicts, Files
    <2>5. /\ Newest(f) = None /\ Unreadable \notin {f[0], f[1]} => OnCard = NoData
          /\ Newest(f) = 0 /\ Fits(f[0]) => buffer \in Data
      BY <2>3, ReadVerdicts
    <2> HIDE DEF f
    <2>6. ASSUME phase' = "idle", result' = "ok" PROVE buffer = NewestData(f) /\ buffer # NoData
      <3>1. Newest(f) = 0 /\ Fits(f[0])
        BY <2>2, <2>6 DEF AnswerRead
      <3>2. buffer = f[0].data
        BY <2>3, <2>4, <3>1 DEF Reading
      <3> QED BY <2>5, <3>1, <3>2, DataAssumption DEF NewestData, None
    <2>7. phase' = "idle" /\ result' = "not_found" => OnCard' = NoData
      BY <2>2, <2>3, <2>5 DEF AnswerRead
    <2>8. NewestData(found)' = NewestData(f)
      BY <2>2 DEF NewestData, Newest
    <2> QED BY <2>2, <2>3, <2>4, <2>6, <2>7, <2>8 DEF Files
  <1>5. CASE ReadSlotBAgain
    <2> SUFFICES ASSUME result' = "ok" PROVE ResultsAreHonest'
      BY <1>5 DEF ReadSlotBAgain, Reading
    <2>1. /\ slots' = slots /\ found' = found /\ buffer' = slots[1].data /\ call' = "read"
          /\ Newest(found) = 1 /\ IsRecord(slots[1]) /\ found[1] = slots[1]
          /\ found[0] \in {slots[0], Unreadable}
      BY <1>5 DEF ReadSlotBAgain, Reading
    <2>2. buffer' = NewestData(found)' /\ buffer' # NoData
      BY <2>1, SlotsHaveType, SlotFields, DataAssumption DEF NewestData, Newest, None, IInv
    <2> QED BY <2>1, <2>2 DEF Files
  <1>6. CASE OpenTarget \/ WriteTarget \/ WriteFails
    BY <1>6 DEF OpenTarget, WriteTarget, WriteFails, IInv, Prepared, Writing
  <1>7. CASE CloseTarget
    BY <1>7, WrittenEffect, OnCardWritten DEF CloseTarget, IInv, Prepared, Writing
  <1>8. CASE Interrupted
    BY <1>8 DEF Interrupted
  <1>9. CASE UNCHANGED vars
    BY <1>9, OnCardKept DEF vars, NewestData, Newest
  <1> QED BY <1>1, <1>2, <1>3, <1>4, <1>5, <1>6, <1>7, <1>8, <1>9 DEF Next

\* OK from a save means that a read of the card returns what was saved; OK from a
\* read means that the buffer holds the newest record that could be read, and
\* NOT_FOUND that there is none (save_point_write, save_point_read).
THEOREM ResultsCorrect == Spec => []ResultsAreHonest
  <1>1. Init => Reading /\ ResultsAreHonest
    BY DEF Init, Reading, ResultsAreHonest, SaveIsHonest, ReadIsHonest
  <1>2. HInv /\ [Next]_vars => Reading'
    BY ReadingStep DEF HInv
  <1>3. HInv /\ [Next]_vars => ResultsAreHonest'
    BY HonestStep
  <1> QED BY <1>1, <1>2, <1>3, InductiveInvariant, PTL DEF Spec, HInv
-----------------------------------------------------------------------------
(* A save that fails.  What it can cost is the slot it writes over: as long as
   its checks read that slot, the newest record it does not replace is the one
   they settled on. *)

ReplacesWhatItRead == found[target] # Unreadable

\* Until a save writes, or after it truncated a slot it had read, the card holds
\* the record the save's checks settled on.
Intact == Writing /\ ReplacesWhatItRead => OnCard = NewestData(found)

BoundedLoss == ReplacesWhatItRead => FailedSaveLeavesReadableOrNew

\* The checks of a save that goes on to write over a slot it read have found
\* what is on the card.
LEMMA IntactWhenChosen ==
    ASSUME IInv, IInv', CheckSlotBToSave, phase' = "open", ReplacesWhatItRead'
    PROVE  OnCard' = NewestData(found)'
  <1>1. PICK verdict \in Verdicts(1) :
            LET f == [found EXCEPT ![1] = verdict]
            IN  /\ found' = f
                /\ \/ /\ f[0] = Unreadable /\ f[1] = Unreadable
                      /\ End("storage_error")
                      /\ UNCHANGED <<target, sequence>>
                   \/ /\ ~(f[0] = Unreadable /\ f[1] = Unreadable)
                      /\ target' = Target(f)
                      /\ sequence' = IF Newest(f) = None THEN 1 ELSE After(f[Newest(f)].sequence)
                      /\ Continue("open")
    BY DEF CheckSlotBToSave
  <1> DEFINE f == [found EXCEPT ![1] = verdict]
  <1>2. /\ found' = f /\ target' = Target(f)
        /\ ~(f[0] = Unreadable /\ f[1] = Unreadable)
    BY <1>1 DEF End
  <1>3. phase = "check_b" /\ slots' = slots
    BY DEF CheckSlotBToSave
  <1>4. /\ f[0] \in {slots[0], Unreadable} /\ f[1] \in {slots[1], Unreadable}
    BY <1>3 DEF IInv, TypeOK, Checked, Verdicts, Files
  <1>5. Target(f) \in Files /\ f[1 - Target(f)] = slots[1 - Target(f)]
    BY <1>2, <1>3, TargetIsNotNewest DEF IInv
  <1>6. f[Target(f)] # Unreadable
    BY <1>2 DEF ReplacesWhatItRead
  <1> HIDE DEF f
  <1>7. f[0] = slots[0] /\ f[1] = slots[1]
    BY <1>4, <1>5, <1>6 DEF Files
  <1>8. NewestData(found)' = NewestData(f) /\ OnCard' = NewestData(slots)
    BY <1>2, <1>3 DEF NewestData, Newest, OnCard
  <1> QED BY <1>7, <1>8 DEF NewestData, Newest

LEMMA IntactStep == IInv /\ IInv' /\ Intact /\ [Next]_vars => Intact'
  <1> SUFFICES ASSUME IInv, IInv', Intact, [Next]_vars, Writing', ReplacesWhatItRead'
               PROVE  OnCard' = NewestData(found)'
    BY DEF Intact
  <1> USE DEF End, Continue
  <1>1. CASE (\E d \in Data : BeginSave(d)) \/ (\E size \in Capacities : BeginRead(size))
    BY <1>1 DEF BeginSave, BeginRead, Writing
  <1>2. CASE CheckSlotA \/ ReadSlotBAgain \/ WriteFails \/ CloseTarget \/ Interrupted
    BY <1>2 DEF CheckSlotA, ReadSlotBAgain, WriteFails, CloseTarget, Interrupted, Writing
  <1>3. CASE CheckSlotBToSave
    <2>1. phase' = "open"
      BY <1>3, AnyEndOfChecks DEF Writing
    <2> QED BY <1>3, <2>1, IntactWhenChosen
  <1>4. CASE CheckSlotBToRead
    BY <1>4 DEF CheckSlotBToRead, AnswerRead, Writing
  <1>5. CASE OpenTarget
    <2>1. slots' = Truncated /\ found' = found /\ Writing
      BY <1>5 DEF OpenTarget, Writing
    <2>2. OnCard' = NewestData(found)
      BY <2>1, TruncatedEffect, OnCardWritten DEF IInv, Prepared
    <2> QED BY <2>1, <2>2 DEF NewestData, Newest
  <1>6. CASE WriteTarget
    <2>1. Writing /\ ReplacesWhatItRead /\ found' = found /\ OnCard' = OnCard
      BY <1>6, OnCardKept DEF WriteTarget, Writing, ReplacesWhatItRead
    <2> QED BY <2>1 DEF Intact, NewestData, Newest
  <1>7. CASE UNCHANGED vars
    <2>1. Writing /\ ReplacesWhatItRead /\ found' = found /\ OnCard' = OnCard
      BY <1>7, OnCardKept DEF vars, Writing, ReplacesWhatItRead
    <2> QED BY <2>1 DEF Intact, NewestData, Newest
  <1> QED BY <1>1, <1>2, <1>3, <1>4, <1>5, <1>6, <1>7 DEF Next

LEMMA BoundedLossStep == IInv /\ Intact /\ BoundedLoss /\ [Next]_vars => BoundedLoss'
  <1> SUFFICES ASSUME IInv, Intact, BoundedLoss, [Next]_vars, ReplacesWhatItRead',
                      phase' = "idle", call' = "save", result' = "write_failed"
               PROVE  OnCard' \in {payload', NewestData(found)'}
    BY DEF BoundedLoss, FailedSaveLeavesReadableOrNew
  <1> USE DEF End, Continue
  <1>1. CASE (\E d \in Data : BeginSave(d)) \/ (\E size \in Capacities : BeginRead(size))
    BY <1>1 DEF BeginSave, BeginRead
  <1>2. CASE CheckSlotA \/ CheckSlotBToRead \/ WriteTarget
    BY <1>2 DEF CheckSlotA, CheckSlotBToRead, WriteTarget
  <1>3. CASE CheckSlotBToSave
    BY <1>3, AnyEndOfChecks
  <1>4. CASE ReadSlotBAgain
    BY <1>4 DEF ReadSlotBAgain
  <1>5. CASE OpenTarget \/ WriteFails \/ CloseTarget \/ Interrupted
    <2>1. /\ Writing /\ UNCHANGED <<found, target, payload>>
          /\ \/ slots' = slots
             \/ slots' = Truncated
             \/ slots' = Written
      BY <1>5 DEF OpenTarget, WriteFails, CloseTarget, Interrupted, Writing
    <2>2. NewestData(found)' = NewestData(found) /\ ReplacesWhatItRead
      BY <2>1 DEF NewestData, Newest, ReplacesWhatItRead
    <2>3. CASE slots' = slots
      BY <2>1, <2>2, <2>3, OnCardKept DEF Intact
    <2>4. CASE slots' = Truncated
      BY <2>1, <2>2, <2>4, TruncatedEffect, OnCardWritten DEF IInv, Prepared
    <2>5. CASE slots' = Written
      BY <2>1, <2>2, <2>5, WrittenEffect, OnCardWritten DEF IInv
    <2> QED BY <2>1, <2>3, <2>4, <2>5
  <1>6. CASE UNCHANGED vars
    <2>1. /\ ReplacesWhatItRead /\ phase = "idle" /\ call = "save" /\ result = "write_failed"
          /\ UNCHANGED <<found, payload>> /\ OnCard' = OnCard
      BY <1>6, OnCardKept DEF vars, ReplacesWhatItRead
    <2>2. OnCard \in {payload, NewestData(found)}
      BY <2>1 DEF BoundedLoss, FailedSaveLeavesReadableOrNew
    <2> QED BY <2>1, <2>2 DEF NewestData, Newest
  <1> QED BY <1>1, <1>2, <1>3, <1>4, <1>5, <1>6 DEF Next

\* save_point.h's promise about a save that fails holds whenever the slot the
\* save wrote over was one its checks had read: the card is left with the new
\* record or with the newest one those checks found (save_point_write,
\* write_slot).  Only a save over a slot that could not be read can leave an
\* older record, which is what the run of that promise finds.
THEOREM LossNeedsAnUnreadSlot ==
    Spec => [](ReplacesWhatItRead => FailedSaveLeavesReadableOrNew)
  <1>1. Init => Intact /\ BoundedLoss
    BY DEF Init, Intact, BoundedLoss, Writing, FailedSaveLeavesReadableOrNew
  <1>2. IInv /\ IInv' /\ Intact /\ [Next]_vars => Intact'
    BY IntactStep
  <1>3. IInv /\ Intact /\ BoundedLoss /\ [Next]_vars => BoundedLoss'
    BY BoundedLossStep
  <1> QED BY <1>1, <1>2, <1>3, InductiveInvariant, PTL DEF Spec, BoundedLoss
=============================================================================
