-------------------------- MODULE OpenEntriesProofs --------------------------
(***************************************************************************)
(* The safety properties of open entries, for every number of slots the    *)
(* filesystem layer's assertions allow, every size of FatFs's table and    *)
(* every volume.                                                           *)
(*                                                                         *)
(* While the drive serves calls, the table and the pools determine each    *)
(* other: an entry is in use exactly when a slot or the listing names it,  *)
(* its key is the place they opened, no two entries share a key, and its   *)
(* count is theirs.  So what the sharing control reads from the table is   *)
(* what is open, and no call can replace, move or remove that.  Once the   *)
(* card is found gone the table is not looked at again before it is        *)
(* cleared.                                                                *)
(*                                                                         *)
(* The table knows places and not chains.  What it says of places carries  *)
(* over to chains as far as one entry names each: a chain that a rename    *)
(* cut off gave two, now or before the card was set up, is in crossLinked, *)
(* and so is each that is freed while an entry names it still.             *)
(***************************************************************************)
EXTENDS OpenEntries, FiniteSetTheorems, TLAPS

\* Which entry stands for what; with EntriesMatchHandles, what the table says is open.
EntriesDiffer ==
    Served => \A i, j \in Entries :
        i # j /\ locks[i] # None /\ locks[j] # None => locks[i].key # locks[j].key

ListingLocked ==
    Served /\ listing # None =>
        IF listing.object = Root THEN listing.lock = 0
        ELSE listing.lock \in Entries /\ locks[listing.lock].key = listing.object

\* Without a volume nothing is open.
UnboundIsEmpty == drive = "unbound" => listing = None /\ \A s \in Slots : file[s] = None

\* A chain that two entries name, or that is freed while one does, is known as such.
CrossLinksKnown == Shared(tree) \cup freed \subseteq crossLinked

TableInv == EntriesDiffer /\ ListingLocked /\ EntriesMatchHandles

OpenInv ==
    /\ TypeOK /\ TableInv /\ UnboundIsEmpty /\ CrossLinksKnown
    /\ WritersAreAlone /\ OpenFilesStay /\ ListedDirectoryStaysIfSound /\ ClosedMeansWritten

--------------------------------------------------------------------------------
(* What the assumptions and the types give *)

\* The bounds, each on its own (the static assertions in filesystem.c).
LEMMA Pools ==
    /\ NumSlots \in 1 .. 255 /\ NumSlots \in Nat /\ TableSize \in Nat
    /\ Writer \notin 1 .. NumSlots
    /\ Places \cap Directories = {} /\ Files \cap Directories = {} /\ Root \notin Directories
    /\ None \notin Files /\ None \notin Directories /\ None # Root
    /\ 0 \notin Entries
BY PoolAssumption, ObjectsAssumption DEF Writer, Entries

\* An open file, an open listing and an entry in use have the fields of one.
LEMMA Fields ==
    ASSUME TypeOK
    PROVE  /\ \A s \in Slots : file[s] # None => file[s] \in OpenFile
           /\ listing # None => listing \in Listing
           /\ \A i \in Entries : locks[i] # None => locks[i] \in Entry
           /\ \A p \in Places : tree[p] # None => tree[p] \in Objects
BY DEF TypeOK

\* The slots that hold an entry are finitely many, and no more than there are.
LEMMA HoldersFinite ==
    ASSUME NEW H \in SUBSET Slots
    PROVE  IsFiniteSet(H) /\ Cardinality(H) \in 0 .. NumSlots
<1>1. IsFiniteSet(Slots) /\ Cardinality(Slots) = NumSlots
  BY Pools, FS_Interval DEF Slots
<1>2. IsFiniteSet(H) /\ Cardinality(H) <= Cardinality(Slots)
  BY <1>1, FS_Subset
<1>3. Cardinality(H) \in Nat
  BY <1>2, FS_CardinalityType
<1> QED BY <1>1, <1>2, <1>3, Pools

\* One slot more.
LEMMA OneMore ==
    ASSUME NEW H \in SUBSET Slots, NEW s \in Slots, s \notin H
    PROVE  /\ Cardinality(H \cup {s}) = Cardinality(H) + 1
           /\ Cardinality(H) + 1 \in 1 .. NumSlots
<1>1. IsFiniteSet(H) /\ Cardinality(H) \in 0 .. NumSlots
  BY HoldersFinite
<1>2. Cardinality(H \cup {s}) = Cardinality(H) + 1
  BY <1>1, FS_AddElement
<1>3. Cardinality(H \cup {s}) \in 0 .. NumSlots
  BY HoldersFinite
<1> QED BY <1>1, <1>2, <1>3, Pools

\* One slot less.
LEMMA OneLess ==
    ASSUME NEW H \in SUBSET Slots, NEW s \in H
    PROVE  /\ Cardinality(H \ {s}) = Cardinality(H) - 1
           /\ Cardinality(H) \in 1 .. NumSlots
           /\ Cardinality(H) = 1 <=> H \ {s} = {}
<1>1. s \in Slots /\ H \ {s} \in SUBSET Slots /\ s \notin H \ {s} /\ (H \ {s}) \cup {s} = H
  OBVIOUS
<1>2. Cardinality(H) = Cardinality(H \ {s}) + 1 /\ Cardinality(H \ {s}) + 1 \in 1 .. NumSlots
  BY <1>1, OneMore
<1>3. IsFiniteSet(H \ {s}) /\ Cardinality(H \ {s}) \in Nat
  BY <1>1, HoldersFinite
<1>4. Cardinality(H \ {s}) = 0 <=> H \ {s} = {}
  BY <1>3, FS_EmptySet
<1> QED BY <1>2, <1>3, <1>4

--------------------------------------------------------------------------------
(* What the sharing control reads from the table is what is open *)

\* No entry of a place's key: no file is open there.
LEMMA NotOpenThere ==
    ASSUME TypeOK, TableInv, Served, NEW p \in Places, OpenAs(p) = {}
    PROVE  \A s \in Slots : file[s] # None => file[s].place # p
<1> SUFFICES ASSUME NEW s \in Slots, file[s] # None, file[s].place = p PROVE FALSE
  OBVIOUS
<1>1. file[s].lock \in Entries
  BY Fields DEF OpenFile
<1>2. s \in Holders(file[s].lock)
  BY DEF Holders
<1>3. locks[file[s].lock] # None /\ locks[file[s].lock].key = p
  BY <1>1, <1>2 DEF TableInv, EntriesMatchHandles
<1> QED BY <1>1, <1>3 DEF OpenAs

\* A reader is let in only where nobody writes.
LEMMA NoWriterThere ==
    ASSUME TypeOK, TableInv, Served, NEW p \in Places, ShareAllows(p, "read")
    PROVE  \A s \in Slots : file[s] # None /\ file[s].place = p => ~file[s].writer
<1> SUFFICES ASSUME NEW s \in Slots, file[s] # None, file[s].place = p, file[s].writer PROVE FALSE
  OBVIOUS
<1>1. file[s].lock \in Entries
  BY Fields DEF OpenFile
<1>2. s \in Holders(file[s].lock)
  BY DEF Holders
<1>3. locks[file[s].lock] # None /\ locks[file[s].lock].key = p /\ locks[file[s].lock].count = Writer
  BY <1>1, <1>2 DEF TableInv, EntriesMatchHandles
<1>4. file[s].lock \in OpenAs(p)
  BY <1>1, <1>3 DEF OpenAs
<1> QED BY <1>3, <1>4 DEF ShareAllows

\* A replacement, a removal and a renaming are let in only where nothing is open.
LEMMA NothingThere ==
    ASSUME NEW p, ShareAllows(p, "write") \/ ShareAllows(p, "delete")
    PROVE  OpenAs(p) = {}
BY DEF ShareAllows

\* An entry that files hold is not the listing's.
LEMMA HeldIsNotListed ==
    ASSUME TypeOK, TableInv, Served, NEW i \in Entries, Holders(i) # {}
    PROVE  Listers(i) = 0
<1> SUFFICES ASSUME listing # None, listing.lock = i PROVE FALSE
  BY DEF Listers
<1>1. PICK s \in Slots : file[s] # None /\ file[s].lock = i
  BY DEF Holders
<1>2. locks[i].key = file[s].place /\ file[s].place \in Places
  BY <1>1, Fields DEF TableInv, EntriesMatchHandles, Holders, OpenFile
<1>3. listing.object # Root /\ locks[i].key = listing.object /\ listing.object \in Directories
  BY Pools, Fields DEF TableInv, ListingLocked, Listing
<1> QED BY <1>2, <1>3, Pools

\* Without a listing no entry is a directory's.
LEMMA NoDirectoryEntry ==
    ASSUME TypeOK, TableInv, Served, listing = None, NEW d \in Directories
    PROVE  OpenAs(d) = {}
<1> SUFFICES ASSUME NEW i \in OpenAs(d) PROVE FALSE
  OBVIOUS
<1>1. i \in Entries /\ locks[i] # None /\ locks[i].key = d
  BY DEF OpenAs
<1>2. Listers(i) = 0
  BY DEF Listers
<1>3. PICK s \in Holders(i) : TRUE
  BY <1>1, <1>2 DEF TableInv, EntriesMatchHandles
<1>4. s \in Slots /\ file[s] # None /\ file[s].place = d
  BY <1>1, <1>3 DEF TableInv, EntriesMatchHandles, Holders
<1> QED BY <1>4, Fields, Pools DEF OpenFile

--------------------------------------------------------------------------------
(* What an open and a close do to the table *)

\* A file opened into slot s with entry i, for writing or not.
Opened(s, i, p, new, writes) ==
    /\ FirstFree(s) /\ EntryFor(i, p)
    /\ file' = [file EXCEPT ![s] = [place |-> p, object |-> new, lock |-> i, writer |-> writes]]
    /\ locks' = IncShare(i, p, writes)
    /\ UNCHANGED listing

\* inc_share: the entry used is a blank one, or the one readers of the file share.
LEMMA EntryUsed ==
    ASSUME TypeOK, TableInv, Served, NEW p \in Places, NEW i \in Entries, NEW writes \in BOOLEAN,
           EntryFor(i, p), ShareAllows(p, IF writes THEN "write" ELSE "read")
    PROVE  \/ locks[i] = None /\ OpenAs(p) = {} /\ Holders(i) = {} /\ Listers(i) = 0
           \/ /\ ~writes /\ locks[i] # None /\ locks[i].key = p
              /\ locks[i].count = Cardinality(Holders(i)) /\ Listers(i) = 0 /\ Holders(i) # {}
              /\ \A r \in Holders(i) : file[r].place = p /\ ~file[r].writer
<1>1. CASE OpenAs(p) = {}
  <2>1. locks[i] = None
    BY <1>1 DEF EntryFor, Blank
  <2> QED BY <1>1, <2>1 DEF TableInv, EntriesMatchHandles
<1>2. CASE OpenAs(p) # {}
  <2>1. ~writes /\ i \in OpenAs(p) /\ locks[i].count # Writer
    BY <1>2 DEF EntryFor, ShareAllows
  <2>2. locks[i] # None /\ locks[i].key = p
    BY <2>1 DEF OpenAs
  <2>3. Holders(i) # {}
    <3> SUFFICES ASSUME Holders(i) = {} PROVE FALSE
      OBVIOUS
    <3>1. listing # None /\ listing.lock = i
      BY <2>2 DEF TableInv, EntriesMatchHandles, Listers
    <3>2. listing.object \in Directories /\ locks[i].key = listing.object
      BY <3>1, Pools, Fields DEF TableInv, ListingLocked, Listing
    <3> QED BY <2>2, <3>2, Pools
  <2>4. Listers(i) = 0
    BY <2>3, HeldIsNotListed
  <2>5. \A r \in Holders(i) : file[r].place = p
    BY <2>2 DEF TableInv, EntriesMatchHandles
  <2>6. ~\E r \in Holders(i) : file[r].writer
    BY <2>1, <2>2 DEF TableInv, EntriesMatchHandles
  <2>7. locks[i].count = Cardinality(Holders(i)) + Listers(i)
    BY <2>2, <2>6 DEF TableInv, EntriesMatchHandles
  <2>8. Cardinality(Holders(i)) \in Nat
    BY HoldersFinite, Pools DEF Holders
  <2> QED BY <2>1, <2>2, <2>3, <2>4, <2>5, <2>6, <2>7, <2>8
<1> QED BY <1>1, <1>2

\* An open keeps the table and the pools in step.
LEMMA OpenKeepsTable ==
    ASSUME TypeOK, TableInv, Served, NEW s \in Slots, NEW i \in Entries, NEW p \in Places,
           NEW new \in Files, NEW writes \in BOOLEAN,
           ShareAllows(p, IF writes THEN "write" ELSE "read"),
           Opened(s, i, p, new, writes)
    PROVE  /\ TableInv' /\ locks' \in [Entries -> Entry \cup {None}]
           /\ file' \in [Slots -> OpenFile \cup {None}]
<1> DEFINE opened == [place |-> p, object |-> new, lock |-> i, writer |-> writes]
<1>1. opened \in OpenFile /\ opened # None
  BY NoneAssumption DEF OpenFile
<1>2. /\ file[s] = None /\ file' = [file EXCEPT ![s] = opened] /\ listing' = listing
      /\ file'[s] = opened /\ \A r \in Slots \ {s} : file'[r] = file[r]
      /\ file' \in [Slots -> OpenFile \cup {None}]
  BY <1>1 DEF Opened, FirstFree, TypeOK
<1>3. opened.place = p /\ opened.lock = i /\ opened.writer = writes
  OBVIOUS
<1> HIDE DEF opened
<1>4. Holders(i)' = Holders(i) \cup {s} /\ s \notin Holders(i) /\ Holders(i) \in SUBSET Slots
  BY <1>1, <1>2, <1>3 DEF Holders
<1>5. \A j \in Entries : j # i => Holders(j)' = Holders(j)
  BY <1>1, <1>2, <1>3 DEF Holders
<1>6. \A j \in Entries : Listers(j)' = Listers(j)
  BY <1>2 DEF Listers
<1>7. \/ locks[i] = None /\ OpenAs(p) = {} /\ Holders(i) = {} /\ Listers(i) = 0
      \/ /\ ~writes /\ locks[i] # None /\ locks[i].key = p
         /\ locks[i].count = Cardinality(Holders(i)) /\ Listers(i) = 0 /\ Holders(i) # {}
         /\ \A r \in Holders(i) : file[r].place = p /\ ~file[r].writer
  BY EntryUsed DEF Opened
<1>8. /\ Cardinality(Holders(i)') = Cardinality(Holders(i)) + 1
      /\ Cardinality(Holders(i)) + 1 \in 1 .. NumSlots
      /\ Holders(i) = {} => Cardinality(Holders(i)) = 0
  BY <1>4, OneMore, FS_EmptySet
<1>9. /\ \A j \in Entries : j # i => locks'[j] = locks[j]
      /\ locks'[i] = [key |-> p, count |-> IF writes THEN Writer
                                           ELSE IF locks[i] = None THEN 1 ELSE locks[i].count + 1]
      /\ locks' = [locks EXCEPT ![i] = locks'[i]]
  BY DEF Opened, IncShare, TypeOK
<1>10. locks'[i] = [key |-> p, count |-> IF writes THEN Writer ELSE Cardinality(Holders(i)')]
  BY <1>7, <1>8, <1>9
<1>11. locks'[i] \in Entry /\ locks'[i] # None
  <2>1. locks'[i] \in Entry
    BY <1>8, <1>10 DEF Entry
  <2> QED BY <2>1, NoneAssumption
<1>12. locks' \in [Entries -> Entry \cup {None}]
  BY <1>9, <1>11 DEF TypeOK
<1>13. locks'[i].key = p /\ locks'[i].count = IF writes THEN Writer ELSE Cardinality(Holders(i)')
  BY <1>10
<1>14. EntriesDiffer'
  <2> SUFFICES ASSUME NEW j \in Entries, j # i, locks[j] # None PROVE locks[j].key # p
    BY <1>9, <1>11, <1>13 DEF EntriesDiffer, TableInv
  <2>1. CASE locks[i] # None
    BY <1>7, <2>1 DEF EntriesDiffer, TableInv
  <2>2. CASE OpenAs(p) = {}
    BY <2>2 DEF OpenAs
  <2> QED BY <1>7, <2>1, <2>2
<1>15. ListingLocked'
  <2>1. listing # None => listing.lock # i
    <3>1. Listers(i) = 0
      BY <1>7
    <3> QED BY <3>1 DEF Listers
  <2> QED BY <1>2, <1>9, <2>1 DEF ListingLocked, TableInv
<1>16. EntriesMatchHandles'
  <2> SUFFICES ASSUME NEW j \in Entries
               PROVE  /\ locks'[j] = None <=> Holders(j)' = {} /\ Listers(j)' = 0
                      /\ locks'[j] # None =>
                           /\ \A r \in Holders(j)' : file'[r].place = locks'[j].key
                           /\ locks'[j].count = IF \E r \in Holders(j)' : file'[r].writer THEN Writer
                                                ELSE Cardinality(Holders(j)') + Listers(j)'
    BY DEF EntriesMatchHandles
  <2>1. CASE j = i
    <3>1. Holders(i)' # {} /\ locks'[i] # None
      BY <1>4, <1>11
    <3>2. \A r \in Holders(i)' : file'[r].place = p
      BY <1>2, <1>3, <1>4, <1>7
    <3>3. (\E r \in Holders(i)' : file'[r].writer) <=> writes
      BY <1>2, <1>3, <1>4, <1>7
    <3>4. Listers(i)' = 0 /\ Cardinality(Holders(i)') \in Nat
      BY <1>4, <1>6, <1>7, <1>8
    <3> QED BY <1>13, <2>1, <3>1, <3>2, <3>3, <3>4
  <2>2. CASE j # i
    <3>1. \A r \in Holders(j) : file'[r] = file[r]
      BY <1>2 DEF Holders
    <3> QED BY <1>5, <1>6, <1>9, <2>2, <3>1 DEF TableInv, EntriesMatchHandles
  <2> QED BY <2>1, <2>2
<1> QED BY <1>2, <1>12, <1>14, <1>15, <1>16 DEF TableInv

\* dec_share: a slot that is closed gives up its share of its entry.
LEMMA CloseKeepsTable ==
    ASSUME TypeOK, TableInv, WritersAreAlone, Served, NEW s \in Slots, file[s] # None,
           file' = [file EXCEPT ![s] = None], listing' = listing,
           locks' = DecShare(locks, file[s].lock)
    PROVE  TableInv' /\ locks' \in [Entries -> Entry \cup {None}]
<1>0. PICK i \in Entries : file[s].lock = i
  BY Fields DEF OpenFile
<1>1. i \in Entries /\ s \in Holders(i) /\ Holders(i) \in SUBSET Slots
  BY <1>0 DEF Holders
<1>2. /\ file'[s] = None /\ \A r \in Slots \ {s} : file'[r] = file[r]
      /\ \A j \in Entries : Listers(j)' = Listers(j)
  BY DEF TypeOK, Listers
<1>3. Holders(i)' = Holders(i) \ {s}
  BY <1>2 DEF Holders
<1>4. \A j \in Entries : j # i => Holders(j)' = Holders(j)
  BY <1>0, <1>1, <1>2 DEF Holders
<1>5. /\ locks[i] # None /\ locks[i] \in Entry
      /\ \A r \in Holders(i) : file[r].place = locks[i].key
      /\ locks[i].count = IF \E r \in Holders(i) : file[r].writer THEN Writer
                          ELSE Cardinality(Holders(i)) + Listers(i)
  BY <1>1, Fields DEF TableInv, EntriesMatchHandles
<1>6. Listers(i) = 0
  BY <1>1, HeldIsNotListed
<1>7. /\ Cardinality(Holders(i) \ {s}) = Cardinality(Holders(i)) - 1
      /\ Cardinality(Holders(i)) \in 1 .. NumSlots
      /\ Cardinality(Holders(i)) = 1 <=> Holders(i) \ {s} = {}
  BY <1>1, OneLess
<1>8. (\E r \in Holders(i) : file[r].writer) => Holders(i) \ {s} = {}
  <2> SUFFICES ASSUME NEW r \in Holders(i), file[r].writer, NEW q \in Holders(i) \ {s} PROVE FALSE
    OBVIOUS
  <2>1. /\ r \in Slots /\ q \in Slots /\ file[r] # None /\ file[q] # None /\ file[s] # None
        /\ file[r].place = locks[i].key /\ file[q].place = locks[i].key /\ file[s].place = locks[i].key
    BY <1>1, <1>5 DEF Holders
  <2>2. CASE r = q
    BY <2>1, <2>2 DEF WritersAreAlone
  <2>3. CASE r # q
    BY <2>1, <2>3 DEF WritersAreAlone
  <2> QED BY <2>2, <2>3
<1>9. /\ \A j \in Entries : j # i => locks'[j] = locks[j]
      /\ locks'[i] = IF locks[i].count \in {1, Writer} THEN None
                     ELSE [key |-> locks[i].key, count |-> locks[i].count - 1]
      /\ locks' = [locks EXCEPT ![i] = locks'[i]]
  <2>1. locks' = DecShare(locks, i)
    BY <1>0
  <2>2. CASE locks[i].count \in {1, Writer}
    <3>1. locks' = [locks EXCEPT ![i] = None]
      BY <2>1, <2>2 DEF DecShare
    <3>2. locks'[i] = None /\ \A j \in Entries : j # i => locks'[j] = locks[j]
      BY <1>1, <3>1 DEF TypeOK
    <3>3. locks' = [locks EXCEPT ![i] = locks'[i]]
      BY <3>1, <3>2
    <3>4. locks'[i] = IF locks[i].count \in {1, Writer} THEN None
                      ELSE [key |-> locks[i].key, count |-> locks[i].count - 1]
      BY <2>2, <3>2
    <3> QED BY <3>2, <3>3, <3>4, Zenon
  <2>3. CASE locks[i].count \notin {1, Writer}
    <3>1. locks' = [locks EXCEPT ![i] = [key |-> locks[i].key, count |-> locks[i].count - 1]]
      BY <1>5, <2>1, <2>3 DEF DecShare
    <3> QED BY <1>1, <2>3, <3>1 DEF TypeOK
  <2> QED BY <2>2, <2>3
<1>10. CASE Holders(i) \ {s} = {}
  <2>1. locks'[i] = None
    BY <1>5, <1>6, <1>7, <1>9, <1>10
  <2>2. locks' \in [Entries -> Entry \cup {None}]
    BY <1>9, <2>1 DEF TypeOK
  <2>3. EntriesDiffer' /\ ListingLocked'
    <3>1. listing # None => listing.lock # i
      BY <1>6 DEF Listers
    <3> QED BY <1>9, <2>1, <3>1 DEF EntriesDiffer, ListingLocked, TableInv
  <2>4. EntriesMatchHandles'
    <3> SUFFICES ASSUME NEW j \in Entries
                 PROVE  /\ locks'[j] = None <=> Holders(j)' = {} /\ Listers(j)' = 0
                        /\ locks'[j] # None =>
                             /\ \A r \in Holders(j)' : file'[r].place = locks'[j].key
                             /\ locks'[j].count = IF \E r \in Holders(j)' : file'[r].writer THEN Writer
                                                  ELSE Cardinality(Holders(j)') + Listers(j)'
      BY DEF EntriesMatchHandles
    <3>1. CASE j = i
      BY <1>2, <1>3, <1>6, <1>10, <2>1, <3>1
    <3>2. CASE j # i
      <4>1. \A r \in Holders(j) : file'[r] = file[r]
        BY <1>0, <1>1, <1>2, <3>2 DEF Holders
      <4> QED BY <1>2, <1>4, <1>9, <3>2, <4>1 DEF TableInv, EntriesMatchHandles
    <3> QED BY <3>1, <3>2
  <2> QED BY <2>2, <2>3, <2>4 DEF TableInv
<1>11. CASE Holders(i) \ {s} # {}
  <2>1. ~\E r \in Holders(i) : file[r].writer
    BY <1>8, <1>11
  <2>2. locks[i].count = Cardinality(Holders(i)) /\ locks[i].count \notin {1, Writer}
    BY <1>5, <1>6, <1>7, <1>11, <2>1, Pools
  <2>3. /\ locks'[i] = [key |-> locks[i].key, count |-> locks[i].count - 1]
        /\ locks'[i].key = locks[i].key /\ locks'[i].count = Cardinality(Holders(i) \ {s})
        /\ locks'[i] \in Entry
    BY <1>5, <1>7, <1>9, <2>2, Pools DEF Entry
  <2>4. locks'[i] # None
    BY <2>3, NoneAssumption
  <2>5. locks' \in [Entries -> Entry \cup {None}]
    BY <1>9, <2>3 DEF TypeOK
  <2>6. EntriesDiffer'
    <3>1. \A j, k \in Entries : j # k /\ locks[j] # None /\ locks[k] # None => locks[j].key # locks[k].key
      BY DEF EntriesDiffer, TableInv
    <3>2. \A j \in Entries : locks'[j] # None => locks[j] # None /\ locks'[j].key = locks[j].key
      BY <1>5, <1>9, <2>3
    <3> QED BY <3>1, <3>2 DEF EntriesDiffer
  <2>7. ListingLocked'
    <3>1. listing # None => listing.lock # i
      BY <1>6 DEF Listers
    <3> QED BY <1>9, <3>1 DEF ListingLocked, TableInv
  <2>8. EntriesMatchHandles'
    <3> SUFFICES ASSUME NEW j \in Entries
                 PROVE  /\ locks'[j] = None <=> Holders(j)' = {} /\ Listers(j)' = 0
                        /\ locks'[j] # None =>
                             /\ \A r \in Holders(j)' : file'[r].place = locks'[j].key
                             /\ locks'[j].count = IF \E r \in Holders(j)' : file'[r].writer THEN Writer
                                                  ELSE Cardinality(Holders(j)') + Listers(j)'
      BY DEF EntriesMatchHandles
    <3>1. CASE j = i
      <4>1. \A r \in Holders(i)' : file'[r].place = locks'[i].key /\ ~file'[r].writer
        <5>1. \A r \in Holders(i)' : r \in Holders(i) /\ r \in Slots \ {s}
          BY <1>1, <1>3
        <5> QED BY <1>2, <1>5, <2>1, <2>3, <5>1
      <4>2. Cardinality(Holders(i)') = locks'[i].count /\ Cardinality(Holders(i)') \in Nat
        BY <1>3, <1>7, <2>3
      <4>3. Listers(i)' = 0 /\ Holders(i)' # {}
        BY <1>1, <1>2, <1>3, <1>6, <1>11
      <4> QED BY <2>4, <3>1, <4>1, <4>2, <4>3
    <3>2. CASE j # i
      <4>1. \A r \in Holders(j) : file'[r] = file[r]
        BY <1>0, <1>1, <1>2, <3>2 DEF Holders
      <4> QED BY <1>2, <1>4, <1>9, <3>2, <4>1 DEF TableInv, EntriesMatchHandles
    <3> QED BY <3>1, <3>2
  <2> QED BY <2>5, <2>6, <2>7, <2>8 DEF TableInv
<1> QED BY <1>10, <1>11

\* f_opendir: a listing takes a blank entry of its own, or none for the root.
LEMMA ListingEntry ==
    ASSUME TypeOK, TableInv, Served, listing = None,
           NEW d \in Directories \cup {Root}, NEW i \in {0} \cup Entries, ListedEntry(i, d)
    PROVE  /\ d = Root => i = 0 /\ ListedTable(i, d) = locks
           /\ d # Root => /\ i \in Entries /\ OpenAs(d) = {} /\ locks[i] = None
                          /\ ListedTable(i, d) = [locks EXCEPT ![i] = [key |-> d, count |-> 1]]
           /\ ListedTable(i, d) \in [Entries -> Entry \cup {None}]
           /\ Unlisted(ListedTable(i, d), i) = locks
<1>1. CASE d = Root
  BY <1>1 DEF ListedEntry, ListedTable, Unlisted, TypeOK
<1>2. CASE d # Root
  <2>1. d \in Directories /\ i \in Entries /\ EntryFor(i, d) /\ i # 0
    BY <1>2, Pools DEF ListedEntry
  <2>2. OpenAs(d) = {}
    BY <2>1, NoDirectoryEntry
  <2>3. locks[i] = None
    BY <2>1, <2>2 DEF EntryFor, Blank
  <2>4. ListedTable(i, d) = [locks EXCEPT ![i] = [key |-> d, count |-> 1]]
    BY <1>2, <2>1, <2>3 DEF ListedTable, IncShare, TypeOK
  <2>5. [key |-> d, count |-> 1] \in Entry /\ [key |-> d, count |-> 1] # None
    BY <2>1, Pools, NoneAssumption DEF Entry
  <2>6. ListedTable(i, d) \in [Entries -> Entry \cup {None}]
    BY <2>4, <2>5 DEF TypeOK
  <2>7. DecShare(ListedTable(i, d), i) = [ListedTable(i, d) EXCEPT ![i] = None]
    BY <2>1, <2>4, <2>5 DEF DecShare, TypeOK
  <2>8. DecShare(ListedTable(i, d), i) = locks
    BY <2>1, <2>3, <2>4, <2>6, <2>7 DEF TypeOK
  <2> QED BY <1>2, <2>1, <2>2, <2>3, <2>4, <2>6, <2>8 DEF Unlisted
<1> QED BY <1>1, <1>2

\* A listing opened keeps the table and the pools in step.
LEMMA OpendirKeepsTable ==
    ASSUME TypeOK, TableInv, Served, listing = None,
           NEW d \in Directories \cup {Root}, NEW i \in {0} \cup Entries, ListedEntry(i, d),
           listing' = [object |-> d, lock |-> i], locks' = ListedTable(i, d), file' = file
    PROVE  TableInv' /\ listing' \in Listing /\ locks' \in [Entries -> Entry \cup {None}]
<1>1. listing' \in Listing /\ listing' # None
  BY NoneAssumption DEF Listing
<1>2. \A j \in Entries : Holders(j)' = Holders(j)
  BY DEF Holders
<1>3. \A j \in Entries : Listers(j) = 0 /\ Listers(j)' = IF j = i THEN 1 ELSE 0
  BY <1>1 DEF Listers
<1>4. CASE d = Root
  <2>1. locks' = locks /\ \A j \in Entries : j # i
    BY <1>4, ListingEntry, Pools
  <2>2. EntriesMatchHandles'
    BY <1>2, <1>3, <2>1 DEF TableInv, EntriesMatchHandles
  <2>3. EntriesDiffer' /\ ListingLocked'
    BY <1>4, <2>1, ListingEntry DEF TableInv, EntriesDiffer, ListingLocked
  <2> QED BY <1>1, <2>1, <2>2, <2>3 DEF TableInv, TypeOK
<1>5. CASE d # Root
  <2>1. /\ i \in Entries /\ OpenAs(d) = {} /\ locks[i] = None
        /\ locks' = [locks EXCEPT ![i] = [key |-> d, count |-> 1]]
        /\ locks' \in [Entries -> Entry \cup {None}]
    BY <1>5, ListingEntry
  <2>2. /\ locks'[i] = [key |-> d, count |-> 1] /\ locks'[i].key = d /\ locks'[i].count = 1
        /\ \A j \in Entries : j # i => locks'[j] = locks[j]
    BY <2>1 DEF TypeOK
  <2>3. locks'[i] # None
    <3>1. locks'[i] \in Entry
      BY <1>5, <2>2, Pools DEF Entry
    <3> QED BY <3>1, NoneAssumption
  <2>4. Holders(i) = {} /\ Cardinality(Holders(i)) = 0
    BY <2>1, FS_EmptySet DEF TableInv, EntriesMatchHandles
  <2>5. EntriesDiffer'
    BY <2>1, <2>2 DEF TableInv, EntriesDiffer, OpenAs
  <2>6. ListingLocked'
    BY <1>5, <2>1, <2>2 DEF ListingLocked
  <2>7. EntriesMatchHandles'
    <3> SUFFICES ASSUME NEW j \in Entries
                 PROVE  /\ locks'[j] = None <=> Holders(j)' = {} /\ Listers(j)' = 0
                        /\ locks'[j] # None =>
                             /\ \A r \in Holders(j)' : file'[r].place = locks'[j].key
                             /\ locks'[j].count = IF \E r \in Holders(j)' : file'[r].writer THEN Writer
                                                  ELSE Cardinality(Holders(j)') + Listers(j)'
      BY DEF EntriesMatchHandles
    <3>1. CASE j = i
      BY <1>2, <1>3, <2>2, <2>3, <2>4, <3>1
    <3>2. CASE j # i
      BY <1>2, <1>3, <2>2, <3>2 DEF TableInv, EntriesMatchHandles
    <3> QED BY <3>1, <3>2
  <2> QED BY <1>1, <2>1, <2>5, <2>6, <2>7 DEF TableInv
<1> QED BY <1>4, <1>5

\* f_closedir: a listing's entry has no other user.
LEMMA ClosedirKeepsTable ==
    ASSUME TypeOK, TableInv, Served, listing # None,
           listing' = None, locks' = Unlisted(locks, listing.lock), file' = file
    PROVE  TableInv' /\ locks' \in [Entries -> Entry \cup {None}]
<1> DEFINE i == listing.lock
<1>1. \A j \in Entries : Holders(j)' = Holders(j)
  BY DEF Holders
<1>2. \A j \in Entries : Listers(j)' = 0 /\ Listers(j) = IF j = i THEN 1 ELSE 0
  BY DEF Listers
<1>3. ListingLocked'
  BY DEF ListingLocked
<1>4. CASE i = 0
  <2>1. locks' = locks /\ i \notin Entries
    BY <1>4, Pools DEF Unlisted
  <2>2. EntriesDiffer' /\ EntriesMatchHandles'
    BY <1>1, <1>2, <2>1 DEF TableInv, EntriesDiffer, EntriesMatchHandles
  <2> QED BY <1>3, <2>1, <2>2 DEF TableInv, TypeOK
<1>5. CASE i # 0
  <2>1. i \in Entries /\ Listers(i) = 1
    BY <1>2, <1>5, Fields DEF Listing
  <2>2. Holders(i) = {} /\ Cardinality(Holders(i)) = 0
    BY <2>1, HeldIsNotListed, FS_EmptySet
  <2>3. locks[i] # None /\ locks[i].count = 1
    BY <2>1, <2>2 DEF TableInv, EntriesMatchHandles
  <2>4. locks' = [locks EXCEPT ![i] = None]
    BY <1>5, <2>1, <2>3 DEF Unlisted, DecShare, TypeOK
  <2>5. /\ locks'[i] = None /\ \A j \in Entries : j # i => locks'[j] = locks[j]
        /\ locks' \in [Entries -> Entry \cup {None}]
    BY <2>1, <2>4 DEF TypeOK
  <2>6. EntriesDiffer'
    BY <2>5 DEF TableInv, EntriesDiffer
  <2>7. EntriesMatchHandles'
    <3> SUFFICES ASSUME NEW j \in Entries
                 PROVE  /\ locks'[j] = None <=> Holders(j)' = {} /\ Listers(j)' = 0
                        /\ locks'[j] # None =>
                             /\ \A r \in Holders(j)' : file'[r].place = locks'[j].key
                             /\ locks'[j].count = IF \E r \in Holders(j)' : file'[r].writer THEN Writer
                                                  ELSE Cardinality(Holders(j)') + Listers(j)'
      BY DEF EntriesMatchHandles
    <3>1. CASE j = i
      BY <1>1, <1>2, <2>2, <2>5, <3>1
    <3>2. CASE j # i
      BY <1>1, <1>2, <2>5, <3>2 DEF TableInv, EntriesMatchHandles
    <3> QED BY <3>1, <3>2
  <2> QED BY <1>3, <2>5, <2>6, <2>7 DEF TableInv
<1> QED BY <1>4, <1>5

--------------------------------------------------------------------------------
(* The three closes of filesystem_close *)

Fil == [pending : BOOLEAN, written : BOOLEAN, closed : BOOLEAN, marked : BOOLEAN]
Attempts == {"ok", "early", "late", "gone"}

\* One f_close: only a flush that ended well closes a file with changes.
LEMMA FCloseEffect ==
    ASSUME NEW fil \in Fil, NEW e \in Attempts, NEW g, g = FClose(fil, e)
    PROVE  /\ g \in Fil
           /\ fil.marked \/ fil.closed => g = fil
           /\ ~fil.marked /\ ~fil.closed /\ ~fil.pending =>
                /\ g.closed /\ ~g.marked /\ (g.written <=> fil.written)
           /\ ~fil.marked /\ ~fil.closed /\ fil.pending =>
                /\ g.closed => g.written /\ ~g.marked
                /\ ~g.closed /\ ~g.marked => (g.written <=> fil.written)
<1>1. CASE fil.marked \/ fil.closed
  BY <1>1 DEF FClose
<1>2. CASE ~(fil.marked \/ fil.closed) /\ ~fil.pending
  <2>1. g = [fil EXCEPT !.closed = TRUE]
    BY <1>2 DEF FClose
  <2> QED BY <1>2, <2>1 DEF Fil
<1>3. CASE ~(fil.marked \/ fil.closed) /\ fil.pending
  <2>1. CASE e = "ok"
    <3>1. g = [fil EXCEPT !.closed = TRUE, !.written = TRUE]
      BY <1>3, <2>1 DEF FClose
    <3> QED BY <1>3, <3>1 DEF Fil
  <2>2. CASE e = "early"
    <3>1. g = fil
      BY <1>3, <2>2 DEF FClose
    <3> QED BY <1>3, <3>1
  <2>3. CASE e = "late"
    <3>1. g = [fil EXCEPT !.pending = FALSE]
      BY <1>3, <2>3 DEF FClose
    <3> QED BY <1>3, <3>1 DEF Fil
  <2>4. CASE e = "gone"
    <3>1. g = [fil EXCEPT !.marked = TRUE]
      BY <1>3, <2>4 DEF FClose
    <3> QED BY <1>3, <3>1 DEF Fil
  <2> QED BY <2>1, <2>2, <2>3, <2>4 DEF Attempts
<1> QED BY <1>1, <1>2, <1>3

\* All three: the file is closed unless its card is gone, and never unwritten with success.
LEMMA CloseOutcome ==
    ASSUME NEW w \in BOOLEAN, NEW marked \in BOOLEAN, NEW e \in Attempts, NEW f \in Attempts,
           NEW first, first = FClose([pending |-> w, written |-> ~w, closed |-> FALSE,
                                      marked |-> marked], e),
           NEW second, second = FClose(Remodified(first), f),
           NEW third, third = GivenUp(second)
    PROVE  /\ marked => ~third.closed
           /\ ~marked => third.closed \/ third.marked
           /\ second.closed => second.written
<1> DEFINE opened == [pending |-> w, written |-> ~w, closed |-> FALSE, marked |-> marked]
<1>1. /\ opened \in Fil /\ (opened.marked <=> marked) /\ ~opened.closed
      /\ (opened.pending <=> w) /\ (opened.written <=> ~w)
  BY DEF Fil
<1>2. first = FClose(opened, e)
  OBVIOUS
<1> HIDE DEF opened
<1>3. /\ first \in Fil /\ (marked => first.marked /\ ~first.closed)
      /\ first.closed => first.written
  BY <1>1, <1>2, FCloseEffect
<1> DEFINE again == Remodified(first)
<1>4. /\ again \in Fil /\ again.pending
      /\ (again.marked <=> first.marked) /\ (again.closed <=> first.closed)
      /\ (again.written <=> first.written)
  BY <1>3 DEF Remodified, Fil
<1>5. second = FClose(again, f)
  OBVIOUS
<1> HIDE DEF again
<1>6. /\ second \in Fil /\ (marked => second.marked /\ ~second.closed)
      /\ second.closed => second.written
  BY <1>3, <1>4, <1>5, FCloseEffect
<1> DEFINE last == [second EXCEPT !.pending = FALSE]
<1>7. /\ last \in Fil /\ ~last.pending
      /\ (last.marked <=> second.marked) /\ (last.closed <=> second.closed)
  BY <1>6 DEF Fil
<1>8. third = FClose(last, "ok")
  BY DEF GivenUp
<1> HIDE DEF last
<1>9. /\ third \in Fil
      /\ marked => ~third.closed
      /\ third.closed \/ third.marked
  BY <1>6, <1>7, <1>8, FCloseEffect DEF Attempts
<1> QED BY <1>6, <1>9

--------------------------------------------------------------------------------
(* What steps that leave something alone keep *)

\* The table and the pools are as they were, and the drive serves no call it did not serve.
LEMMA SameTable ==
    ASSUME TableInv, Served' => Served, UNCHANGED <<file, listing, locks>>
    PROVE  TableInv'
<1>1. \A i \in Entries : Holders(i)' = Holders(i) /\ Listers(i)' = Listers(i)
  BY DEF Holders, Listers
<1> QED BY <1>1 DEF TableInv, EntriesDiffer, ListingLocked, EntriesMatchHandles

\* The drive serves no call: the table is not looked at.
LEMMA NoTable ==
    ASSUME ~Served'
    PROVE  TableInv' /\ ListedDirectoryStaysIfSound'
BY DEF TableInv, EntriesDiffer, ListingLocked, EntriesMatchHandles,
       ListedDirectoryStaysIfSound, ListedDirectoryStays

\* Nothing is open and the table is blank.
LEMMA BlankTable ==
    ASSUME listing' = None, \A s \in Slots : file'[s] = None,
           locks' = [i \in Entries |-> None]
    PROVE  TableInv'
<1>1. \A i \in Entries : Holders(i)' = {} /\ Listers(i)' = 0
  BY DEF Holders, Listers
<1> QED BY <1>1 DEF TableInv, EntriesDiffer, ListingLocked, EntriesMatchHandles

\* The volume is as it was.
LEMMA SameVolume ==
    ASSUME CrossLinksKnown, UNCHANGED volume
    PROVE  CrossLinksKnown'
BY DEF CrossLinksKnown, Shared, volume

\* No file is opened, and those that are open keep their entries and what is known of their chains.
LEMMA SameFiles ==
    ASSUME WritersAreAlone, OpenFilesStay, CrossLinksKnown', UNCHANGED file,
           \A s \in Slots : file[s] # None =>
               /\ tree'[file[s].place] = tree[file[s].place]
               /\ file[s].object \in crossLinked => file[s].object \in crossLinked'
    PROVE  WritersAreAlone' /\ OpenFilesStay'
BY DEF WritersAreAlone, OpenFilesStay, CrossLinksKnown

\* A slot is let go.
LEMMA FewerFiles ==
    ASSUME WritersAreAlone, OpenFilesStay, UNCHANGED volume,
           \A s \in Slots : file'[s] # None => file'[s] = file[s]
    PROVE  WritersAreAlone' /\ OpenFilesStay'
BY DEF WritersAreAlone, OpenFilesStay, volume

\* The directory being listed keeps an entry.
LEMMA SameListed ==
    ASSUME ListedDirectoryStaysIfSound, CrossLinksKnown', UNCHANGED <<flaky, listing>>,
           Served' => Served,
           listing # None /\ listing.object # Root /\ ~flaky
             /\ (\E p \in Places : tree[p] = listing.object) =>
               \E p \in Places : tree'[p] = listing.object
    PROVE  ListedDirectoryStaysIfSound'
BY DEF ListedDirectoryStaysIfSound, ListedDirectoryStays, CrossLinksKnown

\* remove_chain: only the chain of p is freed, and what is freed so is another entry's.
LEMMA FreeChainEffect ==
    ASSUME TypeOK, CrossLinksKnown, NEW p \in Places, NEW e, FreeChain(p, e)
    PROVE  /\ freed' \in SUBSET Objects /\ crossLinked' \in SUBSET Objects
           /\ freed' \subseteq freed \cup {tree[p]}
           /\ freed' \subseteq crossLinked'
           /\ crossLinked' = crossLinked \cap Others(p)
<1>1. Others(p) \subseteq Objects /\ crossLinked' = crossLinked \cap Others(p)
  BY DEF Others, FreeChain
<1>2. freed' \subseteq (freed \cup {tree[p]}) \cap Others(p)
  BY DEF FreeChain
<1>3. tree[p] \in Others(p) => tree[p] \in crossLinked
  BY DEF Others, CrossLinksKnown, Shared
<1>4. freed \subseteq crossLinked
  BY DEF CrossLinksKnown
<1> QED BY <1>1, <1>2, <1>3, <1>4

\* An entry that lets go of its chain, for none, a freed one or one that no other names.
LEMMA FreeingKeepsKnown ==
    ASSUME TypeOK, CrossLinksKnown, NEW p \in Places, NEW e, FreeChain(p, e),
           \A q \in Places \ {p} : tree'[q] = tree[q],
           tree'[p] \in freed' \/ tree'[p] \notin Others(p)
    PROVE  CrossLinksKnown'
<1>1. freed' \subseteq crossLinked' /\ crossLinked' = crossLinked \cap Others(p)
  BY FreeChainEffect
<1>2. ASSUME NEW x \in Objects, NEW a \in Places, NEW b \in Places,
             a # b, tree'[a] = x, tree'[b] = x
      PROVE  x \in crossLinked'
  <2>1. x \in Others(p)
    BY <1>2 DEF Others
  <2>2. CASE a # p /\ b # p
    BY <1>1, <1>2, <2>1, <2>2 DEF CrossLinksKnown, Shared
  <2>3. CASE a = p \/ b = p
    BY <1>1, <1>2, <2>1, <2>3
  <2> QED BY <2>2, <2>3
<1> QED BY <1>1, <1>2 DEF CrossLinksKnown, Shared

\* What an open file reads is another entry's, for a call that may have its own.
LEMMA OpenElsewhere ==
    ASSUME TypeOK, TableInv, OpenFilesStay, Served, NEW p \in Places,
           ShareAllows(p, "write") \/ ShareAllows(p, "delete")
    PROVE  \A r \in Slots : file[r] # None =>
             /\ file[r].place \in Places /\ file[r].place # p
             /\ tree[file[r].place] = file[r].object /\ file[r].object \in Others(p)
<1> SUFFICES ASSUME NEW r \in Slots, file[r] # None
             PROVE  /\ file[r].place \in Places /\ file[r].place # p
                    /\ tree[file[r].place] = file[r].object /\ file[r].object \in Others(p)
  OBVIOUS
<1>1. file[r].place \in Places /\ file[r].object \in Objects
  BY Fields DEF OpenFile, Objects
<1>2. file[r].place # p
  BY NothingThere, NotOpenThere
<1>3. tree[file[r].place] = file[r].object
  BY DEF OpenFilesStay
<1> QED BY <1>1, <1>2, <1>3 DEF Others

\* What finding the card gone does to the drive (map_result), and what else may be found.
LEMMA NoticeEffect ==
    ASSUME TypeOK, NEW e, Notice(e)
    PROVE  /\ device' \in {"ready", "gone"} /\ drive' \in {"unbound", "ready", "marked"}
           /\ e = "gone" => device' = "gone" /\ ~Served' /\ drive' = "marked"
           /\ e # "gone" => device' = device /\ drive' = drive
           /\ (Served' => Served) /\ (device' = "ready" => device = "ready")
BY DEF Notice, TypeOK, Served

--------------------------------------------------------------------------------
(* Every step keeps the invariant *)

LEMMA InitHolds == Init => OpenInv
<1> SUFFICES ASSUME Init PROVE OpenInv
  OBVIOUS
<1>1. TypeOK
  BY DEF Init, TypeOK, Shared, Named
<1>2. TableInv
  BY DEF Init, TableInv, EntriesDiffer, ListingLocked, EntriesMatchHandles, Served
<1>3. UnboundIsEmpty /\ WritersAreAlone /\ OpenFilesStay /\ ClosedMeansWritten
  BY DEF Init, UnboundIsEmpty, WritersAreAlone, OpenFilesStay, ClosedMeansWritten
<1>4. CrossLinksKnown
  BY DEF Init, CrossLinksKnown
<1>5. ListedDirectoryStaysIfSound
  BY DEF Init, ListedDirectoryStaysIfSound, ListedDirectoryStays
<1> QED BY <1>1, <1>2, <1>3, <1>4, <1>5 DEF OpenInv

\* filesystem_mount finds nothing open and leaves the table blank.
LEMMA MountStep == ASSUME OpenInv, Mount PROVE OpenInv'
<1>1. /\ TypeOK /\ WritersAreAlone /\ OpenFilesStay /\ ClosedMeansWritten
      /\ listing = None /\ \A s \in Slots : file[s] = None
  BY DEF OpenInv, UnboundIsEmpty, Mount
<1>2. TypeOK'
  BY <1>1 DEF Mount, TypeOK, volume
<1>3. TableInv'
  BY <1>1, BlankTable DEF Mount
<1>4. UnboundIsEmpty' /\ ListedDirectoryStaysIfSound'
  BY <1>1 DEF Mount, UnboundIsEmpty, ListedDirectoryStaysIfSound, ListedDirectoryStays
<1>5. CrossLinksKnown'
  BY SameVolume DEF Mount, OpenInv
<1>6. WritersAreAlone' /\ OpenFilesStay'
  BY <1>1, <1>5, SameFiles DEF Mount
<1>7. ClosedMeansWritten'
  BY <1>1 DEF Mount, ClosedMeansWritten
<1> QED BY <1>2, <1>3, <1>4, <1>5, <1>6, <1>7 DEF OpenInv

\* filesystem_unmount drops everything.
LEMMA UnmountStep == ASSUME OpenInv, Unmount PROVE OpenInv'
<1>1. TypeOK /\ WritersAreAlone /\ OpenFilesStay /\ ClosedMeansWritten /\ CrossLinksKnown
  BY DEF OpenInv
<1>2. TypeOK'
  BY <1>1 DEF Unmount, TypeOK, volume
<1>3. ~Served' /\ \A s \in Slots : file'[s] = None
  BY DEF Unmount, Served
<1>4. TableInv' /\ ListedDirectoryStaysIfSound'
  BY <1>3, NoTable
<1>5. UnboundIsEmpty'
  BY <1>3 DEF Unmount, UnboundIsEmpty
<1>6. CrossLinksKnown'
  BY <1>1, SameVolume DEF Unmount
<1>7. WritersAreAlone' /\ OpenFilesStay'
  BY <1>1, <1>3, FewerFiles DEF Unmount
<1>8. ClosedMeansWritten'
  BY <1>1 DEF Unmount, ClosedMeansWritten
<1> QED BY <1>2, <1>4, <1>5, <1>6, <1>7, <1>8 DEF OpenInv

\* Finding the card gone stops everything that reads the table.
LEMMA FindGoneStep == ASSUME OpenInv, FindGone PROVE OpenInv'
<1>1. TypeOK /\ WritersAreAlone /\ OpenFilesStay /\ ClosedMeansWritten /\ CrossLinksKnown
  BY DEF OpenInv
<1>2. device' = "gone" /\ drive' = "marked" /\ ~Served'
  BY <1>1, NoticeEffect DEF FindGone
<1>3. TypeOK'
  BY <1>1, <1>2 DEF FindGone, TypeOK, volume
<1>4. TableInv' /\ ListedDirectoryStaysIfSound'
  BY <1>2, NoTable
<1>5. UnboundIsEmpty'
  BY <1>2 DEF UnboundIsEmpty
<1>6. CrossLinksKnown'
  BY <1>1, SameVolume DEF FindGone
<1>7. WritersAreAlone' /\ OpenFilesStay'
  BY <1>1, <1>6, SameFiles DEF FindGone, volume
<1>8. ClosedMeansWritten'
  BY <1>1 DEF FindGone, ClosedMeansWritten
<1> QED BY <1>3, <1>4, <1>5, <1>6, <1>7, <1>8 DEF OpenInv

\* The card is pulled: nobody has noticed yet.
LEMMA PullCardStep == ASSUME OpenInv, PullCard PROVE OpenInv'
<1>1. /\ TypeOK /\ TableInv /\ WritersAreAlone /\ OpenFilesStay /\ ClosedMeansWritten
      /\ CrossLinksKnown /\ UnboundIsEmpty /\ ListedDirectoryStaysIfSound
  BY DEF OpenInv
<1>2. TypeOK'
  BY <1>1 DEF PullCard, TypeOK, volume
<1>3. Served' <=> Served
  BY DEF PullCard, Served
<1>4. TableInv'
  BY <1>1, <1>3, SameTable DEF PullCard
<1>5. UnboundIsEmpty' /\ ClosedMeansWritten'
  BY <1>1 DEF PullCard, UnboundIsEmpty, ClosedMeansWritten
<1>6. CrossLinksKnown'
  BY <1>1, SameVolume DEF PullCard
<1>7. WritersAreAlone' /\ OpenFilesStay'
  BY <1>1, <1>6, SameFiles DEF PullCard, volume
<1>8. ListedDirectoryStaysIfSound'
  BY <1>1, <1>3, <1>6, SameListed DEF PullCard, volume
<1> QED BY <1>2, <1>4, <1>5, <1>6, <1>7, <1>8 DEF OpenInv

\* A card is set up only after the unmount, when nothing is open.
LEMMA SetUpCardStep == ASSUME OpenInv, SetUpCard PROVE OpenInv'
<1>1. /\ TypeOK /\ ClosedMeansWritten
      /\ listing' = None /\ \A s \in Slots : file'[s] = None
  BY DEF OpenInv, UnboundIsEmpty, SetUpCard
<1>2. /\ ~Served' /\ tree' \in [Places -> Objects \cup {None}]
      /\ freed' \in SUBSET Objects /\ crossLinked' \in SUBSET Objects
  BY DEF SetUpCard, Served, Named, Shared
<1>3. TypeOK'
  BY <1>1, <1>2 DEF SetUpCard, TypeOK
<1>4. TableInv' /\ ListedDirectoryStaysIfSound'
  BY <1>2, NoTable
<1>5. UnboundIsEmpty' /\ WritersAreAlone' /\ OpenFilesStay'
  BY <1>1 DEF UnboundIsEmpty, WritersAreAlone, OpenFilesStay
<1>6. CrossLinksKnown'
  BY DEF SetUpCard, CrossLinksKnown, Shared
<1>7. ClosedMeansWritten'
  BY <1>1 DEF SetUpCard, ClosedMeansWritten
<1> QED BY <1>3, <1>4, <1>5, <1>6, <1>7 DEF OpenInv

\* A reader joins only readers, of its place and (if only its entry names it) of its chain.
LEMMA OpenReadStep == ASSUME OpenInv, NEW p \in Places, OpenRead(p) PROVE OpenInv'
<1>1. /\ TypeOK /\ TableInv /\ WritersAreAlone /\ OpenFilesStay /\ ClosedMeansWritten
      /\ CrossLinksKnown /\ UnboundIsEmpty /\ ListedDirectoryStaysIfSound
  BY DEF OpenInv
<1>2. /\ Served /\ tree[p] \in Files /\ ShareAllows(p, "read")
      /\ UNCHANGED <<device, flaky, drive, tree, freed, crossLinked, listing, falseSuccess>>
  BY DEF OpenRead, volume
<1>3. PICK s \in Slots, i \in Entries :
        /\ FirstFree(s) /\ EntryFor(i, p)
        /\ file' = [file EXCEPT ![s] = [place |-> p, object |-> tree[p], lock |-> i, writer |-> FALSE]]
        /\ locks' = IncShare(i, p, FALSE)
  BY DEF OpenRead
<1>4. Opened(s, i, p, tree[p], FALSE)
  BY <1>2, <1>3 DEF Opened
<1>5. /\ TableInv' /\ locks' \in [Entries -> Entry \cup {None}]
      /\ file' \in [Slots -> OpenFile \cup {None}]
  BY <1>1, <1>2, <1>4, OpenKeepsTable
<1>6. TypeOK'
  BY <1>1, <1>2, <1>5 DEF TypeOK
<1>7. UnboundIsEmpty' /\ ClosedMeansWritten'
  BY <1>1, <1>2 DEF UnboundIsEmpty, ClosedMeansWritten, Served
<1>8. CrossLinksKnown' /\ ListedDirectoryStaysIfSound'
  <2>1. CrossLinksKnown'
    BY <1>1, <1>2, SameVolume DEF volume
  <2> QED BY <1>1, <1>2, <2>1, SameListed DEF Served
<1>9. /\ file'[s].place = p /\ file'[s].object = tree[p] /\ ~file'[s].writer
      /\ \A r \in Slots \ {s} : file'[r] = file[r]
  BY <1>1, <1>3 DEF TypeOK
<1>10. OpenFilesStay'
  BY <1>1, <1>2, <1>8, <1>9 DEF OpenFilesStay, CrossLinksKnown
<1>11. \A r \in Slots \ {s} : file[r] # None /\ (file[r].place = p \/ (file[r].object = tree[p] /\ tree[p] \notin crossLinked)) =>
         ~file[r].writer
  <2> SUFFICES ASSUME NEW r \in Slots, file[r] # None,
                      file[r].place = p \/ (file[r].object = tree[p] /\ tree[p] \notin crossLinked)
               PROVE  ~file[r].writer
    OBVIOUS
  <2>1. file[r].place \in Places /\ tree[file[r].place] = file[r].object
    BY <1>1, Fields DEF OpenFilesStay, OpenFile
  <2>2. file[r].place = p
    BY <1>1, <1>2, <2>1 DEF CrossLinksKnown, Shared, Objects
  <2> QED BY <1>1, <1>2, <2>2, NoWriterThere
<1>12. WritersAreAlone'
  <2> SUFFICES ASSUME NEW a \in Slots, NEW b \in Slots, a # b, file'[a] # None, file'[b] # None,
                      \/ file'[a].place = file'[b].place
                      \/ file'[a].object = file'[b].object /\ file'[a].object \notin crossLinked'
               PROVE  ~file'[a].writer /\ ~file'[b].writer
    BY DEF WritersAreAlone
  <2>1. CASE a = s
    BY <1>2, <1>9, <1>11, <2>1
  <2>2. CASE b = s
    BY <1>2, <1>9, <1>11, <2>2
  <2>3. CASE a # s /\ b # s
    BY <1>1, <1>2, <1>9, <2>3 DEF WritersAreAlone
  <2> QED BY <2>1, <2>2, <2>3
<1> QED BY <1>5, <1>6, <1>7, <1>8, <1>10, <1>12 DEF OpenInv

\* A file is replaced only where nothing is open, by a chain no open file reads but a freed one.
LEMMA OpenReplaceStep == ASSUME OpenInv, NEW p \in Places, OpenReplace(p) PROVE OpenInv'
<1>1. /\ TypeOK /\ TableInv /\ WritersAreAlone /\ OpenFilesStay /\ ClosedMeansWritten
      /\ CrossLinksKnown /\ UnboundIsEmpty /\ ListedDirectoryStaysIfSound
  BY DEF OpenInv
<1>2. /\ Served /\ tree[p] \in Files \cup {None} /\ ShareAllows(p, "write")
      /\ UNCHANGED <<flaky, listing, falseSuccess>>
  BY DEF OpenReplace
<1>3. PICK s \in Slots, i \in Entries, new \in Files, e \in {"ok", "error", "gone"} :
        /\ FirstFree(s) /\ EntryFor(i, p)
        /\ FreeChain(p, e)
        /\ new \in freed' \/ new \notin Others(p)
        /\ tree' = [tree EXCEPT ![p] = new]
        /\ IF e = "ok"
           THEN /\ file' = [file EXCEPT ![s] = [place |-> p, object |-> new, lock |-> i, writer |-> TRUE]]
                /\ locks' = IncShare(i, p, TRUE)
           ELSE tree[p] # None /\ UNCHANGED <<file, locks>>
        /\ Notice(e)
  BY DEF OpenReplace
<1>4. /\ device' \in {"ready", "gone"} /\ drive' \in {"unbound", "ready", "marked"}
      /\ e = "gone" => ~Served' /\ drive' = "marked"
      /\ e # "gone" => drive' = drive
      /\ (Served' => Served) /\ (device' = "ready" => device = "ready")
  BY <1>1, <1>3, NoticeEffect
<1>5. \A r \in Slots : file[r] # None =>
        /\ file[r].place \in Places /\ file[r].place # p
        /\ tree[file[r].place] = file[r].object /\ file[r].object \in Others(p)
  BY <1>1, <1>2, OpenElsewhere
<1>6. /\ tree' \in [Places -> Objects \cup {None}] /\ tree'[p] = new
      /\ \A q \in Places \ {p} : tree'[q] = tree[q]
  BY <1>1, <1>3 DEF TypeOK, Objects
<1>7. /\ CrossLinksKnown' /\ freed' \subseteq crossLinked'
      /\ freed' \in SUBSET Objects /\ crossLinked' \in SUBSET Objects
      /\ crossLinked' = crossLinked \cap Others(p)
  BY <1>1, <1>3, <1>6, FreeChainEffect, FreeingKeepsKnown
<1>8. ListedDirectoryStaysIfSound'
  <2>1. listing # None /\ listing.object # Root => listing.object \in Directories
    BY <1>1, Fields DEF Listing
  <2>2. \A q \in Places : listing # None /\ listing.object # Root /\ tree[q] = listing.object => q # p
    BY <1>2, <2>1, Pools
  <2> QED BY <1>1, <1>2, <1>4, <1>6, <1>7, <2>2, SameListed
<1>9. UnboundIsEmpty' /\ ClosedMeansWritten'
  BY <1>1, <1>2, <1>4 DEF UnboundIsEmpty, ClosedMeansWritten, Served
<1>10. CASE e = "ok"
  <2>1. Opened(s, i, p, new, TRUE)
    BY <1>2, <1>3, <1>10 DEF Opened
  <2>2. /\ TableInv' /\ locks' \in [Entries -> Entry \cup {None}]
        /\ file' \in [Slots -> OpenFile \cup {None}]
    BY <1>1, <1>2, <2>1, OpenKeepsTable
  <2>3. TypeOK'
    BY <1>1, <1>2, <1>4, <1>6, <1>7, <2>2 DEF TypeOK
  <2>4. /\ file'[s].place = p /\ file'[s].object = new /\ s \in Slots
        /\ \A r \in Slots \ {s} : file'[r] = file[r]
    BY <1>1, <1>3, <1>10 DEF TypeOK
  <2>5. OpenFilesStay'
    BY <1>5, <1>6, <1>7, <2>4 DEF OpenFilesStay
  <2>6. WritersAreAlone'
    <3> SUFFICES ASSUME NEW a \in Slots, NEW b \in Slots, a # b, file'[a] # None, file'[b] # None,
                        \/ file'[a].place = file'[b].place
                        \/ file'[a].object = file'[b].object /\ file'[a].object \notin crossLinked'
                 PROVE  ~file'[a].writer /\ ~file'[b].writer
      BY DEF WritersAreAlone
    <3>1. a # s /\ b # s
      BY <1>3, <1>5, <1>7, <2>4
    <3>2. /\ file'[a] = file[a] /\ file'[b] = file[b] /\ file[a].object \in Others(p)
      BY <1>5, <2>4, <3>1
    <3> QED BY <1>1, <1>7, <3>2 DEF WritersAreAlone
  <2> QED BY <1>7, <1>8, <1>9, <2>2, <2>3, <2>5, <2>6 DEF OpenInv
<1>11. CASE e # "ok"
  <2>1. UNCHANGED <<file, locks>>
    BY <1>3, <1>11
  <2>2. TypeOK' /\ TableInv'
    BY <1>1, <1>2, <1>4, <1>6, <1>7, <2>1, SameTable DEF TypeOK
  <2>3. WritersAreAlone' /\ OpenFilesStay'
    BY <1>1, <1>5, <1>6, <1>7, <2>1, SameFiles
  <2> QED BY <1>7, <1>8, <1>9, <2>2, <2>3 DEF OpenInv
<1> QED BY <1>10, <1>11

\* filesystem_close gives the entry up unless the card is gone, and the slot in any case.
LEMMA CloseStep == ASSUME OpenInv, NEW s \in Slots, Close(s) PROVE OpenInv'
<1>1. /\ TypeOK /\ TableInv /\ WritersAreAlone /\ OpenFilesStay /\ ClosedMeansWritten
      /\ CrossLinksKnown /\ UnboundIsEmpty /\ ListedDirectoryStaysIfSound
  BY DEF OpenInv
<1>2. /\ file[s] # None /\ file' = [file EXCEPT ![s] = None]
      /\ UNCHANGED <<flaky, volume, tree, freed, crossLinked, listing>> /\ CrossLinksKnown'
  BY <1>1, SameVolume DEF Close, volume
<1>3. PICK e \in Attempts, f \in Attempts :
        LET first == FClose([pending |-> file[s].writer, written |-> ~file[s].writer,
                             closed |-> FALSE, marked |-> ~Served], e)
            second == FClose(Remodified(first), f)
            third == GivenUp(second)
        IN  /\ locks' = IF third.closed THEN DecShare(locks, file[s].lock) ELSE locks
            /\ falseSuccess' = (falseSuccess \/ (second.closed /\ ~second.written))
            /\ IF Served /\ third.marked THEN Notice("gone") ELSE UNCHANGED <<device, drive>>
  BY DEF Close, Attempts
<1> DEFINE first == FClose([pending |-> file[s].writer, written |-> ~file[s].writer,
                            closed |-> FALSE, marked |-> ~Served], e)
           second == FClose(Remodified(first), f)
           third == GivenUp(second)
<1>4. /\ locks' = IF third.closed THEN DecShare(locks, file[s].lock) ELSE locks
      /\ falseSuccess' = (falseSuccess \/ (second.closed /\ ~second.written))
      /\ IF Served /\ third.marked THEN Notice("gone") ELSE UNCHANGED <<device, drive>>
  BY <1>3
<1>5. file[s].writer \in BOOLEAN /\ (~Served) \in BOOLEAN
  BY <1>1, <1>2, Fields DEF OpenFile, Served
<1>6. /\ ~Served => ~third.closed
      /\ Served => third.closed \/ third.marked
      /\ second.closed => second.written
  BY <1>5, CloseOutcome
<1> HIDE DEF first, second, third
<1>7. /\ device' \in {"ready", "gone"} /\ drive' \in {"unbound", "ready", "marked"}
      /\ (Served' => Served) /\ (device' = "ready" => device = "ready")
      /\ drive' = "unbound" => drive = "unbound"
      /\ Served' => third.closed
  <2>1. CASE Served /\ third.marked
    BY <1>1, <1>4, <2>1, NoticeEffect
  <2>2. CASE ~(Served /\ third.marked)
    BY <1>1, <1>4, <1>6, <2>2 DEF TypeOK, Served
  <2> QED BY <2>1, <2>2
<1>8. falseSuccess' <=> falseSuccess
  BY <1>1, <1>4, <1>6 DEF TypeOK
<1>9. file'[s] = None /\ \A r \in Slots : file'[r] # None => file'[r] = file[r]
  BY <1>1, <1>2 DEF TypeOK
<1>10. file' \in [Slots -> OpenFile \cup {None}] /\ falseSuccess' \in BOOLEAN
  BY <1>1, <1>2, <1>4 DEF TypeOK
<1>11. CASE third.closed
  <2>1. Served /\ locks' = DecShare(locks, file[s].lock)
    BY <1>4, <1>6, <1>11
  <2>2. TableInv' /\ locks' \in [Entries -> Entry \cup {None}]
    BY <1>1, <1>2, <2>1, CloseKeepsTable
  <2> QED BY <1>1, <1>2, <1>7, <1>8, <1>9, <1>10, <2>2, FewerFiles, SameListed
          DEF OpenInv, TypeOK, UnboundIsEmpty, ClosedMeansWritten
<1>12. CASE ~third.closed
  <2>1. locks' = locks /\ ~Served'
    BY <1>4, <1>7, <1>12
  <2>2. TableInv' /\ ListedDirectoryStaysIfSound'
    BY <2>1, NoTable
  <2> QED BY <1>1, <1>2, <1>7, <1>8, <1>9, <1>10, <2>1, <2>2, FewerFiles
          DEF OpenInv, TypeOK, UnboundIsEmpty, ClosedMeansWritten
<1> QED BY <1>11, <1>12

\* filesystem_opendir lists a directory that is there.
LEMMA OpendirStep == ASSUME OpenInv, NEW d \in Directories \cup {Root}, Opendir(d) PROVE OpenInv'
<1>1. /\ TypeOK /\ TableInv /\ WritersAreAlone /\ OpenFilesStay /\ ClosedMeansWritten
      /\ CrossLinksKnown /\ UnboundIsEmpty
  BY DEF OpenInv
<1>2. /\ Served /\ listing = None /\ (d = Root \/ \E p \in Places : tree[p] = d)
      /\ UNCHANGED <<device, flaky, drive, volume, tree, freed, crossLinked, file, falseSuccess>>
      /\ CrossLinksKnown'
  BY <1>1, SameVolume DEF Opendir, volume
<1>3. PICK i \in {0} \cup Entries :
        ListedEntry(i, d) /\ listing' = [object |-> d, lock |-> i] /\ locks' = ListedTable(i, d)
  BY DEF Opendir
<1>4. TableInv' /\ listing' \in Listing /\ locks' \in [Entries -> Entry \cup {None}]
  BY <1>1, <1>2, <1>3, OpendirKeepsTable
<1>5. TypeOK'
  BY <1>1, <1>2, <1>4 DEF TypeOK
<1>6. listing'.object = d
  BY <1>3
<1>7. ListedDirectoryStaysIfSound'
  BY <1>2, <1>6 DEF ListedDirectoryStaysIfSound, ListedDirectoryStays, CrossLinksKnown
<1>8. UnboundIsEmpty' /\ ClosedMeansWritten'
  BY <1>1, <1>2 DEF UnboundIsEmpty, ClosedMeansWritten, Served
<1>9. WritersAreAlone' /\ OpenFilesStay'
  BY <1>1, <1>2, SameFiles
<1> QED BY <1>2, <1>4, <1>5, <1>7, <1>8, <1>9 DEF OpenInv

\* A listing that could not be started gives its entry back, unless the card is gone.
LEMMA OpendirFailsStep ==
    ASSUME OpenInv, NEW d \in Directories \cup {Root}, OpendirFails(d) PROVE OpenInv'
<1>1. /\ TypeOK /\ TableInv /\ WritersAreAlone /\ OpenFilesStay /\ ClosedMeansWritten
      /\ CrossLinksKnown /\ UnboundIsEmpty /\ ListedDirectoryStaysIfSound
  BY DEF OpenInv
<1>2. /\ Served /\ listing = None
      /\ UNCHANGED <<flaky, volume, tree, freed, crossLinked, file, listing, falseSuccess>>
      /\ CrossLinksKnown'
  BY <1>1, SameVolume DEF OpendirFails, volume
<1>3. PICK i \in {0} \cup Entries, e \in {"error", "gone"} :
        /\ ListedEntry(i, d)
        /\ locks' = IF e = "gone" THEN ListedTable(i, d) ELSE Unlisted(ListedTable(i, d), i)
        /\ Notice(e)
  BY DEF OpendirFails
<1>4. /\ ListedTable(i, d) \in [Entries -> Entry \cup {None}]
      /\ Unlisted(ListedTable(i, d), i) = locks
  BY <1>1, <1>2, <1>3, ListingEntry
<1>5. /\ device' \in {"ready", "gone"} /\ drive' \in {"unbound", "ready", "marked"}
      /\ e = "gone" => ~Served' /\ drive' = "marked"
      /\ e # "gone" => drive' = drive
      /\ (Served' => Served) /\ (device' = "ready" => device = "ready")
  BY <1>1, <1>3, NoticeEffect
<1>6. TypeOK'
  BY <1>1, <1>2, <1>3, <1>4, <1>5 DEF TypeOK
<1>7. TableInv'
  <2>1. CASE e = "gone"
    BY <1>5, <2>1, NoTable
  <2>2. CASE e # "gone"
    BY <1>1, <1>2, <1>3, <1>4, <1>5, <2>2, SameTable
  <2> QED BY <2>1, <2>2
<1>8. UnboundIsEmpty' /\ ClosedMeansWritten'
  BY <1>1, <1>2, <1>5 DEF UnboundIsEmpty, ClosedMeansWritten, Served
<1>9. WritersAreAlone' /\ OpenFilesStay' /\ ListedDirectoryStaysIfSound'
  BY <1>1, <1>2, <1>5, SameFiles, SameListed
<1> QED BY <1>2, <1>6, <1>7, <1>8, <1>9 DEF OpenInv

\* filesystem_closedir gives the entry up while the drive serves.
LEMMA ClosedirStep == ASSUME OpenInv, Closedir PROVE OpenInv'
<1>1. /\ TypeOK /\ TableInv /\ WritersAreAlone /\ OpenFilesStay /\ ClosedMeansWritten
      /\ CrossLinksKnown /\ UnboundIsEmpty
  BY DEF OpenInv
<1>2. /\ listing # None /\ listing' = None
      /\ locks' = IF Served THEN Unlisted(locks, listing.lock) ELSE locks
      /\ UNCHANGED <<device, flaky, drive, volume, tree, freed, crossLinked, file, falseSuccess>>
      /\ (Served' <=> Served) /\ CrossLinksKnown'
  BY <1>1, SameVolume DEF Closedir, Served, volume
<1>3. TableInv' /\ locks' \in [Entries -> Entry \cup {None}]
  <2>1. CASE Served
    BY <1>1, <1>2, <2>1, ClosedirKeepsTable
  <2>2. CASE ~Served
    BY <1>1, <1>2, <2>2, NoTable DEF TypeOK
  <2> QED BY <2>1, <2>2
<1>4. TypeOK'
  BY <1>1, <1>2, <1>3 DEF TypeOK
<1>5. ListedDirectoryStaysIfSound' /\ UnboundIsEmpty' /\ ClosedMeansWritten'
  BY <1>1, <1>2
  DEF ListedDirectoryStaysIfSound, ListedDirectoryStays, UnboundIsEmpty, ClosedMeansWritten
<1>6. WritersAreAlone' /\ OpenFilesStay'
  BY <1>1, <1>2, SameFiles
<1> QED BY <1>2, <1>3, <1>4, <1>5, <1>6 DEF OpenInv

\* filesystem_remove leaves alone what is open, and the listed directory where its probe tells.
LEMMA RemoveStep == ASSUME OpenInv, NEW p \in Places, Remove(p) PROVE OpenInv'
<1>1. /\ TypeOK /\ TableInv /\ WritersAreAlone /\ OpenFilesStay /\ ClosedMeansWritten
      /\ CrossLinksKnown /\ UnboundIsEmpty /\ ListedDirectoryStaysIfSound
  BY DEF OpenInv
<1>2. /\ Served /\ tree[p] # None /\ ShareAllows(p, "delete")
      /\ tree' = [tree EXCEPT ![p] = None]
      /\ UNCHANGED <<flaky, file, listing, locks, falseSuccess>>
  BY DEF Remove
<1>3. PICK e \in {"ok", "error", "gone"} : FreeChain(p, e) /\ Notice(e)
  BY DEF Remove
<1>4. /\ device' \in {"ready", "gone"} /\ drive' \in {"unbound", "ready", "marked"}
      /\ drive' = "unbound" => drive = "unbound"
      /\ Served' => Served
  BY <1>1, <1>3, NoticeEffect
<1>5. tree'[p] = None /\ \A q \in Places \ {p} : tree'[q] = tree[q]
  BY <1>1, <1>2 DEF TypeOK
<1>6. /\ CrossLinksKnown'
      /\ freed' \in SUBSET Objects /\ crossLinked' \in SUBSET Objects
      /\ crossLinked' = crossLinked \cap Others(p)
  <2>1. None \notin Others(p)
    BY Pools DEF Others, Objects
  <2> QED BY <1>1, <1>3, <1>5, <2>1, FreeChainEffect, FreeingKeepsKnown
<1>7. TypeOK'
  BY <1>1, <1>2, <1>4, <1>6 DEF TypeOK
<1>8. TableInv'
  BY <1>1, <1>2, <1>4, SameTable
<1>9. UnboundIsEmpty' /\ ClosedMeansWritten'
  BY <1>1, <1>2, <1>4 DEF UnboundIsEmpty, ClosedMeansWritten
<1>10. WritersAreAlone' /\ OpenFilesStay'
  <2>1. \A r \in Slots : file[r] # None =>
          file[r].place \in Places \ {p} /\ file[r].object \in Others(p)
    BY <1>1, <1>2, OpenElsewhere
  <2> QED BY <1>1, <1>2, <1>5, <1>6, <2>1, SameFiles
<1>11. ListedDirectoryStaysIfSound'
  <2>1. ~flaky => ~BeingListed(p, "ok")
    BY DEF Remove, Fault
  <2>2. listing # None /\ listing.object # Root /\ ~flaky => tree[p] # listing.object
    BY <2>1 DEF BeingListed
  <2> QED BY <1>1, <1>2, <1>4, <1>5, <1>6, <2>2, SameListed
<1> QED BY <1>6, <1>7, <1>8, <1>9, <1>10, <1>11 DEF OpenInv

\* filesystem_rename: a chain that is left with two entries is known from then on.
LEMMA RenameStep == ASSUME OpenInv, NEW p \in Places, NEW q \in Places, Rename(p, q) PROVE OpenInv'
<1>1. /\ TypeOK /\ TableInv /\ WritersAreAlone /\ OpenFilesStay /\ ClosedMeansWritten
      /\ CrossLinksKnown /\ UnboundIsEmpty /\ ListedDirectoryStaysIfSound
  BY DEF OpenInv
<1>2. /\ Served /\ tree[p] # None /\ tree[q] = None /\ ShareAllows(p, "delete") /\ p # q
      /\ UNCHANGED <<flaky, freed, file, listing, locks, falseSuccess>>
  BY DEF Rename
<1>3. PICK e \in {"ok", "error", "gone"}, kept \in {tree[p], None} :
        /\ tree' = [tree EXCEPT ![q] = tree[p], ![p] = kept]
        /\ crossLinked' = IF kept = None THEN crossLinked ELSE crossLinked \cup {kept}
        /\ Notice(e)
  BY DEF Rename
<1>4. /\ device' \in {"ready", "gone"} /\ drive' \in {"unbound", "ready", "marked"}
      /\ drive' = "unbound" => drive = "unbound"
      /\ Served' => Served
  BY <1>1, <1>3, NoticeEffect
<1>5. /\ tree' \in [Places -> Objects \cup {None}]
      /\ tree'[q] = tree[p] /\ tree'[p] = kept
      /\ \A r \in Places \ {p, q} : tree'[r] = tree[r]
  BY <1>1, <1>2, <1>3 DEF TypeOK
<1>6. /\ CrossLinksKnown' /\ crossLinked \subseteq crossLinked'
      /\ crossLinked' \in SUBSET Objects
  <2>1. crossLinked \subseteq crossLinked' /\ crossLinked' \in SUBSET Objects
    BY <1>1, <1>3, Fields DEF TypeOK
  <2>2. freed' \subseteq crossLinked'
    BY <1>1, <1>2, <2>1 DEF CrossLinksKnown
  <2>3. ASSUME NEW x \in Objects, NEW a \in Places, NEW b \in Places,
               a # b, tree'[a] = x, tree'[b] = x
        PROVE  x \in crossLinked'
    <3>1. CASE kept = None
      <4>1. x # None
        BY Pools DEF Objects
      <4>2. PICK c \in Places, d \in Places : c # d /\ tree[c] = x /\ tree[d] = x
        BY <1>2, <1>5, <2>3, <3>1, <4>1
      <4> QED BY <1>1, <2>1, <4>2 DEF CrossLinksKnown, Shared
    <3>2. CASE kept # None /\ x = kept
      BY <1>3, <3>2
    <3>3. CASE kept # None /\ x # kept
      <4>1. kept = tree[p]
        BY <3>3
      <4>2. tree[a] = x /\ tree[b] = x
        BY <1>5, <2>3, <3>3, <4>1
      <4> QED BY <1>1, <2>1, <2>3, <4>2 DEF CrossLinksKnown, Shared
    <3> QED BY <3>1, <3>2, <3>3
  <2> QED BY <2>1, <2>2, <2>3 DEF CrossLinksKnown, Shared
<1>7. TypeOK'
  BY <1>1, <1>2, <1>4, <1>5, <1>6 DEF TypeOK
<1>8. TableInv'
  BY <1>1, <1>2, <1>4, SameTable
<1>9. UnboundIsEmpty' /\ ClosedMeansWritten'
  BY <1>1, <1>2, <1>4 DEF UnboundIsEmpty, ClosedMeansWritten
<1>10. WritersAreAlone' /\ OpenFilesStay'
  <2>1. \A r \in Slots : file[r] # None => file[r].place \in Places \ {p}
    BY <1>1, <1>2, NothingThere, NotOpenThere, Fields DEF OpenFile
  <2>2. \A r \in Slots : file[r] # None => file[r].place # q
    BY <1>1, <1>2, Pools, Fields DEF OpenFilesStay, OpenFile
  <2> QED BY <1>1, <1>2, <1>5, <1>6, <2>1, <2>2, SameFiles
<1>11. ListedDirectoryStaysIfSound'
  <2>1. listing # None /\ listing.object # Root => listing.object # None
    BY <1>1, Pools, Fields DEF Listing
  <2>2. ASSUME listing # None, listing.object # Root, NEW r \in Places, tree[r] = listing.object
        PROVE  \E x \in Places : tree'[x] = listing.object
    <3>1. CASE r = p
      BY <1>5, <2>2, <3>1
    <3>2. CASE r # p
      BY <1>2, <1>5, <2>1, <2>2, <3>2
    <3> QED BY <3>1, <3>2
  <2> QED BY <1>1, <1>2, <1>4, <1>6, <2>2, SameListed
<1> QED BY <1>6, <1>7, <1>8, <1>9, <1>10, <1>11 DEF OpenInv

\* A step that changes nothing.
LEMMA StutterStep == ASSUME OpenInv, UNCHANGED vars PROVE OpenInv'
<1>1. /\ TypeOK /\ TableInv /\ WritersAreAlone /\ OpenFilesStay /\ ClosedMeansWritten
      /\ CrossLinksKnown /\ UnboundIsEmpty /\ ListedDirectoryStaysIfSound
  BY DEF OpenInv
<1>2. /\ UNCHANGED <<device, flaky, drive, volume, tree, freed, crossLinked, file, listing, locks, falseSuccess>>
      /\ (Served' <=> Served) /\ CrossLinksKnown'
  BY <1>1, SameVolume DEF vars, Served, volume
<1>3. TypeOK' /\ UnboundIsEmpty' /\ ClosedMeansWritten'
  BY <1>1, <1>2 DEF TypeOK, UnboundIsEmpty, ClosedMeansWritten
<1>4. TableInv' /\ WritersAreAlone' /\ OpenFilesStay' /\ ListedDirectoryStaysIfSound'
  BY <1>1, <1>2, SameTable, SameFiles, SameListed
<1> QED BY <1>2, <1>3, <1>4 DEF OpenInv

--------------------------------------------------------------------------------
\* Every step of the specification keeps the invariant.
LEMMA StepKeepsOpenInv == ASSUME OpenInv, [Next]_vars PROVE OpenInv'
<1>1. CASE Mount
  BY <1>1, MountStep
<1>2. CASE Unmount
  BY <1>2, UnmountStep
<1>3. CASE FindGone
  BY <1>3, FindGoneStep
<1>4. ASSUME NEW p \in Places, OpenRead(p) \/ OpenReplace(p) \/ Remove(p) PROVE OpenInv'
  BY <1>4, OpenReadStep, OpenReplaceStep, RemoveStep
<1>5. ASSUME NEW p \in Places, NEW q \in Places, Rename(p, q) PROVE OpenInv'
  BY <1>5, RenameStep
<1>6. ASSUME NEW s \in Slots, Close(s) PROVE OpenInv'
  BY <1>6, CloseStep
<1>7. ASSUME NEW d \in Directories \cup {Root}, Opendir(d) \/ OpendirFails(d) PROVE OpenInv'
  BY <1>7, OpendirStep, OpendirFailsStep
<1>8. CASE Closedir
  BY <1>8, ClosedirStep
<1>9. CASE PullCard
  BY <1>9, PullCardStep
<1>10. CASE SetUpCard
  BY <1>10, SetUpCardStep
<1>11. CASE UNCHANGED vars
  BY <1>11, StutterStep
<1> QED BY <1>1, <1>2, <1>3, <1>4, <1>5, <1>6, <1>7, <1>8, <1>9, <1>10, <1>11 DEF Next

(***************************************************************************)
(* The invariant holds in every reachable state: whatever the filesystem   *)
(* layer is asked, and whenever the card is pulled or fails a transfer.    *)
(***************************************************************************)
THEOREM InductiveInvariant == Spec => []OpenInv
<1>1. OpenInv /\ [Next]_vars => OpenInv'
  BY StepKeepsOpenInv
<1> QED BY <1>1, InitHolds, PTL DEF Spec

\* Every variable keeps its type; a slot's entry and a count stay within the tables.
THEOREM TypeCorrect == Spec => []TypeOK
<1>1. OpenInv => TypeOK
  BY DEF OpenInv
<1> QED BY <1>1, InductiveInvariant, PTL

\* A file open for writing is open only once (FF_FS_LOCK as filesystem.c uses it): by
\* its place always, by its chain unless a cut-off rename gave it a second name.
THEOREM WritersCorrect == Spec => []WritersAreAlone
<1>1. OpenInv => WritersAreAlone
  BY DEF OpenInv
<1> QED BY <1>1, InductiveInvariant, PTL

\* No call removes, renames or truncates an open file under its user, or frees its
\* clusters, unless a cut-off rename gave its chain a second name.
THEOREM OpenFilesCorrect == Spec => []OpenFilesStay
<1>1. OpenInv => OpenFilesStay
  BY DEF OpenInv
<1> QED BY <1>1, InductiveInvariant, PTL

\* The open-entry table counts exactly what is open while the drive serves calls.
THEOREM EntriesCorrect == Spec => []EntriesMatchHandles
<1>1. OpenInv => EntriesMatchHandles
  BY DEF OpenInv, TableInv
<1> QED BY <1>1, InductiveInvariant, PTL

\* A directory being listed is not removed, on a card that fails only by its removal,
\* nor are its clusters freed, unless a cut-off rename gave it a second name.
THEOREM ListedCorrect == Spec => []ListedDirectoryStaysIfSound
<1>1. OpenInv => ListedDirectoryStaysIfSound
  BY DEF OpenInv
<1> QED BY <1>1, InductiveInvariant, PTL

\* A close that reports success has written everything, whatever its attempts came to.
THEOREM ClosedCorrect == Spec => []ClosedMeansWritten
<1>1. OpenInv => ClosedMeansWritten
  BY DEF OpenInv
<1> QED BY <1>1, InductiveInvariant, PTL

--------------------------------------------------------------------------------
(***************************************************************************)
(* How a directory can be removed under its listing: a removal of that     *)
(* very directory, by whichever of its names, on a card that is there and  *)
(* may fail the probe of being_listed.  Nothing else that is called, and   *)
(* no card that is pulled, takes it away or frees its clusters.            *)
(***************************************************************************)
RemovesListed ==
    /\ flaky /\ device = "ready"
    /\ listing # None
    /\ \E p \in Places : Remove(p) /\ tree[p] = listing.object

\* The listing that goes on does so over clusters that were not freed by this step.
ListedNotFreed ==
    listing # None /\ listing' = listing /\ Served' /\ listing.object \in freed' =>
        listing.object \in freed

ListedKept ==
    [][~RemovesListed => (ListedDirectoryStays => ListedDirectoryStays') /\ ListedNotFreed]_vars

\* The listing goes on, and its directory has an entry still.
LEMMA StillListed ==
    ASSUME ListedDirectoryStays, CrossLinksKnown', listing' = listing, Served' => Served,
           \A p \in Places : listing # None /\ listing.object # Root /\ tree[p] = listing.object =>
               \E q \in Places : tree'[q] = listing.object
    PROVE  ListedDirectoryStays'
BY DEF ListedDirectoryStays, CrossLinksKnown

\* Only a probe that fails lets the listed directory go.
LEMMA ProbeTells ==
    ASSUME NEW p \in Places, Remove(p), listing # None, listing.object # Root,
           tree[p] = listing.object
    PROVE  RemovesListed
<1>1. PICK probe \in {"ok", "error"} : (probe = "ok" \/ Fault(probe)) /\ ~BeingListed(p, probe)
  BY DEF Remove
<1>2. probe = "error"
  BY <1>1 DEF BeingListed
<1>3. flaky /\ device = "ready"
  BY <1>1, <1>2 DEF Fault
<1> QED BY <1>3 DEF RemovesListed

\* A chain that is freed is not the listed directory's.
LEMMA FreeingSparesListed ==
    ASSUME TypeOK, CrossLinksKnown, ~RemovesListed, NEW p \in Places, NEW e, FreeChain(p, e),
           OpenReplace(p) \/ Remove(p)
    PROVE  ListedNotFreed
<1>1. /\ freed' \in SUBSET Objects /\ freed' \subseteq freed \cup {tree[p]}
  BY FreeChainEffect
<1>2. listing # None => listing.object \in Directories \cup {Root}
  BY Fields DEF Listing
<1>3. Root \notin Objects
  BY ObjectsAssumption DEF Objects
<1>4. listing # None /\ listing.object # Root => tree[p] # listing.object
  <2>1. CASE OpenReplace(p)
    BY <1>2, <2>1, Pools DEF OpenReplace
  <2>2. CASE Remove(p)
    BY <2>2, ProbeTells
  <2> QED BY <2>1, <2>2
<1> QED BY <1>1, <1>3, <1>4 DEF ListedNotFreed

\* A step that may move entries, one by one.
LEMMA TreeStepKeepsListed ==
    ASSUME TypeOK, CrossLinksKnown, CrossLinksKnown', ~RemovesListed, NEW p \in Places,
           OpenReplace(p) \/ Remove(p) \/ \E q \in Places : Rename(p, q)
    PROVE  (ListedDirectoryStays => ListedDirectoryStays') /\ ListedNotFreed
<1>1. listing' = listing /\ (Served' => Served)
  <2>1. Served /\ listing' = listing
    BY DEF OpenReplace, Remove, Rename
  <2> QED BY <2>1
<1>2. listing # None /\ listing.object # Root => listing.object \in Directories /\ listing.object # None
  BY Pools, Fields DEF Listing
<1>3. CASE OpenReplace(p)
  <2>1. PICK new \in Files, e \in {"ok", "error", "gone"} :
          FreeChain(p, e) /\ tree' = [tree EXCEPT ![p] = new]
    BY <1>3 DEF OpenReplace
  <2>2. \A q \in Places \ {p} : tree'[q] = tree[q]
    BY <2>1 DEF TypeOK
  <2>3. tree[p] \notin Directories
    BY <1>3, Pools DEF OpenReplace
  <2>4. ListedNotFreed
    BY <1>3, <2>1, FreeingSparesListed
  <2> QED BY <1>1, <1>2, <2>2, <2>3, <2>4, StillListed
<1>4. CASE Remove(p)
  <2>1. \A q \in Places \ {p} : tree'[q] = tree[q]
    BY <1>4 DEF Remove, TypeOK
  <2>2. listing # None /\ listing.object # Root => tree[p] # listing.object
    BY <1>4, ProbeTells
  <2>3. PICK e \in {"ok", "error", "gone"} : FreeChain(p, e)
    BY <1>4 DEF Remove
  <2>4. ListedNotFreed
    BY <1>4, <2>3, FreeingSparesListed
  <2> QED BY <1>1, <2>1, <2>2, <2>4, StillListed
<1>5. ASSUME NEW q \in Places, Rename(p, q)
      PROVE  (ListedDirectoryStays => ListedDirectoryStays') /\ ListedNotFreed
  <2>1. PICK kept \in {tree[p], None} : tree' = [tree EXCEPT ![q] = tree[p], ![p] = kept]
    BY <1>5 DEF Rename
  <2>2. tree[p] # None /\ tree[q] = None /\ p # q /\ freed' = freed
    BY <1>5 DEF Rename
  <2>3. tree'[q] = tree[p] /\ \A r \in Places \ {p, q} : tree'[r] = tree[r]
    BY <2>1, <2>2 DEF TypeOK
  <2>4. ASSUME NEW r \in Places, listing # None, listing.object # Root, tree[r] = listing.object
        PROVE  \E x \in Places : tree'[x] = listing.object
    <3>1. CASE r = p
      BY <2>3, <2>4, <3>1
    <3>2. CASE r # p
      BY <1>2, <2>2, <2>3, <2>4, <3>2
    <3> QED BY <3>1, <3>2
  <2>5. ListedNotFreed
    BY <2>2 DEF ListedNotFreed
  <2> QED BY <1>1, <2>4, <2>5, StillListed
<1> QED BY <1>3, <1>4, <1>5

\* A step that leaves the volume and the listing alone.
LEMMA VolumeStepKeepsListed ==
    ASSUME CrossLinksKnown', UNCHANGED <<volume, listing>>, Served' => Served
    PROVE  (ListedDirectoryStays => ListedDirectoryStays') /\ ListedNotFreed
BY StillListed DEF volume, ListedNotFreed

LEMMA ListedStep ==
    ASSUME OpenInv, [Next]_vars, ~RemovesListed
    PROVE  (ListedDirectoryStays => ListedDirectoryStays') /\ ListedNotFreed
<1> DEFINE Goal == (ListedDirectoryStays => ListedDirectoryStays') /\ ListedNotFreed
<1>0. TypeOK /\ UnboundIsEmpty /\ CrossLinksKnown /\ CrossLinksKnown'
  BY StepKeepsOpenInv DEF OpenInv
<1>1. CASE Mount
  <2>1. listing = None /\ listing' = None
    BY <1>0, <1>1 DEF Mount, UnboundIsEmpty
  <2> QED BY <2>1 DEF ListedDirectoryStays, ListedNotFreed
<1>2. CASE Unmount \/ Closedir
  BY <1>2 DEF Unmount, Closedir, ListedDirectoryStays, ListedNotFreed, volume
<1>3. CASE FindGone \/ PullCard
  <2>1. Served' => Served
    BY <1>3 DEF FindGone, PullCard, Served
  <2>2. UNCHANGED <<volume, listing>>
    BY <1>3 DEF FindGone, PullCard
  <2> QED BY <1>0, <2>1, <2>2, VolumeStepKeepsListed
<1>4. CASE SetUpCard
  BY <1>4 DEF SetUpCard, Served, ListedDirectoryStays, ListedNotFreed
<1>5. ASSUME NEW p \in Places, OpenRead(p) PROVE Goal
  <2>1. UNCHANGED <<volume, listing>> /\ (Served' => Served)
    BY <1>5 DEF OpenRead, Served
  <2> QED BY <1>0, <2>1, VolumeStepKeepsListed
<1>6. ASSUME NEW p \in Places,
             OpenReplace(p) \/ Remove(p) \/ \E q \in Places : Rename(p, q)
      PROVE  Goal
  BY <1>0, <1>6, TreeStepKeepsListed
<1>7. ASSUME NEW s \in Slots, Close(s) PROVE Goal
  <2>1. UNCHANGED <<volume, listing>>
    BY <1>7 DEF Close
  <2>2. Served' => Served
    BY <1>7 DEF Close, Notice, Served
  <2> QED BY <1>0, <2>1, <2>2, VolumeStepKeepsListed
<1>8. ASSUME NEW d \in Directories \cup {Root}, Opendir(d) PROVE Goal
  <2>1. listing'.object = d /\ (d = Root \/ \E p \in Places : tree'[p] = d) /\ freed' = freed
    BY <1>8 DEF Opendir, volume
  <2> QED BY <1>0, <2>1 DEF ListedDirectoryStays, ListedNotFreed, CrossLinksKnown
<1>9. ASSUME NEW d \in Directories \cup {Root}, OpendirFails(d) PROVE Goal
  <2>1. UNCHANGED <<volume, listing>> /\ (Served' => Served)
    BY <1>9 DEF OpendirFails
  <2> QED BY <1>0, <2>1, VolumeStepKeepsListed
<1>10. CASE UNCHANGED vars
  <2>1. UNCHANGED <<volume, listing>> /\ (Served' => Served)
    BY <1>10 DEF vars, Served
  <2> QED BY <1>0, <2>1, VolumeStepKeepsListed
<1> QED BY <1>1, <1>2, <1>3, <1>4, <1>5, <1>6, <1>7, <1>8, <1>9, <1>10 DEF Next

\* A listed directory is lost to one kind of step alone, on whatever card: its own
\* removal by a filesystem_remove whose probe could not read the card (being_listed).
\* That is what the run of ListedDirectoryStays finds; renaming, replacing, closing
\* and a card that is pulled never do it, nor does any of them free its clusters.
THEOREM OnlyItsRemovalLosesListed == Spec => ListedKept
<1>1. OpenInv /\ [Next]_vars =>
        [~RemovesListed => (ListedDirectoryStays => ListedDirectoryStays') /\ ListedNotFreed]_vars
  BY ListedStep
<1> QED BY <1>1, InductiveInvariant, PTL DEF Spec, ListedKept
================================================================================
