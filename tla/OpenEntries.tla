------------------------------ MODULE OpenEntries ------------------------------
(***************************************************************************)
(* What the filesystem layer's open handles reach: its pools of open files *)
(* and listings (filesystem.c), FatFs's table of open entries that keeps   *)
(* them from each other's way (FF_FS_LOCK in ff.c), and the adapter that   *)
(* tells FatFs when the card is gone (diskio.c).  The card may be pulled   *)
(* during any call, and any transfer of a flaky card may fail.             *)
(*                                                                         *)
(* The volume is one directory of places, each holding a file or a         *)
(* subdirectory; an object stands for its cluster chain.  Two places may   *)
(* name one chain, as a rename that was cut off leaves them, and the call  *)
(* that frees it for one frees it for the other: nothing repairs a volume. *)
(* A call that is refused, or that fails before it changed anything, is a  *)
(* stuttering step.  Which caller may make a call on a slot is in          *)
(* FileHandles.                                                            *)
(***************************************************************************)
EXTENDS Naturals, FiniteSets

CONSTANTS
    NumSlots,           \* FILESYSTEM_MAX_OPEN_FILES
    TableSize,          \* FF_FS_LOCK
    Places,             \* where an entry may be: FatFs tells files apart by it
    Files, Directories, \* the objects entries name
    Root,               \* the root directory, which is never locked
    None

ASSUME PoolAssumption == NumSlots \in 1 .. 255 /\ TableSize \in Nat   \* a slot's number is a byte
ASSUME TableAssumption == TableSize >= NumSlots + 1      \* the static_assert on FF_FS_LOCK
ASSUME ObjectsAssumption ==
    /\ Places \cap Directories = {} /\ Files \cap Directories = {}
    /\ Root \notin Files \cup Directories /\ None \notin Files \cup Directories \cup {Root}

VARIABLES
    device,         \* the card under the driver: "ready", or "gone" until the owner sets it up again
    drive,          \* the adapter's drive: "unbound" (not mounted), "ready", or "marked" as gone
    flaky,          \* may this card fail a transfer although it is there?
    tree,           \* tree[p]: the object the entry at p names, or None
    freed,          \* the chains that were freed though an entry names them still
    crossLinked,    \* (history) the chains named that two entries have shared, or that were
                    \* freed so, when the card was set up or since
    file,           \* file[s]: the open file in slot s, or None
    listing,        \* the open directory, or None
    locks,          \* Files[] of ff.c: the open entries and their counts
    falseSuccess    \* ghost: a close reported success for changes that are not on the card

volume == <<tree, freed, crossLinked>>
vars == <<device, flaky, drive, volume, file, listing, locks, falseSuccess>>

Slots == 1 .. NumSlots
Entries == 1 .. TableSize
Objects == Files \cup Directories
Writer == 256       \* the count of an entry open for writing

OpenFile == [place : Places, object : Files, lock : Entries, writer : BOOLEAN]
Listing == [object : Directories \cup {Root}, lock : {0} \cup Entries]
Entry == [key : Places \cup Directories, count : (1 .. NumSlots) \cup {Writer}]

ASSUME NoneAssumption == None \notin OpenFile \cup Listing \cup Entry

TypeOK ==
    /\ device \in {"ready", "gone"}
    /\ flaky \in BOOLEAN
    /\ drive \in {"unbound", "ready", "marked"}
    /\ tree \in [Places -> Objects \cup {None}]
    /\ freed \in SUBSET Objects /\ crossLinked \in SUBSET Objects
    /\ file \in [Slots -> OpenFile \cup {None}]
    /\ listing \in Listing \cup {None}
    /\ locks \in [Entries -> Entry \cup {None}]
    /\ falseSuccess \in BOOLEAN

\* The chains that two entries of a volume name.
Shared(t) == {x \in Objects : \E p, q \in Places : p # q /\ t[p] = x /\ t[q] = x}

Named(t) == {t[p] : p \in Places} \cap Objects

Init ==
    /\ device = "ready"
    /\ flaky \in BOOLEAN
    /\ drive = "unbound"
    /\ tree \in [Places -> Objects \cup {None}]
    /\ freed \in SUBSET Named(tree)
    /\ crossLinked = Shared(tree) \cup freed
    /\ file = [s \in Slots |-> None]
    /\ listing = None
    /\ locks = [i \in Entries |-> None]
    /\ falseSuccess = FALSE

(***************************************************************************)
(* What a transfer may come to: "ok", a transient "error", or the removal  *)
(* "gone", which the adapter records (map_result of diskio.c).  A drive    *)
(* marked as gone refuses everything from then on: mount_volume asks the   *)
(* device again, which keeps refusing until its owner sets it up, and      *)
(* validate turns open objects away.                                       *)
(***************************************************************************)
Served == drive = "ready"

Fault(e) == e = "gone" \/ (e = "error" /\ flaky /\ device = "ready")

\* A call that cannot do without a transfer.
Outcome(e) == Fault(e) \/ (e = "ok" /\ device = "ready")

Notice(e) ==
    IF e = "gone" THEN device' = "gone" /\ drive' = "marked" ELSE UNCHANGED <<device, drive>>

(***************************************************************************)
(* The table of open entries.  A file's key is its place; a listing's is   *)
(* the directory itself, so the two never match.                           *)
(***************************************************************************)
OpenAs(k) == {i \in Entries : locks[i] # None /\ locks[i].key = k}
Blank == {i \in Entries : locks[i] = None}

\* chk_share without looking whether the entry is open for reading.
ShareAllowsReplacing(k, access) ==
    IF OpenAs(k) = {}
    THEN access = "delete" \/ Blank # {}
    ELSE access # "delete" /\ \A i \in OpenAs(k) : locks[i].count # Writer

\* chk_share without looking whether the entry is open for writing.
ShareAllowsReaders(k, access) ==
    IF OpenAs(k) = {} THEN access = "delete" \/ Blank # {} ELSE access = "read"

ShareAllows(k, access) ==
    IF OpenAs(k) = {}
    THEN access = "delete" \/ Blank # {}
    ELSE access = "read" /\ \A i \in OpenAs(k) : locks[i].count # Writer

\* The entry inc_share uses for key k: the one open already, or the first blank one.
EntryFor(i, k) ==
    \/ i \in OpenAs(k)
    \/ OpenAs(k) = {} /\ i \in Blank /\ \A j \in Blank : i <= j

IncShare(i, k, writes) ==
    [locks EXCEPT ![i] = [key |-> k, count |-> IF writes THEN Writer
                                               ELSE IF @ = None THEN 1 ELSE @.count + 1]]

\* dec_share: the last holder, or the writer, blanks the entry.
DecShare(table, i) ==
    [table EXCEPT ![i] = IF @ = None \/ @.count \in {1, Writer} THEN None
                         ELSE [key |-> @.key, count |-> @.count - 1]]

(***************************************************************************)
(* filesystem_mount: binds the drive and mounts FatFs, which clears the    *)
(* table.  A mount that fails leaves everything as it was.                 *)
(***************************************************************************)
Mount ==
    /\ drive = "unbound" /\ device = "ready"
    /\ drive' = "ready"
    /\ locks' = [i \in Entries |-> None]
    /\ UNCHANGED <<flaky, device, volume, file, listing, falseSuccess>>

\* filesystem_unmount: drops every slot and every entry without touching the card.
Unmount ==
    /\ drive # "unbound"
    /\ drive' = "unbound"
    /\ file' = [s \in Slots |-> None]
    /\ listing' = None
    /\ locks' = [i \in Entries |-> None]
    /\ UNCHANGED <<flaky, device, volume, falseSuccess>>

\* Any call whose first transfer finds the card gone.
FindGone ==
    /\ Served
    /\ Notice("gone")
    /\ UNCHANGED <<flaky, volume, file, listing, locks, falseSuccess>>

FirstFree(s) == file[s] = None /\ \A r \in Slots : file[r] = None => s <= r

\* filesystem_open for reading (f_open).
OpenRead(p) ==
    /\ Served
    /\ tree[p] \in Files
    /\ ShareAllows(p, "read")
    /\ \E s \in Slots, i \in Entries :
         /\ FirstFree(s) /\ EntryFor(i, p)
         /\ file' = [file EXCEPT ![s] = [place |-> p, object |-> tree[p], lock |-> i, writer |-> FALSE]]
         /\ locks' = IncShare(i, p, FALSE)
    /\ UNCHANGED <<device, flaky, drive, volume, listing, falseSuccess>>

(***************************************************************************)
(* The entry at p lets go of its chain, and the chain is freed             *)
(* (remove_chain), also for another entry that names it.  A call that      *)
(* fails may leave it allocated.                                           *)
(***************************************************************************)
Others(p) == {tree[q] : q \in Places \ {p}} \cap Objects

FreeChain(p, e) ==
    /\ \/ freed' = (freed \cup {tree[p]}) \cap Others(p)
       \/ e # "ok" /\ freed' = freed \cap Others(p)
    /\ crossLinked' = crossLinked \cap Others(p)

(***************************************************************************)
(* filesystem_open for replacing: a new entry, or the old one truncated.   *)
(* The chain it is given is one no other entry names, or takes clusters of *)
(* one that was freed, and is taken for that one then.  The truncation may *)
(* fail half-way, with the file emptied and not opened.                    *)
(***************************************************************************)
OpenReplace(p) ==
    /\ Served
    /\ tree[p] \in Files \cup {None}
    /\ ShareAllows(p, "write")
    /\ \E s \in Slots, i \in Entries, new \in Files, e \in {"ok", "error", "gone"} :
         /\ FirstFree(s) /\ EntryFor(i, p)
         /\ e = "ok" \/ Fault(e)
         /\ FreeChain(p, e)
         /\ new \in freed' \/ new \notin Others(p)
         /\ tree' = [tree EXCEPT ![p] = new]
         /\ IF e = "ok"
            THEN /\ file' = [file EXCEPT ![s] = [place |-> p, object |-> new, lock |-> i, writer |-> TRUE]]
                 /\ locks' = IncShare(i, p, TRUE)
            ELSE tree[p] # None /\ UNCHANGED <<file, locks>>
         /\ Notice(e)
    /\ UNCHANGED <<flaky, listing, falseSuccess>>

(***************************************************************************)
(* One f_close of a FIL: a file with FA_MODIFIED set ("pending") is        *)
(* flushed first.  The flush may fail before its last step, or in it       *)
(* ("late"), when FatFs has cleared the flag already.                      *)
(***************************************************************************)
FClose(fil, e) ==
    IF fil.marked \/ fil.closed THEN fil
    ELSE IF ~fil.pending THEN [fil EXCEPT !.closed = TRUE]
    ELSE CASE e = "ok"    -> [fil EXCEPT !.closed = TRUE, !.written = TRUE]
           [] e = "early" -> fil
           [] e = "late"  -> [fil EXCEPT !.pending = FALSE]
           [] e = "gone"  -> [fil EXCEPT !.marked = TRUE]

\* What a flush may come to.
Flush(e) ==
    \/ e = "gone"
    \/ e = "ok" /\ device = "ready"
    \/ e \in {"early", "late"} /\ flaky /\ device = "ready"

\* The retry without setting the flag again.
RemodifiedNot(fil) == fil

Remodified(fil) == [fil EXCEPT !.pending = TRUE]

\* The close without the third attempt that gives the entry up.
GivenUpNot(fil) == fil

GivenUp(fil) == FClose([fil EXCEPT !.pending = FALSE], "ok")

(***************************************************************************)
(* filesystem_close: close, retry with the flag set again, and at last     *)
(* close without flushing, so that the entry is released.  The slot is     *)
(* free whatever happened.                                                 *)
(***************************************************************************)
Close(s) ==
    /\ file[s] # None
    /\ \E e, f \in {"ok", "early", "late", "gone"} :
         /\ Flush(e) /\ Flush(f)
         /\ LET first == FClose([pending |-> file[s].writer, written |-> ~file[s].writer,
                                 closed |-> FALSE, marked |-> ~Served], e)
                second == FClose(Remodified(first), f)
                third == GivenUp(second)
            IN  /\ locks' = IF third.closed THEN DecShare(locks, file[s].lock) ELSE locks
                /\ falseSuccess' = (falseSuccess \/ (second.closed /\ ~second.written))
                /\ IF Served /\ third.marked THEN Notice("gone") ELSE UNCHANGED <<device, drive>>
    /\ file' = [file EXCEPT ![s] = None]
    /\ UNCHANGED <<flaky, volume, listing>>

\* Opening a listing: the root is not locked (f_opendir).
ListedEntry(i, d) == IF d = Root THEN i = 0 ELSE i \in Entries /\ EntryFor(i, d)
ListedTable(i, d) == IF d = Root THEN locks ELSE IncShare(i, d, FALSE)
Unlisted(table, i) == IF i = 0 THEN table ELSE DecShare(table, i)

Opendir(d) ==
    /\ Served /\ listing = None
    /\ d = Root \/ \E p \in Places : tree[p] = d
    /\ \E i \in {0} \cup Entries :
         /\ ListedEntry(i, d)
         /\ listing' = [object |-> d, lock |-> i]
         /\ locks' = ListedTable(i, d)
    /\ UNCHANGED <<device, flaky, drive, volume, file, falseSuccess>>

(***************************************************************************)
(* filesystem_opendir with a pattern, where reading the first match failed *)
(* after the directory was opened: it is closed again, unless the card is  *)
(* gone, when FatFs keeps its entry until the unmount.                     *)
(***************************************************************************)
OpendirFails(d) ==
    /\ Served /\ listing = None
    /\ d = Root \/ \E p \in Places : tree[p] = d
    /\ \E i \in {0} \cup Entries, e \in {"error", "gone"} :
         /\ ListedEntry(i, d) /\ Fault(e)
         /\ locks' = IF e = "gone" THEN ListedTable(i, d) ELSE Unlisted(ListedTable(i, d), i)
         /\ Notice(e)
    /\ UNCHANGED <<flaky, volume, file, listing, falseSuccess>>

Closedir ==
    /\ listing # None
    /\ locks' = IF Served THEN Unlisted(locks, listing.lock) ELSE locks
    /\ listing' = None
    /\ UNCHANGED <<device, flaky, drive, volume, file, falseSuccess>>

\* A removal that does not look for a listing.
NeverListed(p, e) == FALSE

(***************************************************************************)
(* being_listed: the directory at p is probed by opening it.  A probe that *)
(* fails counts as "not listed".                                           *)
(***************************************************************************)
BeingListed(p, e) ==
    /\ listing # None /\ listing.object # Root
    /\ e = "ok" /\ tree[p] = listing.object

(***************************************************************************)
(* filesystem_remove (f_unlink): the entry goes, then its chain, then the  *)
(* volume is synced; a failure after the first step leaves the entry gone. *)
(***************************************************************************)
Remove(p) ==
    /\ Served
    /\ tree[p] # None
    /\ \E probe \in {"ok", "error"} :
         /\ probe = "ok" \/ Fault(probe)
         /\ ~BeingListed(p, probe)
    /\ ShareAllows(p, "delete")
    /\ tree' = [tree EXCEPT ![p] = None]
    /\ \E e \in {"ok", "error", "gone"} : Outcome(e) /\ FreeChain(p, e) /\ Notice(e)
    /\ UNCHANGED <<flaky, file, listing, locks, falseSuccess>>

(***************************************************************************)
(* filesystem_rename (f_rename): the new entry is written before the old   *)
(* one is removed, so a failure in between leaves both, with one chain.    *)
(***************************************************************************)
Rename(p, q) ==
    /\ Served
    /\ tree[p] # None /\ tree[q] = None
    /\ ShareAllows(p, "delete")
    /\ \E e \in {"ok", "error", "gone"}, kept \in {tree[p], None} :
         /\ Outcome(e)
         /\ e = "ok" => kept = None
         /\ tree' = [tree EXCEPT ![q] = tree[p], ![p] = kept]
         /\ crossLinked' = IF kept = None THEN crossLinked ELSE crossLinked \cup {kept}
         /\ Notice(e)
    /\ UNCHANGED <<flaky, freed, file, listing, locks, falseSuccess>>

(***************************************************************************)
(* The card is pulled, and the driver's latch keeps it gone until the      *)
(* coordinator, which unmounts first, sets up whatever is in the socket:   *)
(* any volume, also one with the traces of renames that were cut off.      *)
(***************************************************************************)
PullCard ==
    /\ device = "ready"
    /\ device' = "gone"
    /\ UNCHANGED <<flaky, drive, volume, file, listing, locks, falseSuccess>>

SetUpCard ==
    /\ device = "gone" /\ drive = "unbound"
    /\ device' = "ready"
    /\ flaky' \in BOOLEAN
    /\ tree' \in [Places -> Objects \cup {None}]
    /\ freed' \in SUBSET Named(tree')
    /\ crossLinked' = Shared(tree') \cup freed'
    /\ UNCHANGED <<drive, file, listing, locks, falseSuccess>>

Next ==
    \/ Mount
    \/ Unmount
    \/ FindGone
    \/ \E p \in Places : OpenRead(p) \/ OpenReplace(p) \/ Remove(p)
    \/ \E p, q \in Places : Rename(p, q)
    \/ \E s \in Slots : Close(s)
    \/ \E d \in Directories \cup {Root} : Opendir(d) \/ OpendirFails(d)
    \/ Closedir
    \/ PullCard
    \/ SetUpCard

Spec == Init /\ [][Next]_vars

--------------------------------------------------------------------------------
(***************************************************************************)
(* A file open for writing is open only once, whatever was opened, closed  *)
(* with errors, or dropped before: two writers, or a reader beside a       *)
(* writer, would corrupt the volume (filesystem.h, "Open entries").  The   *)
(* table tells files apart by their place (inc_share), so this holds of a  *)
(* place always, but of a chain only as long as one entry names it: two    *)
(* names that a rename cut off left, on this card or before it was set up, *)
(* are two files to it (f_rename).                                         *)
(***************************************************************************)
WritersAreAlone ==
    \A s, r \in Slots :
        /\ s # r /\ file[s] # None /\ file[r] # None
        /\ \/ file[s].place = file[r].place
           \/ file[s].object = file[r].object /\ file[s].object \notin crossLinked
        => ~file[s].writer /\ ~file[r].writer

(***************************************************************************)
(* What an open file reads and writes is still what its entry names: no    *)
(* other call removed, renamed or truncated it meanwhile, and no card      *)
(* changed under it.  Nor are its clusters freed under it, unless a rename *)
(* that was cut off had given its chain a second name, by which it can be  *)
(* removed and replaced as any other (filesystem.h, filesystem_rename).    *)
(***************************************************************************)
OpenFilesStay ==
    \A s \in Slots : file[s] # None =>
        /\ tree[file[s].place] = file[s].object
        /\ file[s].object \in freed => file[s].object \in crossLinked

(***************************************************************************)
(* While the drive serves calls, the directory a listing reads still       *)
(* exists: removing it would leave the listing reading freed clusters      *)
(* (being_listed), as it does only if a rename that was cut off left a     *)
(* second name the directory was removed by.                               *)
(***************************************************************************)
ListedDirectoryStays ==
    listing # None /\ Served =>
        \/ listing.object = Root
        \/ /\ \E p \in Places : tree[p] = listing.object
           /\ listing.object \in freed => listing.object \in crossLinked

(***************************************************************************)
(* The same on a card whose transfers fail only by its removal: there the  *)
(* probe of being_listed always tells.                                     *)
(***************************************************************************)
ListedDirectoryStaysIfSound == ~flaky => ListedDirectoryStays

(***************************************************************************)
(* While the drive serves calls, the open-entry table counts exactly the   *)
(* open slots.  An entry too many would refuse a file for ever, one too    *)
(* few would let an open file be truncated or removed (the three closes of *)
(* filesystem_close, the undone opendir).                                  *)
(***************************************************************************)
Holders(i) == {s \in Slots : file[s] # None /\ file[s].lock = i}
Listers(i) == IF listing # None /\ listing.lock = i THEN 1 ELSE 0

EntriesMatchHandles ==
    Served => \A i \in Entries :
        /\ locks[i] = None <=> Holders(i) = {} /\ Listers(i) = 0
        /\ locks[i] # None =>
             /\ \A s \in Holders(i) : file[s].place = locks[i].key
             /\ locks[i].count = IF \E s \in Holders(i) : file[s].writer THEN Writer
                                 ELSE Cardinality(Holders(i)) + Listers(i)

(***************************************************************************)
(* A close that reports success has put every change on the card, retried  *)
(* or not: the retry of a flush that failed in its last step would         *)
(* otherwise find nothing to write (filesystem_close).                     *)
(***************************************************************************)
ClosedMeansWritten == ~falseSuccess
================================================================================
