------------------------------ MODULE NosfsDisk ------------------------------
(***************************************************************************)
(* The on-disk NOSF volume of src/fs/nosfs_disk.c: superblock, directory   *)
(* and file payloads, written one sector at a time, over one disk.         *)
(*                                                                         *)
(* The RAM copy (s_sb, s_dir) is what the kernel works on; the d* variables*)
(* are the platter.  The machine may lose power between any two sector     *)
(* writes (Crash) and any sector write or mount-time read may fail.        *)
(*                                                                         *)
(* Abstraction: a sector holds SectorSize bytes; byte p of a file written  *)
(* with payload v is <<v, p>>; a name is a model value (valid_name holds   *)
(* for every name here).  Sector writes are atomic: they either happen or  *)
(* do not.  Bounds of the model: MaxFaults failing calls to the driver,    *)
(* MaxBadReads failing reads while mounting, MaxCrashes power losses.      *)
(*                                                                         *)
(* An operator whose name has a suffix after _ is a mutant: the definition *)
(* that follows it with one plausible error, which the properties reject.  *)
(***************************************************************************)
EXTENDS Integers, FiniteSets

CONSTANTS
  Names, Vals,          \* file names, payload identities
  SectorSize,           \* BLK_SECTOR_SIZE
  VolSects,             \* NOSFS_VOL_SECTS
  DirSects,             \* NOSF_DIR_SECTS
  PerSect,              \* directory entries per directory sector
  Lens,                 \* lengths of the files callers write, in bytes
  MaxFaults, MaxBadReads, MaxCrashes,
  NoName, Missing, Unknown, Zero

ASSUME NosfsAssumption ==
  /\ SectorSize \in Nat \ {0}
  /\ DirSects \in Nat \ {0}
  /\ PerSect \in Nat \ {0}
  /\ VolSects \in Nat
  /\ VolSects > DirSects
  /\ Lens \subseteq Nat
  /\ MaxFaults \in Nat /\ MaxBadReads \in Nat /\ MaxCrashes \in Nat
  /\ NoName \notin Names

VARIABLES
  dsb, ddir, ddata,     \* the platter: superblock, directory, payload sectors
  sb, dir,              \* s_sb, s_dir
  ph,                   \* where nosfs_disk.c is (see Phases)
  i,                    \* loop index of the phase
  cur,                  \* the put in progress: its arguments and its slot
  last,                 \* result of the last nosfs_disk_put
  faults, badReads, crashes,
  committed,            \* history: what each file must read back as
  old,                  \* history: what that put's file read as when it began
  ahead,                \* history: the platter's directory is newer than its superblock
  torn                  \* history: such a platter has been mounted

disk == <<dsb, ddir, ddata>>
ram == <<sb, dir>>
bounds == <<faults, badReads, crashes>>
history == <<committed, old, ahead, torn>>
vars == <<disk, ram, ph, i, cur, last, bounds, history>>

-----------------------------------------------------------------------------
(* Layout *)

Slots == 0 .. (DirSects * PerSect - 1)   \* NOSFS_MAX_FILES entries
DataLba == 1 + DirSects                  \* NOSF_DATA_LBA
DataLbas == DataLba .. (VolSects - 1)
SectorOf(s) == s \div PerSect            \* directory sector of an entry

\* "off": no power since the last crash, or before mount; "nodisk": the mount
\* gave up; "fmtsb"/"fmtdir": format_vol; "idle": mounted, no call in progress;
\* "data"/"dir"/"sb": nosfs_disk_put writing payload, directory, superblock.
Phases == {"off", "nodisk", "fmtsb", "fmtdir", "remount", "idle", "data", "dir", "sb"}
Ready == ph \in {"idle", "data", "dir", "sb"}       \* s_ready
Putting == ph \in {"data", "dir", "sb"}

FreeEnt == [name |-> NoName, size |-> 0, lba |-> 0, sects |-> 0, used |-> FALSE]
EmptyDir == [s \in Slots |-> FreeEnt]
FreshSb == [magic |-> TRUE, count |-> 0, next |-> DataLba]
NoSb == [magic |-> FALSE, count |-> 0, next |-> 0]
Idle == [name |-> NoName, val |-> Zero, len |-> 0, slot |-> 0, grew |-> FALSE]

Need(len) == (len + SectorSize - 1) \div SectorSize

-----------------------------------------------------------------------------
(* Directory searches *)

First(S) == CHOOSE s \in S : \A t \in S : s <= t
UsedSlots(d) == {s \in Slots : d[s].used}
FreeSlots_Any(d) == Slots                        \* mutant: takes a used entry
FreeSlots(d) == Slots \ UsedSlots(d)
Entries(d, n) == {s \in UsedSlots(d) : d[s].name = n}     \* find_ent
Extent(e) == e.lba .. (e.lba + e.sects - 1)

\* What nosfs_disk_read gives for a whole file, through directory d.
ReadAll(d, data, n) ==
  IF Entries(d, n) = {} THEN Missing
  ELSE LET e == d[First(Entries(d, n))]
       IN  [p \in 0 .. (e.size - 1) |->
              data[e.lba + p \div SectorSize][p % SectorSize]]

Bytes(v, len) == [p \in 0 .. (len - 1) |-> <<v, p>>]

\* No contents are mistaken for a missing file.
ASSUME MissingAssumption == \A v \in Vals, len \in Lens : Bytes(v, len) # Missing

\* Sector k of a file, the rest of its last sector zeroed.
Payload(v, len, k) ==
  [o \in 0 .. (SectorSize - 1) |->
     IF k * SectorSize + o < len THEN <<v, k * SectorSize + o>> ELSE Zero]

-----------------------------------------------------------------------------
Init ==
  /\ dsb = NoSb
  /\ ddir = EmptyDir
  /\ ddata = [l \in DataLbas |-> [o \in 0 .. (SectorSize - 1) |-> Zero]]
  /\ sb = NoSb /\ dir = EmptyDir
  /\ ph = "off" /\ i = 0 /\ cur = Idle /\ last = "none"
  /\ faults = 0 /\ badReads = 0 /\ crashes = 0
  /\ committed = [n \in Names |-> Missing] /\ old = Missing
  /\ ahead = FALSE /\ torn = FALSE

(* load_meta: the checks on the superblock that a platter can fail.  The   *)
(* geometry fields are constants of the build and always match.            *)
Loadable == dsb.magic /\ dsb.next \in DataLba .. VolSects

LoadMeta ==
  /\ Loadable
  /\ sb' = dsb /\ dir' = ddir
  /\ torn' = (torn \/ ahead)

(* nosfs_disk_mount, disk already holding a volume. *)
Mount ==
  /\ ph = "off"
  /\ LoadMeta
  /\ ph' = "idle"
  /\ UNCHANGED <<disk, i, cur, last, bounds, committed, old, ahead>>

(* nosfs_disk_mount after load_meta failed: no volume, or a read error on  *)
(* one.  Formatting starts in RAM.                                         *)
MountFormat ==
  /\ ph = "off"
  /\ \/ ~Loadable /\ UNCHANGED badReads
     \/ /\ Loadable
        /\ badReads < MaxBadReads
        /\ badReads' = badReads + 1
  /\ sb' = FreshSb /\ dir' = EmptyDir
  /\ ph' = "fmtsb" /\ i' = 0
  /\ UNCHANGED <<disk, cur, last, faults, crashes, history>>

FormatSb ==
  /\ ph = "fmtsb"
  /\ dsb' = sb
  /\ ph' = "fmtdir" /\ i' = 0
  /\ ahead' = (UsedSlots(ddir) # {})
  /\ committed' = [n \in Names |-> IF committed[n] = Missing THEN Missing ELSE Unknown]
  /\ UNCHANGED <<ddir, ddata, ram, cur, last, bounds, old, torn>>

FormatDir ==
  /\ ph = "fmtdir"
  /\ ddir' = [s \in Slots |-> IF SectorOf(s) = i THEN FreeEnt ELSE ddir[s]]
  /\ IF i + 1 < DirSects
       THEN /\ i' = i + 1
            /\ UNCHANGED <<ph, committed, ahead, torn>>
       ELSE /\ ph' = "remount" /\ i' = 0
            /\ ahead' = FALSE /\ torn' = FALSE
            /\ committed' = [n \in Names |-> Missing]
  /\ UNCHANGED <<dsb, ddata, ram, cur, last, bounds, old>>

FormatFails ==
  /\ ph \in {"fmtsb", "fmtdir"}
  /\ faults < MaxFaults
  /\ faults' = faults + 1
  /\ ph' = "nodisk" /\ i' = 0
  /\ UNCHANGED <<disk, ram, cur, last, badReads, crashes, history>>

(* load_meta once more after format_vol. *)
Remount ==
  /\ ph = "remount"
  /\ \/ /\ LoadMeta
        /\ ph' = "idle"
        /\ UNCHANGED badReads
     \/ /\ badReads < MaxBadReads
        /\ badReads' = badReads + 1
        /\ ph' = "nodisk"
        /\ UNCHANGED <<ram, torn>>
  /\ UNCHANGED <<disk, i, cur, last, faults, crashes, committed, old, ahead>>

(* nosfs_disk_reload: its one caller, the boot self test, calls it right   *)
(* after a put that returned 0.                                            *)
Reload ==
  /\ ph = "idle" /\ last = "ok"
  /\ \/ /\ LoadMeta
        /\ last' = "none"
        /\ UNCHANGED <<ph, badReads>>
     \/ /\ badReads < MaxBadReads
        /\ badReads' = badReads + 1
        /\ ph' = "nodisk" /\ last' = "none"
        /\ UNCHANGED <<ram, torn>>
  /\ UNCHANGED <<disk, i, cur, faults, crashes, committed, old, ahead>>

-----------------------------------------------------------------------------
(* nosfs_disk_put *)

\* The directory and superblock after find_ent, or find_free and the claim.
Claimed(n, s) ==
  IF Entries(dir, n) # {} THEN dir
  ELSE [dir EXCEPT ![s] = [FreeEnt EXCEPT !.name = n, !.used = TRUE]]

ClaimedCount(n) == sb.count + (IF Entries(dir, n) # {} THEN 0 ELSE 1)

SlotFor(n) ==
  IF Entries(dir, n) # {} THEN First(Entries(dir, n)) ELSE First(FreeSlots(dir))

HasSlot(n) == Entries(dir, n) # {} \/ FreeSlots(dir) # {}

Grows(n, len) == Need(len) > Claimed(n, SlotFor(n))[SlotFor(n)].sects
Fits_OffByOne(len) == sb.next + Need(len) <= VolSects + 1   \* mutant
Fits(len) == sb.next + Need(len) <= VolSects

PutNoSlot(n) ==
  /\ ph = "idle"
  /\ ~HasSlot(n)
  /\ last' = "fail"
  /\ UNCHANGED <<disk, ram, ph, i, cur, bounds, history>>

Uncounted_NoGuard(n) == ClaimedCount(n) - 1     \* mutant: no test for zero
Uncounted(n) == IF ClaimedCount(n) > 0 THEN ClaimedCount(n) - 1 ELSE 0

\* The rollback test of a put that does not fit looks at the entry's size and
\* extent, which an existing empty file matches too.
RollsBack(e) == e.size = 0 /\ e.sects = 0

(* Volume full. *)
PutFull(n, len) ==
  /\ ph = "idle"
  /\ HasSlot(n) /\ Grows(n, len) /\ ~Fits(len)
  /\ last' = "fail"
  /\ LET s == SlotFor(n)
         e == Claimed(n, s)[s]
         rollback == RollsBack(e)
     IN  /\ dir' = IF rollback THEN [dir EXCEPT ![s] = FreeEnt] ELSE dir
         /\ sb' = IF rollback THEN [sb EXCEPT !.count = Uncounted(n)] ELSE sb
         /\ committed' = IF rollback /\ Entries(dir, n) # {}
                           THEN [committed EXCEPT ![n] = Unknown] ELSE committed
  /\ UNCHANGED <<disk, ph, i, cur, bounds, old, ahead, torn>>

\* The entry once its extent is settled: kept if large enough, else moved to
\* next_data.
Placed(n, len) ==
  LET e == Claimed(n, SlotFor(n))[SlotFor(n)]
  IN  IF Grows(n, len) THEN [e EXCEPT !.lba = sb.next, !.sects = Need(len)] ELSE e

PutStart(n, v, len) ==
  /\ ph = "idle"
  /\ HasSlot(n)
  /\ Grows(n, len) => Fits(len)
  /\ LET s == SlotFor(n)
         grew == Grows(n, len)
         begun == Placed(n, len).sects > 0
     IN  /\ dir' = [Claimed(n, s) EXCEPT ![s] = Placed(n, len)]
         /\ sb' = [sb EXCEPT !.count = ClaimedCount(n),
                             !.next = IF grew THEN sb.next + Need(len) ELSE sb.next]
         /\ cur' = [name |-> n, val |-> v, len |-> len, slot |-> s, grew |-> grew]
         /\ ph' = IF begun THEN "data" ELSE "dir"
  /\ i' = 0
  /\ old' = ReadAll(dir, ddata, n)
  /\ UNCHANGED <<disk, last, bounds, committed, ahead, torn>>

(* One vol_write of the put in progress, as the platter sees it. *)
SectorWrite ==
  \/ /\ ph = "data"
     /\ ddata' = [ddata EXCEPT ![dir[cur.slot].lba + i] = Payload(cur.val, cur.len, i)]
     /\ UNCHANGED <<dsb, ddir, ahead>>
  \/ /\ ph = "dir"
     /\ ddir' = [s \in Slots |-> IF SectorOf(s) = i THEN dir[s] ELSE ddir[s]]
     /\ ahead' = (ahead \/ dsb # sb)
     /\ UNCHANGED <<dsb, ddata>>
  \/ /\ ph = "sb"
     /\ dsb' = sb
     /\ ahead' = FALSE
     /\ UNCHANGED <<ddir, ddata>>

WriteData ==
  /\ ph = "data"
  /\ SectorWrite
  /\ IF i + 1 < dir[cur.slot].sects
       THEN i' = i + 1 /\ UNCHANGED <<ph, dir>>
       ELSE /\ i' = 0 /\ ph' = "dir"
            /\ dir' = [dir EXCEPT ![cur.slot].size = cur.len]
  /\ UNCHANGED <<sb, cur, last, bounds, committed, old, torn>>

WriteDir_Short ==                                \* mutant: last sector not flushed
  /\ ph = "dir"
  /\ SectorWrite
  /\ IF i + 2 < DirSects
       THEN i' = i + 1 /\ UNCHANGED ph
       ELSE i' = 0 /\ ph' = "sb"
  /\ UNCHANGED <<ram, cur, last, bounds, committed, old, torn>>

WriteDir ==
  /\ ph = "dir"
  /\ SectorWrite
  /\ IF i + 1 < DirSects
       THEN i' = i + 1 /\ UNCHANGED ph
       ELSE i' = 0 /\ ph' = "sb"
  /\ UNCHANGED <<ram, cur, last, bounds, committed, old, torn>>

WriteSb ==
  /\ ph = "sb"
  /\ SectorWrite
  /\ ph' = "idle" /\ last' = "ok" /\ cur' = Idle
  /\ committed' = [committed EXCEPT ![cur.name] = Bytes(cur.val, cur.len)]
  /\ old' = Missing
  /\ UNCHANGED <<ram, i, bounds, torn>>

(* A vol_write returned -1, whether or not the sector reached the platter: *)
(* the put returns at once and leaves s_sb and s_dir as they are.          *)
PutFails ==
  /\ Putting
  /\ faults < MaxFaults
  /\ faults' = faults + 1
  /\ SectorWrite \/ UNCHANGED <<disk, ahead>>
  /\ ph' = "idle" /\ i' = 0 /\ last' = "fail" /\ cur' = Idle
  /\ committed' = [committed EXCEPT ![cur.name] = Unknown]
  /\ old' = Missing
  /\ UNCHANGED <<ram, badReads, crashes, torn>>

-----------------------------------------------------------------------------
(* Power loss.  A put that was moving its file to fresh sectors and had    *)
(* not reached the directory leaves the previous contents readable.        *)
Crash ==
  /\ ph # "off"
  /\ crashes < MaxCrashes
  /\ crashes' = crashes + 1
  /\ sb' = NoSb /\ dir' = EmptyDir
  /\ ph' = "off" /\ i' = 0 /\ cur' = Idle /\ last' = "none"
  /\ committed' = IF Putting /\ ~(ph = "data" /\ cur.grew)
                    THEN [committed EXCEPT ![cur.name] = Unknown] ELSE committed
  /\ old' = Missing
  /\ UNCHANGED <<disk, faults, badReads, ahead, torn>>

Next ==
  \/ Mount \/ MountFormat \/ FormatSb \/ FormatDir \/ FormatFails \/ Remount
  \/ Reload
  \/ \E n \in Names :
       \/ PutNoSlot(n)
       \/ \E len \in Lens :
            \/ PutFull(n, len)
            \/ \E v \in Vals : PutStart(n, v, len)
  \/ WriteData \/ WriteDir \/ WriteSb \/ PutFails
  \/ Crash

Spec == Init /\ [][Next]_vars

-----------------------------------------------------------------------------
Ent == [name : Names \cup {NoName}, size : Nat, lba : Nat, sects : Nat, used : BOOLEAN]
SuperBlock == [magic : BOOLEAN, count : Nat, next : Nat]

(* Every variable of nosfs_disk.c and of the platter keeps its type.       *)
TypeOK ==
  /\ dsb \in SuperBlock /\ sb \in SuperBlock
  /\ ddir \in [Slots -> Ent] /\ dir \in [Slots -> Ent]
  /\ ph \in Phases
  /\ i \in Nat
  /\ cur \in [name : Names \cup {NoName}, val : Vals \cup {Zero},
               len : Nat, slot : Slots, grew : BOOLEAN]
  /\ last \in {"none", "ok", "fail"}
  /\ faults \in 0 .. MaxFaults
  /\ badReads \in 0 .. MaxBadReads
  /\ crashes \in 0 .. MaxCrashes
  /\ ahead \in BOOLEAN /\ torn \in BOOLEAN

(* No two files of a mounted volume share a sector, and next_data is past  *)
(* every file and inside the volume (find_ent and the bump allocation of   *)
(* nosfs_disk_put, nosfs_disk.c:427-453), through failed writes, reloads   *)
(* and power losses, unless a directory newer than its superblock was      *)
(* mounted.                                                                *)
Disjoint(d) ==
  \A s \in UsedSlots(d) : \A t \in UsedSlots(d) :
     s # t => Extent(d[s]) \cap Extent(d[t]) = {}
BelowNext(d, b) ==
  \A s \in UsedSlots(d) : d[s].sects > 0 =>
     DataLba <= d[s].lba /\ d[s].lba + d[s].sects <= b.next
NoOverlap ==
  Ready /\ ~torn => Disjoint(dir) /\ BelowNext(dir, sb) /\ sb.next <= VolSects

(* The strengthening of NoOverlap that every step preserves: while no      *)
(* platter with a directory newer than its superblock has been mounted,    *)
(* the platter's own directory is disjoint and, unless the superblock lags *)
(* behind, below its next_data; and on a mounted volume no entry of the    *)
(* platter meets another entry of s_dir, so any mixture of old and new     *)
(* directory sectors is disjoint.                                          *)
Compatible(d, e) ==
  \A s \in UsedSlots(d) : \A t \in UsedSlots(e) :
     s # t => Extent(d[s]) \cap Extent(e[t]) = {}
PlatterOK ==
  /\ Compatible(ddir, ddir)
  /\ ~ahead => BelowNext(ddir, dsb)
RamOK ==
  /\ Compatible(dir, dir)
  /\ BelowNext(dir, sb)
  /\ sb.next \in DataLba .. VolSects
RamMeetsPlatter ==
  /\ Compatible(ddir, dir)
  /\ BelowNext(ddir, sb)
FormatProgress ==
  ph = "fmtdir" => i < DirSects /\ \A s \in UsedSlots(ddir) : SectorOf(s) >= i
IInv ==
  /\ TypeOK
  /\ ~torn => PlatterOK
  /\ Ready /\ ~torn => RamOK /\ RamMeetsPlatter
  /\ FormatProgress

(* file_count, the answer of nosfs_disk_list(NULL), is the number of used  *)
(* entries between calls, through refused and failed puts and reloads, for *)
(* as long as the power stays on.                                          *)
CountMatches ==
  ph = "idle" /\ crashes = 0 => sb.count = Cardinality(UsedSlots(dir))

(* Between calls, a file reads back as its last completed put left it: a   *)
(* put to another file, a failed put to another file, a power loss during  *)
(* a put to another file, or during its own growing put, never changes it. *)
CommittedReadsBack ==
  ph = "idle" /\ ~torn =>
    \A n \in Names : committed[n] # Unknown => ReadAll(dir, ddata, n) = committed[n]

(* What the volume says of itself is true: its count is the entries in use *)
(* and each entry leads to the bytes that were put (nosfs_disk_put).       *)
VolumeReadsBack == CountMatches /\ CommittedReadsBack

-----------------------------------------------------------------------------
(* next_data is "next free relative LBA" (docs/nosfs.md:78): no file of a  *)
(* mounted volume lies at or past it.                                      *)
NextDataIsFree == ph = "idle" => BelowNext(dir, sb)

(* The rollback of a put refused for lack of space is for a "New empty     *)
(* slot we just claimed" (nosfs_disk.c:442): a refused put leaves every    *)
(* file as it was.                                                         *)
RefusedPutKeepsFiles ==
  [][ph = "idle" /\ ph' = "idle" /\ last' = "fail" =>
       \A n \in Names : ReadAll(dir', ddata', n) = ReadAll(dir, ddata, n)]_vars

-----------------------------------------------------------------------------
(* The volume implements FileStore: while a put is in progress its file    *)
(* still counts as the old one; before the mount, as what the platter      *)
(* holds.                                                                  *)
Files ==
  [n \in Names |->
     IF Putting /\ n = cur.name THEN old
     ELSE ReadAll(IF Ready THEN dir ELSE ddir, ddata, n)]

AllContents == {Bytes(v, len) : v \in Vals, len \in Lens}
Store == INSTANCE FileStore WITH
           Contents <- AllContents, Empty <- << >>, files <- Files, busy <- cur.name

(* As long as the power stays on, a put replaces one whole file or leaves  *)
(* every other file alone, whatever sectors fail (nosfs_disk_put,          *)
(* nosfs_disk_read): every step of the volume is one of FileStore or none. *)
ImplementsFileStore == Store!Init /\ [][crashes' > 0 \/ Store!Next]_<<Files, cur.name>>
=============================================================================
