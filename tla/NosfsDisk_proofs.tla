-------------------------- MODULE NosfsDisk_proofs --------------------------
(***************************************************************************)
(* The volume for every size of volume, directory and file, and every      *)
(* number of faults and power losses: no sector belongs to two files       *)
(* (IInv), a file whose put ended well reads back what was put (CInv, on   *)
(* top of IInv), and up to the first loss of power every step is one of    *)
(* FileStore or changes nothing that FileStore sees.                       *)
(***************************************************************************)
EXTENDS NosfsDisk, FiniteSetTheorems, WellFoundedInduction, TLAPS

LEMMA MultiplyMonotone ==
  ASSUME NEW k \in Nat, NEW a \in Nat, NEW b \in Nat, a <= b
  PROVE  k * a <= k * b
<1> DEFINE d == b - a
<1>1. d \in Nat /\ b = a + d
  OBVIOUS
<1>2. k * d \in Nat
  BY <1>1
<1>3. k * (a + d) = k * a + k * d
  BY <1>1
<1> QED BY <1>1, <1>2, <1>3

(* Every entry lies in a sector of the directory (nosfs_disk.c:147-151). *)
LEMMA SectorOfInRange ==
  ASSUME NEW s \in Slots
  PROVE  SectorOf(s) \in 0 .. (DirSects - 1)
<1> DEFINE q == s \div PerSect
           r == s % PerSect
<1>1. s \in Nat /\ s < DirSects * PerSect
  BY NosfsAssumption DEF Slots
<1>2. q \in Nat /\ r \in 0 .. (PerSect - 1) /\ s = PerSect * q + r
  BY <1>1, NosfsAssumption
<1>3. ASSUME q >= DirSects PROVE FALSE
  <2> HIDE DEF q, r
  <2>1. PerSect * DirSects <= PerSect * q
    BY <1>2, <1>3, MultiplyMonotone, NosfsAssumption
  <2> QED BY <1>1, <1>2, <2>1, NosfsAssumption
<1> QED BY <1>2, <1>3, NosfsAssumption DEF SectorOf

LEMMA LessThanWellFounded ==
  IsWellFoundedOn({pair \in Nat \X Nat : pair[1] < pair[2]}, Nat)
<1>1. OpToRel(<, Nat) = {pair \in Nat \X Nat : pair[1] < pair[2]}
  BY DEF OpToRel
<1> QED BY <1>1, NatLessThanWellFounded

(* find_ent and find_free return an entry of the set they search. *)
LEMMA FirstInSet ==
  ASSUME NEW S \in SUBSET Slots, S # {}
  PROVE  First(S) \in S
<1>1. S \subseteq Nat
  BY NosfsAssumption DEF Slots
<1>2. PICK x \in S : \A y \in S : ~ (<<y, x>> \in {pair \in Nat \X Nat : pair[1] < pair[2]})
  BY <1>1, WFMin, LessThanWellFounded
<1>3. ASSUME NEW y \in S PROVE x <= y
  <2>1. x \in Nat /\ y \in Nat
    BY <1>1
  <2>2. y < x => <<y, x>> \in {pair \in Nat \X Nat : pair[1] < pair[2]}
    BY <2>1
  <2> QED BY <1>2, <2>1, <2>2
<1> QED BY <1>3 DEF First

(* The slot a put works on is a slot of the directory, used by that file   *)
(* or by none.                                                             *)
LEMMA SlotForInRange ==
  ASSUME NEW n \in Names, HasSlot(n)
  PROVE  SlotFor(n) \in Slots
<1>1. Entries(dir, n) \in SUBSET Slots /\ FreeSlots(dir) \in SUBSET Slots
  BY DEF Entries, UsedSlots, FreeSlots
<1> QED BY <1>1, FirstInSet DEF SlotFor, HasSlot
LEMMA NeedIsNat ==
  ASSUME NEW len \in Lens
  PROVE  Need(len) \in Nat
BY NosfsAssumption DEF Need

(* The entry and the superblock nosfs_disk_put settles on before it writes *)
(* are well typed.                                                         *)
LEMMA PlacedType ==
  ASSUME TypeOK, NEW n \in Names, HasSlot(n), NEW len \in Lens
  PROVE  /\ Claimed(n, SlotFor(n)) \in [Slots -> Ent]
         /\ Placed(n, len) \in Ent
<1>1. SlotFor(n) \in Slots
  BY SlotForInRange
<1>2. Claimed(n, SlotFor(n)) \in [Slots -> Ent]
  BY <1>1 DEF TypeOK, Claimed, FreeEnt, Ent
<1>3. Need(len) \in Nat /\ sb.next \in Nat
  BY NeedIsNat DEF TypeOK, SuperBlock
<1>4. Placed(n, len) \in Ent
  BY <1>1, <1>2, <1>3 DEF Placed, Ent
<1> QED BY <1>2, <1>4

LEMMA IdleType ==
  Idle \in [name : Names \cup {NoName}, val : Vals \cup {Zero},
            len : Nat, slot : Slots, grew : BOOLEAN]
<1>1. 1 <= DirSects * PerSect
  BY MultiplyMonotone, NosfsAssumption
<1> QED BY <1>1, NosfsAssumption DEF Idle, Slots

LEMMA TypeStep ==
  ASSUME TypeOK, [Next]_vars
  PROVE  TypeOK'
<1> USE NosfsAssumption DEF TypeOK, disk, ram, bounds, history, SuperBlock, Phases
<1>1. CASE Mount
  BY <1>1 DEF Mount, LoadMeta
<1>2. CASE MountFormat
  BY <1>2 DEF MountFormat, FreshSb, EmptyDir, FreeEnt, Ent, DataLba
<1>3. CASE FormatSb
  <2>1. ahead' \in BOOLEAN
    BY <1>3, Zenon DEF FormatSb
  <2> QED BY <1>3, <2>1 DEF FormatSb
<1>4. CASE FormatDir
  <2>1. ddir' \in [Slots -> Ent]
    BY <1>4 DEF FormatDir, FreeEnt, Ent
  <2>2. CASE i + 1 < DirSects
    BY <1>4, <2>1, <2>2 DEF FormatDir
  <2>3. CASE ~(i + 1 < DirSects)
    <3>1. ahead' \in BOOLEAN /\ torn' \in BOOLEAN
      BY <1>4, <2>3, Zenon DEF FormatDir
    <3>2. i' \in Nat /\ ph' \in Phases
      BY <1>4, <2>3 DEF FormatDir
    <3>3. UNCHANGED <<dsb, sb, dir, cur, last, faults, badReads, crashes>>
      BY <1>4 DEF FormatDir
    <3> QED BY <2>1, <3>1, <3>2, <3>3
  <2> QED BY <2>2, <2>3
<1>5. CASE FormatFails
  BY <1>5 DEF FormatFails
<1>6. CASE Remount
  BY <1>6 DEF Remount, LoadMeta
<1>7. CASE Reload
  BY <1>7 DEF Reload, LoadMeta
<1>8. ASSUME NEW n \in Names, PutNoSlot(n) PROVE TypeOK'
  BY <1>8 DEF PutNoSlot
<1>9. ASSUME NEW n \in Names, NEW len \in Lens, PutFull(n, len) PROVE TypeOK'
  <2>1. SlotFor(n) \in Slots
    BY <1>9, SlotForInRange DEF PutFull
  <2>2. dir' \in [Slots -> Ent]
    BY <1>9, <2>1 DEF PutFull, FreeEnt, Ent
  <2>3. sb' \in SuperBlock
    BY <1>9 DEF PutFull, Uncounted, ClaimedCount
  <2> QED BY <1>9, <2>2, <2>3 DEF PutFull
<1>10. ASSUME NEW n \in Names, NEW len \in Lens, NEW v \in Vals, PutStart(n, v, len)
       PROVE  TypeOK'
  <2>1. SlotFor(n) \in Slots
    BY <1>10, SlotForInRange DEF PutStart
  <2>2. Claimed(n, SlotFor(n)) \in [Slots -> Ent] /\ Placed(n, len) \in Ent
    BY <1>10, PlacedType DEF PutStart
  <2>3. dir' \in [Slots -> Ent]
    BY <1>10, <2>1, <2>2 DEF PutStart
  <2>4. sb' \in SuperBlock
    <3>1. ClaimedCount(n) \in Nat
      BY DEF ClaimedCount
    <3>2. Need(len) \in Nat
      BY NeedIsNat
    <3>3. sb.next \in Nat /\ sb.magic \in BOOLEAN
      OBVIOUS
    <3>4. /\ sb'.count = ClaimedCount(n)
          /\ sb'.next = IF Grows(n, len) THEN sb.next + Need(len) ELSE sb.next
          /\ sb' = [sb EXCEPT !.count = sb'.count, !.next = sb'.next]
      BY <1>10 DEF PutStart
    <3>5. sb'.count \in Nat /\ sb'.next \in Nat
      BY <3>1, <3>2, <3>3, <3>4
    <3> QED BY <3>4, <3>5
  <2>5. cur' \in [name : Names \cup {NoName}, val : Vals \cup {Zero},
                  len : Nat, slot : Slots, grew : BOOLEAN]
    BY <1>10, <2>1 DEF PutStart, Grows
  <2> QED BY <1>10, <2>3, <2>4, <2>5 DEF PutStart
<1>11. CASE WriteData
  <2>1. dir' \in [Slots -> Ent]
    <3>1. [dir EXCEPT ![cur.slot].size = cur.len] \in [Slots -> Ent]
      <4>1. [dir[cur.slot] EXCEPT !.size = cur.len] \in Ent
        BY DEF Ent
      <4> QED BY <4>1
    <3> QED BY <1>11, <3>1 DEF WriteData
  <2>2. i' \in Nat /\ ph' \in Phases
    BY <1>11 DEF WriteData
  <2>3. UNCHANGED <<dsb, ddir, sb, cur, last, faults, badReads, crashes, ahead, torn>>
    BY <1>11 DEF WriteData, SectorWrite
  <2> QED BY <2>1, <2>2, <2>3
<1>12. CASE WriteDir
  BY <1>12 DEF WriteDir, SectorWrite
<1>13. CASE WriteSb
  BY <1>13, IdleType DEF WriteSb, SectorWrite
<1>14. CASE PutFails
  <2>1. ahead' \in BOOLEAN
    BY <1>14, Zenon DEF PutFails, SectorWrite
  <2>2. dsb' \in SuperBlock /\ ddir' \in [Slots -> Ent]
    BY <1>14 DEF PutFails, SectorWrite
  <2> QED BY <1>14, <2>1, <2>2, IdleType DEF PutFails
<1>15. CASE Crash
  BY <1>15, IdleType DEF Crash, NoSb, EmptyDir, FreeEnt, Ent
<1>16. CASE UNCHANGED vars
  BY <1>16 DEF vars
<1> QED
  BY <1>1, <1>2, <1>3, <1>4, <1>5, <1>6, <1>7, <1>8, <1>9, <1>10, <1>11, <1>12,
     <1>13, <1>14, <1>15, <1>16 DEF Next

-----------------------------------------------------------------------------
(* load_meta: a platter whose superblock does not lag behind its directory *)
(* gives a sound RAM copy.                                                 *)
LEMMA LoadStep ==
  ASSUME IInv, LoadMeta, UNCHANGED <<disk, ahead>>, ~torn'
  PROVE  PlatterOK' /\ RamOK' /\ RamMeetsPlatter'
<1>1. ~torn /\ ~ahead
  BY Zenon DEF LoadMeta
<1>2. /\ Compatible(ddir, ddir) /\ BelowNext(ddir, dsb)
      /\ dsb.next \in DataLba .. VolSects
      /\ sb' = dsb /\ dir' = ddir /\ dsb' = dsb /\ ddir' = ddir
  BY <1>1 DEF IInv, PlatterOK, LoadMeta, Loadable, disk
<1> QED BY <1>2 DEF PlatterOK, RamOK, RamMeetsPlatter

(* A step that leaves both directories and both superblocks alone.         *)
LEMMA QuietStep ==
  ASSUME IInv, UNCHANGED <<dsb, ddir, sb, dir, ahead, torn>>, Ready' => Ready
  PROVE  /\ ~torn' => PlatterOK'
         /\ Ready' /\ ~torn' => RamOK' /\ RamMeetsPlatter'
BY DEF IInv, PlatterOK, RamOK, RamMeetsPlatter

(* What holds of two directories holds when an entry of the second is      *)
(* replaced by one whose extent meets no other.                            *)
LEMMA CompatibleReplace ==
  ASSUME NEW d, NEW e, NEW f, NEW s \in Slots,
         Compatible(d, e),
         \A t \in Slots \ {s} : f[t] = e[t],
         f[s].used => \A t \in UsedSlots(d) : t # s => Extent(d[t]) \cap Extent(f[s]) = {}
  PROVE  Compatible(d, f)
BY DEF Compatible, UsedSlots

LEMMA CompatibleSymmetric ==
  ASSUME NEW d, NEW e, Compatible(d, e)
  PROVE  Compatible(e, d)
BY DEF Compatible

(* A fresh extent at next_data meets nothing below next_data.              *)
LEMMA FreshExtent ==
  ASSUME NEW d \in [Slots -> Ent], NEW b \in SuperBlock, BelowNext(d, b),
         NEW e \in Ent, e.lba = b.next,
         NEW t \in UsedSlots(d)
  PROVE  Extent(d[t]) \cap Extent(e) = {}
<1>1. d[t] \in Ent /\ t \in Slots
  BY DEF UsedSlots
<1>2. CASE d[t].sects = 0
  BY <1>1, <1>2 DEF Extent, Ent
<1>3. CASE d[t].sects > 0
  <2>1. d[t].lba + d[t].sects <= b.next
    BY <1>3 DEF BelowNext
  <2> QED BY <1>1, <2>1 DEF Extent, Ent, SuperBlock
<1> QED BY <1>1, <1>2, <1>3 DEF Ent

LEMMA EmptyExtent ==
  ASSUME NEW e \in Ent, e.sects = 0
  PROVE  Extent(e) = {}
BY DEF Extent, Ent

(* flush_dir interrupted anywhere: a directory whose entries each come     *)
(* from one of two mutually compatible directories.                        *)
LEMMA Mixture ==
  ASSUME NEW d, NEW e, NEW f, NEW b,
         Compatible(d, d), Compatible(d, e), Compatible(e, e),
         BelowNext(d, b), BelowNext(e, b),
         \A t \in Slots : f[t] = d[t] \/ f[t] = e[t]
  PROVE  Compatible(f, f) /\ Compatible(f, e) /\ BelowNext(f, b)
<1>1. ASSUME NEW t \in UsedSlots(f)
      PROVE  \/ t \in UsedSlots(d) /\ f[t] = d[t]
             \/ t \in UsedSlots(e) /\ f[t] = e[t]
  <2>1. t \in Slots /\ f[t].used
    BY DEF UsedSlots
  <2>2. CASE f[t] = d[t]
    <3>1. d[t].used
      BY <2>1, <2>2, Zenon
    <3> QED BY <2>1, <2>2, <3>1 DEF UsedSlots
  <2>3. CASE f[t] = e[t]
    <3>1. e[t].used
      BY <2>1, <2>3, Zenon
    <3> QED BY <2>1, <2>3, <3>1 DEF UsedSlots
  <2> QED BY <2>1, <2>2, <2>3
<1>2. Compatible(e, d)
  BY CompatibleSymmetric
<1>3. Compatible(f, f)
  BY <1>1, <1>2 DEF Compatible
<1>4. Compatible(f, e)
  BY <1>1, <1>2 DEF Compatible
<1>5. BelowNext(f, b)
  BY <1>1 DEF BelowNext
<1> QED BY <1>3, <1>4, <1>5

(* What nosfs_disk_put does to s_dir and s_sb before it writes.            *)
LEMMA PutStartStep ==
  ASSUME IInv, ~torn, Ready,
         NEW n \in Names, NEW v \in Vals, NEW len \in Lens, PutStart(n, v, len)
  PROVE  RamOK' /\ RamMeetsPlatter'
<1> DEFINE s == SlotFor(n)
           f == Placed(n, len)
<1>1. s \in Slots /\ f \in Ent /\ Claimed(n, s) \in [Slots -> Ent]
  BY SlotForInRange, PlacedType DEF PutStart, IInv
<1>2. /\ dir \in [Slots -> Ent] /\ ddir \in [Slots -> Ent]
      /\ sb \in SuperBlock /\ Need(len) \in Nat
  BY NeedIsNat DEF IInv, TypeOK
<1>3. /\ Compatible(dir, dir) /\ BelowNext(dir, sb) /\ sb.next \in DataLba .. VolSects
      /\ Compatible(ddir, dir) /\ BelowNext(ddir, sb)
  BY DEF IInv, RamOK, RamMeetsPlatter
<1>4. /\ dir' = [Claimed(n, s) EXCEPT ![s] = f]
      /\ sb'.next = IF Grows(n, len) THEN sb.next + Need(len) ELSE sb.next
      /\ ddir' = ddir
  BY <1>2 DEF PutStart, disk, SuperBlock
<1>5. \A t \in Slots \ {s} : Claimed(n, s)[t] = dir[t]
  BY <1>1, <1>2 DEF Claimed
<1>6. /\ dir'[s] = f
      /\ \A t \in Slots \ {s} : dir'[t] = dir[t]
  BY <1>1, <1>4, <1>5
<1>7. ASSUME \A t \in UsedSlots(dir) : t # s => Extent(dir[t]) \cap Extent(f) = {},
             \A t \in UsedSlots(ddir) : t # s => Extent(ddir[t]) \cap Extent(f) = {}
      PROVE  Compatible(dir', dir') /\ Compatible(ddir', dir')
  <2> HIDE DEF s, f
  <2>1. Compatible(dir, dir')
    BY <1>1, <1>3, <1>6, <1>7, CompatibleReplace
  <2>2. Compatible(dir', dir)
    BY <2>1, CompatibleSymmetric
  <2>3. \A t \in UsedSlots(dir') : t # s => Extent(dir'[t]) \cap Extent(f) = {}
    BY <1>6, <1>7 DEF UsedSlots
  <2>4. Compatible(dir', dir')
    BY <1>1, <1>6, <2>2, <2>3, CompatibleReplace
  <2>5. Compatible(ddir, dir')
    BY <1>1, <1>3, <1>6, <1>7, CompatibleReplace
  <2> QED BY <1>4, <2>4, <2>5
<1>8. CASE Grows(n, len)
  <2>1. f.lba = sb.next /\ f.sects = Need(len)
    BY <1>1, <1>8 DEF Placed, Ent
  <2>2. Fits(len)
    BY <1>8 DEF PutStart
  <2>3. sb'.next = sb.next + Need(len)
    BY <1>4, <1>8
  <2>4. /\ \A t \in UsedSlots(dir) : Extent(dir[t]) \cap Extent(f) = {}
        /\ \A t \in UsedSlots(ddir) : Extent(ddir[t]) \cap Extent(f) = {}
    BY <1>1, <1>2, <1>3, <2>1, FreshExtent
  <2>5. Compatible(dir', dir') /\ Compatible(ddir', dir')
    BY <1>7, <2>4
  <2>6. sb.next \in Nat /\ DataLba <= sb.next /\ sb'.next \in DataLba .. VolSects
    BY <1>2, <1>3, <2>2, <2>3, NosfsAssumption DEF Fits, DataLba, SuperBlock
  <2>7. BelowNext(ddir', sb')
    BY <1>2, <1>3, <1>4, <2>3, <2>6 DEF BelowNext, UsedSlots, Ent
  <2>8. ASSUME NEW t \in UsedSlots(dir'), dir'[t].sects > 0
        PROVE  DataLba <= dir'[t].lba /\ dir'[t].lba + dir'[t].sects <= sb'.next
    <3> HIDE DEF s, f
    <3>1. CASE t = s
      BY <1>6, <2>1, <2>3, <2>6, <3>1
    <3>2. CASE t # s
      <4>1. t \in UsedSlots(dir) /\ dir'[t] = dir[t] /\ dir[t] \in Ent
        BY <1>2, <1>6, <3>2 DEF UsedSlots
      <4> QED BY <1>2, <1>3, <2>3, <2>6, <2>8, <4>1 DEF BelowNext, Ent
    <3> QED BY <3>1, <3>2
  <2> QED BY <2>5, <2>6, <2>7, <2>8 DEF RamOK, RamMeetsPlatter, BelowNext
<1>9. CASE ~Grows(n, len) /\ Entries(dir, n) # {}
  <2>1. dir' = dir /\ sb'.next = sb.next
    BY <1>1, <1>2, <1>4, <1>9 DEF Placed, Claimed
  <2> QED BY <1>3, <1>4, <2>1 DEF RamOK, RamMeetsPlatter, BelowNext
<1>10. CASE ~Grows(n, len) /\ Entries(dir, n) = {}
  <2>1. f.sects = 0 /\ sb'.next = sb.next
    BY <1>1, <1>2, <1>4, <1>10 DEF Placed, Claimed, FreeEnt
  <2>2. Extent(f) = {}
    BY <1>1, <2>1, EmptyExtent
  <2>3. Compatible(dir', dir') /\ Compatible(ddir', dir')
    BY <1>7, <2>2
  <2>4. BelowNext(dir', sb')
    <3> HIDE DEF s, f
    <3> QED BY <1>1, <1>3, <1>6, <2>1 DEF BelowNext, UsedSlots
  <2>5. BelowNext(ddir', sb')
    BY <1>3, <1>4, <2>1 DEF BelowNext
  <2> QED BY <1>3, <2>1, <2>3, <2>4, <2>5 DEF RamOK, RamMeetsPlatter
<1> QED BY <1>8, <1>9, <1>10

LEMMA FlushDirStep ==
  ASSUME IInv, ~torn, ph = "dir", SectorWrite, UNCHANGED ram
  PROVE  PlatterOK' /\ RamMeetsPlatter'
<1>1. /\ Compatible(ddir, ddir) /\ (~ahead => BelowNext(ddir, dsb))
      /\ Compatible(dir, dir) /\ BelowNext(dir, sb)
      /\ Compatible(ddir, dir) /\ BelowNext(ddir, sb)
  BY DEF IInv, PlatterOK, RamOK, RamMeetsPlatter, Ready
<1>2. /\ ddir' = [t \in Slots |-> IF SectorOf(t) = i THEN dir[t] ELSE ddir[t]]
      /\ ahead' = (ahead \/ dsb # sb)
      /\ dsb' = dsb /\ sb' = sb /\ dir' = dir
  BY DEF SectorWrite, ram
<1>3. \A t \in Slots : ddir'[t] = ddir[t] \/ ddir'[t] = dir[t]
  BY <1>2
<1>4. Compatible(ddir', ddir') /\ Compatible(ddir', dir) /\ BelowNext(ddir', sb)
  BY <1>1, <1>3, Mixture
<1>5. ~ahead' => dsb = sb
  BY <1>2
<1> QED BY <1>2, <1>4, <1>5 DEF PlatterOK, RamMeetsPlatter

(* One write of a put, whether the call then goes on or returns -1.        *)
LEMMA SectorWriteStep ==
  ASSUME IInv, ~torn, Ready, SectorWrite, UNCHANGED <<sb, dir>>
  PROVE  PlatterOK' /\ RamOK' /\ RamMeetsPlatter'
<1>1. RamOK' 
  BY DEF IInv, RamOK
<1>2. CASE ph = "data"
  <2>1. UNCHANGED <<dsb, ddir, ahead>>
    BY <1>2 DEF SectorWrite
  <2> QED BY <1>1, <2>1 DEF IInv, PlatterOK, RamMeetsPlatter
<1>3. CASE ph = "dir"
  BY <1>1, <1>3, FlushDirStep DEF ram
<1>4. CASE ph = "sb"
  <2>1. dsb' = sb /\ ddir' = ddir
    BY <1>4 DEF SectorWrite
  <2> QED BY <1>1, <2>1 DEF IInv, PlatterOK, RamMeetsPlatter
<1> QED BY <1>2, <1>3, <1>4 DEF SectorWrite

LEMMA FormatDirStep ==
  ASSUME IInv, FormatDir
  PROVE  (~torn' => PlatterOK') /\ FormatProgress'
<1>1. /\ ddir \in [Slots -> Ent] /\ i \in Nat /\ ph = "fmtdir"
      /\ \A s \in UsedSlots(ddir) : SectorOf(s) >= i
  BY DEF IInv, TypeOK, FormatProgress, FormatDir
<1>2. ddir' = [s \in Slots |-> IF SectorOf(s) = i THEN FreeEnt ELSE ddir[s]]
  BY DEF FormatDir
<1>3. ASSUME NEW s \in UsedSlots(ddir')
      PROVE  /\ s \in UsedSlots(ddir) /\ ddir'[s] = ddir[s]
             /\ SectorOf(s) >= i + 1 /\ SectorOf(s) <= DirSects - 1
  <2>1. s \in Slots /\ ddir'[s].used
    BY DEF UsedSlots
  <2>2. SectorOf(s) # i
    BY <1>2, <2>1 DEF FreeEnt
  <2>3. ddir'[s] = ddir[s]
    BY <1>2, <2>1, <2>2
  <2>4. s \in UsedSlots(ddir)
    BY <2>1, <2>3 DEF UsedSlots
  <2>5. SectorOf(s) \in 0 .. (DirSects - 1)
    BY <2>1, SectorOfInRange
  <2> QED BY <1>1, <2>2, <2>3, <2>4, <2>5, NosfsAssumption
<1>4. CASE i + 1 < DirSects
  <2>1. i' = i + 1 /\ UNCHANGED <<dsb, ph, ahead, torn>>
    BY <1>4 DEF FormatDir
  <2>2. ~torn' => PlatterOK'
    BY <1>3, <2>1 DEF IInv, PlatterOK, Compatible, BelowNext
  <2> QED BY <1>3, <1>4, <2>1, <2>2 DEF FormatProgress
<1>5. CASE ~(i + 1 < DirSects)
  <2>1. UsedSlots(ddir') = {}
    BY <1>1, <1>3, <1>5, SectorOfInRange, NosfsAssumption DEF UsedSlots
  <2>2. ph' = "remount"
    BY <1>5 DEF FormatDir
  <2> QED BY <2>1, <2>2 DEF PlatterOK, Compatible, BelowNext, FormatProgress
<1> QED BY <1>4, <1>5

LEMMA InvInit == Init => IInv
<1> SUFFICES ASSUME Init PROVE IInv
  OBVIOUS
<1>1. TypeOK
  <2>1. NoSb \in SuperBlock /\ EmptyDir \in [Slots -> Ent]
    BY DEF NoSb, SuperBlock, EmptyDir, FreeEnt, Ent
  <2>2. faults \in 0 .. MaxFaults /\ badReads \in 0 .. MaxBadReads /\ crashes \in 0 .. MaxCrashes
    BY NosfsAssumption DEF Init
  <2> QED BY <2>1, <2>2, IdleType DEF Init, TypeOK, Phases
<1>2. UsedSlots(ddir) = {}
  BY DEF Init, EmptyDir, FreeEnt, UsedSlots
<1> QED BY <1>1, <1>2
        DEF Init, IInv, PlatterOK, Compatible, BelowNext, Ready, FormatProgress

LEMMA InvStep ==
  ASSUME IInv, [Next]_vars
  PROVE  IInv'
<1> DEFINE Goal == /\ ~torn' => PlatterOK'
                   /\ Ready' /\ ~torn' => RamOK' /\ RamMeetsPlatter'
                   /\ FormatProgress'
<1> USE DEF disk, ram, bounds, history
<1>0. TypeOK'
  BY TypeStep DEF IInv
<1> SUFFICES Goal
  BY <1>0 DEF IInv
<1>1. CASE Mount
  BY <1>1, LoadStep DEF Mount, FormatProgress
<1>2. CASE MountFormat
  <2>1. UNCHANGED <<ddir, dsb, ahead, torn>> /\ ph' = "fmtsb"
    BY <1>2 DEF MountFormat
  <2> QED BY <2>1 DEF IInv, PlatterOK, Ready, FormatProgress
<1>3. CASE FormatSb
  <2>1. /\ UNCHANGED <<ddir, torn>> /\ ph' = "fmtdir" /\ i' = 0
        /\ ahead' = (UsedSlots(ddir) # {})
    BY <1>3 DEF FormatSb
  <2>2. ~ahead' => UsedSlots(ddir') = {}
    BY <2>1
  <2>3. \A s \in UsedSlots(ddir') : SectorOf(s) >= i'
    BY <2>1, SectorOfInRange, NosfsAssumption DEF UsedSlots
  <2> QED BY <2>1, <2>2, <2>3, NosfsAssumption
          DEF IInv, PlatterOK, BelowNext, Ready, FormatProgress
<1>4. CASE FormatDir
  <2>1. ~Ready'
    BY <1>4 DEF FormatDir, Ready
  <2> QED BY <1>4, <2>1, FormatDirStep
<1>5. CASE FormatFails
  <2>1. UNCHANGED <<ddir, dsb, ahead, torn>> /\ ph' = "nodisk"
    BY <1>5 DEF FormatFails
  <2> QED BY <2>1 DEF IInv, PlatterOK, Ready, FormatProgress
<1>6. CASE Remount
  <2>1. CASE ph' = "idle"
    BY <1>6, <2>1, LoadStep DEF Remount, FormatProgress
  <2>2. CASE ph' = "nodisk"
    BY <1>6, <2>2 DEF Remount, IInv, PlatterOK, Ready, FormatProgress
  <2> QED BY <1>6, <2>1, <2>2 DEF Remount
<1>7. CASE Reload
  <2>1. CASE ph' = ph
    BY <1>7, <2>1, LoadStep DEF Reload, FormatProgress
  <2>2. CASE ph' = "nodisk"
    BY <1>7, <2>2 DEF Reload, IInv, PlatterOK, Ready, FormatProgress
  <2> QED BY <1>7, <2>1, <2>2 DEF Reload
<1>8. ASSUME NEW n \in Names, PutNoSlot(n) PROVE Goal
  BY <1>8, QuietStep DEF PutNoSlot, Ready, FormatProgress
<1>9. ASSUME NEW n \in Names, NEW len \in Lens, PutFull(n, len) PROVE Goal
  <2>1. UNCHANGED <<ddir, dsb, ahead, torn, ph>> /\ ph = "idle" /\ sb'.next = sb.next
    BY <1>9 DEF PutFull, IInv, TypeOK, SuperBlock
  <2>2. SlotFor(n) \in Slots
    BY <1>9, SlotForInRange DEF PutFull
  <2>3. \A s \in UsedSlots(dir') : s \in UsedSlots(dir) /\ dir'[s] = dir[s]
    BY <1>9, <2>2 DEF PutFull, UsedSlots, FreeEnt, IInv, TypeOK
  <2> QED BY <2>1, <2>3
          DEF IInv, PlatterOK, RamOK, RamMeetsPlatter, Compatible, BelowNext, Ready,
              FormatProgress
<1>10. ASSUME NEW n \in Names, NEW len \in Lens, NEW v \in Vals, PutStart(n, v, len)
       PROVE  Goal
  <2>1. /\ UNCHANGED <<ddir, dsb, ahead, torn>>
        /\ ph = "idle" /\ ph' \in {"data", "dir"}
    BY <1>10 DEF PutStart
  <2>2. ~torn => RamOK' /\ RamMeetsPlatter'
    BY <1>10, <2>1, PutStartStep DEF Ready
  <2> QED BY <2>1, <2>2 DEF IInv, PlatterOK, Ready, FormatProgress
<1>11. CASE WriteData
  <2>1. /\ UNCHANGED <<dsb, ddir, sb, ahead, torn>>
        /\ ph = "data" /\ ph' \in {"data", "dir"}
    BY <1>11 DEF WriteData, SectorWrite
  <2>2. \A s \in Slots : /\ dir'[s].used = dir[s].used
                         /\ dir'[s].lba = dir[s].lba
                         /\ dir'[s].sects = dir[s].sects
    BY <1>11 DEF WriteData, IInv, TypeOK, Ent
  <2>3. UsedSlots(dir') = UsedSlots(dir) /\ \A s \in Slots : Extent(dir'[s]) = Extent(dir[s])
    BY <2>2 DEF UsedSlots, Extent
  <2> QED BY <2>1, <2>2, <2>3
          DEF IInv, PlatterOK, RamOK, RamMeetsPlatter, Compatible, BelowNext, Ready,
              FormatProgress, UsedSlots
<1>12. CASE WriteDir
  <2>1. SectorWrite /\ UNCHANGED <<sb, dir, torn>> /\ Ready /\ ph' \in {"dir", "sb"}
    BY <1>12 DEF WriteDir, Ready
  <2> QED BY <2>1, SectorWriteStep DEF FormatProgress
<1>13. CASE WriteSb
  <2>1. SectorWrite /\ UNCHANGED <<sb, dir, torn>> /\ Ready /\ ph' = "idle"
    BY <1>13 DEF WriteSb, Ready
  <2> QED BY <2>1, SectorWriteStep DEF FormatProgress
<1>14. CASE PutFails
  <2>1. UNCHANGED <<sb, dir, torn>> /\ Ready /\ ph' = "idle"
    BY <1>14 DEF PutFails, Ready, Putting
  <2>2. CASE SectorWrite
    BY <2>1, <2>2, SectorWriteStep DEF FormatProgress
  <2>3. CASE UNCHANGED <<disk, ahead>>
    BY <2>1, <2>3, QuietStep DEF FormatProgress
  <2> QED BY <1>14, <2>2, <2>3 DEF PutFails
<1>15. CASE Crash
  <2>1. UNCHANGED <<ddir, dsb, ahead, torn>> /\ ph' = "off"
    BY <1>15 DEF Crash
  <2> QED BY <2>1 DEF IInv, PlatterOK, Ready, FormatProgress
<1>16. CASE UNCHANGED vars
  BY <1>16, QuietStep DEF vars, Ready, FormatProgress, IInv
<1> QED
  BY <1>1, <1>2, <1>3, <1>4, <1>5, <1>6, <1>7, <1>8, <1>9, <1>10, <1>11, <1>12,
     <1>13, <1>14, <1>15, <1>16 DEF Next

(* The directory, superblock and loop variables of the volume keep their   *)
(* types (nosfs_disk.c).                                                   *)
THEOREM TypeCorrect == Spec => []TypeOK
<1>1. Init => TypeOK
  BY InvInit DEF IInv
<1>2. TypeOK /\ [Next]_vars => TypeOK'
  BY TypeStep
<1> QED BY <1>1, <1>2, PTL DEF Spec

(* However large the volume and whatever fails, two files of a mounted     *)
(* volume never share a sector and next_data is past them all, unless a    *)
(* directory newer than its superblock was mounted.                        *)
THEOREM ExtentsNeverOverlap == Spec => []NoOverlap
<1>1. Init => IInv
  BY InvInit
<1>2. IInv /\ [Next]_vars => IInv'
  BY InvStep
<1>3. IInv => NoOverlap
  BY DEF IInv, NoOverlap, RamOK, Disjoint, Compatible
<1> QED BY <1>1, <1>2, <1>3, PTL DEF Spec
-----------------------------------------------------------------------------
(* What is read back.  CInv says what NoOverlap leaves open: how far the   *)
(* put has come on the disk, that the sizes of the entries fit their       *)
(* extents, that the entries of a file whose contents are known are the    *)
(* same in both directories and lead to those contents, and what the count *)
(* and the first mount rest on.                                            *)

Sector == [0 .. (SectorSize - 1) -> (Vals \X Nat) \cup {Zero}]
SizesFit(d) == \A s \in UsedSlots(d) : Need(d[s].size) <= d[s].sects
WrittenTo(m) ==
  \A k \in 0 .. (m - 1) : ddata[dir[cur.slot].lba + k] = Payload(cur.val, cur.len, k)

\* The put under way has an entry of its own that is large enough.
CallInv ==
  /\ Putting => /\ cur.name \in Names /\ cur.val \in Vals /\ cur.len \in Lens
                /\ cur.slot \in Entries(dir, cur.name)
                /\ cur.slot = First(Entries(dir, cur.name))
                /\ Need(cur.len) <= dir[cur.slot].sects
  /\ ~Putting => cur.name = NoName
  /\ SizesFit(ddir) /\ (Ready => SizesFit(dir))

\* The sectors written so far; a file that moves does not touch the old ones.
DataInv ==
  /\ ddata \in [DataLbas -> Sector]
  /\ ph = "data" /\ ~torn =>
       /\ i < dir[cur.slot].sects /\ WrittenTo(i)
       /\ cur.grew => \A t \in UsedSlots(ddir) :
            ddir[t].sects > 0 => ddir[t].lba + ddir[t].sects <= dir[cur.slot].lba
  /\ ph \in {"dir", "sb"} /\ ~torn =>
       dir[cur.slot].size = cur.len /\ WrittenTo(dir[cur.slot].sects)

FlushInv ==
  /\ ph = "dir" => i < DirSects /\ \A s \in Slots : SectorOf(s) < i => ddir[s] = dir[s]
  /\ ph = "sb" => ddir = dir
  /\ ph = "idle" /\ last = "ok" => ddir = dir /\ dsb = sb /\ ~ahead
  /\ ~Ready => last # "ok"

\* The entries of n are the same in memory and on disk.
SameEntries(d, e, n) ==
  Entries(d, n) = Entries(e, n) /\ \A s \in Entries(d, n) : d[s] = e[s]
Found(n) ==
  IF committed[n] = Missing THEN Entries(ddir, n) = {} ELSE ReadAll(ddir, ddata, n) = committed[n]
Rewritten(n) == Putting /\ n = cur.name /\ ~(ph = "data" /\ cur.grew)
KeptInv ==
  /\ committed \in [Names -> AllContents \cup {Missing, Unknown}]
  /\ ~torn => \A n \in Names : committed[n] # Unknown =>
       /\ ~Rewritten(n) => Found(n)
       /\ Ready /\ ~(Putting /\ n = cur.name) => SameEntries(dir, ddir, n)
  /\ ph = "fmtdir" => \A n \in Names : committed[n] \in {Missing, Unknown}

CountInv ==
  /\ crashes = 0 /\ Ready => sb.count = Cardinality(UsedSlots(dir))
  /\ ph = "fmtsb" => sb.count = 0
  /\ ph \in {"fmtdir", "remount"} => dsb.count = 0
  /\ ph = "remount" => UsedSlots(ddir) = {} /\ ~ahead

\* Before the first loss of power the disk was blank at the mount, and no two
\* entries have one name.
FirstInv ==
  crashes = 0 =>
    /\ ~torn
    /\ ph = "off" => ~dsb.magic
    /\ ph \in {"off", "fmtsb", "fmtdir"} => UsedSlots(ddir) = {}
    /\ Ready => \A n \in Names : \A s \in Entries(dir, n), t \in Entries(dir, n) : s = t

CInv == CallInv /\ DataInv /\ FlushInv /\ KeptInv /\ CountInv /\ FirstInv

-----------------------------------------------------------------------------
(* Sectors and bytes *)

LEMMA DivideBytes ==
  ASSUME NEW p \in Nat
  PROVE  /\ p \div SectorSize \in Nat /\ p % SectorSize \in 0 .. (SectorSize - 1)
         /\ p = SectorSize * (p \div SectorSize) + (p % SectorSize)
BY NosfsAssumption

(* Byte p of a file of len bytes lies in one of its Need(len) sectors      *)
(* (nosfs_disk.c, the division by BLK_SECTOR_SIZE).                        *)
LEMMA ByteInSectors ==
  ASSUME NEW len \in Nat
  PROVE  Need(len) \in Nat /\ \A p \in 0 .. (len - 1) : p \div SectorSize < Need(len)
<1> DEFINE m == len + SectorSize - 1
           N == m \div SectorSize
           r == m % SectorSize
<1>1. m \in Nat
  BY NosfsAssumption
<1>2. N \in Nat /\ r \in 0 .. (SectorSize - 1) /\ m = SectorSize * N + r
  <2> HIDE DEF m
  <2> QED BY <1>1, DivideBytes
<1>3. ASSUME NEW p \in 0 .. (len - 1) PROVE p \div SectorSize < N
  <2> DEFINE q == p \div SectorSize
             o == p % SectorSize
  <2>1. q \in Nat /\ o \in 0 .. (SectorSize - 1) /\ p = SectorSize * q + o
    BY DivideBytes
  <2> HIDE DEF q, o, N, r
  <2>2. ASSUME N <= q PROVE FALSE
    <3>1. SectorSize * N <= SectorSize * q
      BY <1>2, <2>1, <2>2, MultiplyMonotone, NosfsAssumption
    <3>2. SectorSize * N \in Nat /\ SectorSize * q \in Nat
      BY <1>2, <2>1, NosfsAssumption
    <3> QED BY <1>2, <2>1, <3>1, <3>2, NosfsAssumption
  <2>3. q < N
    BY <1>2, <2>1, <2>2
  <2> QED BY <2>3 DEF q
<1> QED BY <1>2, <1>3 DEF Need

LEMMA NeedOfNothing ==
  Need(0) = 0 /\ \A len \in Nat : Need(len) <= 0 => len = 0
<1>1. Need(0) = 0
  <2> DEFINE N == (SectorSize - 1) \div SectorSize
             r == (SectorSize - 1) % SectorSize
  <2>1. SectorSize - 1 \in Nat
    BY NosfsAssumption
  <2>2. N \in Nat /\ r \in 0 .. (SectorSize - 1) /\ SectorSize - 1 = SectorSize * N + r
    BY <2>1, DivideBytes
  <2> HIDE DEF N, r
  <2>3. ASSUME 1 <= N PROVE FALSE
    <3>1. SectorSize * 1 <= SectorSize * N
      BY <2>2, <2>3, MultiplyMonotone, NosfsAssumption
    <3>2. SectorSize * N \in Nat
      BY <2>2, NosfsAssumption
    <3> QED BY <2>2, <3>1, <3>2, NosfsAssumption
  <2>4. N = 0
    BY <2>2, <2>3
  <2>5. 0 + SectorSize - 1 = SectorSize - 1
    BY NosfsAssumption
  <2> QED BY <2>4, <2>5 DEF N, Need
<1>2. ASSUME NEW len \in Nat, Need(len) <= 0 PROVE len = 0
  <2>1. CASE 0 < len
    <3>1. 0 \in 0 .. (len - 1)
      BY <2>1
    <3>2. 0 \div SectorSize < Need(len) /\ Need(len) \in Nat /\ 0 \div SectorSize \in Nat
      BY <3>1, ByteInSectors, DivideBytes
    <3> QED BY <1>2, <3>2
  <2> QED BY <2>1
<1> QED BY <1>1, <1>2

(* A file reads the same through two directories with the same entries for *)
(* it and from two disks with the same sectors in its extent.              *)
LEMMA ReadSame ==
  ASSUME NEW n, NEW d \in [Slots -> Ent], NEW e \in [Slots -> Ent], NEW x, NEW y,
         SameEntries(d, e, n), SizesFit(d),
         \A s \in Entries(d, n) : \A l \in Extent(d[s]) : x[l] = y[l]
  PROVE  ReadAll(d, x, n) = ReadAll(e, y, n)
<1>1. CASE Entries(d, n) = {}
  BY <1>1 DEF ReadAll, SameEntries
<1>2. CASE Entries(d, n) # {}
  <2> DEFINE s == First(Entries(d, n))
             a == d[s]
  <2>1. s \in Entries(d, n) /\ s \in Slots /\ s \in UsedSlots(d) /\ e[s] = a
    BY <1>2, FirstInSet DEF SameEntries, Entries, UsedSlots
  <2>2. a \in Ent /\ Need(a.size) <= a.sects
    BY <2>1 DEF SizesFit
  <2>3. ReadAll(d, x, n) = [p \in 0 .. (a.size - 1) |-> x[a.lba + p \div SectorSize][p % SectorSize]]
    BY <1>2 DEF ReadAll
  <2>4. ReadAll(e, y, n) = [p \in 0 .. (a.size - 1) |-> y[a.lba + p \div SectorSize][p % SectorSize]]
    <3>1. First(Entries(e, n)) = s /\ Entries(e, n) # {}
      BY <1>2 DEF SameEntries
    <3> HIDE DEF s
    <3> QED BY <2>1, <3>1 DEF ReadAll
  <2>5. ASSUME NEW p \in 0 .. (a.size - 1)
        PROVE  x[a.lba + p \div SectorSize] = y[a.lba + p \div SectorSize]
    <3> HIDE DEF a, s
    <3>1. a.size \in Nat /\ a.lba \in Nat /\ a.sects \in Nat
      BY <2>2 DEF Ent
    <3>2. p \in Nat /\ p \div SectorSize < Need(a.size) /\ Need(a.size) \in Nat
      BY <3>1, ByteInSectors
    <3>3. p \div SectorSize \in Nat
      BY <3>2, DivideBytes
    <3> DEFINE q == p \div SectorSize
    <3> HIDE DEF q
    <3>4. a.lba + q \in Extent(a)
      BY <2>2, <3>1, <3>2, <3>3 DEF Extent, q
    <3>5. \A l \in Extent(a) : x[l] = y[l]
      BY <2>1 DEF a
    <3> QED BY <3>4, <3>5 DEF q
  <2> HIDE DEF a
  <2> QED BY <2>3, <2>4, <2>5
<1> QED BY <1>1, <1>2

(* What nosfs_disk_put wrote is what nosfs_disk_read then gives.           *)
LEMMA ReadsWritten ==
  ASSUME IInv, CInv, ph \in {"dir", "sb"}, ~torn
  PROVE  ReadAll(dir, ddata, cur.name) = Bytes(cur.val, cur.len)
<1> DEFINE s == cur.slot
           len == cur.len
           v == cur.val
           lba == dir[s].lba
<1>1. /\ s \in Entries(dir, cur.name) /\ s = First(Entries(dir, cur.name))
      /\ len \in Lens /\ Need(len) <= dir[s].sects
      /\ dir[s].size = len /\ WrittenTo(dir[s].sects) /\ dir[s] \in Ent
  BY DEF IInv, TypeOK, CInv, CallInv, DataInv, Putting
<1>2. len \in Nat /\ dir[s].sects \in Nat /\ lba \in Nat
  BY <1>1, NosfsAssumption DEF Ent
<1>3. ReadAll(dir, ddata, cur.name)
        = [p \in 0 .. (len - 1) |-> ddata[lba + p \div SectorSize][p % SectorSize]]
  BY <1>1 DEF ReadAll
<1>4. ASSUME NEW p \in 0 .. (len - 1)
      PROVE  ddata[lba + p \div SectorSize][p % SectorSize] = <<v, p>>
  <2> DEFINE q == p \div SectorSize
             o == p % SectorSize
  <2>1. p \in Nat
    BY <1>2
  <2>2. q \in Nat /\ o \in 0 .. (SectorSize - 1) /\ p = SectorSize * q + o
    BY <2>1, DivideBytes
  <2>3. q < Need(len) /\ Need(len) \in Nat
    BY <1>2, ByteInSectors
  <2> HIDE DEF q, o, s, len, lba, v
  <2>4. q \in 0 .. (dir[s].sects - 1)
    BY <1>1, <1>2, <2>2, <2>3
  <2>5. ddata[lba + q] = Payload(v, len, q)
    BY <1>1, <2>4 DEF WrittenTo, lba, s, v, len
  <2>6. SectorSize * q = q * SectorSize /\ q * SectorSize + o = p
    BY <2>2, NosfsAssumption
  <2>7. q * SectorSize + o < len
    BY <2>6, <1>2
  <2>8. Payload(v, len, q)[o] = <<v, p>>
    BY <2>2, <2>6, <2>7 DEF Payload
  <2> QED BY <2>5, <2>8 DEF q, o
<1> HIDE DEF len, lba, v
<1>5. [p \in 0 .. (len - 1) |-> ddata[lba + p \div SectorSize][p % SectorSize]]
        = [p \in 0 .. (len - 1) |-> <<v, p>>]
  BY <1>4
<1> QED BY <1>3, <1>5 DEF Bytes, len, v
-----------------------------------------------------------------------------
(* nosfs_disk_put before it writes: only the entries of its own file, and  *)
(* free ones, change.                                                      *)
LEMMA PutStartShape ==
  ASSUME TypeOK, NEW n \in Names, NEW v \in Vals, NEW len \in Lens, PutStart(n, v, len),
         SizesFit(dir)
  PROVE  LET s == SlotFor(n) IN
         /\ s \in Slots /\ dir' \in [Slots -> Ent]
         /\ dir'[s] \in Ent /\ dir'[s].used /\ dir'[s].name = n
         /\ dir' = [dir EXCEPT ![s] = dir'[s]]
         /\ s \in Entries(dir', n) /\ s = First(Entries(dir', n))
         /\ Entries(dir, n) = {} => s \notin UsedSlots(dir) /\ Entries(dir', n) = {s}
         /\ Entries(dir, n) # {} => s \in UsedSlots(dir) /\ Entries(dir', n) = Entries(dir, n)
         /\ UsedSlots(dir') = UsedSlots(dir) \cup {s}
         /\ \A m \in Names \ {n} : SameEntries(dir, dir', m)
         /\ Need(len) <= dir'[s].sects /\ Need(dir'[s].size) <= dir'[s].sects
         /\ Grows(n, len) => dir'[s].lba = sb.next
<1> DEFINE s == SlotFor(n)
           c == Claimed(n, s)
           f == Placed(n, len)
<1>1. s \in Slots /\ f \in Ent /\ c \in [Slots -> Ent] /\ dir \in [Slots -> Ent]
  BY SlotForInRange, PlacedType DEF PutStart, TypeOK
<1>2. dir' = [c EXCEPT ![s] = f]
  BY DEF PutStart
<1>3. HasSlot(n)
  BY DEF PutStart
<1>4. /\ Entries(dir, n) # {} => s \in Entries(dir, n) /\ s = First(Entries(dir, n)) /\ c = dir
      /\ Entries(dir, n) = {} =>
           s \notin UsedSlots(dir) /\ c = [dir EXCEPT ![s] = [FreeEnt EXCEPT !.name = n, !.used = TRUE]]
  <2>1. Entries(dir, n) \in SUBSET Slots /\ FreeSlots(dir) \in SUBSET Slots
    BY DEF Entries, UsedSlots, FreeSlots
  <2>2. CASE Entries(dir, n) # {}
    BY <2>1, <2>2, FirstInSet DEF SlotFor, Claimed
  <2>3. CASE Entries(dir, n) = {}
    <3>1. s \in FreeSlots(dir)
      BY <1>3, <2>1, <2>3, FirstInSet DEF SlotFor, HasSlot
    <3> QED BY <2>3, <3>1 DEF FreeSlots, Claimed
  <2> QED BY <2>2, <2>3
<1>5. c[s].used /\ c[s].name = n /\ Need(c[s].size) <= c[s].sects
  <2>1. CASE Entries(dir, n) # {}
    BY <1>4, <2>1 DEF Entries, UsedSlots, SizesFit
  <2>2. CASE Entries(dir, n) = {}
    <3>1. c[s] = [FreeEnt EXCEPT !.name = n, !.used = TRUE]
      BY <1>1, <1>4, <2>2
    <3>2. c[s].size = 0 /\ c[s].sects = 0 /\ c[s].used /\ c[s].name = n
      BY <3>1 DEF FreeEnt
    <3> HIDE DEF c
    <3> QED BY <3>2, NeedOfNothing
  <2> QED BY <2>1, <2>2
<1>6. /\ f.used = c[s].used /\ f.name = c[s].name /\ f.size = c[s].size
      /\ Grows(n, len) => f.sects = Need(len) /\ f.lba = sb.next
      /\ ~Grows(n, len) => f.sects = c[s].sects
  <2>1. c[s] \in Ent
    BY <1>1
  <2> HIDE DEF c, s
  <2> QED BY <2>1 DEF Placed, Ent, c, s
<1> HIDE DEF s, f, c
<1>7. Need(len) \in Nat /\ c[s].sects \in Nat /\ c[s].size \in Nat /\ Need(c[s].size) \in Nat
  <2>1. c[s] \in Ent
    BY <1>1
  <2>2. c[s].size \in Nat /\ c[s].sects \in Nat
    BY <2>1 DEF Ent
  <2> QED BY <2>2, NeedIsNat, ByteInSectors
<1>8. Need(len) <= f.sects /\ Need(f.size) <= f.sects
  <2>1. CASE Grows(n, len)
    <3>1. Need(len) > c[s].sects
      BY <2>1 DEF Grows, c, s
    <3> QED BY <1>5, <1>6, <1>7, <2>1, <3>1
  <2>2. CASE ~Grows(n, len)
    <3>1. ~(Need(len) > c[s].sects)
      BY <2>2 DEF Grows, c, s
    <3> QED BY <1>5, <1>6, <1>7, <2>2, <3>1
  <2> QED BY <2>1, <2>2
<1>9. dir'[s] = f /\ \A t \in Slots \ {s} : dir'[t] = dir[t]
  BY <1>1, <1>2, <1>4
<1>10. dir' \in [Slots -> Ent] /\ dir' = [dir EXCEPT ![s] = f]
  BY <1>1, <1>2, <1>4
<1>11. f.used /\ f.name = n
  BY <1>5, <1>6
<1>12. UsedSlots(dir') = UsedSlots(dir) \cup {s}
  BY <1>1, <1>9, <1>11 DEF UsedSlots
<1>13. \A m \in Names \ {n} : SameEntries(dir, dir', m)
  <2> SUFFICES ASSUME NEW m \in Names \ {n} PROVE SameEntries(dir, dir', m)
    OBVIOUS
  <2>1. s \notin Entries(dir, m)
    BY <1>4 DEF Entries
  <2>2. s \notin Entries(dir', m)
    BY <1>9, <1>11 DEF Entries
  <2>3. \A t \in Slots \ {s} : (t \in Entries(dir, m) <=> t \in Entries(dir', m)) /\ dir[t] = dir'[t]
    BY <1>9 DEF Entries, UsedSlots
  <2>4. Entries(dir, m) \subseteq Slots /\ Entries(dir', m) \subseteq Slots
    BY DEF Entries, UsedSlots
  <2> QED BY <2>1, <2>2, <2>3, <2>4 DEF SameEntries
<1>14. s \in Entries(dir', n)
  BY <1>1, <1>9, <1>11, <1>12 DEF Entries
<1>15. /\ Entries(dir, n) = {} => Entries(dir', n) = {s}
       /\ Entries(dir, n) # {} => s \in UsedSlots(dir) /\ Entries(dir', n) = Entries(dir, n)
  <2>1. \A t \in Slots \ {s} : t \in Entries(dir, n) <=> t \in Entries(dir', n)
    BY <1>9 DEF Entries, UsedSlots
  <2>2. Entries(dir, n) \subseteq Slots /\ Entries(dir', n) \subseteq Slots
    BY DEF Entries, UsedSlots
  <2>3. Entries(dir, n) \subseteq UsedSlots(dir)
    BY DEF Entries
  <2> QED BY <1>4, <1>14, <2>1, <2>2, <2>3
<1>16. s = First(Entries(dir', n))
  <2>1. CASE Entries(dir, n) # {}
    BY <1>4, <1>15, <2>1
  <2>2. CASE Entries(dir, n) = {}
    <3>1. First({s}) \in {s}
      BY <1>1, FirstInSet
    <3> QED BY <1>15, <2>2, <3>1
  <2> QED BY <2>1, <2>2
<1> QED
  BY <1>1, <1>4, <1>6, <1>8, <1>9, <1>10, <1>11, <1>12, <1>13, <1>14, <1>15,
     <1>16 DEF s

(* A put refused for want of room, with the entry it frees again.          *)
LEMMA PutFullShape ==
  ASSUME TypeOK, NEW n \in Names, NEW len \in Lens, PutFull(n, len), SizesFit(dir)
  PROVE  LET s == SlotFor(n) IN
         /\ s \in Slots /\ dir' \in [Slots -> Ent]
         /\ \A m \in Names \ {n} : SameEntries(dir, dir', m)
         /\ \/ /\ SameEntries(dir, dir', n) /\ UsedSlots(dir') = UsedSlots(dir)
               /\ \A t \in UsedSlots(dir) : dir'[t] = dir[t]
               /\ sb'.count = sb.count /\ committed' = committed
            \/ /\ s \in Entries(dir, n) /\ s = First(Entries(dir, n))
               /\ dir[s].size = 0
               /\ Entries(dir', n) = Entries(dir, n) \ {s}
               /\ UsedSlots(dir') = UsedSlots(dir) \ {s}
               /\ \A t \in UsedSlots(dir') : dir'[t] = dir[t]
               /\ sb'.count = (IF sb.count > 0 THEN sb.count - 1 ELSE 0)
               /\ committed' = [committed EXCEPT ![n] = Unknown]
<1> DEFINE s == SlotFor(n)
           c == Claimed(n, s)
           e == c[s]
<1>1. s \in Slots /\ c \in [Slots -> Ent] /\ dir \in [Slots -> Ent] /\ sb \in SuperBlock
  BY SlotForInRange, PlacedType DEF PutFull, TypeOK
<1>2. /\ dir' = IF RollsBack(e) THEN [dir EXCEPT ![s] = FreeEnt] ELSE dir
      /\ sb' = IF RollsBack(e) THEN [sb EXCEPT !.count = Uncounted(n)] ELSE sb
      /\ committed' = IF RollsBack(e) /\ Entries(dir, n) # {}
                        THEN [committed EXCEPT ![n] = Unknown] ELSE committed
  BY DEF PutFull
<1>3. /\ Entries(dir, n) # {} => s \in Entries(dir, n) /\ s = First(Entries(dir, n)) /\ c = dir
      /\ Entries(dir, n) = {} => s \notin UsedSlots(dir)
  <2>1. Entries(dir, n) \in SUBSET Slots /\ FreeSlots(dir) \in SUBSET Slots
    BY DEF Entries, UsedSlots, FreeSlots
  <2>2. CASE Entries(dir, n) # {}
    BY <2>1, <2>2, FirstInSet DEF SlotFor, Claimed
  <2>3. CASE Entries(dir, n) = {}
    <3>1. s \in FreeSlots(dir)
      BY <2>1, <2>3, FirstInSet DEF SlotFor, HasSlot, PutFull
    <3> QED BY <2>3, <3>1 DEF FreeSlots
  <2> QED BY <2>2, <2>3
<1> HIDE DEF s, c
<1>4. FreeEnt \in Ent /\ ~FreeEnt.used
  BY DEF FreeEnt, Ent
<1>5. CASE ~RollsBack(e)
  <2>1. dir' = dir /\ sb' = sb /\ committed' = committed
    BY <1>2, <1>5
  <2> QED BY <1>1, <2>1 DEF SameEntries, s
<1>6. CASE RollsBack(e) /\ Entries(dir, n) = {}
  <2>1. /\ dir' = [dir EXCEPT ![s] = FreeEnt] /\ committed' = committed
        /\ sb'.count = Uncounted(n)
    BY <1>1, <1>2, <1>6 DEF SuperBlock
  <2>2. sb'.count = sb.count
    BY <1>1, <1>6, <2>1 DEF Uncounted, ClaimedCount, SuperBlock
  <2>3. \A t \in Slots : t # s => dir'[t] = dir[t]
    BY <1>1, <2>1
  <2>4. dir'[s] = FreeEnt /\ s \notin UsedSlots(dir) /\ s \notin UsedSlots(dir')
    BY <1>1, <1>3, <1>4, <1>6, <2>1 DEF UsedSlots
  <2>5. UsedSlots(dir') = UsedSlots(dir) /\ \A t \in UsedSlots(dir) : dir'[t] = dir[t]
    BY <2>3, <2>4 DEF UsedSlots
  <2>6. \A m \in Names : SameEntries(dir, dir', m)
    BY <2>5 DEF SameEntries, Entries
  <2>7. dir' \in [Slots -> Ent]
    BY <1>1, <1>4, <2>1
  <2> QED BY <1>1, <2>1, <2>2, <2>5, <2>6, <2>7 DEF s
<1>7. CASE RollsBack(e) /\ Entries(dir, n) # {}
  <2>1. /\ dir' = [dir EXCEPT ![s] = FreeEnt]
        /\ committed' = [committed EXCEPT ![n] = Unknown]
        /\ sb'.count = Uncounted(n)
    BY <1>1, <1>2, <1>7 DEF SuperBlock
  <2>2. sb'.count = (IF sb.count > 0 THEN sb.count - 1 ELSE 0)
    BY <1>1, <1>7, <2>1 DEF Uncounted, ClaimedCount, SuperBlock
  <2>3. \A t \in Slots : t # s => dir'[t] = dir[t]
    BY <1>1, <2>1
  <2>4. dir'[s] = FreeEnt /\ s \notin UsedSlots(dir')
    BY <1>1, <1>4, <2>1 DEF UsedSlots
  <2>5. UsedSlots(dir') = UsedSlots(dir) \ {s} /\ \A t \in UsedSlots(dir') : dir'[t] = dir[t]
    BY <2>3, <2>4 DEF UsedSlots
  <2>6. s \in Entries(dir, n) /\ s = First(Entries(dir, n)) /\ dir[s].size = 0
    BY <1>3, <1>7 DEF RollsBack
  <2>7. Entries(dir', n) = Entries(dir, n) \ {s}
    BY <2>5 DEF Entries
  <2>8. \A m \in Names \ {n} : SameEntries(dir, dir', m)
    <3> SUFFICES ASSUME NEW m \in Names \ {n} PROVE SameEntries(dir, dir', m)
      OBVIOUS
    <3>1. s \notin Entries(dir, m)
      BY <2>6 DEF Entries
    <3> QED BY <2>5, <3>1 DEF SameEntries, Entries
  <2>9. dir' \in [Slots -> Ent]
    BY <1>1, <1>4, <2>1
  <2> QED BY <1>1, <2>1, <2>2, <2>5, <2>6, <2>7, <2>8, <2>9 DEF s
<1> QED BY <1>5, <1>6, <1>7

(* A sector of the put under way lands outside every other file.           *)
LEMMA DataLandsElsewhere ==
  ASSUME IInv, CInv, ph = "data", ~torn, SectorWrite
  PROVE  /\ \A t \in UsedSlots(dir) \ {cur.slot} : \A l \in Extent(dir[t]) : ddata'[l] = ddata[l]
         /\ \A t \in UsedSlots(ddir) :
              t # cur.slot \/ cur.grew => \A l \in Extent(ddir[t]) : ddata'[l] = ddata[l]
         /\ ddata'[dir[cur.slot].lba + i] = Payload(cur.val, cur.len, i)
         /\ \A k \in 0 .. (i - 1) : ddata'[dir[cur.slot].lba + k] = ddata[dir[cur.slot].lba + k]
         /\ ddata' \in [DataLbas -> Sector]
<1> DEFINE s == cur.slot
           x == dir[s].lba + i
<1>1. /\ s \in UsedSlots(dir) /\ dir[s] \in Ent /\ i \in Nat /\ i < dir[s].sects
      /\ ddata \in [DataLbas -> Sector] /\ dir \in [Slots -> Ent] /\ ddir \in [Slots -> Ent]
  BY DEF IInv, TypeOK, CInv, CallInv, DataInv, Putting, Entries
<1>2. /\ Compatible(dir, dir) /\ Compatible(ddir, dir) /\ BelowNext(dir, sb) /\ BelowNext(ddir, sb)
      /\ sb.next \in DataLba .. VolSects /\ sb.next \in Nat
  BY DEF IInv, TypeOK, SuperBlock, RamOK, RamMeetsPlatter, Ready
<1>3. dir[s].lba \in Nat /\ dir[s].sects \in Nat
  BY <1>1 DEF Ent
<1>4. DataLba <= dir[s].lba /\ dir[s].lba + dir[s].sects <= sb.next
  BY <1>1, <1>2, <1>3 DEF BelowNext
<1>5. x \in DataLbas /\ x \in Extent(dir[s])
  BY <1>1, <1>2, <1>3, <1>4, NosfsAssumption DEF DataLbas, Extent, DataLba
<1>6. ddata' = [ddata EXCEPT ![x] = Payload(cur.val, cur.len, i)]
  BY DEF SectorWrite
<1> HIDE DEF x
<1>7. \A l \in DataLbas \ {x} : ddata'[l] = ddata[l]
  BY <1>1, <1>6
<1>8. ASSUME NEW d \in [Slots -> Ent], BelowNext(d, sb), NEW t \in UsedSlots(d)
      PROVE  Extent(d[t]) \subseteq DataLbas
  <2>1. d[t] \in Ent
    BY <1>8 DEF UsedSlots
  <2>2. d[t].lba \in Nat /\ d[t].sects \in Nat
    BY <2>1 DEF Ent
  <2>3. d[t].sects > 0 => DataLba <= d[t].lba /\ d[t].lba + d[t].sects <= sb.next
    BY <1>8 DEF BelowNext
  <2> QED BY <1>2, <2>2, <2>3, NosfsAssumption DEF Extent, DataLbas, DataLba
<1>9. \A t \in UsedSlots(dir) \ {s} : \A l \in Extent(dir[t]) : ddata'[l] = ddata[l]
  <2> SUFFICES ASSUME NEW t \in UsedSlots(dir) \ {s}, NEW l \in Extent(dir[t])
               PROVE  ddata'[l] = ddata[l]
    OBVIOUS
  <2>1. Extent(dir[t]) \cap Extent(dir[s]) = {}
    BY <1>1, <1>2 DEF Compatible
  <2>2. l # x /\ l \in DataLbas
    BY <1>1, <1>2, <1>5, <1>8, <2>1
  <2> QED BY <1>7, <2>2
<1>10. \A t \in UsedSlots(ddir) :
         t # s \/ cur.grew => \A l \in Extent(ddir[t]) : ddata'[l] = ddata[l]
  <2> SUFFICES ASSUME NEW t \in UsedSlots(ddir), t # s \/ cur.grew, NEW l \in Extent(ddir[t])
               PROVE  ddata'[l] = ddata[l]
    OBVIOUS
  <2>1. l \in DataLbas
    BY <1>1, <1>2, <1>8
  <2>2. CASE t # s
    <3>1. Extent(ddir[t]) \cap Extent(dir[s]) = {}
      BY <1>1, <1>2, <2>2 DEF Compatible
    <3> QED BY <1>5, <1>7, <2>1, <3>1
  <2>3. CASE cur.grew
    <3>1. ddir[t].sects > 0 => ddir[t].lba + ddir[t].sects <= dir[s].lba
      BY <2>3 DEF CInv, DataInv
    <3>2. ddir[t] \in Ent
      BY <1>1 DEF UsedSlots
    <3>3. ddir[t].lba \in Nat /\ ddir[t].sects \in Nat
      BY <3>2 DEF Ent
    <3>4. l # x
      BY <1>1, <1>3, <3>1, <3>3 DEF Extent, x
    <3> QED BY <1>7, <2>1, <3>4
  <2> QED BY <2>2, <2>3
<1>11. Payload(cur.val, cur.len, i) \in Sector
  <2>1. cur.val \in Vals /\ cur.len \in Nat
    BY NosfsAssumption DEF CInv, CallInv, Putting
  <2>2. \A o \in 0 .. (SectorSize - 1) : i * SectorSize + o \in Nat
    BY <1>1, NosfsAssumption
  <2> QED BY <2>1, <2>2 DEF Payload, Sector
<1>12. ddata' \in [DataLbas -> Sector]
  BY <1>1, <1>6, <1>11
<1>13. ddata'[x] = Payload(cur.val, cur.len, i)
  BY <1>1, <1>5, <1>6
<1>14. \A k \in 0 .. (i - 1) : ddata'[dir[s].lba + k] = ddata[dir[s].lba + k]
  <2> SUFFICES ASSUME NEW k \in 0 .. (i - 1) PROVE ddata'[dir[s].lba + k] = ddata[dir[s].lba + k]
    OBVIOUS
  <2>1. dir[s].lba + k \in DataLbas \ {x}
    BY <1>1, <1>2, <1>3, <1>4, NosfsAssumption DEF DataLbas, DataLba, x
  <2> QED BY <1>7, <2>1
<1> QED BY <1>9, <1>10, <1>12, <1>13, <1>14 DEF x
-----------------------------------------------------------------------------
(* CInv is inductive: one lemma per group of operations.                   *)

LEMMA SlotsFinite == IsFiniteSet(Slots)
<1>1. DirSects * PerSect - 1 \in Int
  BY NosfsAssumption
<1> QED BY <1>1, FS_Interval DEF Slots

LEMMA UsedFinite ==
  ASSUME NEW d
  PROVE  IsFiniteSet(UsedSlots(d)) /\ Cardinality(UsedSlots(d)) \in Nat
<1>1. UsedSlots(d) \subseteq Slots
  BY DEF UsedSlots
<1> QED BY <1>1, SlotsFinite, FS_Subset, FS_CardinalityType

LEMMA ContentsInit == Init => CInv
<1> SUFFICES ASSUME Init PROVE CInv
  OBVIOUS
<1>1. UsedSlots(ddir) = {}
  BY DEF Init, EmptyDir, FreeEnt, UsedSlots
<1>2. \A n : Entries(ddir, n) = {}
  BY <1>1 DEF Entries
<1>3. ph = "off" /\ cur.name = NoName /\ ~torn /\ ~dsb.magic
  BY DEF Init, Idle, NoSb
<1>4. CallInv
  BY <1>1, <1>3 DEF CallInv, Putting, Ready, SizesFit
<1>5. DataInv
  <2>1. ddata \in [DataLbas -> Sector]
    BY DEF Init, Sector
  <2> QED BY <1>3, <2>1 DEF DataInv
<1>6. KeptInv
  <2>1. committed = [n \in Names |-> Missing]
    BY DEF Init
  <2> QED BY <1>2, <1>3, <2>1 DEF KeptInv, Found, Ready
<1>7. FlushInv /\ CountInv /\ FirstInv
  BY <1>1, <1>3 DEF Init, FlushInv, CountInv, FirstInv, Ready
<1> QED BY <1>4, <1>5, <1>6, <1>7 DEF CInv

(* load_meta: memory becomes what is on the disk.                          *)
LEMMA LoadContents ==
  ASSUME IInv, CInv, LoadMeta, ~Putting, ~Putting', UNCHANGED <<disk, cur, committed>>,
         ph' = "idle"
  PROVE  CallInv' /\ DataInv' /\ KeptInv'
<1>1. dir' = ddir /\ ddir' = ddir /\ ddata' = ddata /\ (~torn' => ~torn)
  BY DEF LoadMeta, disk
<1>2. CallInv'
  BY <1>1 DEF CInv, CallInv, SizesFit
<1>3. DataInv'
  BY <1>1, Zenon DEF CInv, DataInv, Putting
<1>4. KeptInv'
  <2>1. \A n \in Names : SameEntries(dir, ddir, n)'
    BY <1>1 DEF SameEntries
  <2>2. \A n \in Names : Found(n) => Found(n)'
    BY <1>1 DEF Found
  <2>3. ~torn' => \A n \in Names : committed[n] # Unknown => Found(n)
    BY <1>1 DEF CInv, KeptInv, Rewritten
  <2> QED BY <2>1, <2>2, <2>3 DEF CInv, KeptInv
<1> QED BY <1>2, <1>3, <1>4

LEMMA MountContents ==
  ASSUME IInv, CInv, Mount
  PROVE  CInv'
<1>1. /\ LoadMeta /\ ph = "off" /\ ph' = "idle" /\ crashes' = crashes
      /\ UNCHANGED <<disk, cur, committed, last, ahead>> /\ Loadable
  BY DEF Mount, LoadMeta, bounds
<1>2. CallInv' /\ DataInv' /\ KeptInv'
  BY <1>1, LoadContents DEF Putting
<1>3. crashes # 0
  BY <1>1 DEF CInv, FirstInv, Loadable
<1>4. FlushInv'
  BY <1>1 DEF CInv, FlushInv, Ready
<1> QED BY <1>1, <1>2, <1>3, <1>4 DEF CInv, CountInv, FirstInv

LEMMA MountFormatContents ==
  ASSUME IInv, CInv, MountFormat
  PROVE  CInv'
<1>1. /\ ph = "off" /\ ph' = "fmtsb" /\ crashes' = crashes /\ sb' = FreshSb
      /\ UNCHANGED <<dsb, ddir, ddata, cur, committed, last, ahead, torn>>
  BY DEF MountFormat, disk, history
<1>2. ~Putting /\ ~Putting' /\ ~Ready /\ ~Ready'
  BY <1>1 DEF Putting, Ready
<1>3. CallInv'
  BY <1>1, <1>2 DEF CInv, CallInv, SizesFit
<1>4. DataInv'
  BY <1>1, Zenon DEF CInv, DataInv
<1>5. KeptInv'
  <2>1. \A n \in Names : Found(n) => Found(n)'
    BY <1>1 DEF Found
  <2> QED BY <1>1, <1>2, <2>1 DEF CInv, KeptInv, Rewritten
<1>6. FlushInv' /\ CountInv' /\ FirstInv'
  BY <1>1, <1>2 DEF CInv, FlushInv, CountInv, FirstInv, FreshSb
<1> QED BY <1>3, <1>4, <1>5, <1>6 DEF CInv

LEMMA FormatSbContents ==
  ASSUME IInv, CInv, FormatSb
  PROVE  CInv'
<1>1. /\ ph = "fmtsb" /\ ph' = "fmtdir" /\ crashes' = crashes /\ dsb' = sb
      /\ UNCHANGED <<ddir, ddata, cur, last, torn>>
      /\ committed' = [n \in Names |-> IF committed[n] = Missing THEN Missing ELSE Unknown]
  BY DEF FormatSb, ram, bounds
<1>2. ~Putting /\ ~Putting' /\ ~Ready /\ ~Ready'
  BY <1>1 DEF Putting, Ready
<1>3. CallInv'
  BY <1>1, <1>2 DEF CInv, CallInv, SizesFit
<1>4. DataInv'
  BY <1>1, Zenon DEF CInv, DataInv
<1>5. KeptInv'
  <2>1. \A n \in Names : committed'[n] \in {Missing, Unknown}
    BY <1>1
  <2>2. committed' \in [Names -> AllContents \cup {Missing, Unknown}]
    BY <1>1
  <2>3. \A n \in Names : ~torn /\ committed'[n] # Unknown => Found(n)'
    <3> SUFFICES ASSUME NEW n \in Names, ~torn, committed'[n] # Unknown PROVE Found(n)'
      OBVIOUS
    <3>1. committed[n] = Missing /\ committed'[n] = Missing
      BY <1>1
    <3>2. Entries(ddir, n) = {} \/ committed[n] = Unknown
      BY <1>2, <3>1 DEF CInv, KeptInv, Rewritten, Found
    <3> QED BY <1>1, <3>1, <3>2 DEF Found
  <2> QED BY <1>1, <1>2, <2>1, <2>2, <2>3 DEF KeptInv
<1>6. FlushInv' /\ CountInv' /\ FirstInv'
  BY <1>1, <1>2 DEF CInv, FlushInv, CountInv, FirstInv
<1> QED BY <1>3, <1>4, <1>5, <1>6 DEF CInv

LEMMA FormatDirContents ==
  ASSUME IInv, CInv, FormatDir
  PROVE  CInv'
<1>1. /\ ph = "fmtdir" /\ ph' \in {"fmtdir", "remount"} /\ crashes' = crashes
      /\ UNCHANGED <<dsb, ddata, cur, last>>
      /\ ddir' = [s \in Slots |-> IF SectorOf(s) = i THEN FreeEnt ELSE ddir[s]]
  BY DEF FormatDir, ram, bounds
<1>2. ~Putting /\ ~Putting' /\ ~Ready /\ ~Ready'
  BY <1>1 DEF Putting, Ready
<1>3. ASSUME NEW s \in UsedSlots(ddir')
      PROVE  s \in UsedSlots(ddir) /\ ddir'[s] = ddir[s] /\ SectorOf(s) # i
  <2>1. s \in Slots /\ ddir'[s].used
    BY DEF UsedSlots
  <2>2. SectorOf(s) # i
    BY <1>1, <2>1 DEF FreeEnt
  <2> QED BY <1>1, <2>1, <2>2 DEF UsedSlots
<1>4. CallInv'
  <2>1. SizesFit(ddir)'
    BY <1>3 DEF CInv, CallInv, SizesFit
  <2> QED BY <1>1, <1>2, <2>1 DEF CInv, CallInv
<1>5. DataInv'
  BY <1>1, Zenon DEF CInv, DataInv
<1>6. \A n : Entries(ddir, n) = {} => Entries(ddir', n) = {}
  BY <1>3 DEF Entries
<1>7. FirstInv' \/ ph' = "remount"
  BY <1>1, <1>2, <1>3 DEF CInv, FirstInv, FormatDir
<1>8. CASE i + 1 < DirSects
  <2>1. ph' = "fmtdir" /\ UNCHANGED <<committed, ahead, torn>>
    BY <1>8 DEF FormatDir
  <2>2. \A n \in Names : ~torn /\ committed[n] # Unknown => Found(n)'
    <3> SUFFICES ASSUME NEW n \in Names, ~torn, committed[n] # Unknown PROVE Found(n)'
      OBVIOUS
    <3>1. committed[n] = Missing /\ Entries(ddir, n) = {}
      BY <1>1, <1>2 DEF CInv, KeptInv, Rewritten, Found
    <3> QED BY <1>6, <2>1, <3>1 DEF Found
  <2>3. KeptInv'
    BY <1>1, <1>2, <2>1, <2>2 DEF CInv, KeptInv
  <2>4. FlushInv' /\ CountInv'
    BY <1>1, <1>2, <2>1 DEF CInv, FlushInv, CountInv
  <2>5. FirstInv'
    BY <1>7, <2>1
  <2> QED BY <1>4, <1>5, <2>3, <2>4, <2>5 DEF CInv
<1>9. CASE ~(i + 1 < DirSects)
  <2>1. /\ ph' = "remount" /\ ahead' = FALSE /\ torn' = FALSE
        /\ committed' = [n \in Names |-> Missing]
    BY <1>9 DEF FormatDir
  <2>2. UsedSlots(ddir') = {}
    <3> SUFFICES ASSUME NEW s \in UsedSlots(ddir') PROVE FALSE
      OBVIOUS
    <3>1. SectorOf(s) >= i /\ SectorOf(s) # i /\ s \in Slots /\ i \in Nat
      BY <1>1, <1>3 DEF IInv, TypeOK, FormatProgress, UsedSlots
    <3>2. SectorOf(s) \in 0 .. (DirSects - 1)
      BY <3>1, SectorOfInRange
    <3> QED BY <1>9, <3>1, <3>2, NosfsAssumption
  <2>3. \A n : Entries(ddir', n) = {}
    BY <2>2 DEF Entries
  <2>4. KeptInv'
    BY <1>2, <2>1, <2>3 DEF KeptInv, Found
  <2>5. FlushInv' /\ CountInv' /\ FirstInv'
    BY <1>1, <1>2, <2>1, <2>2 DEF CInv, FlushInv, CountInv, FirstInv
  <2> QED BY <1>4, <1>5, <2>4, <2>5 DEF CInv
<1> QED BY <1>8, <1>9

\* A mount or reload that gives up.
LEMMA GiveUpContents ==
  ASSUME IInv, CInv, ~Putting, ph' = "nodisk", crashes' = crashes, last' # "ok",
         UNCHANGED <<disk, cur, committed, ahead, torn>>
  PROVE  CInv'
<1>1. UNCHANGED <<dsb, ddir, ddata>>
  BY DEF disk
<1>2. ~Putting' /\ ~Ready'
  BY DEF Putting, Ready
<1>3. CallInv'
  BY <1>1, <1>2 DEF CInv, CallInv, SizesFit
<1>4. DataInv'
  BY <1>1, Zenon DEF CInv, DataInv
<1>5. KeptInv'
  <2>1. \A n \in Names : Found(n) => Found(n)'
    BY <1>1 DEF Found
  <2> QED BY <1>1, <1>2, <2>1 DEF CInv, KeptInv, Rewritten
<1>6. FlushInv' /\ CountInv' /\ FirstInv'
  BY <1>1, <1>2 DEF CInv, FlushInv, CountInv, FirstInv
<1> QED BY <1>3, <1>4, <1>5, <1>6 DEF CInv

LEMMA RemountContents ==
  ASSUME IInv, CInv, Remount \/ FormatFails
  PROVE  CInv'
<1>1. CASE (Remount /\ ph' = "nodisk") \/ FormatFails
  <2>1. /\ ~Putting /\ ph' = "nodisk" /\ crashes' = crashes /\ last' = last /\ ~Ready
        /\ UNCHANGED <<disk, cur, committed, ahead, torn>>
    BY <1>1 DEF Remount, FormatFails, Putting, Ready, history
  <2>2. last # "ok"
    BY <2>1 DEF CInv, FlushInv
  <2> QED BY <2>1, <2>2, GiveUpContents
<1>2. CASE Remount /\ ph' = "idle"
  <2>1. /\ LoadMeta /\ ph = "remount" /\ ph' = "idle" /\ crashes' = crashes
        /\ UNCHANGED <<disk, cur, committed, last, ahead>>
    BY <1>2 DEF Remount
  <2>2. CallInv' /\ DataInv' /\ KeptInv'
    BY <2>1, LoadContents DEF Putting
  <2>3. FlushInv'
    BY <2>1 DEF CInv, FlushInv, Ready
  <2>4. dir' = ddir /\ sb'.count = 0 /\ UsedSlots(dir') = {}
    BY <2>1 DEF CInv, CountInv, LoadMeta
  <2>7. ~ahead
    BY <2>1 DEF CInv, CountInv
  <2>8. ~torn => ~torn'
    BY <2>1, <2>7, Zenon DEF LoadMeta
  <2>5. CountInv'
    BY <2>1, <2>4, FS_EmptySet DEF CountInv
  <2>6. FirstInv'
    BY <2>1, <2>4, <2>8 DEF CInv, FirstInv, Entries
  <2> QED BY <2>2, <2>3, <2>5, <2>6 DEF CInv
<1> QED BY <1>1, <1>2 DEF Remount

LEMMA ReloadContents ==
  ASSUME IInv, CInv, Reload
  PROVE  CInv'
<1>1. CASE ph' = "nodisk"
  BY <1>1, GiveUpContents DEF Reload, Putting
<1>2. CASE ph' = "idle"
  <2>1. /\ LoadMeta /\ ph = "idle" /\ ph' = "idle" /\ crashes' = crashes /\ last = "ok"
        /\ UNCHANGED <<disk, cur, committed, ahead>> /\ last' = "none"
    BY <1>2 DEF Reload
  <2>2. CallInv' /\ DataInv' /\ KeptInv'
    BY <2>1, LoadContents DEF Putting
  <2>3. dir' = dir /\ sb' = sb /\ ~ahead
    BY <2>1 DEF CInv, FlushInv, LoadMeta
  <2>6. ~torn => ~torn'
    BY <2>1, <2>3, Zenon DEF LoadMeta
  <2>4. FlushInv' /\ CountInv'
    BY <2>1, <2>3 DEF CInv, FlushInv, CountInv, Ready
  <2>5. FirstInv'
    BY <2>1, <2>3, <2>6 DEF CInv, FirstInv, Ready
  <2> QED BY <2>2, <2>4, <2>5 DEF CInv
<1> QED BY <1>1, <1>2 DEF Reload

LEMMA CrashContents ==
  ASSUME IInv, CInv, Crash
  PROVE  CInv'
<1>1. /\ ph' = "off" /\ cur' = Idle /\ last' = "none"
      /\ UNCHANGED <<dsb, ddir, ddata, ahead, torn>>
      /\ committed' = IF Putting /\ ~(ph = "data" /\ cur.grew)
                         THEN [committed EXCEPT ![cur.name] = Unknown] ELSE committed
  BY DEF Crash, disk
<1>2. ~Putting' /\ ~Ready' /\ cur'.name = NoName
  BY <1>1 DEF Putting, Ready, Idle
<1>3. crashes' # 0
  BY DEF Crash, IInv, TypeOK
<1>4. CallInv'
  BY <1>1, <1>2 DEF CInv, CallInv, SizesFit
<1>5. DataInv'
  BY <1>1, Zenon DEF CInv, DataInv
<1>6. KeptInv'
  <2>1. committed' \in [Names -> AllContents \cup {Missing, Unknown}]
    BY <1>1 DEF CInv, KeptInv
  <2>2. ASSUME NEW n \in Names, committed'[n] # Unknown
        PROVE  committed'[n] = committed[n] /\ ~Rewritten(n)
    BY <1>1, <2>2 DEF CInv, KeptInv, Rewritten
  <2>3. ASSUME NEW n \in Names, ~torn, committed'[n] # Unknown PROVE Found(n)'
    <3>1. Found(n) /\ committed'[n] = committed[n]
      BY <2>2, <2>3 DEF CInv, KeptInv
    <3> QED BY <1>1, <3>1 DEF Found
  <2> QED BY <1>1, <1>2, <2>1, <2>3 DEF KeptInv
<1>7. FlushInv' /\ CountInv' /\ FirstInv'
  BY <1>1, <1>2, <1>3 DEF FlushInv, CountInv, FirstInv
<1> QED BY <1>4, <1>5, <1>6, <1>7 DEF CInv
LEMMA PutNoSlotContents ==
  ASSUME IInv, CInv, NEW n \in Names, PutNoSlot(n)
  PROVE  CInv'
<1>1. /\ UNCHANGED <<dsb, ddir, ddata, sb, dir, ph, cur, crashes, committed, ahead, torn>>
      /\ ph = "idle" /\ last' = "fail"
  BY DEF PutNoSlot, disk, ram, bounds, history
<1>2. ~Putting /\ ~Putting' /\ Ready /\ Ready'
  BY <1>1 DEF Putting, Ready
<1>3. CallInv'
  BY <1>1, <1>2 DEF CInv, CallInv, SizesFit
<1>4. DataInv'
  BY <1>1, Zenon DEF CInv, DataInv
<1>5. KeptInv'
  <2>1. \A m \in Names : Found(m) => Found(m)'
    BY <1>1 DEF Found
  <2> QED BY <1>1, <1>2, <2>1 DEF CInv, KeptInv, Rewritten, SameEntries
<1>6. FlushInv' /\ CountInv' /\ FirstInv'
  BY <1>1, <1>2 DEF CInv, FlushInv, CountInv, FirstInv
<1> QED BY <1>3, <1>4, <1>5, <1>6 DEF CInv

LEMMA PutFullContents ==
  ASSUME IInv, CInv, NEW n \in Names, NEW len \in Lens, PutFull(n, len)
  PROVE  CInv'
<1> DEFINE s == SlotFor(n)
           Stays == /\ SameEntries(dir, dir', n) /\ UsedSlots(dir') = UsedSlots(dir)
                    /\ \A t \in UsedSlots(dir) : dir'[t] = dir[t]
                    /\ sb'.count = sb.count /\ committed' = committed
           Goes == /\ s \in Entries(dir, n) /\ Entries(dir', n) = Entries(dir, n) \ {s}
                   /\ UsedSlots(dir') = UsedSlots(dir) \ {s}
                   /\ \A t \in UsedSlots(dir') : dir'[t] = dir[t]
                   /\ sb'.count = (IF sb.count > 0 THEN sb.count - 1 ELSE 0)
                   /\ committed' = [committed EXCEPT ![n] = Unknown]
<1>1. /\ UNCHANGED <<dsb, ddir, ddata, ph, cur, crashes, ahead, torn>>
      /\ ph = "idle" /\ last' = "fail"
  BY DEF PutFull, disk, bounds
<1>2. ~Putting /\ ~Putting' /\ Ready /\ Ready'
  BY <1>1 DEF Putting, Ready
<1>3. SizesFit(dir) /\ SizesFit(ddir) /\ cur.name = NoName
  BY <1>2 DEF CInv, CallInv
<1>4. /\ \A m \in Names \ {n} : SameEntries(dir, dir', m)
      /\ Stays \/ Goes
  BY <1>3, PutFullShape DEF IInv
<1> HIDE DEF s
<1>5. \A t \in UsedSlots(dir') : t \in UsedSlots(dir) /\ dir'[t] = dir[t]
  BY <1>4
<1>6. CallInv'
  <2>1. SizesFit(dir')
    BY <1>3, <1>5 DEF SizesFit
  <2> QED BY <1>1, <1>2, <1>3, <2>1 DEF CallInv, SizesFit
<1>7. DataInv'
  BY <1>1, Zenon DEF CInv, DataInv
<1>8. KeptInv'
  <2>1. committed' \in [Names -> AllContents \cup {Missing, Unknown}]
    BY <1>4 DEF CInv, KeptInv
  <2>2. ASSUME NEW m \in Names, committed'[m] # Unknown
        PROVE  committed'[m] = committed[m] /\ SameEntries(dir, dir', m)
    BY <1>4, <2>2 DEF CInv, KeptInv
  <2>3. ASSUME NEW m \in Names, committed'[m] # Unknown, ~torn
        PROVE  Found(m)' /\ SameEntries(dir', ddir', m)
    <3>1. Found(m) /\ SameEntries(dir, ddir, m)
      BY <1>2, <2>2, <2>3 DEF CInv, KeptInv, Rewritten
    <3> QED BY <1>1, <2>2, <2>3, <3>1 DEF Found, SameEntries
  <2>4. ASSUME NEW m \in Names, committed'[m] # Unknown, ~torn PROVE SameEntries(dir, ddir, m)'
    BY <2>3, <2>4
  <2> QED BY <1>1, <1>2, <2>1, <2>3, <2>4 DEF KeptInv
<1>9. CountInv'
  <2>1. ASSUME crashes = 0 PROVE sb'.count = Cardinality(UsedSlots(dir'))
    <3>1. sb.count = Cardinality(UsedSlots(dir))
      BY <1>2, <2>1 DEF CInv, CountInv
    <3>2. CASE Goes
      <4>1. s \in UsedSlots(dir) /\ IsFiniteSet(UsedSlots(dir)) /\ Cardinality(UsedSlots(dir)) \in Nat
        BY <3>2, UsedFinite DEF Entries
      <4>2. Cardinality(UsedSlots(dir')) = Cardinality(UsedSlots(dir)) - 1
        BY <3>2, <4>1, FS_RemoveElement
      <4>3. Cardinality(UsedSlots(dir')) \in Nat
        BY UsedFinite
      <4> QED BY <3>1, <3>2, <4>1, <4>2, <4>3
    <3> QED BY <1>4, <3>1, <3>2
  <2> QED BY <1>1, <2>1 DEF CountInv
<1>10. FirstInv'
  <2>1. \A m \in Names : Entries(dir', m) \subseteq Entries(dir, m)
    BY <1>5 DEF Entries
  <2> QED BY <1>1, <1>2, <2>1 DEF CInv, FirstInv
<1>11. FlushInv'
  BY <1>1, <1>2 DEF FlushInv
<1> QED BY <1>6, <1>7, <1>8, <1>9, <1>10, <1>11 DEF CInv

LEMMA PutStartContents ==
  ASSUME IInv, CInv, NEW n \in Names, NEW len \in Lens, NEW v \in Vals, PutStart(n, v, len)
  PROVE  CInv'
<1> DEFINE s == SlotFor(n)
<1>1. /\ UNCHANGED <<dsb, ddir, ddata, crashes, committed, ahead, torn, last>>
      /\ ph = "idle" /\ i' = 0 /\ ph' \in {"data", "dir"}
      /\ cur' = [name |-> n, val |-> v, len |-> len, slot |-> s, grew |-> Grows(n, len)]
  BY DEF PutStart, disk, bounds
<1>2. ~Putting /\ Putting' /\ Ready /\ Ready'
  BY <1>1 DEF Putting, Ready
<1>3. SizesFit(dir) /\ SizesFit(ddir)
  BY <1>2 DEF CInv, CallInv
<1>4. /\ s \in Slots /\ dir' \in [Slots -> Ent] /\ dir'[s] \in Ent
      /\ dir' = [dir EXCEPT ![s] = dir'[s]]
      /\ s \in Entries(dir', n) /\ s = First(Entries(dir', n))
      /\ Entries(dir, n) = {} => s \notin UsedSlots(dir) /\ Entries(dir', n) = {s}
      /\ Entries(dir, n) # {} => s \in UsedSlots(dir) /\ Entries(dir', n) = Entries(dir, n)
      /\ UsedSlots(dir') = UsedSlots(dir) \cup {s}
      /\ \A m \in Names \ {n} : SameEntries(dir, dir', m)
      /\ Need(len) <= dir'[s].sects /\ Need(dir'[s].size) <= dir'[s].sects
      /\ Grows(n, len) => dir'[s].lba = sb.next
  BY <1>3, PutStartShape DEF IInv
<1>5. ph' = IF dir'[s].sects > 0 THEN "data" ELSE "dir"
  <2>1. ph' = IF Placed(n, len).sects > 0 THEN "data" ELSE "dir"
    BY DEF PutStart
  <2>2. dir'[s] = Placed(n, len)
    BY PlacedType, <1>4 DEF PutStart, IInv
  <2> QED BY <2>1, <2>2
<1> HIDE DEF s
<1>6. /\ cur'.name = n /\ cur'.val = v /\ cur'.len = len /\ cur'.slot = s
      /\ (cur'.grew <=> Grows(n, len))
  BY <1>1
<1>7. /\ dir'[s].sects \in Nat /\ dir'[s].size \in Nat /\ len \in Nat
      /\ Need(dir'[s].size) \in Nat /\ Need(len) \in Nat
  BY <1>4, NosfsAssumption, ByteInSectors DEF Ent
<1>8. CallInv'
  <2>1. SizesFit(dir')
    <3> SUFFICES ASSUME NEW t \in UsedSlots(dir') PROVE Need(dir'[t].size) <= dir'[t].sects
      BY DEF SizesFit
    <3>1. CASE t = s
      BY <1>4, <3>1
    <3>2. CASE t # s
      <4>1. t \in UsedSlots(dir) /\ t \in Slots /\ dir \in [Slots -> Ent]
        BY <1>4, <3>2 DEF UsedSlots, IInv, TypeOK
      <4>2. dir'[t] = dir[t]
        BY <1>4, <3>2, <4>1
      <4> QED BY <1>3, <4>1, <4>2 DEF SizesFit
    <3> QED BY <3>1, <3>2
  <2> QED BY <1>1, <1>2, <1>3, <1>4, <1>6, <2>1 DEF CallInv, SizesFit
<1>9. DataInv'
  <2>1. ASSUME ph' = "data", ~torn'
        PROVE  /\ i' < dir'[cur'.slot].sects /\ WrittenTo(i)'
               /\ cur'.grew => \A t \in UsedSlots(ddir') :
                    ddir'[t].sects > 0 => ddir'[t].lba + ddir'[t].sects <= dir'[cur'.slot].lba
    <3>1. i' < dir'[cur'.slot].sects
      BY <1>1, <1>5, <1>6, <2>1
    <3>2. WrittenTo(i)'
      BY <1>1 DEF WrittenTo
    <3>3. BelowNext(ddir, sb)
      BY <1>1, <1>2, <2>1 DEF IInv, RamMeetsPlatter
    <3> QED BY <1>1, <1>4, <1>6, <3>1, <3>2, <3>3 DEF BelowNext
  <2>2. ASSUME ph' \in {"dir", "sb"}
        PROVE  dir'[cur'.slot].size = cur'.len /\ WrittenTo(dir[cur.slot].sects)'
    <3>1. dir'[s].sects = 0
      BY <1>5, <1>7, <2>2
    <3>2. Need(len) <= 0 /\ Need(dir'[s].size) <= 0
      BY <1>4, <3>1
    <3>3. len = 0 /\ dir'[s].size = 0
      BY <1>7, <3>2, NeedOfNothing
    <3>4. WrittenTo(dir[cur.slot].sects)'
      BY <1>6, <3>1 DEF WrittenTo
    <3> QED BY <1>6, <3>3, <3>4
  <2>3. ddata' \in [DataLbas -> Sector]
    BY <1>1 DEF CInv, DataInv
  <2> QED BY <2>1, <2>2, <2>3 DEF DataInv
<1>10. KeptInv'
  <2>1. ASSUME NEW m \in Names, committed'[m] # Unknown, ~torn
        PROVE  Found(m)' /\ (m # n => SameEntries(dir, ddir, m)')
    <3>1. Found(m) /\ SameEntries(dir, ddir, m)
      BY <1>1, <1>2, <2>1 DEF CInv, KeptInv, Rewritten
    <3>2. Found(m)'
      BY <1>1, <3>1 DEF Found
    <3>3. m # n => SameEntries(dir, dir', m)
      BY <1>4
    <3>4. m # n => SameEntries(dir', ddir', m)
      BY <1>1, <3>1, <3>3 DEF SameEntries
    <3> QED BY <3>2, <3>4
  <2> QED BY <1>1, <1>2, <1>6, <2>1 DEF CInv, KeptInv
<1>11. CountInv'
  <2>1. ASSUME crashes = 0 PROVE sb'.count = Cardinality(UsedSlots(dir'))
    <3>1. sb.count = Cardinality(UsedSlots(dir)) /\ IsFiniteSet(UsedSlots(dir))
      BY <1>2, <2>1, UsedFinite DEF CInv, CountInv
    <3>2. sb'.count = ClaimedCount(n)
      <4>1. sb \in SuperBlock
        BY DEF IInv, TypeOK
      <4> QED BY <4>1 DEF PutStart, SuperBlock
    <3>3. CASE Entries(dir, n) = {}
      <4>1. Cardinality(UsedSlots(dir')) = Cardinality(UsedSlots(dir)) + 1
        BY <1>4, <3>1, <3>3, FS_AddElement
      <4> QED BY <3>1, <3>2, <3>3, <4>1 DEF ClaimedCount
    <3>4. CASE Entries(dir, n) # {}
      <4>1. UsedSlots(dir') = UsedSlots(dir)
        BY <1>4, <3>4
      <4>2. sb.count + 0 = sb.count
        BY <3>1, UsedFinite
      <4> QED BY <3>1, <3>2, <3>4, <4>1, <4>2 DEF ClaimedCount
    <3> QED BY <3>3, <3>4
  <2> QED BY <1>1, <2>1 DEF CountInv
<1>12. FirstInv'
  <2>1. ASSUME NEW m \in Names, \A t \in Entries(dir, m), u \in Entries(dir, m) : t = u
        PROVE  \A t \in Entries(dir', m), u \in Entries(dir', m) : t = u
    BY <1>4, <2>1 DEF SameEntries
  <2> QED BY <1>1, <1>2, <2>1 DEF CInv, FirstInv
<1>13. FlushInv'
  <2>1. \A t \in Slots : ~(SectorOf(t) < 0)
    BY SectorOfInRange
  <2> QED BY <1>1, <1>2, <2>1, NosfsAssumption DEF FlushInv
<1> QED BY <1>8, <1>9, <1>10, <1>11, <1>12, <1>13 DEF CInv
\* The file under way and the rest, when a sector of it lands or not.
LEMMA OthersKept ==
  ASSUME IInv, CInv, ph = "data", ~torn, SectorWrite, NEW n \in Names, committed[n] # Unknown,
         n # cur.name \/ cur.grew
  PROVE  /\ Found(n)
         /\ committed[n] = Missing => Entries(ddir', n) = {}
         /\ committed[n] # Missing => ReadAll(ddir', ddata', n) = committed[n]
<1>1. ddir' = ddir
  BY DEF SectorWrite
<1>2. Found(n)
  BY DEF CInv, KeptInv, Rewritten
<1>3. CASE committed[n] = Missing
  BY <1>1, <1>2, <1>3 DEF Found
<1>4. CASE committed[n] # Missing
  <2>1. ReadAll(ddir, ddata, n) = committed[n]
    BY <1>2, <1>4 DEF Found
  <2>2. ASSUME NEW t \in Entries(ddir, n), ~cur.grew PROVE t # cur.slot
    <3>1. n # cur.name
      BY <2>2
    <3>2. SameEntries(dir, ddir, n)
      BY <3>1 DEF CInv, KeptInv, Ready
    <3>3. cur.slot \in Entries(dir, cur.name)
      BY DEF CInv, CallInv, Putting
    <3> QED BY <3>1, <3>2, <3>3 DEF SameEntries, Entries
  <2>3. \A t \in Entries(ddir, n) : \A l \in Extent(ddir[t]) : ddata[l] = ddata'[l]
    BY <2>2, DataLandsElsewhere DEF Entries
  <2>4. ReadAll(ddir, ddata, n) = ReadAll(ddir, ddata', n)
    <3>1. SizesFit(ddir) /\ ddir \in [Slots -> Ent] /\ SameEntries(ddir, ddir, n)
      BY DEF CInv, CallInv, IInv, TypeOK, SameEntries
    <3> QED BY <2>3, <3>1, ReadSame
  <2> QED BY <1>1, <1>2, <1>4, <2>1, <2>4
<1> QED BY <1>3, <1>4

\* What one sector write leaves true of the files that are not being put.
LEMMA SectorWriteKeeps ==
  ASSUME IInv, CInv, SectorWrite, ~torn, NEW n \in Names, committed[n] # Unknown, n # cur.name
  PROVE  /\ SameEntries(dir, ddir', n)
         /\ committed[n] = Missing => Entries(ddir', n) = {}
         /\ committed[n] # Missing => ReadAll(ddir', ddata', n) = committed[n]
<1>1. ph \in {"data", "dir", "sb"}
  BY DEF SectorWrite
<1>2. Found(n) /\ SameEntries(dir, ddir, n)
  BY <1>1 DEF CInv, KeptInv, Rewritten, Ready
<1>3. CASE ph = "data"
  BY <1>2, <1>3, OthersKept DEF SectorWrite
<1>4. CASE ph = "sb"
  BY <1>2, <1>4 DEF SectorWrite, Found
<1>5. CASE ph = "dir"
  <2>1. ddir' = [s \in Slots |-> IF SectorOf(s) = i THEN dir[s] ELSE ddir[s]] /\ ddata' = ddata
    BY <1>5 DEF SectorWrite
  <2>2. \A s \in Slots : ddir'[s] = dir[s] \/ ddir'[s] = ddir[s]
    BY <2>1
  <2>3. /\ \A s \in Slots : s \in Entries(dir, n) <=> s \in Entries(ddir, n)
        /\ Entries(dir, n) \subseteq Slots /\ Entries(ddir', n) \subseteq Slots
    BY <1>2 DEF SameEntries, Entries, UsedSlots
  <2>4. \A s \in Slots : s \in Entries(ddir', n) <=> s \in Entries(dir, n)
    <3> SUFFICES ASSUME NEW s \in Slots PROVE s \in Entries(ddir', n) <=> s \in Entries(dir, n)
      OBVIOUS
    <3>1. CASE ddir'[s] = dir[s]
      BY <3>1 DEF Entries, UsedSlots
    <3>2. CASE ddir'[s] = ddir[s]
      <4>1. s \in Entries(ddir', n) <=> s \in Entries(ddir, n)
        BY <3>2 DEF Entries, UsedSlots
      <4> QED BY <2>3, <4>1
    <3> QED BY <2>2, <3>1, <3>2
  <2>5. Entries(ddir', n) = Entries(dir, n)
    BY <2>3, <2>4
  <2>6. \A s \in Entries(dir, n) : ddir'[s] = dir[s] /\ ddir[s] = dir[s]
    BY <1>2, <2>2, <2>3 DEF SameEntries
  <2>7. SameEntries(dir, ddir', n) /\ SameEntries(ddir, ddir', n)
    BY <1>2, <2>5, <2>6 DEF SameEntries
  <2>8. ReadAll(ddir, ddata, n) = ReadAll(ddir', ddata', n)
    <3>1. ddir \in [Slots -> Ent] /\ ddir' \in [Slots -> Ent] /\ SizesFit(ddir)
      BY <2>1 DEF IInv, TypeOK, CInv, CallInv
    <3>2. ReadAll(ddir, ddata, n) = ReadAll(ddir', ddata, n)
      BY <2>7, <3>1, ReadSame
    <3> QED BY <2>1, <3>2
  <2> QED BY <1>2, <2>5, <2>7, <2>8 DEF Found, SameEntries
<1> QED BY <1>1, <1>3, <1>4, <1>5

LEMMA SectorWriteFits ==
  ASSUME IInv, CInv, SectorWrite
  PROVE  SizesFit(ddir') /\ ddata' \in [DataLbas -> Sector]
<1>1. SizesFit(ddir) /\ SizesFit(dir) /\ ddata \in [DataLbas -> Sector]
  BY DEF CInv, CallInv, DataInv, SectorWrite, Ready
<1>2. CASE ph = "data"
  <2>1. Payload(cur.val, cur.len, i) \in Sector
    <3>1. cur.val \in Vals /\ cur.len \in Nat /\ i \in Nat
      BY <1>2, NosfsAssumption DEF CInv, CallInv, Putting, IInv, TypeOK
    <3>2. \A o \in 0 .. (SectorSize - 1) : i * SectorSize + o \in Nat
      BY <3>1, NosfsAssumption
    <3> QED BY <3>1, <3>2 DEF Payload, Sector
  <2> QED BY <1>1, <1>2, <2>1 DEF SectorWrite
<1>3. CASE ph = "dir"
  <2>1. ddir' = [s \in Slots |-> IF SectorOf(s) = i THEN dir[s] ELSE ddir[s]] /\ ddata' = ddata
    BY <1>3 DEF SectorWrite
  <2>2. ASSUME NEW s \in UsedSlots(ddir') PROVE Need(ddir'[s].size) <= ddir'[s].sects
    <3>1. s \in Slots /\ ddir'[s].used
      BY DEF UsedSlots
    <3>2. CASE ddir'[s] = dir[s]
      BY <1>1, <3>1, <3>2 DEF SizesFit, UsedSlots
    <3>3. CASE ddir'[s] = ddir[s]
      BY <1>1, <3>1, <3>3 DEF SizesFit, UsedSlots
    <3> QED BY <2>1, <3>1, <3>2, <3>3
  <2> QED BY <1>1, <2>1, <2>2 DEF SizesFit
<1>4. CASE ph = "sb"
  BY <1>1, <1>4 DEF SectorWrite
<1> QED BY <1>2, <1>3, <1>4 DEF SectorWrite

LEMMA WriteDataContents ==
  ASSUME IInv, CInv, WriteData
  PROVE  CInv'
<1> DEFINE s == cur.slot
           More == i + 1 < dir[s].sects
<1>1. /\ UNCHANGED <<dsb, ddir, sb, cur, last, crashes, committed, torn, ahead>>
      /\ ph = "data" /\ ph' = (IF More THEN "data" ELSE "dir") /\ SectorWrite
      /\ i' = (IF More THEN i + 1 ELSE 0)
      /\ dir' = IF More THEN dir ELSE [dir EXCEPT ![s].size = cur.len]
  BY DEF WriteData, SectorWrite, bounds
<1>2. Putting /\ Putting' /\ Ready /\ Ready'
  BY <1>1 DEF Putting, Ready
<1>3. /\ s \in Slots /\ s \in UsedSlots(dir) /\ dir \in [Slots -> Ent] /\ dir[s] \in Ent
      /\ s \in Entries(dir, cur.name) /\ s = First(Entries(dir, cur.name))
      /\ Need(cur.len) <= dir[s].sects /\ SizesFit(dir) /\ SizesFit(ddir)
      /\ cur.name \in Names /\ cur.val \in Vals /\ cur.len \in Lens
  BY <1>2 DEF IInv, TypeOK, CInv, CallInv, Entries
<1>4. /\ dir'[s].lba = dir[s].lba /\ dir'[s].sects = dir[s].sects
      /\ ~More => dir'[s].size = cur.len
      /\ More => dir'[s] = dir[s]
      /\ dir'[s].used = dir[s].used /\ dir'[s].name = dir[s].name
      /\ \A t \in Slots \ {s} : dir'[t] = dir[t]
  <2>1. CASE More
    BY <1>1, <2>1
  <2>2. CASE ~More
    <3>1. dir' = [dir EXCEPT ![s].size = cur.len]
      BY <1>1, <2>2
    <3> HIDE DEF s, More
    <3>2. dir'[s] = [dir[s] EXCEPT !.size = cur.len] /\ \A t \in Slots \ {s} : dir'[t] = dir[t]
      BY <1>3, <3>1
    <3> QED BY <1>3, <2>2, <3>2 DEF Ent
  <2> QED BY <2>1, <2>2
<1> HIDE DEF s
<1>5. UsedSlots(dir') = UsedSlots(dir) /\ \A n : Entries(dir', n) = Entries(dir, n)
  <2>1. \A t \in Slots : dir'[t].used = dir[t].used /\ dir'[t].name = dir[t].name
    BY <1>4
  <2>2. UsedSlots(dir') = UsedSlots(dir)
    BY <2>1 DEF UsedSlots
  <2> QED BY <2>1, <2>2 DEF Entries, UsedSlots
<1>6. CallInv'
  <2>1. SizesFit(dir')
    <3> SUFFICES ASSUME NEW t \in UsedSlots(dir') PROVE Need(dir'[t].size) <= dir'[t].sects
      BY DEF SizesFit
    <3>1. t \in UsedSlots(dir) /\ t \in Slots
      BY <1>5 DEF UsedSlots
    <3>2. Need(dir[t].size) <= dir[t].sects
      BY <1>3, <3>1 DEF SizesFit
    <3>3. CASE t = s
      BY <1>3, <1>4, <3>2, <3>3
    <3>4. CASE t # s
      BY <1>4, <3>1, <3>2, <3>4
    <3> QED BY <3>3, <3>4
  <2> QED BY <1>1, <1>2, <1>3, <1>4, <1>5, <2>1 DEF CallInv, SizesFit, s
<1>7. DataInv'
  <2>1. ddata' \in [DataLbas -> Sector]
    BY <1>1, SectorWriteFits
  <2>2. ASSUME ~torn
        PROVE  /\ i \in Nat /\ dir[s].sects \in Nat /\ i < dir[s].sects
               /\ \A k \in 0 .. i : ddata'[dir[s].lba + k] = Payload(cur.val, cur.len, k)
               /\ cur.grew => \A t \in UsedSlots(ddir) :
                    ddir[t].sects > 0 => ddir[t].lba + ddir[t].sects <= dir[s].lba
    <3>1. /\ i < dir[s].sects /\ WrittenTo(i)
          /\ cur.grew => \A t \in UsedSlots(ddir) :
               ddir[t].sects > 0 => ddir[t].lba + ddir[t].sects <= dir[s].lba
      BY <1>1, <2>2 DEF CInv, DataInv, s
    <3>2. i \in Nat /\ dir[s].sects \in Nat
      BY <1>3 DEF IInv, TypeOK, Ent
    <3>3. /\ ddata'[dir[s].lba + i] = Payload(cur.val, cur.len, i)
          /\ \A k \in 0 .. (i - 1) : ddata'[dir[s].lba + k] = ddata[dir[s].lba + k]
      BY <1>1, <2>2, DataLandsElsewhere DEF s
    <3>4. \A k \in 0 .. i : ddata'[dir[s].lba + k] = Payload(cur.val, cur.len, k)
      <4> SUFFICES ASSUME NEW k \in 0 .. i PROVE ddata'[dir[s].lba + k] = Payload(cur.val, cur.len, k)
        OBVIOUS
      <4>1. k = i \/ k \in 0 .. (i - 1)
        BY <3>2
      <4>2. CASE k = i
        BY <3>3, <4>2
      <4>3. CASE k \in 0 .. (i - 1)
        BY <3>1, <3>3, <4>3 DEF WrittenTo, s
      <4> QED BY <4>1, <4>2, <4>3
    <3> QED BY <3>1, <3>2, <3>4
  <2>3. CASE More
    <3>1. ~torn => WrittenTo(i)'
      BY <1>1, <1>4, <2>2, <2>3 DEF WrittenTo, s
    <3> QED BY <1>1, <1>4, <2>1, <2>2, <2>3, <3>1 DEF DataInv, s
  <2>4. CASE ~More
    <3>1. ~torn => i + 1 = dir[s].sects
      BY <2>2, <2>4 DEF s
    <3>2. ~torn => WrittenTo(dir[cur.slot].sects)'
      <4> SUFFICES ASSUME ~torn PROVE WrittenTo(dir[cur.slot].sects)'
        OBVIOUS
      <4>1. dir[s].sects - 1 = i
        BY <2>2, <3>1
      <4> QED BY <1>1, <1>4, <2>2, <4>1 DEF WrittenTo, s
    <3> QED BY <1>1, <1>4, <2>1, <2>4, <3>2 DEF DataInv, s
  <2> QED BY <2>3, <2>4
<1>8. KeptInv'
  <2>1. ASSUME NEW n \in Names, ~torn, committed[n] # Unknown, n # cur.name \/ cur.grew
        PROVE  Found(n)'
    BY <1>1, <2>1, OthersKept DEF Found
  <2>2. ASSUME NEW n \in Names, ~torn, committed[n] # Unknown, n # cur.name
        PROVE  SameEntries(dir, ddir, n)'
    <3>1. SameEntries(dir, ddir, n)
      BY <1>2, <2>2 DEF CInv, KeptInv
    <3>2. s \notin Entries(dir, n)
      BY <1>3, <2>2 DEF Entries
    <3>3. \A t \in Entries(dir, n) : dir'[t] = dir[t]
      BY <1>4, <3>2 DEF Entries, UsedSlots
    <3> QED BY <1>1, <1>5, <3>1, <3>3 DEF SameEntries
  <2> QED BY <1>1, <1>2, <2>1, <2>2 DEF CInv, KeptInv, Rewritten
<1>9. CountInv' /\ FirstInv'
  BY <1>1, <1>2, <1>5 DEF CInv, CountInv, FirstInv
<1>10. FlushInv'
  <2>1. \A t \in Slots : ~(SectorOf(t) < 0)
    BY SectorOfInRange
  <2> QED BY <1>1, <1>2, <2>1, NosfsAssumption DEF FlushInv
<1> QED BY <1>6, <1>7, <1>8, <1>9, <1>10 DEF CInv
\* The flush of the directory, sector by sector.
LEMMA FlushProgress ==
  ASSUME IInv, CInv, ph = "dir", SectorWrite
  PROVE  \A s \in Slots : SectorOf(s) < i + 1 => ddir'[s] = dir[s]
<1>1. ddir' = [s \in Slots |-> IF SectorOf(s) = i THEN dir[s] ELSE ddir[s]]
  BY DEF SectorWrite
<1>2. \A s \in Slots : SectorOf(s) < i => ddir[s] = dir[s]
  BY DEF CInv, FlushInv
<1>3. i \in Nat /\ \A s \in Slots : SectorOf(s) \in Nat
  BY SectorOfInRange DEF IInv, TypeOK
<1> QED BY <1>1, <1>2, <1>3

LEMMA WriteDirContents ==
  ASSUME IInv, CInv, WriteDir
  PROVE  CInv'
<1> DEFINE More == i + 1 < DirSects
<1>1. /\ UNCHANGED <<dsb, ddata, sb, dir, cur, last, crashes, committed, torn>>
      /\ ph = "dir" /\ ph' = (IF More THEN "dir" ELSE "sb") /\ SectorWrite
      /\ i' = (IF More THEN i + 1 ELSE 0)
  BY DEF WriteDir, SectorWrite, bounds, ram
<1>2. Putting /\ Putting' /\ Ready /\ Ready'
  BY <1>1 DEF Putting, Ready
<1>3. CallInv'
  BY <1>1, <1>2, SectorWriteFits DEF CInv, CallInv, SizesFit
<1>4. DataInv'
  <2>1. ~torn => dir[cur.slot].size = cur.len /\ WrittenTo(dir[cur.slot].sects)
    BY <1>1 DEF CInv, DataInv
  <2>2. ph' # "data"
    BY <1>1
  <2>3. ~torn' => dir'[cur'.slot].size = cur'.len /\ WrittenTo(dir[cur.slot].sects)'
    BY <1>1, <2>1 DEF WrittenTo
  <2> QED BY <1>1, <2>2, <2>3 DEF CInv, DataInv
<1>5. KeptInv'
  <2>1. ASSUME NEW n \in Names, ~torn, committed[n] # Unknown, n # cur.name
        PROVE  Found(n)' /\ SameEntries(dir, ddir, n)'
    <3>1. /\ SameEntries(dir, ddir', n)
          /\ committed[n] = Missing => Entries(ddir', n) = {}
          /\ committed[n] # Missing => ReadAll(ddir', ddata', n) = committed[n]
      BY <1>1, <2>1, SectorWriteKeeps
    <3> QED BY <1>1, <3>1 DEF Found, SameEntries
  <2>2. \A n \in Names : ~Rewritten(n)' => n # cur.name
    BY <1>1, <1>2 DEF Rewritten
  <2>3. \A n \in Names : ~(Putting /\ n = cur.name)' => n # cur.name
    BY <1>1, <1>2
  <2>4. ph' # "fmtdir"
    BY <1>1
  <2> QED BY <1>1, <2>1, <2>2, <2>3, <2>4 DEF CInv, KeptInv
<1>6. CountInv' /\ FirstInv'
  BY <1>1, <1>2 DEF CInv, CountInv, FirstInv
<1>7. FlushInv'
  <2>1. \A s \in Slots : SectorOf(s) < i + 1 => ddir'[s] = dir[s]
    BY <1>1, FlushProgress
  <2>2. CASE More
    BY <1>1, <1>2, <2>1, <2>2 DEF FlushInv
  <2>3. CASE ~More
    <3>1. \A s \in Slots : SectorOf(s) < i + 1
      <4>1. i \in Nat /\ DirSects \in Nat
        BY NosfsAssumption DEF IInv, TypeOK
      <4>2. \A s \in Slots : SectorOf(s) \in 0 .. (DirSects - 1)
        BY SectorOfInRange
      <4> QED BY <2>3, <4>1, <4>2
    <3>2. ddir' \in [Slots -> Ent] /\ dir \in [Slots -> Ent]
      <4>1. TypeOK'
        BY TypeStep DEF IInv, Next
      <4> QED BY <4>1 DEF IInv, TypeOK
    <3>3. ddir' = dir
      BY <2>1, <3>1, <3>2
    <3> QED BY <1>1, <1>2, <2>3, <3>3 DEF FlushInv
  <2> QED BY <2>2, <2>3
<1> QED BY <1>3, <1>4, <1>5, <1>6, <1>7 DEF CInv

LEMMA WriteSbContents ==
  ASSUME IInv, CInv, WriteSb
  PROVE  CInv'
<1>1. /\ UNCHANGED <<ddir, ddata, sb, dir, crashes, torn>> /\ SectorWrite
      /\ ph = "sb" /\ ph' = "idle" /\ dsb' = sb /\ cur' = Idle /\ ahead' = FALSE
      /\ committed' = [committed EXCEPT ![cur.name] = Bytes(cur.val, cur.len)]
  BY DEF WriteSb, SectorWrite, bounds, ram
<1>2. Putting /\ ~Putting' /\ Ready /\ Ready' /\ cur'.name = NoName
  BY <1>1 DEF Putting, Ready, Idle
<1>3. ddir = dir /\ cur.name \in Names /\ cur.val \in Vals /\ cur.len \in Lens
  BY <1>1, <1>2 DEF CInv, FlushInv, CallInv
<1>4. CallInv'
  BY <1>1, <1>2 DEF CInv, CallInv, SizesFit
<1>5. DataInv'
  BY <1>1, Zenon DEF CInv, DataInv
<1>6. KeptInv'
  <2>1. Bytes(cur.val, cur.len) \in AllContents /\ Bytes(cur.val, cur.len) # Missing
    BY <1>3, MissingAssumption DEF AllContents
  <2>2. committed' \in [Names -> AllContents \cup {Missing, Unknown}]
    BY <1>1, <2>1 DEF CInv, KeptInv
  <2>3. ASSUME NEW n \in Names, ~torn, committed'[n] # Unknown
        PROVE  Found(n)' /\ SameEntries(dir, ddir, n)'
    <3>1. SameEntries(dir, ddir, n)'
      BY <1>1, <1>3 DEF SameEntries
    <3>2. CASE n = cur.name
      <4>1. ReadAll(dir, ddata, n) = Bytes(cur.val, cur.len)
        BY <1>1, <2>3, <3>2, ReadsWritten
      <4>2. committed'[n] = Bytes(cur.val, cur.len)
        BY <1>1, <3>2 DEF CInv, KeptInv
      <4> QED BY <1>1, <1>3, <2>1, <3>1, <4>1, <4>2 DEF Found
    <3>3. CASE n # cur.name
      <4>1. committed'[n] = committed[n]
        BY <1>1, <3>3 DEF CInv, KeptInv
      <4>2. Found(n)
        BY <2>3, <3>3, <4>1 DEF CInv, KeptInv, Rewritten
      <4> QED BY <1>1, <3>1, <4>1, <4>2 DEF Found
    <3> QED BY <3>2, <3>3
  <2> QED BY <1>1, <1>2, <2>2, <2>3 DEF KeptInv
<1>7. CountInv' /\ FirstInv'
  BY <1>1, <1>2 DEF CInv, CountInv, FirstInv
<1>8. FlushInv'
  BY <1>1, <1>2, <1>3 DEF FlushInv
<1> QED BY <1>4, <1>5, <1>6, <1>7, <1>8 DEF CInv

LEMMA PutFailsContents ==
  ASSUME IInv, CInv, PutFails
  PROVE  CInv'
<1>1. /\ UNCHANGED <<sb, dir, crashes, torn>>
      /\ ph' = "idle" /\ last' = "fail" /\ cur' = Idle
      /\ committed' = [committed EXCEPT ![cur.name] = Unknown]
      /\ SectorWrite \/ UNCHANGED <<disk, ahead>>
  BY DEF PutFails, ram
<1>2. Putting /\ ~Putting' /\ Ready /\ Ready' /\ cur'.name = NoName /\ cur.name \in Names
  BY <1>1 DEF PutFails, Putting, Ready, Idle, CInv, CallInv
<1>3. /\ SizesFit(dir) /\ SizesFit(ddir) /\ ddata \in [DataLbas -> Sector]
      /\ SizesFit(ddir') /\ ddata' \in [DataLbas -> Sector]
  <2>1. SizesFit(dir) /\ SizesFit(ddir) /\ ddata \in [DataLbas -> Sector]
    BY <1>2 DEF CInv, CallInv, DataInv
  <2>2. CASE SectorWrite
    BY <2>1, <2>2, SectorWriteFits
  <2>3. CASE UNCHANGED <<disk, ahead>>
    BY <2>1, <2>3 DEF disk, SizesFit
  <2> QED BY <1>1, <2>1, <2>2, <2>3
<1>4. CallInv'
  BY <1>1, <1>2, <1>3 DEF CallInv, SizesFit
<1>5. DataInv'
  BY <1>1, <1>3 DEF DataInv
<1>6. KeptInv'
  <2>1. committed' \in [Names -> AllContents \cup {Missing, Unknown}]
    BY <1>1 DEF CInv, KeptInv
  <2>2. ASSUME NEW n \in Names, ~torn, committed'[n] # Unknown
        PROVE  Found(n)' /\ SameEntries(dir, ddir, n)'
    <3>1. n # cur.name /\ committed'[n] = committed[n] /\ committed[n] # Unknown
      BY <1>1, <1>2, <2>2 DEF CInv, KeptInv
    <3>2. CASE SectorWrite
      <4>1. /\ SameEntries(dir, ddir', n)
            /\ committed[n] = Missing => Entries(ddir', n) = {}
            /\ committed[n] # Missing => ReadAll(ddir', ddata', n) = committed[n]
        BY <2>2, <3>1, <3>2, SectorWriteKeeps
      <4> QED BY <1>1, <3>1, <4>1 DEF Found, SameEntries
    <3>3. CASE UNCHANGED <<disk, ahead>>
      <4>1. Found(n) /\ SameEntries(dir, ddir, n)
        BY <1>2, <2>2, <3>1 DEF CInv, KeptInv, Rewritten
      <4> QED BY <1>1, <3>1, <3>3, <4>1 DEF Found, SameEntries, disk
    <3> QED BY <1>1, <3>2, <3>3
  <2> QED BY <1>1, <1>2, <2>1, <2>2 DEF KeptInv
<1>7. CountInv' /\ FirstInv'
  BY <1>1, <1>2 DEF CInv, CountInv, FirstInv
<1>8. FlushInv'
  BY <1>1, <1>2 DEF FlushInv
<1> QED BY <1>4, <1>5, <1>6, <1>7, <1>8 DEF CInv

LEMMA StutterContents ==
  ASSUME CInv, UNCHANGED vars
  PROVE  CInv'
<1> USE DEF vars, disk, ram, bounds, history
<1>1. CallInv'
  BY DEF CInv, CallInv, Putting, Ready, SizesFit, Entries, UsedSlots
<1>2. DataInv'
  BY DEF CInv, DataInv, WrittenTo, UsedSlots
<1>3. FlushInv'
  BY DEF CInv, FlushInv, Ready
<1>4. KeptInv'
  BY DEF CInv, KeptInv, Found, Rewritten, SameEntries, Putting, Ready
<1>5. CountInv' /\ FirstInv'
  BY DEF CInv, CountInv, FirstInv, Ready
<1> QED BY <1>1, <1>2, <1>3, <1>4, <1>5 DEF CInv

LEMMA ContentsStep ==
  ASSUME IInv, CInv, [Next]_vars
  PROVE  CInv'
<1>1. CASE Mount \/ MountFormat \/ FormatSb \/ FormatDir
  BY <1>1, MountContents, MountFormatContents, FormatSbContents, FormatDirContents
<1>2. CASE FormatFails \/ Remount \/ Reload \/ Crash
  BY <1>2, RemountContents, ReloadContents, CrashContents
<1>3. ASSUME NEW n \in Names,
             \/ PutNoSlot(n)
             \/ \E len \in Lens : PutFull(n, len) \/ \E v \in Vals : PutStart(n, v, len)
      PROVE  CInv'
  BY <1>3, PutNoSlotContents, PutFullContents, PutStartContents
<1>4. CASE WriteData \/ WriteDir \/ WriteSb \/ PutFails
  BY <1>4, WriteDataContents, WriteDirContents, WriteSbContents, PutFailsContents
<1> QED BY <1>1, <1>2, <1>3, <1>4, StutterContents DEF Next

LEMMA ContentsAlways == Spec => [](IInv /\ CInv)
<1>1. Init => IInv /\ CInv
  BY InvInit, ContentsInit
<1>2. IInv /\ CInv /\ [Next]_vars => (IInv /\ CInv)'
  BY InvStep, ContentsStep
<1> QED BY <1>1, <1>2, PTL DEF Spec

\* What memory finds is what the disk holds.
LEMMA ReadsThroughMemory ==
  ASSUME IInv, CInv, NEW n \in Names, SameEntries(dir, ddir, n), Found(n)
  PROVE  ReadAll(dir, ddata, n) = committed[n]
<1>1. dir \in [Slots -> Ent] /\ ddir \in [Slots -> Ent] /\ SizesFit(ddir) /\ SameEntries(ddir, dir, n)
  BY DEF IInv, TypeOK, CInv, CallInv, SameEntries
<1>2. ReadAll(ddir, ddata, n) = ReadAll(dir, ddata, n)
  BY <1>1, ReadSame
<1>3. Entries(ddir, n) = {} => ReadAll(ddir, ddata, n) = Missing
  BY DEF ReadAll
<1> QED BY <1>2, <1>3 DEF Found

(* Whatever sectors fail and wherever the power goes, a file whose put     *)
(* ended well reads back what was put until it is put again, and the count *)
(* of the superblock is the number of entries in use while the power has   *)
(* stayed on (nosfs_disk_put, nosfs_disk_read, nosfs_disk_list).           *)
THEOREM CompletedPutsReadBack == Spec => []VolumeReadsBack
<1>1. ASSUME IInv, CInv PROVE VolumeReadsBack
  <2>1. CountMatches
    BY <1>1 DEF CountMatches, CInv, CountInv, Ready
  <2>2. CommittedReadsBack
    <3> SUFFICES ASSUME ph = "idle", ~torn, NEW n \in Names, committed[n] # Unknown
                 PROVE  ReadAll(dir, ddata, n) = committed[n]
      BY DEF CommittedReadsBack
    <3>1. Found(n) /\ SameEntries(dir, ddir, n)
      BY <1>1 DEF CInv, KeptInv, Rewritten, Putting, Ready
    <3> QED BY <1>1, <3>1, ReadsThroughMemory
  <2> QED BY <2>1, <2>2 DEF VolumeReadsBack
<1> QED BY <1>1, ContentsAlways, PTL
-----------------------------------------------------------------------------
(* The volume is a map from names to contents: every step taken before the *)
(* first loss of power is one of FileStore or leaves its state alone.      *)

FilesStay == \A n \in Names : Files'[n] = Files[n]

LEMMA StayIsStutter ==
  ASSUME FilesStay, cur'.name = cur.name
  PROVE  UNCHANGED <<Files, cur.name>>
<1>1. Files' = Files
  BY DEF FilesStay, Files
<1> QED BY <1>1

\* A step that leaves the directory that counts as it was.
LEMMA SameDirectory ==
  ASSUME ~Putting, ~Putting', UNCHANGED ddata,
         \A n \in Names :
           ReadAll(IF Ready THEN dir ELSE ddir, ddata, n)
             = ReadAll(IF Ready' THEN dir' ELSE ddir', ddata, n)
  PROVE  FilesStay
BY DEF FilesStay, Files

LEMMA BlankReads ==
  ASSUME NEW d, UsedSlots(d) = {}, NEW x, NEW n
  PROVE  ReadAll(d, x, n) = Missing
BY DEF ReadAll, Entries

LEMMA PutBegins ==
  ASSUME IInv, CInv, NEW n \in Names, NEW len \in Lens, NEW v \in Vals, PutStart(n, v, len)
  PROVE  Store!Begin(n)
<1>1. /\ ph = "idle" /\ ph' \in {"data", "dir"} /\ cur'.name = n
      /\ old' = ReadAll(dir, ddata, n) /\ ddata' = ddata
  BY DEF PutStart, disk
<1>2. ~Putting /\ Putting' /\ Ready /\ Ready'
  BY <1>1 DEF Putting, Ready
<1>3. cur.name = NoName /\ SizesFit(dir)
  BY <1>2 DEF CInv, CallInv
<1>4. dir' \in [Slots -> Ent] /\ \A m \in Names \ {n} : SameEntries(dir, dir', m)
  BY <1>3, PutStartShape DEF IInv
<1>5. ASSUME NEW m \in Names PROVE Files'[m] = Files[m]
  <2>1. Files[m] = ReadAll(dir, ddata, m)
    BY <1>2 DEF Files
  <2>2. CASE m = n
    BY <1>1, <1>2, <2>1, <2>2 DEF Files
  <2>3. CASE m # n
    <3>1. Files'[m] = ReadAll(dir', ddata, m)
      BY <1>1, <1>2, <2>3 DEF Files
    <3>2. dir \in [Slots -> Ent] /\ SameEntries(dir, dir', m)
      BY <1>4, <2>3 DEF IInv, TypeOK
    <3>3. ReadAll(dir, ddata, m) = ReadAll(dir', ddata, m)
      BY <1>3, <1>4, <3>2, ReadSame
    <3> QED BY <2>1, <3>1, <3>3
  <2> QED BY <2>2, <2>3
<1>6. Files' = Files
  BY <1>5 DEF Files
<1> QED BY <1>1, <1>3, <1>6 DEF Store!Begin

LEMMA PutIsRefused ==
  ASSUME IInv, CInv, NEW n \in Names, NEW len \in Lens, PutFull(n, len), crashes = 0
  PROVE  Store!Refuse(n) \/ UNCHANGED <<Files, cur.name>>
<1> DEFINE s == SlotFor(n)
<1>1. ph = "idle" /\ ph' = "idle" /\ cur' = cur /\ ddata' = ddata
  BY DEF PutFull, disk
<1>2. ~Putting /\ ~Putting' /\ Ready /\ Ready'
  BY <1>1 DEF Putting, Ready
<1>3. cur.name = NoName /\ SizesFit(dir) /\ dir \in [Slots -> Ent]
  BY <1>2 DEF CInv, CallInv, IInv, TypeOK
<1>4. /\ dir' \in [Slots -> Ent] /\ \A m \in Names \ {n} : SameEntries(dir, dir', m)
      /\ \/ SameEntries(dir, dir', n)
         \/ /\ s \in Entries(dir, n) /\ s = First(Entries(dir, n)) /\ dir[s].size = 0
            /\ Entries(dir', n) = Entries(dir, n) \ {s}
  BY <1>3, PutFullShape DEF IInv
<1> HIDE DEF s
<1>5. \A m \in Names : SameEntries(dir, dir', m) => Files'[m] = Files[m]
  <2> SUFFICES ASSUME NEW m \in Names, SameEntries(dir, dir', m) PROVE Files'[m] = Files[m]
    OBVIOUS
  <2>1. ReadAll(dir, ddata, m) = ReadAll(dir', ddata, m)
    BY <1>3, <1>4, ReadSame
  <2>2. Files[m] = ReadAll(dir, ddata, m) /\ Files'[m] = ReadAll(dir', ddata, m)
    BY <1>1, <1>2 DEF Files
  <2> QED BY <2>1, <2>2
<1>6. CASE SameEntries(dir, dir', n)
  <2>1. FilesStay
    BY <1>4, <1>5, <1>6 DEF FilesStay
  <2> QED BY <1>1, <2>1, StayIsStutter
<1>7. CASE /\ s \in Entries(dir, n) /\ s = First(Entries(dir, n)) /\ dir[s].size = 0
           /\ Entries(dir', n) = Entries(dir, n) \ {s}
  <2>1. \A t \in Entries(dir, n), u \in Entries(dir, n) : t = u
    BY <1>2 DEF CInv, FirstInv
  <2>2. Entries(dir', n) = {}
    BY <1>7, <2>1
  <2>3. Files'[n] = Missing
    BY <1>2, <2>2 DEF Files, ReadAll
  <2>4. Files[n] = << >>
    <3>1. Files[n] = [p \in 0 .. (dir[s].size - 1) |->
                        ddata[dir[s].lba + p \div SectorSize][p % SectorSize]]
      BY <1>2, <1>7 DEF Files, ReadAll
    <3>2. 0 .. (dir[s].size - 1) = {} /\ 1 .. 0 = {}
      BY <1>7
    <3> QED BY <3>1, <3>2
  <2>5. \A m \in Names \ {n} : Files'[m] = Files[m]
    BY <1>4, <1>5
  <2>6. Files' = [Files EXCEPT ![n] = Missing]
    BY <2>3, <2>5 DEF Files
  <2> QED BY <1>1, <1>3, <2>4, <2>6 DEF Store!Refuse
<1> QED BY <1>4, <1>6, <1>7

\* While the put writes, its file counts as the old one and the others stay.
LEMMA OthersRead ==
  ASSUME IInv, CInv, SectorWrite, crashes = 0, NEW n \in Names, n # cur.name
  PROVE  ReadAll(dir, ddata', n) = ReadAll(dir, ddata, n)
<1>1. ~torn /\ dir \in [Slots -> Ent]
  BY DEF CInv, FirstInv, IInv, TypeOK
<1>2. ph # "data" => ddata' = ddata
  BY DEF SectorWrite
<1>3. CASE ph = "data"
  <2>1. SizesFit(dir) /\ cur.slot \in Entries(dir, cur.name)
    BY <1>3 DEF CInv, CallInv, Ready, Putting
  <2>2. cur.slot \notin Entries(dir, n)
    BY <2>1 DEF Entries
  <2>3. \A t \in UsedSlots(dir) \ {cur.slot} : \A l \in Extent(dir[t]) : ddata'[l] = ddata[l]
    BY <1>1, <1>3, DataLandsElsewhere
  <2>4. \A t \in Entries(dir, n) : \A l \in Extent(dir[t]) : ddata[l] = ddata'[l]
    BY <2>2, <2>3 DEF Entries
  <2>5. SameEntries(dir, dir, n)
    BY DEF SameEntries
  <2>6. ReadAll(dir, ddata, n) = ReadAll(dir, ddata', n)
    BY <1>1, <2>1, <2>4, <2>5, ReadSame
  <2> QED BY <2>6
<1> QED BY <1>2, <1>3

LEMMA PutGoesOn ==
  ASSUME IInv, CInv, WriteData \/ WriteDir, crashes = 0
  PROVE  UNCHANGED <<Files, cur.name>>
<1>1. /\ ph \in {"data", "dir"} /\ ph' \in {"data", "dir", "sb"} /\ SectorWrite
      /\ cur' = cur /\ old' = old
      /\ ph = "dir" => dir' = dir
  BY DEF WriteData, WriteDir, ram
<1>2. Putting /\ Putting' /\ Ready /\ Ready'
  BY <1>1 DEF Putting, Ready
<1>3. SizesFit(dir) /\ cur.slot \in Entries(dir, cur.name) /\ dir \in [Slots -> Ent]
  BY <1>2 DEF CInv, CallInv, IInv, TypeOK
<1>4. /\ dir' = dir \/ dir' = [dir EXCEPT ![cur.slot].size = cur.len]
      /\ dir' \in [Slots -> Ent]
  <2>1. TypeOK'
    BY TypeStep DEF IInv, Next
  <2> QED BY <2>1 DEF WriteData, WriteDir, TypeOK, ram
<1>5. ASSUME NEW n \in Names, n # cur.name PROVE SameEntries(dir, dir', n)
  <2>1. cur.slot \notin Entries(dir, n)
    BY <1>3, <1>5 DEF Entries
  <2>2. /\ \A t \in Slots : t # cur.slot => dir'[t] = dir[t]
        /\ \A t \in Slots : dir'[t].used = dir[t].used /\ dir'[t].name = dir[t].name
    BY <1>3, <1>4 DEF Ent
  <2>3. Entries(dir', n) = Entries(dir, n)
    BY <2>2 DEF Entries, UsedSlots
  <2> QED BY <2>1, <2>2, <2>3 DEF SameEntries, Entries, UsedSlots
<1>6. ASSUME NEW n \in Names PROVE Files'[n] = Files[n]
  <2>1. CASE n = cur.name
    BY <1>1, <1>2, <2>1 DEF Files
  <2>2. CASE n # cur.name
    <3>1. Files[n] = ReadAll(dir, ddata, n) /\ Files'[n] = ReadAll(dir', ddata', n)
      BY <1>1, <1>2, <2>2 DEF Files
    <3>2. ReadAll(dir, ddata', n) = ReadAll(dir, ddata, n)
      BY <1>1, <2>2, OthersRead
    <3>3. ReadAll(dir, ddata', n) = ReadAll(dir', ddata', n)
      BY <1>3, <1>4, <1>5, <2>2, ReadSame
    <3> QED BY <3>1, <3>2, <3>3
  <2> QED BY <2>1, <2>2
<1>7. FilesStay
  BY <1>6 DEF FilesStay
<1> QED BY <1>1, <1>7, StayIsStutter

LEMMA PutEnds ==
  ASSUME IInv, CInv, WriteSb, crashes = 0
  PROVE  \E c \in AllContents : Store!Succeed(c)
<1> DEFINE c == Bytes(cur.val, cur.len)
<1>1. /\ ph = "sb" /\ ph' = "idle" /\ cur'.name = NoName /\ dir' = dir /\ ddata' = ddata
  BY DEF WriteSb, SectorWrite, ram, Idle
<1>2. Putting /\ ~Putting' /\ Ready /\ Ready'
  BY <1>1 DEF Putting, Ready
<1>3. cur.name \in Names /\ cur.val \in Vals /\ cur.len \in Lens /\ ~torn
  BY <1>2 DEF CInv, CallInv, FirstInv
<1>4. c \in AllContents /\ cur.name # NoName
  BY <1>3, NosfsAssumption DEF AllContents
<1>5. ReadAll(dir, ddata, cur.name) = c
  BY <1>1, <1>3, ReadsWritten
<1> HIDE DEF c
<1>6. /\ Files'[cur.name] = c
      /\ \A n \in Names \ {cur.name} : Files'[n] = Files[n]
  BY <1>1, <1>2, <1>3, <1>5 DEF Files
<1>7. Files' = [Files EXCEPT ![cur.name] = c]
  BY <1>6 DEF Files
<1> QED BY <1>1, <1>4, <1>7 DEF Store!Succeed

LEMMA PutGivesUp ==
  ASSUME IInv, CInv, PutFails, crashes = 0
  PROVE  Store!Fail
<1>1. /\ ph' = "idle" /\ cur'.name = NoName /\ dir' = dir
      /\ SectorWrite \/ UNCHANGED <<disk, ahead>>
  BY DEF PutFails, ram, Idle
<1>2. Putting /\ ~Putting' /\ Ready /\ Ready'
  BY <1>1 DEF PutFails, Putting, Ready
<1>3. cur.name \in Names /\ cur.name # NoName
  BY <1>2, NosfsAssumption DEF CInv, CallInv
<1>4. ASSUME NEW n \in Names \ {cur.name} PROVE Files'[n] = Files[n]
  <2>1. Files[n] = ReadAll(dir, ddata, n) /\ Files'[n] = ReadAll(dir, ddata', n)
    BY <1>1, <1>2 DEF Files
  <2>2. ReadAll(dir, ddata', n) = ReadAll(dir, ddata, n)
    BY <1>1, OthersRead DEF disk
  <2> QED BY <2>1, <2>2
<1>5. DOMAIN Files' = Names
  BY DEF Files
<1> QED BY <1>1, <1>3, <1>4, <1>5 DEF Store!Fail

LEMMA MountsChangeNothing ==
  ASSUME IInv, CInv, crashes = 0,
         MountFormat \/ FormatSb \/ FormatDir \/ FormatFails \/ Remount \/ Reload
  PROVE  UNCHANGED <<Files, cur.name>>
<1>1. ~Putting /\ ~Putting' /\ cur' = cur /\ ddata' = ddata
  BY DEF MountFormat, FormatSb, FormatDir, FormatFails, Remount, Reload,
     Putting, disk
<1>2. CASE Reload
  <2>1. Ready /\ ddir = dir /\ ddir' = ddir /\ (Ready' => dir' = ddir)
    BY <1>2 DEF Reload, Ready, LoadMeta, CInv, FlushInv, disk
  <2>2. FilesStay
    BY <1>1, <2>1, SameDirectory
  <2> QED BY <1>1, <2>2, StayIsStutter
<1>3. CASE MountFormat \/ FormatSb \/ FormatDir \/ FormatFails \/ Remount
  <2>1. ~Ready /\ UsedSlots(ddir) = {}
    BY <1>3 DEF CInv, FirstInv, CountInv, Ready, MountFormat, FormatSb,
       FormatDir, FormatFails, Remount
  <2>2. UsedSlots(ddir') = {}
    <3>1. CASE FormatDir
      <4>1. ddir' = [s \in Slots |-> IF SectorOf(s) = i THEN FreeEnt ELSE ddir[s]]
        BY <3>1 DEF FormatDir
      <4> QED BY <2>1, <4>1 DEF UsedSlots, FreeEnt
    <3>2. CASE ~FormatDir
      BY <1>3, <2>1, <3>2 DEF MountFormat, FormatSb, FormatFails, Remount, disk
    <3> QED BY <3>1, <3>2
  <2>3. Ready' => dir' = ddir
    BY <1>3 DEF Ready, MountFormat, FormatSb, FormatDir, FormatFails, Remount,
       LoadMeta
  <2>4. ASSUME NEW n \in Names
        PROVE  /\ ReadAll(IF Ready THEN dir ELSE ddir, ddata, n) = Missing
               /\ ReadAll(IF Ready' THEN dir' ELSE ddir', ddata, n) = Missing
    BY <2>1, <2>2, <2>3, BlankReads
  <2>5. FilesStay
    BY <1>1, <2>4, SameDirectory
  <2> QED BY <1>1, <2>5, StayIsStutter
<1> QED BY <1>2, <1>3

LEMMA StoreStep ==
  ASSUME IInv, CInv, [Next]_vars
  PROVE  [crashes' > 0 \/ Store!Next]_<<Files, cur.name>>
<1>1. crashes \in Nat /\ (crashes' = crashes \/ crashes' = crashes + 1)
  <2>1. crashes \in Nat
    BY DEF IInv, TypeOK
  <2> QED BY <2>1 DEF Next, vars, Mount, MountFormat, FormatSb, FormatDir, FormatFails, Remount,
        Reload, PutNoSlot, PutFull, PutStart, WriteData, WriteDir, WriteSb, PutFails, Crash, bounds
<1>2. CASE crashes' > 0
  BY <1>2
<1>3. CASE crashes = 0
  <2>1. CASE Mount
    BY <1>3, <2>1 DEF Mount, LoadMeta, Loadable, CInv, FirstInv
  <2>2. CASE MountFormat \/ FormatSb \/ FormatDir \/ FormatFails \/ Remount \/ Reload
    BY <1>3, <2>2, MountsChangeNothing
  <2>3. ASSUME NEW n \in Names, PutNoSlot(n) PROVE UNCHANGED <<Files, cur.name>>
    BY <2>3 DEF PutNoSlot, Files, disk, ram, history, Putting, Ready
  <2>4. ASSUME NEW n \in Names, NEW len \in Lens, PutFull(n, len)
        PROVE  Store!Refuse(n) \/ UNCHANGED <<Files, cur.name>>
    BY <1>3, <2>4, PutIsRefused
  <2>5. ASSUME NEW n \in Names, NEW len \in Lens, NEW v \in Vals, PutStart(n, v, len)
        PROVE  Store!Begin(n)
    BY <2>5, PutBegins
  <2>6. CASE WriteData \/ WriteDir
    BY <1>3, <2>6, PutGoesOn
  <2>7. CASE WriteSb
    BY <1>3, <2>7, PutEnds DEF Store!Next
  <2>8. CASE PutFails
    BY <1>3, <2>8, PutGivesUp DEF Store!Next
  <2>9. CASE Crash
    BY <1>1, <2>9 DEF Crash
  <2>10. CASE UNCHANGED vars
    BY <2>10 DEF vars, Files, disk, ram, history, Putting, Ready
  <2> QED BY <2>1, <2>2, <2>3, <2>4, <2>5, <2>6, <2>7, <2>8, <2>9, <2>10 DEF Next, Store!Next
<1>4. crashes' > 0 \/ crashes = 0
  BY <1>1
<1> QED BY <1>2, <1>3, <1>4

LEMMA StoreInit == Init => Store!Init
<1> SUFFICES ASSUME Init PROVE Store!Init
  OBVIOUS
<1>1. ~Putting /\ ~Ready /\ cur.name = NoName
  BY DEF Init, Putting, Ready, Idle
<1>2. UsedSlots(ddir) = {}
  BY DEF Init, EmptyDir, FreeEnt, UsedSlots
<1>3. \A n \in Names : ReadAll(ddir, ddata, n) = Missing
  BY <1>2, BlankReads
<1> QED BY <1>1, <1>3 DEF Files, Store!Init

(* As long as the power stays on, whatever sectors fail, the volume is the *)
(* map from names to contents its callers take it for: a put that succeeds *)
(* replaces one whole file at once, a refused or failed one leaves every   *)
(* other file alone (nosfs_disk_put, nosfs_disk_read).                     *)
THEOREM VolumeIsAFileStore == Spec => ImplementsFileStore
<1>1. Init => Store!Init
  BY StoreInit
<1>2. IInv /\ CInv /\ [Next]_vars => [crashes' > 0 \/ Store!Next]_<<Files, cur.name>>
  BY StoreStep
<1> QED BY <1>1, <1>2, ContentsAlways, PTL DEF Spec, ImplementsFileStore
=============================================================================
