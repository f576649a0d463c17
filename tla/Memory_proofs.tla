---------------------------- MODULE Memory_proofs ----------------------------
(***************************************************************************)
(* The frame allocator alone, for every memory map, kernel position and    *)
(* size of bitmap (PmmInd, RamInd); the heap and the other holders of      *)
(* frames as callers that use it the way PmmSpec allows, whose one         *)
(* obligation that is not a matter of form is that a frame given back by a *)
(* single holder is one it holds; and the list of the heap's blocks        *)
(* (HeapInd), for every size of header, request and growth.                *)
(*                                                                         *)
(* Then the window of user addresses, the ring-3 tasks and the table of    *)
(* open files, for any programs, files and bounds (UserInv): what a load   *)
(* or a mapping leaves, wherever it fails, is shown by induction along its *)
(* loop (MapAnonGives, LoadSegmentsGives).                                 *)
(***************************************************************************)
EXTENDS Memory, User, FiniteSetTheorems, FunctionTheorems, SequenceTheorems, WellFoundedInduction, TLAPS

(* The allocator under any sequence of calls.  PmmInd is inductive as it   *)
(* stands: the counters need that only free frames are handed out, and the *)
(* release of the boot information needs that nobody holds a frame of it.  *)
PmmInd == PmmTypeOK /\ CountersExact /\ OneHolder

(* Sizes of sets of frames: what pmm_set_used and pmm_set_free count. *)
LEMMA FramesFinite ==
  ASSUME NEW n \in Nat, NEW S \in SUBSET (0 .. (n - 1))
  PROVE  IsFiniteSet(S) /\ Cardinality(S) \in Nat
<1>1. IsFiniteSet(0 .. (n - 1))
  BY FS_Interval
<1>2. IsFiniteSet(S)
  BY <1>1, FS_Subset
<1> QED BY <1>2, FS_CardinalityType

LEMMA FramesCount ==
  ASSUME NEW n \in Nat
  PROVE  Cardinality(0 .. (n - 1)) = n
<1>1. 0 \in Int /\ n - 1 \in Int
  OBVIOUS
<1>2. Cardinality(0 .. (n - 1)) = IF 0 > n - 1 THEN 0 ELSE (n - 1) - 0 + 1
  BY <1>1, FS_Interval
<1> QED BY <1>2

LEMMA Disjoint ==
  ASSUME NEW n \in Nat, NEW S \in SUBSET (0 .. (n - 1)),
         NEW T \in SUBSET (0 .. (n - 1)), S \cap T = {}
  PROVE  Cardinality(S \cup T) = Cardinality(S) + Cardinality(T)
<1>1. IsFiniteSet(S) /\ IsFiniteSet(T) /\ Cardinality(S) \in Nat /\ Cardinality(T) \in Nat
  BY FramesFinite
<1>2. Cardinality(S \cup T) = Cardinality(S) + Cardinality(T) - Cardinality(S \cap T)
  BY <1>1, FS_Union
<1>3. Cardinality(S \cap T) = 0
  BY FS_EmptySet
<1> QED BY <1>1, <1>2, <1>3

LEMMA Adding ==
  ASSUME NEW n \in Nat, NEW u \in SUBSET (0 .. (n - 1)), NEW S \in SUBSET (0 .. (n - 1))
  PROVE  Cardinality(u \cup S) = Cardinality(u) + Cardinality(NewBits(S, u))
<1>1. u \cup S = u \cup NewBits(S, u) /\ u \cap NewBits(S, u) = {}
  BY DEF NewBits
<1>2. NewBits(S, u) \in SUBSET (0 .. (n - 1))
  BY DEF NewBits
<1> QED BY <1>1, <1>2, Disjoint

LEMMA Removing ==
  ASSUME NEW n \in Nat, NEW u \in SUBSET (0 .. (n - 1)), NEW S \in SUBSET (0 .. (n - 1))
  PROVE  Cardinality(u \ S) = Cardinality(u) - Cardinality(OldBits(S, u))
<1>1. (u \ S) \cup OldBits(S, u) = u /\ (u \ S) \cap OldBits(S, u) = {}
  BY DEF OldBits
<1>2. OldBits(S, u) \in SUBSET (0 .. (n - 1)) /\ u \ S \in SUBSET (0 .. (n - 1))
  BY DEF OldBits
<1>3. Cardinality(u) = Cardinality(u \ S) + Cardinality(OldBits(S, u))
  BY <1>1, <1>2, Disjoint
<1>4. Cardinality(u \ S) \in Nat /\ Cardinality(OldBits(S, u)) \in Nat
  BY <1>2, FramesFinite
<1> QED BY <1>3, <1>4

(* A frame inside a region is a frame it touches (pmm_region_frames). *)
LEMMA InsideTouches ==
  ASSUME NEW r \in Regions, NEW n \in Nat
  PROVE  Inside(r, n) \subseteq Touched(r, n)
<1> SUFFICES ASSUME NEW f \in Inside(r, n) PROVE f \in Touched(r, n)
  OBVIOUS
<1> DEFINE a == f * PageSize
           b == (f + 1) * PageSize
<1>1. f \in 0 .. (n - 1) /\ r.base <= a /\ b <= r.base + r.len
  BY DEF Inside
<1>2. PageSize \in Nat \ {0} /\ r.base \in Nat /\ r.len \in Nat
  BY PmmAssumption DEF Regions
<1>3. b = a + PageSize /\ a \in Int
  BY <1>1, <1>2
<1>4. r.len > 0 /\ r.base < b /\ a < r.base + r.len
  <2> HIDE DEF a, b
  <2> QED BY <1>1, <1>2, <1>3
<1> QED BY <1>1, <1>4 DEF Touched

LEMMA RegionFrames ==
  ASSUME NEW n \in Nat
  PROVE  /\ \A r : Touched(r, n) \subseteq 0 .. (n - 1) /\ Inside(r, n) \subseteq 0 .. (n - 1)
         /\ Reserved(n) \subseteq 0 .. (n - 1)
BY DEF Touched, Inside, Reserved

LEMMA BitmapSize ==
  ASSUME NEW m \in Machines
  PROVE  Lesser(m.top, MaxFrames * PageSize) \div PageSize \in Nat
<1>1. PageSize \in Nat \ {0} /\ MaxFrames \in Nat /\ m.top \in Nat
  BY PmmAssumption
<1>2. MaxFrames * PageSize \in Nat
  BY <1>1
<1>3. Lesser(m.top, MaxFrames * PageSize) \in Nat
  BY <1>1, <1>2 DEF Lesser
<1> QED BY <1>1, <1>3

(* pmm_init leaves exact counters whatever the memory map overlaps. *)
LEMMA PmmInitInd == PmmInit => PmmInd
<1> SUFFICES ASSUME PmmInit PROVE PmmInd
  OBVIOUS
<1> DEFINE ram == UNION {Inside(r, nframes) : r \in machine.avail}
           busy == Reserved(nframes) \cup Touched(machine.info, nframes)
           taken == NewBits(busy, Frames \ ram)
<1>1. nframes \in Nat /\ machine \in Machines
  BY BitmapSize DEF PmmInit
<1>2. machine.info \in Regions /\ NoRegion \notin Regions
  BY <1>1, PmmAssumption
<1>3. ram \subseteq Frames /\ busy \subseteq Frames
  BY <1>1, RegionFrames DEF Frames
<1>4. /\ used = (Frames \ ram) \cup busy
      /\ usedFrames = nframes - Cardinality(ram) + Cardinality(taken)
      /\ freeFrames = Cardinality(ram) - Cardinality(taken)
  BY DEF PmmInit
<1>5. taken \subseteq Frames
  BY <1>3 DEF NewBits
<1> HIDE DEF ram, busy, taken
<1>6. Cardinality(ram) \in Nat /\ Cardinality(taken) \in Nat
  BY <1>1, <1>3, <1>5, FramesFinite DEF Frames
<1>7. Cardinality(Frames \ ram) = nframes - Cardinality(ram)
  <2>1. OldBits(ram, Frames) = ram
    BY <1>3 DEF OldBits
  <2>2. Cardinality(Frames) = nframes
    BY <1>1, FramesCount DEF Frames
  <2>3. Cardinality(Frames \ ram) = Cardinality(Frames) - Cardinality(OldBits(ram, Frames))
    BY <1>1, <1>3, Removing DEF Frames
  <2> QED BY <2>1, <2>2, <2>3
<1>8. Cardinality(used) = Cardinality(Frames \ ram) + Cardinality(taken)
  BY <1>1, <1>3, <1>4, Adding DEF Frames, taken
<1>9. CountersExact
  BY <1>1, <1>4, <1>6, <1>7, <1>8 DEF CountersExact
<1>10. PmmTypeOK
  <2>1. used \subseteq Frames
    BY <1>3, <1>4
  <2>2. usedFrames \in Int /\ freeFrames \in Int
    BY <1>1, <1>4, <1>6
  <2>3. hint \in 0 .. nframes /\ info = machine.info /\ owners = [f \in Frames |-> 0]
    BY DEF PmmInit
  <2>4. owners \in [Frames -> Int]
    BY <2>3
  <2> QED BY <1>1, <1>2, <2>1, <2>2, <2>3, <2>4 DEF PmmTypeOK
<1>11. OneHolder
  <2>1. info = machine.info /\ owners = [f \in Frames |-> 0]
    BY DEF PmmInit
  <2>2. Held = busy
    BY <1>2, <2>1 DEF Held, busy
  <2> QED BY <1>3, <1>4, <2>1, <2>2 DEF OneHolder
<1> QED BY <1>9, <1>10, <1>11 DEF PmmInd

(* Marking frames keeps the counters exact, whichever of them were marked. *)
LEMMA SetUsedExact ==
  ASSUME PmmTypeOK, CountersExact, nframes' = nframes,
         NEW S \in SUBSET Frames, SetUsed(S)
  PROVE  used' \subseteq Frames /\ usedFrames' \in Int /\ freeFrames' \in Int /\ CountersExact'
<1>1. nframes \in Nat /\ used \subseteq Frames /\ NewBits(S, used) \subseteq Frames
  BY DEF PmmTypeOK, NewBits
<1>2. Cardinality(used) \in Nat /\ Cardinality(NewBits(S, used)) \in Nat
  BY <1>1, FramesFinite DEF Frames
<1>3. Cardinality(used \cup S) = Cardinality(used) + Cardinality(NewBits(S, used))
  BY <1>1, Adding DEF Frames
<1>4. /\ used' = used \cup S
      /\ usedFrames' = usedFrames + Cardinality(NewBits(S, used))
      /\ freeFrames' = freeFrames - Cardinality(NewBits(S, used))
  BY DEF SetUsed
<1>5. usedFrames \in Int /\ freeFrames \in Int
  BY DEF PmmTypeOK
<1> QED BY <1>1, <1>2, <1>3, <1>4, <1>5 DEF CountersExact

LEMMA SetFreeExact ==
  ASSUME PmmTypeOK, CountersExact, nframes' = nframes,
         NEW S \in SUBSET Frames, SetFree(S)
  PROVE  used' \subseteq Frames /\ usedFrames' \in Int /\ freeFrames' \in Int /\ CountersExact'
<1>1. nframes \in Nat /\ used \subseteq Frames /\ OldBits(S, used) \subseteq Frames
  BY DEF PmmTypeOK, OldBits
<1>2. Cardinality(used) \in Nat /\ Cardinality(OldBits(S, used)) \in Nat
  BY <1>1, FramesFinite DEF Frames
<1>3. Cardinality(used \ S) = Cardinality(used) - Cardinality(OldBits(S, used))
  BY <1>1, Removing DEF Frames
<1>4. /\ used' = used \ S
      /\ usedFrames' = usedFrames - Cardinality(OldBits(S, used))
      /\ freeFrames' = freeFrames + Cardinality(OldBits(S, used))
  BY DEF SetFree
<1>5. usedFrames \in Int /\ freeFrames \in Int
  BY DEF PmmTypeOK
<1> QED BY <1>1, <1>2, <1>3, <1>4, <1>5 DEF CountersExact

(* Handing out free frames and nothing else keeps PmmInd: what AllocPage   *)
(* and AllocRun have in common.                                            *)
LEMMA HandOutInd ==
  ASSUME PmmInd, NEW S \in SUBSET Frames, \A f \in S : IsFree(f),
         SetUsed(S), HandOut(S), hint' \in 0 .. nframes,
         UNCHANGED <<nframes, info, machine>>
  PROVE  PmmInd'
<1>1. PmmTypeOK /\ CountersExact /\ OneHolder /\ Frames' = Frames
  BY DEF PmmInd, Frames
<1>2. used' \subseteq Frames /\ usedFrames' \in Int /\ freeFrames' \in Int /\ CountersExact'
  BY <1>1, SetUsedExact
<1>3. owners' = [f \in Frames |-> IF f \in S THEN owners[f] + 1 ELSE owners[f]]
  BY DEF HandOut
<1>4. owners \in [Frames -> Int]
  BY <1>1 DEF PmmTypeOK
<1>5. owners' \in [Frames -> Int]
  BY <1>3, <1>4
<1>6. PmmTypeOK'
  BY <1>1, <1>2, <1>5 DEF PmmTypeOK
<1>7. used' = used \cup S
  BY DEF SetUsed
<1>8. Held' = Held
  BY DEF Held
<1>9. \A f \in S : f \in Frames /\ f \notin used /\ owners[f] = 0 /\ f \notin Held
  BY <1>1 DEF IsFree, OneHolder
<1>10. OneHolder'
  <2>1. \A f \in Frames : owners'[f] \in {0, 1} /\ (owners'[f] = 1 => f \in used')
    BY <1>1, <1>3, <1>7, <1>9 DEF OneHolder
  <2>2. \A f \in Held : f \in Frames
    BY <1>1, RegionFrames DEF Held, Frames, PmmTypeOK
  <2>3. \A f \in Held : owners'[f] = 0 /\ f \in used'
    BY <1>1, <1>3, <1>7, <1>9, <2>2 DEF OneHolder
  <2> QED BY <1>1, <1>8, <2>1, <2>3 DEF OneHolder
<1> QED BY <1>2, <1>6, <1>10 DEF PmmInd

LEMMA AllocPageInd ==
  ASSUME PmmInd, NEW f, AllocPage(f)
  PROVE  PmmInd'
<1>1. f \in Frames /\ IsFree(f)
  BY DEF AllocPage, IsFree
<1>2. hint' \in 0 .. nframes
  BY <1>1 DEF AllocPage, Wrap, Frames, PmmInd, PmmTypeOK
<1>3. SetUsed({f}) /\ HandOut({f}) /\ UNCHANGED <<nframes, info, machine>>
  BY DEF AllocPage
<1> QED BY <1>1, <1>2, <1>3, HandOutInd

LEMMA AllocRunInd ==
  ASSUME PmmInd, NEW s, NEW count \in Nat \ {0}, AllocRun(s, count)
  PROVE  PmmInd'
<1>1. s \in Frames /\ \A f \in Window(s, count) : IsFree(f)
  BY DEF AllocRun, Fits
<1>2. Window(s, count) \subseteq Frames
  BY <1>1 DEF IsFree
<1>3. hint' \in 0 .. nframes
  <2>1. s + count - 1 \in Window(s, count)
    BY <1>1 DEF Window, Frames
  <2>2. s + count \in 0 .. nframes
    BY <1>1, <1>2, <2>1 DEF Frames, PmmInd, PmmTypeOK
  <2> QED BY <2>2 DEF AllocRun, Wrap, PmmInd, PmmTypeOK
<1>4. /\ SetUsed(Window(s, count)) /\ HandOut(Window(s, count))
      /\ UNCHANGED <<nframes, info, machine>>
  BY DEF AllocRun
<1> QED BY <1>1, <1>2, <1>3, <1>4, HandOutInd

(* A holder gives its frame back: nobody else had it, and it is not one of *)
(* the kernel's.                                                           *)
LEMMA FreePageInd ==
  ASSUME PmmInd, NEW f \in Frames, owners[f] > 0, FreePage(f)
  PROVE  PmmInd'
<1>1. PmmTypeOK /\ CountersExact /\ OneHolder /\ Frames' = Frames
  BY DEF PmmInd, Frames, FreePage
<1>2. nframes' = nframes /\ SetFree({f})
  BY DEF FreePage
<1>3. used' \subseteq Frames /\ usedFrames' \in Int /\ freeFrames' \in Int /\ CountersExact'
  BY <1>1, <1>2, SetFreeExact
<1>4. owners \in [Frames -> Int] /\ owners' = [owners EXCEPT ![f] = owners[f] - 1]
  BY <1>1 DEF PmmTypeOK, FreePage
<1>5. owners' \in [Frames -> Int]
  BY <1>4
<1>6. hint' \in 0 .. nframes
  BY <1>1 DEF FreePage, Lesser, PmmTypeOK, Frames
<1>7. PmmTypeOK'
  BY <1>1, <1>2, <1>3, <1>5, <1>6 DEF PmmTypeOK, FreePage
<1>8. owners[f] = 1 /\ f \notin Held
  BY <1>1 DEF OneHolder
<1>9. used' = used \ {f} /\ Held' = Held
  BY DEF FreePage, SetFree, Held
<1>10. OneHolder'
  <2>1. \A g \in Frames : owners'[g] = IF g = f THEN 0 ELSE owners[g]
    BY <1>4, <1>8
  <2>2. \A g \in Held : g \in Frames
    BY <1>1, RegionFrames DEF Held, Frames, PmmTypeOK
  <2>3. \A g \in Frames : owners'[g] \in {0, 1} /\ (owners'[g] = 1 => g \in used')
    BY <1>1, <1>9, <2>1 DEF OneHolder
  <2>4. \A g \in Held : owners'[g] = 0 /\ g \in used'
    BY <1>1, <1>8, <1>9, <2>1, <2>2 DEF OneHolder
  <2> QED BY <1>1, <1>9, <2>3, <2>4 DEF OneHolder
<1> QED BY <1>3, <1>7, <1>10 DEF PmmInd

(* The boot information overlaps whatever it likes: the frames it frees    *)
(* are held by nobody, and what it shared with the kernel is marked again. *)
LEMMA ReleaseInd ==
  ASSUME PmmInd, ReleaseBootInfo
  PROVE  PmmInd'
<1> DEFINE freed == OldBits(Inside(info, nframes), used)
           again == NewBits(Reserved(nframes), used \ freed)
<1>1. PmmTypeOK /\ CountersExact /\ OneHolder /\ Frames' = Frames
  BY DEF PmmInd, Frames, ReleaseBootInfo
<1>2. /\ used' = (used \ freed) \cup again
      /\ usedFrames' = usedFrames - Cardinality(freed) + Cardinality(again)
      /\ freeFrames' = freeFrames + Cardinality(freed) - Cardinality(again)
      /\ info # NoRegion /\ info' = NoRegion
      /\ UNCHANGED <<nframes, hint, machine, owners>>
  BY DEF ReleaseBootInfo
<1>3. nframes \in Nat /\ used \subseteq Frames /\ info \in Regions
  BY <1>1, <1>2 DEF PmmTypeOK
<1>4. Inside(info, nframes) \subseteq Touched(info, nframes)
  BY <1>3, InsideTouches
<1>5. Inside(info, nframes) \subseteq Frames /\ Reserved(nframes) \subseteq Frames
  BY <1>3, RegionFrames DEF Frames
<1>6. freed \subseteq Frames /\ again \subseteq Frames
  BY <1>5 DEF OldBits, NewBits
<1>7. freed \subseteq Inside(info, nframes) /\ used' = (used \ freed) \cup Reserved(nframes)
  BY <1>2 DEF OldBits, NewBits
<1>8. Cardinality(used \ freed) = Cardinality(used) - Cardinality(freed)
  <2>1. used \ freed = used \ Inside(info, nframes)
    BY DEF OldBits
  <2> QED BY <1>3, <1>5, <2>1, Removing DEF Frames
<1>9. Cardinality(used') = Cardinality(used \ freed) + Cardinality(again)
  <2>1. used \ freed \subseteq Frames
    BY <1>3
  <2> HIDE DEF freed
  <2> QED BY <1>3, <1>5, <1>7, <2>1, Adding DEF Frames
<1> HIDE DEF freed, again
<1>10. Cardinality(freed) \in Nat /\ Cardinality(again) \in Nat /\ Cardinality(used) \in Nat
  BY <1>3, <1>6, FramesFinite DEF Frames
<1>11. usedFrames \in Int /\ freeFrames \in Int
  BY <1>1 DEF PmmTypeOK
<1>12. CountersExact'
  BY <1>1, <1>2, <1>3, <1>8, <1>9, <1>10, <1>11 DEF CountersExact
<1>13. PmmTypeOK'
  <2>1. used' \subseteq Frames'
    BY <1>1, <1>2, <1>3, <1>6
  <2>2. usedFrames' \in Int /\ freeFrames' \in Int
    BY <1>2, <1>10, <1>11
  <2> QED BY <1>1, <1>2, <2>1, <2>2 DEF PmmTypeOK
<1>14. OneHolder'
  <2>1. Held = Reserved(nframes) \cup Touched(info, nframes) /\ Held' = Reserved(nframes)
    BY <1>2 DEF Held
  <2>2. \A f \in freed : owners[f] = 0
    BY <1>1, <1>4, <1>7, <2>1 DEF OneHolder
  <2>3. \A f \in Frames : owners[f] = 1 => f \in used'
    BY <1>1, <1>7, <2>2 DEF OneHolder
  <2>4. \A f \in Reserved(nframes) : owners[f] = 0 /\ f \in used'
    BY <1>1, <1>7, <2>1 DEF OneHolder
  <2> QED BY <1>1, <1>2, <2>1, <2>3, <2>4 DEF OneHolder
<1> QED BY <1>12, <1>13, <1>14 DEF PmmInd

LEMMA PmmStepInd == PmmInd /\ [PmmNext]_pmmVars => PmmInd'
<1> SUFFICES ASSUME PmmInd, [PmmNext]_pmmVars PROVE PmmInd'
  OBVIOUS
<1>1. CASE \E f \in Frames : AllocPage(f)
  BY <1>1, AllocPageInd
<1>2. CASE \E f \in Frames : owners[f] > 0 /\ FreePage(f)
  BY <1>2, FreePageInd
<1>3. CASE \E count \in 1 .. nframes, s \in Frames : AllocRun(s, count)
  <2>1. PICK count \in 1 .. nframes, s \in Frames : AllocRun(s, count)
    BY <1>3
  <2>2. count \in Nat \ {0}
    BY <2>1 DEF PmmInd, PmmTypeOK
  <2> QED BY <2>1, <2>2, AllocRunInd
<1>4. CASE ReleaseBootInfo
  BY <1>4, ReleaseInd
<1>5. CASE UNCHANGED pmmVars
  BY <1>5 DEF pmmVars, counters, PmmInd, PmmTypeOK, CountersExact, OneHolder,
     Held, Frames
<1> QED BY <1>1, <1>2, <1>3, <1>4, <1>5 DEF PmmNext

LEMMA PmmAlwaysInd == PmmSpec => []PmmInd
BY PmmInitInd, PmmStepInd, PTL DEF PmmSpec

(* The frame counters are exact in every state (pmm64.c:24-48), whatever   *)
(* the memory map, the kernel and the boot information overlap.            *)
THEOREM PmmCountersExact == PmmSpec => []CountersExact
<1>1. PmmInd => CountersExact
  BY DEF PmmInd
<1> QED BY <1>1, PmmAlwaysInd, PTL

(* No frame has two holders, and none of the kernel, the first 1 MiB or    *)
(* the boot information still in use is ever handed out.                   *)
THEOREM PmmOneHolder == PmmSpec => []OneHolder
<1>1. PmmInd => OneHolder
  BY DEF PmmInd
<1> QED BY <1>1, PmmAlwaysInd, PTL
-----------------------------------------------------------------------------
(* The search of pmm_alloc_contiguous                                      *)

\* The runs of count frames from s on, and the lowest of them.
RunsFrom(s, count) == {r \in Frames : r >= s /\ Fits(r, count)}
Lowest(s, count) ==
  IF RunsFrom(s, count) = {} THEN nframes
  ELSE CHOOSE r \in RunsFrom(s, count) : \A q \in RunsFrom(s, count) : r <= q

LEMMA Smallest ==
  ASSUME NEW T \in SUBSET Nat, T # {}
  PROVE  \E x \in T : \A y \in T : x <= y
<1> DEFINE R == {pair \in Nat \X Nat : pair[1] < pair[2]}
<1>1. IsWellFoundedOn(R, Nat)
  <2>1. OpToRel(<, Nat) = R
    BY DEF OpToRel
  <2> QED BY <2>1, NatLessThanWellFounded
<1>2. PICK x \in T : \A y \in T : ~ (<<y, x>> \in R)
  BY <1>1, WFMin
<1>3. ASSUME NEW y \in T PROVE x <= y
  <2>1. x \in Nat /\ y \in Nat
    OBVIOUS
  <2>2. y < x => <<y, x>> \in R
    BY <2>1
  <2> QED BY <1>2, <2>1, <2>2
<1> QED BY <1>3

LEMMA LowestIsLowest ==
  ASSUME PmmTypeOK, NEW s \in Nat, NEW count \in Nat \ {0}
  PROVE  /\ Lowest(s, count) \in 0 .. nframes
         /\ RunsFrom(s, count) = {} => Lowest(s, count) = nframes
         /\ RunsFrom(s, count) # {} =>
              /\ Lowest(s, count) \in RunsFrom(s, count)
              /\ \A q \in RunsFrom(s, count) : Lowest(s, count) <= q
<1> DEFINE T == RunsFrom(s, count)
<1>1. nframes \in Nat /\ T \in SUBSET Nat /\ T \subseteq Frames
  BY DEF PmmTypeOK, RunsFrom, Frames
<1>2. T # {} => \E x \in T : \A y \in T : x <= y
  <2> HIDE DEF T
  <2> QED BY <1>1, Smallest
<1>3. T = {} => Lowest(s, count) = nframes
  BY DEF Lowest
<1>4. T # {} => Lowest(s, count) \in T /\ \A q \in T : Lowest(s, count) <= q
  BY <1>2 DEF Lowest
<1>5. Lowest(s, count) \in 0 .. nframes
  BY <1>1, <1>3, <1>4 DEF Frames
<1> QED BY <1>3, <1>4, <1>5

(* One step of the search: no run starts too near the end, and none that   *)
(* starts in a window begins at or before the window's first used frame.   *)
LEMMA SearchStep ==
  ASSUME PmmTypeOK, NEW s \in 0 .. nframes, NEW count \in Nat \ {0}
  PROVE  /\ s + count > nframes => Lowest(s, count) = nframes
         /\ s + count <= nframes /\ Fits(s, count) => Lowest(s, count) = s
         /\ s + count <= nframes /\ ~Fits(s, count) =>
              /\ FirstUsed(s, count) + 1 \in 0 .. nframes
              /\ FirstUsed(s, count) \in Nat /\ FirstUsed(s, count) >= s
              /\ Lowest(FirstUsed(s, count) + 1, count) = Lowest(s, count)
<1>0. nframes \in Nat
  BY DEF PmmTypeOK
<1>1. ASSUME NEW r \in RunsFrom(s, count) PROVE r + count <= nframes /\ r \in Nat /\ r >= s
  <2>1. r + count - 1 \in Window(r, count) /\ r \in Nat /\ r >= s
    BY <1>0 DEF Window, RunsFrom, Frames
  <2>2. r + count - 1 \in Frames
    BY <2>1 DEF RunsFrom, Fits, IsFree
  <2> QED BY <1>0, <2>1, <2>2 DEF Frames
<1>2. ASSUME s + count > nframes PROVE Lowest(s, count) = nframes
  <2>1. RunsFrom(s, count) = {}
    BY <1>0, <1>1, <1>2
  <2> QED BY <2>1 DEF Lowest
<1>3. ASSUME s + count <= nframes, Fits(s, count) PROVE Lowest(s, count) = s
  <2>1. s \in RunsFrom(s, count)
    BY <1>0, <1>3 DEF RunsFrom, Frames
  <2>2. Lowest(s, count) \in RunsFrom(s, count) /\ Lowest(s, count) <= s
    BY <2>1, LowestIsLowest
  <2> QED BY <1>1, <2>2
<1>4. ASSUME s + count <= nframes, ~Fits(s, count)
      PROVE  /\ FirstUsed(s, count) + 1 \in 0 .. nframes
             /\ FirstUsed(s, count) \in Nat /\ FirstUsed(s, count) >= s
             /\ Lowest(FirstUsed(s, count) + 1, count) = Lowest(s, count)
  <2> DEFINE u == FirstUsed(s, count)
             U == {f \in Window(s, count) : ~IsFree(f)}
  <2>1. U # {} /\ U \in SUBSET Nat
    BY <1>4 DEF Fits, Window
  <2>2. PICK x \in U : \A y \in U : x <= y
    <3> HIDE DEF U
    <3> QED BY <2>1, Smallest
  <2>3. x \in Window(s, count) /\ ~IsFree(x) /\ \A g \in s .. (x - 1) : IsFree(g)
    <3>1. x \in Window(s, count) /\ ~IsFree(x)
      BY <2>2
    <3>2. ASSUME NEW g \in s .. (x - 1), ~IsFree(g) PROVE FALSE
      <4>1. g \in Window(s, count) /\ x \in Nat /\ g \in Nat /\ g < x
        BY <3>1 DEF Window
      <4> QED BY <2>2, <3>2, <4>1
    <3> QED BY <3>1, <3>2
  <2>4. u \in Window(s, count) /\ ~IsFree(u)
    BY <2>3 DEF FirstUsed
  <2> HIDE DEF u
  <2>5. u \in Nat /\ u >= s /\ u <= s + count - 1
    BY <2>4 DEF Window
  <2>6. ASSUME NEW r \in RunsFrom(s, count) PROVE r >= u + 1
    <3>1. CASE r <= u
      <4>1. u \in Window(r, count)
        BY <1>1, <2>5, <3>1 DEF Window
      <4> QED BY <2>4, <4>1 DEF RunsFrom, Fits
    <3> QED BY <1>1, <2>5, <3>1
  <2>7. RunsFrom(s, count) = RunsFrom(u + 1, count)
    <3>1. \A r \in RunsFrom(s, count) : r \in RunsFrom(u + 1, count)
      BY <2>6 DEF RunsFrom
    <3>2. \A r \in RunsFrom(u + 1, count) : r \in RunsFrom(s, count)
      BY <1>0, <2>5 DEF RunsFrom, Frames
    <3> QED BY <3>1, <3>2
  <2>8. u + 1 \in 0 .. nframes /\ u \in Nat /\ u >= s /\ Lowest(u + 1, count) = Lowest(s, count)
    BY <1>0, <1>4, <2>5, <2>7 DEF Lowest
  <2> QED BY <2>8 DEF u
<1> QED BY <1>2, <1>3, <1>4

\* What the recursive definition of FirstRun asks of a function.
Searches(f, count) ==
  f = [s \in 0 .. nframes |->
         IF s + count > nframes THEN nframes
         ELSE IF Fits(s, count) THEN s
         ELSE f[FirstUsed(s, count) + 1]]

(* The recursive search has one solution, the lowest run.                  *)
LEMMA SearchFindsLowest ==
  ASSUME PmmTypeOK, NEW count \in Nat \ {0}
  PROVE  FirstRun(count) = Lowest(0, count)
<1>0. nframes \in Nat
  BY DEF PmmTypeOK
<1> DEFINE g == [s \in 0 .. nframes |-> Lowest(s, count)]
           from == CHOOSE f : Searches(f, count)
<1>1. Searches(g, count)
  <2> SUFFICES ASSUME NEW s \in 0 .. nframes
               PROVE  Lowest(s, count) =
                        IF s + count > nframes THEN nframes
                        ELSE IF Fits(s, count) THEN s
                        ELSE g[FirstUsed(s, count) + 1]
    BY DEF Searches
  <2> QED BY <1>0, SearchStep
<1>2. Searches(from, count)
  BY <1>1
<1>3. FirstRun(count) = from[0]
  BY DEF FirstRun, Searches
<1> HIDE DEF from
<1>4. ASSUME NEW s \in 0 .. nframes
      PROVE  from[s] = IF s + count > nframes THEN nframes
                       ELSE IF Fits(s, count) THEN s
                       ELSE from[FirstUsed(s, count) + 1]
  BY <1>2 DEF Searches
<1>5. \A s \in 0 .. nframes : from[s] = Lowest(s, count)
  <2> DEFINE B == {d \in 0 .. nframes : from[nframes - d] # Lowest(nframes - d, count)}
  <2>1. ASSUME B # {} PROVE FALSE
    <3>1. B \in SUBSET Nat
      BY <1>0
    <3>2. PICK d \in B : \A e \in B : d <= e
      <4> HIDE DEF B
      <4> QED BY <2>1, <3>1, Smallest
    <3> DEFINE s == nframes - d
    <3>3. s \in 0 .. nframes /\ d \in 0 .. nframes
      BY <1>0, <3>2
    <3>4. from[s] # Lowest(s, count)
      BY <3>2
    <3>5. s + count <= nframes /\ ~Fits(s, count)
      <4> HIDE DEF s
      <4> QED BY <1>0, <1>4, <3>3, <3>4, SearchStep
    <3> DEFINE t == FirstUsed(s, count) + 1
    <3>6. t \in 0 .. nframes /\ t > s /\ Lowest(t, count) = Lowest(s, count)
      <4> HIDE DEF s
      <4> DEFINE u == FirstUsed(s, count)
      <4>1. u + 1 \in 0 .. nframes /\ u \in Nat /\ u >= s
            /\ Lowest(u + 1, count) = Lowest(s, count)
        BY <3>3, <3>5, SearchStep
      <4> HIDE DEF u
      <4>2. u + 1 > s
        BY <1>0, <3>3, <4>1
      <4> QED BY <4>1, <4>2 DEF u
    <3>7. from[s] = from[t]
      BY <1>0, <1>4, <3>3, <3>5
    <3>8. nframes - t \in B
      <4>1. nframes - t \in 0 .. nframes /\ nframes - (nframes - t) = t
        BY <1>0, <3>6
      <4> QED BY <3>4, <3>6, <3>7, <4>1
    <3>9. d <= nframes - t
      BY <3>2, <3>8
    <3> HIDE DEF t
    <3> QED BY <1>0, <3>3, <3>6, <3>9
  <2>2. ASSUME NEW s \in 0 .. nframes PROVE from[s] = Lowest(s, count)
    <3>1. nframes - s \in 0 .. nframes /\ nframes - (nframes - s) = s
      BY <1>0
    <3> QED BY <2>1, <3>1
  <2> QED BY <2>2
<1> QED BY <1>0, <1>3, <1>5

LEMMA SearchIsLowest == PmmTypeOK => LowestRun
<1> SUFFICES ASSUME PmmTypeOK, NEW count \in 1 .. nframes
             PROVE  LET runs == {s \in Frames : Fits(s, count)}
                    IN  IF runs = {} THEN FirstRun(count) = nframes
                        ELSE FirstRun(count) \in runs /\ \A s \in runs : FirstRun(count) <= s
  BY DEF LowestRun
<1>1. count \in Nat \ {0} /\ nframes \in Nat
  BY DEF PmmTypeOK
<1>2. {s \in Frames : Fits(s, count)} = RunsFrom(0, count)
  BY <1>1 DEF RunsFrom, Frames
<1>3. FirstRun(count) = Lowest(0, count)
  BY <1>1, SearchFindsLowest
<1> QED BY <1>1, <1>2, <1>3, LowestIsLowest

-----------------------------------------------------------------------------
(* Only memory that is there is handed out: RamInd adds that a free frame  *)
(* lies in available memory, as one that is given back does.               *)

InRam(f) ==
  \A p \in (f * PageSize) .. ((f + 1) * PageSize - 1) :
    \E r \in machine.avail : r.base <= p /\ p < r.base + r.len
RamInd ==
  /\ info \in {machine.info, NoRegion}
  /\ \A f \in Frames : f \notin used \/ owners[f] > 0 => InRam(f)

LEMMA FrameBounds ==
  ASSUME NEW f \in Nat
  PROVE  f * PageSize \in Nat /\ (f + 1) * PageSize \in Nat
BY PmmAssumption

LEMMA RamInitially == PmmInit => RamInd
<1> SUFFICES ASSUME PmmInit, NEW f \in Frames, f \notin used \/ owners[f] > 0,
                    NEW p \in (f * PageSize) .. ((f + 1) * PageSize - 1)
             PROVE  \E r \in machine.avail : r.base <= p /\ p < r.base + r.len
  BY DEF PmmInit, RamInd, InRam
<1>1. f \notin used
  BY DEF PmmInit
<1>2. machine \in Machines /\ nframes \in Nat
  BY BitmapSize DEF PmmInit
<1>3. PICK r \in machine.avail : f \in Inside(r, nframes)
  BY <1>1 DEF PmmInit
<1>4. r \in Regions
  BY <1>2, PmmAssumption
<1> DEFINE a == f * PageSize
           b == (f + 1) * PageSize
<1>5. a \in Nat /\ b \in Nat
  BY <1>2, FrameBounds DEF Frames
<1>6. r.base <= a /\ b <= r.base + r.len /\ r.base \in Nat /\ r.len \in Nat
  BY <1>3, <1>4 DEF Inside, Regions
<1>7. p \in a .. (b - 1)
  OBVIOUS
<1> HIDE DEF a, b
<1> QED BY <1>5, <1>6, <1>7

LEMMA HandOutRam ==
  ASSUME PmmInd, RamInd, NEW S, \A f \in S : IsFree(f), SetUsed(S), HandOut(S),
         UNCHANGED <<nframes, info, machine>>
  PROVE  RamInd'
<1>1. Frames' = Frames /\ used' = used \cup S
  BY DEF Frames, SetUsed
<1>2. owners' = [f \in Frames |-> IF f \in S THEN owners[f] + 1 ELSE owners[f]]
  BY DEF HandOut
<1>3. \A f : InRam(f)' = InRam(f)
  BY DEF InRam
<1>4. ASSUME NEW f \in Frames, f \notin used' \/ owners'[f] > 0 PROVE f \notin used \/ owners[f] > 0
  BY <1>1, <1>2, <1>4 DEF IsFree
<1>5. ASSUME NEW f \in Frames, f \notin used' \/ owners'[f] > 0 PROVE InRam(f)'
  BY <1>3, <1>4, <1>5 DEF RamInd
<1> QED BY <1>1, <1>5 DEF RamInd

LEMMA RamStep == PmmInd /\ RamInd /\ [PmmNext]_pmmVars => RamInd'
<1> SUFFICES ASSUME PmmInd, RamInd, [PmmNext]_pmmVars PROVE RamInd'
  OBVIOUS
<1>0. /\ nframes \in Nat /\ machine \in Machines
      /\ info \in Regions \cup {NoRegion} /\ owners \in [Frames -> Int]
  BY DEF PmmInd, PmmTypeOK
<1>1. ASSUME NEW f \in Frames, AllocPage(f) PROVE RamInd'
  <2>1. \A g \in {f} : IsFree(g)
    BY <1>1 DEF AllocPage
  <2>2. SetUsed({f}) /\ HandOut({f}) /\ UNCHANGED <<nframes, info, machine>>
    BY <1>1 DEF AllocPage
  <2> QED BY <2>1, <2>2, HandOutRam
<1>2. ASSUME NEW f \in Frames, owners[f] > 0, FreePage(f) PROVE RamInd'
  <2>1. /\ used' = used \ {f} /\ Frames' = Frames
        /\ owners' = [owners EXCEPT ![f] = owners[f] - 1]
    BY <1>2 DEF FreePage, SetFree, Frames
  <2>2. \A g : InRam(g)' = InRam(g)
    BY <1>2 DEF InRam, FreePage
  <2>3. ASSUME NEW g \in Frames, g \notin used' \/ owners'[g] > 0 PROVE g \notin used \/ owners[g] > 0
    BY <1>0, <1>2, <2>1, <2>3
  <2>4. ASSUME NEW g \in Frames, g \notin used' \/ owners'[g] > 0 PROVE InRam(g)'
    BY <2>2, <2>3, <2>4 DEF RamInd
  <2>5. info' = info /\ machine' = machine
    BY <1>2 DEF FreePage
  <2> QED BY <2>1, <2>4, <2>5 DEF RamInd
<1>3. ASSUME NEW count \in 1 .. nframes, NEW s \in Frames, AllocRun(s, count) PROVE RamInd'
  <2>1. /\ \A g \in Window(s, count) : IsFree(g)
        /\ SetUsed(Window(s, count)) /\ HandOut(Window(s, count))
        /\ UNCHANGED <<nframes, info, machine>>
    BY <1>3 DEF AllocRun, Fits
  <2> QED BY <2>1, HandOutRam
<1>4. ASSUME ReleaseBootInfo PROVE RamInd'
  <2>1. Frames' = Frames /\ owners' = owners /\ info # NoRegion
    BY <1>4 DEF ReleaseBootInfo, Frames
  <2>2. \A g : InRam(g)' = InRam(g)
    BY <1>4 DEF InRam, ReleaseBootInfo
  <2>3. \A g \in Frames : g \notin used' => g \notin used \/ g \in Inside(info, nframes)
    BY <1>4 DEF ReleaseBootInfo, OldBits
  <2>4. ASSUME NEW g \in Frames, g \in Inside(info, nframes) PROVE InRam(g)
    <3> DEFINE a == g * PageSize
               b == (g + 1) * PageSize
    <3>1. a \in Nat /\ b \in Nat
      <4>1. g \in Nat
        BY <1>0 DEF Frames
      <4> QED BY <4>1, FrameBounds
    <3>2. info = machine.info /\ info \in Regions
      BY <1>0, <2>1 DEF RamInd
    <3>3. info.base <= a /\ b <= info.base + info.len /\ info.base \in Nat /\ info.len \in Nat
      BY <2>4, <3>2 DEF Inside, Regions
    <3>4. ASSUME NEW p \in a .. (b - 1)
          PROVE  p \in info.base .. (info.base + info.len - 1)
      <4> HIDE DEF a, b
      <4> QED BY <3>1, <3>3
    <3>5. \A p \in a .. (b - 1) : \E r \in machine.avail : r.base <= p /\ p < r.base + r.len
      BY <1>0, <3>2, <3>4, BootInfoAssumption
    <3> QED BY <3>5 DEF InRam
  <2>5. info' = NoRegion
    BY <1>4 DEF ReleaseBootInfo
  <2> QED BY <2>1, <2>2, <2>3, <2>4, <2>5 DEF RamInd
<1>5. CASE UNCHANGED pmmVars
  BY <1>5 DEF pmmVars, RamInd, InRam, Frames
<1> QED BY <1>1, <1>2, <1>3, <1>4, <1>5 DEF PmmNext
(* A frame is handed out only if all of it is memory the map calls         *)
(* available, and a run is the lowest there is, which the search misses    *)
(* only when there is none (pmm_region_frames, pmm_alloc_contiguous).      *)
THEOREM PmmFramesGood == PmmSpec => []FramesGood
<1>1. PmmInd /\ RamInd => FramesGood
  BY SearchIsLowest DEF PmmInd, RamInd, InRam, HandedOutIsRam, FramesGood
<1>2. PmmSpec => []RamInd
  BY RamInitially, RamStep, PmmAlwaysInd, PTL DEF PmmSpec
<1> QED BY <1>1, <1>2, PmmAlwaysInd, PTL

-----------------------------------------------------------------------------
(* The heap and the other holders of frames as callers of the allocator.   *)

SinglesHeld == \A f \in singles : f \in Frames /\ owners[f] = 1

MemInd == PmmInd /\ SinglesHeld

(* Every run asked for has a length between 1 and the size of the bitmap. *)
LEMMA RunInRange ==
  ASSUME PmmTypeOK, NEW s, NEW n \in Nat \ {0}, AllocRun(s, n)
  PROVE  s \in Frames /\ n \in 1 .. nframes
<1>1. s \in Frames /\ \A f \in Window(s, n) : f \in Frames
  BY DEF AllocRun, Fits, IsFree
<1>2. s + n - 1 \in Window(s, n)
  BY <1>1 DEF Window, Frames
<1> QED BY <1>1, <1>2 DEF Frames, PmmTypeOK

LEMMA PagesPositive ==
  ASSUME NEW size \in Nat
  PROVE  PagesFor(size) \in Nat \ {0}
<1> DEFINE n == (size + Hdr + PageSize - 1) \div PageSize
<1>1. PageSize \in Nat \ {0} /\ Hdr \in Nat /\ GrowPages \in Nat \ {0}
  BY PmmAssumption, MemoryAssumption
<1>2. size + Hdr + PageSize - 1 \in Nat
  BY <1>1
<1>3. n \in Nat
  BY <1>1, <1>2
<1> HIDE DEF n
<1>4. PagesFor(size) = IF n < GrowPages THEN GrowPages ELSE n
  BY DEF PagesFor, n
<1> QED BY <1>1, <1>3, <1>4

LEMMA AlignedIsNat ==
  ASSUME NEW len \in Requests
  PROVE  AlignUp(len) \in Nat
<1>1. Align \in Nat \ {0} /\ len \in Nat \ {0}
  BY MemoryAssumption
<1>2. (len + Align - 1) \div Align \in Nat
  BY <1>1
<1> QED BY <1>1, <1>2 DEF AlignUp

(* A run handed out to the heap or to a layer is taken from free frames,   *)
(* so no single frame changes hands.                                       *)
LEMMA RunKeepsSingles ==
  ASSUME MemInd, NEW s, NEW n, AllocRun(s, n), singles' = singles
  PROVE  SinglesHeld'
<1>1. owners \in [Frames -> Int] /\ OneHolder
  BY DEF MemInd, PmmInd, PmmTypeOK
<1>2. \A f \in Window(s, n) : f \notin used
  BY DEF AllocRun, Fits, IsFree
<1>3. owners' = [f \in Frames |-> IF f \in Window(s, n) THEN owners[f] + 1 ELSE owners[f]]
  BY DEF AllocRun, HandOut
<1>4. Frames' = Frames
  BY DEF AllocRun, Frames
<1>5. \A f \in singles : f \in Frames /\ owners[f] = 1 /\ f \in used
  BY <1>1 DEF MemInd, SinglesHeld, OneHolder
<1>6. \A f \in singles : f \notin Window(s, n)
  BY <1>2, <1>5
<1> QED BY <1>3, <1>4, <1>5, <1>6 DEF SinglesHeld

LEMMA MemStep ==
  ASSUME MemInd, [Next]_vars
  PROVE  [PmmNext]_pmmVars /\ SinglesHeld'
<1>0. PmmTypeOK /\ OneHolder /\ SinglesHeld
  BY DEF MemInd, PmmInd
<1>1. CASE HeapInit
  <2>1. PICK s \in Frames : AllocRun(s, InitialPages)
    BY <1>1 DEF HeapInit
  <2>2. InitialPages \in Nat \ {0} /\ singles' = singles
    BY <1>1, MemoryAssumption DEF HeapInit
  <2>3. s \in Frames /\ InitialPages \in 1 .. nframes
    BY <1>0, <2>1, <2>2, RunInRange
  <2> QED BY <2>1, <2>2, <2>3, RunKeepsSingles DEF PmmNext
<1>2. ASSUME NEW len \in Requests, Kmalloc(len) PROVE [PmmNext]_pmmVars /\ SinglesHeld'
  <2>1. UNCHANGED pmmVars /\ UNCHANGED singles
    BY <1>2 DEF Kmalloc
  <2> QED BY <1>0, <2>1 DEF SinglesHeld, pmmVars, Frames
<1>3. ASSUME NEW len \in Requests, KmallocGrows(len) PROVE [PmmNext]_pmmVars /\ SinglesHeld'
  <2> DEFINE n == PagesFor(AlignUp(len))
  <2>1. PICK s \in Frames : AllocRun(s, n)
    BY <1>3 DEF KmallocGrows
  <2>2. n \in Nat \ {0} /\ singles' = singles
    BY <1>3, AlignedIsNat, PagesPositive DEF KmallocGrows
  <2> HIDE DEF n
  <2>3. s \in Frames /\ n \in 1 .. nframes
    BY <1>0, <2>1, <2>2, RunInRange
  <2> QED BY <2>1, <2>2, <2>3, RunKeepsSingles DEF PmmNext
<1>4. ASSUME NEW a \in live, Kfree(a) PROVE [PmmNext]_pmmVars /\ SinglesHeld'
  <2>1. UNCHANGED pmmVars /\ UNCHANGED singles
    BY <1>4 DEF Kfree
  <2> QED BY <1>0, <2>1 DEF SinglesHeld, pmmVars, Frames
<1>5. CASE TakePage
  <2>1. PICK f \in Frames : AllocPage(f) /\ singles' = singles \cup {f}
    BY <1>5 DEF TakePage
  <2>2. /\ owners' = [g \in Frames |-> IF g \in {f} THEN owners[g] + 1 ELSE owners[g]]
        /\ Frames' = Frames /\ f \notin used
    BY <2>1 DEF AllocPage, HandOut, Frames, IsFree
  <2>3. owners[f] = 0 /\ f \notin singles
    BY <1>0, <2>2 DEF OneHolder, SinglesHeld
  <2>4. SinglesHeld'
    BY <1>0, <2>1, <2>2, <2>3 DEF SinglesHeld
  <2> QED BY <2>1, <2>4 DEF PmmNext
<1>6. CASE GivePage
  <2>1. PICK f \in singles : FreePage(f) /\ singles' = singles \ {f}
    BY <1>6 DEF GivePage
  <2>2. f \in Frames /\ owners[f] > 0
    BY <1>0, <2>1 DEF SinglesHeld
  <2>3. owners' = [owners EXCEPT ![f] = owners[f] - 1] /\ Frames' = Frames
    BY <2>1 DEF FreePage, Frames
  <2>4. owners \in [Frames -> Int]
    BY <1>0 DEF PmmTypeOK
  <2>5. SinglesHeld'
    BY <1>0, <2>1, <2>3, <2>4 DEF SinglesHeld
  <2> QED BY <2>1, <2>2, <2>5 DEF PmmNext
<1>7. CASE TakeLayer
  <2>1. PICK n \in Layers, s \in Frames : AllocRun(s, n)
    BY <1>7 DEF TakeLayer
  <2>2. n \in Nat \ {0} /\ singles' = singles
    BY <1>7, MemoryAssumption DEF TakeLayer
  <2>3. n \in 1 .. nframes
    BY <1>0, <2>1, <2>2, RunInRange
  <2> QED BY <2>1, <2>2, <2>3, RunKeepsSingles DEF PmmNext
<1>8. CASE BootDone
  <2>1. ReleaseBootInfo /\ UNCHANGED singles
    BY <1>8 DEF BootDone
  <2>2. Frames' = Frames /\ owners' = owners
    BY <2>1 DEF ReleaseBootInfo, Frames
  <2> QED BY <1>0, <2>1, <2>2 DEF SinglesHeld, PmmNext
<1>9. CASE UNCHANGED vars
  BY <1>0, <1>9 DEF vars, pmmVars, SinglesHeld, Frames
<1> QED BY <1>1, <1>2, <1>3, <1>4, <1>5, <1>6, <1>7, <1>8, <1>9 DEF Next

LEMMA MemAlwaysInd == Spec => []MemInd
<1>1. Init => MemInd
  BY PmmInitInd DEF Init, MemInd, SinglesHeld
<1>2. MemInd /\ [Next]_vars => MemInd'
  BY MemStep, PmmStepInd DEF MemInd
<1> QED BY <1>1, <1>2, PTL DEF Spec

(* The heap and the other callers implement the allocator's specification: *)
(* no run of length 0, no frame given back that is not held.               *)
THEOREM MemoryImplementsPmm == Spec => PmmSpec
<1>1. Init => PmmInit
  BY DEF Init
<1>2. MemInd /\ [Next]_vars => [PmmNext]_pmmVars
  BY MemStep
<1> QED BY <1>1, <1>2, MemAlwaysInd, PTL DEF Spec, PmmSpec

(* With the heap, the page tables and the framebuffer at work, no frame    *)
(* has two holders and none in use by the kernel is handed out.            *)
THEOREM MemoryOneHolder == Spec => []OneHolder
BY MemoryImplementsPmm, PmmOneHolder, PTL

(* With the same callers, the frame counters are exact in every state.     *)
THEOREM MemoryCountersExact == Spec => []CountersExact
BY MemoryImplementsPmm, PmmCountersExact, PTL
-----------------------------------------------------------------------------
(* Lists of blocks                                                         *)

BlockT == [addr : Nat, size : Nat, free : BOOLEAN]
Units(bs) == UNION {Extent(bs[k]) : k \in DOMAIN bs}
Apart(bs) == \A k, l \in DOMAIN bs : k # l => Extent(bs[k]) \cap Extent(bs[l]) = {}
InUse(bs) == {bs[k] : k \in {l \in DOMAIN bs : ~bs[l].free}}
Spaced(bs) ==
  \A k \in 1 .. (Len(bs) - 1) :
    ~(bs[k].free /\ bs[k + 1].free /\ EndOf(bs[k]) = bs[k + 1].addr)
Aligned(bs) == \A k \in DOMAIN bs : (bs[k].addr + Hdr) % Align = 0

LEMMA ConstantTypes ==
  /\ PageSize \in Nat \ {0} /\ Hdr \in Nat \ {0} /\ Align \in Nat \ {0}
  /\ InitialPages \in Nat \ {0} /\ GrowPages \in Nat \ {0}
  /\ Hdr < PageSize
BY PmmAssumption, MemoryAssumption

LEMMA BlockBounds ==
  ASSUME NEW b \in BlockT
  PROVE  /\ b.addr \in Nat /\ b.size \in Nat /\ b.free \in BOOLEAN
         /\ EndOf(b) \in Nat /\ EndOf(b) > b.addr /\ b.addr \in Extent(b)
BY ConstantTypes DEF BlockT, EndOf, Extent

LEMMA SameAddr ==
  ASSUME NEW bs \in Seq(BlockT), Apart(bs), NEW k \in DOMAIN bs, NEW l \in DOMAIN bs,
         bs[k].addr = bs[l].addr
  PROVE  k = l
<1>1. bs[k] \in BlockT /\ bs[l] \in BlockT
  OBVIOUS
<1>2. bs[k].addr \in Extent(bs[k]) /\ bs[l].addr \in Extent(bs[l])
  BY <1>1, BlockBounds
<1> QED BY <1>2 DEF Apart

\* A multiple of the alignment more or less changes no remainder.
LEMMA AlignedSum ==
  ASSUME NEW a \in Nat, NEW b \in Nat, a % Align = 0, b % Align = 0
  PROVE  (a + b) % Align = 0
<1>1. Align \in Nat \ {0}
  BY ConstantTypes
<1>2. a = Align * (a \div Align) /\ b = Align * (b \div Align)
      /\ a \div Align \in Nat /\ b \div Align \in Nat
  BY <1>1
<1> DEFINE p == a \div Align
           q == b \div Align
<1>3. a + b = Align * (p + q) /\ p + q \in Nat
  <2> HIDE DEF p, q
  <2> SUFFICES ASSUME p \in Nat, q \in Nat, a = Align * p, b = Align * q
               PROVE  a + b = Align * (p + q) /\ p + q \in Nat
    BY <1>2 DEF p, q
  <2> QED BY <1>1
<1> DEFINE n == p + q
<1>4. (Align * n) % Align = 0
  <2> HIDE DEF n
  <2>1. n \in Nat
    BY <1>3 DEF n
  <2> QED BY <1>1, <2>1
<1> QED BY <1>3, <1>4

LEMMA AlignedProduct ==
  ASSUME NEW n \in Nat
  PROVE  (n * PageSize) % Align = 0
<1>1. Align \in Nat \ {0} /\ PageSize \in Nat /\ PageSize % Align = 0
  BY ConstantTypes, MemoryAssumption
<1> DEFINE p == PageSize \div Align
<1>2. PageSize = Align * p /\ p \in Nat
  BY <1>1
<1>3. n * PageSize = Align * (n * p) /\ n * p \in Nat
  <2> HIDE DEF p
  <2> QED BY <1>1, <1>2
<1> DEFINE m == n * p
<1>4. (Align * m) % Align = 0
  <2>1. m \in Nat
    BY <1>3
  <2> HIDE DEF m
  <2> QED BY <1>1, <2>1
<1> QED BY <1>3, <1>4

(* align_up rounds up, to a multiple of the alignment.                     *)
LEMMA AlignUpRounds ==
  ASSUME NEW len \in Nat
  PROVE  AlignUp(len) \in Nat /\ AlignUp(len) >= len /\ AlignUp(len) % Align = 0
<1>1. Align \in Nat \ {0}
  BY ConstantTypes
<1> DEFINE m == len + Align - 1
           q == m \div Align
           r == m % Align
<1>2. m \in Nat
  BY <1>1
<1>3. q \in Nat /\ r \in 0 .. (Align - 1) /\ m = Align * q + r
  <2> HIDE DEF m
  <2> QED BY <1>1, <1>2
<1>4. AlignUp(len) = Align * q
  <2>1. AlignUp(len) = q * Align
    BY DEF AlignUp
  <2> HIDE DEF q
  <2> QED BY <1>1, <1>3, <2>1
<1>5. Align * q \in Nat /\ Align * q >= len /\ (Align * q) % Align = 0
  <2>1. Align * q \in Nat /\ (Align * q) % Align = 0
    <3>1. q \in Nat
      BY <1>3
    <3> HIDE DEF q
    <3>2. Align * q \in Nat
      BY <1>1, <3>1
    <3>3. (Align * q) % Align = 0
      BY <1>1, <3>1
    <3> QED BY <3>2, <3>3
  <2>2. Align * q + r >= len + Align - 1
    BY <1>2, <1>3
  <2> DEFINE t == Align * q
  <2> HIDE DEF q, r, t
  <2>3. t \in Nat /\ t + r >= len + Align - 1
    BY <2>1, <2>2 DEF t
  <2>4. t >= len
    BY <1>1, <1>3, <2>3
  <2> QED BY <2>1, <2>4 DEF t
<1> QED BY <1>4, <1>5

-----------------------------------------------------------------------------
(* heap_split inside heap_try_alloc: one block of the list gives way to    *)
(* one or two.                                                             *)

Replaced(bs, k, parts) == SubSeq(bs, 1, k - 1) \o parts \o SubSeq(bs, k + 1, Len(bs))

LEMMA ReplacedBy ==
  ASSUME NEW bs \in Seq(BlockT), NEW k \in DOMAIN bs, NEW parts \in Seq(BlockT)
  PROVE  /\ Replaced(bs, k, parts) \in Seq(BlockT)
         /\ Len(Replaced(bs, k, parts)) = Len(bs) - 1 + Len(parts)
         /\ \A l \in 1 .. (Len(bs) - 1 + Len(parts)) :
              Replaced(bs, k, parts)[l] =
                IF l < k THEN bs[l]
                ELSE IF l < k + Len(parts) THEN parts[l - k + 1]
                ELSE bs[l - Len(parts) + 1]
<1> DEFINE A == SubSeq(bs, 1, k - 1)
           C == SubSeq(bs, k + 1, Len(bs))
<1>1. Len(bs) \in Nat /\ k \in 1 .. Len(bs) /\ \A l \in 1 .. Len(bs) : bs[l] \in BlockT
  BY LenProperties
<1>2. Len(parts) \in Nat
  BY LenProperties
<1>3. A \in Seq(BlockT) /\ Len(A) = k - 1 /\ \A l \in 1 .. (k - 1) : A[l] = bs[l]
  <2>1. 1 \in Int /\ k - 1 \in Int /\ \A l \in 1 .. (k - 1) : bs[l] \in BlockT
    BY <1>1
  <2>2. /\ A \in Seq(BlockT)
        /\ Len(A) = IF 1 <= k - 1 THEN k - 1 - 1 + 1 ELSE 0
        /\ \A l \in 1 .. (k - 1 - 1 + 1) : A[l] = bs[1 + l - 1]
    BY <2>1, SubSeqProperties
  <2> HIDE DEF A
  <2> QED BY <1>1, <2>2
<1>4. C \in Seq(BlockT) /\ Len(C) = Len(bs) - k /\ \A l \in 1 .. (Len(bs) - k) : C[l] = bs[k + l]
  <2>1. k + 1 \in Int /\ Len(bs) \in Int /\ \A l \in (k + 1) .. Len(bs) : bs[l] \in BlockT
    BY <1>1
  <2>2. /\ C \in Seq(BlockT)
        /\ Len(C) = IF k + 1 <= Len(bs) THEN Len(bs) - (k + 1) + 1 ELSE 0
        /\ \A l \in 1 .. (Len(bs) - (k + 1) + 1) : C[l] = bs[k + 1 + l - 1]
    BY <2>1, SubSeqProperties
  <2> HIDE DEF C
  <2> QED BY <1>1, <2>2
<1> HIDE DEF A, C
<1>5. /\ A \o parts \in Seq(BlockT) /\ Len(A \o parts) = k - 1 + Len(parts)
      /\ \A l \in 1 .. (k - 1 + Len(parts)) :
           (A \o parts)[l] = IF l <= k - 1 THEN A[l] ELSE parts[l - (k - 1)]
  BY <1>3, ConcatProperties
<1> DEFINE B == A \o parts
<1> HIDE DEF B
<1>6. /\ B \o C \in Seq(BlockT) /\ Len(B \o C) = Len(B) + Len(C)
      /\ \A l \in 1 .. (Len(B) + Len(C)) :
           (B \o C)[l] = IF l <= Len(B) THEN B[l] ELSE C[l - Len(B)]
  BY <1>4, <1>5, ConcatProperties DEF B
<1>7. Replaced(bs, k, parts) = B \o C
  BY DEF Replaced, A, B, C
<1>8. Len(B) = k - 1 + Len(parts) /\ \A l \in 1 .. (k - 1 + Len(parts)) :
        B[l] = IF l <= k - 1 THEN A[l] ELSE parts[l - (k - 1)]
  BY <1>5 DEF B
<1>9. ASSUME NEW l \in 1 .. (Len(bs) - 1 + Len(parts))
      PROVE  (B \o C)[l] = IF l < k THEN bs[l]
                           ELSE IF l < k + Len(parts) THEN parts[l - k + 1]
                           ELSE bs[l - Len(parts) + 1]
  <2>1. (B \o C)[l] = IF l <= Len(B) THEN B[l] ELSE C[l - Len(B)]
    <3>1. l \in 1 .. (Len(B) + Len(C))
      BY <1>1, <1>2, <1>4, <1>8
    <3> QED BY <1>6, <3>1
  <2>2. CASE l < k
    BY <1>1, <1>2, <1>3, <1>8, <2>1, <2>2
  <2>3. CASE l >= k /\ l < k + Len(parts)
    <3>1. l - (k - 1) = l - k + 1
      BY <1>1
    <3> QED BY <1>1, <1>2, <1>8, <2>1, <2>3, <3>1
  <2>4. CASE l >= k + Len(parts)
    <3>1. C[l - Len(B)] = bs[k + (l - Len(B))]
      <4>1. l - Len(B) \in 1 .. (Len(bs) - k)
        BY <1>1, <1>2, <1>8, <2>4
      <4> QED BY <1>4, <4>1
    <3>2. k + (l - Len(B)) = l - Len(parts) + 1
      BY <1>1, <1>2, <1>8
    <3>3. (B \o C)[l] = C[l - Len(B)]
      BY <1>1, <1>2, <1>8, <2>1, <2>4
    <3>4. ~(l < k) /\ ~(l < k + Len(parts))
      BY <1>1, <1>2, <2>4
    <3> QED BY <3>1, <3>2, <3>3, <3>4
  <2>5. l < k \/ (l >= k /\ l < k + Len(parts)) \/ l >= k + Len(parts)
    BY <1>1, <1>2
  <2> QED BY <2>2, <2>3, <2>4, <2>5
<1>10. Len(B \o C) = Len(bs) - 1 + Len(parts)
  BY <1>1, <1>2, <1>4, <1>6, <1>8
<1> QED BY <1>6, <1>7, <1>9, <1>10

LEMMA ReplacedOne ==
  ASSUME NEW bs \in Seq(BlockT), NEW k \in DOMAIN bs, NEW b \in BlockT
  PROVE  /\ Replaced(bs, k, <<b>>) \in Seq(BlockT)
         /\ Len(Replaced(bs, k, <<b>>)) = Len(bs)
         /\ \A l \in 1 .. Len(bs) : Replaced(bs, k, <<b>>)[l] = IF l = k THEN b ELSE bs[l]
<1> DEFINE parts == <<b>>
<1>1. parts \in Seq(BlockT) /\ Len(parts) = 1 /\ parts[1] = b
  OBVIOUS
<1>2. Len(bs) \in Nat /\ k \in 1 .. Len(bs)
  BY LenProperties
<1> HIDE DEF parts
<1>3. /\ Replaced(bs, k, parts) \in Seq(BlockT)
      /\ Len(Replaced(bs, k, parts)) = Len(bs) - 1 + Len(parts)
      /\ \A l \in 1 .. (Len(bs) - 1 + Len(parts)) :
           Replaced(bs, k, parts)[l] =
             IF l < k THEN bs[l]
             ELSE IF l < k + Len(parts) THEN parts[l - k + 1]
             ELSE bs[l - Len(parts) + 1]
  BY <1>1, ReplacedBy
<1>4. ASSUME NEW l \in 1 .. Len(bs) PROVE Replaced(bs, k, parts)[l] = IF l = k THEN b ELSE bs[l]
  <2>1. l \in 1 .. (Len(bs) - 1 + Len(parts))
    BY <1>1, <1>2
  <2>2. CASE l = k
    <3>1. l - k + 1 = 1
      BY <1>2, <2>2
    <3> QED BY <1>1, <1>2, <1>3, <2>1, <2>2, <3>1
  <2>3. CASE l > k
    <3>1. l - Len(parts) + 1 = l
      BY <1>1, <1>2
    <3> QED BY <1>1, <1>2, <1>3, <2>1, <2>3, <3>1
  <2>4. CASE l < k
    BY <1>2, <1>3, <2>1, <2>4
  <2> QED BY <1>2, <2>2, <2>3, <2>4
<1> QED BY <1>1, <1>2, <1>3, <1>4 DEF parts

LEMMA ReplacedTwo ==
  ASSUME NEW bs \in Seq(BlockT), NEW k \in DOMAIN bs, NEW b \in BlockT, NEW c \in BlockT
  PROVE  /\ Replaced(bs, k, <<b, c>>) \in Seq(BlockT)
         /\ Len(Replaced(bs, k, <<b, c>>)) = Len(bs) + 1
         /\ \A l \in 1 .. (Len(bs) + 1) :
              Replaced(bs, k, <<b, c>>)[l] =
                IF l < k THEN bs[l] ELSE IF l = k THEN b ELSE IF l = k + 1 THEN c ELSE bs[l - 1]
<1> DEFINE parts == <<b, c>>
<1>1. parts \in Seq(BlockT) /\ Len(parts) = 2 /\ parts[1] = b /\ parts[2] = c
  OBVIOUS
<1>2. Len(bs) \in Nat /\ k \in 1 .. Len(bs)
  BY LenProperties
<1> HIDE DEF parts
<1>3. /\ Replaced(bs, k, parts) \in Seq(BlockT)
      /\ Len(Replaced(bs, k, parts)) = Len(bs) - 1 + Len(parts)
      /\ \A l \in 1 .. (Len(bs) - 1 + Len(parts)) :
           Replaced(bs, k, parts)[l] =
             IF l < k THEN bs[l]
             ELSE IF l < k + Len(parts) THEN parts[l - k + 1]
             ELSE bs[l - Len(parts) + 1]
  BY <1>1, ReplacedBy
<1>4. ASSUME NEW l \in 1 .. (Len(bs) + 1)
      PROVE  Replaced(bs, k, parts)[l] =
               IF l < k THEN bs[l] ELSE IF l = k THEN b ELSE IF l = k + 1 THEN c ELSE bs[l - 1]
  <2>1. l \in 1 .. (Len(bs) - 1 + Len(parts))
    BY <1>1, <1>2
  <2>2. CASE l = k
    <3>1. l - k + 1 = 1
      BY <1>2, <2>2
    <3> QED BY <1>1, <1>2, <1>3, <2>1, <2>2, <3>1
  <2>3. CASE l = k + 1
    <3>1. l - k + 1 = 2 /\ ~(l < k) /\ l < k + Len(parts) /\ l # k
      BY <1>1, <1>2, <2>3
    <3>2. Replaced(bs, k, parts)[l] = parts[l - k + 1]
      BY <1>3, <2>1, <3>1
    <3> QED BY <1>1, <2>3, <3>1, <3>2
  <2>4. CASE l > k + 1
    <3>1. l - Len(parts) + 1 = l - 1
      BY <1>1, <1>2
    <3> QED BY <1>1, <1>2, <1>3, <2>1, <2>4, <3>1
  <2>5. CASE l < k
    BY <1>2, <1>3, <2>1, <2>5
  <2> QED BY <1>2, <2>2, <2>3, <2>4, <2>5
<1>5. Len(Replaced(bs, k, parts)) = Len(bs) + 1
  BY <1>1, <1>2, <1>3
<1> QED BY <1>3, <1>4, <1>5 DEF parts

\* Lists whose blocks lie in the same places.
LEMMA SamePlaces ==
  ASSUME NEW bs \in Seq(BlockT), NEW cs \in Seq(BlockT), Len(cs) = Len(bs),
         \A l \in 1 .. Len(bs) : cs[l].addr = bs[l].addr /\ cs[l].size = bs[l].size
  PROVE  Units(cs) = Units(bs) /\ (Apart(bs) => Apart(cs)) /\ (Aligned(bs) => Aligned(cs))
<1>1. DOMAIN cs = 1 .. Len(bs) /\ DOMAIN bs = 1 .. Len(bs)
  BY LenProperties
<1>2. \A l \in 1 .. Len(bs) : Extent(cs[l]) = Extent(bs[l])
  BY DEF Extent, EndOf
<1>3. Units(cs) = Units(bs)
  BY <1>1, <1>2 DEF Units
<1>4. Apart(bs) => Apart(cs)
  BY <1>1, <1>2 DEF Apart
<1>5. Aligned(bs) => Aligned(cs)
  BY <1>1 DEF Aligned
<1> QED BY <1>3, <1>4, <1>5

\* The list before a block is taken from it, and the request.
Takes(bs, k, size) ==
  /\ bs \in Seq(BlockT) /\ Apart(bs) /\ Spaced(bs) /\ Aligned(bs)
  /\ k \in DOMAIN bs /\ bs[k].free
  /\ size \in Nat /\ size % Align = 0 /\ bs[k].size >= size

\* What heap_try_alloc makes of it.
Taken(bs, k, size, new, b) ==
  /\ new \in Seq(BlockT) /\ new # << >>
  /\ Units(new) = Units(bs) /\ Apart(new) /\ Spaced(new) /\ Aligned(new)
  /\ b \in BlockT /\ b.addr = bs[k].addr /\ ~b.free /\ b.size >= size
  /\ InUse(new) = InUse(bs) \cup {b}

LEMMA TakenWhole ==
  ASSUME NEW bs, NEW k, NEW size, Takes(bs, k, size), bs[k].size < size + Hdr + Align
  PROVE  LET parts == Split(bs[k], size)
         IN  Taken(bs, k, size, Replaced(bs, k, parts), parts[1])
<1> DEFINE b == [bs[k] EXCEPT !.free = FALSE]
           new == Replaced(bs, k, <<b>>)
<1>1. bs \in Seq(BlockT) /\ k \in DOMAIN bs /\ Apart(bs) /\ Spaced(bs) /\ Aligned(bs)
      /\ bs[k].free /\ size \in Nat /\ bs[k].size >= size
  BY DEF Takes
<1>2. DOMAIN bs = 1 .. Len(bs) /\ Len(bs) \in Nat /\ \A l \in 1 .. Len(bs) : bs[l] \in BlockT
  BY <1>1, LenProperties
<1>3. b \in BlockT /\ b.addr = bs[k].addr /\ b.size = bs[k].size /\ ~b.free
  BY <1>1, <1>2 DEF BlockT
<1> HIDE DEF b
<1>4. /\ new \in Seq(BlockT) /\ Len(new) = Len(bs)
      /\ \A l \in 1 .. Len(bs) : new[l] = IF l = k THEN b ELSE bs[l]
  BY <1>1, <1>3, ReplacedOne
<1> HIDE DEF new
<1>5. \A l \in 1 .. Len(bs) : new[l].addr = bs[l].addr /\ new[l].size = bs[l].size
  BY <1>3, <1>4
<1>6. Units(new) = Units(bs) /\ Apart(new) /\ Aligned(new)
  BY <1>1, <1>4, <1>5, SamePlaces
<1>7. Spaced(new)
  <2>1. \A l \in 1 .. Len(bs) : EndOf(new[l]) = EndOf(bs[l]) /\ (new[l].free => bs[l].free)
    BY <1>3, <1>4, <1>5 DEF EndOf
  <2>2. \A l \in 1 .. (Len(bs) - 1) : l \in 1 .. Len(bs) /\ l + 1 \in 1 .. Len(bs)
    BY <1>2
  <2> QED BY <1>1, <1>4, <1>5, <2>1, <2>2 DEF Spaced
<1>8. InUse(new) = InUse(bs) \cup {b}
  <2>1. DOMAIN new = 1 .. Len(bs)
    BY <1>4, LenProperties
  <2> QED BY <1>1, <1>2, <1>3, <1>4, <2>1 DEF InUse
<1>9. Split(bs[k], size) = <<b>>
  BY DEF Split, b
<1>10. new # << >>
  BY <1>1, <1>2, <1>4
<1> QED BY <1>1, <1>3, <1>4, <1>6, <1>7, <1>8, <1>9, <1>10 DEF Taken, new

LEMMA TakenSplit ==
  ASSUME NEW bs, NEW k, NEW size, Takes(bs, k, size), ~(bs[k].size < size + Hdr + Align)
  PROVE  LET parts == Split(bs[k], size)
         IN  Taken(bs, k, size, Replaced(bs, k, parts), parts[1])
<1> DEFINE a == bs[k]
           b == Block(a.addr, size, FALSE)
           c == Block(a.addr + Hdr + size, a.size - size - Hdr, TRUE)
           new == Replaced(bs, k, <<b, c>>)
           N == Len(bs)
<1>1. bs \in Seq(BlockT) /\ k \in DOMAIN bs /\ Apart(bs) /\ Spaced(bs) /\ Aligned(bs)
      /\ a.free /\ size \in Nat /\ size % Align = 0 /\ a.size >= size
  BY DEF Takes
<1>2. DOMAIN bs = 1 .. N /\ N \in Nat /\ \A l \in 1 .. N : bs[l] \in BlockT
  BY <1>1, LenProperties
<1>3. Hdr \in Nat \ {0} /\ Align \in Nat \ {0}
  BY ConstantTypes
<1>4. a \in BlockT /\ a.addr \in Nat /\ a.size \in Nat /\ a.size >= size + Hdr + Align
  BY <1>1, <1>2, <1>3 DEF BlockT
<1>5. /\ b \in BlockT /\ b.addr = a.addr /\ b.size = size /\ ~b.free
      /\ c \in BlockT /\ c.addr = a.addr + Hdr + size /\ c.size = a.size - size - Hdr /\ c.free
  BY <1>1, <1>3, <1>4 DEF BlockT, Block
<1>6. Split(a, size) = <<b, c>>
  BY DEF Split
<1> HIDE DEF a, b, c
<1>7. EndOf(b) = c.addr /\ EndOf(c) = EndOf(a)
  BY <1>1, <1>3, <1>4, <1>5 DEF EndOf
<1>8. /\ new \in Seq(BlockT) /\ Len(new) = N + 1
      /\ \A l \in 1 .. (N + 1) :
           new[l] = IF l < k THEN bs[l] ELSE IF l = k THEN b ELSE IF l = k + 1 THEN c ELSE bs[l - 1]
  BY <1>1, <1>5, ReplacedTwo
<1> HIDE DEF new
<1>9. DOMAIN new = 1 .. (N + 1)
  BY <1>8, LenProperties
<1>10. Extent(b) \cup Extent(c) = Extent(a) /\ Extent(b) \cap Extent(c) = {}
  <2>1. b.addr \in Nat /\ EndOf(b) \in Nat /\ b.addr < EndOf(b) /\ EndOf(c) \in Nat /\ c.addr < EndOf(c)
    BY <1>5, BlockBounds
  <2> QED BY <1>5, <1>7, <2>1 DEF Extent
<1> DEFINE Old(l) == IF l <= k THEN l ELSE l - 1
<1>11. \A l \in 1 .. (N + 1) :
         /\ Old(l) \in 1 .. N
         /\ l = k => new[l] = b
         /\ l = k + 1 => new[l] = c
         /\ l # k /\ l # k + 1 => new[l] = bs[Old(l)] /\ Old(l) # k
  BY <1>1, <1>2, <1>8
<1>12. k \in 1 .. N /\ bs[k] = a
  BY <1>1, <1>2 DEF a
<1>13. \A l \in 1 .. (N + 1) : Extent(new[l]) \subseteq Extent(bs[Old(l)])
  BY <1>2, <1>10, <1>11, <1>12
<1>14. Apart(new)
  <2> SUFFICES ASSUME NEW l \in 1 .. (N + 1), NEW m \in 1 .. (N + 1), l # m
               PROVE  Extent(new[l]) \cap Extent(new[m]) = {}
    BY <1>9 DEF Apart
  <2>1. CASE Old(l) # Old(m)
    BY <1>1, <1>2, <1>11, <1>13, <2>1 DEF Apart
  <2>2. CASE Old(l) = Old(m)
    <3>1. (l = k /\ m = k + 1) \/ (l = k + 1 /\ m = k)
      BY <1>2, <1>12, <2>2
    <3> QED BY <1>10, <1>11, <3>1
  <2> QED BY <2>1, <2>2
<1>15. Units(new) = Units(bs)
  <2>1. \A p \in Units(new) : p \in Units(bs)
    BY <1>2, <1>9, <1>11, <1>13 DEF Units
  <2>2. ASSUME NEW l \in 1 .. N, NEW p \in Extent(bs[l]) PROVE p \in Units(new)
    <3>1. CASE l < k
      <4>1. l \in 1 .. (N + 1) /\ new[l] = bs[l]
        BY <1>2, <1>8, <3>1
      <4> QED BY <1>9, <2>2, <4>1 DEF Units
    <3>2. CASE l > k
      <4>1. l + 1 \in 1 .. (N + 1) /\ new[l + 1] = bs[l]
        BY <1>2, <1>8, <1>12, <3>2
      <4> QED BY <1>9, <2>2, <4>1 DEF Units
    <3>3. CASE l = k
      <4>1. k \in 1 .. (N + 1) /\ k + 1 \in 1 .. (N + 1) /\ new[k] = b /\ new[k + 1] = c
        BY <1>2, <1>11, <1>12
      <4>2. p \in Extent(b) \/ p \in Extent(c)
        BY <1>10, <1>12, <2>2, <3>3
      <4> QED BY <1>9, <4>1, <4>2 DEF Units
    <3> QED BY <1>12, <3>1, <3>2, <3>3
  <2>3. \A p \in Units(bs) : p \in Units(new)
    BY <1>2, <2>2 DEF Units
  <2> QED BY <2>1, <2>3
<1>16. Spaced(new)
  <2> SUFFICES ASSUME NEW l \in 1 .. N, new[l].free, new[l + 1].free, EndOf(new[l]) = new[l + 1].addr
               PROVE  FALSE
    BY <1>2, <1>8 DEF Spaced
  <2>1. CASE l + 1 < k
    <3>1. l \in 1 .. (N - 1) /\ new[l] = bs[l] /\ new[l + 1] = bs[l + 1]
      BY <1>2, <1>8, <1>12, <2>1
    <3> QED BY <1>1, <3>1 DEF Spaced
  <2>2. CASE l + 1 = k \/ l = k
    <3>1. k \in 1 .. (N + 1)
      BY <1>2, <1>12
    <3>2. ~new[k].free
      BY <1>5, <1>11, <3>1
    <3> QED BY <2>2, <3>2
  <2>3. CASE l = k + 1
    <3>1. k \in 1 .. (N - 1) /\ l \in 1 .. (N + 1) /\ l + 1 \in 1 .. (N + 1) /\ (l + 1) - 1 = k + 1
      BY <1>2, <1>12, <2>3
    <3>2. new[l] = c /\ new[l + 1] = bs[k + 1]
      BY <1>8, <1>12, <2>3, <3>1
    <3> QED BY <1>1, <1>7, <1>12, <3>1, <3>2 DEF Spaced
  <2>4. CASE l > k + 1
    <3>1. l - 1 \in 1 .. (N - 1) /\ (l - 1) + 1 = l /\ l \in 1 .. (N + 1) /\ l + 1 \in 1 .. (N + 1)
      BY <1>2, <1>12, <2>4
    <3>2. new[l] = bs[l - 1] /\ new[l + 1] = bs[l]
      BY <1>8, <1>12, <2>4, <3>1
    <3> QED BY <1>1, <3>1, <3>2 DEF Spaced
  <2> QED BY <1>12, <2>1, <2>2, <2>3, <2>4
<1>17. Aligned(new)
  <2>1. \A l \in 1 .. N : bs[l].addr \in Nat /\ (bs[l].addr + Hdr) % Align = 0
    BY <1>1, <1>2 DEF Aligned, BlockT
  <2>2. (c.addr + Hdr) % Align = 0
    <3>1. (a.addr + Hdr) % Align = 0 /\ a.addr + Hdr \in Nat
      BY <1>3, <1>4, <1>12, <2>1
    <3>2. (size + Hdr) % Align = 0 /\ size + Hdr \in Nat
      BY <1>1, <1>3, AlignedSum, MemoryAssumption
    <3>3. ((a.addr + Hdr) + (size + Hdr)) % Align = 0
      BY <3>1, <3>2, AlignedSum
    <3>4. c.addr + Hdr = (a.addr + Hdr) + (size + Hdr)
      BY <1>1, <1>3, <1>4, <1>5
    <3> QED BY <3>3, <3>4
  <2>3. (b.addr + Hdr) % Align = 0
    BY <1>5, <1>12, <2>1
  <2> QED BY <1>9, <1>11, <2>1, <2>2, <2>3 DEF Aligned
<1>18. InUse(new) = InUse(bs) \cup {b}
  <2>1. \A x \in InUse(new) : x \in InUse(bs) \cup {b}
    <3> SUFFICES ASSUME NEW l \in 1 .. (N + 1), ~new[l].free PROVE new[l] \in InUse(bs) \cup {b}
      BY <1>9 DEF InUse
    <3>1. CASE l = k \/ l = k + 1
      BY <1>5, <1>11, <3>1
    <3>2. CASE l # k /\ l # k + 1
      BY <1>2, <1>11, <3>2 DEF InUse
    <3> QED BY <3>1, <3>2
  <2>2. b \in InUse(new)
    <3>1. k \in 1 .. (N + 1)
      BY <1>2, <1>12
    <3> QED BY <1>5, <1>9, <1>11, <3>1 DEF InUse
  <2>3. \A x \in InUse(bs) : x \in InUse(new)
    <3> SUFFICES ASSUME NEW l \in 1 .. N, ~bs[l].free PROVE bs[l] \in InUse(new)
      BY <1>2 DEF InUse
    <3>1. l # k
      BY <1>1, <1>12
    <3>2. CASE l < k
      <4>1. l \in 1 .. (N + 1) /\ new[l] = bs[l]
        BY <1>2, <1>8, <3>2
      <4> QED BY <1>9, <4>1 DEF InUse
    <3>3. CASE l > k
      <4>1. l + 1 \in 1 .. (N + 1) /\ new[l + 1] = bs[l]
        BY <1>2, <1>8, <1>12, <3>3
      <4> QED BY <1>9, <4>1 DEF InUse
    <3> QED BY <1>12, <3>1, <3>2, <3>3
  <2> QED BY <2>1, <2>2, <2>3
<1>19. new # << >>
  BY <1>2, <1>8
<1>20. Taken(bs, k, size, new, b)
  <2>1. b.size >= size
    BY <1>1, <1>5
  <2> QED BY <1>5, <1>8, <1>12, <1>14, <1>15, <1>16, <1>17, <1>18, <1>19, <2>1 DEF Taken
<1>21. Split(bs[k], size)[1] = b /\ Replaced(bs, k, Split(bs[k], size)) = new
  BY <1>6, <1>12 DEF new
<1> QED BY <1>20, <1>21

-----------------------------------------------------------------------------
(* One block more at the end of a list: heap_append_region, and a step of  *)
(* heap_coalesce.                                                          *)

LEMMA NoBlocks ==
  /\ << >> \in Seq(BlockT) /\ Units(<< >>) = {} /\ Apart(<< >>) /\ Spaced(<< >>)
  /\ Aligned(<< >>) /\ InUse(<< >>) = {}
BY DEF Units, Apart, Spaced, Aligned, InUse

\* The list acc with c at its end, whether joined to the last block or not.
Joined(acc, c, new) ==
  /\ new \in Seq(BlockT) /\ new # << >>
  /\ Units(new) = Units(acc) \cup Extent(c)
  /\ Apart(new) /\ Spaced(new) /\ Aligned(new)
  /\ InUse(new) = InUse(acc) \cup (IF c.free THEN {} ELSE {c})
  /\ c.free => new[Len(new)].free /\ new[Len(new)].size >= c.size
Joinable(acc, c) ==
  /\ acc \in Seq(BlockT) /\ Apart(acc) /\ Spaced(acc) /\ Aligned(acc)
  /\ c \in BlockT /\ (c.addr + Hdr) % Align = 0
  /\ Units(acc) \cap Extent(c) = {}

LEMMA JoinAbsorbs ==
  ASSUME NEW acc, NEW c, Joinable(acc, c), acc # << >>, Absorbs(acc[Len(acc)], c)
  PROVE  Joined(acc, c, Join(acc, c))
<1> DEFINE L == Len(acc)
           a == acc[L]
           d == [a EXCEPT !.size = @ + Hdr + c.size]
           new == [acc EXCEPT ![L] = d]
<1>1. acc \in Seq(BlockT) /\ Apart(acc) /\ Spaced(acc) /\ Aligned(acc) /\ c \in BlockT
      /\ Units(acc) \cap Extent(c) = {}
  BY DEF Joinable
<1>2. L \in Nat \ {0} /\ DOMAIN acc = 1 .. L /\ \A l \in 1 .. L : acc[l] \in BlockT
  BY <1>1, LenProperties, EmptySeq
<1>3. a \in BlockT /\ a.free /\ c.free /\ EndOf(a) = c.addr
  BY <1>2 DEF Absorbs
<1>4. Hdr \in Nat \ {0} /\ a.addr \in Nat /\ a.size \in Nat /\ c.addr \in Nat /\ c.size \in Nat
  BY <1>1, <1>3, ConstantTypes DEF BlockT
<1>5. d \in BlockT /\ d.addr = a.addr /\ d.size = a.size + Hdr + c.size /\ d.free
  BY <1>3, <1>4 DEF BlockT
<1>6. Join(acc, c) = new
  BY DEF Join
<1> HIDE DEF a, d, L
<1>7. /\ new \in Seq(BlockT) /\ Len(new) = L
      /\ \A l \in 1 .. L : new[l] = IF l = L THEN d ELSE acc[l]
  BY <1>1, <1>2, <1>5, ExceptSeq
<1> HIDE DEF new
<1>8. DOMAIN new = 1 .. L /\ acc[L] = a
  BY <1>7, LenProperties DEF a
<1>9. Extent(d) = Extent(a) \cup Extent(c) /\ EndOf(d) = EndOf(c)
  <2>1. EndOf(c) \in Nat /\ c.addr < EndOf(c) /\ EndOf(a) > a.addr
    BY <1>1, <1>3, BlockBounds
  <2>2. EndOf(d) = EndOf(a) + Hdr + c.size
    BY <1>4, <1>5 DEF EndOf
  <2>3. EndOf(c) = c.addr + Hdr + c.size
    BY DEF EndOf
  <2>4. EndOf(d) = EndOf(c)
    BY <1>3, <2>2, <2>3
  <2> QED BY <1>3, <1>4, <1>5, <2>1, <2>4 DEF Extent
<1>10. \A l \in 1 .. L : Extent(acc[l]) \subseteq Units(acc)
  BY <1>2 DEF Units
<1>11. Units(new) = Units(acc) \cup Extent(c)
  <2>1. \A l \in 1 .. L : Extent(new[l]) \subseteq Units(acc) \cup Extent(c)
    BY <1>2, <1>7, <1>8, <1>9, <1>10
  <2>2. \A l \in 1 .. L : Extent(acc[l]) \subseteq Extent(new[l])
    BY <1>2, <1>7, <1>8, <1>9
  <2>3. L \in 1 .. L /\ Extent(c) \subseteq Extent(new[L])
    BY <1>2, <1>7, <1>9
  <2>4. \A p \in Units(new) : p \in Units(acc) \cup Extent(c)
    BY <1>8, <2>1 DEF Units
  <2>5. \A p \in Units(acc) \cup Extent(c) : p \in Units(new)
    BY <1>2, <1>8, <2>2, <2>3 DEF Units
  <2> QED BY <2>4, <2>5
<1>12. Apart(new)
  <2> SUFFICES ASSUME NEW l \in 1 .. L, NEW m \in 1 .. L, l # m
               PROVE  Extent(new[l]) \cap Extent(new[m]) = {}
    BY <1>8 DEF Apart
  <2>1. \A x \in 1 .. L : Extent(new[x]) \subseteq Extent(acc[x]) \cup Extent(c)
    BY <1>2, <1>7, <1>8, <1>9
  <2>2. \A x \in 1 .. L : x # L => Extent(new[x]) = Extent(acc[x])
    BY <1>7
  <2>3. Extent(acc[l]) \cap Extent(acc[m]) = {}
    BY <1>1, <1>2 DEF Apart
  <2> QED BY <1>1, <1>10, <2>1, <2>2, <2>3
<1>13. Spaced(new)
  <2> SUFFICES ASSUME NEW l \in 1 .. (L - 1), new[l].free, new[l + 1].free,
                      EndOf(new[l]) = new[l + 1].addr
               PROVE  FALSE
    BY <1>7 DEF Spaced
  <2>1. l \in 1 .. L /\ l + 1 \in 1 .. L /\ l # L
    BY <1>2
  <2>2. new[l] = acc[l] /\ new[l + 1].addr = acc[l + 1].addr
    BY <1>5, <1>7, <1>8, <2>1
  <2>3. acc[l + 1].free
    BY <1>3, <1>7, <1>8, <2>1
  <2>4. acc[l].free /\ EndOf(acc[l]) = acc[l + 1].addr
    BY <2>2
  <2>5. l \in 1 .. (Len(acc) - 1)
    BY DEF L
  <2> QED BY <1>1, <2>3, <2>4, <2>5 DEF Spaced
<1>14. Aligned(new)
  BY <1>1, <1>2, <1>5, <1>7, <1>8 DEF Aligned
<1>15. InUse(new) = InUse(acc)
  <2>1. \A l \in 1 .. L : (new[l].free <=> acc[l].free) /\ (~acc[l].free => new[l] = acc[l])
    <3> SUFFICES ASSUME NEW l \in 1 .. L
                 PROVE  (new[l].free <=> acc[l].free) /\ (~acc[l].free => new[l] = acc[l])
      OBVIOUS
    <3>1. CASE l = L
      BY <1>3, <1>5, <1>7, <1>8, <3>1
    <3>2. CASE l # L
      BY <1>7, <3>2
    <3> QED BY <3>1, <3>2
  <2> QED BY <1>2, <1>8, <2>1 DEF InUse
<1>16. new[Len(new)].free /\ new[Len(new)].size >= c.size
  BY <1>2, <1>4, <1>5, <1>7
<1>17. new # << >>
  BY <1>2, <1>7
<1> QED BY <1>3, <1>6, <1>7, <1>11, <1>12, <1>13, <1>14, <1>15, <1>16, <1>17 DEF Joined

LEMMA JoinAppends ==
  ASSUME NEW acc, NEW c, Joinable(acc, c), ~(acc # << >> /\ Absorbs(acc[Len(acc)], c))
  PROVE  Joined(acc, c, Join(acc, c))
<1> DEFINE L == Len(acc)
           new == Append(acc, c)
<1>1. acc \in Seq(BlockT) /\ Apart(acc) /\ Spaced(acc) /\ Aligned(acc) /\ c \in BlockT
      /\ Units(acc) \cap Extent(c) = {} /\ (c.addr + Hdr) % Align = 0
  BY DEF Joinable
<1>2. L \in Nat /\ DOMAIN acc = 1 .. L /\ \A l \in 1 .. L : acc[l] \in BlockT
  BY <1>1, LenProperties
<1>3. Join(acc, c) = new
  BY DEF Join
<1> HIDE DEF L
<1>4. /\ new \in Seq(BlockT) /\ new # << >> /\ Len(new) = L + 1
      /\ \A l \in 1 .. L : new[l] = acc[l]
      /\ new[L + 1] = c
  BY <1>1, AppendProperties DEF L
<1> HIDE DEF new
<1>5. DOMAIN new = 1 .. (L + 1) /\ \A l \in 1 .. (L + 1) : l \in 1 .. L \/ l = L + 1
  BY <1>2, <1>4, LenProperties
<1>6. L + 1 \in 1 .. (L + 1) /\ \A l \in 1 .. L : l \in 1 .. (L + 1) /\ l # L + 1
  BY <1>2
<1>7. Units(new) = Units(acc) \cup Extent(c)
  <2>1. \A p \in Units(new) : p \in Units(acc) \cup Extent(c)
    BY <1>2, <1>4, <1>5 DEF Units
  <2>2. \A p \in Units(acc) \cup Extent(c) : p \in Units(new)
    BY <1>2, <1>4, <1>5, <1>6 DEF Units
  <2> QED BY <2>1, <2>2
<1>8. \A l \in 1 .. L : Extent(acc[l]) \cap Extent(c) = {}
  BY <1>1, <1>2 DEF Units
<1>9. Apart(new)
  BY <1>1, <1>2, <1>4, <1>5, <1>8 DEF Apart
<1>10. Spaced(new)
  <2> SUFFICES ASSUME NEW l \in 1 .. L, new[l].free, new[l + 1].free, EndOf(new[l]) = new[l + 1].addr
               PROVE  FALSE
    BY <1>2, <1>4 DEF Spaced, L
  <2>1. CASE l < L
    <3>1. l \in 1 .. (L - 1) /\ l + 1 \in 1 .. L
      BY <1>2, <2>1
    <3>2. new[l] = acc[l] /\ new[l + 1] = acc[l + 1] /\ l \in 1 .. (Len(acc) - 1)
      BY <1>4, <3>1 DEF L
    <3> QED BY <1>1, <3>2 DEF Spaced
  <2>2. CASE l = L
    <3>1. L \in 1 .. L /\ L >= 1
      BY <1>2, <2>2
    <3>2. new[L] = acc[Len(acc)] /\ new[L + 1] = c
      BY <1>4, <3>1 DEF L
    <3>3. acc # << >>
      BY <3>1 DEF L
    <3> QED BY <2>2, <3>2, <3>3 DEF Absorbs
  <2> QED BY <1>2, <2>1, <2>2
<1>11. Aligned(new)
  BY <1>1, <1>2, <1>4, <1>5 DEF Aligned
<1>12. InUse(new) = InUse(acc) \cup (IF c.free THEN {} ELSE {c})
  <2>1. \A x \in InUse(new) : x \in InUse(acc) \cup (IF c.free THEN {} ELSE {c})
    BY <1>2, <1>4, <1>5 DEF InUse
  <2>2. \A x \in InUse(acc) \cup (IF c.free THEN {} ELSE {c}) : x \in InUse(new)
    BY <1>2, <1>4, <1>5, <1>6 DEF InUse
  <2> QED BY <2>1, <2>2
<1>13. c.free => new[Len(new)].free /\ new[Len(new)].size >= c.size
  <2>1. c.size \in Nat
    BY <1>1 DEF BlockT
  <2> QED BY <1>4, <2>1
<1> QED BY <1>3, <1>4, <1>7, <1>9, <1>10, <1>11, <1>12, <1>13 DEF Joined

LEMMA JoinKeeps ==
  ASSUME NEW acc, NEW c, Joinable(acc, c)
  PROVE  Joined(acc, c, Join(acc, c))
BY JoinAbsorbs, JoinAppends

-----------------------------------------------------------------------------
(* A function defined step by step along 0 .. n exists.                    *)
LEMMA Stepwise ==
  ASSUME NEW R, NEW base \in R, NEW n \in Nat, NEW step \in [1 .. n -> [R -> R]]
  PROVE  \E f : f \in [0 .. n -> R] /\ f[0] = base /\ \A k \in 1 .. n : f[k] = step[k][f[k - 1]]
<1> DEFINE Is(f, m) == /\ f \in [0 .. m -> R] /\ f[0] = base
                       /\ \A k \in 1 .. m : f[k] = step[k][f[k - 1]]
           B == {m \in 0 .. n : ~ \E f : Is(f, m)}
<1>1. ASSUME B # {} PROVE FALSE
  <2>1. B \in SUBSET Nat
    OBVIOUS
  <2>2. PICK m \in B : \A l \in B : m <= l
    <3> HIDE DEF B
    <3> QED BY <1>1, <2>1, Smallest
  <2>3. m \in 0 .. n /\ ~ \E f : Is(f, m)
    BY <2>2
  <2>4. CASE m = 0
    <3>1. Is([k \in 0 .. 0 |-> base], 0)
      OBVIOUS
    <3> QED BY <2>3, <2>4, <3>1
  <2>5. CASE m # 0
    <3>1. m - 1 \in 0 .. n /\ m \in 1 .. n
      BY <2>3, <2>5
    <3>2. m - 1 \notin B
      <4> HIDE DEF B
      <4> QED BY <2>2, <3>1
    <3>3. PICK f : Is(f, m - 1)
      BY <3>1, <3>2
    <3> DEFINE g == [k \in 0 .. m |-> IF k = m THEN step[m][f[m - 1]] ELSE f[k]]
    <3>4. f[m - 1] \in R /\ step[m][f[m - 1]] \in R
      BY <3>1, <3>3
    <3>5. g \in [0 .. m -> R] /\ g[0] = base
      BY <3>1, <3>3, <3>4
    <3>6. ASSUME NEW k \in 1 .. m PROVE g[k] = step[k][g[k - 1]]
      <4>1. k - 1 \in 0 .. m /\ k - 1 # m
        BY <3>1
      <4>2. g[k - 1] = f[k - 1]
        BY <4>1
      <4>3. CASE k = m
        BY <4>2, <4>3
      <4>4. CASE k # m
        <5>1. k \in 1 .. (m - 1)
          BY <3>1, <4>4
        <5> QED BY <3>3, <4>2, <4>4, <5>1
      <4> QED BY <4>3, <4>4
    <3>7. Is(g, m)
      BY <3>5, <3>6
    <3> QED BY <2>3, <3>7
  <2> QED BY <2>4, <2>5
<1>2. n \notin B
  BY <1>1
<1> QED BY <1>2

LEMMA StepByStep ==
  ASSUME NEW R, NEW base \in R, NEW n \in Nat, NEW step \in [1 .. n -> [R -> R]]
  PROVE  \E f : /\ f \in [0 .. n -> R]
                /\ f = [k \in 0 .. n |-> IF k = 0 THEN base ELSE step[k][f[k - 1]]]
<1>1. PICK f : /\ f \in [0 .. n -> R] /\ f[0] = base
               /\ \A k \in 1 .. n : f[k] = step[k][f[k - 1]]
  BY Stepwise
<1>2. f = [k \in 0 .. n |-> IF k = 0 THEN base ELSE step[k][f[k - 1]]]
  <2>1. \A k \in 0 .. n : f[k] = IF k = 0 THEN base ELSE step[k][f[k - 1]]
    BY <1>1
  <2> QED BY <1>1, <2>1
<1> QED BY <1>1, <1>2

-----------------------------------------------------------------------------
(* heap_coalesce: the list it leaves covers what the list covered, and no  *)
(* free neighbours are apart any more.                                     *)

UnitsUpTo(bs, n) == UNION {Extent(bs[k]) : k \in 1 .. n}
InUseUpTo(bs, n) == {bs[k] : k \in {l \in 1 .. n : ~bs[l].free}}
Merged(bs, n, u) ==
  /\ u \in Seq(BlockT) /\ (n > 0 => u # << >>)
  /\ Units(u) = UnitsUpTo(bs, n) /\ Apart(u) /\ Spaced(u) /\ Aligned(u)
  /\ InUse(u) = InUseUpTo(bs, n)

LEMMA LargerBlock ==
  ASSUME NEW b \in BlockT, NEW c \in BlockT
  PROVE  [b EXCEPT !.size = @ + Hdr + c.size] \in BlockT
BY ConstantTypes DEF BlockT

LEMMA CoalescedExists ==
  ASSUME NEW bs \in Seq(BlockT)
  PROVE  \E f : f = [n \in 0 .. Len(bs) |-> IF n = 0 THEN << >> ELSE Join(f[n - 1], bs[n])]
<1> DEFINE N == Len(bs)
           R == Seq(BlockT)
           step == [k \in 1 .. N |-> [u \in R |-> Join(u, bs[k])]]
<1>1. N \in Nat /\ \A k \in 1 .. N : bs[k] \in BlockT
  BY LenProperties
<1>2. ASSUME NEW k \in 1 .. N, NEW u \in R PROVE Join(u, bs[k]) \in R
  <2>1. Append(u, bs[k]) \in R
    BY <1>1, AppendProperties
  <2>2. CASE u # << >> /\ Absorbs(u[Len(u)], bs[k])
    <3> DEFINE L == Len(u)
               d == [u[L] EXCEPT !.size = @ + Hdr + bs[k].size]
    <3>1. L \in 1 .. L /\ u[L] \in BlockT
      BY <2>2, LenProperties, EmptySeq
    <3>2. d \in BlockT
      <4>1. bs[k] \in BlockT
        BY <1>1
      <4> HIDE DEF L
      <4> QED BY <3>1, <4>1, LargerBlock
    <3>3. Join(u, bs[k]) = [u EXCEPT ![L] = d]
      BY <2>2 DEF Join
    <3> HIDE DEF d, L
    <3>4. [u EXCEPT ![L] = d] \in R
      <4>1. L \in 1 .. Len(u)
        BY <3>1 DEF L
      <4> QED BY <3>2, <4>1, ExceptSeq
    <3> QED BY <3>3, <3>4
  <2>3. CASE ~(u # << >> /\ Absorbs(u[Len(u)], bs[k]))
    BY <2>1, <2>3 DEF Join
  <2> QED BY <2>2, <2>3
<1>3. step \in [1 .. N -> [R -> R]]
  BY <1>2
<1>4. << >> \in R
  OBVIOUS
<1> DEFINE e == << >>
<1> HIDE DEF step, R, e, N
<1>5. PICK f : /\ f \in [0 .. N -> R]
               /\ f = [k \in 0 .. N |-> IF k = 0 THEN e ELSE step[k][f[k - 1]]]
  <2>1. e \in R
    BY <1>4 DEF e
  <2> QED BY <1>1, <1>3, <2>1, StepByStep
<1>6. \A k \in 0 .. N : k # 0 => step[k][f[k - 1]] = Join(f[k - 1], bs[k])
  <2> SUFFICES ASSUME NEW k \in 0 .. N, k # 0 PROVE step[k][f[k - 1]] = Join(f[k - 1], bs[k])
    OBVIOUS
  <2>1. k \in 1 .. N /\ k - 1 \in 0 .. N
    BY <1>1
  <2>2. f[k - 1] \in R
    BY <1>5, <2>1
  <2> QED BY <2>1, <2>2 DEF step
<1>7. f = [k \in 0 .. N |-> IF k = 0 THEN << >> ELSE Join(f[k - 1], bs[k])]
  BY <1>5, <1>6 DEF e
<1> QED BY <1>7 DEF N

LEMMA MergedStep ==
  ASSUME NEW bs \in Seq(BlockT), Apart(bs), Aligned(bs), NEW n \in 1 .. Len(bs),
         NEW u, Merged(bs, n - 1, u)
  PROVE  Merged(bs, n, Join(u, bs[n]))
<1> DEFINE c == bs[n]
           new == Join(u, c)
<1>1. Len(bs) \in Nat /\ DOMAIN bs = 1 .. Len(bs) /\ \A k \in 1 .. Len(bs) : bs[k] \in BlockT
  BY LenProperties
<1>2. n \in Nat /\ n >= 1 /\ 1 .. n = (1 .. (n - 1)) \cup {n} /\ n \notin 1 .. (n - 1)
      /\ 1 .. (n - 1) \subseteq 1 .. Len(bs)
  BY <1>1
<1>3. Units(u) \cap Extent(c) = {}
  <2>1. \A k \in 1 .. (n - 1) : k \in DOMAIN bs /\ n \in DOMAIN bs /\ k # n
    BY <1>1, <1>2
  <2>2. \A k \in 1 .. (n - 1) : Extent(bs[k]) \cap Extent(bs[n]) = {}
    BY <2>1 DEF Apart
  <2> QED BY <2>2 DEF Merged, UnitsUpTo
<1>4. Joinable(u, c)
  BY <1>1, <1>3 DEF Joinable, Merged, Aligned
<1>5. Joined(u, c, new)
  BY <1>4, JoinKeeps
<1> HIDE DEF new
<1>6. UnitsUpTo(bs, n) = UnitsUpTo(bs, n - 1) \cup Extent(c)
  BY <1>2 DEF UnitsUpTo
<1>7. InUseUpTo(bs, n) = InUseUpTo(bs, n - 1) \cup (IF c.free THEN {} ELSE {c})
  <2>1. \A x \in InUseUpTo(bs, n) : x \in InUseUpTo(bs, n - 1) \cup (IF c.free THEN {} ELSE {c})
    BY <1>2 DEF InUseUpTo
  <2>2. \A x \in InUseUpTo(bs, n - 1) \cup (IF c.free THEN {} ELSE {c}) : x \in InUseUpTo(bs, n)
    BY <1>2 DEF InUseUpTo
  <2> QED BY <2>1, <2>2
<1>8. new \in Seq(BlockT) /\ new # << >> /\ Apart(new) /\ Spaced(new) /\ Aligned(new)
  BY <1>5 DEF Joined
<1>9. Units(new) = UnitsUpTo(bs, n) /\ InUse(new) = InUseUpTo(bs, n)
  BY <1>5, <1>6, <1>7 DEF Joined, Merged
<1> QED BY <1>8, <1>9 DEF Merged, new

LEMMA CoalescedMerges ==
  ASSUME NEW bs \in Seq(BlockT), bs # << >>, Apart(bs), Aligned(bs)
  PROVE  /\ Coalesced(bs) \in Seq(BlockT) /\ Coalesced(bs) # << >>
         /\ Units(Coalesced(bs)) = Units(bs) /\ Apart(Coalesced(bs)) /\ Spaced(Coalesced(bs))
         /\ Aligned(Coalesced(bs)) /\ InUse(Coalesced(bs)) = InUse(bs)
<1> DEFINE N == Len(bs)
           Solves(f) == f = [n \in 0 .. N |-> IF n = 0 THEN << >> ELSE Join(f[n - 1], bs[n])]
           u == CHOOSE f : Solves(f)
<1>1. N \in Nat \ {0} /\ DOMAIN bs = 1 .. N
  BY LenProperties, EmptySeq
<1>2. Solves(u)
  BY CoalescedExists
<1>3. Coalesced(bs) = u[N]
  BY DEF Coalesced
<1> HIDE DEF u
<1>4. u[0] = << >> /\ \A n \in 1 .. N : u[n] = Join(u[n - 1], bs[n])
  <2>1. \A n \in 0 .. N : u[n] = IF n = 0 THEN << >> ELSE Join(u[n - 1], bs[n])
    BY <1>2
  <2>2. 0 \in 0 .. N /\ \A n \in 1 .. N : n \in 0 .. N /\ n # 0
    BY <1>1
  <2> HIDE DEF N
  <2> QED BY <2>1, <2>2
<1> DEFINE B == {n \in 0 .. N : ~Merged(bs, n, u[n])}
<1>5. ASSUME B # {} PROVE FALSE
  <2>1. B \in SUBSET Nat
    OBVIOUS
  <2>2. PICK n \in B : \A l \in B : n <= l
    <3> HIDE DEF B
    <3> QED BY <1>5, <2>1, Smallest
  <2>3. n \in 0 .. N /\ ~Merged(bs, n, u[n])
    BY <2>2
  <2>4. CASE n = 0
    <3>1. UnitsUpTo(bs, 0) = {} /\ InUseUpTo(bs, 0) = {}
      BY DEF UnitsUpTo, InUseUpTo
    <3>2. Merged(bs, 0, << >>)
      <4>1. ~(0 > 0)
        OBVIOUS
      <4> QED BY <3>1, <4>1, NoBlocks DEF Merged
    <3> QED BY <1>4, <2>3, <2>4, <3>2
  <2>5. CASE n # 0
    <3>1. n - 1 \in 0 .. N /\ n \in 1 .. N /\ ~(n <= n - 1)
      <4> HIDE DEF N
      <4> QED BY <1>1, <2>3, <2>5
    <3>2. n - 1 \notin B
      <4> HIDE DEF B
      <4> QED BY <2>2, <3>1
    <3>3. Merged(bs, n - 1, u[n - 1])
      BY <3>1, <3>2
    <3>4. Merged(bs, n, Join(u[n - 1], bs[n]))
      BY <3>1, <3>3, MergedStep
    <3> QED BY <1>4, <2>3, <3>1, <3>4
  <2> QED BY <2>4, <2>5
<1>6. Merged(bs, N, u[N])
  <2>1. N \in 0 .. N
    BY <1>1
  <2> QED BY <1>5, <2>1
<1>7. UnitsUpTo(bs, N) = Units(bs) /\ InUseUpTo(bs, N) = InUse(bs)
  BY <1>1 DEF UnitsUpTo, InUseUpTo, Units, InUse
<1>8. N > 0
  BY <1>1
<1> HIDE DEF N
<1> QED BY <1>3, <1>6, <1>7, <1>8 DEF Merged

-----------------------------------------------------------------------------
(* heap_used_os: the sizes of the blocks in use add up to the number of    *)
(* units behind their headers.                                             *)

Data(b) == (b.addr + Hdr) .. (EndOf(b) - 1)
DataUnits(S) == UNION {Data(b) : b \in S}

LEMMA DataSize ==
  ASSUME NEW b \in BlockT
  PROVE  /\ Data(b) \subseteq Extent(b)
         /\ IsFiniteSet(Data(b)) /\ Cardinality(Data(b)) = b.size
<1>1. b.addr \in Nat /\ b.size \in Nat /\ Hdr \in Nat \ {0}
  BY BlockBounds, ConstantTypes
<1> DEFINE x == b.addr + Hdr
           y == b.addr + Hdr + b.size - 1
<1>2. x \in Int /\ y \in Int /\ (IF x > y THEN 0 ELSE y - x + 1) = b.size
  BY <1>1
<1>3. Data(b) = x .. y
  BY <1>1 DEF Data, EndOf
<1>4. Extent(b) = b.addr .. y
  BY <1>1 DEF Extent, EndOf
<1>5. x .. y \subseteq b.addr .. y
  BY <1>1
<1> HIDE DEF x, y
<1>6. IsFiniteSet(x .. y) /\ Cardinality(x .. y) = IF x > y THEN 0 ELSE y - x + 1
  BY <1>2, FS_Interval
<1> QED BY <1>2, <1>3, <1>4, <1>5, <1>6

LEMMA DataAdds ==
  ASSUME NEW S, NEW b \in BlockT, IsFiniteSet(DataUnits(S)), DataUnits(S) \cap Data(b) = {}
  PROVE  /\ IsFiniteSet(DataUnits(S \cup {b}))
         /\ Cardinality(DataUnits(S \cup {b})) = Cardinality(DataUnits(S)) + b.size
<1>1. DataUnits(S \cup {b}) = DataUnits(S) \cup Data(b)
  BY DEF DataUnits
<1>2. IsFiniteSet(Data(b)) /\ Cardinality(Data(b)) = b.size
  BY DataSize
<1> DEFINE T == DataUnits(S)
           D == Data(b)
<1> HIDE DEF T, D
<1>3. IsFiniteSet(T) /\ IsFiniteSet(D) /\ T \cap D = {}
  BY <1>2 DEF T, D
<1>4. /\ IsFiniteSet(T \cup D)
      /\ Cardinality(T \cup D) = Cardinality(T) + Cardinality(D) - Cardinality(T \cap D)
  BY <1>3, FS_Union
<1>5. Cardinality(T) \in Nat /\ Cardinality(D) \in Nat /\ Cardinality(T \cap D) = 0
  BY <1>3, FS_CardinalityType, FS_EmptySet
<1>6. Cardinality(T \cup D) = Cardinality(T) + Cardinality(D)
  BY <1>4, <1>5
<1> QED BY <1>1, <1>2, <1>4, <1>6 DEF T, D

LEMMA TotalExists ==
  ASSUME blocks \in Seq(BlockT)
  PROVE  \E f : f = [n \in 0 .. Len(blocks) |->
                       IF n = 0 THEN 0
                       ELSE f[n - 1] + (IF blocks[n].free = FALSE THEN blocks[n].size ELSE 0)]
<1> DEFINE N == Len(blocks)
           w(k) == IF blocks[k].free = FALSE THEN blocks[k].size ELSE 0
           step == [k \in 1 .. N |-> [t \in Nat |-> t + w(k)]]
<1>1. N \in Nat /\ \A k \in 1 .. N : blocks[k] \in BlockT
  BY LenProperties
<1>2. \A k \in 1 .. N : w(k) \in Nat
  <2> SUFFICES ASSUME NEW k \in 1 .. N PROVE w(k) \in Nat
    OBVIOUS
  <2>1. blocks[k].size \in Nat
    BY <1>1, BlockBounds
  <2> QED BY <2>1
<1> HIDE DEF w
<1>3. step \in [1 .. N -> [Nat -> Nat]]
  BY <1>2
<1> DEFINE e == 0
           R == Nat
<1> HIDE DEF step, N, e, R
<1>4. PICK f : /\ f \in [0 .. N -> R]
               /\ f = [k \in 0 .. N |-> IF k = 0 THEN e ELSE step[k][f[k - 1]]]
  <2>1. e \in R /\ step \in [1 .. N -> [R -> R]]
    BY <1>3 DEF e, R
  <2> QED BY <1>1, <2>1, StepByStep
<1>5. \A k \in 0 .. N : k # 0 => step[k][f[k - 1]] = f[k - 1] + w(k)
  <2> SUFFICES ASSUME NEW k \in 0 .. N, k # 0 PROVE step[k][f[k - 1]] = f[k - 1] + w(k)
    OBVIOUS
  <2>1. k \in 1 .. N /\ k - 1 \in 0 .. N
    BY <1>1
  <2>2. f[k - 1] \in Nat
    BY <1>4, <2>1 DEF R
  <2> QED BY <2>1, <2>2 DEF step
<1>6. f = [k \in 0 .. N |-> IF k = 0 THEN 0 ELSE f[k - 1] + w(k)]
  BY <1>4, <1>5 DEF e
<1> QED BY <1>6 DEF N, w

LEMMA TotalIsData ==
  ASSUME blocks \in Seq(BlockT), Apart(blocks)
  PROVE  /\ IsFiniteSet(DataUnits(InUse(blocks)))
         /\ Total(FALSE) = Cardinality(DataUnits(InUse(blocks)))
<1> DEFINE N == Len(blocks)
           Solves(f) == f = [n \in 0 .. N |->
                               IF n = 0 THEN 0
                               ELSE f[n - 1] + (IF blocks[n].free = FALSE THEN blocks[n].size ELSE 0)]
           u == CHOOSE f : Solves(f)
           S(n) == InUseUpTo(blocks, n)
           Is(n) == IsFiniteSet(DataUnits(S(n))) /\ u[n] = Cardinality(DataUnits(S(n)))
           B == {n \in 0 .. N : ~Is(n)}
<1>1. N \in Nat /\ DOMAIN blocks = 1 .. N /\ \A k \in 1 .. N : blocks[k] \in BlockT
  BY LenProperties
<1>2. Solves(u)
  BY TotalExists
<1>3. Total(FALSE) = u[N]
  BY DEF Total
<1> HIDE DEF u
<1>4. u[0] = 0 /\ \A n \in 1 .. N : u[n] = u[n - 1] + (IF blocks[n].free THEN 0 ELSE blocks[n].size)
  <2>1. \A n \in 0 .. N :
          u[n] = IF n = 0 THEN 0
                 ELSE u[n - 1] + (IF blocks[n].free = FALSE THEN blocks[n].size ELSE 0)
    BY <1>2
  <2>2. 0 \in 0 .. N /\ \A n \in 1 .. N : n \in 0 .. N /\ n # 0
    BY <1>1
  <2>3. \A n \in 1 .. N : (blocks[n].free = FALSE) <=> ~blocks[n].free
    BY <1>1, BlockBounds
  <2> HIDE DEF N
  <2> QED BY <2>1, <2>2, <2>3
<1>5. Is(0)
  <2>1. DataUnits(S(0)) = {}
    BY DEF InUseUpTo, DataUnits
  <2> QED BY <1>4, <2>1, FS_EmptySet
<1>6. ASSUME NEW n \in 1 .. N, Is(n - 1) PROVE Is(n)
  <2> DEFINE b == blocks[n]
             T == S(n - 1)
  <2>1. n - 1 \in 0 .. N /\ 1 .. n = (1 .. (n - 1)) \cup {n} /\ n \notin 1 .. (n - 1)
        /\ 1 .. (n - 1) \subseteq 1 .. N
    BY <1>1
  <2>2. S(n) = T \cup (IF b.free THEN {} ELSE {b})
    <3>1. \A x \in S(n) : x \in T \cup (IF b.free THEN {} ELSE {b})
      BY <2>1 DEF InUseUpTo
    <3>2. \A x \in T \cup (IF b.free THEN {} ELSE {b}) : x \in S(n)
      BY <2>1 DEF InUseUpTo
    <3> QED BY <3>1, <3>2
  <2>3. b \in BlockT /\ u[n] = u[n - 1] + (IF b.free THEN 0 ELSE b.size)
    BY <1>1, <1>4
  <2>4. CASE b.free
    <3>1. S(n) = T
      BY <2>2, <2>4
    <3>2. u[n - 1] \in Int
      BY <1>6, FS_CardinalityType
    <3>3. u[n] = u[n - 1]
      BY <2>3, <2>4, <3>2
    <3> QED BY <1>6, <3>1, <3>3
  <2>5. CASE ~b.free
    <3>1. S(n) = T \cup {b}
      BY <2>2, <2>5
    <3>2. DataUnits(T) \cap Data(b) = {}
      <4>1. \A k \in 1 .. (n - 1) : Extent(blocks[k]) \cap Extent(b) = {}
        <5>1. \A k \in 1 .. (n - 1) : k \in DOMAIN blocks /\ n \in DOMAIN blocks /\ k # n
          BY <1>1, <2>1
        <5> QED BY <5>1 DEF Apart
      <4>2. \A k \in 1 .. (n - 1) : Data(blocks[k]) \subseteq Extent(blocks[k])
        BY <1>1, <2>1, DataSize
      <4>3. Data(b) \subseteq Extent(b)
        BY <2>3, DataSize
      <4>4. \A k \in 1 .. (n - 1) : Data(blocks[k]) \cap Data(b) = {}
        BY <4>1, <4>2, <4>3
      <4>5. \A x \in T : \E k \in 1 .. (n - 1) : x = blocks[k]
        BY DEF InUseUpTo
      <4> HIDE DEF T, b
      <4>6. \A x \in T : Data(x) \cap Data(b) = {}
        BY <4>4, <4>5
      <4> QED BY <4>6 DEF DataUnits
    <3> HIDE DEF T, b
    <3>3. IsFiniteSet(DataUnits(T)) /\ u[n - 1] = Cardinality(DataUnits(T))
      BY <1>6 DEF T
    <3>4. /\ IsFiniteSet(DataUnits(T \cup {b}))
          /\ Cardinality(DataUnits(T \cup {b})) = Cardinality(DataUnits(T)) + b.size
      BY <2>3, <3>2, <3>3, DataAdds
    <3> QED BY <2>3, <2>5, <3>1, <3>3, <3>4
  <2> QED BY <2>4, <2>5
<1>7. ASSUME B # {} PROVE FALSE
  <2>1. B \in SUBSET Nat
    OBVIOUS
  <2>2. PICK n \in B : \A l \in B : n <= l
    <3> HIDE DEF B
    <3> QED BY <1>7, <2>1, Smallest
  <2>3. n \in 0 .. N /\ ~Is(n)
    BY <2>2
  <2> HIDE DEF Is, N
  <2>4. n \in 1 .. N /\ n - 1 \in 0 .. N /\ ~(n <= n - 1)
    BY <1>1, <1>5, <2>3
  <2>5. n - 1 \notin B
    <3> HIDE DEF B
    <3> QED BY <2>2, <2>4
  <2> QED BY <1>6, <2>3, <2>4, <2>5
<1>8. Is(N)
  <2>1. N \in 0 .. N
    BY <1>1
  <2> HIDE DEF Is
  <2> QED BY <1>7, <2>1
<1>9. S(N) = InUse(blocks)
  BY <1>1 DEF InUseUpTo, InUse
<1> HIDE DEF N
<1> QED BY <1>3, <1>8, <1>9

-----------------------------------------------------------------------------
(* Frames and their units                                                  *)

FrameUnits(F) == UNION {(f * PageSize) .. ((f + 1) * PageSize - 1) : f \in F}

LEMMA UnitOfFrame ==
  ASSUME NEW f \in Nat, NEW p \in Nat
  PROVE  p \in (f * PageSize) .. ((f + 1) * PageSize - 1) <=> p \div PageSize = f
<1>1. PageSize \in Nat \ {0}
  BY ConstantTypes
<1> DEFINE q == p \div PageSize
           r == p % PageSize
<1>2. q \in Nat /\ r \in 0 .. (PageSize - 1) /\ p = PageSize * q + r
  BY <1>1
<1> HIDE DEF q, r
<1>3. (f + 1) * PageSize = f * PageSize + PageSize /\ f * PageSize \in Nat
  BY <1>1
<1>4. CASE q = f
  <2>1. PageSize * q = f * PageSize
    BY <1>1, <1>4
  <2> QED BY <1>1, <1>2, <1>3, <1>4, <2>1 DEF q
<1>5. CASE q < f
  <2>1. PageSize * (q + 1) <= PageSize * f
    <3>1. f - (q + 1) \in Nat
      BY <1>2, <1>5
    <3>2. PageSize * (f - (q + 1)) \in Nat
      BY <1>1, <3>1
    <3>3. PageSize * f = PageSize * (q + 1) + PageSize * (f - (q + 1))
      BY <1>1, <1>2
    <3>4. PageSize * f \in Nat /\ PageSize * (q + 1) \in Nat
      BY <1>1, <1>2
    <3> QED BY <3>2, <3>3, <3>4
  <2>2. PageSize * (q + 1) = PageSize * q + PageSize /\ PageSize * f = f * PageSize
        /\ PageSize * q \in Nat
    BY <1>1, <1>2
  <2>3. p < f * PageSize
    BY <1>1, <1>2, <1>3, <2>1, <2>2
  <2> QED BY <1>3, <1>5, <2>3 DEF q
<1>6. CASE q > f
  <2>1. PageSize * (f + 1) <= PageSize * q
    <3>1. q - (f + 1) \in Nat
      BY <1>2, <1>6
    <3>2. PageSize * (q - (f + 1)) \in Nat
      BY <1>1, <3>1
    <3>3. PageSize * q = PageSize * (f + 1) + PageSize * (q - (f + 1))
      BY <1>1, <1>2
    <3>4. PageSize * q \in Nat /\ PageSize * (f + 1) \in Nat
      BY <1>1, <1>2
    <3> QED BY <3>2, <3>3, <3>4
  <2>2. PageSize * (f + 1) = f * PageSize + PageSize /\ PageSize * q \in Nat
    BY <1>1, <1>2
  <2>3. p >= (f + 1) * PageSize
    BY <1>1, <1>2, <1>3, <2>1, <2>2
  <2> QED BY <1>1, <1>3, <1>6, <2>3 DEF q
<1> QED BY <1>2, <1>4, <1>5, <1>6

LEMMA UnitsOfFrames ==
  ASSUME NEW F \in SUBSET Nat
  PROVE  FrameUnits(F) = {p \in Nat : p \div PageSize \in F}
<1>1. \A f \in F : (f * PageSize) .. ((f + 1) * PageSize - 1) \subseteq Nat
  <2> SUFFICES ASSUME NEW f \in F PROVE (f * PageSize) .. ((f + 1) * PageSize - 1) \subseteq Nat
    OBVIOUS
  <2> DEFINE a == f * PageSize
             b == (f + 1) * PageSize
  <2>1. a \in Nat /\ b \in Nat
    BY FrameBounds
  <2> HIDE DEF a, b
  <2>2. a .. (b - 1) \subseteq Nat
    BY <2>1
  <2> QED BY <2>2 DEF a, b
<1>2. \A p \in FrameUnits(F) : p \in Nat /\ p \div PageSize \in F
  <2> SUFFICES ASSUME NEW f \in F, NEW p \in (f * PageSize) .. ((f + 1) * PageSize - 1)
               PROVE  p \in Nat /\ p \div PageSize \in F
    BY DEF FrameUnits
  <2>1. f \in Nat /\ p \in Nat
    BY <1>1
  <2>2. p \div PageSize = f
    BY <2>1, UnitOfFrame
  <2> QED BY <2>1, <2>2
<1>3. \A p \in Nat : p \div PageSize \in F => p \in FrameUnits(F)
  <2> SUFFICES ASSUME NEW p \in Nat, p \div PageSize \in F PROVE p \in FrameUnits(F)
    OBVIOUS
  <2> DEFINE f == p \div PageSize
  <2>1. f \in F /\ f \in Nat
    OBVIOUS
  <2> HIDE DEF f
  <2>2. p \in (f * PageSize) .. ((f + 1) * PageSize - 1)
    BY <2>1, UnitOfFrame DEF f
  <2> QED BY <2>1, <2>2 DEF FrameUnits
<1> QED BY <1>2, <1>3

\* A run of frames is one range of units.
LEMMA UnitsOfRun ==
  ASSUME NEW s \in Nat, NEW n \in Nat \ {0}
  PROVE  FrameUnits(Window(s, n)) = (s * PageSize) .. (s * PageSize + n * PageSize - 1)
<1>1. PageSize \in Nat \ {0} /\ Window(s, n) \in SUBSET Nat
  BY ConstantTypes DEF Window
<1> DEFINE a == s * PageSize
           z == n * PageSize
<1>2. a \in Nat /\ z \in Nat
  BY <1>1
<1>3. \A p \in Nat : p \div PageSize \in Window(s, n) <=> p \in a .. (a + z - 1)
  <2> SUFFICES ASSUME NEW p \in Nat
               PROVE  p \div PageSize \in Window(s, n) <=> p \in a .. (a + z - 1)
    OBVIOUS
  <2> DEFINE q == p \div PageSize
             r == p % PageSize
  <2>1. q \in Nat /\ r \in 0 .. (PageSize - 1) /\ p = PageSize * q + r
    BY <1>1
  <2> HIDE DEF q, r
  <2>2. ASSUME q < s PROVE p < a
    <3>1. s - (q + 1) \in Nat
      BY <2>1, <2>2
    <3>2. PageSize * (s - (q + 1)) \in Nat
      BY <1>1, <3>1
    <3>3. a = PageSize * (q + 1) + PageSize * (s - (q + 1)) /\ PageSize * (q + 1) = PageSize * q + PageSize
          /\ PageSize * q \in Nat
      BY <1>1, <2>1
    <3> HIDE DEF a
    <3> QED BY <1>1, <1>2, <2>1, <3>2, <3>3
  <2>3. ASSUME q >= s PROVE p >= a
    <3>1. q - s \in Nat
      BY <2>1, <2>3
    <3>2. PageSize * (q - s) \in Nat
      BY <1>1, <3>1
    <3>3. PageSize * q = a + PageSize * (q - s) /\ PageSize * q \in Nat
      BY <1>1, <2>1
    <3> HIDE DEF a
    <3> QED BY <1>1, <1>2, <2>1, <3>2, <3>3
  <2>4. ASSUME q <= s + n - 1 PROVE p <= a + z - 1
    <3>1. s + n - (q + 1) \in Nat
      BY <2>1, <2>4
    <3>2. PageSize * (s + n - (q + 1)) \in Nat
      BY <1>1, <3>1
    <3>3. a + z = PageSize * (q + 1) + PageSize * (s + n - (q + 1))
          /\ PageSize * (q + 1) = PageSize * q + PageSize /\ PageSize * q \in Nat
      BY <1>1, <2>1
    <3> HIDE DEF a, z
    <3> QED BY <1>1, <1>2, <2>1, <3>2, <3>3
  <2>5. ASSUME q > s + n - 1 PROVE p > a + z - 1
    <3>1. q - (s + n) \in Nat
      BY <2>1, <2>5
    <3>2. PageSize * (q - (s + n)) \in Nat
      BY <1>1, <3>1
    <3>3. PageSize * q = (a + z) + PageSize * (q - (s + n)) /\ PageSize * q \in Nat
      BY <1>1, <2>1
    <3> HIDE DEF a, z
    <3> QED BY <1>1, <1>2, <2>1, <3>2, <3>3
  <2>6. q \in Window(s, n) <=> q >= s /\ q <= s + n - 1
    BY <2>1 DEF Window
  <2> HIDE DEF a, z
  <2>7. p \in a .. (a + z - 1) <=> p >= a /\ p <= a + z - 1
    BY <1>2
  <2>8. q >= s \/ q < s
    BY <2>1
  <2>9. q <= s + n - 1 \/ q > s + n - 1
    BY <2>1
  <2>10. q \in Window(s, n) <=> p \in a .. (a + z - 1)
    BY <1>2, <2>1, <2>2, <2>3, <2>4, <2>5, <2>6, <2>7, <2>8, <2>9
  <2> QED BY <2>10 DEF q
<1>4. FrameUnits(Window(s, n)) = {p \in Nat : p \div PageSize \in Window(s, n)}
  BY <1>1, UnitsOfFrames
<1> HIDE DEF a, z
<1>5. \A p \in a .. (a + z - 1) : p \in Nat
  BY <1>2
<1>6. FrameUnits(Window(s, n)) = a .. (a + z - 1)
  BY <1>3, <1>4, <1>5
<1> QED BY <1>6 DEF a, z

-----------------------------------------------------------------------------
(* The heap's invariant                                                    *)

\* What kmalloc gave out and the blocks in use are the same places.
Given(bs, lv) ==
  /\ \A a \in lv : \E b \in InUse(bs) : b.addr + Hdr = a.ptr /\ b.size >= a.len
  /\ \A b \in InUse(bs) : \E a \in lv : a.ptr = b.addr + Hdr
  /\ \A a, c \in lv : a.ptr = c.ptr => a = c

HeapTypes ==
  /\ blocks \in Seq(BlockT) /\ heapUsed \in Int /\ heapFree \in Int /\ heapPages \in Nat
  /\ live \subseteq [ptr : Nat, len : Requests]
\* The frames of the heap are its own.
OwnFrames ==
  /\ \A f \in UNION regions : f \in Frames /\ owners[f] = 1 /\ f \notin singles
  /\ heapPages = Cardinality(UNION regions)
OwnList ==
  /\ Apart(blocks) /\ Spaced(blocks) /\ Aligned(blocks)
  /\ Units(blocks) = FrameUnits(UNION regions)
Charged == heapUsed = Cardinality(DataUnits(InUse(blocks)))

LEMMA FirstFitFits ==
  ASSUME NEW bs \in Seq(BlockT), NEW size, Fit(bs, size) # {}
  PROVE  FirstFit(bs, size) \in DOMAIN bs /\ bs[FirstFit(bs, size)].free
         /\ bs[FirstFit(bs, size)].size >= size
<1> DEFINE T == Fit(bs, size)
<1>1. T \in SUBSET Nat
  BY LenProperties DEF Fit
<1>2. PICK k \in T : \A l \in T : k <= l
  <2>1. T # {}
    OBVIOUS
  <2> HIDE DEF T
  <2> QED BY <1>1, <2>1, Smallest
<1>3. FirstFit(bs, size) \in T
  BY <1>2 DEF FirstFit
<1> QED BY <1>3 DEF Fit

(* heap_try_alloc on any list: no block moves or is lost, and what it      *)
(* gives out was not given out before.                                     *)
LEMMA TryAllocKeeps ==
  ASSUME NEW bs \in Seq(BlockT), Apart(bs), Spaced(bs), Aligned(bs), Given(bs, live),
         NEW room \in Int, NEW len \in Requests, Fit(bs, AlignUp(len)) # {},
         TryAlloc(bs, room, AlignUp(len), len),
         live \subseteq [ptr : Nat, len : Requests],
         heapUsed \in Int, heapUsed = Cardinality(DataUnits(InUse(bs))),
         IsFiniteSet(DataUnits(InUse(bs)))
  PROVE  /\ blocks' \in Seq(BlockT) /\ Apart(blocks') /\ Spaced(blocks') /\ Aligned(blocks')
         /\ Units(blocks') = Units(bs) /\ Given(blocks', live')
         /\ heapUsed' = Cardinality(DataUnits(InUse(blocks')))
         /\ heapFree' \in Int /\ heapUsed' \in Int /\ live' \subseteq [ptr : Nat, len : Requests]
<1> DEFINE size == AlignUp(len)
           k == FirstFit(bs, size)
           b == Split(bs[k], size)[1]
           a == [ptr |-> bs[k].addr + Hdr, len |-> len]
<1>1. len \in Nat /\ size \in Nat /\ size >= len /\ size % Align = 0
  BY AlignUpRounds, MemoryAssumption
<1>2. k \in DOMAIN bs /\ bs[k].free /\ bs[k].size >= size
  BY FirstFitFits
<1>3. Takes(bs, k, size)
  BY <1>1, <1>2 DEF Takes
<1>4. Taken(bs, k, size, blocks', b)
  <2>1. Taken(bs, k, size, Replaced(bs, k, Split(bs[k], size)), b)
    <3> HIDE DEF size, k
    <3> QED BY <1>3, TakenWhole, TakenSplit
  <2>2. blocks' = Replaced(bs, k, Split(bs[k], size))
    BY DEF TryAlloc, Replaced
  <2> QED BY <2>1, <2>2
<1>5. heapFree' = room - b.size /\ heapUsed' = heapUsed + b.size /\ live' = live \cup {a}
  BY DEF TryAlloc, Charge
<1>6. bs[k] \in BlockT /\ bs[k].addr \in Nat
  <2>1. bs[k] \in BlockT
    BY <1>2
  <2> QED BY <2>1, BlockBounds
<1> HIDE DEF k, b, size
<1>7. /\ blocks' \in Seq(BlockT) /\ Units(blocks') = Units(bs)
      /\ Apart(blocks') /\ Spaced(blocks') /\ Aligned(blocks')
      /\ b \in BlockT /\ b.addr = bs[k].addr /\ ~b.free /\ b.size >= size
      /\ InUse(blocks') = InUse(bs) \cup {b}
  BY <1>4 DEF Taken
<1>8. ASSUME NEW c \in InUse(bs) PROVE c \in BlockT /\ c.addr # b.addr
  <2>1. PICK l \in DOMAIN bs : ~bs[l].free /\ c = bs[l]
    BY DEF InUse
  <2>2. bs[l].addr # bs[k].addr
    BY <1>2, <2>1, SameAddr
  <2> QED BY <1>7, <2>1, <2>2
<1>9. DataUnits(InUse(bs)) \cap Data(b) = {}
  <2> SUFFICES ASSUME NEW c \in InUse(bs) PROVE Data(c) \cap Data(b) = {}
    BY DEF DataUnits
  <2>1. c \in InUse(blocks') /\ b \in InUse(blocks') /\ c # b
    BY <1>7, <1>8
  <2>2. PICK l \in DOMAIN blocks' : blocks'[l] = c
    BY <2>1 DEF InUse
  <2>3. PICK m \in DOMAIN blocks' : blocks'[m] = b
    BY <2>1 DEF InUse
  <2>4. Extent(c) \cap Extent(b) = {}
    BY <1>7, <2>1, <2>2, <2>3 DEF Apart
  <2>5. Data(c) \subseteq Extent(c) /\ Data(b) \subseteq Extent(b)
    BY <1>7, <1>8, DataSize
  <2> QED BY <2>4, <2>5
<1>10. heapUsed' = Cardinality(DataUnits(InUse(blocks')))
  BY <1>5, <1>7, <1>9, DataAdds
<1>11. Hdr \in Nat
  BY ConstantTypes
<1>12. a \in [ptr : Nat, len : Requests] /\ a.ptr = b.addr + Hdr /\ a.len = len
  BY <1>6, <1>7, <1>11
<1> HIDE DEF a
<1>13. \A c \in live : c.ptr # a.ptr
  <2> SUFFICES ASSUME NEW c \in live PROVE c.ptr # a.ptr
    OBVIOUS
  <2>1. PICK d \in InUse(bs) : d.addr + Hdr = c.ptr
    BY DEF Given
  <2>2. d.addr \in Nat /\ b.addr \in Nat /\ d.addr # b.addr
    BY <1>6, <1>7, <1>8, BlockBounds
  <2> QED BY <1>11, <1>12, <2>1, <2>2
<1>14. Given(blocks', live')
  <2>1. \A c \in live' : \E d \in InUse(blocks') : d.addr + Hdr = c.ptr /\ d.size >= c.len
    <3>1. \A c \in live : \E d \in InUse(blocks') : d.addr + Hdr = c.ptr /\ d.size >= c.len
      BY <1>7 DEF Given
    <3>2. b.size >= len
      BY <1>1, <1>7, BlockBounds
    <3> QED BY <1>5, <1>7, <1>12, <3>1, <3>2
  <2>2. \A d \in InUse(blocks') : \E c \in live' : c.ptr = d.addr + Hdr
    BY <1>5, <1>7, <1>12 DEF Given
  <2>3. \A c, d \in live' : c.ptr = d.ptr => c = d
    BY <1>5, <1>13 DEF Given
  <2> QED BY <2>1, <2>2, <2>3 DEF Given
<1>15. heapFree' \in Int /\ heapUsed' \in Int /\ live' \subseteq [ptr : Nat, len : Requests]
  <2>1. b.size \in Nat
    BY <1>7, BlockBounds
  <2> QED BY <1>5, <1>12, <2>1
<1> QED BY <1>7, <1>10, <1>14, <1>15

HeapOwn ==
  HeapTypes /\ OwnFrames /\ OwnList /\ Given(blocks, live) /\ Charged /\ starved = FALSE
HeapInd == MemInd /\ HeapOwn

(* The frames of a new run are nobody's, so the heap's and the run's never *)
(* mix.                                                                    *)
LEMMA NewRun ==
  ASSUME MemInd, OwnFrames, NEW s, NEW n \in Nat \ {0}, AllocRun(s, n)
  PROVE  /\ s \in Nat /\ Window(s, n) \subseteq Frames /\ Frames' = Frames
         /\ (UNION regions) \cap Window(s, n) = {} /\ singles \cap Window(s, n) = {}
         /\ \A f \in Window(s, n) : owners'[f] = 1
         /\ \A f \in Frames \ Window(s, n) : owners'[f] = owners[f]
         /\ IsFiniteSet(Window(s, n)) /\ Cardinality(Window(s, n)) = n
<1>1. /\ PmmTypeOK /\ owners \in [Frames -> Int] /\ nframes \in Nat
      /\ \A f \in Frames : owners[f] \in {0, 1}
      /\ \A f \in Frames : owners[f] = 1 => f \in used
  BY DEF MemInd, PmmInd, PmmTypeOK, OneHolder
<1>2. /\ s \in Frames /\ \A f \in Window(s, n) : f \in Frames /\ f \notin used
      /\ owners' = [f \in Frames |-> IF f \in Window(s, n) THEN owners[f] + 1 ELSE owners[f]]
      /\ nframes' = nframes
  BY DEF AllocRun, Fits, IsFree, HandOut
<1>3. s \in Nat /\ Frames' = Frames
  BY <1>1, <1>2 DEF Frames
<1>4. (UNION regions) \cap Window(s, n) = {}
  <2>1. \A f \in UNION regions : f \in Frames /\ owners[f] = 1
    BY DEF OwnFrames
  <2>2. \A f \in UNION regions : f \in used
    BY <1>1, <2>1
  <2>3. \A f \in Window(s, n) : f \notin used
    BY <1>2
  <2> DEFINE F == UNION regions
             W == Window(s, n)
  <2> HIDE DEF F, W
  <2>4. F \cap W = {}
    BY <2>2, <2>3 DEF F, W
  <2> QED BY <2>4 DEF F, W
<1>5. singles \cap Window(s, n) = {}
  BY <1>1, <1>2 DEF MemInd, SinglesHeld
<1>6. ASSUME NEW f \in Window(s, n) PROVE owners'[f] = 1
  <2>1. f \in Frames /\ owners[f] = 0
    BY <1>1, <1>2
  <2> QED BY <1>2, <2>1
<1>7. \A f \in Frames \ Window(s, n) : owners'[f] = owners[f]
  BY <1>2
<1>8. IsFiniteSet(Window(s, n)) /\ Cardinality(Window(s, n)) = n
  <2> DEFINE t == s + n - 1
  <2>1. s \in Int /\ t \in Int /\ (IF s > t THEN 0 ELSE t - s + 1) = n
    BY <1>3
  <2>2. Window(s, n) = s .. t
    BY DEF Window
  <2> HIDE DEF t
  <2>3. IsFiniteSet(s .. t) /\ Cardinality(s .. t) = IF s > t THEN 0 ELSE t - s + 1
    BY <2>1, FS_Interval
  <2> QED BY <2>1, <2>2, <2>3
<1> QED BY <1>2, <1>3, <1>4, <1>5, <1>6, <1>7, <1>8

\* The block that a new run becomes.
LEMMA FreshBlock ==
  ASSUME NEW s \in Nat, NEW n \in Nat \ {0}
  PROVE  LET c == Block(s * PageSize, n * PageSize - Hdr, TRUE)
         IN  /\ c \in BlockT /\ c.free /\ c.addr = s * PageSize
             /\ c.size = n * PageSize - Hdr /\ (c.addr + Hdr) % Align = 0
             /\ Extent(c) = FrameUnits(Window(s, n))
<1> DEFINE a == s * PageSize
           z == n * PageSize
           c == Block(a, z - Hdr, TRUE)
<1>1. PageSize \in Nat \ {0} /\ Hdr \in Nat \ {0} /\ Hdr < PageSize
  BY ConstantTypes
<1>2. a \in Nat /\ z \in Nat /\ z > Hdr
  <2>1. n - 1 \in Nat
    OBVIOUS
  <2>2. (n - 1) * PageSize \in Nat /\ z = (n - 1) * PageSize + PageSize
    BY <1>1, <2>1
  <2>3. a \in Nat
    BY <1>1
  <2> DEFINE y == (n - 1) * PageSize
  <2> HIDE DEF a, z, y
  <2>4. y \in Nat /\ z = y + PageSize
    BY <2>2 DEF y
  <2> QED BY <1>1, <2>3, <2>4
<1>3. a % Align = 0
  BY AlignedProduct
<1>4. FrameUnits(Window(s, n)) = a .. (a + z - 1)
  BY UnitsOfRun
<1> HIDE DEF a, z
<1>5. c \in BlockT /\ c.free /\ c.addr = a /\ c.size = z - Hdr
  BY <1>1, <1>2 DEF Block, BlockT
<1> HIDE DEF c
<1>6. (a + Hdr) % Align = 0
  <2>1. Hdr % Align = 0 /\ Hdr \in Nat
    BY <1>1, MemoryAssumption
  <2> QED BY <1>2, <1>3, <2>1, AlignedSum
<1>7. Extent(c) = a .. (a + z - 1)
  <2>1. EndOf(c) = a + Hdr + (z - Hdr)
    BY <1>5 DEF EndOf
  <2>2. EndOf(c) = a + z
    BY <1>1, <1>2, <2>1
  <2> QED BY <1>2, <1>5, <2>2 DEF Extent
<1> QED BY <1>4, <1>5, <1>6, <1>7 DEF a, z, c

\* heap_expand asks for enough frames for a header and the request.
LEMMA PagesSuffice ==
  ASSUME NEW size \in Nat
  PROVE  PagesFor(size) \in Nat \ {0} /\ PagesFor(size) * PageSize - Hdr >= size
<1> DEFINE m == size + Hdr + PageSize - 1
           q == m \div PageSize
           r == m % PageSize
<1>1. PageSize \in Nat \ {0} /\ Hdr \in Nat \ {0} /\ GrowPages \in Nat
  BY ConstantTypes
<1>2. m \in Nat
  BY <1>1
<1>3. q \in Nat /\ r \in 0 .. (PageSize - 1) /\ m = PageSize * q + r
  <2> HIDE DEF m
  <2> QED BY <1>1, <1>2
<1> DEFINE n == PagesFor(size)
<1>4. n \in Nat \ {0} /\ n >= q
  <2>1. n \in Nat \ {0}
    BY PagesPositive
  <2>2. n = IF q < GrowPages THEN GrowPages ELSE q
    BY DEF PagesFor
  <2> HIDE DEF n, q
  <2> QED BY <1>1, <1>3, <2>1, <2>2
<1>5. PageSize * q >= size + Hdr
  <2> DEFINE t == PageSize * q
  <2>1. t \in Nat
    <3> HIDE DEF q
    <3> QED BY <1>1, <1>3
  <2>2. m = size + Hdr + PageSize - 1 /\ m = t + r
    BY <1>3
  <2> HIDE DEF t, m, r
  <2> QED BY <1>1, <1>3, <2>1, <2>2
<1>6. n * PageSize >= PageSize * q
  <2> HIDE DEF n, q
  <2>1. n - q \in Nat
    BY <1>3, <1>4
  <2>2. PageSize * (n - q) \in Nat /\ PageSize * q \in Nat
    BY <1>1, <1>3, <2>1
  <2>3. n * PageSize = PageSize * q + PageSize * (n - q)
    BY <1>1, <1>3, <1>4
  <2> QED BY <2>2, <2>3
<1>7. n * PageSize \in Nat /\ PageSize * q \in Nat
  <2> HIDE DEF n, q
  <2> QED BY <1>1, <1>3, <1>4
<1> DEFINE v == n * PageSize
           w == PageSize * q
<1>8. v - Hdr >= size
  <2> HIDE DEF v, w
  <2>1. v \in Nat /\ w \in Nat /\ v >= w /\ w >= size + Hdr
    BY <1>5, <1>6, <1>7 DEF v, w
  <2> QED BY <1>1, <2>1
<1> QED BY <1>4, <1>8

\* The heap's frames with a new run.
LEMMA FramesGrow ==
  ASSUME MemInd, HeapTypes, OwnFrames, NEW s, NEW n \in Nat \ {0}, AllocRun(s, n),
         regions' = regions \cup {Window(s, n)}, singles' = singles, heapPages' = heapPages + n
  PROVE  /\ OwnFrames' /\ heapPages' \in Nat
         /\ FrameUnits(UNION regions') = FrameUnits(UNION regions) \cup FrameUnits(Window(s, n))
         /\ FrameUnits(UNION regions) \cap FrameUnits(Window(s, n)) = {}
<1>0. /\ Window(s, n) \subseteq Frames /\ Frames' = Frames
      /\ (UNION regions) \cap Window(s, n) = {} /\ singles \cap Window(s, n) = {}
      /\ \A f \in Window(s, n) : owners'[f] = 1
      /\ \A f \in Frames \ Window(s, n) : owners'[f] = owners[f]
      /\ Cardinality(Window(s, n)) = n
  BY NewRun
<1> DEFINE F == UNION regions
           W == Window(s, n)
<1>1. /\ W \subseteq Frames /\ Frames' = Frames /\ F \cap W = {} /\ singles \cap W = {}
      /\ \A f \in W : owners'[f] = 1
      /\ \A f \in Frames \ W : owners'[f] = owners[f]
      /\ Cardinality(W) = n
  BY <1>0
<1>2. \A f \in F : f \in Frames /\ owners[f] = 1 /\ f \notin singles
  BY DEF OwnFrames
<1>3. heapPages = Cardinality(F) /\ heapPages \in Nat
  BY DEF OwnFrames, HeapTypes
<1>4. nframes \in Nat /\ F \in SUBSET Frames /\ W \in SUBSET Frames
  BY <1>1, <1>2 DEF MemInd, PmmInd, PmmTypeOK
<1>5. UNION regions' = F \cup W
  OBVIOUS
<1> HIDE DEF F, W
<1>6. Cardinality(F \cup W) = Cardinality(F) + Cardinality(W)
  BY <1>1, <1>4, Disjoint DEF Frames
<1>7. OwnFrames'
  <2>1. \A f \in F \cup W : f \in Frames' /\ owners'[f] = 1 /\ f \notin singles'
    BY <1>1, <1>2
  <2>2. heapPages' = Cardinality(F \cup W)
    BY <1>1, <1>3, <1>6
  <2> QED BY <1>5, <2>1, <2>2 DEF OwnFrames
<1>8. FrameUnits(F \cup W) = FrameUnits(F) \cup FrameUnits(W)
  BY DEF FrameUnits
<1>9. FrameUnits(F) \cap FrameUnits(W) = {}
  <2>1. F \in SUBSET Nat /\ W \in SUBSET Nat
    BY <1>4 DEF Frames
  <2>2. FrameUnits(F) = {p \in Nat : p \div PageSize \in F}
        /\ FrameUnits(W) = {p \in Nat : p \div PageSize \in W}
    BY <2>1, UnitsOfFrames
  <2> QED BY <1>1, <2>2
<1>10. heapPages' \in Nat
  BY <1>3
<1> QED BY <1>5, <1>7, <1>8, <1>9, <1>10 DEF F, W

-----------------------------------------------------------------------------
(* Each action keeps the heap's invariant.                                 *)

LEMMA InitKeeps ==
  ASSUME HeapInd, HeapInit
  PROVE  HeapOwn'
<1>1. MemInd /\ HeapTypes /\ OwnFrames /\ Given(blocks, live)
  BY DEF HeapInd, HeapOwn
<1> DEFINE n == InitialPages
<1>2. PICK s \in Frames :
        /\ AllocRun(s, n)
        /\ blocks' = <<Block(s * PageSize, n * PageSize - Hdr, TRUE)>>
        /\ regions' = {Window(s, n)}
  BY DEF HeapInit
<1>3. /\ blocks = << >> /\ heapPages' = n /\ heapUsed' = 0 /\ heapFree' = n * PageSize - Hdr
      /\ live' = live /\ singles' = singles /\ starved' = starved
  BY DEF HeapInit
<1>4. n \in Nat \ {0} /\ Hdr \in Nat /\ PageSize \in Nat
  BY ConstantTypes
<1> DEFINE c == Block(s * PageSize, n * PageSize - Hdr, TRUE)
<1>5. /\ s \in Nat /\ Window(s, n) \subseteq Frames /\ Frames' = Frames
      /\ singles \cap Window(s, n) = {}
      /\ \A f \in Window(s, n) : owners'[f] = 1
      /\ Cardinality(Window(s, n)) = n
  BY <1>1, <1>2, <1>4, NewRun
<1>6. /\ c \in BlockT /\ c.free /\ (c.addr + Hdr) % Align = 0
      /\ Extent(c) = FrameUnits(Window(s, n))
  BY <1>4, <1>5, FreshBlock
<1>7. blocks' = <<c>>
  BY <1>2
<1> HIDE DEF c
<1>8. blocks' = Join(<< >>, c)
  BY <1>7 DEF Join
<1>9. Joined(<< >>, c, blocks')
  <2>1. Joinable(<< >>, c)
    BY <1>6, NoBlocks DEF Joinable
  <2> QED BY <1>8, <2>1, JoinKeeps
<1>10. /\ blocks' \in Seq(BlockT) /\ Units(blocks') = Extent(c)
       /\ Apart(blocks') /\ Spaced(blocks') /\ Aligned(blocks') /\ InUse(blocks') = {}
  BY <1>6, <1>9, NoBlocks DEF Joined
<1>11. UNION regions' = Window(s, n)
  BY <1>2
<1>12. OwnList'
  BY <1>6, <1>10, <1>11 DEF OwnList
<1>13. OwnFrames'
  BY <1>3, <1>5, <1>11 DEF OwnFrames
<1>14. HeapTypes'
  <2>1. n * PageSize - Hdr \in Int
    BY <1>4
  <2> QED BY <1>1, <1>3, <1>4, <1>10, <2>1 DEF HeapTypes
<1>15. live = {}
  BY <1>1, <1>3, NoBlocks DEF Given
<1>16. Given(blocks', live')
  BY <1>3, <1>10, <1>15 DEF Given
<1>17. Charged'
  <2>1. DataUnits({}) = {}
    BY DEF DataUnits
  <2> QED BY <1>3, <1>10, <2>1, FS_EmptySet DEF Charged
<1> QED BY <1>3, <1>12, <1>13, <1>14, <1>16, <1>17 DEF HeapInd, HeapOwn

LEMMA KmallocKeeps ==
  ASSUME HeapInd, NEW len \in Requests, Kmalloc(len)
  PROVE  HeapOwn'
<1>1. /\ HeapTypes /\ OwnFrames /\ OwnList /\ Given(blocks, live) /\ Charged /\ starved = FALSE
      /\ MemInd
  BY DEF HeapInd, HeapOwn
<1>2. /\ blocks \in Seq(BlockT) /\ Apart(blocks) /\ Spaced(blocks) /\ Aligned(blocks)
      /\ heapFree \in Int /\ live \subseteq [ptr : Nat, len : Requests] /\ heapPages \in Nat
      /\ heapUsed \in Int /\ Units(blocks) = FrameUnits(UNION regions)
      /\ heapUsed = Cardinality(DataUnits(InUse(blocks)))
  BY <1>1 DEF HeapTypes, OwnList, Charged
<1>3. /\ Fit(blocks, AlignUp(len)) # {} /\ TryAlloc(blocks, heapFree, AlignUp(len), len)
      /\ UNCHANGED <<pmmVars, heapPages, regions, singles, starved>>
  BY DEF Kmalloc
<1>4. IsFiniteSet(DataUnits(InUse(blocks)))
  BY <1>2, TotalIsData
<1>5. /\ blocks' \in Seq(BlockT) /\ Apart(blocks') /\ Spaced(blocks') /\ Aligned(blocks')
      /\ Units(blocks') = Units(blocks) /\ Given(blocks', live')
      /\ heapUsed' = Cardinality(DataUnits(InUse(blocks')))
      /\ heapFree' \in Int /\ heapUsed' \in Int /\ live' \subseteq [ptr : Nat, len : Requests]
  BY <1>1, <1>2, <1>3, <1>4, TryAllocKeeps
<1>6. OwnFrames'
  BY <1>1, <1>3 DEF OwnFrames, pmmVars, Frames
<1>7. HeapTypes' /\ OwnList' /\ Charged'
  BY <1>2, <1>3, <1>5 DEF HeapTypes, OwnList, Charged
<1> QED BY <1>1, <1>3, <1>5, <1>6, <1>7 DEF HeapOwn

LEMMA GrowKeeps ==
  ASSUME HeapInd, NEW len \in Requests, KmallocGrows(len)
  PROVE  HeapOwn'
<1>1. /\ HeapTypes /\ OwnFrames /\ OwnList /\ Given(blocks, live) /\ Charged /\ starved = FALSE
      /\ MemInd
  BY DEF HeapInd, HeapOwn
<1>2. /\ blocks \in Seq(BlockT) /\ Apart(blocks) /\ Spaced(blocks) /\ Aligned(blocks)
      /\ heapFree \in Int /\ live \subseteq [ptr : Nat, len : Requests] /\ heapPages \in Nat
      /\ heapUsed \in Int /\ Units(blocks) = FrameUnits(UNION regions)
      /\ heapUsed = Cardinality(DataUnits(InUse(blocks)))
  BY <1>1 DEF HeapTypes, OwnList, Charged
<1> DEFINE size == AlignUp(len)
           n == PagesFor(size)
           Free(s) == heapFree + n * PageSize - (IF JoinsTail(s * PageSize) THEN 0 ELSE Hdr)
<1>3. blocks # << >> /\ singles' = singles
  BY DEF KmallocGrows
<1>4. PICK s \in Frames :
        LET grown == Appended(s * PageSize, n * PageSize)
        IN  /\ AllocRun(s, n)
            /\ heapPages' = heapPages + n
            /\ regions' = regions \cup {Window(s, n)}
            /\ IF Fit(grown, size) # {}
                 THEN TryAlloc(grown, Free(s), size, len) /\ UNCHANGED starved
                 ELSE /\ starved' = TRUE
                      /\ blocks' = grown /\ heapFree' = Free(s)
                      /\ UNCHANGED <<heapUsed, live>>
  BY DEF KmallocGrows
<1>5. size \in Nat
  BY AlignedIsNat
<1>6. n \in Nat \ {0} /\ n * PageSize - Hdr >= size /\ n * PageSize \in Nat /\ Hdr \in Nat
  <2>1. n \in Nat \ {0} /\ n * PageSize - Hdr >= size
    BY <1>5, PagesSuffice
  <2>2. PageSize \in Nat /\ Hdr \in Nat
    BY ConstantTypes
  <2> HIDE DEF n, size
  <2> QED BY <2>1, <2>2
<1> DEFINE grown == Appended(s * PageSize, n * PageSize)
           c == Block(s * PageSize, n * PageSize - Hdr, TRUE)
           room == Free(s)
<1>7. /\ AllocRun(s, n) /\ heapPages' = heapPages + n /\ regions' = regions \cup {Window(s, n)}
      /\ Fit(grown, size) # {} => TryAlloc(grown, room, size, len) /\ starved' = starved
  BY <1>4
<1> HIDE DEF n, size
<1>8. room \in Int
  BY <1>2, <1>6
<1> HIDE DEF Free, room
<1>9. s \in Nat
  BY <1>1, <1>6, <1>7, NewRun
<1>10. /\ OwnFrames' /\ heapPages' \in Nat
       /\ FrameUnits(UNION regions') = FrameUnits(UNION regions) \cup FrameUnits(Window(s, n))
       /\ FrameUnits(UNION regions) \cap FrameUnits(Window(s, n)) = {}
  BY <1>1, <1>3, <1>6, <1>7, FramesGrow
<1>11. /\ c \in BlockT /\ c.free /\ c.addr = s * PageSize /\ c.size = n * PageSize - Hdr
       /\ (c.addr + Hdr) % Align = 0 /\ Extent(c) = FrameUnits(Window(s, n))
  BY <1>6, <1>9, FreshBlock
<1>12. grown = Join(blocks, c)
  <2> DEFINE L == Len(blocks)
             bytes == n * PageSize
  <2>1. L \in Nat \ {0} /\ \A l \in 1 .. L : blocks[l] \in BlockT
    BY <1>2, <1>3, LenProperties, EmptySeq
  <2>2. blocks[L] \in BlockT
    BY <2>1
  <2>3. blocks[L].size \in Nat
    BY <2>2, BlockBounds
  <2> HIDE DEF bytes
  <2>4. bytes \in Nat /\ c.size = bytes - Hdr
    BY <1>6, <1>11 DEF bytes
  <2>5. grown = IF JoinsTail(s * PageSize)
                THEN [blocks EXCEPT ![L].size = @ + bytes] ELSE Append(blocks, c)
    BY DEF Appended, bytes
  <2> HIDE DEF c, grown
  <2>6. blocks[L].size + bytes = blocks[L].size + Hdr + c.size
    BY <1>6, <2>3, <2>4
  <2>7. JoinsTail(s * PageSize) <=> Absorbs(blocks[L], c)
    BY <1>11 DEF JoinsTail, Absorbs
  <2>8. [blocks EXCEPT ![L].size = @ + bytes] = [blocks EXCEPT ![L].size = @ + Hdr + c.size]
    BY <2>6
  <2>9. Join(blocks, c) = IF Absorbs(blocks[L], c)
                          THEN [blocks EXCEPT ![L].size = @ + Hdr + c.size] ELSE Append(blocks, c)
    BY <1>3 DEF Join
  <2> QED BY <2>5, <2>7, <2>8, <2>9
<1> HIDE DEF grown, c
<1>13. Joined(blocks, c, grown)
  <2>1. Units(blocks) \cap Extent(c) = {}
    BY <1>2, <1>10, <1>11
  <2>2. Joinable(blocks, c)
    BY <1>2, <1>11, <2>1 DEF Joinable
  <2> QED BY <1>12, <2>2, JoinKeeps
<1>14. /\ grown \in Seq(BlockT) /\ grown # << >> /\ Units(grown) = Units(blocks) \cup Extent(c)
       /\ Apart(grown) /\ Spaced(grown) /\ Aligned(grown) /\ InUse(grown) = InUse(blocks)
       /\ grown[Len(grown)].free /\ grown[Len(grown)].size >= c.size
  BY <1>11, <1>13 DEF Joined
<1>15. Fit(grown, size) # {}
  <2> DEFINE L == Len(grown)
  <2>1. L \in Nat \ {0} /\ DOMAIN grown = 1 .. L /\ \A l \in 1 .. L : grown[l] \in BlockT
    BY <1>14, LenProperties, EmptySeq
  <2> HIDE DEF L
  <2>2. L \in DOMAIN grown /\ grown[L] \in BlockT
    BY <2>1
  <2>3. grown[L].size \in Nat /\ c.size \in Nat
    BY <1>11, <2>2, BlockBounds
  <2>4. grown[L].free /\ grown[L].size >= size
    BY <1>5, <1>6, <1>11, <1>14, <2>3 DEF L
  <2> QED BY <2>2, <2>4 DEF Fit
<1>16. TryAlloc(grown, room, size, len) /\ starved' = starved
  BY <1>7, <1>15
<1>17. Given(grown, live)
  BY <1>1, <1>14 DEF Given
<1>18. IsFiniteSet(DataUnits(InUse(grown))) /\ heapUsed = Cardinality(DataUnits(InUse(grown)))
  <2>1. IsFiniteSet(DataUnits(InUse(blocks)))
    BY <1>2, TotalIsData
  <2> QED BY <1>2, <1>14, <2>1
<1>19. /\ blocks' \in Seq(BlockT) /\ Apart(blocks') /\ Spaced(blocks') /\ Aligned(blocks')
       /\ Units(blocks') = Units(grown) /\ Given(blocks', live')
       /\ heapUsed' = Cardinality(DataUnits(InUse(blocks')))
       /\ heapFree' \in Int /\ heapUsed' \in Int /\ live' \subseteq [ptr : Nat, len : Requests]
  BY <1>2, <1>8, <1>14, <1>15, <1>16, <1>17, <1>18, TryAllocKeeps DEF size
<1>20. Units(blocks') = FrameUnits(UNION regions')
  BY <1>2, <1>10, <1>11, <1>14, <1>19
<1>21. HeapTypes' /\ OwnList' /\ Charged'
  BY <1>10, <1>19, <1>20 DEF HeapTypes, OwnList, Charged
<1> QED BY <1>1, <1>10, <1>16, <1>19, <1>21 DEF HeapOwn

LEMMA KfreeKeeps ==
  ASSUME HeapInd, NEW a \in live, Kfree(a)
  PROVE  HeapOwn'
<1>1. /\ HeapTypes /\ OwnFrames /\ OwnList /\ Given(blocks, live) /\ Charged /\ starved = FALSE
  BY DEF HeapInd, HeapOwn
<1>2. /\ blocks \in Seq(BlockT) /\ Apart(blocks) /\ Aligned(blocks)
      /\ heapFree \in Int /\ live \subseteq [ptr : Nat, len : Requests] /\ heapPages \in Nat
      /\ heapUsed \in Int /\ Units(blocks) = FrameUnits(UNION regions)
      /\ heapUsed = Cardinality(DataUnits(InUse(blocks)))
  BY <1>1 DEF HeapTypes, OwnList, Charged
<1>3. PICK i \in DOMAIN blocks :
        /\ blocks[i].addr = a.ptr - Hdr
        /\ LET freed == [blocks EXCEPT ![i].free = TRUE]
           IN  /\ blocks' = Coalesced(freed)
               /\ heapUsed' = heapUsed - blocks[i].size
               /\ heapFree' = heapFree + blocks[i].size + Hdr * (Len(freed) - Len(Coalesced(freed)))
  BY DEF Kfree
<1>4. live' = live \ {a} /\ UNCHANGED <<pmmVars, heapPages, regions, singles, starved>>
  BY DEF Kfree
<1>5. /\ Len(blocks) \in Nat /\ DOMAIN blocks = 1 .. Len(blocks) /\ i \in 1 .. Len(blocks)
      /\ \A l \in 1 .. Len(blocks) : blocks[l] \in BlockT
  BY <1>2, LenProperties
<1>6. Hdr \in Nat /\ a.ptr \in Nat
  BY <1>2, ConstantTypes
<1> DEFINE b == blocks[i]
           S == InUse(blocks) \ {b}
           d == [b EXCEPT !.free = TRUE]
           freed == [blocks EXCEPT ![i] = d]
           new == Coalesced(freed)
<1>7. b \in BlockT /\ b.addr \in Nat /\ b.size \in Nat /\ b.addr + Hdr = a.ptr
  <2>1. b \in BlockT
    BY <1>5
  <2>2. b.addr \in Nat /\ b.size \in Nat
    BY <2>1, BlockBounds
  <2> QED BY <1>3, <1>6, <2>1, <2>2
<1>8. blocks' = new /\ heapUsed' = heapUsed - b.size
      /\ heapFree' = heapFree + b.size + Hdr * (Len(freed) - Len(new))
  BY <1>3
<1>9. ASSUME NEW x \in InUse(blocks) PROVE x \in BlockT /\ (x.addr = b.addr => x = b)
  <2>1. PICK l \in DOMAIN blocks : ~blocks[l].free /\ x = blocks[l]
    BY DEF InUse
  <2>2. x \in BlockT
    BY <1>5, <2>1
  <2>3. x.addr = b.addr => l = i
    BY <1>2, <2>1, SameAddr
  <2> QED BY <2>1, <2>2, <2>3
<1>10. b \in InUse(blocks)
  <2>1. PICK x \in InUse(blocks) : x.addr + Hdr = a.ptr
    BY <1>1 DEF Given
  <2>2. x.addr \in Nat
    BY <1>9, BlockBounds
  <2>3. x.addr = b.addr
    BY <1>6, <1>7, <2>1, <2>2
  <2> QED BY <1>9, <2>3
<1>11. ~b.free
  <2>1. PICK l \in DOMAIN blocks : ~blocks[l].free /\ b = blocks[l]
    BY <1>10 DEF InUse
  <2> QED BY <2>1
<1>12. d \in BlockT /\ d.addr = b.addr /\ d.size = b.size /\ d.free
  BY <1>7 DEF BlockT
<1> HIDE DEF d
<1>13. /\ freed \in Seq(BlockT) /\ Len(freed) = Len(blocks)
       /\ \A l \in 1 .. Len(blocks) : freed[l] = IF l = i THEN d ELSE blocks[l]
  BY <1>2, <1>5, <1>12, ExceptSeq
<1> HIDE DEF freed, new
<1>14. Units(freed) = Units(blocks) /\ Apart(freed) /\ Aligned(freed)
  <2>1. \A l \in 1 .. Len(blocks) : freed[l].addr = blocks[l].addr /\ freed[l].size = blocks[l].size
    BY <1>12, <1>13
  <2> QED BY <1>2, <1>13, <2>1, SamePlaces
<1>15. DOMAIN freed = 1 .. Len(blocks) /\ freed # << >>
  <2>1. DOMAIN freed = 1 .. Len(blocks)
    BY <1>13, LenProperties
  <2>2. i \in DOMAIN freed
    BY <1>5, <2>1
  <2> QED BY <2>1, <2>2
<1>16. InUse(freed) = S
  <2>1. ASSUME NEW x \in InUse(freed) PROVE x \in S
    <3>1. PICK l \in 1 .. Len(blocks) : ~freed[l].free /\ x = freed[l]
      BY <1>15 DEF InUse
    <3>2. l # i /\ x = blocks[l]
      BY <1>12, <1>13, <3>1
    <3>3. ~blocks[l].free
      BY <3>1, <3>2
    <3>4. x \in InUse(blocks)
      BY <1>5, <3>2, <3>3 DEF InUse
    <3>5. x # b
      <4>1. blocks[l].addr # blocks[i].addr
        BY <1>2, <1>5, <3>2, SameAddr
      <4> QED BY <3>2, <4>1
    <3> QED BY <3>4, <3>5
  <2>2. ASSUME NEW x \in S PROVE x \in InUse(freed)
    <3>1. PICK l \in 1 .. Len(blocks) : ~blocks[l].free /\ x = blocks[l]
      BY <1>5 DEF InUse
    <3>2. l # i
      BY <3>1
    <3>3. freed[l] = x
      BY <1>13, <3>1, <3>2
    <3> QED BY <1>15, <3>1, <3>3 DEF InUse
  <2> HIDE DEF S
  <2> QED BY <2>1, <2>2
<1>17. /\ new \in Seq(BlockT) /\ Units(new) = Units(freed) /\ Apart(new) /\ Spaced(new)
       /\ Aligned(new) /\ InUse(new) = S
  BY <1>13, <1>14, <1>15, <1>16, CoalescedMerges DEF new
<1>18. Given(new, live')
  <2>1. ASSUME NEW c \in live' PROVE \E x \in InUse(new) : x.addr + Hdr = c.ptr /\ x.size >= c.len
    <3>1. c \in live /\ c # a
      BY <1>4
    <3>2. PICK x \in InUse(blocks) : x.addr + Hdr = c.ptr /\ x.size >= c.len
      BY <1>1, <3>1 DEF Given
    <3>3. c.ptr # a.ptr
      BY <1>1, <3>1 DEF Given
    <3>4. x # b
      BY <1>7, <3>2, <3>3
    <3> QED BY <1>17, <3>2, <3>4
  <2>2. ASSUME NEW x \in InUse(new) PROVE \E c \in live' : c.ptr = x.addr + Hdr
    <3>1. x \in InUse(blocks) /\ x # b
      BY <1>17
    <3>2. PICK c \in live : c.ptr = x.addr + Hdr
      BY <1>1, <3>1 DEF Given
    <3>3. x.addr \in Nat /\ x.addr # b.addr
      BY <1>9, <3>1, BlockBounds
    <3>4. c # a
      BY <1>6, <1>7, <3>2, <3>3
    <3> QED BY <1>4, <3>2, <3>4
  <2>3. \A c, x \in live' : c.ptr = x.ptr => c = x
    BY <1>1, <1>4 DEF Given
  <2> QED BY <2>1, <2>2, <2>3 DEF Given
<1>19. heapUsed' = Cardinality(DataUnits(S))
  <2>1. InUse(blocks) = S \cup {b}
    BY <1>10
  <2>2. IsFiniteSet(DataUnits(InUse(blocks)))
    BY <1>2, TotalIsData
  <2>3. DataUnits(S) \subseteq DataUnits(InUse(blocks))
    BY DEF DataUnits
  <2>4. IsFiniteSet(DataUnits(S))
    BY <2>2, <2>3, FS_Subset
  <2>5. DataUnits(S) \cap Data(b) = {}
    <3> SUFFICES ASSUME NEW x \in S PROVE Data(x) \cap Data(b) = {}
      BY DEF DataUnits
    <3>1. PICK l \in DOMAIN blocks : x = blocks[l]
      BY DEF InUse
    <3>2. l # i
      BY <3>1
    <3>3. Extent(x) \cap Extent(b) = {}
      BY <1>2, <3>1, <3>2 DEF Apart
    <3>4. x \in BlockT
      BY <1>9
    <3>5. Data(x) \subseteq Extent(x) /\ Data(b) \subseteq Extent(b)
      BY <1>7, <3>4, DataSize
    <3> QED BY <3>3, <3>5
  <2> HIDE DEF S, b
  <2>6. Cardinality(DataUnits(S \cup {b})) = Cardinality(DataUnits(S)) + b.size
    BY <1>7, <2>4, <2>5, DataAdds
  <2>7. Cardinality(DataUnits(S)) \in Nat
    BY <2>4, FS_CardinalityType
  <2> QED BY <1>2, <1>7, <1>8, <2>1, <2>6, <2>7
<1>20. heapFree' \in Int /\ heapUsed' \in Int
  <2>1. Len(freed) \in Nat /\ Len(new) \in Nat
    BY <1>13, <1>17, LenProperties
  <2> DEFINE g == Len(freed) - Len(new)
  <2>2. g \in Int
    BY <2>1
  <2> HIDE DEF g
  <2>3. Hdr * g \in Int
    BY <1>6, <2>2
  <2>4. heapFree' = heapFree + b.size + Hdr * g
    BY <1>8 DEF g
  <2> QED BY <1>2, <1>7, <1>8, <2>3, <2>4
<1>21. OwnFrames'
  BY <1>1, <1>4 DEF OwnFrames, pmmVars, Frames
<1>22. HeapTypes'
  BY <1>2, <1>4, <1>8, <1>17, <1>20 DEF HeapTypes
<1>23. OwnList' /\ Charged'
  BY <1>2, <1>4, <1>8, <1>14, <1>17, <1>19 DEF OwnList, Charged
<1> QED BY <1>1, <1>4, <1>8, <1>18, <1>21, <1>22, <1>23 DEF HeapOwn

\* What leaves the heap's variables and the owners of its frames alone.
LEMMA OthersKeep ==
  ASSUME HeapInd, UNCHANGED heapVars, Frames' = Frames,
         \A f \in UNION regions : owners'[f] = owners[f] /\ f \notin singles'
  PROVE  HeapOwn'
<1>1. /\ HeapTypes /\ OwnFrames /\ OwnList /\ Given(blocks, live) /\ Charged /\ starved = FALSE
  BY DEF HeapInd, HeapOwn
<1>2. /\ blocks' = blocks /\ heapUsed' = heapUsed /\ heapFree' = heapFree
      /\ heapPages' = heapPages /\ live' = live /\ regions' = regions /\ starved' = starved
  BY DEF heapVars
<1>3. HeapTypes'
  BY <1>1, <1>2 DEF HeapTypes
<1>4. OwnFrames'
  BY <1>1, <1>2 DEF OwnFrames
<1>5. OwnList' /\ Charged'
  BY <1>1, <1>2 DEF OwnList, Charged
<1>6. Given(blocks, live)' /\ starved' = FALSE
  BY <1>1, <1>2
<1> QED BY <1>3, <1>4, <1>5, <1>6 DEF HeapOwn

LEMMA HeapStep ==
  ASSUME HeapInd, [Next]_vars
  PROVE  HeapOwn'
<1>0. /\ MemInd /\ OwnFrames /\ owners \in [Frames -> Int]
      /\ \A f \in UNION regions : f \in Frames /\ owners[f] = 1 /\ f \notin singles
      /\ \A f \in Frames : owners[f] = 1 => f \in used
      /\ \A f \in singles : f \in Frames
  BY DEF HeapInd, HeapOwn, OwnFrames, MemInd, SinglesHeld, PmmInd, PmmTypeOK,
     OneHolder
<1>1. CASE HeapInit
  BY <1>1, InitKeeps
<1>2. ASSUME NEW len \in Requests, Kmalloc(len) PROVE HeapOwn'
  BY <1>2, KmallocKeeps
<1>3. ASSUME NEW len \in Requests, KmallocGrows(len) PROVE HeapOwn'
  BY <1>3, GrowKeeps
<1>4. ASSUME NEW a \in live, Kfree(a) PROVE HeapOwn'
  BY <1>4, KfreeKeeps
<1>5. CASE TakePage
  <2>1. PICK f \in Frames : AllocPage(f) /\ singles' = singles \cup {f}
    BY <1>5 DEF TakePage
  <2>2. /\ owners' = [g \in Frames |-> IF g \in {f} THEN owners[g] + 1 ELSE owners[g]]
        /\ Frames' = Frames /\ f \notin used
    BY <2>1 DEF AllocPage, HandOut, Frames, IsFree
  <2>3. \A g \in UNION regions : g # f
    BY <1>0, <2>2
  <2>4. \A g \in UNION regions : owners'[g] = owners[g] /\ g \notin singles'
    BY <1>0, <2>1, <2>2, <2>3
  <2>5. UNCHANGED heapVars
    BY <1>5 DEF TakePage
  <2> QED BY <2>2, <2>4, <2>5, OthersKeep
<1>6. CASE GivePage
  <2>1. PICK f \in singles : FreePage(f) /\ singles' = singles \ {f}
    BY <1>6 DEF GivePage
  <2>2. owners' = [owners EXCEPT ![f] = owners[f] - 1] /\ Frames' = Frames
    BY <2>1 DEF FreePage, Frames
  <2>3. \A g \in UNION regions : owners'[g] = owners[g] /\ g \notin singles'
    BY <1>0, <2>1, <2>2
  <2>4. UNCHANGED heapVars
    BY <1>6 DEF GivePage
  <2> QED BY <2>2, <2>3, <2>4, OthersKeep
<1>7. CASE TakeLayer
  <2>1. PICK n \in Layers, s \in Frames : AllocRun(s, n)
    BY <1>7 DEF TakeLayer
  <2>2. n \in Nat \ {0} /\ singles' = singles /\ UNCHANGED heapVars
    BY <1>7, MemoryAssumption DEF TakeLayer
  <2>3. /\ Frames' = Frames /\ (UNION regions) \cap Window(s, n) = {}
        /\ \A f \in Frames \ Window(s, n) : owners'[f] = owners[f]
    BY <1>0, <2>1, <2>2, NewRun
  <2>4. \A g \in UNION regions : owners'[g] = owners[g] /\ g \notin singles'
    BY <1>0, <2>2, <2>3
  <2> QED BY <2>2, <2>3, <2>4, OthersKeep
<1>8. CASE BootDone
  <2>1. ReleaseBootInfo /\ UNCHANGED <<heapVars, singles>>
    BY <1>8 DEF BootDone
  <2>2. Frames' = Frames /\ owners' = owners
    BY <2>1 DEF ReleaseBootInfo, Frames
  <2>3. \A g \in UNION regions : owners'[g] = owners[g] /\ g \notin singles'
    BY <1>0, <2>1, <2>2
  <2> QED BY <2>1, <2>2, <2>3, OthersKeep
<1>9. CASE UNCHANGED vars
  <2>1. UNCHANGED heapVars /\ Frames' = Frames /\ owners' = owners /\ singles' = singles
    BY <1>9 DEF vars, pmmVars, heapVars, Frames
  <2>2. \A g \in UNION regions : owners'[g] = owners[g] /\ g \notin singles'
    BY <1>0, <2>1
  <2> QED BY <2>1, <2>2, OthersKeep
<1> QED BY <1>1, <1>2, <1>3, <1>4, <1>5, <1>6, <1>7, <1>8, <1>9 DEF Next

LEMMA HeapAlwaysInd == Spec => []HeapInd
<1>1. Init => HeapOwn
  <2> SUFFICES ASSUME Init PROVE HeapOwn
    OBVIOUS
  <2>1. /\ blocks = << >> /\ heapUsed = 0 /\ heapFree = 0 /\ heapPages = 0
        /\ live = {} /\ regions = {} /\ starved = FALSE
    BY DEF Init
  <2>2. UNION regions = {} /\ FrameUnits({}) = {} /\ DataUnits({}) = {} /\ Cardinality({}) = 0
    BY <2>1, FS_EmptySet DEF FrameUnits, DataUnits
  <2>3. HeapTypes
    BY <2>1, NoBlocks DEF HeapTypes
  <2>4. OwnFrames
    BY <2>1, <2>2 DEF OwnFrames
  <2>5. OwnList
    BY <2>1, <2>2, NoBlocks DEF OwnList
  <2>6. Given(blocks, live)
    BY <2>1, NoBlocks DEF Given
  <2>7. Charged
    BY <2>1, <2>2, NoBlocks DEF Charged
  <2> QED BY <2>1, <2>3, <2>4, <2>5, <2>6, <2>7 DEF HeapOwn
<1>2. MemInd /\ HeapOwn /\ [Next]_vars => HeapOwn'
  BY HeapStep DEF HeapInd
<1>3. Spec => []HeapOwn
  BY <1>1, <1>2, MemAlwaysInd, PTL DEF Spec
<1> QED BY <1>3, MemAlwaysInd, PTL DEF HeapInd

\* The blocks in use and what kmalloc gave out are equally many.
LEMMA AsManyGiven ==
  ASSUME HeapInd
  PROVE  Cardinality({i \in DOMAIN blocks : ~blocks[i].free}) = Cardinality(live)
<1> DEFINE I == {i \in DOMAIN blocks : ~blocks[i].free}
           At(i) == CHOOSE a \in live : a.ptr = blocks[i].addr + Hdr
           f == [i \in I |-> At(i)]
<1>1. /\ blocks \in Seq(BlockT) /\ Apart(blocks) /\ Given(blocks, live)
  BY DEF HeapInd, HeapOwn, HeapTypes, OwnList
<1>2. /\ Len(blocks) \in Nat /\ DOMAIN blocks = 1 .. Len(blocks)
      /\ \A i \in 1 .. Len(blocks) : blocks[i].addr \in Nat
  <2>1. /\ Len(blocks) \in Nat /\ DOMAIN blocks = 1 .. Len(blocks)
        /\ \A i \in 1 .. Len(blocks) : blocks[i] \in BlockT
    BY <1>1, LenProperties
  <2> QED BY <2>1, BlockBounds
<1>3. ASSUME NEW i \in I PROVE At(i) \in live /\ At(i).ptr = blocks[i].addr + Hdr
  <2>1. blocks[i] \in InUse(blocks)
    BY DEF InUse
  <2>2. \E a \in live : a.ptr = blocks[i].addr + Hdr
    BY <1>1, <2>1 DEF Given
  <2> QED BY <2>2
<1> HIDE DEF At
<1>4. f \in [I -> live]
  BY <1>3
<1>5. \A i, j \in I : f[i] = f[j] => i = j
  <2> SUFFICES ASSUME NEW i \in I, NEW j \in I, f[i] = f[j] PROVE i = j
    OBVIOUS
  <2>1. blocks[i].addr + Hdr = blocks[j].addr + Hdr
    BY <1>3
  <2>2. blocks[i].addr = blocks[j].addr
    BY <1>2, <2>1, ConstantTypes
  <2> QED BY <1>1, <2>2, SameAddr
<1>6. ASSUME NEW a \in live PROVE \E i \in I : f[i] = a
  <2>1. PICK b \in InUse(blocks) : b.addr + Hdr = a.ptr
    BY <1>1 DEF Given
  <2>2. PICK i \in I : blocks[i] = b
    BY <2>1 DEF InUse
  <2>3. At(i) \in live /\ At(i).ptr = a.ptr
    BY <1>3, <2>1, <2>2
  <2>4. At(i) = a
    BY <1>1, <2>3 DEF Given
  <2> QED BY <2>4
<1>7. IsFiniteSet(I)
  <2>1. I \subseteq 1 .. Len(blocks)
    BY <1>2
  <2>2. 1 \in Int /\ Len(blocks) \in Int
    BY <1>2
  <2>3. IsFiniteSet(1 .. Len(blocks))
    BY <2>2, FS_Interval
  <2> HIDE DEF I
  <2> QED BY <2>1, <2>3, FS_Subset
<1> HIDE DEF I, f
<1>8. f \in Bijection(I, live)
  BY <1>4, <1>5, <1>6, Fun_IsBij
<1>9. ExistsBijection(I, live)
  BY <1>8 DEF ExistsBijection
<1> QED BY <1>7, <1>9, FS_Bijection DEF I

(* In every reachable state the heap's list covers its frames exactly, in  *)
(* blocks that do not overlap; each address kmalloc gave out and kfree did *)
(* not take back is aligned and has a block in use of the length asked for,*)
(* free neighbours are merged, heap_used_os is exact, and new frames are   *)
(* always enough for the request they were fetched for (heap.c).           *)
THEOREM HeapStaysSound == Spec => []HeapSound
<1>1. HeapInd => HeapSound
  <2> SUFFICES ASSUME HeapInd PROVE HeapSound
    OBVIOUS
  <2>1. /\ MemInd /\ HeapTypes /\ OwnFrames /\ OwnList /\ Given(blocks, live) /\ Charged
        /\ starved = FALSE
    BY DEF HeapInd, HeapOwn
  <2>2. /\ blocks \in Seq(BlockT) /\ Apart(blocks) /\ Spaced(blocks) /\ Aligned(blocks)
        /\ Units(blocks) = FrameUnits(UNION regions)
    BY <2>1 DEF HeapTypes, OwnList
  <2>3. TypeOK
    <3>1. PmmTypeOK /\ singles \subseteq Frames
      BY <2>1 DEF MemInd, PmmInd, SinglesHeld
    <3> QED BY <2>1, <3>1 DEF TypeOK, HeapTypes, BlockT
  <2>4. HeapTiled
    BY <2>1, <2>2 DEF HeapTiled, OwnFrames, Units, FrameUnits, Apart
  <2>5. LiveIntact
    <3> SUFFICES ASSUME NEW a \in live
                 PROVE  \E i \in DOMAIN blocks :
                          /\ blocks[i].addr + Hdr = a.ptr /\ ~blocks[i].free
                          /\ blocks[i].size >= a.len /\ a.ptr % Align = 0
      BY AsManyGiven DEF LiveIntact
    <3>1. PICK b \in InUse(blocks) : b.addr + Hdr = a.ptr /\ b.size >= a.len
      BY <2>1 DEF Given
    <3>2. PICK i \in DOMAIN blocks : ~blocks[i].free /\ b = blocks[i]
      BY <3>1 DEF InUse
    <3>3. a.ptr % Align = 0
      BY <2>2, <3>1, <3>2 DEF Aligned
    <3> QED BY <3>1, <3>2, <3>3
  <2>6. NoFreeNeighbours
    BY <2>2 DEF Spaced, NoFreeNeighbours
  <2>7. HeapUsedExact
    BY <2>1, <2>2, TotalIsData DEF Charged, HeapUsedExact
  <2>8. ExpandSuffices
    BY <2>1 DEF ExpandSuffices
  <2> QED BY <2>3, <2>4, <2>5, <2>6, <2>7, <2>8 DEF HeapSound
<1> QED BY <1>1, HeapAlwaysInd, PTL

(* With the heap and the other holders at work, every frame given out is   *)
(* wholly memory, and a run is the lowest there is.                        *)
THEOREM MemoryFramesGood == Spec => []FramesGood
BY MemoryImplementsPmm, PmmFramesGood, PTL

-----------------------------------------------------------------------------
(***************************************************************************)
(* The window of user addresses (User)                                     *)

(* Frames are free, under a user page, or in a page table.                 *)
Weight(m) == m.free + Cardinality(UserPages(m)) + Cardinality(m.tables)

PagesKnown ==
  ~panic => UserPages(Mem) = tracked \cup mmaps /\ tracked \cap mmaps = {}

(* The window has one owner; its number is in use, and each number was     *)
(* given out by a call of its own.                                         *)
OneOwner ==
  /\ \A s, r \in 1..Slots : Live(s) /\ Live(r) => s = r
  /\ \A s \in 1..Slots : Live(s) => tasks[s].pid \in 1..nextPid - 1
  /\ nextPid <= calls + 1

UserInv ==
  /\ UserTypeOK /\ Weight(Mem) = RamFrames /\ PagesKnown
  /\ OneOwner /\ OneImage /\ FdsOwned

(* The memory part way through a call. *)
MemStates == [map: [UserWindow -> {"none", "user", "kernel"}],
              tables: SUBSET (0..Pages \div Tables), free: Nat, panic: BOOLEAN]

LEMMA PageTable ==
  ASSUME NEW p \in UserWindow
  PROVE  p \div Tables \in 0..Pages \div Tables /\ Pages \div Tables \in Nat
<1>1. Pages \in Nat /\ Tables \in Nat \ {0} /\ p \in 0..Pages - 1
  BY UserAssumption DEF UserWindow
<1>2. PICK q \in Nat : q = p \div Tables
  BY <1>1
<1>3. PICK t \in Nat : t = Pages \div Tables
  BY <1>1
<1>4. q * Tables <= p /\ Pages < (t + 1) * Tables
  BY <1>1, <1>2, <1>3
<1>5. q < t + 1
  <2>1. SUFFICES ASSUME q >= t + 1 PROVE FALSE
    OBVIOUS
  <2>2. q * Tables >= (t + 1) * Tables
    BY <1>1, <2>1
  <2>3. q * Tables \in Nat /\ (t + 1) * Tables \in Nat
    BY <1>1
  <2> QED BY <1>1, <1>4, <2>2, <2>3
<1> QED BY <1>2, <1>3, <1>5

LEMMA WindowSets ==
  ASSUME NEW m \in MemStates
  PROVE  /\ Pages \in Nat /\ UserPages(m) \in SUBSET (0..Pages - 1)
         /\ Cardinality(UserPages(m)) \in Nat
         /\ Pages \div Tables + 1 \in Nat
         /\ m.tables \in SUBSET (0..(Pages \div Tables + 1) - 1)
         /\ Cardinality(m.tables) \in Nat /\ m.free \in Nat
<1>1. Pages \in Nat /\ UserPages(m) \in SUBSET (0..Pages - 1)
  BY UserAssumption DEF UserPages, UserWindow
<1>2. Pages \div Tables \in Nat
  BY UserAssumption
<1>3. Pages \div Tables + 1 \in Nat /\ m.tables \in SUBSET (0..(Pages \div Tables + 1) - 1)
  <2>1. m.tables \in SUBSET (0..Pages \div Tables)
    BY DEF MemStates
  <2>2. (Pages \div Tables + 1) - 1 = Pages \div Tables
    BY <1>2
  <2> QED BY <1>2, <2>1, <2>2
<1>4. m.free \in Nat
  BY DEF MemStates
<1> QED BY <1>1, <1>3, <1>4, FramesFinite

(* vmm_unmap_user_anon gives back one frame for each page. *)
LEMMA UnmapGives ==
  ASSUME NEW m \in MemStates, NEW pages
  PROVE  /\ Unmap(m, pages) \in MemStates
         /\ Weight(Unmap(m, pages)) = Weight(m)
         /\ UserPages(Unmap(m, pages)) = UserPages(m) \ pages
         /\ Unmap(m, pages).panic = m.panic
<1> DEFINE gone == pages \cap UserPages(m)
           kept == UserPages(m) \ pages
           after == [p \in UserWindow |-> IF p \in gone THEN "none" ELSE m.map[p]]
           r == Unmap(m, pages)
<1>1. Pages \in Nat /\ gone \in SUBSET (0..Pages - 1) /\ kept \in SUBSET (0..Pages - 1)
  BY WindowSets
<1>2. Cardinality(gone) \in Nat /\ Cardinality(kept) \in Nat
  BY <1>1, FramesFinite
<1>3. m.free \in Nat /\ m.map \in [UserWindow -> {"none", "user", "kernel"}]
  BY DEF MemStates
<1>4. r = [m EXCEPT !.map = after, !.free = @ + Cardinality(gone)]
  BY DEF Unmap
<1>5. after \in [UserWindow -> {"none", "user", "kernel"}]
  BY <1>3
<1>6. {p \in UserWindow : after[p] = "user"} = kept
  BY <1>3 DEF UserPages
<1>7. Cardinality(UserPages(m)) = Cardinality(kept) + Cardinality(gone)
  <2>1. UserPages(m) = kept \cup gone /\ kept \cap gone = {}
    OBVIOUS
  <2> HIDE DEF kept, gone
  <2> QED BY <1>1, <2>1, Disjoint
<1> DEFINE more == m.free + Cardinality(gone)
<1> HIDE DEF gone, kept, after, r
<1>8. r \in MemStates /\ r.map = after /\ r.free = m.free + Cardinality(gone)
      /\ r.tables = m.tables /\ r.panic = m.panic
  <2>1. r = [m EXCEPT !.map = after, !.free = more]
    BY <1>4 DEF MemStates
  <2>2. more \in Nat
    BY <1>2, <1>3
  <2>3. more = m.free + Cardinality(gone)
    OBVIOUS
  <2> HIDE DEF more
  <2>4. r \in MemStates /\ r.map = after /\ r.free = more
        /\ r.tables = m.tables /\ r.panic = m.panic
    BY <1>5, <2>1, <2>2 DEF MemStates
  <2> QED BY <2>3, <2>4
<1>9. UserPages(r) = kept
  BY <1>6, <1>8 DEF UserPages
<1>10. Weight(r) = Weight(m)
  <2>1. Cardinality(m.tables) \in Nat
    BY WindowSets
  <2> QED BY <1>2, <1>3, <1>7, <1>8, <1>9, <2>1 DEF Weight
<1> QED BY <1>8, <1>9, <1>10 DEF r, kept

(* vmm_map_page takes one frame for a page, two when its table is new.     *)
LEMMA MapPageGives ==
  ASSUME NEW m \in MemStates, NEW p \in UserWindow, m.map[p] = "none"
  PROVE  /\ MapPage(m, p) \in MemStates
         /\ Weight(MapPage(m, p)) = Weight(m)
         /\ ~MapPage(m, p).panic =>
              /\ ~m.panic
              /\ UserPages(MapPage(m, p)) = UserPages(m) \cup {p}
              /\ \A q \in UserWindow \ {p} : MapPage(m, p).map[q] = m.map[q]
<1> DEFINE table == p \div Tables
           taken == IF table \in m.tables THEN 1 ELSE 2
           r == MapPage(m, p)
<1>1. CASE m.panic \/ m.free < taken
  <2>1. r = [m EXCEPT !.panic = TRUE]
    BY <1>1 DEF MapPage
  <2> HIDE DEF r
  <2>2. r \in MemStates /\ r.map = m.map /\ r.free = m.free /\ r.tables = m.tables /\ r.panic = TRUE
    BY <2>1 DEF MemStates
  <2>3. UserPages(r) = UserPages(m)
    BY <2>2 DEF UserPages
  <2>4. Weight(r) = Weight(m)
    BY <2>2, <2>3 DEF Weight
  <2> QED BY <2>2, <2>4 DEF r
<1>2. CASE ~(m.panic \/ m.free < taken)
  <2> DEFINE more == m.tables \cup {table}
             after == [m.map EXCEPT ![p] = "user"]
  <2>1. r = [m EXCEPT !.map = after, !.tables = more, !.free = m.free - taken]
    BY <1>2 DEF MapPage, MemStates
  <2>2. table \in 0..Pages \div Tables
    BY PageTable
  <2>3. m.free \in Nat /\ m.map \in [UserWindow -> {"none", "user", "kernel"}]
        /\ m.tables \in SUBSET (0..Pages \div Tables)
    BY DEF MemStates
  <2>4. m.free - taken \in Nat
    BY <1>2, <2>3
  <2>5. more \in SUBSET (0..Pages \div Tables)
    BY <2>2, <2>3
  <2>6. after \in [UserWindow -> {"none", "user", "kernel"}]
        /\ {q \in UserWindow : after[q] = "user"} = UserPages(m) \cup {p}
        /\ \A q \in UserWindow \ {p} : after[q] = m.map[q]
    BY <2>3 DEF UserPages
  <2>7. Cardinality(more) = Cardinality(m.tables) + taken - 1
    <3>1. CASE table \in m.tables
      <4>1. more = m.tables /\ taken = 1
        BY <3>1
      <4>2. Cardinality(m.tables) \in Nat
        BY WindowSets
      <4> HIDE DEF more, taken
      <4> QED BY <4>1, <4>2
    <3>2. CASE table \notin m.tables
      <4>1. IsFiniteSet(m.tables) /\ Cardinality(m.tables) \in Nat
        BY WindowSets, FramesFinite
      <4>2. Cardinality(m.tables \cup {table}) = Cardinality(m.tables) + 1
        BY <3>2, <4>1, FS_AddElement
      <4>3. taken = 2
        BY <3>2
      <4> HIDE DEF table, taken
      <4> QED BY <4>1, <4>2, <4>3 DEF more
    <3> QED BY <3>1, <3>2
  <2>8. Cardinality(UserPages(m) \cup {p}) = Cardinality(UserPages(m)) + 1
    <3>1. p \notin UserPages(m)
      BY DEF UserPages
    <3>2. IsFiniteSet(UserPages(m))
      BY WindowSets, FramesFinite
    <3> QED BY <3>1, <3>2, FS_AddElement
  <2>9. taken \in {1, 2}
    OBVIOUS
  <2>10. m.panic = FALSE
    BY <1>2 DEF MemStates
  <2>11. Cardinality(UserPages(m)) \in Nat /\ Cardinality(m.tables) \in Nat
    BY WindowSets
  <2> HIDE DEF more, after, r, taken, table
  <2>12. r \in MemStates /\ r.map = after /\ r.free = m.free - taken /\ r.tables = more
         /\ r.panic = m.panic
    BY <2>1, <2>4, <2>5, <2>6 DEF MemStates
  <2>13. UserPages(r) = UserPages(m) \cup {p}
    BY <2>6, <2>12 DEF UserPages
  <2>14. Weight(r) = Weight(m)
    BY <2>3, <2>7, <2>8, <2>9, <2>11, <2>12, <2>13 DEF Weight
  <2> QED BY <2>6, <2>10, <2>12, <2>13, <2>14 DEF r
<1> QED BY <1>1, <1>2

(* Up to n, from one to the next. *)
LEMMA UpTo ==
  ASSUME NEW n \in Nat, NEW T, 0 \in T, \A k \in 1..n : k - 1 \in T => k \in T
  PROVE  \A k \in 0..n : k \in T
<1> DEFINE B == {k \in 0..n : k \notin T}
<1>1. SUFFICES ASSUME B # {} PROVE FALSE
  OBVIOUS
<1>2. B \in SUBSET Nat
  OBVIOUS
<1>3. PICK k \in B : \A l \in B : k <= l
  <2> HIDE DEF B
  <2> QED BY <1>1, <1>2, Smallest
<1>4. k \in 1..n /\ k - 1 \in 0..n /\ k \notin T
  BY <1>3
<1>5. k - 1 \notin B
  <2> HIDE DEF B
  <2> QED BY <1>3, <1>4
<1> QED BY <1>4, <1>5

LEMMA MapPageTypes ==
  ASSUME NEW m \in MemStates, NEW p \in UserWindow
  PROVE  MapPage(m, p) \in MemStates
<1> DEFINE table == p \div Tables
           taken == IF table \in m.tables THEN 1 ELSE 2
           after == [m.map EXCEPT ![p] = "user"]
<1>1. [m EXCEPT !.panic = TRUE] \in MemStates
  BY DEF MemStates
<1>2. ASSUME ~(m.panic \/ m.free < taken)
      PROVE  [m EXCEPT !.map = after, !.tables = m.tables \cup {table}, !.free = m.free - taken]
                \in MemStates
  <2>1. table \in 0..Pages \div Tables
    BY PageTable
  <2>2. after \in [UserWindow -> {"none", "user", "kernel"}]
    BY DEF MemStates
  <2>3. m.free - taken \in Nat
    BY <1>2 DEF MemStates
  <2> HIDE DEF after, table, taken
  <2> QED BY <2>1, <2>2, <2>3 DEF MemStates
<1> QED BY <1>1, <1>2 DEF MapPage, MemStates

(* One turn of the loop of vmm_map_user_anon. *)
Turns == [ok: BOOLEAN, m: MemStates]
Turn(acc, pages, p) ==
  IF p \notin pages \/ ~acc.ok \/ acc.m.panic THEN acc
  ELSE IF acc.m.free = 0 THEN [ok |-> FALSE, m |-> Unmap(acc.m, pages)]
  ELSE [ok |-> TRUE, m |-> MapPage(acc.m, p)]

LEMMA TurnTypes ==
  ASSUME NEW acc \in Turns, NEW pages, NEW p \in UserWindow
  PROVE  Turn(acc, pages, p) \in Turns
<1>1. Unmap(acc.m, pages) \in MemStates
  BY UnmapGives DEF Turns
<1>2. MapPage(acc.m, p) \in MemStates
  BY MapPageTypes DEF Turns
<1> QED BY <1>1, <1>2 DEF Turns, Turn

LEMMA TurnsExist ==
  ASSUME NEW m \in MemStates, NEW pages
  PROVE  \E f : f = [p \in 0..Pages |->
                       IF p = 0 THEN [ok |-> TRUE, m |-> m] ELSE Turn(f[p - 1], pages, p - 1)]
<1> DEFINE step == [p \in 1..Pages |-> [acc \in Turns |-> Turn(acc, pages, p - 1)]]
           base == [ok |-> TRUE, m |-> m]
<1>1. Pages \in Nat /\ base \in Turns
  BY UserAssumption DEF Turns
<1>2. step \in [1..Pages -> [Turns -> Turns]]
  <2> SUFFICES ASSUME NEW p \in 1..Pages, NEW acc \in Turns PROVE Turn(acc, pages, p - 1) \in Turns
    OBVIOUS
  <2>1. p - 1 \in UserWindow
    BY <1>1 DEF UserWindow
  <2> QED BY <2>1, TurnTypes
<1> HIDE DEF base, step
<1>3. PICK f : /\ f \in [0..Pages -> Turns]
               /\ f = [p \in 0..Pages |-> IF p = 0 THEN base ELSE step[p][f[p - 1]]]
  BY <1>1, <1>2, StepByStep
<1>4. ASSUME NEW p \in 0..Pages, p # 0 PROVE step[p][f[p - 1]] = Turn(f[p - 1], pages, p - 1)
  <2>1. p \in 1..Pages /\ p - 1 \in 0..Pages
    BY <1>1, <1>4
  <2>2. f[p - 1] \in Turns
    BY <1>3, <2>1
  <2> QED BY <2>1, <2>2 DEF step
<1>5. f = [p \in 0..Pages |-> IF p = 0 THEN base ELSE Turn(f[p - 1], pages, p - 1)]
  BY <1>3, <1>4
<1> QED BY <1>5 DEF base

(* Part way through, and at the end: either the pages so far are mapped,   *)
(* or nothing is.                                                          *)
Below(pages, p) == {q \in pages : q < p}
PartWay(acc, m, pages, p) ==
  /\ acc \in Turns /\ Weight(acc.m) = Weight(m)
  /\ ~acc.m.panic =>
       IF acc.ok
       THEN /\ UserPages(acc.m) = UserPages(m) \cup Below(pages, p)
            /\ \A q \in pages : q >= p => acc.m.map[q] = "none"
       ELSE UserPages(acc.m) = UserPages(m)

LEMMA TurnGoesOn ==
  ASSUME NEW m \in MemStates, NEW pages \in SUBSET UserWindow,
         pages \cap UserPages(m) = {}, NEW p \in 1..Pages, NEW acc,
         PartWay(acc, m, pages, p - 1)
  PROVE  PartWay(Turn(acc, pages, p - 1), m, pages, p)
<1> DEFINE P == p - 1
           r == Turn(acc, pages, P)
<1>1. Pages \in Nat /\ P \in UserWindow /\ p = P + 1 /\ UserWindow \subseteq Nat
  BY UserAssumption DEF UserWindow
<1>2. acc \in Turns /\ acc.m \in MemStates /\ Weight(acc.m) = Weight(m)
  BY DEF PartWay, Turns
<1>3. P \notin pages => Below(pages, p) = Below(pages, P)
  <2>1. \A q \in pages : q # P => (q < p <=> q < P)
    BY <1>1
  <2> HIDE DEF P
  <2> QED BY <2>1 DEF Below
<1>4. P \in pages => Below(pages, p) = Below(pages, P) \cup {P}
  <2>1. \A q \in pages : q < p <=> (q < P \/ q = P)
    BY <1>1
  <2> HIDE DEF P
  <2> QED BY <2>1 DEF Below
<1>5. \A q \in pages : q >= p => q >= P /\ q # P
  BY <1>1
<1>6. r \in Turns
  BY <1>1, <1>2, TurnTypes
<1>7. CASE P \notin pages \/ ~acc.ok \/ acc.m.panic
  <2>1. r = acc
    BY <1>7 DEF Turn
  <2>2. P \notin pages \/ ~acc.ok \/ acc.m.panic
    BY <1>7
  <2>3. CASE acc.m.panic \/ ~acc.ok
    BY <1>2, <2>1, <2>3 DEF PartWay
  <2>4. CASE ~acc.m.panic /\ acc.ok
    <3>1. P \notin pages /\ Below(pages, p) = Below(pages, P)
      BY <1>3, <2>2, <2>4
    <3>2. /\ UserPages(acc.m) = UserPages(m) \cup Below(pages, P)
          /\ \A q \in pages : q >= P => acc.m.map[q] = "none"
      BY <2>4 DEF PartWay
    <3>3. \A q \in pages : q >= p => acc.m.map[q] = "none"
      BY <1>5, <3>2
    <3>4. UserPages(acc.m) = UserPages(m) \cup Below(pages, p)
      BY <3>1, <3>2
    <3> HIDE DEF r
    <3> QED BY <1>2, <2>1, <2>4, <3>3, <3>4 DEF PartWay, r
  <2> QED BY <2>3, <2>4
<1>8. CASE ~(P \notin pages \/ ~acc.ok \/ acc.m.panic) /\ acc.m.free = 0
  <2>1. r = [ok |-> FALSE, m |-> Unmap(acc.m, pages)]
    BY <1>8 DEF Turn
  <2>2. UserPages(acc.m) = UserPages(m) \cup Below(pages, P)
    BY <1>8 DEF PartWay
  <2>3. UserPages(Unmap(acc.m, pages)) = UserPages(m)
    <3>1. UserPages(Unmap(acc.m, pages)) = UserPages(acc.m) \ pages
      BY <1>2, UnmapGives
    <3> QED BY <2>2, <3>1 DEF Below
  <2>4. Weight(Unmap(acc.m, pages)) = Weight(m)
    BY <1>2, UnmapGives
  <2> HIDE DEF r
  <2> QED BY <1>6, <2>1, <2>3, <2>4 DEF PartWay, r
<1>9. CASE ~(P \notin pages \/ ~acc.ok \/ acc.m.panic) /\ acc.m.free # 0
  <2> DEFINE n == MapPage(acc.m, P)
  <2>1. r = [ok |-> TRUE, m |-> n]
    BY <1>9 DEF Turn
  <2>2. /\ UserPages(acc.m) = UserPages(m) \cup Below(pages, P)
        /\ \A q \in pages : q >= P => acc.m.map[q] = "none"
    BY <1>9 DEF PartWay
  <2>3. acc.m.map[P] = "none"
    BY <1>1, <1>9, <2>2
  <2>4. /\ Weight(n) = Weight(m)
        /\ ~n.panic => /\ UserPages(n) = UserPages(acc.m) \cup {P}
                       /\ \A q \in UserWindow \ {P} : n.map[q] = acc.m.map[q]
    <3> HIDE DEF P
    <3> QED BY <1>1, <1>2, <2>3, MapPageGives
  <2>5. P \in pages
    BY <1>9
  <2> HIDE DEF n, P, r
  <2>6. ~n.panic => UserPages(n) = UserPages(m) \cup Below(pages, p)
    BY <1>4, <2>2, <2>4, <2>5
  <2>7. ~n.panic => \A q \in pages : q >= p => n.map[q] = "none"
    BY <1>5, <2>2, <2>4
  <2>8. r.m = n /\ r.ok = TRUE
    BY <2>1
  <2> QED BY <1>6, <2>4, <2>6, <2>7, <2>8 DEF PartWay, r, P
<1> QED BY <1>7, <1>8, <1>9

LEMMA MapAnonGives ==
  ASSUME NEW m \in MemStates, NEW pages \in SUBSET UserWindow
  PROVE  /\ MapAnon(m, pages) \in Turns
         /\ Weight(MapAnon(m, pages).m) = Weight(m)
         /\ MapAnon(m, pages).ok => pages \cap UserPages(m) = {}
         /\ ~MapAnon(m, pages).m.panic =>
              UserPages(MapAnon(m, pages).m) =
                IF MapAnon(m, pages).ok THEN UserPages(m) \cup pages ELSE UserPages(m)
<1> DEFINE r == MapAnon(m, pages)
<1>1. CASE \E p \in pages : m.map[p] # "none"
  <2>1. r = [ok |-> FALSE, m |-> m]
    BY <1>1 DEF MapAnon
  <2> HIDE DEF r
  <2> QED BY <2>1 DEF r, Turns
<1>2. CASE ~\E p \in pages : m.map[p] # "none"
  <2> DEFINE Solves(f) == f = [p \in 0..Pages |->
                                 IF p = 0 THEN [ok |-> TRUE, m |-> m] ELSE Turn(f[p - 1], pages, p - 1)]
             u == CHOOSE f : Solves(f)
             T == {p \in 0..Pages : PartWay(u[p], m, pages, p)}
  <2>1. r = u[Pages]
    BY <1>2 DEF MapAnon, Turn
  <2>2. Solves(u)
    BY TurnsExist
  <2>3. Pages \in Nat /\ pages \subseteq Nat
    BY UserAssumption DEF UserWindow
  <2>4. \A p \in pages : m.map[p] = "none"
    BY <1>2
  <2>5. pages \cap UserPages(m) = {}
    BY <2>4 DEF UserPages
  <2> HIDE DEF u
  <2>6. 0 \in T
    <3>1. u[0] = [ok |-> TRUE, m |-> m] /\ 0 \in 0..Pages
      BY <2>2, <2>3
    <3>2. Below(pages, 0) = {}
      <4>1. \A q \in pages : q \in Nat /\ ~(q < 0)
        BY <2>3
      <4> QED BY <4>1 DEF Below
    <3>3. PartWay([ok |-> TRUE, m |-> m], m, pages, 0)
      BY <2>4, <3>2 DEF PartWay, Turns
    <3> QED BY <3>1, <3>3
  <2>7. ASSUME NEW p \in 1..Pages, p - 1 \in T PROVE p \in T
    <3>1. u[p] = Turn(u[p - 1], pages, p - 1)
      <4>1. p \in 0..Pages /\ p # 0
        BY <2>3
      <4> QED BY <2>2, <4>1
    <3>2. PartWay(u[p - 1], m, pages, p - 1)
      BY <2>7
    <3>3. PartWay(u[p], m, pages, p)
      BY <2>5, <3>1, <3>2, TurnGoesOn
    <3> QED BY <2>3, <3>3
  <2>8. Pages \in T
    <3> HIDE DEF T
    <3> QED BY <2>3, <2>6, <2>7, UpTo
  <2>9. PartWay(r, m, pages, Pages)
    BY <2>1, <2>8
  <2>10. Below(pages, Pages) = pages
    <3>1. \A q \in pages : q < Pages
      BY <2>3 DEF UserWindow
    <3> QED BY <3>1 DEF Below
  <2> HIDE DEF r
  <2> QED BY <2>5, <2>9, <2>10 DEF PartWay, r
<1> QED BY <1>1, <1>2

(* Once the kernel has stopped, it stays stopped. *)
LEMMA MapAnonPanics ==
  ASSUME NEW m \in MemStates, NEW pages \in SUBSET UserWindow, m.panic
  PROVE  MapAnon(m, pages).m.panic
<1>1. CASE \E p \in pages : m.map[p] # "none"
  BY <1>1 DEF MapAnon
<1>2. CASE ~\E p \in pages : m.map[p] # "none"
  <2> DEFINE Solves(f) == f = [p \in 0..Pages |->
                                 IF p = 0 THEN [ok |-> TRUE, m |-> m] ELSE Turn(f[p - 1], pages, p - 1)]
             u == CHOOSE f : Solves(f)
             T == {p \in 0..Pages : u[p].m.panic}
  <2>1. MapAnon(m, pages) = u[Pages]
    BY <1>2 DEF MapAnon, Turn
  <2>2. Solves(u)
    <3>1. \E f : Solves(f)
      BY TurnsExist
    <3> QED BY <3>1
  <2>3. Pages \in Nat
    BY UserAssumption
  <2> HIDE DEF u
  <2>4. 0 \in T
    <3>1. u[0] = [ok |-> TRUE, m |-> m] /\ 0 \in 0..Pages
      BY <2>2, <2>3
    <3> QED BY <3>1
  <2>5. ASSUME NEW p \in 1..Pages, p - 1 \in T PROVE p \in T
    <3>1. u[p] = Turn(u[p - 1], pages, p - 1)
      <4>1. p \in 0..Pages /\ p # 0
        BY <2>3
      <4> QED BY <2>2, <4>1
    <3>2. u[p] = u[p - 1]
      BY <2>5, <3>1 DEF Turn
    <3> QED BY <2>3, <2>5, <3>2
  <2>6. Pages \in T
    <3> HIDE DEF T
    <3> QED BY <2>3, <2>4, <2>5, UpTo
  <2> QED BY <2>1, <2>6
<1> QED BY <1>1, <1>2

LEMMA AllSegments ==
  ASSUME NEW S, NEW own \in Seq(SUBSET S), NEW x \in S
  PROVE  UNION {Append(own, {x})[j] : j \in 1..Len(Append(own, {x}))} = {x} \cup UNION Range(own)
<1> DEFINE segs == Append(own, {x})
           N == Len(own)
<1>1. N \in Nat /\ Len(segs) = N + 1 /\ segs[N + 1] = {x} /\ \A j \in 1..N : segs[j] = own[j]
  OBVIOUS
<1>2. DOMAIN own = 1..N
  OBVIOUS
<1>3. 1..Len(segs) = 1..N \cup {N + 1}
  BY <1>1
<1>4. Range(own) = {own[j] : j \in 1..N}
  BY <1>2 DEF Range
<1> HIDE DEF segs, N
<1>5. {segs[j] : j \in 1..Len(segs)} = Range(own) \cup {{x}}
  BY <1>1, <1>3, <1>4
<1>6. UNION {segs[j] : j \in 1..Len(segs)} = {x} \cup UNION Range(own)
  BY <1>5
<1> QED BY <1>6 DEF segs

(* The loop of elf64_load. *)
Loads == [ok: BOOLEAN, m: MemStates, done: SUBSET UserWindow]
Load(acc, seg) ==
  IF ~acc.ok THEN acc
  ELSE [ok |-> MapAnon(acc.m, seg).ok, m |-> MapAnon(acc.m, seg).m,
        done |-> IF MapAnon(acc.m, seg).ok THEN acc.done \cup seg ELSE acc.done]

LEMMA LoadTypes ==
  ASSUME NEW acc \in Loads, NEW seg \in SUBSET UserWindow
  PROVE  Load(acc, seg) \in Loads
<1>1. acc.m \in MemStates /\ acc.done \in SUBSET UserWindow
  BY DEF Loads
<1>2. MapAnon(acc.m, seg) \in Turns
  BY <1>1, MapAnonGives
<1> QED BY <1>1, <1>2 DEF Loads, Load, Turns

LEMMA LoadsExist ==
  ASSUME NEW segs \in Seq(SUBSET UserWindow), NEW start \in Loads
  PROVE  \E f : f = [k \in 0..Len(segs) |-> IF k = 0 THEN start ELSE Load(f[k - 1], segs[k])]
<1> DEFINE N == Len(segs)
           step == [k \in 1..N |-> [acc \in Loads |-> Load(acc, segs[k])]]
<1>1. N \in Nat /\ \A k \in 1..N : segs[k] \in SUBSET UserWindow
  OBVIOUS
<1>2. step \in [1..N -> [Loads -> Loads]]
  BY <1>1, LoadTypes
<1> HIDE DEF step, N
<1>3. PICK f : f \in [0..N -> Loads] /\ f[0] = start /\ \A k \in 1..N : f[k] = step[k][f[k - 1]]
  <2>1. N \in Nat
    BY <1>1
  <2> QED BY <1>2, <2>1, Stepwise
<1>4. ASSUME NEW k \in 1..N PROVE f[k] = Load(f[k - 1], segs[k])
  <2>1. k - 1 \in 0..N
    BY <1>1
  <2>2. f[k - 1] \in Loads
    BY <1>3, <2>1
  <2> QED BY <1>3, <2>2 DEF step
<1>5. f = [k \in 0..N |-> IF k = 0 THEN start ELSE Load(f[k - 1], segs[k])]
  <2>1. \A k \in 0..N : k = 0 \/ k \in 1..N
    BY <1>1
  <2> QED BY <1>3, <1>4, <2>1
<1> QED BY <1>5 DEF N

(* After i segments: what is mapped is what mmap gave out and what the     *)
(* load counts as done.                                                    *)
UpToSeg(segs, i) == UNION {segs[j] : j \in 1..i}
LoadedSome(acc, segs, i) ==
  /\ acc \in Loads /\ Weight(acc.m) = RamFrames
  /\ ~acc.m.panic => UserPages(acc.m) = mmaps \cup acc.done /\ mmaps \cap acc.done = {}
  /\ acc.ok => acc.done = UpToSeg(segs, i)

LEMMA LoadGoesOn ==
  ASSUME NEW segs \in Seq(SUBSET UserWindow), NEW i \in 1..Len(segs), NEW acc,
         LoadedSome(acc, segs, i - 1)
  PROVE  LoadedSome(Load(acc, segs[i]), segs, i)
<1> DEFINE seg == segs[i]
           n == MapAnon(acc.m, seg)
           r == Load(acc, seg)
<1>1. seg \in SUBSET UserWindow /\ 1..i = 1..(i - 1) \cup {i}
  OBVIOUS
<1>2. acc \in Loads /\ acc.m \in MemStates /\ Weight(acc.m) = RamFrames
  BY DEF LoadedSome, Loads
<1>3. r \in Loads
  BY <1>1, <1>2, LoadTypes
<1>4. UpToSeg(segs, i) = UpToSeg(segs, i - 1) \cup seg
  <2>1. \A x : x \in UpToSeg(segs, i) <=> \E j \in 1..i : x \in segs[j]
    BY DEF UpToSeg
  <2>2. \A x : x \in UpToSeg(segs, i - 1) <=> \E j \in 1..(i - 1) : x \in segs[j]
    BY DEF UpToSeg
  <2>3. \A x : x \in UpToSeg(segs, i) <=> x \in UpToSeg(segs, i - 1) \/ x \in seg
    BY <1>1, <2>1, <2>2
  <2> HIDE DEF seg
  <2> QED BY <2>3
<1>5. CASE ~acc.ok
  <2>1. r = acc
    BY <1>5 DEF Load
  <2> HIDE DEF r
  <2> QED BY <1>5, <2>1 DEF LoadedSome, r
<1>6. CASE acc.ok
  <2>1. /\ n \in Turns /\ Weight(n.m) = Weight(acc.m)
        /\ n.ok => seg \cap UserPages(acc.m) = {}
        /\ ~n.m.panic => UserPages(n.m) = IF n.ok THEN UserPages(acc.m) \cup seg ELSE UserPages(acc.m)
    BY <1>1, <1>2, MapAnonGives
  <2>2. r = [ok |-> n.ok, m |-> n.m, done |-> IF n.ok THEN acc.done \cup seg ELSE acc.done]
    BY <1>6 DEF Load
  <2>3. acc.done = UpToSeg(segs, i - 1)
    BY <1>6 DEF LoadedSome
  <2>4. acc.m.panic => n.m.panic
    BY <1>2, <1>1, MapAnonPanics
  <2>5. ~acc.m.panic => UserPages(acc.m) = mmaps \cup acc.done /\ mmaps \cap acc.done = {}
    BY DEF LoadedSome
  <2> HIDE DEF n, seg, r
  <2>6. /\ r.ok = n.ok /\ r.m = n.m
        /\ r.done = IF n.ok THEN acc.done \cup seg ELSE acc.done
    BY <2>2
  <2>7. ~r.m.panic => UserPages(r.m) = mmaps \cup r.done /\ mmaps \cap r.done = {}
    <3> SUFFICES ASSUME ~r.m.panic PROVE UserPages(r.m) = mmaps \cup r.done /\ mmaps \cap r.done = {}
      OBVIOUS
    <3>1. UserPages(acc.m) = mmaps \cup acc.done /\ mmaps \cap acc.done = {}
      BY <2>4, <2>5, <2>6
    <3>2. CASE n.ok
      BY <2>1, <2>6, <3>1, <3>2
    <3>3. CASE ~n.ok
      BY <2>1, <2>6, <3>1, <3>3
    <3> QED BY <3>2, <3>3
  <2>8. Weight(r.m) = RamFrames
    BY <1>2, <2>1, <2>6
  <2>9. r.ok => r.done = UpToSeg(segs, i)
    BY <1>4, <2>3, <2>6
  <2>10. LoadedSome(r, segs, i)
    BY <1>3, <2>7, <2>8, <2>9 DEF LoadedSome
  <2> QED BY <2>10 DEF r, seg
<1> QED BY <1>5, <1>6

(* elf64_load: all the segments and the stack, or nothing. *)
LEMMA LoadSegmentsGives ==
  ASSUME UserTypeOK, ~panic, Weight(Mem) = RamFrames, PagesKnown, NEW prog, Valid(prog)
  PROVE  LET r == LoadSegments(prog)
         IN /\ r \in Loads /\ Weight(r.m) = RamFrames
            /\ ~r.m.panic => UserPages(r.m) = r.done \cup mmaps /\ r.done \cap mmaps = {}
            /\ r.ok => r.done = {Stack} \cup UNION Range(Programs[prog].segs)
            /\ ~r.ok => r.done = {}
<1> DEFINE own == Programs[prog].segs
           segs == Append(own, {Stack})
           base == [ok |-> TRUE, m |-> Unmap(Mem, tracked), done |-> {}]
           Solves(f) == f = [i \in 0..Len(segs) |-> IF i = 0 THEN base ELSE Load(f[i - 1], segs[i])]
           u == CHOOSE f : Solves(f)
           last == u[Len(segs)]
           T == {i \in 0..Len(segs) : LoadedSome(u[i], segs, i)}
           r == LoadSegments(prog)
<1>1. own \in Seq(SUBSET UserWindow) /\ {Stack} \in SUBSET UserWindow
  BY UserAssumption DEF Valid, UserWindow
<1>2. segs \in Seq(SUBSET UserWindow) /\ Len(segs) \in Nat
  <2> HIDE DEF own
  <2> QED BY <1>1
<1>3. Mem \in MemStates /\ UserPages(Mem) = tracked \cup mmaps /\ tracked \cap mmaps = {}
  <2>1. map \in [UserWindow -> {"none", "user", "kernel"}]
    BY DEF UserTypeOK
  <2>2. tables \in SUBSET (0..Pages \div Tables) /\ free \in Nat
    BY UserAssumption DEF UserTypeOK
  <2>3. Mem \in MemStates
    BY <2>1, <2>2 DEF Mem, MemStates
  <2> QED BY <2>3 DEF PagesKnown
<1>4. /\ Unmap(Mem, tracked) \in MemStates /\ Weight(Unmap(Mem, tracked)) = RamFrames
      /\ UserPages(Unmap(Mem, tracked)) = mmaps
  <2>1. Unmap(Mem, tracked) \in MemStates /\ Weight(Unmap(Mem, tracked)) = Weight(Mem)
        /\ UserPages(Unmap(Mem, tracked)) = UserPages(Mem) \ tracked
    BY <1>3, UnmapGives
  <2> QED BY <1>3, <2>1
<1>5. base \in Loads
  BY <1>4 DEF Loads
<1>6. Solves(u)
  <2> HIDE DEF segs, base
  <2> QED BY <1>2, <1>5, LoadsExist
<1>7. r = IF last.ok THEN last ELSE [ok |-> FALSE, m |-> Unmap(last.m, last.done), done |-> {}]
  BY DEF LoadSegments, Load
<1> HIDE DEF u, segs
<1>8. 0 \in T
  <2>1. u[0] = base /\ 0 \in 0..Len(segs)
    BY <1>2, <1>6
  <2>2. UpToSeg(segs, 0) = {}
    BY DEF UpToSeg
  <2>3. LoadedSome(base, segs, 0)
    <3>1. base.m = Unmap(Mem, tracked) /\ base.done = {}
      OBVIOUS
    <3> HIDE DEF base
    <3> QED BY <1>4, <1>5, <2>2, <3>1 DEF LoadedSome
  <2> QED BY <2>1, <2>3
<1>9. ASSUME NEW i \in 1..Len(segs), i - 1 \in T PROVE i \in T
  <2>1. u[i] = Load(u[i - 1], segs[i])
    <3>1. i \in 0..Len(segs) /\ i # 0
      BY <1>2
    <3> QED BY <1>6, <3>1
  <2>2. LoadedSome(u[i - 1], segs, i - 1)
    BY <1>9
  <2>3. LoadedSome(u[i], segs, i)
    BY <1>2, <2>1, <2>2, LoadGoesOn
  <2> QED BY <1>2, <2>3
<1>10. Len(segs) \in T
  <2> DEFINE N == Len(segs)
  <2>1. N \in Nat /\ \A i \in 1..N : i - 1 \in T => i \in T
    BY <1>2, <1>9
  <2>2. 0 \in T
    BY <1>8
  <2> HIDE DEF T, N
  <2>3. \A i \in 0..N : i \in T
    BY <2>1, <2>2, UpTo
  <2>4. N \in T
    BY <2>1, <2>3
  <2> QED BY <2>4 DEF N
<1>11. LoadedSome(last, segs, Len(segs))
  BY <1>10
<1>12. UpToSeg(segs, Len(segs)) = {Stack} \cup UNION Range(own)
  <2> HIDE DEF own
  <2> QED BY <1>1, AllSegments DEF segs, UpToSeg
<1> HIDE DEF last, r, own
<1>13. CASE last.ok
  <2>1. r = last
    BY <1>7, <1>13
  <2>2. /\ last \in Loads /\ Weight(last.m) = RamFrames
        /\ ~last.m.panic => UserPages(last.m) = mmaps \cup last.done /\ mmaps \cap last.done = {}
        /\ last.done = {Stack} \cup UNION Range(own)
    BY <1>11, <1>12, <1>13 DEF LoadedSome
  <2>3. r \in Loads /\ Weight(r.m) = RamFrames
    BY <2>1, <2>2
  <2>4. ~r.m.panic => UserPages(r.m) = r.done \cup mmaps /\ r.done \cap mmaps = {}
    BY <2>1, <2>2
  <2>5. r.done = {Stack} \cup UNION Range(own) /\ r.ok
    BY <1>13, <2>1, <2>2
  <2> QED BY <2>3, <2>4, <2>5 DEF r, own
<1>14. CASE ~last.ok
  <2> DEFINE n == Unmap(last.m, last.done)
  <2>1. r = [ok |-> FALSE, m |-> n, done |-> {}]
    BY <1>7, <1>14
  <2>2. /\ last.m \in MemStates /\ Weight(last.m) = RamFrames
        /\ ~last.m.panic => UserPages(last.m) = mmaps \cup last.done /\ mmaps \cap last.done = {}
    BY <1>11 DEF LoadedSome, Loads
  <2>3. n \in MemStates /\ Weight(n) = Weight(last.m) /\ n.panic = last.m.panic
        /\ UserPages(n) = UserPages(last.m) \ last.done
    BY <2>2, UnmapGives
  <2> HIDE DEF n
  <2>4. r.m = n /\ r.ok = FALSE /\ r.done = {} /\ r \in Loads
    BY <2>1, <2>3 DEF Loads
  <2>5. ~r.m.panic => UserPages(r.m) = r.done \cup mmaps /\ r.done \cap mmaps = {}
    <3> SUFFICES ASSUME ~r.m.panic PROVE UserPages(r.m) = r.done \cup mmaps
      BY <2>4
    <3>1. UserPages(last.m) = mmaps \cup last.done /\ mmaps \cap last.done = {}
      BY <2>2, <2>3, <2>4
    <3> QED BY <2>3, <2>4, <3>1
  <2>6. Weight(r.m) = RamFrames
    BY <2>2, <2>3, <2>4
  <2> QED BY <2>4, <2>5, <2>6 DEF r, own
<1> QED BY <1>13, <1>14

(* The invariant in three parts: the memory, the tasks, the descriptors. *)
MemOK ==
  /\ map \in [UserWindow -> {"none", "user", "kernel"}]
  /\ tables \subseteq 0..Pages \div Tables /\ free \in 0..RamFrames
  /\ tracked \subseteq UserWindow /\ mmaps \subseteq UserWindow
  /\ bump \in Stack + 1..Pages /\ panic \in BOOLEAN
  /\ Weight(Mem) = RamFrames /\ PagesKnown

Tasks == [state: {"dead", "run", "reading"}, pid: 0..nextPid - 1, prog: Contents, at: UserWindow]
TasksOK ==
  /\ tasks \in [1..Slots -> Tasks] /\ nextPid \in 1..MaxCalls + 1
  /\ keys \in 0..1 /\ calls \in 0..MaxCalls
  /\ OneOwner

FdsOK == VfsTypeOK(0..nextPid - 1) /\ FdsOwned

LEMMA UserParts == UserInv <=> MemOK /\ TasksOK /\ FdsOK /\ OneImage
BY DEF UserInv, UserTypeOK, MemOK, TasksOK, FdsOK, Tasks

LEMMA UserPartsNext ==
  ASSUME MemOK', TasksOK', FdsOK', OneImage'
  PROVE  UserInv'
BY DEF UserInv, UserTypeOK, MemOK, TasksOK, FdsOK, Tasks

LEMMA Bounds ==
  /\ Pages \in Nat /\ RamFrames \in Nat /\ MaxCalls \in Nat /\ Slots \in Nat
  /\ Tables \in Nat \ {0} /\ Stack \in Nat /\ Stack < Pages
BY UserAssumption

LEMMA MemIsState ==
  ASSUME MemOK
  PROVE  Mem \in MemStates
<1>1. map \in [UserWindow -> {"none", "user", "kernel"}]
      /\ tables \in SUBSET (0..Pages \div Tables) /\ free \in Nat
  BY Bounds DEF MemOK
<1> QED BY <1>1 DEF Mem, MemStates

(* The memory after a call is the memory it leaves. *)
LEMMA MemMoves ==
  ASSUME NEW m \in MemStates, Weight(m) = RamFrames,
         map' = m.map, tables' = m.tables, free' = m.free, panic' = m.panic
  PROVE  /\ map' \in [UserWindow -> {"none", "user", "kernel"}]
         /\ tables' \subseteq 0..Pages \div Tables /\ free' \in 0..RamFrames /\ panic' \in BOOLEAN
         /\ Weight(Mem)' = RamFrames /\ UserPages(Mem)' = UserPages(m)
<1>1. Cardinality(UserPages(m)) \in Nat /\ Cardinality(m.tables) \in Nat /\ m.free \in Nat
  BY WindowSets
<1>2. UserPages(Mem)' = UserPages(m)
  BY DEF UserPages, Mem, UserWindow
<1>3. Weight(Mem)' = free' + Cardinality(UserPages(Mem)') + Cardinality(tables')
  BY DEF Weight, Mem
<1>4. Weight(Mem)' = Weight(m)
  BY <1>2, <1>3 DEF Weight
<1>5. m.free <= RamFrames
  BY <1>1, Bounds DEF Weight
<1>6. free' \in 0..RamFrames
  BY <1>1, <1>5, Bounds
<1>7. map' \in [UserWindow -> {"none", "user", "kernel"}] /\ tables' \subseteq 0..Pages \div Tables
      /\ panic' \in BOOLEAN
  BY DEF MemStates, UserWindow
<1> QED BY <1>2, <1>4, <1>6, <1>7

LEMMA MemStays ==
  ASSUME MemOK, UNCHANGED <<mem, panic>>
  PROVE  MemOK'
<1>1. UNCHANGED <<map, tables, free, tracked, mmaps, bump, panic>>
  BY DEF mem
<1>2. Mem' = Mem
  BY <1>1 DEF Mem
<1>3. UserPages(Mem)' = UserPages(Mem) /\ Weight(Mem)' = Weight(Mem)
  BY <1>1, <1>2 DEF UserPages, Weight, UserWindow
<1>4. PagesKnown'
  BY <1>1, <1>3 DEF PagesKnown, MemOK
<1>5. /\ (map \in [UserWindow -> {"none", "user", "kernel"}])'
      /\ (tables \subseteq 0..Pages \div Tables /\ free \in 0..RamFrames)'
      /\ (tracked \subseteq UserWindow /\ mmaps \subseteq UserWindow)'
      /\ (bump \in Stack + 1..Pages /\ panic \in BOOLEAN)'
  BY <1>1 DEF MemOK, UserWindow
<1> QED BY <1>3, <1>4, <1>5 DEF MemOK

ImageOf(prog) == {Stack} \cup UNION Range(Programs[prog].segs)

(* elf64_load leaves the whole image, or none, or what was there. *)
LEMMA ElfLoadKeeps ==
  ASSUME MemOK, UserTypeOK, ~panic, NEW prog, NEW ok, ElfLoad(prog, ok)
  PROVE  /\ MemOK'
         /\ ok => Valid(prog) /\ tracked' = ImageOf(prog)
         /\ ~ok => tracked' \in {{}, tracked}
<1>1. mmaps' = mmaps /\ bump' = bump
  BY DEF ElfLoad
<1>2. CASE Valid(prog)
  <2> DEFINE r == LoadSegments(prog)
  <2>1. /\ r \in Loads /\ Weight(r.m) = RamFrames
        /\ ~r.m.panic => UserPages(r.m) = r.done \cup mmaps /\ r.done \cap mmaps = {}
        /\ r.ok => r.done = ImageOf(prog)
        /\ ~r.ok => r.done = {}
    BY <1>2, LoadSegmentsGives DEF MemOK, ImageOf
  <2>2. map' = r.m.map /\ tables' = r.m.tables /\ free' = r.m.free /\ panic' = r.m.panic
        /\ tracked' = r.done /\ ok = r.ok
    <3>1. r.ok \in BOOLEAN
      BY <2>1 DEF Loads
    <3> QED BY <1>2, <3>1 DEF ElfLoad
  <2> HIDE DEF r
  <2>3. r.m \in MemStates /\ r.done \in SUBSET UserWindow
    BY <2>1 DEF Loads
  <2>4. /\ map' \in [UserWindow -> {"none", "user", "kernel"}]
        /\ tables' \subseteq 0..Pages \div Tables /\ free' \in 0..RamFrames /\ panic' \in BOOLEAN
        /\ Weight(Mem)' = RamFrames /\ UserPages(Mem)' = UserPages(r.m)
    BY <2>1, <2>2, <2>3, MemMoves
  <2>5. tracked' \subseteq UserWindow /\ mmaps' \subseteq UserWindow /\ bump' \in Stack + 1..Pages
    BY <1>1, <2>2, <2>3 DEF MemOK
  <2>6. PagesKnown'
    BY <1>1, <2>1, <2>2, <2>4 DEF PagesKnown
  <2>7. MemOK'
    BY <2>4, <2>5, <2>6 DEF MemOK, UserWindow
  <2> QED BY <1>2, <2>1, <2>2, <2>7
<1>3. CASE ~Valid(prog)
  <2>1. UNCHANGED <<mem, panic>> /\ ok = FALSE
    BY <1>1, <1>3 DEF ElfLoad, mem
  <2> QED BY <2>1, MemStays DEF mem
<1> QED BY <1>2, <1>3

LEMMA LoadPathKeeps ==
  ASSUME MemOK, UserTypeOK, ~panic, NEW path, NEW ok, LoadPath(path, ok)
  PROVE  /\ MemOK'
         /\ ok => Valid(Image(path)) /\ tracked' = ImageOf(Image(path))
         /\ ~ok => tracked' \in {{}, tracked}
<1>1. CASE Found(path)
  BY <1>1, ElfLoadKeeps DEF LoadPath
<1>2. CASE ~Found(path)
  <2>1. UNCHANGED <<mem, panic>> /\ ok = FALSE
    BY <1>2 DEF LoadPath
  <2> QED BY <2>1, MemStays DEF mem
<1> QED BY <1>1, <1>2

(* sys_mmap keeps what it gives out apart from the image. *)
LEMMA MmapKeeps ==
  ASSUME MemOK, ~panic, NEW s, NEW wish \in {0} \cup UserWindow, NEW len \in 1..2, Mmap(s, wish, len)
  PROVE  MemOK' /\ tracked' = tracked
<1> DEFINE va == IF wish = 0 THEN bump ELSE wish
           given == va..va + len - 1
           r == MapAnon(Mem, given)
<1>1. va \in Nat /\ va > Stack /\ va + len <= Pages
  BY Bounds DEF Mmap, MemOK, UserWindow
<1>2. given \in SUBSET UserWindow
  <2> HIDE DEF va
  <2> QED BY <1>1, Bounds DEF UserWindow
<1>3. /\ map' = r.m.map /\ tables' = r.m.tables /\ free' = r.m.free /\ panic' = r.m.panic
      /\ mmaps' = IF r.ok THEN mmaps \cup given ELSE mmaps
      /\ bump' = IF r.ok /\ wish = 0 THEN va + len ELSE bump
      /\ tracked' = tracked
  BY DEF Mmap
<1>4. va + len \in Stack + 1..Pages
  <2> HIDE DEF va
  <2> QED BY <1>1, Bounds
<1>5. /\ r \in Turns /\ Weight(r.m) = Weight(Mem)
      /\ r.ok => given \cap UserPages(Mem) = {}
      /\ ~r.m.panic => UserPages(r.m) = IF r.ok THEN UserPages(Mem) \cup given ELSE UserPages(Mem)
  <2> HIDE DEF given
  <2> QED BY <1>2, MemIsState, MapAnonGives
<1>6. UserPages(Mem) = tracked \cup mmaps /\ tracked \cap mmaps = {}
  BY DEF MemOK, PagesKnown
<1> HIDE DEF va, given, r
<1>7. /\ map' \in [UserWindow -> {"none", "user", "kernel"}]
      /\ tables' \subseteq 0..Pages \div Tables /\ free' \in 0..RamFrames /\ panic' \in BOOLEAN
      /\ Weight(Mem)' = RamFrames /\ UserPages(Mem)' = UserPages(r.m)
  <2>1. r.m \in MemStates /\ Weight(r.m) = RamFrames
    BY <1>5 DEF Turns, MemOK
  <2> QED BY <1>3, <2>1, MemMoves
<1>8. tracked' \subseteq UserWindow /\ mmaps' \subseteq UserWindow
  BY <1>2, <1>3 DEF MemOK
<1>9. bump' \in Stack + 1..Pages
  BY <1>3, <1>4 DEF MemOK
<1>10. PagesKnown'
  <2> SUFFICES ASSUME ~panic'
               PROVE  UserPages(Mem)' = tracked' \cup mmaps' /\ tracked' \cap mmaps' = {}
    BY DEF PagesKnown
  <2>1. CASE r.ok
    BY <1>3, <1>5, <1>6, <1>7, <2>1
  <2>2. CASE ~r.ok
    BY <1>3, <1>5, <1>6, <1>7, <2>2
  <2> QED BY <2>1, <2>2
<1> QED BY <1>3, <1>7, <1>8, <1>9, <1>10 DEF MemOK, UserWindow

(* The table of open files (Vfs): a call leaves each descriptor closed, or *)
(* to the owner it had, or to its caller.                                  *)
OpenFiles(pids) ==
  [used: {TRUE}, src: {"ram", "disk"}, owner: pids, size: {Size(c) : c \in Contents}, pos: Nat,
   name: Names]
SameOwners(pid) ==
  \A fd \in Fds : fds'[fd].used =>
    fds'[fd].owner = pid \/ (fds[fd].used /\ fds'[fd].owner = fds[fd].owner)

LEMMA FileFields ==
  ASSUME NEW P, VfsTypeOK(P), NEW fd \in Fds
  PROVE  /\ fds[fd].used \in BOOLEAN
         /\ fds[fd].used => fds[fd] \in OpenFiles(P) /\ fds[fd].owner \in P
                            /\ fds[fd].size \in Nat /\ fds[fd].pos \in Nat
                            /\ fds[fd].pos <= fds[fd].size /\ fds[fd].name \in Names
         /\ ~fds[fd].used => fds[fd] = Closed
<1>1. fds[fd] \in {Closed} \cup OpenFiles(P) /\ (fds[fd].used => fds[fd].pos <= fds[fd].size)
  BY DEF VfsTypeOK, OpenFiles
<1>2. CASE fds[fd] = Closed
  BY <1>2 DEF Closed
<1>3. CASE fds[fd] \in OpenFiles(P)
  <2>1. fds[fd].used = TRUE /\ fds[fd].owner \in P /\ fds[fd].pos \in Nat /\ fds[fd].name \in Names
        /\ fds[fd].size \in {Size(c) : c \in Contents}
    BY <1>3 DEF OpenFiles
  <2>2. fds[fd].size \in Nat
    BY <2>1, VfsAssumption
  <2> QED BY <1>1, <1>3, <2>1, <2>2
<1> QED BY <1>1, <1>2, <1>3

(* One descriptor at most becomes a new value. *)
LEMMA OneFileChanges ==
  ASSUME NEW P, VfsTypeOK(P), NEW fd, NEW f,
         fds' = [fds EXCEPT ![fd] = f], disk' \in [Names -> Contents \cup {Missing}],
         fd \in Fds => f = Closed \/ (f \in OpenFiles(P) /\ f.pos <= f.size)
  PROVE  VfsTypeOK(P)'
<1>1. fds \in [Fds -> {Closed} \cup OpenFiles(P)] /\ \A g \in Fds : fds[g].used => fds[g].pos <= fds[g].size
  BY DEF VfsTypeOK, OpenFiles
<1>2. \A g \in Fds : fds'[g] = IF g = fd THEN f ELSE fds[g]
  BY <1>1
<1>3. fds' \in [Fds -> {Closed} \cup OpenFiles(P)]
  BY <1>1
<1>4. ASSUME NEW g \in Fds, fds'[g].used PROVE fds'[g].pos <= fds'[g].size
  <2>1. CASE g = fd /\ f = Closed
    BY <1>2, <1>4, <2>1 DEF Closed
  <2>2. CASE g = fd /\ f # Closed
    BY <1>2, <2>2
  <2>3. CASE g # fd
    BY <1>1, <1>2, <1>4, <2>3
  <2> QED BY <2>1, <2>2, <2>3
<1> QED BY <1>3, <1>4 DEF VfsTypeOK, OpenFiles, Fds

LEMMA OpenKeeps ==
  ASSUME NEW P, VfsTypeOK(P), NEW pid \in P, NEW n \in Names, VfsOpen(pid, n)
  PROVE  VfsTypeOK(P)' /\ SameOwners(pid)
<1> DEFINE fd == CHOOSE f \in FreeFd : \A g \in FreeFd : f <= g
           f == [used |-> TRUE, src |-> IF disk[n] # Missing THEN "disk" ELSE "ram",
                 owner |-> pid, size |-> Size(Lookup(n)), pos |-> 0, name |-> n]
<1>1. fds' = [fds EXCEPT ![fd] = f] /\ disk' = disk /\ Lookup(n) # Missing
  BY DEF VfsOpen, CanOpen
<1>2. disk \in [Names -> Contents \cup {Missing}] /\ fds \in [Fds -> {Closed} \cup OpenFiles(P)]
  BY DEF VfsTypeOK, OpenFiles
<1>3. Lookup(n) \in Contents
  BY <1>1, <1>2, VfsAssumption DEF Lookup
<1>4. f \in OpenFiles(P)
  BY <1>3 DEF OpenFiles
<1>5. f.pos <= f.size
  BY <1>3, VfsAssumption
<1>6. f.owner = pid
  OBVIOUS
<1> HIDE DEF fd, f
<1>7. VfsTypeOK(P)'
  BY <1>1, <1>2, <1>4, <1>5, OneFileChanges
<1>8. \A g \in Fds : fds'[g] = IF g = fd THEN f ELSE fds[g]
  BY <1>1, <1>2
<1>9. SameOwners(pid)
  BY <1>6, <1>8 DEF SameOwners
<1> QED BY <1>7, <1>9

LEMMA ReadKeeps ==
  ASSUME NEW P, VfsTypeOK(P), NEW pid, NEW fd \in Fds, VfsRead(pid, fd)
  PROVE  VfsTypeOK(P)' /\ SameOwners(pid)
<1> DEFINE f == [fds[fd] EXCEPT !.pos = @ + 1]
<1>1. fds' = [fds EXCEPT ![fd] = f] /\ disk' = disk /\ fds[fd].used /\ fds[fd].pos < fds[fd].size
  BY DEF VfsRead, Owned, Readable
<1>2. disk \in [Names -> Contents \cup {Missing}] /\ fds \in [Fds -> {Closed} \cup OpenFiles(P)]
  BY DEF VfsTypeOK, OpenFiles
<1>3. fds[fd] \in OpenFiles(P) /\ fds[fd].size \in Nat /\ fds[fd].pos \in Nat
  BY <1>1, FileFields
<1>4. PICK pos \in Nat : pos = fds[fd].pos + 1
  BY <1>3
<1>5. f = [fds[fd] EXCEPT !.pos = pos]
  BY <1>4
<1> HIDE DEF f
<1>6. f \in OpenFiles(P) /\ f.pos = pos /\ f.size = fds[fd].size /\ f.owner = fds[fd].owner
  BY <1>3, <1>5 DEF OpenFiles
<1>7. f.pos <= f.size
  BY <1>1, <1>3, <1>4, <1>6
<1>8. VfsTypeOK(P)'
  BY <1>1, <1>2, <1>6, <1>7, OneFileChanges
<1>9. \A g \in Fds : fds'[g] = IF g = fd THEN f ELSE fds[g]
  BY <1>1, <1>2
<1>10. SameOwners(pid)
  BY <1>1, <1>6, <1>9 DEF SameOwners
<1> QED BY <1>8, <1>10

LEMMA WriteKeeps ==
  ASSUME NEW P, VfsTypeOK(P), NEW pid, NEW fd \in Fds, NEW c \in Contents, VfsWrite(pid, fd, c)
  PROVE  VfsTypeOK(P)' /\ SameOwners(pid)
<1>1. fds[fd].used
  BY DEF VfsWrite, Owned
<1>2. disk \in [Names -> Contents \cup {Missing}] /\ fds \in [Fds -> {Closed} \cup OpenFiles(P)]
  BY DEF VfsTypeOK, OpenFiles
<1>3. fds[fd] \in OpenFiles(P)
  BY <1>1, FileFields
<1>4. ASSUME disk' = [disk EXCEPT ![fds[fd].name] = c],
             fds' = [fds EXCEPT ![fd].src = "disk", ![fd].size = Size(c), ![fd].pos = Size(c)]
      PROVE  VfsTypeOK(P)' /\ SameOwners(pid)
  <2> DEFINE f == [fds[fd] EXCEPT !.src = "disk", !.size = Size(c), !.pos = Size(c)]
  <2>1. fds' = [fds EXCEPT ![fd] = f]
    BY <1>2, <1>4
  <2>2. disk' \in [Names -> Contents \cup {Missing}]
    BY <1>2, <1>4
  <2>3. Size(c) \in Nat /\ Size(c) \in {Size(d) : d \in Contents}
    BY VfsAssumption
  <2>4. f \in OpenFiles(P) /\ f.pos = Size(c) /\ f.size = Size(c) /\ f.owner = fds[fd].owner
    BY <1>3, <2>3 DEF OpenFiles
  <2> HIDE DEF f
  <2>5. f.pos <= f.size
    BY <2>3, <2>4
  <2>6. VfsTypeOK(P)'
    BY <2>1, <2>2, <2>4, <2>5, OneFileChanges
  <2>7. \A g \in Fds : fds'[g] = IF g = fd THEN f ELSE fds[g]
    BY <1>2, <2>1
  <2>8. SameOwners(pid)
    BY <1>1, <2>4, <2>7 DEF SameOwners
  <2> QED BY <2>6, <2>8
<1>5. ASSUME NEW any \in Contents \cup {Missing},
             disk' = [disk EXCEPT ![fds[fd].name] = any], fds' = fds
      PROVE  VfsTypeOK(P)' /\ SameOwners(pid)
  <2>1. disk' \in [Names -> Contents \cup {Missing}]
    BY <1>2, <1>5
  <2>2. VfsTypeOK(P)'
    BY <1>5, <2>1 DEF VfsTypeOK, Fds
  <2> QED BY <1>5, <2>2 DEF SameOwners
<1> QED BY <1>4, <1>5 DEF VfsWrite

LEMMA CloseKeeps ==
  ASSUME NEW P, VfsTypeOK(P), NEW pid, NEW fd \in Fds, VfsClose(pid, fd)
  PROVE  VfsTypeOK(P)' /\ SameOwners(pid)
<1>1. fds' = [fds EXCEPT ![fd] = Closed] /\ disk' = disk
  BY DEF VfsClose
<1>2. disk \in [Names -> Contents \cup {Missing}] /\ fds \in [Fds -> {Closed} \cup OpenFiles(P)]
  BY DEF VfsTypeOK, OpenFiles
<1>3. VfsTypeOK(P)'
  BY <1>1, <1>2, OneFileChanges
<1>4. \A g \in Fds : fds'[g] = IF g = fd THEN Closed ELSE fds[g]
  BY <1>1, <1>2
<1>5. SameOwners(pid)
  BY <1>4 DEF SameOwners, Closed
<1> QED BY <1>3, <1>5

(* The program's descriptors, and no others, are closed with it. *)
LEMMA TaskClosedKeeps ==
  ASSUME NEW P, VfsTypeOK(P), NEW pid, fds' = TaskClosed(pid), disk' = disk
  PROVE  /\ VfsTypeOK(P)'
         /\ \A fd \in Fds : fds'[fd].used =>
              /\ fds[fd].used /\ fds'[fd].owner = fds[fd].owner
              /\ fds[fd].owner = pid => pid = 0
<1>1. disk \in [Names -> Contents \cup {Missing}] /\ fds \in [Fds -> {Closed} \cup OpenFiles(P)]
      /\ \A g \in Fds : fds[g].used => fds[g].pos <= fds[g].size
  BY DEF VfsTypeOK, OpenFiles
<1>2. \A fd \in Fds : fds'[fd] = IF pid # 0 /\ fds[fd].used /\ fds[fd].owner = pid
                                 THEN Closed ELSE fds[fd]
  BY DEF TaskClosed
<1>3. fds' \in [Fds -> {Closed} \cup OpenFiles(P)]
  BY <1>1, <1>2 DEF TaskClosed
<1>4. ~Closed.used
  BY DEF Closed
<1>5. \A fd \in Fds : fds'[fd].used => fds'[fd] = fds[fd] /\ ~(pid # 0 /\ fds[fd].used /\ fds[fd].owner = pid)
  BY <1>2, <1>4
<1>6. \A fd \in Fds : fds'[fd].used => fds'[fd].pos <= fds'[fd].size
  BY <1>1, <1>5
<1>7. VfsTypeOK(P)'
  BY <1>1, <1>3, <1>6 DEF VfsTypeOK, OpenFiles, Fds
<1> QED BY <1>5, <1>7

LEMMA UserStarts == UserInit => UserInv
<1> SUFFICES ASSUME UserInit PROVE MemOK /\ TasksOK /\ FdsOK /\ OneImage
  BY UserParts
<1>1. /\ map \in [UserWindow -> {"none", "user", "kernel"}]
      /\ \A p \in UserWindow : map[p] # "user"
  BY DEF UserInit
<1>2. UserPages(Mem) = {}
  BY <1>1 DEF UserPages, Mem
<1>3. Weight(Mem) = RamFrames
  <2>1. Mem.free = RamFrames /\ Mem.tables = {}
    BY DEF UserInit, Mem
  <2>2. Cardinality({}) = 0
    BY FS_EmptySet
  <2> QED BY <1>2, <2>1, <2>2, Bounds DEF Weight
<1>4. MemOK
  <2>1. PagesKnown
    BY <1>2 DEF PagesKnown, UserInit
  <2>2. tables \subseteq 0..Pages \div Tables /\ free \in 0..RamFrames
        /\ tracked \subseteq UserWindow /\ mmaps \subseteq UserWindow
        /\ bump \in Stack + 1..Pages /\ panic \in BOOLEAN
    <3>1. RamFrames \in 0..RamFrames /\ Stack + 1 \in Stack + 1..Pages
      BY Bounds
    <3>2. tables = {} /\ free = RamFrames /\ tracked = {} /\ mmaps = {} /\ bump = Stack + 1
          /\ panic = FALSE
      BY DEF UserInit
    <3> QED BY <3>1, <3>2
  <2> QED BY <1>1, <1>3, <2>1, <2>2 DEF MemOK
<1>5. \A s \in 1..Slots : ~Live(s)
  BY DEF UserInit, NoTask, Live
<1>6. TasksOK
  <2>1. NoTask \in Tasks
    <3>1. 0 \in UserWindow /\ Bad \in Contents /\ 0 \in 0..nextPid - 1
      BY Bounds, UserAssumption DEF UserWindow, UserInit
    <3> QED BY <3>1 DEF NoTask, Tasks
  <2>2. tasks \in [1..Slots -> Tasks]
    BY <2>1 DEF UserInit
  <2>3. nextPid \in 1..MaxCalls + 1 /\ keys \in 0..1 /\ calls \in 0..MaxCalls /\ nextPid <= calls + 1
    BY Bounds DEF UserInit
  <2> QED BY <1>5, <2>2, <2>3 DEF TasksOK, OneOwner
<1>7. FdsOK
  <2>1. disk \in [Names -> Contents \cup {Missing}] /\ fds = [fd \in Fds |-> Closed]
    BY DEF UserInit, VfsInit
  <2>2. \A fd \in Fds : ~fds[fd].used
    BY <2>1 DEF Closed
  <2> QED BY <2>1, <2>2 DEF FdsOK, VfsTypeOK, FdsOwned
<1>8. OneImage
  BY <1>5 DEF OneImage
<1> QED BY <1>4, <1>6, <1>7, <1>8

(* Numbers of tasks are given out one by one. *)
LEMMA Counting ==
  ASSUME TasksOK, Count
  PROVE  /\ calls \in Nat /\ nextPid \in Nat \ {0} /\ nextPid <= calls + 1 /\ calls' = calls + 1
         /\ calls' \in 0..MaxCalls /\ nextPid + 1 \in 1..MaxCalls + 1 /\ nextPid + 1 <= calls' + 1
BY Bounds DEF TasksOK, OneOwner, Count

(* The tasks stay, whatever is counted. *)
LEMMA TasksStay ==
  ASSUME TasksOK, UNCHANGED <<tasks, nextPid>>, keys' \in 0..1, Count \/ UNCHANGED calls
  PROVE  TasksOK'
<1>1. calls' \in 0..MaxCalls /\ nextPid' <= calls' + 1
  <2>1. CASE Count
    <3>1. calls' \in 0..MaxCalls /\ calls' = calls + 1 /\ calls \in Nat
          /\ nextPid \in Nat /\ nextPid <= calls + 1
      BY <2>1, Counting
    <3> QED BY <3>1
  <2>2. CASE UNCHANGED calls
    BY <2>2 DEF TasksOK, OneOwner
  <2> QED BY <2>1, <2>2
<1>2. /\ \A s, r \in 1..Slots : Live(s)' /\ Live(r)' => s = r
      /\ \A s \in 1..Slots : Live(s)' => tasks'[s].pid \in 1..nextPid' - 1
  BY DEF TasksOK, OneOwner, Live
<1>3. tasks' \in [1..Slots -> Tasks'] /\ nextPid' \in 1..MaxCalls + 1
  BY DEF TasksOK, Tasks, UserWindow
<1> QED BY <1>1, <1>2, <1>3 DEF TasksOK, OneOwner

LEMMA MoreNumbers ==
  ASSUME NEW a \in Nat, NEW b \in Nat, b >= a
  PROVE  0..a - 1 \subseteq 0..b - 1
OBVIOUS

LEMMA FdsStay ==
  ASSUME FdsOK, TasksOK, UNCHANGED vfs, nextPid' \in Nat, nextPid' >= nextPid, FdsOwned'
  PROVE  FdsOK'
<1>1. disk' = disk /\ fds' = fds
  BY DEF vfs
<1>2. 0..nextPid - 1 \subseteq 0..nextPid' - 1
  <2>1. nextPid \in Nat
    BY Bounds DEF TasksOK
  <2> QED BY <2>1, MoreNumbers
<1>3. VfsTypeOK(0..nextPid - 1)
  BY DEF FdsOK
<1>4. OpenFiles(0..nextPid - 1) \subseteq OpenFiles(0..nextPid' - 1)
  BY <1>2 DEF OpenFiles
<1>5. disk' \in [Names -> Contents \cup {Missing}]
  BY <1>1, <1>3 DEF VfsTypeOK
<1>6. fds' \in [Fds -> {Closed} \cup OpenFiles(0..nextPid' - 1)]
  BY <1>1, <1>3, <1>4 DEF VfsTypeOK, OpenFiles
<1>7. \A fd \in Fds : fds'[fd].used => fds'[fd].pos <= fds'[fd].size
  BY <1>1, <1>3 DEF VfsTypeOK
<1>8. VfsTypeOK(0..nextPid - 1)'
  BY <1>5, <1>6, <1>7 DEF VfsTypeOK, OpenFiles, Fds
<1> QED BY <1>8 DEF FdsOK

(* user_spawn_path: the window had no owner, and gets at most one. *)
LEMMA SpawnKeeps ==
  ASSUME UserInv, ~panic, NEW path, Spawn(path)
  PROVE  UserInv'
<1>1. MemOK /\ TasksOK /\ FdsOK /\ UserTypeOK
  BY UserParts DEF UserInv
<1>2. PICK ok \in BOOLEAN :
        /\ LoadPath(path, ok)
        /\ IF ok /\ \E s \in 1..Slots : ~Live(s)
           THEN LET s == CHOOSE s \in 1..Slots : ~Live(s) /\ \A r \in 1..s - 1 : Live(r)
                IN /\ tasks' = [tasks EXCEPT ![s] =
                          [state |-> "run", pid |-> nextPid, prog |-> Image(path),
                           at |-> Programs[Image(path)].entry]]
                   /\ nextPid' = nextPid + 1
           ELSE UNCHANGED <<tasks, nextPid>>
  BY DEF Spawn
<1>3. Count /\ keys' = keys /\ UNCHANGED vfs
  BY DEF Spawn
<1>4. \A s \in 1..Slots : ~Live(s)
  <2>1. \A s \in 1..Slots : Live(s) => tasks[s].pid # 0
    BY <1>1 DEF TasksOK, OneOwner
  <2> QED BY <2>1 DEF Spawn, WindowBusy
<1>5. MemOK' /\ (ok => Valid(Image(path)) /\ tracked' = ImageOf(Image(path)))
  BY <1>1, <1>2, LoadPathKeeps
<1>6. \A fd \in Fds : fds'[fd].used => fds'[fd].owner = 0
  BY <1>1, <1>3, <1>4 DEF FdsOK, FdsOwned, vfs
<1>7. FdsOwned'
  BY <1>6 DEF FdsOwned, Fds
<1>8. keys' \in 0..1
  BY <1>1, <1>3 DEF TasksOK
<1>9. CASE UNCHANGED <<tasks, nextPid>>
  <2>1. TasksOK'
    BY <1>1, <1>3, <1>8, <1>9, TasksStay
  <2>2. nextPid' \in Nat /\ nextPid' >= nextPid
    BY <1>1, <1>9, Bounds DEF TasksOK
  <2>3. FdsOK'
    BY <1>1, <1>3, <1>7, <2>2, FdsStay
  <2>4. OneImage'
    BY <1>4, <1>9 DEF OneImage, Live
  <2> QED BY <1>5, <2>1, <2>3, <2>4, UserPartsNext
<1>10. CASE ok /\ \E s \in 1..Slots : ~Live(s)
  <2> DEFINE new == [state |-> "run", pid |-> nextPid, prog |-> Image(path),
                     at |-> Programs[Image(path)].entry]
  <2>1. PICK s : tasks' = [tasks EXCEPT ![s] = new]
    BY <1>2, <1>10
  <2>2. nextPid' = nextPid + 1
    BY <1>2, <1>10
  <2>3. nextPid \in Nat \ {0} /\ calls' \in 0..MaxCalls /\ nextPid' \in 1..MaxCalls + 1
        /\ nextPid' <= calls' + 1
    BY <1>1, <1>3, <2>2, Counting
  <2>4. new.prog = Image(path) /\ new.pid = nextPid /\ new \in Tasks'
    <3>1. Image(path) \in Contents /\ Programs[Image(path)].entry \in UserWindow
      BY <1>5, <1>10, UserAssumption DEF Valid, UserWindow
    <3>2. nextPid \in 0..nextPid' - 1
      BY <2>2, <2>3
    <3> QED BY <3>1, <3>2 DEF Tasks, UserWindow
  <2> HIDE DEF new
  <2>5. tasks \in [1..Slots -> Tasks]
    BY <1>1 DEF TasksOK
  <2>6. \A r \in 1..Slots : tasks'[r] = IF r = s THEN new ELSE tasks[r]
    BY <2>1, <2>5
  <2>7. Tasks \subseteq Tasks'
    <3>1. 0..nextPid - 1 \subseteq 0..nextPid' - 1
      BY <2>2, <2>3
    <3> QED BY <3>1 DEF Tasks, UserWindow
  <2>8. tasks' \in [1..Slots -> Tasks']
    BY <2>1, <2>4, <2>5, <2>7
  <2>9. \A r \in 1..Slots : Live(r)' => r = s
    BY <1>4, <2>6 DEF Live
  <2>10. \A r \in 1..Slots : Live(r)' => tasks'[r].pid \in 1..nextPid' - 1
    BY <2>2, <2>3, <2>4, <2>6, <2>9
  <2>11. TasksOK'
    BY <1>8, <2>3, <2>8, <2>9, <2>10 DEF TasksOK, OneOwner
  <2>12. FdsOK'
    <3>1. nextPid' \in Nat /\ nextPid' >= nextPid
      BY <2>2, <2>3
    <3> QED BY <1>1, <1>3, <1>7, <3>1, FdsStay
  <2>13. OneImage'
    <3>1. \A r \in 1..Slots : Live(r)' => tasks'[r].prog = Image(path)
      BY <2>4, <2>6, <2>9
    <3> QED BY <1>5, <1>10, <2>9, <3>1 DEF OneImage, ImageOf
  <2> QED BY <1>5, <2>11, <2>12, <2>13, UserPartsNext
<1> QED BY <1>2, <1>9, <1>10

(* user_exec_path: the caller is the one owner of the window. *)
LEMMA ExecKeeps ==
  ASSUME UserInv, ~panic, NEW s \in 1..Slots, NEW path, Exec(s, path)
  PROVE  UserInv'
<1>1. MemOK /\ TasksOK /\ FdsOK /\ UserTypeOK /\ OneImage
  BY UserParts DEF UserInv
<1>2. PICK ok \in BOOLEAN :
        /\ LoadPath(path, ok)
        /\ tasks' = IF ok
                    THEN [tasks EXCEPT ![s].prog = Image(path),
                                       ![s].at = Programs[Image(path)].entry]
                    ELSE tasks
  BY DEF Exec
<1>3. Count /\ keys' = keys /\ nextPid' = nextPid /\ UNCHANGED vfs /\ Live(s)
  BY DEF Exec, Runs, Live
<1>4. /\ MemOK'
      /\ ok => Valid(Image(path)) /\ tracked' = ImageOf(Image(path))
      /\ ~ok => tracked' \in {{}, tracked}
  BY <1>1, <1>2, LoadPathKeeps
<1>5. tasks \in [1..Slots -> Tasks] /\ nextPid \in Nat /\ calls' \in 0..MaxCalls /\ nextPid' <= calls' + 1
      /\ nextPid' \in 1..MaxCalls + 1 /\ keys' \in 0..1
  <2>1. calls' = calls + 1 /\ nextPid <= calls + 1 /\ calls \in Nat /\ nextPid \in Nat
        /\ calls' \in 0..MaxCalls
    BY <1>1, <1>3, Counting
  <2> QED BY <1>1, <1>3, <2>1 DEF TasksOK
<1>6. PICK new : /\ tasks' = [tasks EXCEPT ![s] = new] /\ new \in Tasks
                 /\ new.pid = tasks[s].pid /\ new.state = tasks[s].state
                 /\ new.prog = IF ok THEN Image(path) ELSE tasks[s].prog
  <2>1. tasks[s] \in Tasks
    BY <1>5
  <2>2. CASE ok
    <3> DEFINE new == [tasks[s] EXCEPT !.prog = Image(path), !.at = Programs[Image(path)].entry]
    <3>1. Image(path) \in Contents /\ Programs[Image(path)].entry \in UserWindow
      BY <1>4, <2>2, UserAssumption DEF Valid, UserWindow
    <3>2. new \in Tasks /\ new.pid = tasks[s].pid /\ new.state = tasks[s].state /\ new.prog = Image(path)
      BY <2>1, <3>1 DEF Tasks
    <3>3. tasks' = [tasks EXCEPT ![s] = new]
      BY <1>2, <1>5, <2>2
    <3> QED BY <2>2, <3>2, <3>3
  <2>3. CASE ~ok
    <3>1. tasks' = [tasks EXCEPT ![s] = tasks[s]]
      BY <1>2, <1>5, <2>3
    <3> QED BY <2>1, <2>3, <3>1
  <2> QED BY <2>2, <2>3
<1>7. \A r \in 1..Slots : tasks'[r] = IF r = s THEN new ELSE tasks[r]
  BY <1>5, <1>6
<1>8. \A r \in 1..Slots : (Live(r)' <=> Live(r)) /\ tasks'[r].pid = tasks[r].pid
  BY <1>6, <1>7 DEF Live
<1>9. \A r \in 1..Slots : Live(r) <=> r = s
  BY <1>1, <1>3 DEF TasksOK, OneOwner
<1>10. TasksOK'
  <2>1. tasks' \in [1..Slots -> Tasks']
    BY <1>3, <1>5, <1>6 DEF Tasks, UserWindow
  <2>2. OneOwner'
    BY <1>1, <1>3, <1>5, <1>8 DEF TasksOK, OneOwner
  <2> QED BY <1>5, <2>1, <2>2 DEF TasksOK
<1>11. FdsOwned'
  BY <1>1, <1>3, <1>8 DEF FdsOK, FdsOwned, Fds, vfs
<1>12. FdsOK'
  <2>1. nextPid' \in Nat /\ nextPid' >= nextPid
    BY <1>3, <1>5
  <2> QED BY <1>1, <1>3, <1>11, <2>1, FdsStay
<1>13. OneImage'
  <2>1. \A r \in 1..Slots : Live(r)' => r = s
    BY <1>8, <1>9
  <2>2. tracked' \in {{}, {Stack} \cup UNION Range(Programs[tasks'[s].prog].segs)}
    <3>1. CASE ok
      BY <1>4, <1>6, <1>7, <3>1 DEF ImageOf
    <3>2. CASE ~ok
      <4>1. tracked \in {{}, {Stack} \cup UNION Range(Programs[tasks[s].prog].segs)}
        BY <1>1, <1>3 DEF OneImage
      <4> QED BY <1>4, <1>6, <1>7, <3>2, <4>1
    <3> QED BY <3>1, <3>2
  <2> QED BY <2>1, <2>2 DEF OneImage
<1> QED BY <1>4, <1>10, <1>12, <1>13, UserPartsNext

LEMMA MmapStep ==
  ASSUME UserInv, ~panic, NEW s, NEW wish \in {0} \cup UserWindow, NEW len \in 1..2, Mmap(s, wish, len)
  PROVE  UserInv'
<1>1. MemOK /\ TasksOK /\ FdsOK /\ OneImage
  BY UserParts
<1>2. Count /\ UNCHANGED <<tasks, nextPid>> /\ keys' = keys /\ UNCHANGED vfs
  BY DEF Mmap
<1>3. MemOK' /\ tracked' = tracked
  BY <1>1, MmapKeeps
<1>4. TasksOK'
  <2>1. keys' \in 0..1
    BY <1>1, <1>2 DEF TasksOK
  <2> QED BY <1>1, <1>2, <2>1, TasksStay
<1>5. FdsOK'
  <2>1. FdsOwned'
    BY <1>1, <1>2 DEF FdsOK, FdsOwned, Fds, vfs, Live
  <2>2. nextPid' \in Nat /\ nextPid' >= nextPid
    BY <1>1, <1>2, Bounds DEF TasksOK
  <2> QED BY <1>1, <1>2, <2>1, <2>2, FdsStay
<1>6. OneImage'
  BY <1>1, <1>2, <1>3 DEF OneImage, Live
<1> QED BY <1>3, <1>4, <1>5, <1>6, UserPartsNext

(* Nothing but descriptors changes: a call on a file. *)
LEMMA FileCallKeeps ==
  ASSUME UserInv, UNCHANGED <<mem, tasks, nextPid, keys, panic>>, Count \/ UNCHANGED calls,
         NEW pid, pid = 0 \/ \E s \in 1..Slots : Live(s) /\ tasks[s].pid = pid,
         \/ \E n \in Names : VfsOpen(pid, n)
         \/ \E fd \in Fds : VfsClose(pid, fd) \/ VfsRead(pid, fd) \/ \E c \in Contents : VfsWrite(pid, fd, c)
  PROVE  UserInv'
<1>1. MemOK /\ TasksOK /\ FdsOK /\ OneImage
  BY UserParts
<1>2. nextPid \in Nat \ {0}
  BY <1>1, Bounds DEF TasksOK
<1>3. PICK P : P = 0..nextPid - 1
  OBVIOUS
<1>4. pid \in P
  <2>1. 0 \in P
    BY <1>2, <1>3
  <2>2. \A s \in 1..Slots : tasks[s].pid \in P
    BY <1>1, <1>3 DEF TasksOK, Tasks
  <2> QED BY <2>1, <2>2
<1>5. VfsTypeOK(P)
  BY <1>1, <1>3 DEF FdsOK
<1>6. VfsTypeOK(P)' /\ SameOwners(pid)
  BY <1>4, <1>5, OpenKeeps, CloseKeeps, ReadKeeps, WriteKeeps
<1>7. FdsOK'
  <2>1. VfsTypeOK(0..nextPid - 1)'
    BY <1>3, <1>6 DEF VfsTypeOK, Fds
  <2>2. FdsOwned'
    <3> SUFFICES ASSUME NEW fd \in Fds, fds'[fd].used
                 PROVE  fds'[fd].owner = 0
                        \/ \E s \in 1..Slots : Live(s)' /\ tasks'[s].pid = fds'[fd].owner
      BY DEF FdsOwned, Fds
    <3>1. \A s \in 1..Slots : (Live(s)' <=> Live(s)) /\ tasks'[s].pid = tasks[s].pid
      BY DEF Live
    <3>2. fds'[fd].owner = pid \/ (fds[fd].used /\ fds'[fd].owner = fds[fd].owner)
      BY <1>6 DEF SameOwners
    <3>3. fds[fd].used => (fds[fd].owner = 0
                           \/ \E s \in 1..Slots : Live(s) /\ tasks[s].pid = fds[fd].owner)
      BY <1>1 DEF FdsOK, FdsOwned
    <3> QED BY <3>1, <3>2, <3>3
  <2> QED BY <2>1, <2>2 DEF FdsOK
<1>8. MemOK'
  BY <1>1, MemStays
<1>9. TasksOK'
  <2>1. keys' \in 0..1
    BY <1>1 DEF TasksOK
  <2> QED BY <1>1, <2>1, TasksStay
<1>10. OneImage'
  BY <1>1 DEF OneImage, Live, mem
<1> QED BY <1>7, <1>8, <1>9, <1>10, UserPartsNext

(* The files stay, and so does the memory: a read of the keyboard begins   *)
(* or ends, or a key is pressed.                                           *)
LEMMA KeyKeeps ==
  ASSUME UserInv, UNCHANGED <<mem, nextPid, panic, vfs>>, Count \/ UNCHANGED calls, keys' \in 0..1,
         NEW s, NEW state \in {"run", "reading"},
         (tasks' = [tasks EXCEPT ![s].state = state] /\ Live(s)) \/ tasks' = tasks
  PROVE  UserInv'
<1>1. MemOK /\ TasksOK /\ FdsOK /\ OneImage
  BY UserParts
<1>2. tasks \in [1..Slots -> Tasks]
  BY <1>1 DEF TasksOK
<1>3. \A r \in 1..Slots : (Live(r)' <=> Live(r)) /\ tasks'[r].pid = tasks[r].pid
                          /\ tasks'[r].prog = tasks[r].prog
  <2>1. CASE tasks' = tasks
    BY <2>1 DEF Live
  <2>2. CASE tasks' = [tasks EXCEPT ![s].state = state] /\ Live(s)
    <3> SUFFICES ASSUME NEW r \in 1..Slots
                 PROVE  (Live(r)' <=> Live(r)) /\ tasks'[r].pid = tasks[r].pid
                        /\ tasks'[r].prog = tasks[r].prog
      OBVIOUS
    <3>1. CASE r = s
      <4>1. tasks'[r] = [tasks[r] EXCEPT !.state = state] /\ tasks[r] \in Tasks
        BY <1>2, <2>2, <3>1
      <4>2. tasks'[r].state = state /\ tasks'[r].pid = tasks[r].pid /\ tasks'[r].prog = tasks[r].prog
        BY <4>1 DEF Tasks
      <4> QED BY <2>2, <3>1, <4>2 DEF Live
    <3>2. CASE r # s
      BY <1>2, <2>2, <3>2 DEF Live
    <3> QED BY <3>1, <3>2
  <2> QED BY <2>1, <2>2
<1>4. tasks' \in [1..Slots -> Tasks]
  <2>1. ASSUME NEW r \in 1..Slots PROVE [tasks[r] EXCEPT !.state = state] \in Tasks
    BY <1>2 DEF Tasks
  <2> QED BY <1>2, <2>1
<1>5. TasksOK'
  <2>1. calls' \in 0..MaxCalls /\ nextPid' <= calls' + 1
    <3>1. CASE Count
      <4>1. calls' \in 0..MaxCalls /\ calls' = calls + 1 /\ calls \in Nat
            /\ nextPid \in Nat /\ nextPid <= calls + 1
        BY <1>1, <3>1, Counting
      <4> QED BY <4>1
    <3>2. CASE UNCHANGED calls
      BY <1>1, <3>2 DEF TasksOK, OneOwner
    <3> QED BY <3>1, <3>2
  <2>2. tasks' \in [1..Slots -> Tasks'] /\ nextPid' \in 1..MaxCalls + 1
    BY <1>1, <1>4 DEF TasksOK, Tasks, UserWindow
  <2>3. OneOwner'
    BY <1>1, <1>3, <2>1 DEF TasksOK, OneOwner
  <2> QED BY <2>1, <2>2, <2>3 DEF TasksOK
<1>6. FdsOK'
  <2>1. FdsOwned'
    BY <1>1, <1>3 DEF FdsOK, FdsOwned, Fds, vfs
  <2>2. nextPid' \in Nat /\ nextPid' >= nextPid
    BY <1>1, Bounds DEF TasksOK
  <2> QED BY <1>1, <2>1, <2>2, FdsStay
<1>7. OneImage'
  BY <1>1, <1>3 DEF OneImage, mem
<1>8. MemOK'
  BY <1>1, MemStays
<1> QED BY <1>5, <1>6, <1>7, <1>8, UserPartsNext

(* task_exit: the window has no owner, and the descriptors of its number   *)
(* are closed.                                                             *)
LEMMA ExitKeeps ==
  ASSUME UserInv, NEW s \in 1..Slots, Live(s), TaskExit(s)
  PROVE  UserInv'
<1>1. MemOK /\ TasksOK /\ FdsOK /\ OneImage
  BY UserParts
<1>2. /\ tasks' = [tasks EXCEPT ![s] = NoTask] /\ fds' = TaskClosed(tasks[s].pid) /\ disk' = disk
      /\ UNCHANGED <<mem, panic>> /\ nextPid' = nextPid /\ keys' = keys /\ calls' = calls
  BY DEF TaskExit
<1>3. \A r \in 1..Slots : ~Live(r)'
  <2>1. \A r \in 1..Slots : r # s => ~Live(r)
    BY <1>1 DEF TasksOK, OneOwner
  <2>2. \A r \in 1..Slots : tasks'[r] = IF r = s THEN NoTask ELSE tasks[r]
    BY <1>1, <1>2 DEF TasksOK
  <2> QED BY <2>1, <2>2 DEF Live, NoTask
<1>4. MemOK'
  BY <1>1, <1>2, MemStays
<1>5. TasksOK'
  <2>1. NoTask \in Tasks
    <3>1. 0 \in UserWindow /\ Bad \in Contents /\ 0 \in 0..nextPid - 1
      BY <1>1, Bounds, UserAssumption DEF UserWindow, TasksOK
    <3> QED BY <3>1 DEF NoTask, Tasks
  <2>2. tasks' \in [1..Slots -> Tasks]
    BY <1>1, <1>2, <2>1 DEF TasksOK
  <2>3. tasks' \in [1..Slots -> Tasks']
    BY <1>2, <2>2 DEF Tasks, UserWindow
  <2>4. OneOwner'
    BY <1>1, <1>2, <1>3 DEF TasksOK, OneOwner
  <2> QED BY <1>1, <1>2, <2>3, <2>4 DEF TasksOK
<1>6. FdsOK'
  <2>1. PICK P : P = 0..nextPid - 1
    OBVIOUS
  <2>2. PICK pid : pid = tasks[s].pid
    OBVIOUS
  <2>3. pid # 0
    BY <1>1, <2>2 DEF TasksOK, OneOwner
  <2>4. VfsTypeOK(P)
    BY <1>1, <2>1 DEF FdsOK
  <2>5. /\ VfsTypeOK(P)'
        /\ \A fd \in Fds : fds'[fd].used => /\ fds[fd].used /\ fds'[fd].owner = fds[fd].owner
                                            /\ fds[fd].owner # pid
    BY <1>2, <2>2, <2>3, <2>4, TaskClosedKeeps
  <2>6. \A fd \in Fds : fds'[fd].used => fds'[fd].owner = 0
    <3>1. \A r \in 1..Slots : Live(r) => r = s
      BY <1>1 DEF TasksOK, OneOwner
    <3>2. \A fd \in Fds : fds[fd].used => fds[fd].owner = 0 \/ fds[fd].owner = pid
      BY <1>1, <2>2, <3>1 DEF FdsOK, FdsOwned
    <3> QED BY <2>5, <3>2
  <2>7. FdsOwned'
    BY <2>6 DEF FdsOwned, Fds
  <2>8. VfsTypeOK(0..nextPid - 1)'
    BY <1>2, <2>1, <2>5 DEF VfsTypeOK, Fds
  <2> QED BY <2>7, <2>8 DEF FdsOK
<1>7. OneImage'
  BY <1>3 DEF OneImage
<1> QED BY <1>4, <1>5, <1>6, <1>7, UserPartsNext

LEMMA SystemCallKeeps ==
  ASSUME UserInv, ~panic, NEW s \in 1..Slots, SystemCall(s)
  PROVE  UserInv'
<1>1. ASSUME NEW path \in Paths, Exec(s, path) PROVE UserInv'
  BY <1>1, ExecKeeps
<1>2. ASSUME NEW wish \in {0} \cup UserWindow, NEW len \in 1..2, Mmap(s, wish, len) PROVE UserInv'
  BY <1>2, MmapStep
<1>3. ASSUME \/ \E n \in Names : SysOpen(s, n)
             \/ \E fd \in Fds : SysClose(s, fd) \/ SysRead(s, fd) \/ \E c \in Contents : SysWrite(s, fd, c)
      PROVE  UserInv'
  <2>1. Count /\ Live(s) /\ Unmoved
    BY <1>3 DEF SysOpen, SysClose, SysRead, SysWrite, Runs, Live
  <2>2. PICK pid : pid = tasks[s].pid
    OBVIOUS
  <2>3. \/ \E n \in Names : VfsOpen(pid, n)
        \/ \E fd \in Fds : VfsClose(pid, fd) \/ VfsRead(pid, fd) \/ \E c \in Contents : VfsWrite(pid, fd, c)
    BY <1>3, <2>2 DEF SysOpen, SysClose, SysRead, SysWrite
  <2>4. UNCHANGED <<mem, tasks, nextPid, keys, panic>>
    BY <2>1 DEF Unmoved
  <2> QED BY <2>1, <2>2, <2>3, <2>4, FileCallKeeps
<1>4. ASSUME ReadKey(s) PROVE UserInv'
  <2>1. Count /\ Live(s) /\ UNCHANGED <<mem, nextPid, panic, vfs>> /\ keys' \in 0..1
        /\ tasks' = [tasks EXCEPT ![s].state = "reading"]
    BY <1>4, UserParts DEF ReadKey, Runs, Live, TasksOK
  <2> QED BY <2>1, KeyKeeps
<1>5. ASSUME SysExit(s) PROVE UserInv'
  <2>1. Live(s) /\ TaskExit(s)
    BY <1>5 DEF SysExit, Runs, Live
  <2> QED BY <2>1, ExitKeeps
<1> QED BY <1>1, <1>2, <1>3, <1>4, <1>5 DEF SystemCall

LEMMA UserInductive == UserInv /\ [UserNext]_userVars => UserInv'
<1> SUFFICES ASSUME UserInv, [UserNext]_userVars PROVE UserInv'
  OBVIOUS
<1>1. ASSUME ~panic, NEW path \in Paths, Spawn(path) PROVE UserInv'
  BY <1>1, SpawnKeeps
<1>2. ASSUME ~panic, NEW s \in 1..Slots, SystemCall(s) PROVE UserInv'
  BY <1>2, SystemCallKeeps
<1>3. ASSUME NEW s \in 1..Slots, ReadKeyDone(s) PROVE UserInv'
  <2>1. UNCHANGED calls /\ Live(s) /\ UNCHANGED <<mem, nextPid, panic, vfs>> /\ keys' \in 0..1
        /\ tasks' = [tasks EXCEPT ![s].state = "run"]
    BY <1>3, UserParts DEF ReadKeyDone, Live, TasksOK
  <2> QED BY <2>1, KeyKeeps
<1>4. ASSUME NEW s \in 1..Slots, PageFault(s) PROVE UserInv'
  <2>1. Live(s) /\ TaskExit(s)
    BY <1>4 DEF PageFault, Live
  <2> QED BY <2>1, ExitKeeps
<1>5. ASSUME KeyPressed PROVE UserInv'
  <2>1. UNCHANGED calls /\ UNCHANGED <<mem, nextPid, panic, vfs>> /\ keys' \in 0..1 /\ tasks' = tasks
    BY <1>5 DEF KeyPressed
  <2>2. "run" \in {"run", "reading"}
    OBVIOUS
  <2> QED BY <2>1, <2>2, KeyKeeps
<1>6. ASSUME ShellCat PROVE UserInv'
  <2>1. UNCHANGED <<mem, tasks, nextPid, keys, panic>> /\ (Count \/ UNCHANGED calls)
    BY <1>6 DEF ShellCat, Unmoved
  <2>2. \/ \E n \in Names : VfsOpen(0, n)
        \/ \E fd \in Fds : VfsClose(0, fd) \/ VfsRead(0, fd) \/ \E c \in Contents : VfsWrite(0, fd, c)
    BY <1>6 DEF ShellCat, Mine
  <2> QED BY <2>1, <2>2, FileCallKeeps
<1>7. CASE UNCHANGED userVars
  <2>1. UNCHANGED <<mem, tasks, nextPid, keys, panic, calls, vfs>>
    BY <1>7 DEF userVars
  <2>2. keys' \in 0..1 /\ "run" \in {"run", "reading"}
    BY <2>1, UserParts DEF TasksOK
  <2> QED BY <2>1, <2>2, KeyKeeps
<1> QED BY <1>1, <1>2, <1>3, <1>4, <1>5, <1>6, <1>7 DEF UserNext

LEMMA UserAlways == UserSpec => []UserInv
<1>1. UserInit => UserInv
  BY UserStarts
<1>2. UserInv /\ [UserNext]_userVars => UserInv'
  BY UserInductive
<1> QED BY <1>1, <1>2, PTL DEF UserSpec

(* In every reachable state each frame is free, under a page of the image, *)
(* under a page mmap gave out, or a page table, and no page is two of      *)
(* these, whatever load, mapping or exec failed half way                   *)
(* (vmm_map_user_anon, elf64_load, user_window_unmap); and every variable  *)
(* is in its range, a position within its file included.                   *)
THEOREM UserMemoryStaysSound == UserSpec => []MemorySound
<1>1. UserInv => MemorySound
  <2> SUFFICES ASSUME UserInv PROVE PagesAccounted
    BY DEF UserInv, MemorySound
  <2> SUFFICES ASSUME ~panic
               PROVE  /\ UserPages(Mem) = tracked \cup mmaps /\ tracked \cap mmaps = {}
                      /\ free + Cardinality(tracked \cup mmaps) + Cardinality(tables) = RamFrames
    BY DEF PagesAccounted
  <2>1. UserPages(Mem) = tracked \cup mmaps /\ tracked \cap mmaps = {} /\ Weight(Mem) = RamFrames
    BY DEF UserInv, PagesKnown
  <2>2. Mem.free = free /\ Mem.tables = tables
    BY DEF Mem
  <2> QED BY <2>1, <2>2 DEF Weight
<1> QED BY <1>1, UserAlways, PTL

(* There is one ring-3 task, and what is mapped for it is its own program  *)
(* and its stack, or nothing after an exec that failed (user_window_busy,  *)
(* elf64_load).                                                            *)
THEOREM WindowHasOneImage == UserSpec => []OneImage
<1>1. UserInv => OneImage
  BY DEF UserInv
<1> QED BY <1>1, UserAlways, PTL

(* An open descriptor is the kernel's or a living task's: a program that   *)
(* dies, by exit or by a fault, gives back its own (vfs_close_task).       *)
THEOREM DescriptorsGoBack == UserSpec => []FdsOwned
<1>1. UserInv => FdsOwned
  BY DEF UserInv
<1> QED BY <1>1, UserAlways, PTL
=============================================================================
