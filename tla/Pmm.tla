--------------------------------- MODULE Pmm ---------------------------------
(***************************************************************************)
(* The physical frame allocator of src/mm/pmm64.c: the bitmap built from   *)
(* the Multiboot2 memory map, its counters, next-fit single frames and     *)
(* first-fit runs of frames.                                               *)
(*                                                                         *)
(* The calls are atomic: the allocator has no lock, but it is called only  *)
(* by idle and by the system calls of the one ring-3 task, which runs      *)
(* while idle does nothing but yield to it.  A region is [base, len] in    *)
(* units of which PageSize make a frame.                                   *)
(*                                                                         *)
(* owners is a history variable: how many callers hold each frame.         *)
(* Mutants have a suffix after _ in their name.                            *)
(***************************************************************************)
EXTENDS Integers, FiniteSets

CONSTANTS
  PageSize,     \* PAGE_SIZE
  MaxFrames,    \* PMM_MAX_FRAMES
  Low, Kernel,  \* the first 1 MiB; _kernel_start to _kernel_end
  Machines,     \* memory maps: [top, avail, info]
  NoRegion

Regions == [base : Nat, len : Nat]

ASSUME PmmAssumption ==
  /\ PageSize \in Nat \ {0} /\ MaxFrames \in Nat
  /\ Low \in Regions /\ Kernel \in Regions
  /\ NoRegion \notin Regions
  /\ \A m \in Machines : m.top \in Nat /\ m.info \in Regions /\ m.avail \subseteq Regions

(* The boot loader puts the Multiboot2 blob in memory that its own map      *)
(* calls available; pmm_release_boot_info gives it out without a look.      *)
ASSUME BootInfoAssumption ==
  \A m \in Machines : \A p \in m.info.base .. (m.info.base + m.info.len - 1) :
    \E r \in m.avail : r.base <= p /\ p < r.base + r.len

VARIABLES
  nframes,                  \* bitmap_frames and total_frames_os
  used,                     \* the frames whose bit is set in frame_bitmap
  usedFrames, freeFrames,   \* used_frames_os, free_frames_os
  hint,                     \* last_free_hint
  info,                     \* s_mb2_addr and s_mb2_size; NoRegion once released
  machine,                  \* the memory map of the machine
  owners                    \* history

counters == <<usedFrames, freeFrames>>
pmmVars == <<nframes, used, counters, hint, info, machine, owners>>

Frames == 0 .. (nframes - 1)
IsFree(f) == f \in Frames \ used              \* ~pmm_is_used

(* pmm_region_frames: the frames a region touches, or those inside it.     *)
Touched(r, n) ==
  {f \in 0 .. (n - 1) :
     r.len > 0 /\ r.base < (f + 1) * PageSize /\ f * PageSize < r.base + r.len}
Inside(r, n) ==
  {f \in 0 .. (n - 1) : r.base <= f * PageSize /\ (f + 1) * PageSize <= r.base + r.len}

Reserved(n) == Touched(Low, n) \cup Touched(Kernel, n)
Lesser(a, b) == IF a < b THEN a ELSE b
Wrap(f) == IF f >= nframes THEN 0 ELSE f

\* The bits of S that pmm_set_used sets in a bitmap u, and pmm_set_free clears.
NewBits_All(S, u) == S                        \* mutant: counts a set bit again
NewBits(S, u) == S \ u
OldBits(S, u) == S \cap u

(* pmm_init: everything used, then the available regions freed, then what  *)
(* is in use already.                                                      *)
PmmInit ==
  /\ machine \in Machines
  /\ nframes = Lesser(machine.top, MaxFrames * PageSize) \div PageSize
  /\ LET ram == UNION {Inside(r, nframes) : r \in machine.avail}
         busy == Reserved(nframes) \cup Touched(machine.info, nframes)
         taken == NewBits(busy, Frames \ ram)
     IN  /\ used = (Frames \ ram) \cup busy
         /\ usedFrames = nframes - Cardinality(ram) + Cardinality(taken)
         /\ freeFrames = Cardinality(ram) - Cardinality(taken)
  /\ hint \in 0 .. nframes
  /\ ~IsFree(hint) => hint = nframes
  /\ \A f \in 0 .. (hint - 1) : ~IsFree(f)
  /\ info = machine.info
  /\ owners = [f \in Frames |-> 0]

\* pmm_set_used and pmm_set_free on every frame of a set.
SetUsed(S) ==
  /\ used' = used \cup S
  /\ usedFrames' = usedFrames + Cardinality(NewBits(S, used))
  /\ freeFrames' = freeFrames - Cardinality(NewBits(S, used))
SetFree(S) ==
  /\ used' = used \ S
  /\ usedFrames' = usedFrames - Cardinality(OldBits(S, used))
  /\ freeFrames' = freeFrames + Cardinality(OldBits(S, used))

HandOut(S) == owners' = [f \in Frames |-> IF f \in S THEN owners[f] + 1 ELSE owners[f]]

(* pmm_alloc_frame, pmm_alloc_page: the next free frame from the hint on.  *)
Ahead(f) == (f - Wrap(hint)) % nframes
AllocPage(f) ==
  /\ IsFree(f)
  /\ \A g \in Frames \ used : Ahead(f) <= Ahead(g)
  /\ SetUsed({f}) /\ HandOut({f})
  /\ hint' = Wrap(f + 1)
  /\ UNCHANGED <<nframes, info, machine>>

(* pmm_free_frame, pmm_free_page, by the holder of a single frame.         *)
FreePage(f) ==
  /\ f \in Frames
  /\ SetFree({f})
  /\ owners' = [owners EXCEPT ![f] = owners[f] - 1]
  /\ hint' = Lesser(hint, f)
  /\ UNCHANGED <<nframes, info, machine>>

\* The frames of a window, and its first one in use.
Window(s, count) == s .. (s + count - 1)
Fits_NotLast(s, count) ==                     \* mutant: last frame not tested
  IsFree(s) /\ \A f \in Window(s, count - 1) : IsFree(f)
Fits(s, count) == \A f \in Window(s, count) : IsFree(f)
FirstUsed(s, count) ==
  CHOOSE f \in Window(s, count) : ~IsFree(f) /\ \A g \in s .. (f - 1) : IsFree(g)

(* The search of pmm_alloc_contiguous, which skips past the first used     *)
(* frame of a window; nframes when there is no run.                        *)
FirstRun_SkipsWindow(count) ==                \* mutant: skips the whole window
  LET from[s \in 0 .. (2 * nframes)] ==
        IF s + count > nframes THEN nframes
        ELSE IF Fits(s, count) THEN s
        ELSE from[s + count]
  IN  from[0]

FirstRun(count) ==
  LET from[s \in 0 .. nframes] ==
        IF s + count > nframes THEN nframes
        ELSE IF Fits(s, count) THEN s
        ELSE from[FirstUsed(s, count) + 1]
  IN  from[0]

(* pmm_alloc_contiguous, when it does not return 0.                        *)
AllocRun(s, count) ==
  /\ s = FirstRun(count)
  /\ s \in Frames /\ Fits(s, count)
  /\ SetUsed(Window(s, count)) /\ HandOut(Window(s, count))
  /\ hint' = Wrap(s + count)
  /\ UNCHANGED <<nframes, info, machine>>

(* pmm_release_boot_info, after the last reader of the Multiboot2 tags:    *)
(* the blob is freed, then the first 1 MiB and the kernel are marked again.*)
ReleaseBootInfo ==
  /\ info # NoRegion
  /\ LET freed == OldBits(Inside(info, nframes), used)
         again == NewBits(Reserved(nframes), used \ freed)
     IN  /\ used' = (used \ freed) \cup again
         /\ usedFrames' = usedFrames - Cardinality(freed) + Cardinality(again)
         /\ freeFrames' = freeFrames + Cardinality(freed) - Cardinality(again)
  /\ info' = NoRegion
  /\ UNCHANGED <<nframes, hint, machine, owners>>

-----------------------------------------------------------------------------
(* The allocator alone: any caller, any order.                             *)
PmmNext ==
  \/ \E f \in Frames : AllocPage(f)
  \/ \E f \in Frames : owners[f] > 0 /\ FreePage(f)
  \/ \E count \in 1 .. nframes, s \in Frames : AllocRun(s, count)
  \/ ReleaseBootInfo

PmmSpec == PmmInit /\ [][PmmNext]_pmmVars

-----------------------------------------------------------------------------
(* Types of the allocator's variables; the hint stays inside the bitmap,   *)
(* or one past it.                                                         *)
PmmTypeOK ==
  /\ nframes \in Nat
  /\ used \subseteq Frames
  /\ usedFrames \in Int /\ freeFrames \in Int
  /\ hint \in 0 .. nframes
  /\ info \in Regions \cup {NoRegion}
  /\ machine \in Machines
  /\ owners \in [Frames -> Int]

(* total = used + free, and both counters tell the truth about the bitmap, *)
(* whatever overlaps the memory map, the kernel and the boot information   *)
(* have (pmm_set_used and pmm_set_free test the bit, pmm64.c:30 and 43).   *)
CountersExact ==
  /\ usedFrames = Cardinality(used)
  /\ usedFrames + freeFrames = nframes

(* Every frame has at most one holder, a held frame is marked used, and    *)
(* nobody is given the kernel, the first 1 MiB or the boot information     *)
(* while it is still read.                                                 *)
Held == Reserved(nframes) \cup (IF info = NoRegion THEN {} ELSE Touched(info, nframes))
OneHolder ==
  /\ \A f \in Frames : owners[f] \in {0, 1}
  /\ \A f \in Frames : owners[f] = 1 => f \in used
  /\ \A f \in Held : owners[f] = 0 /\ f \in used

(* Every frame given out lies wholly in memory the map calls available,    *)
(* although regions start and end anywhere (pmm_region_frames).            *)
HandedOutIsRam ==
  \A f \in Frames : owners[f] > 0 =>
    \A p \in (f * PageSize) .. ((f + 1) * PageSize - 1) :
      \E r \in machine.avail : r.base <= p /\ p < r.base + r.len

(* The skipping search finds the lowest run there is, and fails only when  *)
(* there is none (pmm64.c:281-301).                                        *)
LowestRun ==
  \A count \in 1 .. nframes :
    LET runs == {s \in Frames : Fits(s, count)}
    IN  IF runs = {} THEN FirstRun(count) = nframes
        ELSE FirstRun(count) \in runs /\ \A s \in runs : FirstRun(count) <= s

(* The search gives out the lowest run that is free, and only memory that   *)
(* is there (pmm_alloc_pages, pmm_region_frames).                           *)
FramesGood == HandedOutIsRam /\ LowestRun
=============================================================================
