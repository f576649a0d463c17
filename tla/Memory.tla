-------------------------------- MODULE Memory --------------------------------
(***************************************************************************)
(* The kernel heap of src/mm/heap.c (x86_64) on top of the frame allocator *)
(* Pmm, among the other holders of frames: page tables and user pages one  *)
(* frame at a time, framebuffer layers and wallpapers as runs that are     *)
(* never given back.                                                       *)
(*                                                                         *)
(* kmalloc and kfree are atomic: heap_lock is held with interrupts off.    *)
(* Addresses and sizes are in the units of PageSize; a block is its header *)
(* at addr, Hdr units, then size units.  The list is a sequence in list    *)
(* order.  A kmalloc that returns NULL for want of memory changes nothing  *)
(* and is not an action.                                                   *)
(*                                                                         *)
(* Bounds: Requests sizes, MaxLive allocations at once, Layers run         *)
(* lengths, MaxPages single frames at once.  Mutants have a suffix after _ *)
(* in their name.                                                          *)
(***************************************************************************)
EXTENDS Pmm, Sequences

CONSTANTS
  Hdr, Align,                  \* sizeof(struct heap_block), HEAP_ALIGN
  InitialPages, GrowPages,     \* HEAP_INITIAL_PAGES, HEAP_GROW_PAGES
  Requests, MaxLive, Layers, MaxPages

ASSUME MemoryAssumption ==
  /\ Hdr \in Nat \ {0} /\ Align \in Nat \ {0}
  /\ Hdr < PageSize /\ Hdr % Align = 0 /\ PageSize % Align = 0
  /\ InitialPages \in Nat \ {0} /\ GrowPages \in Nat \ {0}
  /\ Requests \subseteq Nat \ {0} /\ Layers \subseteq Nat \ {0}
  /\ MaxLive \in Nat /\ MaxPages \in Nat

VARIABLES
  blocks,              \* the list at heap_head; << >> before heap_init
  heapUsed, heapFree,  \* heap_used_os, heap_free_os
  heapPages,           \* heap_pages_os
  live,                \* history: what kmalloc gave out, [ptr, len]
  regions,             \* history: the runs of frames the heap holds
  singles,             \* history: the frames held one by one
  starved              \* history: kmalloc got new frames and still gave NULL

heapVars == <<blocks, heapUsed, heapFree, heapPages, live, regions, starved>>
vars == <<pmmVars, heapVars, singles>>

Block(addr, size, free) == [addr |-> addr, size |-> size, free |-> free]
EndOf(b) == b.addr + Hdr + b.size
AlignUp(n) == ((n + Align - 1) \div Align) * Align

Init ==
  /\ PmmInit
  /\ blocks = << >> /\ heapUsed = 0 /\ heapFree = 0 /\ heapPages = 0
  /\ live = {} /\ regions = {} /\ singles = {} /\ starved = FALSE

(* heap_init; without a run the kernel panics.                             *)
HeapInit ==
  /\ blocks = << >>
  /\ \E s \in Frames :
       /\ AllocRun(s, InitialPages)
       /\ blocks' = <<Block(s * PageSize, InitialPages * PageSize - Hdr, TRUE)>>
       /\ regions' = {Window(s, InitialPages)}
  /\ heapPages' = InitialPages
  /\ heapUsed' = 0 /\ heapFree' = InitialPages * PageSize - Hdr
  /\ UNCHANGED <<live, singles, starved>>

-----------------------------------------------------------------------------
(* heap_try_alloc: first fit, the rest of the block split off if it can    *)
(* hold a header and one more unit of alignment.                           *)

Fit(bs, size) == {i \in DOMAIN bs : bs[i].free /\ bs[i].size >= size}
FirstFit(bs, size) == CHOOSE i \in Fit(bs, size) : \A j \in Fit(bs, size) : i <= j

Split(b, size) ==
  IF b.size < size + Hdr + Align
  THEN <<[b EXCEPT !.free = FALSE]>>
  ELSE <<Block(b.addr, size, FALSE),
         Block(b.addr + Hdr + size, b.size - size - Hdr, TRUE)>>

\* What an allocation of size in block b adds to heap_used_os.
Charge(b, size) == b.size

\* heap_try_alloc on a list bs whose heap_free_os is free.
TryAlloc(bs, free, size, len) ==
  LET i == FirstFit(bs, size)
      parts == Split(bs[i], size)
  IN  /\ blocks' = SubSeq(bs, 1, i - 1) \o parts \o SubSeq(bs, i + 1, Len(bs))
      /\ heapFree' = free - Charge(parts[1], size)
      /\ heapUsed' = heapUsed + Charge(parts[1], size)
      /\ live' = live \cup {[ptr |-> bs[i].addr + Hdr, len |-> len]}

Kmalloc(len) ==
  /\ blocks # << >> /\ Cardinality(live) < MaxLive
  /\ Fit(blocks, AlignUp(len)) # {}
  /\ TryAlloc(blocks, heapFree, AlignUp(len), len)
  /\ UNCHANGED <<pmmVars, heapPages, regions, singles, starved>>

(* heap_expand: a new run of frames, joined to the last block if that one  *)
(* is free and ends where the run starts (heap_append_region).             *)
PagesFor(size) ==
  LET n == (size + Hdr + PageSize - 1) \div PageSize
  IN  IF n < GrowPages THEN GrowPages ELSE n

JoinsTail(base) ==
  LET tail == blocks[Len(blocks)] IN tail.free /\ EndOf(tail) = base
Appended(base, bytes) ==
  IF JoinsTail(base)
  THEN [blocks EXCEPT ![Len(blocks)].size = @ + bytes]
  ELSE Append(blocks, Block(base, bytes - Hdr, TRUE))

KmallocGrows(len) ==
  /\ blocks # << >> /\ Cardinality(live) < MaxLive
  /\ Fit(blocks, AlignUp(len)) = {}
  /\ LET n == PagesFor(AlignUp(len))
     IN  \E s \in Frames :
           LET grown == Appended(s * PageSize, n * PageSize)
               free == heapFree + n * PageSize - (IF JoinsTail(s * PageSize) THEN 0 ELSE Hdr)
           IN  /\ AllocRun(s, n)
               /\ heapPages' = heapPages + n
               /\ regions' = regions \cup {Window(s, n)}
               /\ IF Fit(grown, AlignUp(len)) # {}
                    THEN /\ TryAlloc(grown, free, AlignUp(len), len)
                         /\ UNCHANGED starved
                    ELSE /\ starved' = TRUE
                         /\ blocks' = grown /\ heapFree' = free
                         /\ UNCHANGED <<heapUsed, live>>
  /\ UNCHANGED singles

(* heap_coalesce: from the head, a free block takes in the next one while  *)
(* that is free and adjacent.                                              *)
Absorbs_Swapped(b, c) ==                      \* mutant: the wrong ends compared
  b.free /\ c.free /\ EndOf(c) = b.addr
Absorbs(b, c) == b.free /\ c.free /\ EndOf(b) = c.addr
Join(acc, c) ==
  IF acc # << >> /\ Absorbs(acc[Len(acc)], c)
  THEN [acc EXCEPT ![Len(acc)].size = @ + Hdr + c.size]
  ELSE Append(acc, c)
Coalesced(bs) ==
  LET upTo[n \in 0 .. Len(bs)] ==
        IF n = 0 THEN << >> ELSE Join(upTo[n - 1], bs[n])
  IN  upTo[Len(bs)]

Kfree(a) ==
  /\ \E i \in DOMAIN blocks :
       /\ blocks[i].addr = a.ptr - Hdr
       /\ LET freed == [blocks EXCEPT ![i].free = TRUE]
          IN  /\ blocks' = Coalesced(freed)
              /\ heapUsed' = heapUsed - blocks[i].size
              /\ heapFree' = heapFree + blocks[i].size + Hdr * (Len(freed) - Len(Coalesced(freed)))
  /\ live' = live \ {a}
  /\ UNCHANGED <<pmmVars, heapPages, regions, singles, starved>>

-----------------------------------------------------------------------------
(* The other holders of frames.                                            *)
TakePage ==
  /\ Cardinality(singles) < MaxPages
  /\ \E f \in Frames : AllocPage(f) /\ singles' = singles \cup {f}
  /\ UNCHANGED heapVars
GivePage ==
  /\ \E f \in singles : FreePage(f) /\ singles' = singles \ {f}
  /\ UNCHANGED heapVars
TakeLayer ==
  /\ \E n \in Layers, s \in Frames : AllocRun(s, n)
  /\ UNCHANGED <<heapVars, singles>>
BootDone ==
  /\ blocks # << >>
  /\ ReleaseBootInfo
  /\ UNCHANGED <<heapVars, singles>>

Next ==
  \/ HeapInit
  \/ \E len \in Requests : Kmalloc(len) \/ KmallocGrows(len)
  \/ \E a \in live : Kfree(a)
  \/ TakePage \/ GivePage \/ TakeLayer \/ BootDone

Spec == Init /\ [][Next]_vars

-----------------------------------------------------------------------------
(* Types of the heap's variables, on those of the frame allocator.         *)
TypeOK ==
  /\ PmmTypeOK
  /\ blocks \in Seq([addr : Nat, size : Nat, free : BOOLEAN])
  /\ heapUsed \in Int /\ heapFree \in Int /\ heapPages \in Nat
  /\ live \subseteq [ptr : Nat, len : Requests]
  /\ singles \subseteq Frames
  /\ starved \in BOOLEAN

(* The blocks cover the heap's frames exactly: no unit is in two blocks,   *)
(* none is lost and none is outside, through splits, joins with the tail   *)
(* and coalescing (heap.c:64-187).                                         *)
Extent(b) == b.addr .. (EndOf(b) - 1)
HeapTiled ==
  LET units == UNION {(f * PageSize) .. ((f + 1) * PageSize - 1) : f \in UNION regions}
  IN  /\ UNION {Extent(blocks[i]) : i \in DOMAIN blocks} = units
      /\ \A i, j \in DOMAIN blocks : i # j => Extent(blocks[i]) \cap Extent(blocks[j]) = {}
      /\ heapPages = Cardinality(UNION regions)

(* What kmalloc gave out stays a block in use, large enough and aligned,   *)
(* until it is freed, so kfree always finds its header; and every block in *)
(* use was given out.                                                      *)
LiveIntact ==
  /\ \A a \in live : \E i \in DOMAIN blocks :
       /\ blocks[i].addr + Hdr = a.ptr /\ ~blocks[i].free
       /\ blocks[i].size >= a.len /\ a.ptr % Align = 0
  /\ Cardinality({i \in DOMAIN blocks : ~blocks[i].free}) = Cardinality(live)

(* Free neighbours in the list never stay apart, so freeing everything     *)
(* gives back one block per region (heap_coalesce, heap_append_region).    *)
NoFreeNeighbours ==
  \A i \in 1 .. (Len(blocks) - 1) :
    ~(blocks[i].free /\ blocks[i + 1].free /\ EndOf(blocks[i]) = blocks[i + 1].addr)

\* Total size of the blocks that are free, or of those in use.
Total(free) ==
  LET upTo[n \in 0 .. Len(blocks)] ==
        IF n = 0 THEN 0
        ELSE upTo[n - 1] + (IF blocks[n].free = free THEN blocks[n].size ELSE 0)
  IN  upTo[Len(blocks)]

(* heap_used_os is the total size of the blocks in use.                    *)
HeapUsedExact == heapUsed = Total(FALSE)

(* heap_free_os is the number of free bytes, as heap_print_stats says.     *)
HeapFreeExact == heapFree = Total(TRUE)

(* Whenever the heap could get the frames heap_expand asks for, the second *)
(* heap_try_alloc succeeds (heap.c:276-281): kmalloc never gives NULL with *)
(* the new frames in its list.                                             *)
ExpandSuffices == ~starved

(* The heap's list of blocks is sound after any sequence of kmalloc, growth *)
(* and kfree: it tiles the heap's frames, keeps what was given out, joins   *)
(* what is free, counts what is used and grows by enough (heap.c).          *)
HeapSound ==
  /\ TypeOK /\ HeapTiled /\ LiveIntact
  /\ NoFreeNeighbours /\ HeapUsedExact /\ ExpandSuffices
=============================================================================
