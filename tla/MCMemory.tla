------------------------------ MODULE MCMemory ------------------------------
(* Small machines for Memory: memory maps of up to eight frames of eight   *)
(* units, with a hole, with unaligned edges, or larger than the bitmap.    *)
(* And small programs for User: two pages of images, one of stack and two   *)
(* to mmap; one program fits, one has a segment where mmap gives pages out, *)
(* one has two segments in the same page, and one has a header elf64_load   *)
(* refuses.  User counts the frames it holds and shares no variable with    *)
(* Memory: a behaviour follows one of the two.                              *)
EXTENDS Memory, User

VARIABLE subject    \* "memory" or "user"

Region(base, len) == [base |-> base, len |-> len]
MCLow == Region(0, 8)
MCKernel == Region(8, 5)
MCMachines ==
  {[top |-> 60, avail |-> {Region(0, 60)}, info |-> Region(16, 10)],
   [top |-> 64, avail |-> {Region(0, 30), Region(34, 30)}, info |-> Region(50, 6)],
   [top |-> 80, avail |-> {Region(0, 64)}, info |-> Region(14, 3)]}

MCPrograms ==
    [hello |-> [segs |-> <<{0}>>, entry |-> 0, good |-> TRUE],
     twoSegs |-> [segs |-> <<{0}, {3}>>, entry |-> 3, good |-> TRUE],
     shared |-> [segs |-> <<{1}, {1}>>, entry |-> 1, good |-> TRUE],
     header |-> [segs |-> <<>>, entry |-> 0, good |-> FALSE]]
MCContents == DOMAIN MCPrograms \cup {"bad"}
MCSize(c) == CASE c = "bad" -> 0 [] c = "header" -> 2 [] OTHER -> 1
MCInitrd == [n \in {"f", "g"} |-> IF n = "f" THEN "twoSegs" ELSE "missing"]

MCInit == subject \in {"memory", "user"} /\ Init /\ UserInit
MCNext ==
    \/ subject = "memory" /\ Next /\ UNCHANGED <<userVars, subject>>
    \/ subject = "user" /\ UserNext /\ UNCHANGED <<vars, subject>>
MCSpec == MCInit /\ [][MCNext]_<<vars, userVars, subject>>
MCUserSpec == MCSpec /\ subject = "user" /\ UserFairness

(* heap_free_os drifts without bound and decides nothing, so states that    *)
(* differ in it alone are one state; so are those that differ only in what  *)
(* the behaviour does not follow.                                           *)
WithoutHeapFree ==
  IF subject = "user" THEN <<userVars>>
  ELSE <<pmmVars, blocks, heapUsed, heapPages, live, regions, singles, starved>>
=====================
