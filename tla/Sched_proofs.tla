----------------------------- MODULE Sched_proofs -----------------------------
(***************************************************************************)
(* StacksSafe and NobodyStranded for any number of task slots and stacks,  *)
(* any width of the pid counter and any depth of nested ticks.  The        *)
(* invariant says what the safety properties leave open: the shape of each *)
(* call stack, where task_create_user is and what it holds there, who owes *)
(* a kfree, and what is left of a task that ended inside its own           *)
(* task_create.                                                            *)
(***************************************************************************)
EXTENDS Sched, FiniteSetTheorems, SequenceTheorems,
        WellFoundedInduction, TLAPS

FrameSet == [pc : CreateSteps \cup {"run", "boot", "switch", "free", "exit"},
             stack : Stacks \cup {NULL}]
Waiting == {"switch", "boot"}          \* frames a task is resumed in
TopOf(t) == frames[t][Len(frames[t])]
Phase == frames[Idle][1].pc            \* where kmain is, ticks aside

Sound(t) == Live(t) /\ t \notin revived

(* A live task has its own code or its entry at the bottom, interrupts on  *)
(* top of it, and waits for the processor in its last frame or not at all. *)
(* One that was revived has no stack, or waits inside task_exit.           *)
EndedStacks == {<< >>, <<At("exit"), At("switch")>>}
Callstacks ==
  /\ frames \in [Tasks -> Seq(FrameSet)]
  /\ \A t \in Tasks : Sound(t) =>
       /\ frames[t] # << >>
       /\ frames[t][1].pc \in IF t = Idle THEN CreateSteps \cup {"run"} ELSE {"run", "boot"}
       /\ \A k \in 1 .. Len(frames[t]) :
            /\ k > 1 => frames[t][k].pc \in {"switch", "free"}
            /\ k < Len(frames[t]) => frames[t][k].pc \notin Waiting
  /\ panic = "no" => \A t \in revived : frames[t] \in EndedStacks

(* The lock is held from a switch until the task switched to let it go. *)
Turns ==
  /\ \A t \in Tasks : state[t] = "RUNNING" <=> t = cur
  /\ Sound(Idle)
  /\ \A t \in Tasks : state[t] = "READY" /\ t \notin revived => TopOf(t).pc \in Waiting
  /\ cur \notin revived => (lock = 1 <=> TopOf(cur).pc \in Waiting)
  /\ cur \in revived /\ panic = "no" => lock = 1
  /\ rsp0 = base[cur]

(* What task_create_user has done to its slot at each step; the task may   *)
(* have ended when it is counted and made READY.                           *)
Creation ==
  /\ Phase = "run" <=> mk.slot = Idle
  /\ Phase \in {"drop", "clear", "pid", "alloc", "base", "top", "publish"} =>
       state[mk.slot] = "DEAD"
  /\ Phase \in {"count", "store", "add"} =>
       Live(mk.slot) \/ frames[mk.slot] \in EndedStacks
  /\ Phase \in {"pid", "alloc", "base"} => base[mk.slot] = NULL
  /\ Phase \in {"top", "publish"} => base[mk.slot] # NULL
  /\ Phase = "publish" => frames[mk.slot] = <<At("boot")>>
  /\ mk.slot \notin revived
  /\ \A t \in revived : Live(t)

(* Each allocated stack is in one slot, in one frame about to free it, or  *)
(* on its way from kmalloc to the slot; one slot may still hold a stack it *)
(* has just freed.                                                         *)
Dangling(t) == Phase = "clear" /\ t = mk.slot
FreeAt(t, k) == k \in 1 .. Len(frames[t]) /\ frames[t][k].pc = "free"
SlotsOwned ==
  /\ base[Idle] = NULL
  /\ \A t \in Tasks : Sound(t) /\ t # Idle => base[t] # NULL
  /\ \A t \in Tasks : base[t] # NULL => (base[t] \in heap <=> ~Dangling(t))
  /\ \A t \in Tasks, u \in Tasks : t # u /\ base[t] # NULL => base[t] # base[u]
FreesOwned ==
  \A t \in Tasks, k \in Nat : FreeAt(t, k) =>
    /\ frames[t][k].stack \in heap
    /\ \A u \in Tasks : base[u] # frames[t][k].stack
    /\ \A u \in Tasks, j \in Nat : FreeAt(u, j) /\ (t # u \/ k # j) =>
         frames[u][j].stack # frames[t][k].stack
FreshOwned ==
  Phase = "base" /\ panic = "no" =>
    /\ mk.stack \in heap
    /\ \A t \in Tasks : base[t] # mk.stack
    /\ \A t \in Tasks, k \in Nat : FreeAt(t, k) => frames[t][k].stack # mk.stack
Owners == SlotsOwned /\ FreesOwned /\ FreshOwned

(* The dead task whose stack the next resumed task frees; idle does so     *)
(* before it goes on to create a task.                                     *)
Reaping ==
  zombie # Idle =>
    /\ state[zombie] = "DEAD" /\ base[zombie] # NULL
    /\ zombie = mk.slot => Phase \in {"count", "store", "add"}
    /\ cur = Idle => TopOf(Idle).pc = "switch"

Pids ==
  /\ UniquePids
  /\ Phase \in {"alloc", "base", "top", "publish", "count", "store", "add"} =>
       \A t \in Tasks \ {mk.slot} : Live(t) => pid[t] # pid[mk.slot]

Published == {t \in Tasks : Live(t)} \ revived
Counts ==
  /\ ready + Uncounted >= Cardinality(Published)
  /\ Phase = "store" => mk.seen + 1 >= Cardinality(Published)

(* SchedTypeOK apart from the call stacks. *)
Fields ==
  /\ state \in [Tasks -> {"READY", "RUNNING", "DEAD"}]
  /\ pid \in [Tasks -> 0 .. (PidMod - 1)]
  /\ base \in [Tasks -> Stacks \cup {NULL}]
  /\ cur \in Tasks /\ lock \in {0, 1} /\ rr \in Tasks /\ zombie \in Tasks
  /\ rsp0 \in Stacks \cup {NULL}
  /\ nextPid \in 1 .. (PidMod - 1)
  /\ ready \in Nat
  /\ heap \subseteq Stacks
  /\ mk \in [slot : Tasks, stack : Stacks \cup {NULL}, seen : Nat]
  /\ revived \subseteq Tasks

SchedInv ==
  /\ SchedTypeOK /\ Callstacks /\ Turns /\ Creation /\ Owners /\ Reaping /\ Pids /\ Counts
  /\ panic \in {"no", "no stack"} \/ (panic = "no runnable task" /\ cur \in revived)

-----------------------------------------------------------------------------
(* What the searches find: a minimum exists in every nonempty set. *)
LEMMA LeastNat ==
  ASSUME NEW S, S \subseteq Nat, S # {}
  PROVE  \E x \in S : \A y \in S : x <= y
<1> DEFINE R == {ss \in Nat \X Nat : ss[1] < ss[2]}
<1>1. IsWellFoundedOn(R, Nat)
  BY NatLessThanWellFounded DEF OpToRel
<1>2. \E x \in S : \A y \in S : ~(<<y, x>> \in R)
  <2> HIDE DEF R
  <2> QED
    BY <1>1, WFMin
<1>3. PICK x \in S : \A y \in S : ~(<<y, x>> \in R)
  BY <1>2
<1>4. ASSUME NEW y \in S PROVE x <= y
  <2>1. <<y, x>> \notin R /\ y \in Nat /\ x \in Nat
    BY <1>3
  <2>2. ~(y < x)
    BY <2>1
  <2> QED
    BY <2>1, <2>2
<1> QED
  BY <1>4

LEMMA LeastBy ==
  ASSUME NEW S, S # {}, NEW f, \A x \in S : f[x] \in Nat
  PROVE  \E x \in S : \A y \in S : f[x] <= f[y]
<1> DEFINE V == {f[x] : x \in S}
<1>1. PICK v \in V : \A w \in V : v <= w
  <2>1. V \subseteq Nat /\ V # {}
    OBVIOUS
  <2> HIDE DEF V
  <2> QED
    BY <2>1, LeastNat
<1> QED
  BY <1>1

LEMMA ModNat ==
  ASSUME NEW a \in Int, NEW n \in Nat \ {0}
  PROVE  a % n \in 0 .. n - 1
OBVIOUS

(* sched_pick_next finds a READY task when there is one. *)
LEMMA PickNextIsReady ==
  ASSUME SchedTypeOK, ReadyTasks # {}
  PROVE  PickNext \in Tasks /\ state[PickNext] = "READY"
<1> DEFINE d == [t \in ReadyTasks |-> Distance(t)]
<1>1. \A t \in ReadyTasks : Distance(t) \in Nat
  <2> TAKE t \in ReadyTasks
  <2>1. t - rr - 1 \in Int
    BY DEF ReadyTasks, SchedTypeOK, Tasks
  <2> QED
    BY <2>1, ModNat, SchedAssumption DEF Distance
<1>2. \A t \in ReadyTasks : d[t] \in Nat /\ d[t] = Distance(t)
  BY <1>1
<1>3. \E t \in ReadyTasks : \A u \in ReadyTasks : d[t] <= d[u]
  <2> HIDE DEF d
  <2> QED
    BY <1>2, LeastBy
<1>4. \E t \in ReadyTasks : \A u \in ReadyTasks : Distance(t) <= Distance(u)
  BY <1>2, <1>3
<1>5. PickNext \in ReadyTasks
  BY <1>4 DEF PickNext
<1> QED
  BY <1>5 DEF ReadyTasks

LEMMA FirstDeadIsDead ==
  ASSUME DeadSlots # {}
  PROVE  FirstDead \in Tasks \ {Idle} /\ state[FirstDead] = "DEAD"
<1>1. DeadSlots \subseteq Nat
  BY SchedAssumption DEF DeadSlots, Tasks
<1>2. \E t \in DeadSlots : \A u \in DeadSlots : t <= u
  BY <1>1, LeastNat
<1> QED
  BY <1>2 DEF FirstDead, DeadSlots

LEMMA TasksFinite == IsFiniteSet(Tasks) /\ Cardinality(Tasks) = NTasks
BY FS_Interval, SchedAssumption DEF Tasks

(* There are more pids than tasks, so the search for a free one ends. *)
LEMMA NewPidIsFree ==
  ASSUME SchedTypeOK
  PROVE  NewPid \in 1 .. (PidMod - 1) /\ \A t \in Tasks : Live(t) => pid[t] # NewPid
<1>1. FreePids # {}
  <2> SUFFICES ASSUME FreePids = {} PROVE FALSE
    OBVIOUS
  <2> DEFINE holder == [p \in 1 .. (PidMod - 1) |-> CHOOSE t \in Tasks : pid[t] = p]
  <2>1. \A p \in 1 .. (PidMod - 1) : holder[p] \in Tasks /\ pid[holder[p]] = p
    BY DEF FreePids, PidTaken
  <2>2. IsFiniteSet(1 .. (PidMod - 1)) /\ Cardinality(1 .. (PidMod - 1)) = PidMod - 1
    BY FS_Interval, SchedAssumption
  <2>3. holder \in [1 .. (PidMod - 1) -> Tasks]
    BY <2>1
  <2>4. Cardinality(Tasks) < Cardinality(1 .. (PidMod - 1))
    BY <2>2, TasksFinite, SchedAssumption
  <2> HIDE DEF holder
  <2>5. \E p, q \in 1 .. (PidMod - 1) : p # q /\ holder[p] = holder[q]
    BY <2>2, <2>3, <2>4, TasksFinite, FS_PigeonHole
  <2> QED
    BY <2>1, <2>5
<1>2. \A p \in FreePids : PidGap(p) \in Nat
  <2>1. PidMod - 1 \in Nat \ {0}
    BY SchedAssumption
  <2>2. ASSUME NEW x \in Int, NEW n \in Nat \ {0} PROVE x % n \in Nat
    BY ModNat
  <2>3. \A p \in FreePids : p - nextPid \in Int
    BY SchedAssumption DEF FreePids, SchedTypeOK
  <2> QED
    BY <2>1, <2>2, <2>3 DEF PidGap
<1> DEFINE g == [p \in FreePids |-> PidGap(p)]
<1>3. \A p \in FreePids : g[p] \in Nat /\ g[p] = PidGap(p)
  BY <1>2
<1>4. \E p \in FreePids : \A q \in FreePids : g[p] <= g[q]
  <2> HIDE DEF g
  <2> QED
    BY <1>1, <1>3, LeastBy
<1>5. \E p \in FreePids : \A q \in FreePids : PidGap(p) <= PidGap(q)
  BY <1>3, <1>4
<1>6. NewPid \in FreePids
  BY <1>5 DEF NewPid
<1> QED
  BY <1>6 DEF FreePids, PidTaken

-----------------------------------------------------------------------------
(* What the steps do to call stacks. *)
LEMMA Pushed ==
  ASSUME NEW s \in Seq(FrameSet), NEW f \in FrameSet
  PROVE  /\ Append(s, f) \in Seq(FrameSet) /\ Len(Append(s, f)) = Len(s) + 1
         /\ Append(s, f) # << >>
         /\ Append(s, f)[Len(s) + 1] = f
         /\ \A k \in 1 .. Len(s) : Append(s, f)[k] = s[k]
OBVIOUS

LEMMA Replaced ==
  ASSUME NEW s \in Seq(FrameSet), s # << >>, NEW f \in FrameSet, NEW r,
         r = [s EXCEPT ![Len(s)] = f]
  PROVE  /\ r \in Seq(FrameSet) /\ Len(r) = Len(s) /\ r # << >> /\ r[Len(s)] = f
         /\ \A k \in 1 .. Len(s) - 1 : r[k] = s[k]
<1>1. Len(s) \in 1 .. Len(s) /\ Len(s) \in Nat
  OBVIOUS
<1>2. r \in Seq(FrameSet) /\ Len(r) = Len(s)
  BY <1>1, ExceptSeq
<1>3. r[Len(s)] = f /\ \A k \in 1 .. Len(s) - 1 : r[k] = s[k]
  BY <1>1
<1>4. r # << >>
  BY <1>1, <1>2, EmptySeq
<1> QED
  BY <1>2, <1>3, <1>4

LEMMA Popped ==
  ASSUME NEW s \in Seq(FrameSet), s # << >>, NEW r, r = SubSeq(s, 1, Len(s) - 1)
  PROVE  /\ r \in Seq(FrameSet) /\ Len(r) = Len(s) - 1
         /\ \A k \in 1 .. Len(s) - 1 : r[k] = s[k]
<1>1. Len(s) - 1 \in Nat /\ Len(s) \in Nat
  OBVIOUS
<1>2. \A k \in 1 .. Len(s) - 1 : s[k] \in FrameSet
  BY <1>1
<1> DEFINE n == Len(s) - 1
<1>3. /\ SubSeq(s, 1, n) \in Seq(FrameSet)
      /\ Len(SubSeq(s, 1, n)) = IF 1 <= n THEN n - 1 + 1 ELSE 0
      /\ \A i \in 1 .. n - 1 + 1 : SubSeq(s, 1, n)[i] = s[1 + i - 1]
  <2>1. n \in Int /\ 1 \in Int /\ \A k \in 1 .. n : s[k] \in FrameSet
    BY <1>1, <1>2
  <2> HIDE DEF n
  <2> QED
    BY <2>1, SubSeqProperties
<1>4. n \in Nat /\ n - 1 + 1 = n /\ \A i \in 1 .. n : 1 + i - 1 = i
  BY <1>1
<1>5. Len(r) = n /\ r \in Seq(FrameSet)
  BY <1>3, <1>4
<1>6. \A k \in 1 .. n : r[k] = s[k]
  <2>1. r = SubSeq(s, 1, n)
    OBVIOUS
  <2> HIDE DEF n
  <2> QED
    BY <1>3, <1>4, <2>1
<1> QED
  BY <1>5, <1>6

LEMMA CurLives ==
  ASSUME SchedInv
  PROVE  /\ cur \in Tasks /\ Idle \in Tasks /\ state[cur] = "RUNNING" /\ Live(cur)
         /\ Idle \notin revived /\ revived \subseteq Tasks
         /\ cur \notin revived =>
              /\ Sound(cur) /\ frames[cur] \in Seq(FrameSet) /\ frames[cur] # << >>
              /\ Len(frames[cur]) \in Nat \ {0}
<1>0. Idle \in Tasks
  BY SchedAssumption DEF Idle, Tasks
<1>1. cur \in Tasks /\ Idle \notin revived /\ revived \subseteq Tasks
  BY DEF SchedInv, SchedTypeOK, Turns, Sound
<1>2. state[cur] = "RUNNING" /\ Live(cur)
  BY <1>1 DEF SchedInv, Turns, Live
<1>3. frames[cur] \in Seq(FrameSet) /\ (cur \notin revived => Sound(cur) /\ frames[cur] # << >>)
  BY <1>1, <1>2 DEF SchedInv, Callstacks, Sound
<1>4. cur \notin revived => Len(frames[cur]) \in Nat \ {0}
  BY <1>3, EmptySeq
<1> QED
  BY <1>0, <1>1, <1>2, <1>3, <1>4

(* A task made READY after it ended can do no more than resume in          *)
(* task_exit.                                                              *)
LEMMA EndedOnlyResumes ==
  ASSUME SchedInv, panic = "no", cur \in revived
  PROVE  /\ lock = 1
         /\ \A pc : Running(pc) => pc = "switch" /\ frames[cur] = <<At("exit"), At("switch")>>
<1>1. frames[cur] \in EndedStacks
  BY DEF SchedInv, Callstacks
<1>2. ASSUME NEW pc, Running(pc)
      PROVE  pc = "switch" /\ frames[cur] = <<At("exit"), At("switch")>>
  BY <1>1, <1>2 DEF Running, Top, EndedStacks, At, Frame
<1> QED
  BY <1>2 DEF SchedInv, Turns

(* Own code is at the bottom of its stack and holds no lock; only kmain    *)
(* creates tasks, and it has reaped what there was to reap.                *)
LEMMA AtBottom ==
  ASSUME SchedInv, NEW pc \in CreateSteps \cup {"run", "boot"}, Running(pc)
  PROVE  /\ Len(frames[cur]) = 1 /\ frames[cur][1].pc = pc /\ panic = "no" /\ cur \notin revived
         /\ frames[cur] \in Seq(FrameSet) /\ frames[cur] # << >> /\ Sound(cur)
         /\ pc # "boot" => lock = 0
         /\ pc \in CreateSteps => cur = Idle
         /\ cur = Idle => Phase = pc /\ zombie = Idle /\ pc # "boot"
<1>0. panic = "no" /\ cur \notin revived
  <2>1. panic = "no" /\ pc # "switch"
    BY DEF Running, CreateSteps
  <2> QED
    BY <2>1, EndedOnlyResumes
<1>1. /\ panic = "no" /\ frames[cur][Len(frames[cur])].pc = pc
  BY DEF Running, Top
<1>2. Len(frames[cur]) = 1
  <2>1. Len(frames[cur]) \in Nat \ {0} /\ pc \notin {"switch", "free"}
    BY <1>0, CurLives DEF CreateSteps
  <2>2. \A k \in 1 .. Len(frames[cur]) : k > 1 => frames[cur][k].pc \in {"switch", "free"}
    BY <1>0, CurLives DEF SchedInv, Callstacks
  <2>3. Len(frames[cur]) \in 1 .. Len(frames[cur])
    BY <2>1
  <2>4. ~(Len(frames[cur]) > 1)
    <3> SUFFICES ASSUME Len(frames[cur]) > 1 PROVE FALSE
      OBVIOUS
    <3>1. frames[cur][Len(frames[cur])].pc \in {"switch", "free"}
      BY <2>2, <2>3
    <3> QED
      BY <1>1, <2>1, <3>1
  <2>5. \A n \in Nat \ {0} : ~(n > 1) => n = 1
    OBVIOUS
  <2> QED
    BY <2>1, <2>4, <2>5
<1>3. pc # "boot" => lock = 0
  BY <1>0, <1>1, CurLives DEF SchedInv, Turns, SchedTypeOK, TopOf, Waiting, CreateSteps
<1>4. pc \in CreateSteps => cur = Idle
  BY <1>0, <1>1, <1>2, CurLives DEF SchedInv, Callstacks, CreateSteps
<1>5. cur = Idle => Phase = pc /\ zombie = Idle /\ pc # "boot"
  BY <1>0, <1>1, <1>2, CurLives DEF SchedInv, Callstacks, Phase, Reaping, TopOf,
     CreateSteps
<1> QED
  BY <1>0, <1>1, <1>2, <1>3, <1>4, <1>5, CurLives

LEMMA IdleGoto ==
  ASSUME SchedInv, NEW pc \in CreateSteps \cup {"run"}, Running(pc), cur = Idle, NEW f
  PROVE  /\ Goto(f) = [frames EXCEPT ![Idle] = <<f>>]
         /\ frames \in [Tasks -> Seq(FrameSet)]
<1>1. Len(frames[Idle]) = 1 /\ frames[Idle] \in Seq(FrameSet) /\ frames \in [Tasks -> Seq(FrameSet)]
  BY AtBottom, CurLives DEF SchedInv, Callstacks
<1>2. [frames[Idle] EXCEPT ![Len(frames[Idle])] = f] = <<f>>
  BY <1>1
<1> QED
  BY <1>1, <1>2 DEF Goto

(* What a step of kmain may do to another slot: leave it alone, use one    *)
(* without a live task, put a new task at its entry, or revive an ended    *)
(* one.                                                                    *)
Aside(t) ==
  \/ frames'[t] = frames[t] /\ state'[t] = state[t] /\ (t \in revived' <=> t \in revived)
  \/ state'[t] = "DEAD" /\ t \notin revived'
  \/ state'[t] = "READY" /\ t \notin revived' /\ frames'[t] = <<At("boot")>>
  \/ state'[t] = "READY" /\ t \in revived' /\ frames'[t] \in EndedStacks

(* Such a step leaves the call stacks and the turns in order. *)
LEMMA IdleStepKeepsTurns ==
  ASSUME SchedInv, NEW pc \in CreateSteps \cup {"run"}, Running(pc), cur = Idle,
         NEW to \in CreateSteps \cup {"run"},
         frames' \in [Tasks -> Seq(FrameSet)], frames'[Idle] = <<At(to)>>,
         UNCHANGED sched, base'[Idle] = base[Idle], state'[Idle] = state[Idle],
         revived' \subseteq Tasks, Idle \notin revived',
         \A t \in Tasks \ {Idle} : Aside(t)
  PROVE  Callstacks' /\ Turns' /\ Phase' = to /\ Reaping'
<1>1. /\ Len(frames'[Idle]) = 1 /\ frames'[Idle][1].pc = to
      /\ Idle \in Tasks /\ state[Idle] = "RUNNING" /\ zombie = Idle /\ lock = 0
  BY AtBottom, CurLives DEF At, Frame, CreateSteps
<1>2. Callstacks'
  <2>1. ASSUME NEW t \in Tasks \ {Idle}, frames'[t] = frames[t] /\ state'[t] = state[t], Live(t)',
               t \notin revived
        PROVE /\ frames'[t] # << >>
              /\ frames'[t][1].pc \in {"run", "boot"}
              /\ \A k \in 1 .. Len(frames'[t]) :
                   /\ k > 1 => frames'[t][k].pc \in {"switch", "free"}
                   /\ k < Len(frames'[t]) => frames'[t][k].pc \notin Waiting
    BY <2>1 DEF SchedInv, Callstacks, Live, Sound
  <2>2. ASSUME NEW t \in Tasks \ {Idle}, frames'[t] = <<At("boot")>>
        PROVE /\ frames'[t] # << >>
              /\ frames'[t][1].pc \in {"run", "boot"}
              /\ \A k \in 1 .. Len(frames'[t]) :
                   /\ k > 1 => frames'[t][k].pc \in {"switch", "free"}
                   /\ k < Len(frames'[t]) => frames'[t][k].pc \notin Waiting
    BY <2>2 DEF At, Frame
  <2>3. /\ frames'[Idle] # << >> /\ frames'[Idle][1].pc \in CreateSteps \cup {"run"}
        /\ \A k \in 1 .. Len(frames'[Idle]) : ~(k > 1) /\ ~(k < Len(frames'[Idle]))
    BY <1>1
  <2>4. ASSUME NEW t \in Tasks, Sound(t)'
        PROVE /\ frames'[t] # << >>
              /\ frames'[t][1].pc \in IF t = Idle THEN CreateSteps \cup {"run"} ELSE {"run", "boot"}
              /\ \A k \in 1 .. Len(frames'[t]) :
                   /\ k > 1 => frames'[t][k].pc \in {"switch", "free"}
                   /\ k < Len(frames'[t]) => frames'[t][k].pc \notin Waiting
    <3>1. CASE t = Idle
      BY <2>3, <3>1
    <3>2. CASE t # Idle
      BY <2>1, <2>2, <2>4, <3>2 DEF Live, Sound, Aside
    <3> QED
      BY <3>1, <3>2
  <2>5. \A t \in revived' : frames'[t] \in EndedStacks
    <3>1. panic = "no"
      BY DEF Running
    <3> QED
      BY <3>1 DEF SchedInv, Callstacks, Aside
  <2> QED
    BY <2>4, <2>5 DEF Callstacks
<1>3. Turns'
  <2>1. \A t \in Tasks : state'[t] = "RUNNING" <=> t = cur'
    BY <1>1 DEF SchedInv, Turns, sched, Aside
  <2>2. Sound(Idle)'
    BY <1>1 DEF Live, Sound
  <2>3. ASSUME NEW t \in Tasks, state'[t] = "READY", t \notin revived' PROVE TopOf(t)'.pc \in Waiting
    <3>1. t # Idle
      BY <1>1, <2>3
    <3>2. CASE frames'[t] = frames[t] /\ state'[t] = state[t] /\ t \notin revived
      BY <2>3, <3>2 DEF SchedInv, Turns, TopOf
    <3>3. CASE frames'[t] = <<At("boot")>>
      BY <3>3 DEF TopOf, At, Frame, Waiting
    <3> QED
      BY <2>3, <3>1, <3>2, <3>3 DEF Aside
  <2>4. lock' = 1 <=> TopOf(cur)'.pc \in Waiting
    <3>1. TopOf(cur)'.pc = to /\ lock' = 0
      BY <1>1 DEF sched, TopOf
    <3>2. to \notin Waiting
      BY DEF Waiting, CreateSteps
    <3> QED
      BY <3>1, <3>2
  <2>5. rsp0' = base'[cur']
    BY DEF SchedInv, Turns, sched
  <2>6. cur' \notin revived'
    BY DEF sched
  <2> QED
    BY <2>1, <2>2, <2>3, <2>4, <2>5, <2>6 DEF Turns
<1> QED
  BY <1>1, <1>2, <1>3 DEF Phase, Reaping, sched

(* The frames about to free a stack after a step of kmain were there before. *)
LEMMA IdleStepKeepsFrees ==
  ASSUME \A t \in Tasks :
           \/ frames'[t] = frames[t] \/ frames'[t] = << >>
           \/ \E pc \in CreateSteps \cup {"run", "boot"} : frames'[t] = <<At(pc)>>
  PROVE  \A t \in Tasks, k \in Nat : FreeAt(t, k)' => FreeAt(t, k) /\ frames'[t][k] = frames[t][k]
BY DEF FreeAt, At, Frame, CreateSteps

LEMMA FieldsTyped == SchedTypeOK => Fields
BY DEF SchedTypeOK, Fields

LEMMA TypedByParts == Fields' /\ Callstacks' => SchedTypeOK'
<1> SUFFICES ASSUME Fields', Callstacks' PROVE SchedTypeOK'
  OBVIOUS
<1>1. ASSUME NEW t \in Tasks, NEW k \in DOMAIN frames'[t]
      PROVE  frames'[t][k] \in FrameSet
  BY <1>1 DEF Callstacks
<1> QED
  BY <1>1 DEF Fields, SchedTypeOK, FrameSet

LEMMA OneFrame ==
  \A pc \in CreateSteps \cup {"run", "boot"} : At(pc) \in FrameSet /\ <<At(pc)>> \in Seq(FrameSet)
<1>1. ASSUME NEW pc \in CreateSteps \cup {"run", "boot"} PROVE At(pc) \in FrameSet
  BY DEF At, Frame, FrameSet
<1> QED
  BY <1>1

LEMMA PublishedCount ==
  /\ IsFiniteSet(Published) /\ Cardinality(Published) \in Nat
  /\ IsFiniteSet(Published') /\ Cardinality(Published') \in Nat
<1>1. Published \subseteq Tasks /\ Published' \subseteq Tasks
  BY DEF Published
<1> QED
  BY <1>1, TasksFinite, FS_Subset, FS_CardinalityType

LEMMA SamePublished ==
  ASSUME SchedInv, Published' = Published, ready' = ready,
         Phase \notin {"count", "store"}, Phase' \notin {"count", "store"}
  PROVE  Counts'
<1>1. ready + 0 >= Cardinality(Published)
  BY DEF SchedInv, Counts, Uncounted, Phase
<1> QED
  BY <1>1 DEF Counts, Uncounted, Phase

(* No step that makes no new pending kfree disturbs those there are, if    *)
(* their stacks stay allocated and no slot gets one of them.               *)
LEMMA FreesStay ==
  ASSUME FreesOwned,
         \A t \in Tasks, k \in Nat : FreeAt(t, k)' => FreeAt(t, k) /\ frames'[t][k] = frames[t][k],
         \A t \in Tasks, k \in Nat : FreeAt(t, k) =>
           frames[t][k].stack \in heap' /\ \A u \in Tasks : base'[u] # frames[t][k].stack
  PROVE  FreesOwned'
<1> SUFFICES ASSUME NEW t \in Tasks, NEW k \in Nat, FreeAt(t, k)'
             PROVE  /\ frames'[t][k].stack \in heap'
                    /\ \A u \in Tasks : base'[u] # frames'[t][k].stack
                    /\ \A u \in Tasks, j \in Nat : FreeAt(u, j)' /\ (t # u \/ k # j) =>
                         frames'[u][j].stack # frames'[t][k].stack
  BY DEF FreesOwned
<1>1. FreeAt(t, k) /\ frames'[t][k] = frames[t][k]
  OBVIOUS
<1>2. ASSUME NEW u \in Tasks, NEW j \in Nat, FreeAt(u, j)', t # u \/ k # j
      PROVE  frames'[u][j].stack # frames'[t][k].stack
  <2>1. FreeAt(u, j) /\ frames'[u][j] = frames[u][j]
    BY <1>2
  <2> QED
    BY <1>1, <1>2, <2>1 DEF FreesOwned
<1> QED
  BY <1>1, <1>2

-----------------------------------------------------------------------------
(* task_create_user, step by step *)
LEMMA CreateSearchKeepsInv ==
  ASSUME SchedInv, CreateSearch
  PROVE  SchedInv'
<1>1. /\ cur = Idle /\ panic = "no" /\ lock = 0 /\ Phase = "run" /\ zombie = Idle
      /\ frames' = [frames EXCEPT ![Idle] = <<At("drop")>>]
      /\ frames \in [Tasks -> Seq(FrameSet)] /\ Fields /\ Idle \in Tasks
      /\ FirstDead \in Tasks \ {Idle} /\ state[FirstDead] = "DEAD"
  BY AtBottom, IdleGoto, CurLives, FirstDeadIsDead, FieldsTyped
     DEF CreateSearch, Step, SchedInv, CreateSteps
<1>2. Fields'
  BY <1>1 DEF CreateSearch, sched, Fields
<1>3. Callstacks' /\ Turns' /\ Phase' = "drop" /\ Reaping'
  <2>1. frames' \in [Tasks -> Seq(FrameSet)]
    BY <1>1, OneFrame DEF CreateSteps
  <2>2. revived' \subseteq Tasks /\ Idle \notin revived' /\ \A t \in Tasks \ {Idle} : Aside(t)
    BY <1>1, CurLives DEF CreateSearch, Aside
  <2> QED
    BY <1>1, <2>1, <2>2, IdleStepKeepsTurns DEF CreateSearch, Step, CreateSteps
<1>4. \A t \in Tasks, k \in Nat : FreeAt(t, k)' => FreeAt(t, k) /\ frames'[t][k] = frames[t][k]
  BY <1>1, IdleStepKeepsFrees DEF CreateSteps
<1>5. Creation'
  BY <1>1, <1>3 DEF CreateSearch, SchedInv, Creation, Live
<1>6. Owners'
  <2>1. SlotsOwned'
    BY <1>1, <1>3 DEF CreateSearch, SchedInv, Owners, SlotsOwned, Dangling, Live, Sound
  <2>2. \A t \in Tasks, k \in Nat : FreeAt(t, k) =>
          frames[t][k].stack \in heap' /\ \A u \in Tasks : base'[u] # frames[t][k].stack
    BY DEF CreateSearch, SchedInv, Owners, FreesOwned
  <2>3. FreesOwned'
    BY <1>4, <2>2, FreesStay DEF SchedInv, Owners
  <2> QED
    BY <1>3, <2>1, <2>3 DEF Owners, FreshOwned
<1>7. Pids'
  BY <1>3 DEF CreateSearch, SchedInv, Pids, UniquePids, Live
<1>8. Counts'
  <2>1. Published' = Published
    BY <1>1, <1>3 DEF CreateSearch, Published, Phase, Live
  <2> QED
    BY <1>1, <1>3, <2>1, SamePublished DEF CreateSearch
<1> QED
  BY <1>1, <1>2, <1>3, <1>5, <1>6, <1>7, <1>8, TypedByParts DEF CreateSearch,
     SchedInv

LEMMA CreateDropKeepsInv ==
  ASSUME SchedInv, CreateDrop
  PROVE  SchedInv'
<1>1. /\ cur = Idle /\ panic = "no" /\ lock = 0 /\ Phase = "drop" /\ zombie = Idle
      /\ Goto(At(IF base[mk.slot] = NULL THEN "pid" ELSE "clear")) = [frames EXCEPT ![Idle] = <<At(IF base[mk.slot] = NULL THEN "pid" ELSE "clear")>>]
      /\ frames \in [Tasks -> Seq(FrameSet)] /\ Fields /\ Idle \in Tasks
      /\ mk.slot \in Tasks \ {Idle} /\ state[mk.slot] = "DEAD" /\ state[Idle] = "RUNNING"
  <2>1. Running("drop")
    BY DEF CreateDrop, Step
  <2>2. /\ cur = Idle /\ panic = "no" /\ lock = 0 /\ Phase = "drop" /\ zombie = Idle
        /\ frames \in [Tasks -> Seq(FrameSet)] /\ Fields /\ Idle \in Tasks
        /\ state[Idle] = "RUNNING"
    BY <2>1, AtBottom, CurLives, FieldsTyped DEF SchedInv, Callstacks, CreateSteps
  <2>3. Goto(At(IF base[mk.slot] = NULL THEN "pid" ELSE "clear")) = [frames EXCEPT ![Idle] = <<At(IF base[mk.slot] = NULL THEN "pid" ELSE "clear")>>]
    BY <2>1, <2>2, IdleGoto DEF CreateSteps
  <2>4. mk.slot \in Tasks \ {Idle} /\ state[mk.slot] = "DEAD"
    BY <2>2 DEF Fields, SchedInv, Creation
  <2> QED
    BY <2>2, <2>3, <2>4
<1>2. Fields'
  BY <1>1 DEF CreateDrop, Step, sched, Fields
<1>3. Callstacks' /\ Turns' /\ Phase' = (IF base[mk.slot] = NULL THEN "pid" ELSE "clear") /\ Reaping'
  <2>1. frames' = [frames EXCEPT ![Idle] = <<At(IF base[mk.slot] = NULL THEN "pid" ELSE "clear")>>]
    BY <1>1 DEF CreateDrop, Step
  <2>2. frames' \in [Tasks -> Seq(FrameSet)] /\ frames'[Idle] = <<At((IF base[mk.slot] = NULL THEN "pid" ELSE "clear"))>>
    BY <1>1, <2>1, OneFrame, EmptySeq DEF CreateSteps
  <2>3. revived' \subseteq Tasks /\ Idle \notin revived' /\ \A t \in Tasks \ {Idle} : Aside(t)
    BY <1>1, <2>1, CurLives
       DEF CreateDrop, Fields, Aside, SchedInv, Creation, Live
  <2>4. UNCHANGED sched /\ base'[Idle] = base[Idle] /\ state'[Idle] = state[Idle]
    BY <1>1 DEF CreateDrop, Fields
  <2>5. Running("drop")
    BY DEF CreateDrop, Step
  <2> QED
    BY <1>1, <2>2, <2>3, <2>4, <2>5, IdleStepKeepsTurns DEF CreateSteps
<1>4. \A t \in Tasks, k \in Nat : FreeAt(t, k)' => FreeAt(t, k) /\ frames'[t][k] = frames[t][k]
  BY <1>1, IdleStepKeepsFrees DEF CreateDrop, Step, CreateSteps
<1>5. Creation'
  BY <1>1, <1>3 DEF CreateDrop, Step, Creation, SchedInv, Live, Fields
<1>6. Owners' /\ panic' \in {"no", "no stack"}
  <2>1. SlotsOwned'
    BY <1>1, <1>3 DEF CreateDrop, SchedInv, Owners, SlotsOwned, FreshOwned,
       Dangling, Live, Sound, Fields
  <2>2. \A t \in Tasks, k \in Nat : FreeAt(t, k) =>
          frames[t][k].stack \in heap' /\ \A u \in Tasks : base'[u] # frames[t][k].stack
    BY <1>1, <1>3 DEF CreateDrop, SchedInv, Owners, FreesOwned, FreshOwned, Fields
  <2>3. FreesOwned'
    BY <1>4, <2>2, FreesStay DEF SchedInv, Owners
  <2>4. FreshOwned'
    BY <1>1, <1>3, <1>4 DEF CreateDrop, SchedInv, Owners, SlotsOwned,
       FreesOwned, FreshOwned, Dangling, Fields
  <2>5. panic' \in {"no", "no stack"}
    BY <1>1, <1>3 DEF CreateDrop, SchedInv, Owners, SlotsOwned, Dangling
  <2> QED
    BY <2>1, <2>3, <2>4, <2>5 DEF Owners
<1>7. Pids'
  BY <1>1, <1>3 DEF CreateDrop, SchedInv, Pids, UniquePids, Live, Fields
<1>8. Counts'
  <2>1. Published' = Published
    BY <1>1, <1>3 DEF CreateDrop, Published, Live, Fields
  <2> QED
    BY <1>1, <1>3, <2>1, SamePublished DEF CreateDrop
<1> QED
  BY <1>1, <1>2, <1>3, <1>5, <1>6, <1>7, <1>8, TypedByParts DEF SchedInv

LEMMA CreateClearKeepsInv ==
  ASSUME SchedInv, CreateClear
  PROVE  SchedInv'
<1>1. /\ cur = Idle /\ panic = "no" /\ lock = 0 /\ Phase = "clear" /\ zombie = Idle
      /\ Goto(At("pid")) = [frames EXCEPT ![Idle] = <<At("pid")>>]
      /\ frames \in [Tasks -> Seq(FrameSet)] /\ Fields /\ Idle \in Tasks
      /\ mk.slot \in Tasks \ {Idle} /\ state[mk.slot] = "DEAD" /\ state[Idle] = "RUNNING"
  <2>1. Running("clear")
    BY DEF CreateClear, Step
  <2>2. /\ cur = Idle /\ panic = "no" /\ lock = 0 /\ Phase = "clear" /\ zombie = Idle
        /\ frames \in [Tasks -> Seq(FrameSet)] /\ Fields /\ Idle \in Tasks
        /\ state[Idle] = "RUNNING"
    BY <2>1, AtBottom, CurLives, FieldsTyped DEF SchedInv, Callstacks, CreateSteps
  <2>3. Goto(At("pid")) = [frames EXCEPT ![Idle] = <<At("pid")>>]
    BY <2>1, <2>2, IdleGoto DEF CreateSteps
  <2>4. mk.slot \in Tasks \ {Idle} /\ state[mk.slot] = "DEAD"
    BY <2>2 DEF Fields, SchedInv, Creation
  <2> QED
    BY <2>2, <2>3, <2>4
<1>2. Fields'
  BY <1>1 DEF CreateClear, Step, sched, Fields
<1>3. Callstacks' /\ Turns' /\ Phase' = "pid" /\ Reaping'
  <2>1. frames' = [frames EXCEPT ![Idle] = <<At("pid")>>, ![mk.slot] = << >>]
    BY <1>1 DEF CreateClear, Step
  <2>2. frames' \in [Tasks -> Seq(FrameSet)] /\ frames'[Idle] = <<At("pid")>>
    BY <1>1, <2>1, OneFrame, EmptySeq DEF CreateSteps
  <2>3. revived' \subseteq Tasks /\ Idle \notin revived' /\ \A t \in Tasks \ {Idle} : Aside(t)
    BY <1>1, <2>1, CurLives
       DEF CreateClear, Fields, Aside, SchedInv, Creation, Live
  <2>4. UNCHANGED sched /\ base'[Idle] = base[Idle] /\ state'[Idle] = state[Idle]
    BY <1>1 DEF CreateClear, Fields
  <2>5. Running("clear")
    BY DEF CreateClear, Step
  <2> QED
    BY <1>1, <2>2, <2>3, <2>4, <2>5, IdleStepKeepsTurns DEF CreateSteps
<1>4. \A t \in Tasks, k \in Nat : FreeAt(t, k)' => FreeAt(t, k) /\ frames'[t][k] = frames[t][k]
  BY <1>1, IdleStepKeepsFrees DEF CreateClear, Step, CreateSteps
<1>5. Creation'
  BY <1>1, <1>3 DEF CreateClear, Step, Creation, SchedInv, Live, Fields
<1>6. Owners' /\ panic' \in {"no", "no stack"}
  <2>1. SlotsOwned'
    BY <1>1, <1>3 DEF CreateClear, SchedInv, Owners, SlotsOwned, FreshOwned,
       Dangling, Live, Sound, Fields
  <2>2. \A t \in Tasks, k \in Nat : FreeAt(t, k) =>
          frames[t][k].stack \in heap' /\ \A u \in Tasks : base'[u] # frames[t][k].stack
    BY <1>1, <1>3, SchedAssumption DEF CreateClear, SchedInv, Owners,
       FreesOwned, Fields, NULL
  <2>3. FreesOwned'
    BY <1>4, <2>2, FreesStay DEF SchedInv, Owners
  <2>4. FreshOwned'
    BY <1>1, <1>3, <1>4 DEF CreateClear, SchedInv, Owners, SlotsOwned,
       FreesOwned, FreshOwned, Dangling, Fields
  <2>5. panic' \in {"no", "no stack"}
    BY <1>1, <1>3 DEF CreateClear, SchedInv, Owners, SlotsOwned, Dangling
  <2> QED
    BY <2>1, <2>3, <2>4, <2>5 DEF Owners
<1>7. Pids'
  BY <1>1, <1>3 DEF CreateClear, SchedInv, Pids, UniquePids, Live, Fields
<1>8. Counts'
  <2>1. Published' = Published
    BY <1>1, <1>3 DEF CreateClear, Published, Live, Fields
  <2> QED
    BY <1>1, <1>3, <2>1, SamePublished DEF CreateClear
<1> QED
  BY <1>1, <1>2, <1>3, <1>5, <1>6, <1>7, <1>8, TypedByParts DEF SchedInv

LEMMA CreatePidKeepsInv ==
  ASSUME SchedInv, CreatePid
  PROVE  SchedInv'
<1>1. /\ cur = Idle /\ panic = "no" /\ lock = 0 /\ Phase = "pid" /\ zombie = Idle
      /\ Goto(At("alloc")) = [frames EXCEPT ![Idle] = <<At("alloc")>>]
      /\ frames \in [Tasks -> Seq(FrameSet)] /\ Fields /\ Idle \in Tasks
      /\ mk.slot \in Tasks \ {Idle} /\ state[mk.slot] = "DEAD" /\ state[Idle] = "RUNNING"
  <2>1. Running("pid")
    BY DEF CreatePid, Step
  <2>2. /\ cur = Idle /\ panic = "no" /\ lock = 0 /\ Phase = "pid" /\ zombie = Idle
        /\ frames \in [Tasks -> Seq(FrameSet)] /\ Fields /\ Idle \in Tasks
        /\ state[Idle] = "RUNNING"
    BY <2>1, AtBottom, CurLives, FieldsTyped DEF SchedInv, Callstacks, CreateSteps
  <2>3. Goto(At("alloc")) = [frames EXCEPT ![Idle] = <<At("alloc")>>]
    BY <2>1, <2>2, IdleGoto DEF CreateSteps
  <2>4. mk.slot \in Tasks \ {Idle} /\ state[mk.slot] = "DEAD"
    BY <2>2 DEF Fields, SchedInv, Creation
  <2> QED
    BY <2>2, <2>3, <2>4
<1>a. NewPid \in 1 .. (PidMod - 1) /\ \A t \in Tasks : Live(t) => pid[t] # NewPid
  BY NewPidIsFree DEF SchedInv
<1>2. Fields'
  <2>1. PidAfter(NewPid) \in 1 .. (PidMod - 1)
    BY <1>a, SchedAssumption DEF PidAfter
  <2> QED
    BY <1>1, <1>a, <2>1 DEF CreatePid, sched, Fields
<1>3. Callstacks' /\ Turns' /\ Phase' = "alloc" /\ Reaping'
  <2>1. frames' = [frames EXCEPT ![Idle] = <<At("alloc")>>]
    BY <1>1 DEF CreatePid, Step
  <2>2. frames' \in [Tasks -> Seq(FrameSet)] /\ frames'[Idle] = <<At("alloc")>>
    BY <1>1, <2>1, OneFrame, EmptySeq DEF CreateSteps
  <2>3. revived' \subseteq Tasks /\ Idle \notin revived' /\ \A t \in Tasks \ {Idle} : Aside(t)
    BY <1>1, <2>1, CurLives
       DEF CreatePid, Fields, Aside, SchedInv, Creation, Live
  <2>4. UNCHANGED sched /\ base'[Idle] = base[Idle] /\ state'[Idle] = state[Idle]
    BY <1>1 DEF CreatePid, Fields
  <2>5. Running("pid")
    BY DEF CreatePid, Step
  <2> QED
    BY <1>1, <2>2, <2>3, <2>4, <2>5, IdleStepKeepsTurns DEF CreateSteps
<1>4. \A t \in Tasks, k \in Nat : FreeAt(t, k)' => FreeAt(t, k) /\ frames'[t][k] = frames[t][k]
  BY <1>1, IdleStepKeepsFrees DEF CreatePid, Step, CreateSteps
<1>5. Creation'
  BY <1>1, <1>3 DEF CreatePid, Step, Creation, SchedInv, Live, Fields
<1>6. Owners' /\ panic' \in {"no", "no stack"}
  <2>1. SlotsOwned'
    BY <1>1, <1>3 DEF CreatePid, SchedInv, Owners, SlotsOwned, FreshOwned,
       Dangling, Live, Sound, Fields
  <2>2. \A t \in Tasks, k \in Nat : FreeAt(t, k) =>
          frames[t][k].stack \in heap' /\ \A u \in Tasks : base'[u] # frames[t][k].stack
    BY <1>1, <1>3 DEF CreatePid, SchedInv, Owners, FreesOwned, FreshOwned, Fields
  <2>3. FreesOwned'
    BY <1>4, <2>2, FreesStay DEF SchedInv, Owners
  <2>4. FreshOwned'
    BY <1>1, <1>3, <1>4 DEF CreatePid, SchedInv, Owners, SlotsOwned, FreesOwned,
       FreshOwned, Dangling, Fields
  <2>5. panic' \in {"no", "no stack"}
    BY <1>1, <1>3 DEF CreatePid, SchedInv, Owners, SlotsOwned, Dangling
  <2> QED
    BY <2>1, <2>3, <2>4, <2>5 DEF Owners
<1>7. Pids'
  BY <1>1, <1>3, <1>a DEF CreatePid, SchedInv, Pids, UniquePids, Live, Fields
<1>8. Counts'
  <2>1. Published' = Published
    BY <1>1, <1>3 DEF CreatePid, Published, Live, Fields
  <2> QED
    BY <1>1, <1>3, <2>1, SamePublished DEF CreatePid
<1> QED
  BY <1>1, <1>2, <1>3, <1>5, <1>6, <1>7, <1>8, TypedByParts DEF SchedInv

LEMMA CreateAllocKeepsInv ==
  ASSUME SchedInv, CreateAlloc
  PROVE  SchedInv'
<1>1. /\ cur = Idle /\ panic = "no" /\ lock = 0 /\ Phase = "alloc" /\ zombie = Idle
      /\ Goto(At("base")) = [frames EXCEPT ![Idle] = <<At("base")>>]
      /\ frames \in [Tasks -> Seq(FrameSet)] /\ Fields /\ Idle \in Tasks
      /\ mk.slot \in Tasks \ {Idle} /\ state[mk.slot] = "DEAD" /\ state[Idle] = "RUNNING"
  <2>1. Running("alloc")
    BY DEF CreateAlloc, Step
  <2>2. /\ cur = Idle /\ panic = "no" /\ lock = 0 /\ Phase = "alloc" /\ zombie = Idle
        /\ frames \in [Tasks -> Seq(FrameSet)] /\ Fields /\ Idle \in Tasks
        /\ state[Idle] = "RUNNING"
    BY <2>1, AtBottom, CurLives, FieldsTyped DEF SchedInv, Callstacks, CreateSteps
  <2>3. Goto(At("base")) = [frames EXCEPT ![Idle] = <<At("base")>>]
    BY <2>1, <2>2, IdleGoto DEF CreateSteps
  <2>4. mk.slot \in Tasks \ {Idle} /\ state[mk.slot] = "DEAD"
    BY <2>2 DEF Fields, SchedInv, Creation
  <2> QED
    BY <2>2, <2>3, <2>4
<1>2. Fields'
  <2>1. CASE UNCHANGED <<heap, mk>>
    BY <1>1, <2>1 DEF CreateAlloc, sched, Fields
  <2>2. ASSUME NEW s \in Stacks \ heap, heap' = heap \cup {s}, mk' = [mk EXCEPT !.stack = s]
        PROVE  Fields'
    BY <1>1, <2>2 DEF CreateAlloc, sched, Fields
  <2> QED
    BY <2>1, <2>2 DEF CreateAlloc
<1>3. Callstacks' /\ Turns' /\ Phase' = "base" /\ Reaping'
  <2>1. frames' = [frames EXCEPT ![Idle] = <<At("base")>>]
    BY <1>1 DEF CreateAlloc, Step
  <2>2. frames' \in [Tasks -> Seq(FrameSet)] /\ frames'[Idle] = <<At("base")>>
    BY <1>1, <2>1, OneFrame, EmptySeq DEF CreateSteps
  <2>3. revived' \subseteq Tasks /\ Idle \notin revived' /\ \A t \in Tasks \ {Idle} : Aside(t)
    BY <1>1, <2>1, CurLives
       DEF CreateAlloc, Fields, Aside, SchedInv, Creation, Live
  <2>4. UNCHANGED sched /\ base'[Idle] = base[Idle] /\ state'[Idle] = state[Idle]
    BY <1>1 DEF CreateAlloc, Fields
  <2>5. Running("alloc")
    BY DEF CreateAlloc, Step
  <2> QED
    BY <1>1, <2>2, <2>3, <2>4, <2>5, IdleStepKeepsTurns DEF CreateSteps
<1>4. \A t \in Tasks, k \in Nat : FreeAt(t, k)' => FreeAt(t, k) /\ frames'[t][k] = frames[t][k]
  BY <1>1, IdleStepKeepsFrees DEF CreateAlloc, Step, CreateSteps
<1>5. Creation'
  BY <1>1, <1>3 DEF CreateAlloc, Step, Creation, SchedInv, Live, Fields
<1>6. Owners' /\ panic' \in {"no", "no stack"}
  <2>1. SlotsOwned'
    BY <1>1, <1>3 DEF CreateAlloc, SchedInv, Owners, SlotsOwned, FreshOwned,
       Dangling, Live, Sound, Fields
  <2>2. \A t \in Tasks, k \in Nat : FreeAt(t, k) =>
          frames[t][k].stack \in heap' /\ \A u \in Tasks : base'[u] # frames[t][k].stack
    BY <1>1, <1>3 DEF CreateAlloc, SchedInv, Owners, FreesOwned, FreshOwned,
       Fields
  <2>3. FreesOwned'
    BY <1>4, <2>2, FreesStay DEF SchedInv, Owners
  <2>4. FreshOwned'
    <3>1. CASE panic' = "no stack"
      BY <3>1 DEF FreshOwned
    <3>2. ASSUME NEW s \in Stacks \ heap, heap' = heap \cup {s}, mk' = [mk EXCEPT !.stack = s]
          PROVE  FreshOwned'
      <4>1. mk'.stack = s /\ s # NULL /\ s \in heap'
        BY <1>1, <3>2, SchedAssumption DEF Fields, NULL
      <4>2. \A t \in Tasks : base'[t] # s
        BY <1>1, <3>2, <4>1 DEF CreateAlloc, SchedInv, Owners, SlotsOwned,
           Dangling
      <4>3. \A t \in Tasks, k \in Nat : FreeAt(t, k)' => frames'[t][k].stack # s
        <5> TAKE t \in Tasks, k \in Nat
        <5> HAVE FreeAt(t, k)'
        <5>1. FreeAt(t, k) /\ frames'[t][k] = frames[t][k]
          BY <1>4
        <5>2. frames[t][k].stack \in heap
          BY <5>1 DEF SchedInv, Owners, FreesOwned
        <5> QED
          BY <3>2, <5>1, <5>2
      <4> QED
        BY <4>1, <4>2, <4>3 DEF FreshOwned
    <3> QED
      BY <3>1, <3>2 DEF CreateAlloc
  <2>5. panic' \in {"no", "no stack"}
    BY <1>1, <1>3 DEF CreateAlloc, SchedInv, Owners, SlotsOwned, Dangling
  <2> QED
    BY <2>1, <2>3, <2>4, <2>5 DEF Owners
<1>7. Pids'
  BY <1>1, <1>3 DEF CreateAlloc, SchedInv, Pids, UniquePids, Live, Fields
<1>8. Counts'
  <2>1. Published' = Published
    BY <1>1, <1>3 DEF CreateAlloc, Published, Live, Fields
  <2> QED
    BY <1>1, <1>3, <2>1, SamePublished DEF CreateAlloc
<1> QED
  BY <1>1, <1>2, <1>3, <1>5, <1>6, <1>7, <1>8, TypedByParts DEF SchedInv

LEMMA CreateBaseKeepsInv ==
  ASSUME SchedInv, CreateBase
  PROVE  SchedInv'
<1>1. /\ cur = Idle /\ panic = "no" /\ lock = 0 /\ Phase = "base" /\ zombie = Idle
      /\ Goto(At("top")) = [frames EXCEPT ![Idle] = <<At("top")>>]
      /\ frames \in [Tasks -> Seq(FrameSet)] /\ Fields /\ Idle \in Tasks
      /\ mk.slot \in Tasks \ {Idle} /\ state[mk.slot] = "DEAD" /\ state[Idle] = "RUNNING"
  <2>1. Running("base")
    BY DEF CreateBase, Step
  <2>2. /\ cur = Idle /\ panic = "no" /\ lock = 0 /\ Phase = "base" /\ zombie = Idle
        /\ frames \in [Tasks -> Seq(FrameSet)] /\ Fields /\ Idle \in Tasks
        /\ state[Idle] = "RUNNING"
    BY <2>1, AtBottom, CurLives, FieldsTyped DEF SchedInv, Callstacks, CreateSteps
  <2>3. Goto(At("top")) = [frames EXCEPT ![Idle] = <<At("top")>>]
    BY <2>1, <2>2, IdleGoto DEF CreateSteps
  <2>4. mk.slot \in Tasks \ {Idle} /\ state[mk.slot] = "DEAD"
    BY <2>2 DEF Fields, SchedInv, Creation
  <2> QED
    BY <2>2, <2>3, <2>4
<1>2. Fields'
  BY <1>1 DEF CreateBase, Step, sched, Fields
<1>3. Callstacks' /\ Turns' /\ Phase' = "top" /\ Reaping'
  <2>1. frames' = [frames EXCEPT ![Idle] = <<At("top")>>]
    BY <1>1 DEF CreateBase, Step
  <2>2. frames' \in [Tasks -> Seq(FrameSet)] /\ frames'[Idle] = <<At("top")>>
    BY <1>1, <2>1, OneFrame, EmptySeq DEF CreateSteps
  <2>3. revived' \subseteq Tasks /\ Idle \notin revived' /\ \A t \in Tasks \ {Idle} : Aside(t)
    BY <1>1, <2>1, CurLives
       DEF CreateBase, Fields, Aside, SchedInv, Creation, Live
  <2>4. UNCHANGED sched /\ base'[Idle] = base[Idle] /\ state'[Idle] = state[Idle]
    BY <1>1 DEF CreateBase, Fields
  <2>5. Running("base")
    BY DEF CreateBase, Step
  <2> QED
    BY <1>1, <2>2, <2>3, <2>4, <2>5, IdleStepKeepsTurns DEF CreateSteps
<1>4. \A t \in Tasks, k \in Nat : FreeAt(t, k)' => FreeAt(t, k) /\ frames'[t][k] = frames[t][k]
  BY <1>1, IdleStepKeepsFrees DEF CreateBase, Step, CreateSteps
<1>5. Creation'
  BY <1>1, <1>3, SchedAssumption DEF CreateBase, Step, Creation, SchedInv,
     Owners, FreshOwned, Live, Fields, NULL
<1>6. Owners' /\ panic' \in {"no", "no stack"}
  <2>1. SlotsOwned'
    BY <1>1, <1>3, SchedAssumption DEF CreateBase, SchedInv, Owners, SlotsOwned,
       FreshOwned, Dangling, Live, Sound, Fields
  <2>2. \A t \in Tasks, k \in Nat : FreeAt(t, k) =>
          frames[t][k].stack \in heap' /\ \A u \in Tasks : base'[u] # frames[t][k].stack
    BY <1>1, <1>3 DEF CreateBase, SchedInv, Owners, FreesOwned, FreshOwned, Fields
  <2>3. FreesOwned'
    BY <1>4, <2>2, FreesStay DEF SchedInv, Owners
  <2>4. FreshOwned'
    BY <1>1, <1>3, <1>4, SchedAssumption DEF CreateBase, SchedInv, Owners,
       SlotsOwned, FreesOwned, FreshOwned, Dangling, Fields
  <2>5. panic' \in {"no", "no stack"}
    BY <1>1, <1>3 DEF CreateBase, SchedInv, Owners, SlotsOwned, Dangling
  <2> QED
    BY <2>1, <2>3, <2>4, <2>5 DEF Owners
<1>7. Pids'
  BY <1>1, <1>3 DEF CreateBase, SchedInv, Pids, UniquePids, Live, Fields
<1>8. Counts'
  <2>1. Published' = Published
    BY <1>1, <1>3 DEF CreateBase, Published, Live, Fields
  <2> QED
    BY <1>1, <1>3, <2>1, SamePublished DEF CreateBase
<1> QED
  BY <1>1, <1>2, <1>3, <1>5, <1>6, <1>7, <1>8, TypedByParts DEF SchedInv

LEMMA CreateTopKeepsInv ==
  ASSUME SchedInv, CreateTop
  PROVE  SchedInv'
<1>1. /\ cur = Idle /\ panic = "no" /\ lock = 0 /\ Phase = "top" /\ zombie = Idle
      /\ Goto(At("publish")) = [frames EXCEPT ![Idle] = <<At("publish")>>]
      /\ frames \in [Tasks -> Seq(FrameSet)] /\ Fields /\ Idle \in Tasks
      /\ mk.slot \in Tasks \ {Idle} /\ state[mk.slot] = "DEAD" /\ state[Idle] = "RUNNING"
  <2>1. Running("top")
    BY DEF CreateTop, Step
  <2>2. /\ cur = Idle /\ panic = "no" /\ lock = 0 /\ Phase = "top" /\ zombie = Idle
        /\ frames \in [Tasks -> Seq(FrameSet)] /\ Fields /\ Idle \in Tasks
        /\ state[Idle] = "RUNNING"
    BY <2>1, AtBottom, CurLives, FieldsTyped DEF SchedInv, Callstacks, CreateSteps
  <2>3. Goto(At("publish")) = [frames EXCEPT ![Idle] = <<At("publish")>>]
    BY <2>1, <2>2, IdleGoto DEF CreateSteps
  <2>4. mk.slot \in Tasks \ {Idle} /\ state[mk.slot] = "DEAD"
    BY <2>2 DEF Fields, SchedInv, Creation
  <2> QED
    BY <2>2, <2>3, <2>4
<1>2. Fields'
  BY <1>1 DEF CreateTop, Step, sched, Fields
<1>3. Callstacks' /\ Turns' /\ Phase' = "publish" /\ Reaping'
  <2>1. frames' = [frames EXCEPT ![Idle] = <<At("publish")>>, ![mk.slot] = <<At("boot")>>]
    BY <1>1 DEF CreateTop, Step
  <2>2. frames' \in [Tasks -> Seq(FrameSet)] /\ frames'[Idle] = <<At("publish")>>
    BY <1>1, <2>1, OneFrame, EmptySeq DEF CreateSteps
  <2>3. revived' \subseteq Tasks /\ Idle \notin revived' /\ \A t \in Tasks \ {Idle} : Aside(t)
    BY <1>1, <2>1, CurLives
       DEF CreateTop, Fields, Aside, SchedInv, Creation, Live
  <2>4. UNCHANGED sched /\ base'[Idle] = base[Idle] /\ state'[Idle] = state[Idle]
    BY <1>1 DEF CreateTop, Fields
  <2>5. Running("top")
    BY DEF CreateTop, Step
  <2> QED
    BY <1>1, <2>2, <2>3, <2>4, <2>5, IdleStepKeepsTurns DEF CreateSteps
<1>4. \A t \in Tasks, k \in Nat : FreeAt(t, k)' => FreeAt(t, k) /\ frames'[t][k] = frames[t][k]
  BY <1>1, IdleStepKeepsFrees DEF CreateTop, Step, CreateSteps
<1>5. Creation'
  BY <1>1, <1>3 DEF CreateTop, Step, Creation, SchedInv, Live, Fields
<1>6. Owners' /\ panic' \in {"no", "no stack"}
  <2>1. SlotsOwned'
    BY <1>1, <1>3 DEF CreateTop, SchedInv, Owners, SlotsOwned, FreshOwned,
       Dangling, Live, Sound, Fields
  <2>2. \A t \in Tasks, k \in Nat : FreeAt(t, k) =>
          frames[t][k].stack \in heap' /\ \A u \in Tasks : base'[u] # frames[t][k].stack
    BY <1>1, <1>3 DEF CreateTop, SchedInv, Owners, FreesOwned, FreshOwned, Fields
  <2>3. FreesOwned'
    BY <1>4, <2>2, FreesStay DEF SchedInv, Owners
  <2>4. FreshOwned'
    BY <1>1, <1>3, <1>4 DEF CreateTop, SchedInv, Owners, SlotsOwned, FreesOwned,
       FreshOwned, Dangling, Fields
  <2>5. panic' \in {"no", "no stack"}
    BY <1>1, <1>3 DEF CreateTop, SchedInv, Owners, SlotsOwned, Dangling
  <2> QED
    BY <2>1, <2>3, <2>4, <2>5 DEF Owners
<1>7. Pids'
  BY <1>1, <1>3 DEF CreateTop, SchedInv, Pids, UniquePids, Live, Fields
<1>8. Counts'
  <2>1. Published' = Published
    BY <1>1, <1>3 DEF CreateTop, Published, Live, Fields
  <2> QED
    BY <1>1, <1>3, <2>1, SamePublished DEF CreateTop
<1> QED
  BY <1>1, <1>2, <1>3, <1>5, <1>6, <1>7, <1>8, TypedByParts DEF SchedInv

LEMMA CreatePublishKeepsInv ==
  ASSUME SchedInv, CreatePublish
  PROVE  SchedInv'
<1>1. /\ cur = Idle /\ panic = "no" /\ lock = 0 /\ Phase = "publish" /\ zombie = Idle
      /\ Goto(At("count")) = [frames EXCEPT ![Idle] = <<At("count")>>]
      /\ frames \in [Tasks -> Seq(FrameSet)] /\ Fields /\ Idle \in Tasks
      /\ mk.slot \in Tasks \ {Idle} /\ state[mk.slot] = "DEAD" /\ state[Idle] = "RUNNING"
  <2>1. Running("publish")
    BY DEF CreatePublish, Step
  <2>2. /\ cur = Idle /\ panic = "no" /\ lock = 0 /\ Phase = "publish" /\ zombie = Idle
        /\ frames \in [Tasks -> Seq(FrameSet)] /\ Fields /\ Idle \in Tasks
        /\ state[Idle] = "RUNNING"
    BY <2>1, AtBottom, CurLives, FieldsTyped DEF SchedInv, Callstacks, CreateSteps
  <2>3. Goto(At("count")) = [frames EXCEPT ![Idle] = <<At("count")>>]
    BY <2>1, <2>2, IdleGoto DEF CreateSteps
  <2>4. mk.slot \in Tasks \ {Idle} /\ state[mk.slot] = "DEAD"
    BY <2>2 DEF Fields, SchedInv, Creation
  <2> QED
    BY <2>2, <2>3, <2>4
<1>2. Fields'
  BY <1>1 DEF CreatePublish, Step, sched, Fields
<1>3. Callstacks' /\ Turns' /\ Phase' = "count" /\ Reaping'
  <2>1. frames' = [frames EXCEPT ![Idle] = <<At("count")>>]
    BY <1>1 DEF CreatePublish, Step
  <2>2. frames' \in [Tasks -> Seq(FrameSet)] /\ frames'[Idle] = <<At("count")>>
    BY <1>1, <2>1, OneFrame, EmptySeq DEF CreateSteps
  <2>3. revived' \subseteq Tasks /\ Idle \notin revived' /\ \A t \in Tasks \ {Idle} : Aside(t)
    BY <1>1, <2>1, CurLives
       DEF CreatePublish, Fields, Aside, SchedInv, Creation, Live
  <2>4. UNCHANGED sched /\ base'[Idle] = base[Idle] /\ state'[Idle] = state[Idle]
    BY <1>1 DEF CreatePublish, Fields
  <2>5. Running("publish")
    BY DEF CreatePublish, Step
  <2> QED
    BY <1>1, <2>2, <2>3, <2>4, <2>5, IdleStepKeepsTurns DEF CreateSteps
<1>4. \A t \in Tasks, k \in Nat : FreeAt(t, k)' => FreeAt(t, k) /\ frames'[t][k] = frames[t][k]
  BY <1>1, IdleStepKeepsFrees DEF CreatePublish, Step, CreateSteps
<1>5. Creation'
  BY <1>1, <1>3 DEF CreatePublish, Step, Creation, SchedInv, Live, Fields
<1>6. Owners' /\ panic' \in {"no", "no stack"}
  <2>1. SlotsOwned'
    BY <1>1, <1>3 DEF CreatePublish, SchedInv, Creation, Owners, SlotsOwned,
       Dangling, Live, Sound, Fields
  <2>2. \A t \in Tasks, k \in Nat : FreeAt(t, k) =>
          frames[t][k].stack \in heap' /\ \A u \in Tasks : base'[u] # frames[t][k].stack
    BY <1>1, <1>3 DEF CreatePublish, SchedInv, Owners, FreesOwned, FreshOwned,
       Fields
  <2>3. FreesOwned'
    BY <1>4, <2>2, FreesStay DEF SchedInv, Owners
  <2>4. FreshOwned'
    BY <1>1, <1>3, <1>4 DEF CreatePublish, SchedInv, Owners, SlotsOwned,
       FreesOwned, FreshOwned, Dangling, Fields
  <2>5. panic' \in {"no", "no stack"}
    BY <1>1, <1>3 DEF CreatePublish, SchedInv, Owners, SlotsOwned, Dangling
  <2> QED
    BY <2>1, <2>3, <2>4, <2>5 DEF Owners
<1>7. Pids'
  BY <1>1, <1>3 DEF CreatePublish, SchedInv, Pids, UniquePids, Live, Fields
<1>8. Counts'
  <2>1. Published' = Published \cup {mk.slot}
    BY <1>1, <1>3 DEF CreatePublish, Published, Live, Fields, SchedInv, Creation
  <2>2. Cardinality(Published') <= Cardinality(Published) + 1
    BY <2>1, PublishedCount, FS_AddElement
  <2>3. ready + 0 >= Cardinality(Published) /\ ready \in Nat /\ ready' = ready
    BY <1>1 DEF CreatePublish, SchedInv, Counts, Fields, Uncounted, Phase
  <2>4. ready' + 1 >= Cardinality(Published')
    BY <2>2, <2>3, PublishedCount
  <2> QED
    BY <1>3, <2>4 DEF Counts, Uncounted, Phase
<1> QED
  BY <1>1, <1>2, <1>3, <1>5, <1>6, <1>7, <1>8, TypedByParts DEF SchedInv

LEMMA CreateCountKeepsInv ==
  ASSUME SchedInv, CreateCount
  PROVE  SchedInv'
<1>1. /\ cur = Idle /\ panic = "no" /\ lock = 0 /\ Phase = "count" /\ zombie = Idle
      /\ Goto(At("store")) = [frames EXCEPT ![Idle] = <<At("store")>>]
      /\ frames \in [Tasks -> Seq(FrameSet)] /\ Fields /\ Idle \in Tasks
      /\ mk.slot \in Tasks \ {Idle} /\ mk.slot \notin revived /\ state[Idle] = "RUNNING"
  <2>1. Running("count")
    BY DEF CreateCount, Step
  <2>2. /\ cur = Idle /\ panic = "no" /\ lock = 0 /\ Phase = "count" /\ zombie = Idle
        /\ frames \in [Tasks -> Seq(FrameSet)] /\ Fields /\ Idle \in Tasks
        /\ state[Idle] = "RUNNING"
    BY <2>1, AtBottom, CurLives, FieldsTyped DEF SchedInv, Callstacks, CreateSteps
  <2>3. Goto(At("store")) = [frames EXCEPT ![Idle] = <<At("store")>>]
    BY <2>1, <2>2, IdleGoto DEF CreateSteps
  <2>4. mk.slot \in Tasks \ {Idle} /\ mk.slot \notin revived
    BY <2>2 DEF Fields, SchedInv, Creation
  <2> QED
    BY <2>2, <2>3, <2>4
<1>2. Fields'
  BY <1>1 DEF CreateCount, Step, sched, Fields
<1>3. Callstacks' /\ Turns' /\ Phase' = "store" /\ Reaping'
  <2>1. frames' = [frames EXCEPT ![Idle] = <<At("store")>>]
    BY <1>1 DEF CreateCount, Step
  <2>2. frames' \in [Tasks -> Seq(FrameSet)] /\ frames'[Idle] = <<At("store")>>
    BY <1>1, <2>1, OneFrame, EmptySeq DEF CreateSteps
  <2>3. revived' \subseteq Tasks /\ Idle \notin revived' /\ \A t \in Tasks \ {Idle} : Aside(t)
    BY <1>1, <2>1, CurLives
       DEF CreateCount, Fields, Aside, SchedInv, Creation, Live
  <2>4. UNCHANGED sched /\ base'[Idle] = base[Idle] /\ state'[Idle] = state[Idle]
    BY <1>1 DEF CreateCount, Fields
  <2>5. Running("count")
    BY DEF CreateCount, Step
  <2> QED
    BY <1>1, <2>2, <2>3, <2>4, <2>5, IdleStepKeepsTurns DEF CreateSteps
<1>4. \A t \in Tasks, k \in Nat : FreeAt(t, k)' => FreeAt(t, k) /\ frames'[t][k] = frames[t][k]
  BY <1>1, IdleStepKeepsFrees DEF CreateCount, Step, CreateSteps
<1>5. Creation'
  BY <1>1, <1>3 DEF CreateCount, Step, Creation, SchedInv, Live, Fields
<1>6. Owners' /\ panic' \in {"no", "no stack"}
  <2>1. SlotsOwned'
    BY <1>1, <1>3 DEF CreateCount, SchedInv, Owners, SlotsOwned, FreshOwned,
       Dangling, Live, Sound, Fields
  <2>2. \A t \in Tasks, k \in Nat : FreeAt(t, k) =>
          frames[t][k].stack \in heap' /\ \A u \in Tasks : base'[u] # frames[t][k].stack
    BY <1>1, <1>3 DEF CreateCount, SchedInv, Owners, FreesOwned, FreshOwned,
       Fields
  <2>3. FreesOwned'
    BY <1>4, <2>2, FreesStay DEF SchedInv, Owners
  <2>4. FreshOwned'
    BY <1>1, <1>3, <1>4 DEF CreateCount, SchedInv, Owners, SlotsOwned,
       FreesOwned, FreshOwned, Dangling, Fields
  <2>5. panic' \in {"no", "no stack"}
    BY <1>1, <1>3 DEF CreateCount, SchedInv, Owners, SlotsOwned, Dangling
  <2> QED
    BY <2>1, <2>3, <2>4, <2>5 DEF Owners
<1>7. Pids'
  BY <1>1, <1>3 DEF CreateCount, SchedInv, Pids, UniquePids, Live, Fields
<1>8. Counts'
  <2>1. Published' = Published
    BY <1>1, <1>3 DEF CreateCount, Published, Live, Fields
  <2>2. ready \in Nat /\ ready' = ready /\ mk'.seen = ready
    BY <1>1 DEF CreateCount, Fields
  <2>3. ready + 1 >= Cardinality(Published)
    BY <1>1 DEF SchedInv, Counts, Uncounted, Phase
  <2> QED
    BY <1>3, <2>1, <2>2, <2>3 DEF Counts, Uncounted, Phase
<1> QED
  BY <1>1, <1>2, <1>3, <1>5, <1>6, <1>7, <1>8, TypedByParts DEF SchedInv

LEMMA CreateStoreKeepsInv ==
  ASSUME SchedInv, CreateStore
  PROVE  SchedInv'
<1>1. /\ cur = Idle /\ panic = "no" /\ lock = 0 /\ Phase = "store" /\ zombie = Idle
      /\ Goto(At("add")) = [frames EXCEPT ![Idle] = <<At("add")>>]
      /\ frames \in [Tasks -> Seq(FrameSet)] /\ Fields /\ Idle \in Tasks
      /\ mk.slot \in Tasks \ {Idle} /\ mk.slot \notin revived /\ state[Idle] = "RUNNING"
  <2>1. Running("store")
    BY DEF CreateStore, Step
  <2>2. /\ cur = Idle /\ panic = "no" /\ lock = 0 /\ Phase = "store" /\ zombie = Idle
        /\ frames \in [Tasks -> Seq(FrameSet)] /\ Fields /\ Idle \in Tasks
        /\ state[Idle] = "RUNNING"
    BY <2>1, AtBottom, CurLives, FieldsTyped DEF SchedInv, Callstacks, CreateSteps
  <2>3. Goto(At("add")) = [frames EXCEPT ![Idle] = <<At("add")>>]
    BY <2>1, <2>2, IdleGoto DEF CreateSteps
  <2>4. mk.slot \in Tasks \ {Idle} /\ mk.slot \notin revived
    BY <2>2 DEF Fields, SchedInv, Creation
  <2> QED
    BY <2>2, <2>3, <2>4
<1>2. Fields'
  BY <1>1 DEF CreateStore, Step, sched, Fields
<1>3. Callstacks' /\ Turns' /\ Phase' = "add" /\ Reaping'
  <2>1. frames' = [frames EXCEPT ![Idle] = <<At("add")>>]
    BY <1>1 DEF CreateStore, Step
  <2>2. frames' \in [Tasks -> Seq(FrameSet)] /\ frames'[Idle] = <<At("add")>>
    BY <1>1, <2>1, OneFrame, EmptySeq DEF CreateSteps
  <2>3. revived' \subseteq Tasks /\ Idle \notin revived' /\ \A t \in Tasks \ {Idle} : Aside(t)
    BY <1>1, <2>1, CurLives
       DEF CreateStore, Fields, Aside, SchedInv, Creation, Live
  <2>4. UNCHANGED sched /\ base'[Idle] = base[Idle] /\ state'[Idle] = state[Idle]
    BY <1>1 DEF CreateStore, Fields
  <2>5. Running("store")
    BY DEF CreateStore, Step
  <2> QED
    BY <1>1, <2>2, <2>3, <2>4, <2>5, IdleStepKeepsTurns DEF CreateSteps
<1>4. \A t \in Tasks, k \in Nat : FreeAt(t, k)' => FreeAt(t, k) /\ frames'[t][k] = frames[t][k]
  BY <1>1, IdleStepKeepsFrees DEF CreateStore, Step, CreateSteps
<1>5. Creation'
  BY <1>1, <1>3 DEF CreateStore, Step, Creation, SchedInv, Live, Fields
<1>6. Owners' /\ panic' \in {"no", "no stack"}
  <2>1. SlotsOwned'
    BY <1>1, <1>3 DEF CreateStore, SchedInv, Owners, SlotsOwned, FreshOwned,
       Dangling, Live, Sound, Fields
  <2>2. \A t \in Tasks, k \in Nat : FreeAt(t, k) =>
          frames[t][k].stack \in heap' /\ \A u \in Tasks : base'[u] # frames[t][k].stack
    BY <1>1, <1>3 DEF CreateStore, SchedInv, Owners, FreesOwned, FreshOwned,
       Fields
  <2>3. FreesOwned'
    BY <1>4, <2>2, FreesStay DEF SchedInv, Owners
  <2>4. FreshOwned'
    BY <1>1, <1>3, <1>4 DEF CreateStore, SchedInv, Owners, SlotsOwned,
       FreesOwned, FreshOwned, Dangling, Fields
  <2>5. panic' \in {"no", "no stack"}
    BY <1>1, <1>3 DEF CreateStore, SchedInv, Owners, SlotsOwned, Dangling
  <2> QED
    BY <2>1, <2>3, <2>4, <2>5 DEF Owners
<1>7. Pids'
  BY <1>1, <1>3 DEF CreateStore, SchedInv, Pids, UniquePids, Live, Fields
<1>8. Counts'
  <2>1. Published' = Published
    BY <1>1, <1>3 DEF CreateStore, Published, Live, Fields
  <2>2. mk.seen \in Nat /\ ready' = mk.seen + 1
    BY <1>1 DEF CreateStore, Fields
  <2>3. mk.seen + 1 >= Cardinality(Published)
    BY <1>1 DEF SchedInv, Counts
  <2>4. ready' + 0 >= Cardinality(Published')
    BY <2>1, <2>2, <2>3, PublishedCount
  <2> QED
    BY <1>3, <2>4 DEF Counts, Uncounted, Phase
<1> QED
  BY <1>1, <1>2, <1>3, <1>5, <1>6, <1>7, <1>8, TypedByParts DEF SchedInv

LEMMA CreateAddReadyKeepsInv ==
  ASSUME SchedInv, CreateAddReady
  PROVE  SchedInv'
<1>1. /\ cur = Idle /\ panic = "no" /\ lock = 0 /\ Phase = "add" /\ zombie = Idle
      /\ Goto(At("run")) = [frames EXCEPT ![Idle] = <<At("run")>>]
      /\ frames \in [Tasks -> Seq(FrameSet)] /\ Fields /\ Idle \in Tasks
      /\ mk.slot \in Tasks \ {Idle} /\ mk.slot \notin revived /\ state[Idle] = "RUNNING"
  <2>1. Running("add")
    BY DEF CreateAddReady, Step
  <2>2. /\ cur = Idle /\ panic = "no" /\ lock = 0 /\ Phase = "add" /\ zombie = Idle
        /\ frames \in [Tasks -> Seq(FrameSet)] /\ Fields /\ Idle \in Tasks
        /\ state[Idle] = "RUNNING"
    BY <2>1, AtBottom, CurLives, FieldsTyped DEF SchedInv, Callstacks, CreateSteps
  <2>3. Goto(At("run")) = [frames EXCEPT ![Idle] = <<At("run")>>]
    BY <2>1, <2>2, IdleGoto DEF CreateSteps
  <2>4. mk.slot \in Tasks \ {Idle} /\ mk.slot \notin revived
    BY <2>2 DEF Fields, SchedInv, Creation
  <2> QED
    BY <2>2, <2>3, <2>4
<1>2. Fields'
  BY <1>1 DEF CreateAddReady, Step, sched, Fields
<1>3. Callstacks' /\ Turns' /\ Phase' = "run" /\ Reaping'
  <2>1. frames' = [frames EXCEPT ![Idle] = <<At("run")>>]
    BY <1>1 DEF CreateAddReady, Step
  <2>2. frames' \in [Tasks -> Seq(FrameSet)] /\ frames'[Idle] = <<At("run")>>
    BY <1>1, <2>1, OneFrame, EmptySeq DEF CreateSteps
  <2>3. revived' \subseteq Tasks /\ Idle \notin revived' /\ \A t \in Tasks \ {Idle} : Aside(t)
    BY <1>1, <2>1, CurLives
       DEF CreateAddReady, Fields, Aside, SchedInv, Creation, Live
  <2>4. UNCHANGED sched /\ base'[Idle] = base[Idle] /\ state'[Idle] = state[Idle]
    BY <1>1 DEF CreateAddReady, Fields
  <2>5. Running("add")
    BY DEF CreateAddReady, Step
  <2> QED
    BY <1>1, <2>2, <2>3, <2>4, <2>5, IdleStepKeepsTurns DEF CreateSteps
<1>4. \A t \in Tasks, k \in Nat : FreeAt(t, k)' => FreeAt(t, k) /\ frames'[t][k] = frames[t][k]
  BY <1>1, IdleStepKeepsFrees DEF CreateAddReady, Step, CreateSteps
<1>5. Creation'
  <2>1. mk'.slot = Idle /\ Idle \notin revived' /\ \A t \in revived' : Live(t)'
    BY <1>1, CurLives DEF CreateAddReady, Creation, SchedInv, Live, Fields
  <2> QED
    BY <1>3, <2>1 DEF Creation
<1>6. Owners' /\ panic' \in {"no", "no stack"}
  <2>1. SlotsOwned'
    BY <1>1, <1>3 DEF CreateAddReady, SchedInv, Owners, SlotsOwned, FreshOwned,
       Dangling, Live, Sound, Fields
  <2>2. \A t \in Tasks, k \in Nat : FreeAt(t, k) =>
          frames[t][k].stack \in heap' /\ \A u \in Tasks : base'[u] # frames[t][k].stack
    BY <1>1, <1>3 DEF CreateAddReady, SchedInv, Owners, FreesOwned, FreshOwned,
       Fields
  <2>3. FreesOwned'
    BY <1>4, <2>2, FreesStay DEF SchedInv, Owners
  <2>4. FreshOwned'
    BY <1>1, <1>3, <1>4 DEF CreateAddReady, SchedInv, Owners, SlotsOwned,
       FreesOwned, FreshOwned, Dangling, Fields
  <2>5. panic' \in {"no", "no stack"}
    BY <1>1, <1>3 DEF CreateAddReady, SchedInv, Owners, SlotsOwned, Dangling
  <2> QED
    BY <2>1, <2>3, <2>4, <2>5 DEF Owners
<1>7. Pids'
  BY <1>1, <1>3 DEF CreateAddReady, SchedInv, Pids, UniquePids, Live, Fields
<1>8. Counts'
  <2>1. Published' = Published
    BY <1>1, <1>3 DEF CreateAddReady, Published, Live, Fields
  <2> QED
    BY <1>1, <1>3, <2>1, SamePublished DEF CreateAddReady
<1> QED
  BY <1>1, <1>2, <1>3, <1>5, <1>6, <1>7, <1>8, TypedByParts DEF SchedInv

-----------------------------------------------------------------------------
(* Ticks, switches and exits *)

(* The task that gets the processor waits for it; idle was never new. *)
LEMMA NextWaits ==
  ASSUME SchedInv, ReadyTasks # {}
  PROVE  /\ PickNext \in Tasks /\ state[PickNext] = "READY" /\ PickNext # cur
         /\ Live(PickNext)
         /\ PickNext \notin revived => TopOf(PickNext).pc \in Waiting
         /\ PickNext = Idle => TopOf(Idle).pc = "switch"
<1>1. PickNext \in Tasks /\ state[PickNext] = "READY" /\ PickNext # cur /\ Live(PickNext)
  BY PickNextIsReady, CurLives DEF SchedInv, Live
<1>2. PickNext \notin revived => TopOf(PickNext).pc \in Waiting
  BY <1>1 DEF SchedInv, Turns
<1>3. ASSUME PickNext = Idle PROVE TopOf(Idle).pc = "switch"
  <2>0. Idle \in Tasks /\ Sound(Idle) /\ PickNext \notin revived
    BY <1>3, CurLives DEF SchedInv, Turns, Sound
  <2>1. /\ frames[Idle] \in Seq(FrameSet) /\ frames[Idle] # << >> /\ Len(frames[Idle]) \in Nat \ {0}
    BY <2>0, EmptySeq DEF SchedInv, Callstacks
  <2>2. /\ frames[Idle][1].pc \in CreateSteps \cup {"run"}
        /\ \A k \in 1 .. Len(frames[Idle]) : k > 1 => frames[Idle][k].pc \in {"switch", "free"}
    BY <2>0 DEF SchedInv, Callstacks
  <2>3. CASE Len(frames[Idle]) = 1
    BY <1>2, <1>3, <2>0, <2>2, <2>3 DEF TopOf, Waiting, CreateSteps
  <2>4. CASE Len(frames[Idle]) > 1
    BY <1>2, <1>3, <2>0, <2>1, <2>2, <2>4 DEF TopOf, Waiting
  <2>5. \A k \in Nat \ {0} : k = 1 \/ k > 1
    OBVIOUS
  <2> QED
    BY <2>1, <2>3, <2>4, <2>5
<1> QED
  BY <1>1, <1>2, <1>3

LEMMA SwitchFrame == At("switch") \in FrameSet /\ At("switch").pc = "switch"
BY DEF At, Frame, FrameSet

LEMMA PreemptKeepsInv ==
  ASSUME SchedInv, Preempt
  PROVE  SchedInv'
<1> DEFINE n == PickNext
           s == frames[cur]
<1>1. /\ n \in Tasks /\ state[n] = "READY" /\ n # cur
      /\ n \notin revived => TopOf(n).pc \in Waiting
      /\ n = Idle => TopOf(Idle).pc = "switch"
  BY NextWaits DEF Preempt
<1>2. /\ cur \in Tasks /\ Idle \in Tasks /\ state[cur] = "RUNNING" /\ Fields
      /\ s \in Seq(FrameSet) /\ s # << >> /\ Len(s) \in Nat \ {0}
      /\ frames \in [Tasks -> Seq(FrameSet)]
      /\ panic = "no" /\ cur \notin revived
  <2>1. panic = "no" /\ lock = 0
    BY DEF Preempt
  <2>2. cur \notin revived
    BY <2>1, EndedOnlyResumes
  <2> QED
    BY <2>1, <2>2, CurLives, FieldsTyped DEF SchedInv, Callstacks
<1>3. /\ frames' = [frames EXCEPT ![cur] = Append(s, At("switch"))]
      /\ state' = [state EXCEPT ![cur] = "READY", ![n] = "RUNNING"]
      /\ lock = 0 /\ lock' = 1 /\ rr' = n /\ cur' = n /\ rsp0' = base[n]
      /\ UNCHANGED <<pid, base, zombie, nextPid, ready, heap, mk, panic, revived>>
  BY <1>2 DEF Preempt, SwitchTo, Requeued, RingZeroStack
<1>4. /\ frames'[cur] \in Seq(FrameSet) /\ Len(frames'[cur]) = Len(s) + 1
      /\ frames'[cur] # << >> /\ frames'[cur][Len(s) + 1].pc = "switch"
      /\ \A k \in 1 .. Len(s) : frames'[cur][k] = s[k]
      /\ \A t \in Tasks \ {cur} : frames'[t] = frames[t]
  BY <1>2, <1>3, Pushed, SwitchFrame
<1>5. \A t \in Tasks : (Live(t)' <=> Live(t)) /\ (Sound(t)' <=> Sound(t))
  BY <1>1, <1>2, <1>3 DEF Live, Sound, Fields
<1>6. Phase' = Phase
  BY <1>2, <1>4 DEF Phase
<1> HIDE DEF n, s
<1>7. Fields'
  BY <1>1, <1>2, <1>3 DEF Fields
<1>8. Callstacks'
  <2>1. frames' \in [Tasks -> Seq(FrameSet)]
    BY <1>2, <1>3, <1>4
  <2>2. s[Len(s)].pc \notin Waiting
    <3>1. lock = 1 <=> TopOf(cur).pc \in Waiting
      BY <1>2 DEF SchedInv, Turns
    <3>2. TopOf(cur).pc \notin Waiting
      BY <1>3, <3>1
    <3> QED
      BY <3>2 DEF TopOf, s
  <2>3. /\ s[1].pc \in IF cur = Idle THEN CreateSteps \cup {"run"} ELSE {"run", "boot"}
        /\ \A k \in 1 .. Len(s) : /\ k > 1 => s[k].pc \in {"switch", "free"}
                                  /\ k < Len(s) => s[k].pc \notin Waiting
    BY <1>2, CurLives DEF SchedInv, Callstacks, s
  <2>4. \A k \in 1 .. Len(frames'[cur]) :
          /\ k > 1 => frames'[cur][k].pc \in {"switch", "free"}
          /\ k < Len(frames'[cur]) => frames'[cur][k].pc \notin Waiting
    <3> TAKE k \in 1 .. Len(frames'[cur])
    <3>1. CASE k = Len(s) + 1
      BY <1>2, <1>4, <3>1
    <3>2. CASE k \in 1 .. Len(s)
      BY <1>2, <1>4, <2>2, <2>3, <3>2
    <3> QED
      BY <1>2, <1>4, <3>1, <3>2
  <2>5. frames'[cur][1] = s[1]
    BY <1>2, <1>4
  <2> QED
    <3>1. \A t \in revived' : frames'[t] \in EndedStacks
      BY <1>2, <1>3, <1>4, CurLives DEF SchedInv, Callstacks
    <3> QED
      BY <1>4, <1>5, <2>1, <2>3, <2>4, <2>5, <3>1 DEF SchedInv, Callstacks
<1>9. Turns'
  <2>1. \A t \in Tasks : state'[t] = "RUNNING" <=> t = cur'
    BY <1>1, <1>2, <1>3 DEF SchedInv, Turns, Fields
  <2>2. \A t \in Tasks : state'[t] = "READY" /\ t \notin revived' => TopOf(t)'.pc \in Waiting
    BY <1>1, <1>2, <1>3, <1>4 DEF SchedInv, Turns, TopOf, Waiting, Fields
  <2>3. cur' \notin revived' => TopOf(cur)'.pc \in Waiting
    BY <1>1, <1>3, <1>4 DEF TopOf
  <2>4. Sound(Idle)'
    BY <1>2, <1>5 DEF SchedInv, Turns
  <2> QED
    BY <1>3, <2>1, <2>2, <2>3, <2>4 DEF Turns
<1>10. \A t \in Tasks, k \in Nat : FreeAt(t, k)' => FreeAt(t, k) /\ frames'[t][k] = frames[t][k]
  BY <1>2, <1>4 DEF FreeAt, s
<1>11. Creation'
  BY <1>1, <1>2, <1>3, <1>4, <1>5, <1>6, CurLives DEF SchedInv, Creation, Fields, Live
<1>12. Owners'
  <2>1. SlotsOwned'
    BY <1>3, <1>5, <1>6 DEF SchedInv, Owners, SlotsOwned, Dangling
  <2>2. FreesOwned'
    <3>1. \A t \in Tasks, k \in Nat : FreeAt(t, k) =>
            frames[t][k].stack \in heap' /\ \A u \in Tasks : base'[u] # frames[t][k].stack
      BY <1>3 DEF SchedInv, Owners, FreesOwned
    <3> QED
      BY <1>10, <3>1, FreesStay DEF SchedInv, Owners
  <2>3. FreshOwned'
    BY <1>3, <1>6, <1>10 DEF SchedInv, Owners, FreshOwned
  <2> QED
    BY <2>1, <2>2, <2>3 DEF Owners
<1>13. Reaping'
  BY <1>1, <1>2, <1>3, <1>4, <1>6 DEF SchedInv, Reaping, TopOf, Fields
<1>14. Pids'
  BY <1>3, <1>5, <1>6 DEF SchedInv, Pids, UniquePids
<1>15. Counts'
  <2>1. Published' = Published
    BY <1>3, <1>5, <1>6 DEF Published, Live
  <2> QED
    BY <1>3, <1>6, <2>1 DEF SchedInv, Counts, Uncounted, Phase
<1> QED
  BY <1>2, <1>3, <1>7, <1>8, <1>9, <1>11, <1>12, <1>13, <1>14, <1>15, TypedByParts DEF
     SchedInv

(* A frame on top of another is a tick, and the lock is its own or free. *)
LEMMA Interrupted ==
  ASSUME SchedInv, NEW pc \in {"switch", "free"}, Running(pc), cur \notin revived
  PROVE  /\ panic = "no" /\ Len(frames[cur]) - 1 \in Nat \ {0}
         /\ frames[cur][Len(frames[cur])].pc = pc
         /\ frames[cur][1].pc \in IF cur = Idle THEN CreateSteps \cup {"run"} ELSE {"run", "boot"}
         /\ \A k \in 1 .. Len(frames[cur]) - 1 :
              /\ k > 1 => frames[cur][k].pc \in {"switch", "free"}
              /\ frames[cur][k].pc \notin Waiting
         /\ pc = "free" => lock = 0
<1>1. /\ panic = "no" /\ frames[cur][Len(frames[cur])].pc = pc
  BY DEF Running, Top
<1>2. /\ frames[cur][1].pc \in IF cur = Idle THEN CreateSteps \cup {"run"} ELSE {"run", "boot"}
      /\ \A k \in 1 .. Len(frames[cur]) : /\ k > 1 => frames[cur][k].pc \in {"switch", "free"}
                                          /\ k < Len(frames[cur]) => frames[cur][k].pc \notin Waiting
  BY CurLives DEF SchedInv, Callstacks
<1>3. Len(frames[cur]) \in Nat \ {0} /\ Len(frames[cur]) # 1
  BY <1>1, <1>2, CurLives DEF CreateSteps
<1>4. \A n \in Nat \ {0} : n # 1 => n - 1 \in Nat \ {0} /\ \A k \in 1 .. n - 1 : k \in 1 .. n /\ k < n
  OBVIOUS
<1>5. pc = "free" => lock = 0
  <2>1. lock = 1 <=> TopOf(cur).pc \in Waiting
    BY DEF SchedInv, Turns
  <2>2. lock \in {0, 1}
    BY DEF SchedInv, SchedTypeOK
  <2> QED
    BY <1>1, <2>1, <2>2 DEF TopOf, Waiting
<1> QED
  BY <1>1, <1>2, <1>3, <1>4, <1>5

(* A step that ends with the task in its own code, or in a kfree, leaves   *)
(* the call stacks and the turns in order.                                 *)
LEMMA ReleaseKeepsTurns ==
  ASSUME SchedInv, cur \notin revived, panic = "no", UNCHANGED <<state, cur, rsp0, revived>>, lock' = 0, base'[cur] = base[cur],
         frames' \in [Tasks -> Seq(FrameSet)], Len(frames'[cur]) \in Nat \ {0},
         frames'[cur][1].pc \in IF cur = Idle THEN CreateSteps \cup {"run"} ELSE {"run", "boot"},
         cur = Idle => frames'[cur][1] = frames[cur][1],
         \A k \in 1 .. Len(frames'[cur]) :
           /\ k > 1 => frames'[cur][k].pc \in {"switch", "free"}
           /\ frames'[cur][k].pc \notin Waiting,
         \A t \in Tasks \ {cur} : frames'[t] = frames[t] \/ state[t] = "DEAD"
  PROVE  Callstacks' /\ Turns' /\ Phase' = Phase
<1>1. Sound(Idle) /\ Idle \in Tasks /\ cur \in Tasks /\ state[cur] = "RUNNING"
  BY CurLives DEF SchedInv, Turns
<1>2. Callstacks'
  <2>1. frames'[cur] # << >>
    BY EmptySeq
  <2>2. \A t \in Tasks : Sound(t)' => t = cur \/ (Sound(t) /\ frames'[t] = frames[t])
    BY DEF Live, Sound
  <2>3. \A t \in revived' : frames'[t] \in EndedStacks
    BY CurLives DEF SchedInv, Callstacks, Creation, Live
  <2> QED
    BY <2>1, <2>2, <2>3 DEF SchedInv, Callstacks
<1>3. Turns'
  <2>1. \A t \in Tasks : state'[t] = "READY" => frames'[t] = frames[t] /\ state[t] = "READY"
    BY <1>1
  <2>2. \A t \in Tasks : state'[t] = "READY" /\ t \notin revived' => TopOf(t)'.pc \in Waiting
    BY <2>1 DEF SchedInv, Turns, TopOf
  <2>3. TopOf(cur)'.pc \notin Waiting
    BY DEF TopOf
  <2>4. Sound(Idle)' /\ \A t \in Tasks : state'[t] = "RUNNING" <=> t = cur'
    BY <1>1 DEF SchedInv, Turns, Live, Sound
  <2>5. rsp0' = base'[cur']
    BY DEF SchedInv, Turns
  <2> QED
    BY <2>2, <2>3, <2>4, <2>5 DEF Turns
<1>4. Phase' = Phase
  BY <1>1 DEF Phase, Live, Sound
<1> QED
  BY <1>2, <1>3, <1>4

LEMMA BootstrapKeepsInv ==
  ASSUME SchedInv, Bootstrap
  PROVE  SchedInv'
<1>1. /\ Len(frames[cur]) = 1 /\ frames[cur][1].pc = "boot" /\ panic = "no" /\ cur # Idle
      /\ cur \in Tasks /\ frames[cur] \in Seq(FrameSet) /\ frames[cur] # << >>
      /\ frames \in [Tasks -> Seq(FrameSet)] /\ Fields /\ state[cur] = "RUNNING"
      /\ cur \notin revived
  BY AtBottom, CurLives, FieldsTyped DEF Bootstrap, SchedInv, Callstacks
<1>2. frames' = [frames EXCEPT ![cur] = <<At("run")>>]
  <2>1. [frames[cur] EXCEPT ![Len(frames[cur])] = At("run")] = <<At("run")>>
    BY <1>1
  <2> QED
    BY <1>1, <2>1 DEF Bootstrap, Goto
<1>3. Fields'
  BY <1>1 DEF Bootstrap, Fields
<1>4. Callstacks' /\ Turns' /\ Phase' = Phase
  <2>1. frames' \in [Tasks -> Seq(FrameSet)] /\ frames'[cur] = <<At("run")>>
    BY <1>1, <1>2, OneFrame
  <2>2. /\ Len(frames'[cur]) = 1 /\ frames'[cur][1].pc = "run"
        /\ \A k \in 1 .. Len(frames'[cur]) : k = 1
    BY <2>1 DEF At, Frame
  <2>3. \A t \in Tasks \ {cur} : frames'[t] = frames[t]
    BY <1>1, <1>2
  <2>4. UNCHANGED <<state, cur, rsp0, revived>> /\ lock' = 0 /\ base'[cur] = base[cur]
    BY DEF Bootstrap
  <2>5. Len(frames'[cur]) \in Nat \ {0} /\ "run" \notin Waiting
    BY <2>2 DEF Waiting
  <2>6. \A k \in 1 .. Len(frames'[cur]) :
          /\ k > 1 => frames'[cur][k].pc \in {"switch", "free"}
          /\ frames'[cur][k].pc \notin Waiting
    BY <2>2, <2>5
  <2>7. frames'[cur][1].pc \in IF cur = Idle THEN CreateSteps \cup {"run"} ELSE {"run", "boot"}
    BY <2>2
  <2> QED
    BY <1>1, <2>1, <2>3, <2>4, <2>5, <2>6, <2>7, ReleaseKeepsTurns
<1>5. \A t \in Tasks, k \in Nat : FreeAt(t, k)' => FreeAt(t, k) /\ frames'[t][k] = frames[t][k]
  BY <1>1, <1>2 DEF FreeAt, At, Frame
<1>6. Creation'
  BY <1>1, <1>2, <1>4 DEF Bootstrap, SchedInv, Creation, Live, Fields
<1>7. Owners'
  <2>1. SlotsOwned'
    BY <1>4 DEF Bootstrap, SchedInv, Owners, SlotsOwned, Dangling, Live, Sound
  <2>2. \A t \in Tasks, k \in Nat : FreeAt(t, k) =>
          frames[t][k].stack \in heap' /\ \A u \in Tasks : base'[u] # frames[t][k].stack
    BY DEF Bootstrap, SchedInv, Owners, FreesOwned
  <2>3. FreesOwned'
    BY <1>5, <2>2, FreesStay DEF SchedInv, Owners
  <2>4. FreshOwned'
    BY <1>4, <1>5 DEF Bootstrap, SchedInv, Owners, FreshOwned
  <2> QED
    BY <2>1, <2>3, <2>4 DEF Owners
<1>8. Reaping' /\ Pids'
  BY <1>1, <1>4 DEF Bootstrap, SchedInv, Reaping, Pids, UniquePids, Live
<1>9. Counts'
  <2>1. Published' = Published
    BY <1>4 DEF Bootstrap, Published, Live
  <2> QED
    BY <1>1, <1>4, <2>1 DEF Bootstrap, SchedInv, Counts, Uncounted, Phase
<1> QED
  BY <1>1, <1>3, <1>4, <1>6, <1>7, <1>8, <1>9, TypedByParts DEF Bootstrap,
     SchedInv

(* The return from a tick. *)
LEMMA ReturnPops ==
  ASSUME SchedInv, Len(frames[cur]) - 1 \in Nat \ {0}, frames' = Return
  PROVE  /\ frames' \in [Tasks -> Seq(FrameSet)]
         /\ Len(frames'[cur]) = Len(frames[cur]) - 1 /\ Len(frames'[cur]) \in Nat \ {0}
         /\ \A k \in 1 .. Len(frames'[cur]) : frames'[cur][k] = frames[cur][k]
         /\ \A t \in Tasks \ {cur} : frames'[t] = frames[t]
         /\ \A t \in Tasks, k \in Nat : FreeAt(t, k)' =>
              /\ FreeAt(t, k) /\ frames'[t][k] = frames[t][k]
              /\ t # cur \/ k # Len(frames[cur])
<1> DEFINE r == SubSeq(frames[cur], 1, Len(frames[cur]) - 1)
<1>1. /\ cur \in Tasks /\ frames[cur] \in Seq(FrameSet) /\ frames[cur] # << >>
      /\ frames \in [Tasks -> Seq(FrameSet)] /\ Len(frames[cur]) - 1 \in Nat \ {0}
      /\ Len(frames[cur]) \in Nat
  <2>1. /\ cur \in Tasks /\ frames[cur] \in Seq(FrameSet)
        /\ frames \in [Tasks -> Seq(FrameSet)] /\ Len(frames[cur]) \in Nat
    <3>1. cur \in Tasks /\ frames \in [Tasks -> Seq(FrameSet)]
      BY CurLives DEF SchedInv, Callstacks
    <3> QED
      BY <3>1
  <2>2. frames[cur] # << >>
    <3> SUFFICES ASSUME frames[cur] = << >> PROVE FALSE
      OBVIOUS
    <3>1. Len(frames[cur]) = 0
      OBVIOUS
    <3>2. 0 - 1 \notin Nat
      OBVIOUS
    <3> QED
      BY <3>1, <3>2
  <2> QED
    BY <2>1, <2>2
<1>2. /\ r \in Seq(FrameSet) /\ Len(r) = Len(frames[cur]) - 1
      /\ \A k \in 1 .. Len(frames[cur]) - 1 : r[k] = frames[cur][k]
  BY <1>1, Popped
<1>3. frames' = [frames EXCEPT ![cur] = r]
  BY DEF Return
<1> HIDE DEF r
<1>4. frames' \in [Tasks -> Seq(FrameSet)] /\ frames'[cur] = r /\ \A t \in Tasks \ {cur} : frames'[t] = frames[t]
  BY <1>1, <1>2, <1>3
<1>5. \A t \in Tasks, k \in Nat : FreeAt(t, k)' =>
        /\ FreeAt(t, k) /\ frames'[t][k] = frames[t][k]
        /\ t # cur \/ k # Len(frames[cur])
  <2> SUFFICES ASSUME NEW t \in Tasks, NEW k \in Nat, FreeAt(t, k)'
               PROVE  /\ FreeAt(t, k) /\ frames'[t][k] = frames[t][k]
                      /\ t # cur \/ k # Len(frames[cur])
    OBVIOUS
  <2>1. CASE t = cur
    <3>1. k \in 1 .. Len(frames[cur]) - 1 /\ r[k].pc = "free"
      BY <1>2, <1>4, <2>1 DEF FreeAt
    <3>2. k \in 1 .. Len(frames[cur]) /\ k # Len(frames[cur])
      BY <1>1, <3>1
    <3> QED
      BY <1>2, <1>4, <2>1, <3>1, <3>2 DEF FreeAt
  <2>2. CASE t # cur
    BY <1>4, <2>2 DEF FreeAt
  <2> QED
    BY <2>1, <2>2
<1> QED
  BY <1>1, <1>2, <1>4, <1>5

LEMMA ReturnKeepsTurns ==
  ASSUME SchedInv, NEW pc \in {"switch", "free"}, Running(pc), cur \notin revived, frames' = Return,
         UNCHANGED <<state, cur, rsp0, revived>>, lock' = 0, base' = base
  PROVE  Callstacks' /\ Turns' /\ Phase' = Phase
<1>1. /\ frames' \in [Tasks -> Seq(FrameSet)]
      /\ Len(frames'[cur]) = Len(frames[cur]) - 1 /\ Len(frames'[cur]) \in Nat \ {0}
      /\ \A k \in 1 .. Len(frames'[cur]) : frames'[cur][k] = frames[cur][k]
      /\ \A t \in Tasks \ {cur} : frames'[t] = frames[t]
  BY ReturnPops, Interrupted
<1>2. /\ frames[cur][1].pc \in IF cur = Idle THEN CreateSteps \cup {"run"} ELSE {"run", "boot"}
      /\ \A k \in 1 .. Len(frames[cur]) - 1 :
           /\ k > 1 => frames[cur][k].pc \in {"switch", "free"}
           /\ frames[cur][k].pc \notin Waiting
  BY Interrupted
<1>3. frames'[cur][1] = frames[cur][1]
  <2>1. \A n \in Nat \ {0} : 1 \in 1 .. n
    OBVIOUS
  <2> QED
    BY <1>1, <2>1
<1>4. \A k \in 1 .. Len(frames'[cur]) :
           /\ k > 1 => frames'[cur][k].pc \in {"switch", "free"}
           /\ frames'[cur][k].pc \notin Waiting
  BY <1>1, <1>2
<1>5. panic = "no"
  BY Interrupted
<1> QED
  BY <1>1, <1>2, <1>3, <1>4, <1>5, ReleaseKeepsTurns

LEMMA FreeReapedKeepsInv ==
  ASSUME SchedInv, FreeReaped
  PROVE  SchedInv'
<1> DEFINE f == Top.stack
<1>1. /\ panic = "no" /\ lock = 0 /\ Len(frames[cur]) \in Nat /\ cur \in Tasks /\ Fields
      /\ frames[cur][Len(frames[cur])].pc = "free" /\ FreeAt(cur, Len(frames[cur]))
      /\ frames \in [Tasks -> Seq(FrameSet)] /\ cur \notin revived
      /\ Len(frames[cur]) - 1 \in Nat \ {0}
  <2>1. Running("free") /\ cur \notin revived
    <3>1. Running("free") /\ panic = "no"
      BY DEF FreeReaped, Running
    <3> QED
      BY <3>1, EndedOnlyResumes
  <2>2. /\ panic = "no" /\ lock = 0 /\ frames[cur][Len(frames[cur])].pc = "free"
        /\ Len(frames[cur]) - 1 \in Nat \ {0}
    BY <2>1, Interrupted
  <2>3. /\ Len(frames[cur]) \in Nat \ {0} /\ cur \in Tasks /\ Fields
        /\ frames \in [Tasks -> Seq(FrameSet)]
    BY <2>1, CurLives, FieldsTyped DEF SchedInv, Callstacks
  <2>4. \A n \in Nat \ {0} : n \in 1 .. n
    OBVIOUS
  <2> QED
    BY <2>1, <2>2, <2>3, <2>4 DEF FreeAt
<1>2. /\ f \in heap /\ \A u \in Tasks : base[u] # f
      /\ \A t \in Tasks, k \in Nat : FreeAt(t, k) /\ (t # cur \/ k # Len(frames[cur])) =>
           frames[t][k].stack # f
  BY <1>1 DEF SchedInv, Owners, FreesOwned, Top
<1>3. /\ heap' = heap \ {f} /\ frames' = Return
      /\ UNCHANGED <<state, pid, base, sched, nextPid, ready, mk, panic, revived>>
  BY <1>2 DEF FreeReaped
<1>4. Running("free") /\ UNCHANGED <<state, cur, rsp0, zombie, rr, lock, revived>> /\ lock' = 0
  BY <1>1, <1>3 DEF FreeReaped, sched
<1>5. Callstacks' /\ Turns' /\ Phase' = Phase
  BY <1>1, <1>3, <1>4, ReturnKeepsTurns
<1>6. /\ \A t \in Tasks \ {cur} : frames'[t] = frames[t]
      /\ \A t \in Tasks, k \in Nat : FreeAt(t, k)' =>
           /\ FreeAt(t, k) /\ frames'[t][k] = frames[t][k]
           /\ t # cur \/ k # Len(frames[cur])
  BY <1>1, <1>3, ReturnPops
<1> HIDE DEF f
<1>7. Fields'
  BY <1>1, <1>3, <1>4 DEF Fields
<1>8. Creation'
  <2>1. mk.slot \in Tasks /\ (state[mk.slot] = "DEAD" => frames'[mk.slot] = frames[mk.slot])
    BY <1>1, <1>6, CurLives DEF Fields
  <2> QED
    BY <1>3, <1>5, <2>1 DEF SchedInv, Creation, Live
<1>9. Owners'
  <2>1. SlotsOwned'
    BY <1>2, <1>3, <1>5 DEF SchedInv, Owners, SlotsOwned, Dangling, Live, Sound
  <2>2. FreesOwned'
    <3> SUFFICES ASSUME NEW t \in Tasks, NEW k \in Nat, FreeAt(t, k)'
                 PROVE  /\ frames'[t][k].stack \in heap'
                        /\ \A u \in Tasks : base'[u] # frames'[t][k].stack
                        /\ \A u \in Tasks, j \in Nat : FreeAt(u, j)' /\ (t # u \/ k # j) =>
                             frames'[u][j].stack # frames'[t][k].stack
      BY DEF FreesOwned
    <3>1. /\ FreeAt(t, k) /\ frames'[t][k] = frames[t][k]
          /\ t # cur \/ k # Len(frames[cur])
      BY <1>6
    <3>2. /\ frames[t][k].stack \in heap /\ frames[t][k].stack # f
          /\ \A u \in Tasks : base[u] # frames[t][k].stack
      BY <1>2, <3>1 DEF SchedInv, Owners, FreesOwned
    <3>3. ASSUME NEW u \in Tasks, NEW j \in Nat, FreeAt(u, j)', t # u \/ k # j
          PROVE  frames'[u][j].stack # frames'[t][k].stack
      <4>1. FreeAt(u, j) /\ frames'[u][j] = frames[u][j]
        BY <1>6, <3>3
      <4> QED
        BY <3>1, <3>3, <4>1 DEF SchedInv, Owners, FreesOwned
    <3> QED
      BY <1>3, <3>1, <3>2, <3>3
  <2>3. FreshOwned'
    <3>1. Phase # "base" \/ mk.stack # f
      BY <1>1 DEF SchedInv, Owners, FreshOwned, Top, f
    <3> QED
      BY <1>3, <1>5, <1>6, <3>1 DEF SchedInv, Owners, FreshOwned
  <2> QED
    BY <2>1, <2>2, <2>3 DEF Owners
<1>10. Reaping'
  <2>1. cur = Idle => zombie = Idle
    BY <1>1 DEF SchedInv, Reaping, TopOf
  <2> QED
    BY <1>3, <1>4, <1>5, <2>1 DEF SchedInv, Reaping
<1>11. Pids'
  BY <1>3, <1>5 DEF SchedInv, Pids, UniquePids, Live
<1>12. Counts'
  <2>1. Published' = Published
    BY <1>3, <1>5 DEF Published, Live
  <2> QED
    BY <1>3, <1>5, <2>1 DEF SchedInv, Counts, Uncounted, Phase
<1> QED
  BY <1>1, <1>3, <1>5, <1>7, <1>8, <1>9, <1>10, <1>11, <1>12, TypedByParts DEF SchedInv

(* A task resumed by a switch frees the stack of the task that died. *)
LEMMA ResumeKeepsInv ==
  ASSUME SchedInv, Resume
  PROVE  SchedInv'
<1>1. /\ Running("switch") /\ panic = "no" /\ cur \in Tasks /\ Fields
      /\ frames \in [Tasks -> Seq(FrameSet)] /\ frames[cur] \in Seq(FrameSet)
      /\ frames[cur] # << >> /\ state[cur] = "RUNNING"
      /\ Len(frames[cur]) \in Nat \ {0} /\ Len(frames[cur]) - 1 \in Nat \ {0}
      /\ frames[cur][Len(frames[cur])].pc = "switch"
      /\ cur \notin revived =>
           frames[cur][1].pc \in IF cur = Idle THEN CreateSteps \cup {"run"} ELSE {"run", "boot"}
      /\ cur \in revived => frames[cur] = <<At("exit"), At("switch")>>
  <2>1. Running("switch") /\ panic = "no" /\ frames[cur] # << >>
    BY DEF Resume, Running
  <2>2. CASE cur \notin revived
    <3>1. /\ Len(frames[cur]) - 1 \in Nat \ {0}
          /\ frames[cur][Len(frames[cur])].pc = "switch"
          /\ frames[cur][1].pc \in IF cur = Idle THEN CreateSteps \cup {"run"} ELSE {"run", "boot"}
      BY <2>1, <2>2, Interrupted
    <3> QED
      BY <2>1, <2>2, <3>1, CurLives, FieldsTyped DEF SchedInv, Callstacks
  <2>3. CASE cur \in revived
    <3>1. frames[cur] = <<At("exit"), At("switch")>>
      BY <2>1, <2>3, EndedOnlyResumes
    <3>2. Len(frames[cur]) = 2 /\ frames[cur][2].pc = "switch" /\ 2 - 1 \in Nat \ {0}
      BY <3>1 DEF At, Frame
    <3>3. /\ cur \in Tasks /\ Fields /\ state[cur] = "RUNNING"
          /\ frames \in [Tasks -> Seq(FrameSet)]
      BY CurLives, FieldsTyped DEF SchedInv, Callstacks
    <3>4. frames[cur] \in Seq(FrameSet)
      BY <3>3
    <3>5. Len(frames[cur]) \in Nat \ {0} /\ Len(frames[cur]) - 1 \in Nat \ {0}
      BY <3>2
    <3>6. frames[cur][Len(frames[cur])].pc = "switch"
      BY <3>2
    <3> QED
      BY <2>1, <2>3, <3>1, <3>3, <3>4, <3>5, <3>6
  <2> QED
    BY <2>2, <2>3
<1>2. /\ UNCHANGED <<state, pid, cur, rr, rsp0, nextPid, ready, heap, mk, revived>>
      /\ lock' = 0
      /\ cur \notin revived => panic' = "no"
      /\ cur \in revived => panic' = "no runnable task"
  <2>1. cur \notin revived => frames[cur][1].pc # "exit"
    BY <1>1 DEF CreateSteps
  <2>2. cur \in revived => frames[cur][1].pc = "exit"
    BY <1>1 DEF At, Frame
  <2>3. panic' = ResumePanic
    BY DEF Resume
  <2>4. /\ UNCHANGED <<state, pid, cur, rr, rsp0, nextPid, ready, heap, mk, revived>>
        /\ lock' = 0
    BY DEF Resume
  <2> QED
    BY <1>1, <2>1, <2>2, <2>3, <2>4 DEF ResumePanic
<1>3. zombie # Idle =>
        /\ zombie \in Tasks /\ state[zombie] = "DEAD" /\ base[zombie] # NULL
        /\ zombie = mk.slot => Phase \in {"count", "store", "add"}
        /\ zombie # cur /\ Reapable
  BY <1>1 DEF SchedInv, Reaping, Reapable, Fields
<1>4. ASSUME Callstacks', Turns', Phase' = Phase, Fields', Owners', zombie' = Idle,
             mk.slot # zombie => frames'[mk.slot] = frames[mk.slot] \/ mk.slot = cur,
             mk.slot # zombie => base'[mk.slot] = base[mk.slot],
             zombie # Idle => frames'[zombie] = << >>
      PROVE  SchedInv'
  <2>1. mk.slot \in Tasks /\ (zombie # Idle => frames'[zombie] \in EndedStacks)
    BY <1>1, <1>4 DEF Fields, EndedStacks
  <2>2. Creation'
    <3>1. CASE mk.slot # zombie \/ mk.slot = Idle
      BY <1>1, <1>2, <1>4, <2>1, <3>1 DEF SchedInv, Creation, Live
    <3>2. CASE mk.slot = zombie /\ mk.slot # Idle
      BY <1>1, <1>2, <1>3, <1>4, <2>1, <3>2 DEF SchedInv, Creation, Live
    <3> QED
      BY <3>1, <3>2
  <2>3. Reaping' /\ Pids'
    BY <1>2, <1>4 DEF SchedInv, Reaping, Pids, UniquePids, Live
  <2>4. Published' = Published
    BY <1>2, <1>4 DEF Published, Live
  <2>5. Counts'
    BY <1>2, <1>4, <2>4 DEF SchedInv, Counts, Uncounted, Phase
  <2> QED
    BY <1>1, <1>2, <1>4, <2>2, <2>3, <2>5, TypedByParts DEF SchedInv
(* A task that comes back into task_exit panics: nothing is asked of its   *)
(* call stack any more.                                                    *)
<1>7. ASSUME cur \in revived, frames' \in [Tasks -> Seq(FrameSet)], base'[cur] = base[cur],
             \A t \in Tasks \ {cur} : frames'[t] = frames[t] \/ state[t] = "DEAD"
      PROVE  Callstacks' /\ Turns' /\ Phase' = Phase
  <2>1. panic' # "no" /\ Sound(Idle) /\ Idle \in Tasks /\ cur # Idle
    BY <1>2, <1>7, CurLives DEF SchedInv, Turns
  <2>2. \A t \in Tasks : Sound(t)' => Sound(t) /\ frames'[t] = frames[t]
    BY <1>2, <1>7 DEF Sound, Live
  <2>3. Callstacks'
    BY <1>7, <2>1, <2>2 DEF SchedInv, Callstacks
  <2>4. \A t \in Tasks : state'[t] = "READY" /\ t \notin revived' => TopOf(t)'.pc \in Waiting
    BY <1>2, <2>2 DEF SchedInv, Turns, TopOf, Sound, Live
  <2>5. Sound(Idle)' /\ \A t \in Tasks : state'[t] = "RUNNING" <=> t = cur'
    BY <1>2, <2>1 DEF SchedInv, Turns, Live, Sound
  <2>6. Turns'
    BY <1>2, <1>7, <2>1, <2>4, <2>5 DEF SchedInv, Turns
  <2>7. Phase' = Phase
    BY <1>2, <1>7, <2>1, <2>2, <2>5 DEF Phase
  <2> QED
    BY <2>3, <2>6, <2>7
<1>5. CASE zombie = Idle
  <2>1. frames' = Return /\ UNCHANGED <<base, zombie>>
    BY <1>5 DEF Resume, Reapable
  <2>3. /\ \A t \in Tasks \ {cur} : frames'[t] = frames[t]
        /\ frames' \in [Tasks -> Seq(FrameSet)]
        /\ \A t \in Tasks, k \in Nat : FreeAt(t, k)' =>
             FreeAt(t, k) /\ frames'[t][k] = frames[t][k]
    BY <1>1, <2>1, ReturnPops
  <2>2. Callstacks' /\ Turns' /\ Phase' = Phase
    <3>1. CASE cur \notin revived
      BY <1>1, <1>2, <2>1, <3>1, ReturnKeepsTurns
    <3>2. CASE cur \in revived
      BY <1>7, <2>1, <2>3, <3>2
    <3> QED
      BY <3>1, <3>2
  <2>4. Fields'
    BY <1>1, <1>2, <2>1 DEF Fields
  <2>5. SlotsOwned'
    BY <1>2, <2>1, <2>2 DEF SchedInv, Owners, SlotsOwned, Dangling, Live, Sound
  <2>6. \A t \in Tasks, k \in Nat : FreeAt(t, k) =>
          frames[t][k].stack \in heap' /\ \A u \in Tasks : base'[u] # frames[t][k].stack
    BY <1>2, <2>1 DEF SchedInv, Owners, FreesOwned
  <2>7. FreesOwned'
    BY <2>3, <2>6, FreesStay DEF SchedInv, Owners
  <2>8. FreshOwned'
    BY <1>1, <1>2, <2>1, <2>2, <2>3 DEF SchedInv, Owners, FreshOwned
  <2>9. mk.slot \in Tasks
    BY <1>1 DEF Fields
  <2> QED
    BY <1>4, <1>5, <2>1, <2>2, <2>3, <2>4, <2>5, <2>7, <2>8, <2>9 DEF Owners
<1>6. CASE zombie # Idle
  <2> DEFINE n == Len(frames[cur])
             f == Frame("free", base[zombie])
             r == [frames[cur] EXCEPT ![n] = f]
  <2>1. /\ frames' = [Goto(f) EXCEPT ![zombie] = << >>]
        /\ base' = [base EXCEPT ![zombie] = NULL] /\ zombie' = Idle
    BY <1>3, <1>6 DEF Resume
  <2>2. f \in FrameSet /\ f.pc = "free" /\ f.stack = base[zombie]
    BY <1>1, <1>3, <1>6 DEF Frame, FrameSet, Fields
  <2>3. /\ r \in Seq(FrameSet) /\ Len(r) = n /\ r # << >> /\ r[n] = f
        /\ \A k \in 1 .. n - 1 : r[k] = frames[cur][k]
    BY <1>1, <2>2, Replaced
  <2>4. frames' = [frames EXCEPT ![cur] = r, ![zombie] = << >>]
    BY <2>1 DEF Goto
  <2> HIDE DEF r, f
  <2>5. /\ frames' \in [Tasks -> Seq(FrameSet)] /\ frames'[cur] = r /\ frames'[zombie] = << >>
        /\ \A t \in Tasks \ {cur, zombie} : frames'[t] = frames[t]
    BY <1>1, <1>3, <1>6, <2>3, <2>4, EmptySeq
  <2>6. \A k \in Nat : n \in Nat \ {0} /\ k \in 1 .. n => k = n \/ k \in 1 .. n - 1
    OBVIOUS
  <2>17. base'[cur] = base[cur] /\ \A t \in Tasks \ {cur} : frames'[t] = frames[t] \/ state[t] = "DEAD"
    BY <1>1, <1>3, <1>6, <2>1, <2>5 DEF Fields
  <2>18. ASSUME cur \notin revived PROVE Callstacks' /\ Turns' /\ Phase' = Phase
    <3>1. \A k \in 1 .. n - 1 : /\ k > 1 => frames[cur][k].pc \in {"switch", "free"}
                                /\ frames[cur][k].pc \notin Waiting
      BY <1>1, <2>18, Interrupted
    <3>2. \A k \in 1 .. n : /\ k > 1 => r[k].pc \in {"switch", "free"}
                            /\ r[k].pc \notin Waiting
      BY <1>1, <2>2, <2>3, <2>6, <3>1 DEF Waiting
    <3>3. r[1] = frames[cur][1]
      <4>1. \A m : m - 1 \in Nat \ {0} /\ m \in Nat => 1 \in 1 .. m - 1
        OBVIOUS
      <4> QED
        BY <1>1, <2>3, <4>1
    <3>4. Callstacks' /\ Turns' /\ Phase' = Phase
      BY <1>1, <1>2, <2>3, <2>5, <2>17, <2>18, <3>2, <3>3, ReleaseKeepsTurns
    <3> QED
      BY <3>4
  <2>7. Callstacks' /\ Turns' /\ Phase' = Phase
    BY <1>7, <2>5, <2>17, <2>18
  <2>8. \A t \in Tasks, k \in Nat : FreeAt(t, k)' =>
          \/ t = cur /\ k = n /\ frames'[t][k] = f
          \/ (t # cur \/ k # n) /\ FreeAt(t, k) /\ frames'[t][k] = frames[t][k]
    <3> SUFFICES ASSUME NEW t \in Tasks, NEW k \in Nat, FreeAt(t, k)'
                 PROVE  \/ t = cur /\ k = n /\ frames'[t][k] = f
                        \/ (t # cur \/ k # n) /\ FreeAt(t, k) /\ frames'[t][k] = frames[t][k]
      OBVIOUS
    <3>1. CASE t = cur
      <4>1. k \in 1 .. n /\ r[k].pc = "free"
        BY <2>3, <2>5, <3>1 DEF FreeAt
      <4>2. CASE k = n
        BY <2>3, <2>5, <3>1, <4>2
      <4>3. CASE k # n
        <5>1. k \in 1 .. n - 1
          BY <1>1, <2>6, <4>1, <4>3
        <5> QED
          BY <2>3, <2>5, <3>1, <4>1, <4>3, <5>1 DEF FreeAt
      <4> QED
        BY <4>2, <4>3
    <3>2. CASE t = zombie
      <4>1. ~(k \in 1 .. Len(frames'[t]))
        BY <2>5, <3>2
      <4> QED
        BY <4>1 DEF FreeAt
    <3>3. CASE t # cur /\ t # zombie
      BY <2>5, <3>3 DEF FreeAt
    <3> QED
      BY <3>1, <3>2, <3>3
  <2>9. Fields'
    BY <1>1, <1>2, <1>3, <1>6, <2>1, CurLives DEF Fields
  <2>10. SlotsOwned'
    <3>1. /\ base'[zombie] = NULL /\ \A t \in Tasks \ {zombie} : base'[t] = base[t]
          /\ zombie \in Tasks /\ zombie # Idle
      BY <1>1, <1>3, <1>6, <2>1 DEF Fields
    <3>2. \A t \in Tasks : (Sound(t)' <=> Sound(t)) /\ (Dangling(t)' <=> Dangling(t))
      BY <1>2, <2>7 DEF Sound, Live, Dangling
    <3>3. ~Sound(zombie)
      BY <1>3, <1>6 DEF Sound, Live
    <3> QED
      BY <1>2, <3>1, <3>2, <3>3, CurLives DEF SchedInv, Owners, SlotsOwned
  <2>11. /\ base[zombie] \in heap
         /\ \A u \in Tasks : base'[u] # base[zombie]
         /\ \A t \in Tasks, k \in Nat : FreeAt(t, k) => frames[t][k].stack # base[zombie]
    BY <1>1, <1>3, <1>6, <2>1 DEF SchedInv, Owners, SlotsOwned, FreesOwned,
       Dangling, Fields
  <2>12. \A t \in Tasks, k \in Nat : FreeAt(t, k) =>
           frames[t][k].stack \in heap /\ \A u \in Tasks : base'[u] # frames[t][k].stack
    <3>1. NULL \notin heap
      BY <1>1, SchedAssumption DEF Fields, NULL
    <3> QED
      BY <1>1, <2>1, <3>1 DEF SchedInv, Owners, FreesOwned, Fields
  <2>13. FreesOwned'
    <3> SUFFICES ASSUME NEW t \in Tasks, NEW k \in Nat, FreeAt(t, k)'
                 PROVE  /\ frames'[t][k].stack \in heap'
                        /\ \A u \in Tasks : base'[u] # frames'[t][k].stack
                        /\ \A u \in Tasks, j \in Nat : FreeAt(u, j)' /\ (t # u \/ k # j) =>
                             frames'[u][j].stack # frames'[t][k].stack
      BY DEF FreesOwned
    <3>1. CASE t = cur /\ k = n /\ frames'[t][k] = f
      <4>1. ASSUME NEW u \in Tasks, NEW j \in Nat, FreeAt(u, j)', t # u \/ k # j
            PROVE  FreeAt(u, j) /\ frames'[u][j] = frames[u][j]
        BY <2>8, <3>1, <4>1
      <4> QED
        BY <1>2, <2>2, <2>11, <3>1, <4>1
    <3>2. CASE FreeAt(t, k) /\ frames'[t][k] = frames[t][k]
      <4>1. ASSUME NEW u \in Tasks, NEW j \in Nat, FreeAt(u, j)', t # u \/ k # j
            PROVE  frames'[u][j].stack # frames'[t][k].stack
        <5>1. CASE frames'[u][j] = f
          BY <2>2, <2>11, <3>2, <5>1
        <5>2. CASE FreeAt(u, j) /\ frames'[u][j] = frames[u][j]
          BY <3>2, <4>1, <5>2 DEF SchedInv, Owners, FreesOwned
        <5> QED
          BY <2>8, <4>1, <5>1, <5>2
      <4> QED
        BY <1>2, <2>12, <3>2, <4>1
    <3> QED
      BY <2>8, <3>1, <3>2
  <2>14. FreshOwned'
    <3> SUFFICES ASSUME Phase = "base", panic' = "no"
                 PROVE  /\ mk.stack \in heap
                        /\ \A t \in Tasks : base'[t] # mk.stack
                        /\ \A t \in Tasks, k \in Nat : FreeAt(t, k)' =>
                             frames'[t][k].stack # mk.stack
      BY <1>2, <2>7 DEF FreshOwned
    <3>1. /\ mk.stack \in heap
          /\ \A t \in Tasks : base[t] # mk.stack
          /\ \A t \in Tasks, k \in Nat : FreeAt(t, k) => frames[t][k].stack # mk.stack
      BY <1>1 DEF SchedInv, Owners, FreshOwned
    <3>2. NULL \notin heap
      BY <1>1, SchedAssumption DEF Fields, NULL
    <3>3. \A t \in Tasks : base'[t] # mk.stack
      BY <1>1, <2>1, <3>1, <3>2 DEF Fields
    <3>4. ASSUME NEW t \in Tasks, NEW k \in Nat, FreeAt(t, k)'
          PROVE  frames'[t][k].stack # mk.stack
      BY <1>3, <1>6, <2>2, <2>8, <3>1, <3>4
    <3> QED
      BY <3>1, <3>3, <3>4
  <2>15. mk.slot \in Tasks
    BY <1>1 DEF Fields
  <2>16. mk.slot # zombie =>
           (frames'[mk.slot] = frames[mk.slot] \/ mk.slot = cur) /\ base'[mk.slot] = base[mk.slot]
    BY <1>1, <2>1, <2>5, <2>15 DEF Fields
  <2> QED
    BY <1>4, <2>1, <2>5, <2>7, <2>9, <2>10, <2>13, <2>14, <2>16 DEF Owners
<1> QED
  BY <1>5, <1>6

(* task_exit always finds a task to switch to, since idle never exits. *)
LEMMA ExitKeepsInv ==
  ASSUME SchedInv, Exit
  PROVE  SchedInv'
<1> DEFINE n == PickNext
<1>1. /\ panic = "no" /\ cur \in Tasks \ {Idle} /\ Idle \in Tasks /\ Fields
      /\ cur \notin revived /\ Sound(Idle) /\ Sound(cur)
      /\ frames \in [Tasks -> Seq(FrameSet)] /\ state[cur] = "RUNNING" /\ zombie \in Tasks
      /\ Len(frames[cur]) = 1 /\ frames[cur][1].pc = "run" /\ Live(Idle)
  <2>1. Running("run") /\ cur # Idle
    BY DEF Exit
  <2>2. /\ panic = "no" /\ cur \notin revived /\ Sound(cur)
        /\ Len(frames[cur]) = 1 /\ frames[cur][1].pc = "run"
    BY <2>1, AtBottom
  <2>3. /\ frames \in [Tasks -> Seq(FrameSet)] /\ Sound(Idle) /\ Fields
    BY FieldsTyped DEF SchedInv, Callstacks, Turns
  <2> QED
    BY <2>1, <2>2, <2>3, CurLives DEF Fields, Sound
<1>2. ReadyTasks # {}
  <2>1. state[Idle] = "READY"
    BY <1>1 DEF SchedInv, Turns, Fields, Live
  <2> QED
    BY <1>1, <2>1 DEF ReadyTasks
<1>3. /\ n \in Tasks /\ state[n] = "READY" /\ n # cur
      /\ n \notin revived => TopOf(n).pc \in Waiting
      /\ n = Idle => TopOf(Idle).pc = "switch"
  BY <1>2, NextWaits
<1>4. base[cur] # NULL /\ (cur = mk.slot => Phase \in {"count", "store", "add"})
  <2>1. base[cur] # NULL
    BY <1>1 DEF SchedInv, Owners, SlotsOwned
  <2>2. Phase \in CreateSteps \cup {"run"}
    BY <1>1 DEF SchedInv, Callstacks, Phase
  <2> QED
    BY <1>1, <2>1, <2>2 DEF SchedInv, Creation, CreateSteps
<1>5. /\ ready' = (IF ready > 0 THEN ready - 1 ELSE 0)
      /\ lock' = 1 /\ rr' = n /\ cur' = n /\ rsp0' = base[n] /\ zombie' = cur
      /\ state' = [state EXCEPT ![cur] = "DEAD", ![n] = "RUNNING"]
      /\ frames' = [frames EXCEPT ![cur] = <<At("exit"), At("switch")>>]
      /\ UNCHANGED <<pid, base, nextPid, heap, mk, panic, revived>>
  BY <1>2, <1>4 DEF Exit, RingZeroStack
<1> HIDE DEF n
<1>6. frames' \in [Tasks -> Seq(FrameSet)] /\ \A t \in Tasks \ {cur} : frames'[t] = frames[t]
  <2>1. At("exit") \in FrameSet /\ At("switch") \in FrameSet
    BY DEF At, Frame, FrameSet
  <2>2. <<At("exit"), At("switch")>> \in Seq(FrameSet)
    BY <2>1
  <2> QED
    BY <1>1, <1>5, <2>2
<1>7. /\ state'[cur] = "DEAD" /\ state'[n] = "RUNNING"
      /\ \A t \in Tasks \ {cur, n} : state'[t] = state[t]
      /\ \A t \in Tasks : Live(t)' <=> Live(t) /\ t # cur
      /\ \A t \in Tasks : Sound(t)' <=> Sound(t) /\ t # cur
  BY <1>1, <1>3, <1>5 DEF Live, Sound, Fields
<1>8. Phase' = Phase
  BY <1>1, <1>6 DEF Phase
<1>9. Fields'
  <2>1. ready' \in Nat
    <3>1. ready \in Nat
      BY <1>1 DEF Fields
    <3>2. CASE ready > 0
      BY <1>5, <3>1, <3>2
    <3>3. CASE ~(ready > 0)
      BY <1>5, <3>1, <3>3
    <3> QED
      BY <3>2, <3>3
  <2>2. state' \in [Tasks -> {"READY", "RUNNING", "DEAD"}]
    BY <1>1, <1>3, <1>5 DEF Fields
  <2>3. /\ cur' \in Tasks /\ lock' \in {0, 1} /\ rr' \in Tasks /\ zombie' \in Tasks
        /\ rsp0' \in Stacks \cup {NULL}
    BY <1>1, <1>3, <1>5 DEF Fields
  <2> QED
    BY <1>1, <1>5, <2>1, <2>2, <2>3 DEF Fields
<1>10. Callstacks'
  <2>1. \A t \in revived' : frames'[t] \in EndedStacks
    BY <1>1, <1>5, <1>6, CurLives DEF SchedInv, Callstacks
  <2> QED
    BY <1>6, <1>7, <2>1 DEF SchedInv, Callstacks
<1>11. Turns'
  <2>1. \A t \in Tasks : state'[t] = "RUNNING" <=> t = cur'
    BY <1>1, <1>3, <1>5, <1>7 DEF SchedInv, Turns
  <2>2. \A t \in Tasks : state'[t] = "READY" /\ t \notin revived' => TopOf(t)'.pc \in Waiting
    BY <1>1, <1>3, <1>5, <1>6, <1>7 DEF SchedInv, Turns, TopOf
  <2>3. cur' \notin revived' => TopOf(cur)'.pc \in Waiting
    BY <1>3, <1>5, <1>6 DEF TopOf
  <2> QED
    BY <1>1, <1>5, <1>7, <2>1, <2>2, <2>3 DEF Turns
<1>12. \A t \in Tasks, k \in Nat : FreeAt(t, k)' => FreeAt(t, k) /\ frames'[t][k] = frames[t][k]
  <2> SUFFICES ASSUME NEW t \in Tasks, NEW k \in Nat, FreeAt(t, k)'
               PROVE  FreeAt(t, k) /\ frames'[t][k] = frames[t][k]
    OBVIOUS
  <2>1. k \in 1 .. Len(frames'[t]) /\ frames'[t][k].pc = "free"
    BY DEF FreeAt
  <2>2. CASE t = cur
    <3>1. frames'[t] = <<At("exit"), At("switch")>>
      BY <1>1, <1>5, <2>2
    <3>2. k = 1 \/ k = 2
      BY <2>1, <3>1
    <3>3. frames'[t][1].pc = "exit" /\ frames'[t][2].pc = "switch"
      BY <3>1 DEF At, Frame
    <3> QED
      BY <2>1, <3>2, <3>3
  <2>3. CASE t # cur
    <3>1. frames'[t] = frames[t]
      BY <1>6, <2>3
    <3> QED
      BY <2>1, <3>1 DEF FreeAt
  <2> QED
    BY <2>2, <2>3
<1>13. Creation'
  <2>1. frames'[cur] \in EndedStacks
    BY <1>1, <1>5 DEF EndedStacks
  <2> QED
    BY <1>1, <1>4, <1>5, <1>6, <1>7, <1>8, <2>1, CurLives DEF SchedInv, Creation, Fields, Live
<1>14. Owners'
  <2>1. SlotsOwned'
    BY <1>5, <1>7, <1>8 DEF SchedInv, Owners, SlotsOwned, Dangling
  <2>2. \A t \in Tasks, k \in Nat : FreeAt(t, k) =>
          frames[t][k].stack \in heap' /\ \A u \in Tasks : base'[u] # frames[t][k].stack
    BY <1>5 DEF SchedInv, Owners, FreesOwned
  <2>3. FreesOwned'
    BY <1>12, <2>2, FreesStay DEF SchedInv, Owners
  <2>4. FreshOwned'
    BY <1>5, <1>8, <1>12 DEF SchedInv, Owners, FreshOwned
  <2> QED
    BY <2>1, <2>3, <2>4 DEF Owners
<1>15. Reaping'
  BY <1>1, <1>3, <1>4, <1>5, <1>6, <1>7, <1>8 DEF Reaping, TopOf
<1>16. Pids'
  BY <1>5, <1>7, <1>8 DEF SchedInv, Pids, UniquePids
<1>17. Counts'
  <2>1. Published' = Published \ {cur} /\ cur \in Published
    BY <1>1, <1>5, <1>7, <1>8 DEF Published, Live
  <2>2. Cardinality(Published') = Cardinality(Published) - 1
    BY <2>1, PublishedCount, FS_RemoveElement
  <2>3. /\ ready \in Nat /\ mk.seen \in Nat /\ Uncounted \in {0, 1} /\ Uncounted' = Uncounted
        /\ ready + Uncounted >= Cardinality(Published)
        /\ Phase = "store" => mk.seen + 1 >= Cardinality(Published)
    BY <1>1, <1>8 DEF SchedInv, Counts, Fields, Uncounted, Phase
  <2>4. Phase' = "store" => mk'.seen + 1 >= Cardinality(Published')
    BY <1>5, <1>8, <2>2, <2>3, PublishedCount
  <2>5. Cardinality(Published) >= 2
    <3>1. Idle \in Published /\ Idle # cur /\ Published' = Published \ {cur}
      BY <1>1, <2>1 DEF Published, Sound
    <3>2. Published' # {} /\ IsFiniteSet(Published')
      BY <3>1, PublishedCount
    <3>3. Cardinality(Published') # 0
      BY <3>2, FS_EmptySet
    <3> QED
      BY <2>2, <3>3, PublishedCount
  <2>6. ready > 0
    BY <2>3, <2>5, PublishedCount
  <2>7. ready' + Uncounted' >= Cardinality(Published')
    BY <1>5, <2>2, <2>3, <2>6, PublishedCount
  <2> QED
    BY <2>4, <2>7 DEF Counts
<1> QED
  BY <1>1, <1>5, <1>9, <1>10, <1>11, <1>13, <1>14, <1>15, <1>16, <1>17,
     TypedByParts DEF SchedInv

LEMMA InitSchedInv == SchedInit => SchedInv
<1> SUFFICES ASSUME SchedInit PROVE SchedInv
  OBVIOUS
<1>1. /\ Idle \in Tasks /\ cur = Idle /\ lock = 0 /\ zombie = Idle /\ rsp0 = NULL /\ panic = "no"
      /\ mk = [slot |-> Idle, stack |-> NULL, seen |-> 0] /\ heap = {} /\ ready = 1
      /\ revived = {}
  BY SchedAssumption DEF SchedInit, Idle, Tasks
<1>2. /\ frames[Idle] = <<At("run")>> /\ \A t \in Tasks \ {Idle} : frames[t] = << >>
      /\ frames \in [Tasks -> Seq(FrameSet)]
      /\ state[Idle] = "RUNNING" /\ \A t \in Tasks \ {Idle} : state[t] = "DEAD"
      /\ \A t \in Tasks : base[t] = NULL
  <2>1. <<At("run")>> \in Seq(FrameSet) /\ << >> \in Seq(FrameSet)
    BY OneFrame
  <2> QED
    BY <1>1, <2>1 DEF SchedInit
<1>3. /\ Phase = "run" /\ TopOf(Idle).pc = "run" /\ Len(frames[Idle]) = 1
  BY <1>2 DEF Phase, TopOf, At, Frame
<1>4. \A t \in Tasks, k \in Nat : ~FreeAt(t, k)
  BY <1>2 DEF FreeAt, At, Frame
<1>5. Callstacks
  <2> SUFFICES ASSUME NEW t \in Tasks, Sound(t)
               PROVE  /\ frames[t] # << >>
                      /\ frames[t][1].pc \in
                            IF t = Idle THEN CreateSteps \cup {"run"} ELSE {"run", "boot"}
                      /\ \A k \in 1 .. Len(frames[t]) :
                           /\ k > 1 => frames[t][k].pc \in {"switch", "free"}
                           /\ k < Len(frames[t]) => frames[t][k].pc \notin Waiting
    BY <1>1, <1>2 DEF Callstacks
  <2>1. t = Idle
    BY <1>2 DEF Live, Sound
  <2>2. \A k \in 1 .. Len(frames[t]) : ~(k > 1) /\ ~(k < Len(frames[t]))
    <3>1. Len(frames[t]) = 1
      BY <1>3, <2>1
    <3>2. \A k \in 1 .. 1 : k = 1
      OBVIOUS
    <3> QED
      BY <3>1, <3>2
  <2>3. frames[t] # << >> /\ frames[t][1].pc = "run"
    BY <1>2, <2>1 DEF At, Frame
  <2> QED
    BY <2>1, <2>2, <2>3
<1>6. SchedTypeOK
  <2>1. ASSUME NEW t \in Tasks, NEW k \in DOMAIN frames[t]
        PROVE  frames[t][k] \in FrameSet
    BY <1>2, <2>1
  <2>2. state \in [Tasks -> {"READY", "RUNNING", "DEAD"}] /\ base \in [Tasks -> Stacks \cup {NULL}]
    BY DEF SchedInit
  <2>3. 0 \in 0 .. (PidMod - 1) /\ 1 \in 1 .. (PidMod - 1)
    BY SchedAssumption
  <2>4. pid \in [Tasks -> 0 .. (PidMod - 1)] /\ nextPid \in 1 .. (PidMod - 1)
    BY <2>3 DEF SchedInit
  <2>5. mk \in [slot : Tasks, stack : Stacks \cup {NULL}, seen : Nat]
    BY <1>1
  <2>6. cur \in Tasks /\ lock \in {0, 1} /\ rr \in Tasks /\ zombie \in Tasks
    BY <1>1 DEF SchedInit, Idle
  <2>7. rsp0 \in Stacks \cup {NULL} /\ ready \in Nat /\ heap \subseteq Stacks /\ revived \subseteq Tasks
    BY <1>1
  <2> QED
    BY <2>1, <2>2, <2>4, <2>5, <2>6, <2>7 DEF SchedTypeOK, FrameSet
<1>7. Turns /\ Creation /\ Reaping
  BY <1>1, <1>2, <1>3 DEF Turns, Creation, Reaping, Live, Sound, Waiting
<1>8. Owners
  BY <1>1, <1>2, <1>3, <1>4 DEF Owners, SlotsOwned, FreesOwned, FreshOwned, Live, Sound
<1>9. Pids
  BY <1>1, <1>2, <1>3 DEF Pids, UniquePids, Live
<1>10. Counts
  <2>1. Published = {Idle}
    BY <1>1, <1>2, <1>3 DEF Published, Live
  <2>2. Cardinality(Published) = 1
    BY <2>1, FS_Singleton
  <2>3. Phase \notin {"count", "store"}
    BY <1>3
  <2>4. 1 + 0 >= 1
    OBVIOUS
  <2> QED
    BY <1>1, <2>2, <2>3, <2>4 DEF Counts, Uncounted, Phase
<1> QED
  BY <1>1, <1>5, <1>6, <1>7, <1>8, <1>9, <1>10 DEF SchedInv

LEMMA SchedInvHolds == SchedSpec => []SchedInv
<1>1. SchedInv /\ [SchedNext]_schedVars => SchedInv'
  <2> SUFFICES ASSUME SchedInv, [SchedNext]_schedVars PROVE SchedInv'
    OBVIOUS
  <2>1. CASE Preempt \/ Resume \/ FreeReaped \/ Bootstrap \/ Exit
    BY <2>1, PreemptKeepsInv, ResumeKeepsInv, FreeReapedKeepsInv,
       BootstrapKeepsInv, ExitKeepsInv
  <2>2. CASE Create
    BY <2>2, CreateSearchKeepsInv, CreateDropKeepsInv, CreateClearKeepsInv,
       CreatePidKeepsInv,
       CreateAllocKeepsInv, CreateBaseKeepsInv, CreateTopKeepsInv, CreatePublishKeepsInv,
       CreateCountKeepsInv, CreateStoreKeepsInv, CreateAddReadyKeepsInv DEF Create
  <2>3. CASE UNCHANGED schedVars
    <3>1. /\ UNCHANGED <<state, pid, base, frames>>
          /\ UNCHANGED <<cur, lock, rr, zombie, rsp0>>
          /\ UNCHANGED <<nextPid, ready, heap, mk, panic, revived>>
      BY <2>3 DEF schedVars, table, sched
    <3>2. SchedTypeOK'
      BY <3>1 DEF SchedInv, SchedTypeOK
    <3>3. Callstacks'
      BY <3>1 DEF SchedInv, Callstacks, Live, Sound
    <3>4. Turns'
      BY <3>1 DEF SchedInv, Turns, Live, Sound, TopOf
    <3>5. Creation'
      BY <3>1 DEF SchedInv, Creation, Live, Phase
    <3>6. SlotsOwned'
      BY <3>1 DEF SchedInv, Owners, SlotsOwned, Dangling, Live, Sound, Phase
    <3>7. FreesOwned'
      BY <3>1 DEF SchedInv, Owners, FreesOwned, FreeAt
    <3>8. FreshOwned'
      BY <3>1 DEF SchedInv, Owners, FreshOwned, FreeAt, Phase
    <3>9. Reaping'
      BY <3>1 DEF SchedInv, Reaping, TopOf, Phase
    <3>10. Pids'
      BY <3>1 DEF SchedInv, Pids, UniquePids, Live, Phase
    <3>11. Published' = Published
      BY <3>1 DEF Published, Live
    <3>12. Counts'
      BY <3>1, <3>11 DEF SchedInv, Counts, Uncounted, Phase
    <3> QED
      BY <3>1, <3>2, <3>3, <3>4, <3>5, <3>6, <3>7, <3>8, <3>9, <3>10, <3>12 DEF
         SchedInv, Owners
  <2> QED
    BY <2>1, <2>2, <2>3 DEF SchedNext
<1> QED
  BY <1>1, InitSchedInv, PTL DEF SchedSpec

-----------------------------------------------------------------------------
LEMMA InvGivesStacksSafe == SchedInv => StacksSafe
<1> SUFFICES ASSUME SchedInv PROVE StacksSafe
  OBVIOUS
<1>1. OneRunning
  BY CurLives DEF SchedInv, Turns, OneRunning
<1>2. RingZeroStackIsCurrents /\ UniquePids /\ SchedTypeOK
  BY DEF SchedInv, Turns, Pids, RingZeroStackIsCurrents
<1>3. \A fk \in PendingFrees : \E t \in Tasks, k \in Nat :
        fk = <<t, k>> /\ FreeAt(t, k) /\ FreeFrame(fk) = frames[t][k].stack
  <2> SUFFICES ASSUME NEW t \in Tasks, NEW k \in DOMAIN frames[t], frames[t][k].pc = "free"
               PROVE  k \in Nat /\ FreeAt(t, k) /\ FreeFrame(<<t, k>>) = frames[t][k].stack
    BY DEF PendingFrees
  <2>1. frames[t] \in Seq(FrameSet)
    BY DEF SchedInv, Callstacks
  <2>2. k \in 1 .. Len(frames[t]) /\ Len(frames[t]) \in Nat
    BY <2>1
  <2> QED
    BY <2>2 DEF FreeAt, FreeFrame
<1>7. \A t \in Tasks \ {Idle} : Live(t) /\ t \notin revived => base[t] # NULL /\ frames[t] # << >>
  BY DEF SchedInv, Owners, SlotsOwned, Callstacks, Sound
<1>4. ASSUME NEW t \in Tasks \ {Idle}, Live(t), base[t] # NULL
      PROVE  /\ base[t] \in heap
             /\ \A u \in Tasks \ {t} : base[u] # base[t]
             /\ \A fk \in PendingFrees : FreeFrame(fk) # base[t]
  <2>1. base[t] # NULL /\ ~Dangling(t)
    BY <1>4 DEF SchedInv, Owners, SlotsOwned, Creation, Dangling, Live, Sound
  <2>2. \A u \in Tasks, k \in Nat : FreeAt(u, k) => frames[u][k].stack # base[t]
    BY DEF SchedInv, Owners, FreesOwned
  <2>3. base[t] \in heap
    BY <2>1 DEF SchedInv, Owners, SlotsOwned
  <2>5. \A u \in Tasks \ {t} : base[u] # base[t]
    BY <2>1 DEF SchedInv, Owners, SlotsOwned
  <2>6. \A fk \in PendingFrees : FreeFrame(fk) # base[t]
    BY <1>3, <2>2
  <2> QED
    BY <2>3, <2>5, <2>6
<1>5. ASSUME NEW fk \in PendingFrees
      PROVE  /\ FreeFrame(fk) \in heap
             /\ \A gk \in PendingFrees : fk # gk => FreeFrame(fk) # FreeFrame(gk)
  <2>1. PICK t \in Tasks, k \in Nat : fk = <<t, k>> /\ FreeAt(t, k) /\ FreeFrame(fk) = frames[t][k].stack
    BY <1>3
  <2>2. ASSUME NEW gk \in PendingFrees, fk # gk PROVE FreeFrame(fk) # FreeFrame(gk)
    <3>1. PICK u \in Tasks, j \in Nat : gk = <<u, j>> /\ FreeAt(u, j) /\ FreeFrame(gk) = frames[u][j].stack
      BY <1>3
    <3>2. t # u \/ k # j
      BY <2>1, <2>2, <3>1
    <3> QED
      BY <2>1, <3>1, <3>2 DEF SchedInv, Owners, FreesOwned
  <2> QED
    BY <2>1, <2>2 DEF SchedInv, Owners, FreesOwned
<1>6. StacksOwned
  BY <1>4, <1>5, <1>7 DEF StacksOwned, SchedInv
<1> QED
  BY <1>1, <1>2, <1>6 DEF StacksSafe

(* However the tick cuts task_create, task_exit and schedule, with any     *)
(* number of slots and any depth of ticks: no stack is shared, freed twice *)
(* or freed under its task, live tasks have pids of their own and the      *)
(* processor runs one of them on its own ring-0 stack; a live task without *)
(* a stack is one that ended before its task_create made it READY.         *)
THEOREM StacksStaySafe == SchedSpec => []StacksSafe
BY SchedInvHolds, InvGivesStacksSafe, PTL

(* task_exit finds a task to switch to and does not return, and            *)
(* tasks_ready_os covers the tasks that live although ++ and -- on it      *)
(* interleave - but for a task that ended before its task_create made it   *)
(* READY, into whose slot the processor may be sent.                       *)
THEOREM NobodyIsStranded == SchedSpec => []NobodyStranded
<1>1. SchedInv => NobodyStranded
  <2> SUFFICES ASSUME SchedInv PROVE NobodyStranded
    OBVIOUS
  <2>1. ready + Uncounted >= Cardinality({t \in Tasks : Live(t)} \ revived)
    BY DEF SchedInv, Counts, Published
  <2>2. NeverStuck
    BY CurLives DEF SchedInv, NeverStuck
  <2> QED
    BY <2>1, <2>2 DEF NobodyStranded, ReadyCoversLive
<1> QED
  BY <1>1, SchedInvHolds, PTL

LEMMA StepsKeepDead ==
  ASSUME SchedInv, SchedNext, NEW t \in Tasks, state[t] = "DEAD", state'[t] # "DEAD"
  PROVE  mk.slot = t /\ (Running("publish") \/ Running("add"))
<1>1. cur \in Tasks /\ state[cur] = "RUNNING" /\ state \in [Tasks -> {"READY", "RUNNING", "DEAD"}]
      /\ mk.slot \in Tasks
  BY CurLives DEF SchedInv, Turns, SchedTypeOK
<1>2. CASE Preempt
  <2>1. PickNext \in Tasks /\ state[PickNext] = "READY"
    BY <1>2, PickNextIsReady DEF Preempt, SchedInv
  <2>2. state' = [state EXCEPT ![cur] = Requeued(cur), ![PickNext] = "RUNNING"]
    BY <1>2 DEF Preempt, SwitchTo
  <2> QED
    BY <1>1, <2>1, <2>2
<1>3. CASE Exit
  <2>1. CASE ReadyTasks = {}
    BY <1>1, <1>3, <2>1 DEF Exit
  <2>2. CASE ReadyTasks # {}
    <3>1. PickNext \in Tasks /\ state[PickNext] = "READY"
      BY <2>2, PickNextIsReady DEF SchedInv
    <3>2. state' = [state EXCEPT ![cur] = "DEAD", ![PickNext] = "RUNNING"]
      BY <1>3, <2>2 DEF Exit
    <3> QED
      BY <1>1, <3>1, <3>2
  <2> QED
    BY <2>1, <2>2
<1>4. CASE CreatePublish
  BY <1>1, <1>4 DEF CreatePublish, Step
<1>5. CASE CreateAddReady
  BY <1>1, <1>5 DEF CreateAddReady, Step
<1>6. CASE Resume \/ FreeReaped \/ Bootstrap
  BY <1>6 DEF Resume, FreeReaped, Bootstrap
<1>7. CASE CreateSearch \/ CreateDrop \/ CreateClear \/ CreatePid \/ CreateAlloc \/ CreateBase
           \/ CreateTop \/ CreateCount \/ CreateStore
  BY <1>7 DEF CreateSearch, CreateDrop, CreateClear, CreatePid, CreateAlloc,
     CreateBase,
     CreateTop, CreateCount, CreateStore
<1> QED
  BY <1>2, <1>3, <1>4, <1>5, <1>6, <1>7 DEF SchedNext, Create

(* An exited task's slot comes to life again only through the              *)
(* task_create_user that took it: when it publishes a new task there, or   *)
(* when its sched_add_ready comes after that task has ended already.       *)
THEOREM OnlyTheCreatorRevives ==
  SchedSpec => [][\A t \in Tasks : state[t] = "DEAD" /\ state'[t] # "DEAD" =>
                mk.slot = t /\ (Running("publish") \/ Running("add"))]_schedVars
<1>1. SchedInv /\ [SchedNext]_schedVars =>
        [\A t \in Tasks : state[t] = "DEAD" /\ state'[t] # "DEAD" =>
            mk.slot = t /\ (Running("publish") \/ Running("add"))]_schedVars
  BY StepsKeepDead
<1> QED
  BY <1>1, SchedInvHolds, PTL DEF SchedSpec
=============================================================================
