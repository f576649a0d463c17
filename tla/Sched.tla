-------------------------------- MODULE Sched --------------------------------
(***************************************************************************)
(* Tasks and the preemptive round-robin scheduler: src/proc/task.c and     *)
(* src/proc/sched.c on one CPU, with switch_context of arch/x86_64.        *)
(*                                                                         *)
(* A task is a slot of task_table_os.  Its call stack is a sequence of     *)
(* frames, the last one being where it is: "run" the task's own code,      *)
(* "boot" the entry into task_bootstrap, "switch" inside switch_context,   *)
(* "free" about to kfree a reaped stack at the end of schedule(), "exit"   *)
(* after the schedule() of task_exit, the rest the steps of                *)
(* task_create_user.  Slot 0 is idle, the kmain stack.                     *)
(*                                                                         *)
(* Atomicity: schedule() from its test-and-set to switch_context is one    *)
(* step, because a timer tick that finds sched_lock_os set does nothing;   *)
(* so is its tail from switch_context to the release of the lock, and      *)
(* task_exit, which runs with interrupts off.  Everywhere else IF = 1 and  *)
(* the timer may interrupt, on top of whatever frame is there.             *)
(*                                                                         *)
(* Only idle creates tasks: the callers of task_create* are phase4_init    *)
(* and user_smoke; SYS_SPAWN never gets that far, its caller being itself  *)
(* a live user task that user_window_busy(0) finds.                        *)
(*                                                                         *)
(* Bounds: MaxDepth frames on a stack (nested ticks), PidMod the width of  *)
(* next_pid_os, Stacks the heap, MaxReady the value of tasks_ready_os at   *)
(* which no more tasks are created (it drifts upwards).                    *)
(*                                                                         *)
(* A new task can run to its end inside the last three statements of its   *)
(* task_create, whose sched_add_ready then makes the dead slot READY       *)
(* again.  The history variable revived remembers such slots.  When one is *)
(* chosen, the processor either is back in task_exit and panics, or takes  *)
(* a NULL stack pointer: what follows is undefined, and the model ends.    *)
(* Mutants have a suffix after _ in their name.                            *)
(***************************************************************************)
EXTENDS Integers, Sequences, FiniteSets

CONSTANTS
  NTasks,      \* TASK_MAX_OS
  Stacks,      \* addresses kmalloc can give a stack
  PidMod,      \* next_pid_os wraps here
  MaxDepth, MaxReady

ASSUME SchedAssumption ==
  /\ NTasks \in Nat /\ NTasks > 1
  /\ Stacks \subseteq Nat \ {0} /\ IsFiniteSet(Stacks)
  /\ PidMod \in Nat /\ PidMod > NTasks + 1
  /\ MaxDepth \in Nat \ {0} /\ MaxReady \in Nat

VARIABLES
  state, pid, base,    \* fields of task_table_os (base: kstack_base)
  frames,              \* the stack kstack_top points into; << >> when NULL
  cur,                 \* current_task_os
  lock,                \* sched_lock_os
  rr,                  \* rr_index_os
  zombie,              \* sched_zombie_os
  rsp0,                \* the TSS's ring-0 stack
  nextPid, ready,      \* next_pid_os, tasks_ready_os
  heap,                \* stacks allocated
  mk,                  \* locals of the task_create_user in progress on idle
  panic,               \* why the kernel stopped
  revived              \* history: slots made READY after their task ended

table == <<state, pid, base, frames>>
sched == <<cur, lock, rr, zombie, rsp0>>
schedVars == <<table, sched, nextPid, ready, heap, mk, panic, revived>>

Tasks == 0 .. (NTasks - 1)
Idle == 0
NULL == 0                                     \* NULL stack; no zombie is Idle
Frame(pc, stack) == [pc |-> pc, stack |-> stack]
At(pc) == Frame(pc, NULL)
Top == frames[cur][Len(frames[cur])]
Running(pc) == panic = "no" /\ frames[cur] # << >> /\ Top.pc = pc
Goto(f) == [frames EXCEPT ![cur] = [@ EXCEPT ![Len(@)] = f]]
Return == [frames EXCEPT ![cur] = SubSeq(@, 1, Len(@) - 1)]

CreateSteps == {"drop", "clear", "pid", "alloc", "base", "top",
                "publish", "count", "store", "add"}
Live(t) == state[t] # "DEAD"

SchedInit ==
  /\ state = [t \in Tasks |-> IF t = Idle THEN "RUNNING" ELSE "DEAD"]
  /\ pid = [t \in Tasks |-> 0]
  /\ base = [t \in Tasks |-> NULL]
  /\ frames = [t \in Tasks |-> IF t = Idle THEN <<At("run")>> ELSE << >>]
  /\ cur = Idle /\ lock = 0 /\ rr = 0 /\ zombie = Idle /\ rsp0 = NULL
  /\ nextPid = 1 /\ ready = 1
  /\ heap = {}
  /\ mk = [slot |-> Idle, stack |-> NULL, seen |-> 0]
  /\ panic = "no"
  /\ revived = {}

-----------------------------------------------------------------------------
(* sched.c *)

ReadyTasks == {t \in Tasks : state[t] = "READY"}
Distance_FromZero(t) == t                     \* mutant: search always from 0
Distance(t) == (t - rr - 1) % NTasks

\* sched_pick_next: the first READY slot after rr_index_os, wrapping.
PickNext == CHOOSE t \in ReadyTasks : \A u \in ReadyTasks : Distance(t) <= Distance(u)

Requeued(t) == IF state[t] = "RUNNING" THEN "READY" ELSE state[t]

RingZeroStack(t) == base[t]                   \* tss_load_task_rsp0; NULL is idle's

\* schedule() up to and including switch_context.  f is the stack of the task
\* that calls it, st the states it sees.
SwitchTo(n, f) ==
  /\ lock' = 1
  /\ rr' = n
  /\ state' = [state EXCEPT ![cur] = Requeued(cur), ![n] = "RUNNING"]
  /\ cur' = n
  /\ rsp0' = RingZeroStack(n)
  /\ frames' = [frames EXCEPT ![cur] = f]

(* IRQ0 or a yield by the task's own code.  With the lock taken, or no     *)
(* other task READY, schedule() returns at once.                           *)
Preempt ==
  /\ panic = "no"
  /\ lock = 0
  /\ frames[cur] # << >> /\ Len(frames[cur]) < MaxDepth
  /\ ReadyTasks # {}
  /\ SwitchTo(PickNext, Append(frames[cur], At("switch")))
  /\ UNCHANGED <<pid, base, zombie, nextPid, ready, heap, mk, panic, revived>>

Reapable == zombie # Idle /\ zombie # cur /\ state[zombie] = "DEAD" /\ base[zombie] # NULL

(* schedule() after switch_context, on the stack of the resumed task.  A   *)
(* task resumed inside task_exit panics.                                   *)
ResumePanic == IF frames[cur][1].pc = "exit" THEN "no runnable task" ELSE panic

Resume_KeepBase ==                            \* mutant: kstack_base not cleared
  /\ Running("switch")
  /\ lock' = 0
  /\ IF Reapable
       THEN /\ frames' = Goto(Frame("free", base[zombie]))
            /\ zombie' = Idle
       ELSE /\ frames' = Return
            /\ UNCHANGED zombie
  /\ panic' = ResumePanic
  /\ UNCHANGED <<state, pid, base, cur, rr, rsp0, nextPid, ready, heap, mk, revived>>

Resume ==
  /\ Running("switch")
  /\ lock' = 0
  /\ IF Reapable
       THEN /\ frames' = [Goto(Frame("free", base[zombie])) EXCEPT ![zombie] = << >>]
            /\ base' = [base EXCEPT ![zombie] = NULL]
            /\ zombie' = Idle
       ELSE /\ frames' = Return
            /\ UNCHANGED <<base, zombie>>
  /\ panic' = ResumePanic
  /\ UNCHANGED <<state, pid, cur, rr, rsp0, nextPid, ready, heap, mk, revived>>

FreeReaped ==
  /\ Running("free")
  /\ IF Top.stack \in heap
       THEN heap' = heap \ {Top.stack} /\ UNCHANGED panic
       ELSE panic' = "double free" /\ UNCHANGED heap
  /\ frames' = Return
  /\ UNCHANGED <<state, pid, base, sched, nextPid, ready, mk, revived>>

-----------------------------------------------------------------------------
(* task.c *)

(* task_bootstrap, where a task that never ran before comes out of         *)
(* switch_context.                                                         *)
Bootstrap ==
  /\ Running("boot")
  /\ lock' = 0
  /\ frames' = Goto(At("run"))
  /\ UNCHANGED <<state, pid, base, cur, rr, zombie, rsp0, nextPid, ready, heap, mk, panic, revived>>

(* task_exit, called by the task's own code, SYS_EXIT or a user fault.     *)
Exit ==
  /\ Running("run") /\ lock = 0
  /\ cur # Idle
  /\ ready' = IF ready > 0 THEN ready - 1 ELSE 0
  /\ IF ReadyTasks = {}
       THEN /\ panic' = "no runnable task"
            /\ state' = [state EXCEPT ![cur] = "DEAD"]
            /\ UNCHANGED <<frames, sched>>
       ELSE LET n == PickNext
            IN  /\ lock' = 1 /\ rr' = n /\ cur' = n /\ rsp0' = RingZeroStack(n)
                /\ state' = [state EXCEPT ![cur] = "DEAD", ![n] = "RUNNING"]
                /\ zombie' = IF base[cur] # NULL THEN cur ELSE zombie
                /\ frames' = [frames EXCEPT ![cur] = <<At("exit"), At("switch")>>]
                /\ UNCHANGED panic
  /\ UNCHANGED <<pid, base, nextPid, heap, mk, revived>>

-----------------------------------------------------------------------------
(* task_create_user, step by step on idle *)

DeadSlots == {t \in Tasks \ {Idle} : state[t] = "DEAD"}
FirstDead == CHOOSE t \in DeadSlots : \A u \in DeadSlots : t <= u

Step(from, to) == Running(from) /\ frames' = Goto(At(to))

CreateSearch ==
  /\ cur = Idle /\ DeadSlots # {} /\ ready < MaxReady
  /\ Step("run", "drop")
  /\ mk' = [slot |-> FirstDead, stack |-> NULL, seen |-> 0]
  /\ UNCHANGED <<state, pid, base, sched, nextPid, ready, heap, panic, revived>>

(* kfree of the stack of a dead task nobody reaped.                        *)
CreateDrop ==
  /\ LET old == base[mk.slot]
     IN  /\ Step("drop", IF old = NULL THEN "pid" ELSE "clear")
         /\ heap' = heap \ {old}
         /\ panic' = IF old # NULL /\ old \notin heap THEN "double free" ELSE panic
  /\ UNCHANGED <<state, pid, base, sched, nextPid, ready, mk, revived>>

CreateClear ==
  /\ Running("clear")
  /\ frames' = [Goto(At("pid")) EXCEPT ![mk.slot] = << >>]
  /\ base' = [base EXCEPT ![mk.slot] = NULL]
  /\ UNCHANGED <<state, pid, sched, nextPid, ready, heap, mk, panic, revived>>

PidTaken(p) == \E t \in Tasks : Live(t) /\ pid[t] = p

PidAfter(p) == IF p + 1 = PidMod THEN 1 ELSE p + 1

\* The first pid from next_pid_os on that no live task has.
PidGap(p) == (p - nextPid) % (PidMod - 1)
FreePids == {p \in 1 .. (PidMod - 1) : ~PidTaken(p)}
NewPid == CHOOSE p \in FreePids : \A q \in FreePids : PidGap(p) <= PidGap(q)

CreatePid ==
  /\ Step("pid", "alloc")
  /\ pid' = [pid EXCEPT ![mk.slot] = NewPid]
  /\ nextPid' = PidAfter(NewPid)
  /\ UNCHANGED <<state, base, sched, ready, heap, mk, panic, revived>>

(* setup_stack: kmalloc, then base, then the initial frame.                *)
CreateAlloc ==
  /\ Step("alloc", "base")
  /\ IF Stacks \subseteq heap
       THEN panic' = "no stack" /\ UNCHANGED <<heap, mk>>
       ELSE \E s \in Stacks \ heap :
              /\ \A r \in Stacks \ heap : s <= r
              /\ heap' = heap \cup {s}
              /\ mk' = [mk EXCEPT !.stack = s]
              /\ UNCHANGED panic
  /\ UNCHANGED <<state, pid, base, sched, nextPid, ready, revived>>

CreateBase ==
  /\ Step("base", "top")
  /\ base' = [base EXCEPT ![mk.slot] = mk.stack]
  /\ UNCHANGED <<state, pid, sched, nextPid, ready, heap, mk, panic, revived>>

CreateTop ==
  /\ Running("top")
  /\ frames' = [Goto(At("publish")) EXCEPT ![mk.slot] = <<At("boot")>>]
  /\ UNCHANGED <<state, pid, base, sched, nextPid, ready, heap, mk, panic, revived>>

CreatePublish ==
  /\ Step("publish", "count")
  /\ state' = [state EXCEPT ![mk.slot] = "READY"]
  /\ UNCHANGED <<pid, base, sched, nextPid, ready, heap, mk, panic, revived>>

CreateStore_Stale ==                          \* mutant: the new task is not counted
  /\ Step("store", "add")
  /\ ready' = mk.seen
  /\ UNCHANGED <<state, pid, base, sched, nextPid, heap, mk, panic, revived>>

(* tasks_ready_os++ on a volatile: a load, then a store.                   *)
CreateCount ==
  /\ Step("count", "store")
  /\ mk' = [mk EXCEPT !.seen = ready]
  /\ UNCHANGED <<state, pid, base, sched, nextPid, ready, heap, panic, revived>>

CreateStore ==
  /\ Step("store", "add")
  /\ ready' = mk.seen + 1
  /\ UNCHANGED <<state, pid, base, sched, nextPid, heap, mk, panic, revived>>

(* sched_add_ready, and the return to the caller.                          *)
CreateAddReady ==
  /\ Step("add", "run")
  /\ state' = IF state[mk.slot] = "RUNNING" THEN state
              ELSE [state EXCEPT ![mk.slot] = "READY"]
  /\ mk' = [slot |-> Idle, stack |-> NULL, seen |-> 0]
  /\ revived' = IF Live(mk.slot) THEN revived ELSE revived \cup {mk.slot}
  /\ UNCHANGED <<pid, base, sched, nextPid, ready, heap, panic>>

Create ==
  \/ CreateSearch \/ CreateDrop \/ CreateClear \/ CreatePid \/ CreateAlloc
  \/ CreateBase \/ CreateTop \/ CreatePublish \/ CreateCount \/ CreateStore
  \/ CreateAddReady

-----------------------------------------------------------------------------
SchedNext ==
  \/ Preempt \/ Resume \/ FreeReaped \/ Bootstrap \/ Exit
  \/ Create

\* The CPU executes what it is at, and the timer keeps ticking.  Nothing is
\* assumed of a task's own code: it may loop for ever, yield or exit.
SchedFairness ==
  /\ WF_schedVars(Resume) /\ WF_schedVars(FreeReaped) /\ WF_schedVars(Bootstrap)
  /\ WF_schedVars(Preempt)

SchedSpec == SchedInit /\ [][SchedNext]_schedVars /\ SchedFairness

-----------------------------------------------------------------------------
(* Types of the scheduler's variables; next_pid_os is never 0.             *)
SchedTypeOK ==
  /\ state \in [Tasks -> {"READY", "RUNNING", "DEAD"}]
  /\ pid \in [Tasks -> 0 .. (PidMod - 1)]
  /\ base \in [Tasks -> Stacks \cup {NULL}]
  /\ \A t \in Tasks :
       \A k \in DOMAIN frames[t] :
         frames[t][k] \in [pc : CreateSteps \cup {"run", "boot", "switch", "free", "exit"},
                           stack : Stacks \cup {NULL}]
  /\ cur \in Tasks /\ lock \in {0, 1} /\ rr \in Tasks /\ zombie \in Tasks
  /\ rsp0 \in Stacks \cup {NULL}
  /\ nextPid \in 1 .. (PidMod - 1)
  /\ ready \in Nat
  /\ heap \subseteq Stacks
  /\ mk \in [slot : Tasks, stack : Stacks \cup {NULL}, seen : Nat]
  /\ revived \subseteq Tasks

(* Exactly one task is RUNNING and it is current_task_os; every other live *)
(* one is READY (schedule(), sched.c:103-109).                             *)
OneRunning == panic = "no" => {t \in Tasks : state[t] = "RUNNING"} = {cur}

(* Who will free a stack: the slot that holds it, or the one frame that    *)
(* took it over in the reap.                                               *)
PendingFrees ==
  UNION {{<<t, k>> : k \in {j \in DOMAIN frames[t] : frames[t][j].pc = "free"}} : t \in Tasks}
FreeFrame(fk) == frames[fk[1]][fk[2]].stack

(* No stack is shared, freed twice or in use when it is freed: whatever    *)
(* slot has one has it alone, no pending kfree will release the stack of a *)
(* live task, and every pending kfree has its own allocated stack          *)
(* (schedule()'s reap against the reuse of a DEAD slot in                  *)
(* task_create_user).  A live task other than idle stands on such a stack  *)
(* - except in a slot made READY after its task ended, which may have none *)
(* left.                                                                   *)
StacksOwned ==
  /\ panic # "double free"
  /\ \A t \in Tasks \ {Idle} : Live(t) /\ t \notin revived => base[t] # NULL /\ frames[t] # << >>
  /\ \A t \in Tasks \ {Idle} : Live(t) /\ base[t] # NULL =>
       /\ base[t] \in heap
       /\ \A u \in Tasks \ {t} : base[u] # base[t]
       /\ \A fk \in PendingFrees : FreeFrame(fk) # base[t]
  /\ \A fk \in PendingFrees :
       /\ FreeFrame(fk) \in heap
       /\ \A gk \in PendingFrees : fk # gk => FreeFrame(fk) # FreeFrame(gk)

(* Live tasks have different pids, idle's being 0, although next_pid_os    *)
(* wraps: user_pid_dead and the fd owner checks rely on it.                *)
UniquePids ==
  \A t \in Tasks : \A u \in Tasks : t # u /\ Live(t) /\ Live(u) => pid[t] # pid[u]

(* An interrupt from ring 3 lands on the current task's own kernel stack.  *)
RingZeroStackIsCurrents == panic = "no" => rsp0 = base[cur]

(* The processor never comes back into task_exit, never finds task_exit    *)
(* without a successor, and is never sent to a slot that has no stack,     *)
(* other than in a slot made READY after its task ended.                   *)
NeverStuck == panic = "no runnable task" \/ frames[cur] = << >> => cur \in revived

(* tasks_ready_os, with the one task_create_user has published and not yet *)
(* counted, covers the live tasks, so that task_exit's test for zero never *)
(* hides an exit.  A slot made READY after its task ended is not in it.    *)
Uncounted == IF frames[Idle][1].pc \in {"count", "store"} THEN 1 ELSE 0
ReadyCoversLive ==
  panic = "no" => ready + Uncounted >= Cardinality({t \in Tasks : Live(t)} \ revived)

(* A dead task comes back to life only when task_create_user publishes a   *)
(* new task in its slot: "SYS_EXIT kills the smoke task" (task.c:248).     *)
(* The code does not keep this: see CreateAddReady.                        *)
ExitedStaysDead ==
  [][\A t \in Tasks : state[t] = "DEAD" /\ state'[t] # "DEAD" =>
        Running("publish") /\ mk.slot = t]_schedVars

(* Round robin starves nobody: a READY task gets the CPU, whatever the     *)
(* others do, unless the kernel ran out of memory for a stack or sent the  *)
(* processor into a slot made READY after its task ended.                  *)
EveryReadyTaskRuns ==
  \A t \in Tasks :
    (state[t] = "READY") ~> (state[t] = "RUNNING" \/ panic = "no stack" \/ cur \in revived)

(* However the tick cuts task_create, task_exit and schedule, no stack is   *)
(* shared, freed twice or freed under its task, live tasks have pids of     *)
(* their own and the processor runs one of them on its own ring-0 stack.    *)
(* Only a task that ended inside its own task_create can be READY without   *)
(* a stack.                                                                 *)
StacksSafe ==
  SchedTypeOK /\ OneRunning /\ UniquePids /\ StacksOwned /\ RingZeroStackIsCurrents

(* Nothing stands still: task_exit finds a successor and does not return,   *)
(* and the count it looks at covers the tasks that live.  The one exception *)
(* is again the slot of a task that ended inside its own task_create: the   *)
(* processor may be sent there and go no further.                           *)
NobodyStranded == NeverStuck /\ ReadyCoversLive
=============================================================================
