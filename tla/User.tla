-------------------------------- MODULE User --------------------------------
(***************************************************************************)
(* Ring 3: the one window of user addresses, which every program shares,   *)
(* and the system calls.  proc/user.c decides who may use the window,      *)
(* proc/elf64.c fills it, mm/vmm64.c maps and unmaps its pages,            *)
(* proc/syscall.c lets the program call, mm/page_fault.c and task_exit end *)
(* it.  A page of the window is a number; the pages below Stack hold       *)
(* images, mmap gives out those above.  A system call runs with interrupts *)
(* off, so a call is one step, except a read of the keyboard, which waits. *)
(*                                                                         *)
(* A program is its segments and the page of its entry; it runs at its     *)
(* entry page, and faults when that page is not mapped.  Writing to the    *)
(* console, yield and getpid change nothing here.                          *)
(***************************************************************************)
EXTENDS Vfs, Integers, Sequences, Functions

CONSTANTS Programs,   \* [name -> [segs, entry, good]]; segs: a sequence of page sets
          Hello,      \* the embedded program, path NULL
          Bad,        \* data that is no program
          Pages,      \* bound: pages of the window, 0 on
          Stack,      \* the page of the stack: ELF_STACK_PAGES as one
          Tables,     \* bound: pages one page table covers
          RamFrames,     \* bound: free frames at power-on
          Slots,      \* bound: TASK_MAX_OS - 1
          MaxCalls    \* bound: system calls and spawns in a behaviour

ASSUME UserAssumption ==
    /\ {Pages, RamFrames, MaxCalls, Slots} \subseteq Nat /\ Tables \in Nat \ {0}
    /\ Stack \in 0..Pages - 1 /\ Hello \in DOMAIN Programs
    /\ Contents = DOMAIN Programs \cup {Bad} /\ Bad \notin DOMAIN Programs
    /\ \A prog \in DOMAIN Programs :      \* what the header checks let through
          Programs[prog].good => /\ Programs[prog].segs \in Seq(SUBSET (0..Pages - 1))
                                 /\ Programs[prog].entry \in 0..Pages - 1

VARIABLES
    map,      \* page -> "none", "user", or "kernel": identity map of RAM
    tables,   \* page tables that exist
    free,     \* free frames
    tracked,  \* s_map_va, s_map_len: the pages of the image and its stack
    mmaps,    \* history: pages sys_mmap gave out
    bump,     \* mmap_bump_os
    tasks,    \* slot -> state, pid, user_rip as a program, and where it runs
    nextPid,  \* next_pid_os
    keys,     \* characters in the keyboard ring: 0 or 1
    panic,    \* the kernel stopped
    calls

mem == <<map, tables, free, tracked, mmaps, bump>>
vfs == <<disk, fds>>
userVars == <<mem, tasks, nextPid, keys, panic, calls, vfs>>

UserWindow == 0..Pages - 1
NoTask == [state |-> "dead", pid |-> 0, prog |-> Bad, at |-> 0]

UserTypeOK ==
    /\ map \in [UserWindow -> {"none", "user", "kernel"}]
    /\ tables \subseteq 0..Pages \div Tables
    /\ free \in 0..RamFrames
    /\ tracked \subseteq UserWindow /\ mmaps \subseteq UserWindow
    /\ bump \in Stack + 1..Pages
    /\ tasks \in [1..Slots -> [state: {"dead", "run", "reading"},
                               pid: 0..nextPid - 1, prog: Contents, at: UserWindow]]
    /\ nextPid \in 1..MaxCalls + 1 /\ keys \in 0..1
    /\ panic \in BOOLEAN /\ calls \in 0..MaxCalls
    /\ VfsTypeOK(0..nextPid - 1)

(* The identity map ends below the window, or reaches its first pages when *)
(* the machine has more than 1 GiB.                                        *)
UserInit ==
    /\ \E ram \in {{}, {0}} :
          map = [p \in UserWindow |-> IF p \in ram THEN "kernel" ELSE "none"]
    /\ tables = {} /\ free = RamFrames /\ tracked = {} /\ mmaps = {}
    /\ bump = Stack + 1
    /\ tasks = [s \in 1..Slots |-> NoTask] /\ nextPid = 1
    /\ keys = 0 /\ panic = FALSE /\ calls = 0
    /\ VfsInit

-----------------------------------------------------------------------------
(* Mapping.  m: the map, the tables and the frames part way through a call.*)
Mem == [map |-> map, tables |-> tables, free |-> free, panic |-> FALSE]
UserPages(m) == {p \in UserWindow : m.map[p] = "user"}

(* vmm_unmap_user_anon: frames go back, page tables stay. *)
Unmap(m, pages) ==
    LET gone == pages \cap UserPages(m)
    IN [m EXCEPT !.map = [p \in UserWindow |-> IF p \in gone THEN "none" ELSE m.map[p]],
                 !.free = @ + Cardinality(gone)]

(* One turn of the loop of vmm_map_user_anon: a frame for the page, then   *)
(* in vmm_map_page a frame for its page table, without which the kernel    *)
(* stops.                                                                  *)
MapPage(m, p) ==
    LET table == p \div Tables
        taken == IF table \in m.tables THEN 1 ELSE 2
    IN IF m.panic \/ m.free < taken THEN [m EXCEPT !.panic = TRUE]
       ELSE [m EXCEPT !.map[p] = "user", !.tables = @ \cup {table}, !.free = @ - taken]

(* vmm_map_user_anon: [ok, m], page after page.  When the frames run out,  *)
(* the pages mapped so far are unmapped again.                             *)
\* mutant: without unmapping them.
MapAnon_NoRollBack(m, pages) ==
    LET turn[p \in 0..Pages] ==
            IF p = 0 THEN [ok |-> TRUE, m |-> m]
            ELSE LET acc == turn[p - 1]
                 IN IF p - 1 \notin pages \/ ~acc.ok \/ acc.m.panic THEN acc
                    ELSE IF acc.m.free = 0 THEN [ok |-> FALSE, m |-> acc.m]
                    ELSE [ok |-> TRUE, m |-> MapPage(acc.m, p - 1)]
    IN IF \E p \in pages : m.map[p] # "none" THEN [ok |-> FALSE, m |-> m]
       ELSE turn[Pages]

MapAnon(m, pages) ==
    LET turn[p \in 0..Pages] ==
            IF p = 0 THEN [ok |-> TRUE, m |-> m]
            ELSE LET acc == turn[p - 1]
                 IN IF p - 1 \notin pages \/ ~acc.ok \/ acc.m.panic THEN acc
                    ELSE IF acc.m.free = 0 THEN [ok |-> FALSE, m |-> Unmap(acc.m, pages)]
                    ELSE [ok |-> TRUE, m |-> MapPage(acc.m, p - 1)]
    IN IF \E p \in pages : m.map[p] # "none" THEN [ok |-> FALSE, m |-> m]
       ELSE turn[Pages]

(* elf64_load of a program whose headers are good: drop the image that is  *)
(* there, map the segments one by one and the stack, and drop what was     *)
(* mapped if one of them cannot be.  Segments that share a page cannot.    *)
LoadSegments(prog) ==
    LET segs == Append(Programs[prog].segs, {Stack})
        turn[i \in 0..Len(segs)] ==
            IF i = 0 THEN [ok |-> TRUE, m |-> Unmap(Mem, tracked), done |-> {}]
            ELSE LET acc == turn[i - 1]
                     r == MapAnon(acc.m, segs[i])
                 IN IF ~acc.ok THEN acc
                    ELSE [ok |-> r.ok, m |-> r.m,
                          done |-> IF r.ok THEN acc.done \cup segs[i] ELSE acc.done]
        r == turn[Len(segs)]
    IN IF r.ok THEN r ELSE [ok |-> FALSE, m |-> Unmap(r.m, r.done), done |-> {}]

Valid(prog) == prog \in DOMAIN Programs /\ Programs[prog].good

(* elf64_load; the headers are looked at before anything is changed. *)
ElfLoad(prog, ok) ==
    /\ ok = (Valid(prog) /\ LoadSegments(prog).ok)
    /\ IF Valid(prog)
       THEN LET r == LoadSegments(prog)
            IN /\ map' = r.m.map /\ tables' = r.m.tables /\ free' = r.m.free
               /\ panic' = r.m.panic /\ tracked' = r.done
       ELSE UNCHANGED <<map, tables, free, panic, tracked>>
    /\ UNCHANGED <<mmaps, bump>>

(* user_load_path: path NULL is the embedded program; a file needs a free  *)
(* descriptor to be read through, and gives it back.                       *)
Paths == Names \cup {Hello}
Found(path) == path = Hello \/ (CanOpen(path) /\ Size(Lookup(path)) > 0)
Image(path) == IF path = Hello THEN Hello ELSE Lookup(path)

LoadPath(path, ok) ==
    IF Found(path) THEN ElfLoad(Image(path), ok)
    ELSE ok = FALSE /\ UNCHANGED <<mem, panic>>

-----------------------------------------------------------------------------
Live(s) == tasks[s].state # "dead"

\* mutant: nobody looks at the other tasks.
WindowBusy_Never(except) == FALSE

(* user_window_busy *)
WindowBusy(except) == \E s \in 1..Slots : Live(s) /\ tasks[s].pid # except

Count == calls < MaxCalls /\ calls' = calls + 1

(* user_spawn_path, which the kernel calls; a program that asks to spawn   *)
(* finds the window busy with itself.                                      *)
Spawn(path) ==
    /\ Count
    /\ ~WindowBusy(0)
    /\ \E ok \in BOOLEAN :
          /\ LoadPath(path, ok)
          /\ IF ok /\ \E s \in 1..Slots : ~Live(s)
             THEN LET s == CHOOSE s \in 1..Slots : ~Live(s) /\ \A r \in 1..s - 1 : Live(r)
                  IN /\ tasks' = [tasks EXCEPT ![s] =
                            [state |-> "run", pid |-> nextPid, prog |-> Image(path),
                             at |-> Programs[Image(path)].entry]]
                     /\ nextPid' = nextPid + 1
             ELSE UNCHANGED <<tasks, nextPid>>
    /\ UNCHANGED <<keys, vfs>>

(* The program runs: its page is there. *)
Runs(s) == tasks[s].state = "run" /\ map[tasks[s].at] = "user"

(* user_exec_path and syscall_interrupt: on success the frame is pointed   *)
(* at the new program; a failure goes back to the caller with -1, whether  *)
(* or not its image is still there.                                        *)
Exec(s, path) ==
    /\ Count /\ Runs(s)
    /\ ~WindowBusy(tasks[s].pid)
    /\ \E ok \in BOOLEAN :
          /\ LoadPath(path, ok)
          /\ tasks' = IF ok
                      THEN [tasks EXCEPT ![s].prog = Image(path),
                                         ![s].at = Programs[Image(path)].entry]
                      ELSE tasks
    /\ UNCHANGED <<nextPid, keys, vfs>>

(* sys_mmap: without a hint at the bump, which moves past what it gave; a  *)
(* hint gives those pages or nothing, and the bump is not told.            *)
Mmap(s, hint, len) ==
    /\ Count /\ Runs(s)
    /\ LET va == IF hint = 0 THEN bump ELSE hint
           r == MapAnon(Mem, va..va + len - 1)
       IN /\ va > Stack /\ va + len <= Pages
          /\ map' = r.m.map /\ tables' = r.m.tables
          /\ free' = r.m.free /\ panic' = r.m.panic
          /\ mmaps' = IF r.ok THEN mmaps \cup (va..va + len - 1) ELSE mmaps
          /\ bump' = IF r.ok /\ hint = 0 THEN va + len ELSE bump
    /\ UNCHANGED <<tracked, tasks, nextPid, keys, vfs>>

-----------------------------------------------------------------------------
Unmoved == UNCHANGED <<mem, tasks, nextPid, keys, panic>>

SysOpen(s, n) == Count /\ Runs(s) /\ VfsOpen(tasks[s].pid, n) /\ Unmoved
SysClose(s, fd) == Count /\ Runs(s) /\ VfsClose(tasks[s].pid, fd) /\ Unmoved
SysRead(s, fd) == Count /\ Runs(s) /\ VfsRead(tasks[s].pid, fd) /\ Unmoved
SysWrite(s, fd, c) == Count /\ Runs(s) /\ VfsWrite(tasks[s].pid, fd, c) /\ Unmoved

(* sys_read of descriptor 0 waits in sys_read_one for a character; the     *)
(* gate it came through keeps interrupts off.                              *)
ReadKey(s) ==
    /\ Count /\ Runs(s)
    /\ tasks' = [tasks EXCEPT ![s].state = "reading"]
    /\ UNCHANGED <<mem, nextPid, keys, panic, vfs>>

ReadKeyDone(s) ==
    /\ tasks[s].state = "reading" /\ keys > 0
    /\ tasks' = [tasks EXCEPT ![s].state = "run"]
    /\ keys' = keys - 1
    /\ UNCHANGED <<mem, nextPid, panic, calls, vfs>>

(* The keyboard interrupt, when one can be taken. *)
KeyPressed ==
    /\ keys = 0
    /\ \A s \in 1..Slots : tasks[s].state # "reading"
    /\ keys' = 1
    /\ UNCHANGED <<mem, tasks, nextPid, panic, calls, vfs>>

(* task_exit, called by the program or by page_fault_handler: the image,   *)
(* its mappings and the bump stay as they are.                             *)
TaskExit(s) ==
    /\ tasks' = [tasks EXCEPT ![s] = NoTask]
    /\ fds' = TaskClosed(tasks[s].pid)
    /\ UNCHANGED <<mem, nextPid, keys, panic, calls, disk>>

SysExit(s) == Runs(s) /\ TaskExit(s)
PageFault(s) == tasks[s].state = "run" /\ map[tasks[s].at] # "user" /\ TaskExit(s)

(* The cat of the text shell: one file, read to its end and closed; the    *)
(* clock may let the program run in between.                               *)
Mine == {fd \in Fds : fds[fd].used /\ fds[fd].owner = 0}

ShellCat ==
    /\ \/ /\ Mine = {} /\ Count
          /\ \E n \in Names : VfsOpen(0, n)
       \/ \E fd \in Mine : (IF Readable(fd) THEN VfsRead(0, fd) ELSE VfsClose(0, fd))
                           /\ UNCHANGED calls
    /\ Unmoved

SystemCall(s) ==
    \/ \E path \in Paths : Exec(s, path)
    \/ \E hint \in {0} \cup UserWindow, len \in 1..2 : Mmap(s, hint, len)
    \/ \E n \in Names : SysOpen(s, n)
    \/ \E fd \in Fds : SysClose(s, fd) \/ SysRead(s, fd) \/ \E c \in Contents : SysWrite(s, fd, c)
    \/ ReadKey(s)
    \/ SysExit(s)

UserNext == /\ ~panic
            /\ \/ \E path \in Paths : Spawn(path)
               \/ \E s \in 1..Slots : SystemCall(s) \/ ReadKeyDone(s) \/ PageFault(s)
               \/ KeyPressed
               \/ ShellCat

(* A program that cannot fetch its next instruction faults; a key is       *)
(* pressed again and again; a waiting read looks again.                    *)
UserFairness == /\ \A s \in 1..Slots : WF_userVars(~panic /\ (PageFault(s) \/ ReadKeyDone(s)))
                /\ WF_userVars(~panic /\ KeyPressed)

UserSpec == UserInit /\ [][UserNext]_userVars /\ UserFairness

-----------------------------------------------------------------------------
(* Every frame is where the bookkeeping says: free, or under a page the    *)
(* image tracks, or under a page mmap gave out, or in a page table; no     *)
(* page is both.  Failed loads, failed mappings and exec in between leak   *)
(* nothing and free nothing twice.                                         *)
PagesAccounted ==
    ~panic =>
        /\ UserPages(Mem) = tracked \cup mmaps
        /\ tracked \cap mmaps = {}
        /\ free + Cardinality(tracked \cup mmaps) + Cardinality(tables) = RamFrames

(* The window holds the program that runs: there is one ring-3 task, and   *)
(* unless an exec that failed took its image away, the pages that are      *)
(* mapped for it are its segments and its stack.                           *)
OneImage ==
    \A s \in 1..Slots : Live(s) =>
        /\ \A r \in 1..Slots \ {s} : ~Live(r)
        /\ tracked \in {{}, {Stack} \cup UNION Range(Programs[tasks[s].prog].segs)}

(* An open descriptor belongs to the kernel or to a task that lives, so a  *)
(* program that dies, however it dies, gives its descriptors back.         *)
FdsOwned ==
    \A fd \in Fds : fds[fd].used =>
        fds[fd].owner = 0 \/ \E s \in 1..Slots : Live(s) /\ tasks[s].pid = fds[fd].owner

(* docs/abi.md:65 says a read of descriptor 0 blocks until the keyboard    *)
(* gives a character.                                                      *)
ReadsReturn == \A s \in 1..Slots :
    (tasks[s].state = "reading") ~> (tasks[s].state # "reading")

(* The memory of a program is bounded, mapped and accounted for, whatever  *)
(* fails half way (vmm_map_anon, elf64_load, user_window_unmap).           *)
MemorySound == UserTypeOK /\ PagesAccounted
=============================================================================
