# A formal model of CordOS

CordOS is a freestanding x86_64 operating system written in C: a kernel with a
preemptive scheduler, a heap and a frame allocator, a small disk file system,
one ring-3 task at a time, and a graphical session that runs in ring 0. This
directory holds TLA+ models of its components, the configurations under which
TLC checks them, and theorems about them that TLAPS proves for every value of
the constants. Every definition is translated from the C source;
`PROJECT.json` names the lines each one stands for.

Line numbers below are those of the source files, which are relative to the
repository's own `src/`.

## 1. The system

One processor runs `kmain64` (`kernel/kernel64.c`), which becomes the *idle*
task: it brings up memory, disk and network, asks for a language and a user,
and then runs the session loop for ever. Interrupts (timer, keyboard, mouse)
come in on top of whatever runs. Kernel tasks are few (two preemption demos);
ring 3 is one short smoke task, started and awaited by idle. There are no
other threads, so the concurrency of this system is: interrupt handlers
against the code they interrupt, preemption by the timer tick in code that
runs with interrupts on, and devices (disk, network card, USB) against drivers.

| Component | State it keeps | Operations | Hard part | What makes it correct |
|---|---|---|---|---|
| Disk file system `fs/nosfs_disk.c` | superblock and directory in memory, the same and the data on disk | mount/format, reload, lookup, list, read, put | failing sectors, power loss between any two sector writes | files never share sectors, a completed put reads back, other files are untouched |
| Tasks, scheduler `proc/task.c`, `proc/sched.c` | task table, current task, round-robin index, zombie, TSS stack | create, exit, yield, tick, reap | preemption between any two stores of `task_create`, freeing a stack nobody stands on | stacks owned once, unique pids, no starvation |
| Keyboard `drivers/keyboard.c` | modifiers, ring of code points | IRQ 1, has_char, get_codepoint | the handler also moves the reader's index | what is read is what was typed, in order |
| Frame allocator `mm/pmm64.c` | bitmap, counters, hint | init, page, run, free, release boot info | memory maps with holes, overlaps and odd edges | one holder per frame, exact counters |
| Heap `mm/heap.c` | list of blocks, counters | init, kmalloc (with growth), kfree | splits, joins over several regions | blocks tile the heap's frames, live blocks stay intact |
| Virtual memory `mm/vmm64.c`, `mm/page_fault.c` | page tables | map, unmap, anonymous mappings | roll-back half way | nothing mapped twice, nothing leaked |
| User window `proc/syscall.c`, `proc/user.c`, `proc/elf64.c` | image, break, mmap bump pointer, one user task | system calls, exec, exit | state left over from one program to the next | each program finds a clean window |
| File layer `fs/vfs.c`, `fs/nosfs.c`, `fs/initrd.c` | eight descriptors, three file systems | open, read, write, close, list | sizes cached at open, owners that die | descriptors belong to live owners |
| Accounts `fs/userdb.c` | user table, `users.db` | add, authenticate, load with migration, save | power loss between the sectors of a save | what was accepted survives a reboot |
| Preferences `fs/persist.c` | three copies of each setting | set, flush, load at power-on | memory changed before the write that may fail | a setting outlives every restart |
| Session `ui/session`, `ui/login` | screen, selected user, timers | onboarding, login, lock, log out | order of screens, input during transitions | nobody gets past login without the password |
| Desktop `ui/desktop`, `ui/widgets` | windows, order, overlays, drag | open, close, raise, drag, search | long sequences of events and polled edges | stack, slots and drag agree |
| Mouse `drivers/mouse.c` | packet state, ring of events | IRQ 12, get_event | an event rewritten while it is copied | the reader ends where the pointer is |
| Graphics `drivers/fb.c`, `ui/gfx` | back and front buffer, damage, pointer | draw, present, stamp and forget the pointer | partial presents around a moving pointer | the glass shows the scene and one pointer |
| Network `net/net.c` | ARP entry, DHCP state, ping | send, poll, resolve | lost, late and duplicated packets, nested polls | an answer is matched with its question |
| Cards `drivers/e1000.c`, `drivers/pcnet.c`, `net/nic.c` | descriptor rings | send, receive | two sides of a ring at once, wrap | each card is two queues |
| Block devices `drivers/ata.c`, `drivers/ahci.c`, `drivers/blk.c` | command slots, device table | read, write, probe | timeouts, late completions | a call that succeeds moved the right sectors |
| Wi-Fi `drivers/wifi`, `tools/wlan_host.ps1` | network table, association, a line protocol | scan, join, check | late and broken lines | "connected" is said of the network that is |
| USB `drivers/usb/ehci.c` | three transfer descriptors, device table | enumerate, control, bulk | a controller still at work on a transfer given up | the table names the devices that answer |
| Boot, CPU tables, shell, the rest | | | | listed in `PROJECT.json`, not modelled (section 8) |

How they meet: the scheduler takes stacks from the heap, the heap takes runs
of frames from the frame allocator, and so do the page tables, user pages and
framebuffer layers. Accounts and preferences are files of the disk file
system, which lies on a volume that the mount chooses among the block devices.
The keyboard ring is read by the session, by the shell and by `SYS_READ`; the
mouse ring by the desktop and the login. Onboarding asks the Wi-Fi driver for
networks and pings through the network stack.

## 2. What is modelled

`PROJECT.json` maps every definition to its lines. The `MC` modules give the
constants values for TLC and, where a run has several subjects, join them.

### Disk file system: `FileStore`, `NosfsDisk`, `MCNosfsDisk`

`NosfsDisk` is `fs/nosfs_disk.c` one sector write at a time. `dsb`, `ddir`,
`ddata` are the disk; `sb`, `dir` are `s_sb`, `s_dir`. The phase `ph` says where
the code is: off, formatting the superblock or the directory, remounting,
idle, or in a put writing data, directory or superblock. `PutStart` is the
part of `nosfs_disk_put` that works in memory; `WriteData`, `WriteDir` and
`WriteSb` are its sector writes; `PutFails` is a sector that fails, after
which the code returns without undoing anything. `Crash` may happen in any
state: memory is lost, the disk stays.

`FileStore` is what the callers rely on: a map from names to contents that one
call changes, in one step, at one name. `ImplementsFileStore` is the
refinement while the power stays on, with `Files` as the mapping; while a put is
under way its file counts as the old one.

* `NoOverlap`: two files never share a sector, and every file lies below
  `next_data`.
* `VolumeReadsBack`: the count in the superblock is the number of entries in
  use, and a file whose put ended well reads back what was put, with failed
  sectors and losses of power in other puts.
* A directory newer than its superblock (section 5, 1) breaks the layout;
  `ahead` and `torn` record when one has been written and mounted, and the
  properties say nothing after that. Everything short of it is covered: any
  number of failed sectors, losses during formatting, data and directory.

### Tasks and scheduler: `Sched`, `MCHardware`

Each task has a stack of frames, so that a tick may nest on top of a task
that is itself inside `schedule`. What runs with interrupts on is split into
its stores: `task_create_user` is ten steps, from the search for a dead slot to
`sched_add_ready`. What runs under `sched_lock_os` or with interrupts off is
one step, for a tick that comes then does nothing. The tail of `schedule`
after `switch_context` runs on the incoming task's stack (`Resume`,
`FreeReaped`), as in the code.

A new task may run and end as soon as it is linked into the table, before its
creator has counted it or called `sched_add_ready`; that call then makes a dead
slot READY (section 5, 3). The history variable `revived` names such slots, and
the run goes on from there. `StacksSafe`: one task runs, on a stack of its own,
pids are unique, no stack is shared, freed twice or freed under its task, and
the ring-0 stack in the TSS is the current task's; a slot in `revived` is the
one place where a task may be READY without a stack. `NobodyStranded`:
`task_exit` finds a successor and does not return, the processor is never sent
where there is no stack but in such a slot, and the count of ready tasks covers
all others that live.

### Keyboard: `Keyboard`

The hands on the keyboard are the environment; the controller holds `MaxWire`
bytes. `Irq` is the whole handler for one byte. The reader is four steps
(`HasChar`, `Load`, `Fetch`, `Reload`, `Store`), and the handler may run between
any two, any number of times. A code point in the ring is the number of the key typed and whether it is
the symbol its typist wanted, given the keys held down then; `Symbol` and
`Modifiers` are the code's own decisions, `Wanted` is the layout as the key
caps say. `BufferKeeps`: what waits are the last characters typed, in order, the
newest among them until it is read, unless the reader's write of `kbd_tail` undid
what the handler had done to it and left the ring empty (`emptied`; section 5,
4). `InOrder`: what is read is newer than all read before, but when the slot was
filled anew between the read of `kbd_tail` and that of the slot.

### Memory: `Pmm`, `Memory`, `MCMemory`

`Pmm` is the frame allocator; a region of the memory map is any interval, not
aligned to frames. `FirstRun` is the search of `pmm_alloc_contiguous` with its
jump past the first used frame. `Memory` extends it with the heap: the list of
blocks is a sequence, `Split`, `Coalesced` and `Appended` are `heap_split`,
`heap_coalesce` and `heap_append_region`. The other holders of frames take
and return them in between, so that the heap's regions are or are not
neighbours. `FramesGood`: what is handed out is RAM, and a run is the lowest
that fits. `HeapSound`: the blocks tile the heap's regions, live blocks stay
as they were returned, no two free neighbours are left apart, the used count is
exact, and a growth suffices for the request it was made for.

### Accounts and session: `Accounts`, `Session`, `MCSession`

`Accounts` is `fs/userdb.c`. `users.db` fits one sector, so its put is three
sector writes (`WriteData`, `WriteDir`, `WriteSb`), each of which may fail, with
power lost between any two. `file` is the data sector, `diskSize` and `ramSize`
the file's size in the two copies of the directory: what a power-on reads is
`Parsed(file, diskSize)`, which may be the data of one save with the size of
another. A password's hash is the pair of its salt (the slug) and its text; a
slug is a sequence, so that the digits `uniquify_slug` appends are seen as such.
The other files matter through `CreateHome`, whose puts write the directory too.

`Session` extends it with the screens: `kmain64`'s choice of the first one,
onboarding with its ways back, the graphical login with its choice of account,
the text login, log-out. Onboarding and the logins wait while `userdb_add`
writes, as in the code, which is one loop. The Wi-Fi steps only decide here how
`CommitUser` is reached; what they do is in `Wifi`.

A mount that could not read the superblock or the directory formats the volume,
and the accounts are gone (`Formatted`). One that cannot read `users.db` begins
with no accounts (`blind`): until the next save they are still on disk, and a
power-on that reads them has them again; that save replaces them. The migration
of plain passwords rewrites the sector in place with longer lines, and while the
directory has the old size (`half`) a power-on reads the accounts that fit it,
the last one perhaps without the end of its hash.

The history variables `given` and `ledger` hold the names and passwords as they
were typed, `acked` how many accounts a save has reported written; `Forget`
lowers it where accounts are lost in one of these three ways, and notes it in
`forgotten`. `AccountsKept` says that all others are there after every power-on
that reads them and open with their passwords, but for a slug that was given a
digit (section 5, 6); `SavedAccountsStay`, that none is ever lost, is violated
(section 5, 10).

### Network stack: `Net`

`net/net.c` is driven by no interrupt: `net_ping` and `net_status_run` spin in
wait loops that drain the card, and a handler they run may itself resolve an
address and wait. `nest` is the C stack of `arp_resolve` calls, `job` the call
at its bottom. The wire delays, repeats and loses frames as it likes: an answer
to anything ever sent may arrive at any time, any number of times, or never.
`ReachesNextHop`: every datagram that leaves carries the hardware address of the
host it must reach next, however the resolutions nested. `RepliesMatch`: an
answered ping heard its own sequence number, and a DHCP request names an
address from the server that offered it, unless that server leaves its name
out of its replies (`Bare`: `udp_in` then takes it from `siaddr`, and keeps the
name another reply brought when that is zero). The type of the reply is not
looked at, in the model as in `dhcp_go`, so that nothing is said of the lease
(section 5, 18). `CallsEnd`: every call returns.

### Network cards: `Link`, `Nic`, `MCHardware`

`Link` is what a card promises: two queues of frames, each leaving once,
unchanged and in order. `Nic` is the two drivers and their cards over rings of
descriptors: the e1000 with head and tail registers and a DD bit, the PCnet with
an OWN bit. Old frames stay in their slots. `ImplementsLink` is the refinement;
`RingsSound` adds that no slot is ever lost to either side; `FramesLeave` that
an accepted frame goes out, unless the ring was filled to the brim first
(section 5, 14).

### Block devices and the choice of a volume: `Storage`

The drivers for SATA (`ahci.c`) and IDE (`ata.c`), the table of `blk.c`, and the
scan of `nosfs_disk_mount`. A SATA disk fetches its command, works, and writes
into the one DMA buffer on its own; the processor polls and gives up. Writes go
to the disk's cache and a flush makes them permanent. `DataIsTrue`: a read that
succeeded returned the sector, a write that succeeded survives a power loss.
`OnlyUnreadableIsWiped`: a disk that holds a volume is formatted only if a
sector of it could not be read. Both say nothing once a SATA command was given
up (`late`): its disk may still answer into the next command's buffer.
A system call runs with interrupts off (`masked`), and the clock that `issue`
of `ahci.c` looks at stands still: `SataTimeout` is then impossible, while the
IDE driver counts its polls too. `RequestsEnd`: every other request ends, and one
with interrupts off on a SATA disk ends unless the disk leaves its command
unanswered for good (section 5, 11).

### Programs, their memory and files: `Vfs`, `User`, `MCMemory`

`Vfs` is the descriptor table over the volume and the initrd; `User` the ring-3
window: which task may load, the segments and stack of an image, `mmap` with its
roll-back, exec that fails after the old image is gone, page faults, exit, the
file calls, the keyboard read that halts, the kernel task that reads a file
while the clock lets the program run. Frames and page tables are counted.
`MemorySound`: every frame is free, under one page that is tracked, or in a page
table, after any failure half way. `OneImage`: the window holds the one program
that runs. `FdsOwned`: a descriptor belongs to the kernel or to a live task.

### Desktop and mouse: `Mouse`, `Desktop`, `MCDesktop`

`Mouse` is the event ring: the interrupt pushes a move (merged into a last
event that is a move) and an edge per button, drops when full, and the reader
copies an event and frees it in two steps. `Desktop` is the loop of
`desktop_run`: events, then keys, then the widgets, which poll the buttons and
see the same press a second time. Windows live in slots that are reused at once;
`z` is their stacking order, `over` the overlays, `drag` the slot dragged.
`WindowsSound`, `InputHeld` and `SeesPointer` say that the slots, their kinds and
the stacking agree, that overlays exclude one another, that a drag holds on to
the window that was pressed, and that a reader which emptied the ring knows
where the pointer is. `lostUp` marks a release dropped by a full ring and
`stale` a move merged into an event already copied; after those the last two
properties wait for the next event.

### Screen: `Screen`, `Raster`, `MCDesktop`

`Screen` is the back and the front buffer, the pending damage, and the three ways
the pointer comes onto the glass (staged, restored and painted, stamped), on
one row of pixels, with the programs that draw: login, onboarding and desktop,
each with its own rules of when it copies how much. `SceneSound`: a pixel that
differs from the scene is under the pointer or still to be copied.
`PointerTrue`: the pointer is whole, and nothing else looks like one, except
where `cursor_invalidate` left it behind (`left`). `Raster` is the pixel
arithmetic as functions: rounded boxes filled in five strips, blur and bilinear
samples, the covering wallpaper, text widths. `PixelsRight`: no gap, no
overlap, no read past the edge, on every input up to the bounds.

### Preferences, Wi-Fi and USB: `Prefs`, `Wifi`, `Usb`, `MCSetup`

`Prefs` keeps the three copies of each setting: in use, in `persist.c`, and in
`config.txt`, on a volume as `FileStore` promises with puts that break off and
leave anything behind. `torn` says that a put broke off in `config.txt` since the
last flush that completed, `behind` that a flush failed in this session.
`SettingsKept`: through restarts, refused puts and losses of power `config.txt`
is what the last completed flush wrote, until a put breaks off in it; a power-on
brings that into use; and within a session the next flush writes what is in use,
whatever failed before. It does not say that a setting was stored: after a
refused flush the next power-on finds the value before it (section 5, 12).

`Wifi` is the choice of a network in onboarding, over the radio's table, a wired
card, or the host's radio at the other end of COM2: `Arrive` brings a line, the
guest gives up after a while or in the middle of a line, whose pieces are then
taken for lines (`Cuts`: a row without its last byte is a row, a piece that
begins with K an answer), and the next command is sent while the answer to an older one is still on its way. The host's script
is modelled too (`HostServe`). `NetworkTable`: one row per name, with the best
signal and strictest security heard. `VerdictIsTrue`: "connected" is said of
the network that is selected and connected; over the host only of one for which
nothing older was outstanding when it was asked (`quiet`; section 5, 13).

`Usb` is `ehci.c`: ports reset one by one, the six requests of an enumeration,
bulk transfers afterwards, three descriptors for all of them, and a controller
that fetches a descriptor, exchanges a packet and writes the result on its own
(`Fetch`, `Packet`, `Repeated`, `NotReady`, `Stalls`), also after the driver
gave the transfer up. `UsbSound`: a registered device answers its address,
alone, is configured and was read from itself; no bulk frame is handed up
twice. `loose` marks a transfer unlinked while the controller was at it and
`astray` a device left unregistered on the bus; the properties say what holds
without them.

## 3. Runs

Times are seconds to two and a half minutes on two workers.  A run with two or
three subjects that share no state follows one of them in each behaviour.

| Run | Question | Bounds and why they are enough |
|---|---|---|
| `nosfs` | Do files survive failed sectors and power loss? Is the volume a map from names to files? | 3 names for 2 slots, so that the directory is full; 2 payloads; files of 0, 1, 2 and 4 sectors in a 3-sector data area: one that fits once, grows, does not fit; 2 directory sectors, which differ on disk after a loss; 1 failed write, 1 failed read, 1 power loss. |
| `hardware` | Under the timer's tick, is any stack used after it is freed, and does everybody run? Is each card's driver two queues? | *Scheduler*: idle and 2 slots, 4 stacks (one more than slots and pending frees hold), pids modulo 5 so that the counter wraps past live ones, ticks nested 3 deep. *Cards*: rings of 3: indices wrap, and full, empty and one-free differ; 2 payloads; no bound on the number of frames. |
| `keyboard` | Is what is read what was typed? | All ten kinds of key, 5 characters through a ring of 3 slots (2 usable), so that it fills, drops and wraps, and two of them come between any two instructions of the reader. |
| `memory` | Does the heap tile its frames, does each frame have one holder? Is the window clean for each program? | *Frames and heap*: 7 or 8 frames of 8 units; three memory maps: unaligned top, a hole that splits two frames, a map larger than the bitmap with boot information that overlaps the kernel; 3 live blocks; requests that need a whole frame or more. *Programs*: 5 pages (2 image, 1 stack, 2 mmap) and 5 frames, so that loads, mappings and page tables run out half way; 2 task slots, 2 descriptors, 6 calls of programs; images that fit, that reach into the mmap area, that share a page, that are refused. |
| `session` | Do saved accounts open again, and does nobody else get in? | Two names with the same slug and one without, 2 passwords, a table of 2 accounts so that it fills, up to 2 plain-text accounts at first, 3 power-ons (one to write, one to fail, one to look), 1 failed write, 1 failed read or mount. A line is a name of 2 bytes and a password of 2 or a hash of 5, so that the cut falls inside a hash and inside a name. |
| `net` | Do datagrams, replies and leases go where they belong? | 1 neighbour, the router and 1 host behind it; 3 DHCP servers, so that their fields can mix, one of them without option 54; a receive queue of 2; 4 arrivals: the inner of two nested resolutions answers late and the outer first; 2 calls, so that the second can hear the first's reply. |
| `storage` | Do reads and writes tell the truth, and what does a mount format? | 2 disks of either kind, blank or with a volume: the scan can prefer the wrong one. Three sectors per disk: superblock, directory, data. Every request with interrupts on or off. Faults, timeouts and power losses unbounded. |
| `desktop` | Do windows, overlays and drags survive any order of input? Is the scene and one pointer on the glass? Is the pixel arithmetic whole? | *Windows*: 2 positions (only compared), 2 buttons, a ring of 2, so that moves merge and a release is dropped; 2 window slots and 3 kinds, one of which opens twice, so that a slot is recycled; 2 search results. No bound on events. *Screen*: 5 pixels, a pointer of 2 and a stage of 4: a jump of 3 no longer fits one staged rectangle, and damage touches both edges. Boxes and pictures with sides up to 7 on a screen of 8 by 7, radii beyond half the side, roots up to 600. |
| `setup` | Do settings last? Is "connected" true? Does the device table name devices that answer? | 3 settings of 2 values and one number none accepts, 2 failures or cuts; 2 table rows for 3 names, 3 frames per scan, 1 lost or cut line, of which may be left a name or one that begins with K; 3 ports for a table of 2 devices, 2 bulk transfers, 1 refused or timed-out transaction. The three share nothing, so a behaviour follows one of them. |

Three runs show what the code does against its own text, and TLC finds their
property violated: `sched_resurrect`, `keyboard_burst` and `session_lost`
(section 5: 3, 4 and 10).

`nosfs` and `desktop` use the symmetry of names, positions or colours: what they
check are invariants and step properties, and no step tells the symmetric
values apart. `memory` has a view without `heap_free_os`, which drifts without
bound and which no decision reads. `session` and `desktop` have views that drop
fields no later step reads before writing them, and `memory` and `desktop` what
a behaviour does not follow. Deadlock is not checked where the bounds end
behaviours: when the keys have been typed, the power-ons, faults or calls used
up, the memory taken, or nothing is left to send. In `storage`, `desktop` and
`setup` it is checked.

## 4. Fairness

* `hardware`: the processor executes the kernel steps it is at, and the timer keeps
  ticking (`WF` on `Preempt`, `Resume`, `FreeReaped`, `Bootstrap`). Nothing is
  assumed of a task's own code, which may loop for ever: the tick preempts it. A card that has work sends (`WF`
  on `CardSend`); nothing makes the stack read.
* `keyboard`: bytes the controller holds are delivered (the interrupt stays
  raised while the output buffer is full), and the reader goes on reading;
  nobody is obliged to type.
* `net`: the wait loop that runs goes on (`WF` on `Progress`), and time passes
  in it, so that a time-out which is possible again and again happens (`SF` on
  `TimeOut`). Nothing is assumed of the wire: no answer need ever come.
* `storage`: the driver's polling goes on (`WF` on `Driver`). Its time-out is part
  of that only with interrupts on: `ticks_os` is counted by IRQ 0
  (`drivers/time.c:37`), which a system call keeps out. Nothing is assumed of the
  disks.
* `User`: used only by `user_read.cfg`: a program that cannot fetch faults, and
  keys keep being pressed.

The other specifications state none: they have no liveness property. A user may
leave the machine at any screen, and the desktop, the screen and the settings
answer calls in one loop.

## 5. Where the code and its text disagree, and other things to know

The first thirteen have a configuration in which TLC finds what the text says
violated. Three are among the runs of section 3; the others are run by hand,
with the module named.

1. `nosfs_stale_next.cfg` (`MCNosfsDisk`; `fs/nosfs_disk.c:471`): the directory
   reaches the disk before the superblock, so a power loss between the two leaves
   `next_data`, "next free relative LBA" (`docs/nosfs.md:78`), inside a file.
2. `nosfs_refused.cfg` (`MCNosfsDisk`; `fs/nosfs_disk.c:440`): a put refused for
   want of room removes an existing empty file, taken for the "New empty slot
   we just claimed".
3. `sched_resurrect.cfg` (`Sched`; `proc/task.c:172`): a task that runs to its end
   before its creator reaches `sched_add_ready` is made READY again, on a stack
   that is freed (`ExitedStaysDead`; a listed run).
4. `keyboard_burst.cfg` (`Keyboard`; `drivers/keyboard.c:265`): the reader's update
   of `kbd_tail` can undo two of the handler's and empty the ring, against "drop oldest so
   recent input is not silently lost" (`drivers/keyboard.c:47`; `RecentNotLost`,
   a listed run).
5. `memory_free.cfg` (`MCMemory`; `mm/heap.c:257`): `heap_free_os`, printed as the
   free bytes, drifts upwards.
6. `session_slug.cfg` (`MCSession`; `fs/userdb.c:371`): an account whose slug had
   to be made unique is refused after the next power-on, because the slug its
   password was hashed with is not saved.
7. `user_read.cfg` (`MCMemory`; `proc/syscall.c:208`): a read of descriptor 0 on an
   empty ring never returns: system calls come through an interrupt gate, `hlt`
   runs with interrupts off. `docs/abi.md:65`: "keyboard UTF-8, blocking `hlt`".
8. `storage_wiped.cfg` (`Storage`; `fs/nosfs_disk.c:264`): a volume with one
   unreadable sector counts as blank and may be formatted, where the comment at
   line 14 promises the first disk "that already has NOSF".
9. `usb_toggle.cfg` (`Usb`; `drivers/usb/ehci.c:274`): every bulk transfer
   begins with DATA0, so a device confirms and drops every second OUT, and
   `usb_bulk` reports it sent.
10. `session_lost.cfg` (`MCSession`; `fs/nosfs_disk.c:289`, `fs/userdb.c:265`, `309`):
    accounts reported saved are lost with a writable disk in the machine, by the
    three ways of section 2 (`SavedAccountsStay`, a listed run).
11. `storage_hung.cfg` (`Storage`; `drivers/ahci.c:310`): a SATA disk that never
    answers a command of a system call is polled for ever, as the clock of the
    time-out does not count there (`NoRequestHangs`). `drivers/ata.c:85` counts
    polls for just this case.
12. `prefs_stale.cfg` (`MCSetup`; `fs/persist.c:240`, `264`): after a flush that
    failed, the same value again is taken for stored and not written
    (`UnchangedIsStored`), where `docs/nosfs.md:99` lists the keys as persistent;
    the next power-on finds the value before it. A `config.txt` that could not be
    read is replaced by the defaults.
13. `wifi_late.cfg` (`MCSetup`; `drivers/wifi/wlan_host.c:254`): over COM2 the next
    line that begins with K counts as the answer to a connect, also when it
    answers an older one (`AnswerIsToThis`; "guest: C\t<ssid>\t<password>",
    "host: K | F", `tools/wlan_host.ps1:12`). `onboarding_run` probes more than
    once per check (`onboarding.c:984`).

Seen while modelling, and kept visible in the models:

14. The e1000 keeps no send slot free: a ring filled before the card moves looks
    empty to it, and never sends again (`drivers/e1000.c:383`; `Wedged` in `Nic`).
15. `cursor_invalidate` forgets the pointer and trusts the next copy to cover it
    (`ui/gfx/draw.c:1442`); a partial present leaves it standing (`left` in
    `Screen`).
16. A language given on the command line ("Forzar idioma", `docs/USER.md:154`) is
    overridden by a stored one; the shell's `lang` and the picker store nothing
    (`aside` in `Prefs`).
17. A transfer that timed out on USB is unlinked without waiting for the
    controller (`loose` in `Usb`); a device whose enumeration stopped stays at
    address 0 or at the address the next one gets (`astray`).
18. A late DHCP offer ends the wait for the acknowledgement (`net/net.c:563`), and
    the server's name may stay an earlier reply's (`net/net.c:404`).
    `ata.c` ignores a refused flush, by its own comment.

No passing run makes one of these steps impossible: the model goes on after it.
History variables (`revived`, `emptied`, `forgotten`, `blind`, `torn`, `behind`,
`late`, `stale`, `lostUp`, `left`, `quiet`, `loose`, `astray`) and states
(`Frozen`, `Wedged`) say what a property excepts from then on, and each
property's comment names its exceptions.

## 6. Proofs

TLAPS checks these for every value of the constants, from the assumptions named
in each module: sizes are positive, the directory leaves room in the volume, the
memory map's regions have natural bounds and the boot information lies in one of
them, a block's header is smaller than a page, a cut hash is no password, the
default of a setting is a value it accepts, networks and frames have a natural
signal and one of the three kinds of security, a segment and an entry point that
the ELF header checks let through lie in the user window, the gateway is on the
local network, two pointers fit the staging rows of `fb.c`, a hot spot lies in
the pointer and a root is taken of less than 2^32. Where a theorem needs more it
says so as a hypothesis, named below. Each one rests on an invariant that TLC
found true on the runs before it was proved.

* `NosfsDisk_proofs`. `TypeCorrect` and `ExtentsNeverOverlap` are `TypeOK` and
  `NoOverlap`. `NoOverlap` is not inductive: it speaks of memory only, and a
  reload or a mount takes its state from the disk. `IInv` adds that the disk's
  own directory is disjoint, that it lies below the disk's `next_data` unless it
  is newer, and that no entry on disk meets a *different* entry in memory, so
  that any mixture of old and new directory sectors is disjoint too; and, while
  formatting, that the sectors already cleared are clear.
  `CompletedPutsReadBack` is `VolumeReadsBack`: `CInv` follows a put through its
  sectors (`CallInv`: which sectors are written; `DataInv`: the new extent holds
  the new contents so far; `FlushInv`: how far the directory is), keeps what
  completed puts left (`KeptInv`), counts entries as the superblock does
  (`CountInv`) and says that a name is found at its first entry (`FirstInv`).
  `VolumeIsAFileStore` is the refinement of `FileStore`, step by step: each
  action is the abstract call or nothing, while the power stays on. There
  `MissingAssumption` says that no contents is the marker of an absent file.
* `Sched_proofs`. `StacksStaySafe` and `NobodyIsStranded` are `StacksSafe` and
  `NobodyStranded`, with the task that ends inside its own creation among the
  steps. `OnlyTheCreatorRevives` bounds what section 5, 3 shows: a slot whose task
  ended comes back to life only when `task_create_user` publishes a new task in
  it, or by the late `sched_add_ready` of the creation that task came from.
  `SchedInv` has seven parts, which need
  each other: `Callstacks` (what each task's frames may be), `Turns` (who
  runs, and who was switched out where), `Creation` (how far `task_create_user`
  is), `Owners` (each stack has one owner), `Reaping` (the task waiting to be
  freed), `Pids` and `Counts`.
* `Keyboard_proofs`. `KeysAreTranslated` is `KeysTranslated`, unconditionally.
  `DecodeInv` says where the bytes still on the wire lead: from the modifiers
  the driver has now, byte by byte, to those the hands hold, every character on
  the way coming out as wanted and with the next number. `BufferKeepsNewest` and
  `ReadInOrder` are `BufferKeeps` and `InOrder`, for any number of characters
  between any two instructions of the reader; the ring has more than two slots,
  the code's 128. `BufferInv` places the numbers: those in the ring are
  consecutive and end with the last pushed (`Placed`), and what the reader has
  read of the ring is still the oldest, or the ring has filled up since and has
  been full from then on (`Loaded`).
* `Memory_proofs`. Of the allocator alone: `PmmCountersExact`, `PmmOneHolder`,
  `PmmFramesGood`; of the allocator with its callers: `MemoryImplementsPmm`, that
  the heap and the others use it as `PmmSpec` allows, and `MemoryCountersExact`,
  `MemoryOneHolder`, `MemoryFramesGood`. The counters need that only free frames
  are handed out, and the release of the boot information that nobody holds a
  frame of it, which is why `OneHolder` speaks of `Held` frames; `RamInd` adds
  that whatever is handed out is RAM. That the search of `pmm_alloc_contiguous`
  finds the lowest run, although it jumps over a used frame, is proved by the
  least start it could have missed. `HeapStaysSound` is `HeapSound`, by
  `HeapInd`: the list covers exactly the frames the heap holds (`OwnFrames`),
  block after block (`OwnList`); what was returned stands in it as it was
  returned (`Given`); the charge is the sum over used blocks (`Charged`). One
  lemma says what each change does to the list: a block taken whole or split,
  a region appended or joined to the last block, free neighbours merged.
  `UserMemoryStaysSound`, `WindowHasOneImage` and `DescriptorsGoBack` are
  `MemorySound`, `OneImage` and `FdsOwned` of `User`. `UserInv` states the balance
  of frames as a sum (`Weight`: free ones, pages, tables), which each step of a
  load, of a mapping and of either roll-back keeps, also where it stops half way;
  that pages in the window are the image's or `mmap`'s (`PagesKnown`); and that
  one task lives there, under a number no other had (`OneOwner`), without which
  the descriptors of a dead task would be another's.
* `Session_proofs`. `OnlyOwnersGetIn` and `NeverWithoutAccount` are `OwnerOnly`
  and `NoDevLogin`. `SInv` says that the password kept for each account, in
  memory and in the file, is of the text that was typed for it or of a cut hash
  (which nobody types, by assumption), that `userdb_load` finds a prefix of what
  was written, and which fields each onboarding screen may rely on.
  `ReportedAccountsKept` is `AccountsKept`, with formatted volumes, unread files
  and cut migrations among the steps. `KeptInv` says that every account in the
  table and in the file is as it was typed (`AccountInv`), that each directory's
  size covers the accounts reported saved unless the save that replaces plain
  lines is half done (`SizeInv`), and how far a save is (`PlaceInv`).
  `WindowsAgree`, `OneInputAtATime` and `ReaderSeesPointer` are `WindowsSound`,
  `InputHeld` and `SeesPointer`. `DesktopInv` says of the event ring that its last
  event has the newest position (`Newest`), that a reader's copy is the first
  event but for a move merged into it since (`Copy`), and that while the left
  button is up every press in the ring is followed by a release, and a drag by
  one still to be read (`LeftOrder`); that is what a handler leaves for a later
  one to find, and `InputHeld`, which speaks of the empty ring, does not say it.
  What the handlers do to the windows is proved of the record they pass on
  (`UiOK`), one lemma for each: a slot opened, closed, raised, recycled.
  `SceneAlwaysShown` and `PointerAlwaysTrue` are `SceneSound` and `PointerTrue` of
  `Screen`. One step there is a chain of paints and copies, with the pointer
  taken off and put on in between, so `ScreenOK` is shown to hold of every picture
  on the way: the pointer is whole (`Whole`) and alone (`Lone`), what is under it
  is saved unless the back buffer restores it (`UnderSaved`), and outside the
  damage each pixel is the scene's (`Fresh`). A present first shows a wider set
  of pixels as pending and each copy takes its own from it (`FreshOn`). The two
  boxes of a move are staged together only if they fit, and lie apart if they do
  not, which is where the size of the staging rows counts.
  `PixelsAreRight` is `PixelsRight` of `Raster`, where a loop is a recursive
  function and what it comes to is proved by its least counterexample: after each
  bit pair `isqrt_u32` holds the root's digits so far and the rest; the
  accumulator of `fb_blit_rgb_cover` and the division agree step by step (`Unclamped`
  adds that neither leaves the picture); a sum of bytes lies between so many
  times its least and its greatest, and is the same from the other end; a running
  total only grows, so text ends where it was measured. The strips of a rounded
  box meet in every pixel once, and inside them the distance is past the edge by
  more than half a pixel, which is why they may be filled without one. Screen,
  font, boxes and pictures are of any size; rows to blur and texts are the
  probes' (up to four pixels, up to three glyphs), although the lemmas about them
  (`BlurBetween`, `BlurMirrors`, `TextFits`, `TextClips`) are not bounded. All of it is
  over whole numbers: that products stay in 32 bits is not part of it.
* `Storage_proofs`. `ReportsStayTrue` and `OnlyUnreadableWiped` are `DataIsTrue`
  and `OnlyUnreadableIsWiped`. `StorageInv` says what the driver is at
  (`Errand`, `Stages`) and, until a command is given up, what the one DMA buffer
  holds at each stage (`Handover`, `Progressed`) and what each disk's cache
  still owes (`Remembered`).
* `Network_proofs`. `RingsStaySound` is `RingsSound`; `NicImplementsLink` the
  refinement of `Link`, step by step. `NicInv` says that the slots that wait are
  an arc of the ring, from the side that empties it to the side that fills it;
  the queue of `Link` is that arc read in order, so filling a slot appends and
  emptying one takes the head. `DatagramsGoWhereSent` and `AnswersMatchRequests`
  are `ReachesNextHop` and `RepliesMatch` of `Net`. `NetInv` says what each
  `arp_resolve` on the C stack waits for: the next hop of what its caller holds
  back (`Resolving`). A wait ends well only when the one entry is for its own
  address, and an entry has that address's MAC (`Remembered`). All but the
  outermost wait were started by a frame (`Nested`).
* `Setup_proofs`. `SettingsOutliveRestarts` is `SettingsKept` of `Prefs`. A
  load takes its state from the file, so `PInv` adds that complete files hold
  only values that the setters accept, but for the language, which has no such
  check. `NetworkTableIsTrue` and `VerdictStaysTrue` are `NetworkTable` and
  `VerdictIsTrue` of `Wifi`. One lemma says what hearing a network again does
  to a true table; a scan's table is true by the first frame after which it
  would not be. `WifiInv` adds what may be under way while the guest waits for
  an answer: if nothing was when it asked, the question or its answer alone
  (`Asked`). `UsbStaysSound` is `UsbSound` of `Usb`: while the controller has
  never been left at work (`Attached`), it is at
  the first descriptor not yet done of the transfer that is linked; `Registered`
  and `Known` say who may answer an address, and what the device at the port and
  the driver know when so much of a request is through.

Only model-checked: liveness (`EveryReadyTaskRuns`, `LastKeyIsRead`, `CallsEnd`,
`RequestsEnd`, `FramesLeave`), which the prover does not do.

## 7. Plan

Models to come: the framebuffer layers, allocated at every log-in and never
freed (`drivers/fb.c:1352`), together with what a session does without them; the
page-table walk of `mm/vmm64.c` by level.

## 8. Not modelled, and why

* What only draws: glyphs, icons, colours and gamma, window contents, the mode
  setting of `drivers/fb.c`. `Screen` has when pixels move, `Raster` the
  arithmetic that decides which.
* Boot and CPU tables (`boot`, `arch`): straight-line set-up, once, in a fixed
  order. The frozen i386 kernel is not linked into the system.
* Port input and output of the simple drivers (serial, clock, power, PCI): no
  state that other parts depend on. Register sequences of resets and of the
  Wi-Fi radio: each is one step that works or fails.
* String and UTF-8 routines, the parsing of packets, and `parse_config` of
  `ehci.c`: no state.
* The commands of the shell and of the desktop's terminal: they print, or call
  parts that are modelled. Pipes (`proc/ipc.c`) are reached by the boot
  self-test only, from one task.
* Hardware that answers wrongly, as opposed to late, not at all, or with an
  error, throughout.
* One processor: `smp.c` finds the others and does not start them, and
  `spin_lock` turns interrupts off, which the models take as atomicity.
