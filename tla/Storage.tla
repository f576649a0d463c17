------------------------------ MODULE Storage ------------------------------
(***************************************************************************)
(* Disks from the probe to a mounted volume: the drivers of SATA disks     *)
(* (drivers/ahci.c) and of IDE disks (drivers/ata.c), the table they       *)
(* register in (drivers/blk.c) and the choice of the volume                *)
(* (nosfs_disk_mount).  The processor runs one request at a time and polls *)
(* for its end; a SATA disk works on its own, with memory it shares with   *)
(* the processor, and may answer after the processor has given it up.      *)
(*                                                                         *)
(* Of a disk we keep three sectors: the superblock "sb" of the NOSF        *)
(* window, its directory "dir", and one sector "x" of data.  A disk writes *)
(* to its cache, which a flush makes permanent and a power loss drops.     *)
(***************************************************************************)
EXTENDS Naturals, Sequences

CONSTANTS NDisks,   \* number of disks, numbered in the order they are probed
          Values,   \* what may be written to the data sector
          None

ASSUME StorageAssumption == NDisks \in Nat /\ "zero" \notin Values /\ None \notin 1..NDisks

Disks == 1..NDisks

VARIABLES
    kind,     \* per disk: "sata" or "ide"
    media,    \* per disk: what survives a power loss
    cache,    \* per disk: what a read of the disk returns
    port,     \* per SATA disk: PX_CI, the command block in memory, the command
              \* the disk has fetched, and its error state
    dma,      \* s_dma: one sector of memory shared by all SATA ports
    io,       \* the request in progress; masked: with interrupts off
    table,    \* s_dev of blk.c: the registered disks, in order
    fs,       \* where nosfs_disk_mount is; blank; the mounted disk
    late,     \* history: a SATA command was given up since power-on
    unread,   \* history: disks with a sector that could not be read at mount
    wiped     \* history: the disk to format, if it holds a volume

vars == <<kind, media, cache, port, dma, io, table, fs, late, unread, wiped>>
disk == <<kind, media, cache>>
history == <<late, unread, wiped>>

Sectors == {"sb", "dir", "x"}
Contents == {"nosf", "files", "zero"} \cup Values

NoOp == [op |-> "none", s |-> "sb"]
Ops == {NoOp} \cup [op: {"read", "write", "flush"}, s: Sectors]

PortStates == [ci: BOOLEAN, block: Ops, got: Ops, err: BOOLEAN]
Requests == [st: {"idle", "go", "wait", "copy", "flush", "done"},
             op: {"none", "read", "write"}, d: Disks \cup {None},
             s: Sectors, v: Contents, ok: BOOLEAN, masked: BOOLEAN]

TypeOK ==
    /\ kind \in [Disks -> {"sata", "ide"}]
    /\ media \in [Disks -> [Sectors -> Contents]]
    /\ cache \in [Disks -> [Sectors -> Contents]]
    /\ port \in [Disks -> PortStates]
    /\ dma \in Contents /\ io \in Requests
    /\ table \in Seq(Disks)
    /\ fs \in [at: {"off", "sb", "dir", "fsb", "fdir", "rsb", "rdir", "up", "none"},
               i: Nat, blank: Nat]
    /\ fs.i =< Len(table) /\ fs.blank =< Len(table)
    /\ late \in BOOLEAN /\ unread \subseteq Disks /\ wiped \subseteq Disks

Quiet == [ci |-> FALSE, block |-> NoOp, got |-> NoOp, err |-> FALSE]
NoIo == [st |-> "idle", op |-> "none", d |-> None, s |-> "sb", v |-> "zero",
         ok |-> FALSE, masked |-> FALSE]

\* A volume with files, and a disk never used.
Volume == [sb |-> "nosf", dir |-> "files", x |-> "zero"]
Blank == [s \in Sectors |-> "zero"]

Init ==
    /\ kind \in [Disks -> {"sata", "ide"}]
    /\ media \in [Disks -> {Volume, Blank}]
    /\ cache = media
    /\ port = [d \in Disks |-> Quiet]
    /\ dma = "zero" /\ io = NoIo /\ table = <<>>
    /\ fs = [at |-> "off", i |-> 0, blank |-> 0]
    /\ late = FALSE /\ unread = {} /\ wiped = {}

-----------------------------------------------------------------------------
(* Probe: ata_init before ahci_init, each registers the disks that answer  *)

\* A port that starts has no command and no error left.
StartPort(d) == [port EXCEPT ![d] = Quiet]

\* blk_register; a driver looks at its disks once, in order.
Register(d) ==
    /\ \A k \in 1..Len(table) :
          \/ kind[table[k]] = "ide" /\ kind[d] = "sata"
          \/ kind[table[k]] = kind[d] /\ table[k] < d
    /\ table' = Append(table, d)

ProbeIde(d) ==
    /\ fs.at = "off" /\ kind[d] = "ide"
    /\ Register(d)
    /\ UNCHANGED <<disk, port, dma, io, fs, history>>

ProbeSata(d) ==
    /\ fs.at = "off" /\ kind[d] = "sata"
    /\ Register(d)
    /\ port' = StartPort(d)
    /\ UNCHANGED <<disk, dma, io, fs, history>>

\* Disks that did not answer IDENTIFY are left out; the scan begins.
BeginMount ==
    /\ fs.at = "off"
    /\ fs' = [at |-> IF table = <<>> THEN "none" ELSE "sb",
              i |-> IF table = <<>> THEN 0 ELSE 1, blank |-> 0]
    /\ UNCHANGED <<disk, port, dma, io, table, history>>

-----------------------------------------------------------------------------
(* One sector on a SATA disk: ahci_rw and issue                            *)

Sata == io.d # None /\ kind[io.d] = "sata"

\* issue writes the command block and sets PX_CI, whatever the port is doing.
Issue(d, cmd) == port' = [port EXCEPT ![d].block = cmd, ![d].ci = TRUE]

SataGo ==
    /\ Sata /\ io.st = "go"
    /\ Issue(io.d, [op |-> io.op, s |-> io.s])
    /\ dma' = IF io.op = "write" THEN io.v ELSE "zero"
    /\ io' = [io EXCEPT !.st = "wait"]
    /\ UNCHANGED <<disk, table, fs, history>>

Finish(ok) == io' = [io EXCEPT !.st = "done", !.ok = ok]

\* The poll finds the error bits set, in this command or by an earlier one.
SataError ==
    /\ Sata /\ io.st \in {"wait", "flush"} /\ port[io.d].err
    /\ Finish(FALSE)
    /\ UNCHANGED <<disk, port, dma, table, fs, history>>

SataEnd_NoFlush ==             \* mutant: no flush after a write
    /\ Sata /\ io.st = "wait" /\ ~port[io.d].err /\ ~port[io.d].ci
    /\ io' = [io EXCEPT !.st = IF io.op = "read" THEN "copy" ELSE "done",
                        !.ok = TRUE]
    /\ UNCHANGED <<disk, port, dma, table, fs, history>>

\* The poll finds PX_CI clear: a read has its data, a write is flushed.
SataEnd ==
    /\ Sata /\ io.st \in {"wait", "flush"}
    /\ ~port[io.d].err /\ ~port[io.d].ci
    /\ \/ /\ io.st = "wait" /\ io.op = "read"
          /\ io' = [io EXCEPT !.st = "copy"] /\ UNCHANGED port
       \/ /\ io.st = "wait" /\ io.op = "write"
          /\ Issue(io.d, [op |-> "flush", s |-> io.s])
          /\ io' = [io EXCEPT !.st = "flush"]
       \/ /\ io.st = "flush"
          /\ Finish(TRUE) /\ UNCHANGED port
    /\ UNCHANGED <<disk, dma, table, fs, history>>

SataCopy ==
    /\ Sata /\ io.st = "copy"
    /\ io' = [io EXCEPT !.st = "done", !.ok = TRUE, !.v = dma]
    /\ UNCHANGED <<disk, port, dma, table, fs, history>>

SataTimeout_Fetched ==         \* mutant: the clock starts with the fetch
    /\ Sata /\ io.st \in {"wait", "flush"} /\ ~io.masked
    /\ port[io.d].ci /\ ~port[io.d].err /\ port[io.d].got # NoOp
    /\ Finish(FALSE)
    /\ late' = TRUE
    /\ UNCHANGED <<disk, port, dma, table, fs, unread, wiped>>

\* Two seconds without an end: the command stays where it is.  The seconds are
\* counted by the timer interrupt, so none pass while interrupts are off.
SataTimeout ==
    /\ Sata /\ io.st \in {"wait", "flush"} /\ ~io.masked
    /\ port[io.d].ci /\ ~port[io.d].err
    /\ Finish(FALSE)
    /\ late' = TRUE
    /\ UNCHANGED <<disk, port, dma, table, fs, unread, wiped>>

-----------------------------------------------------------------------------
(* The SATA disk (external): it fetches a command, then ends or fails it   *)

Fetch(d) ==
    /\ port[d].ci /\ port[d].got = NoOp /\ ~port[d].err
    /\ port' = [port EXCEPT ![d].got = port[d].block]
    /\ UNCHANGED <<disk, dma, io, table, fs, history>>

Complete(d) ==
    LET cmd == port[d].got IN
    /\ cmd # NoOp
    /\ port' = [port EXCEPT ![d].got = NoOp, ![d].ci = FALSE]
    /\ dma' = IF cmd.op = "read" THEN cache[d][cmd.s] ELSE dma
    /\ cache' = IF cmd.op = "write" THEN [cache EXCEPT ![d][cmd.s] = dma] ELSE cache
    /\ media' = IF cmd.op = "flush" THEN [media EXCEPT ![d] = cache[d]] ELSE media
    /\ UNCHANGED <<kind, io, table, fs, history>>

Fail(d) ==
    /\ port[d].got # NoOp
    /\ port' = [port EXCEPT ![d].got = NoOp, ![d].err = TRUE]
    /\ UNCHANGED <<disk, dma, io, table, fs, history>>

-----------------------------------------------------------------------------
(* One sector on an IDE disk: ata_pio1 and ata_flush                       *)

Ide == io.d # None /\ kind[io.d] = "ide"

\* The processor moves the data itself, and waits for the disk to be ready
\* before each command: what a command given up still does, it does before
\* the next one.  Its waits count the polls too, so they end without a clock.
IdeRead ==
    /\ Ide /\ io.st = "go" /\ io.op = "read"
    /\ \/ io' = [io EXCEPT !.st = "done", !.ok = TRUE, !.v = cache[io.d][io.s]]
       \/ Finish(FALSE)
    /\ UNCHANGED <<disk, port, dma, table, fs, history>>

IdeWrite ==
    /\ Ide /\ io.st = "go" /\ io.op = "write"
    /\ \/ /\ cache' = [cache EXCEPT ![io.d][io.s] = io.v]
          /\ \/ io' = [io EXCEPT !.st = "flush"]
             \/ Finish(FALSE)
       \/ Finish(FALSE) /\ UNCHANGED cache
    /\ UNCHANGED <<kind, media, port, dma, table, fs, history>>

\* A flush the disk refuses counts as done; one that never ends does not.
IdeFlush ==
    /\ Ide /\ io.st = "flush"
    /\ \/ media' = [media EXCEPT ![io.d] = cache[io.d]] /\ Finish(TRUE)
       \/ UNCHANGED media /\ \E ok \in BOOLEAN : Finish(ok)
    /\ UNCHANGED <<kind, cache, port, dma, table, fs, history>>

-----------------------------------------------------------------------------
(* nosfs_disk_mount                                                        *)

\* What the step of the mount asks of which disk.
Wanted ==
    CASE fs.at \in {"sb", "rsb"}   -> [op |-> "read",  s |-> "sb",  v |-> "zero"]
      [] fs.at \in {"dir", "rdir"} -> [op |-> "read",  s |-> "dir", v |-> "zero"]
      [] fs.at = "fsb"             -> [op |-> "write", s |-> "sb",  v |-> "nosf"]
      [] fs.at = "fdir"            -> [op |-> "write", s |-> "dir", v |-> "zero"]

Start(d, want, masked) ==
    io' = [st |-> "go", op |-> want.op, d |-> d, s |-> want.s, v |-> want.v,
           ok |-> FALSE, masked |-> masked]

MountIo ==
    /\ io.st = "idle" /\ fs.at \notin {"off", "up", "none"}
    /\ Start(table[IF fs.at \in {"sb", "dir"} THEN fs.i ELSE fs.blank], Wanted, FALSE)
    /\ UNCHANGED <<disk, port, dma, table, fs, history>>

Good_AnySector == io.ok /\ io.v = "nosf"   \* mutant: magic of each sector
Good == io.ok /\ (io.s = "sb" => io.v = "nosf")

\* The disk of this turn is no volume: it is remembered as the one to format
\* if it is the first, and the scan goes on, or ends with the format.
NextDisk ==
    LET blank == IF fs.blank = 0 THEN fs.i ELSE fs.blank IN
    IF fs.i < Len(table)
    THEN /\ fs' = [at |-> "sb", i |-> fs.i + 1, blank |-> blank]
         /\ UNCHANGED wiped
    ELSE /\ fs' = [at |-> "fsb", i |-> fs.i, blank |-> blank]
         /\ wiped' = { d \in {table[blank]} : cache[d]["sb"] = "nosf" }

Scan ==
    /\ io.st = "done" /\ fs.at \in {"sb", "dir"}
    /\ \/ Good /\ fs.at = "sb"  /\ fs' = [fs EXCEPT !.at = "dir"] /\ UNCHANGED wiped
       \/ Good /\ fs.at = "dir" /\ fs' = [fs EXCEPT !.at = "up"] /\ UNCHANGED wiped
       \/ ~Good /\ NextDisk
    /\ unread' = IF io.ok THEN unread ELSE unread \cup {io.d}
    /\ io' = NoIo
    /\ UNCHANGED <<disk, port, dma, table, late>>

\* format_vol and the load_meta after it.
Format ==
    /\ io.st = "done" /\ fs.at \in {"fsb", "fdir", "rsb", "rdir"}
    /\ fs' = IF ~Good THEN [fs EXCEPT !.at = "none"]
             ELSE IF fs.at = "rdir" THEN [fs EXCEPT !.at = "up", !.i = fs.blank]
             ELSE [fs EXCEPT !.at = CASE fs.at = "fsb" -> "fdir"
                                      [] fs.at = "fdir" -> "rsb"
                                      [] fs.at = "rsb" -> "rdir"]
    /\ io' = NoIo
    /\ UNCHANGED <<disk, port, dma, table, history>>

\* The file system on the mounted disk reads and writes one sector at a time,
\* for the kernel or, with interrupts off, for a program's system call.
Use ==
    /\ io.st = "idle" /\ fs.at = "up"
    /\ \E masked \in BOOLEAN :
          \/ Start(table[fs.i], [op |-> "read", s |-> "x", v |-> "zero"], masked)
          \/ \E v \in Values :
               Start(table[fs.i], [op |-> "write", s |-> "x", v |-> v], masked)
    /\ UNCHANGED <<disk, port, dma, table, fs, history>>

Used ==
    /\ io.st = "done" /\ fs.at = "up"
    /\ io' = NoIo
    /\ UNCHANGED <<disk, port, dma, table, fs, history>>

\* Power fails at any moment (external): the caches are lost.
PowerLoss ==
    /\ fs.at # "off"
    /\ cache' = media
    /\ port' = [d \in Disks |-> Quiet] /\ dma' = "zero" /\ io' = NoIo
    /\ table' = <<>> /\ fs' = [at |-> "off", i |-> 0, blank |-> 0]
    /\ late' = FALSE /\ unread' = {} /\ wiped' = {}
    /\ UNCHANGED <<kind, media>>

-----------------------------------------------------------------------------
Driver == \/ SataGo \/ SataError \/ SataEnd \/ SataCopy \/ SataTimeout
          \/ IdeRead \/ IdeWrite \/ IdeFlush
Kernel == \/ \E d \in Disks : ProbeIde(d) \/ ProbeSata(d)
          \/ BeginMount \/ MountIo \/ Scan \/ Format \/ Use \/ Used
Device == \E d \in Disks : Fetch(d) \/ Complete(d) \/ Fail(d)

Next == Driver \/ Kernel \/ Device \/ PowerLoss

\* The processor polls on, and with interrupts on its clock counts; a disk owes
\* nothing.
Spec == Init /\ [][Next]_vars /\ WF_vars(Driver)

-----------------------------------------------------------------------------
(* Properties                                                              *)

Ended(op) == io.st = "done" /\ io.ok /\ io.op = op

\* As long as no SATA command was given up since power-on, a read that
\* succeeds returns what the disk holds, through the buffer all ports share
\* (ahci_rw, ata_pio1).
ReadsAreTrue == Ended("read") /\ ~late => io.v = cache[io.d][io.s]

\* A write that succeeds on a SATA disk outlives a power loss from then on
\* (ahci_rw ends with a flush).
WritesLast ==
    Ended("write") /\ ~late /\ kind[io.d] = "sata" => media[io.d][io.s] = io.v

\* A volume is formatted over only when a sector of it could not be read
\* (nosfs_disk_mount looks at every disk before it formats one).
OnlyUnreadableIsWiped == ~late => wiped \subseteq unread

Over == io.st \in {"done", "idle"}

\* A SATA request with interrupts off.
Frozen == Sata /\ io.masked

\* Every request ends even if the disk never answers (issue, ata_timed_out), but
\* for a SATA request of a system call.  The clock of its timeout stands still:
\* it ends unless the disk leaves its command unanswered for good.
RequestsEnd ==
    /\ io.st # "idle" /\ ~Frozen ~> Over
    /\ io.st # "idle" ~> Over \/ [](Frozen /\ port[io.d].ci /\ ~port[io.d].err)

\* What ahci.c:310 is there for: a request ends after two seconds at most.
NoRequestHangs == io.st # "idle" ~> Over

\* What nosfs_disk.c:15 says: a disk is formatted only when no disk already
\* has a volume.
VolumesAreKept == wiped = {}

\* What a request reported stays true: a sector read is what the disk holds,
\* a sector written is there after a loss of power.
DataIsTrue == TypeOK /\ ReadsAreTrue /\ WritesLast
=============================================================================
