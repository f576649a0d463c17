---------------------------- MODULE Storage_proofs ----------------------------
(***************************************************************************)
(* DataIsTrue and OnlyUnreadableIsWiped for any number of disks.  Neither  *)
(* is inductive: a read is true because the command block, the shared      *)
(* buffer and the flag the poll looks at belong to the one request in      *)
(* progress (Handover), which a command given up breaks (late); and the    *)
(* disk the mount remembers to format was looked at by a read that was     *)
(* true or that failed (Remembered).                                       *)
(***************************************************************************)
EXTENDS Storage, TLAPS

Scanning == fs.at \in {"sb", "dir"}
Formatting == fs.at \in {"fsb", "fdir", "rsb", "rdir"}

(* The disk the mount, or the file system on it, is speaking to. *)
Target == table[IF Formatting THEN fs.blank ELSE fs.i]

(* A request exists while a step of the mount or of the file system waits  *)
(* for it; a scan only reads.                                              *)
Errand ==
  /\ Scanning \/ fs.at = "up" => fs.i \in 1 .. Len(table)
  /\ Formatting => fs.blank \in 1 .. Len(table)
  /\ fs.at \in {"off", "none"} => io.st = "idle"
  /\ io.st # "idle" => io.d = Target /\ io.op # "none"
  /\ io.st # "idle" /\ Scanning => io.op = "read" /\ io.s = fs.at
  /\ io.st = "idle" => io.d = None

(* Where a request of each kind can be. *)
Stages ==
  /\ io.st = "wait" => Sata
  /\ io.st = "flush" => io.op = "write"
  /\ io.st = "copy" => Sata /\ io.op = "read"

Active(d) == io.d = d /\ kind[d] = "sata" /\ io.st \in {"wait", "flush"}
Answered(d) == Active(d) /\ ~port[d].ci /\ ~port[d].err

(* Unless a command was given up, a disk works only for the request in     *)
(* progress, and has the command of its current stage.                     *)
Handover ==
  \A d \in Disks :
    /\ port[d].ci /\ ~port[d].err => Active(d)
    /\ port[d].got # NoOp => port[d].ci /\ ~port[d].err /\ port[d].got = port[d].block
    /\ Active(d) => port[d].block = [op |-> IF io.st = "flush" THEN "flush" ELSE io.op,
                                     s |-> io.s]

(* What the buffer, the disk and its cache hold at each stage. *)
Progressed ==
  /\ io.st = "wait" /\ io.op = "write" =>
       IF Answered(io.d) THEN cache[io.d][io.s] = io.v
                         ELSE dma = io.v \/ port[io.d].err
  /\ io.st = "wait" /\ io.op = "read" /\ Answered(io.d) => dma = cache[io.d][io.s]
  /\ io.st = "copy" => dma = cache[io.d][io.s]
  /\ io.st = "flush" /\ Sata => cache[io.d][io.s] = io.v
  /\ io.st = "flush" /\ Sata /\ Answered(io.d) => media[io.d][io.s] = io.v

(* A disk remembered to be formatted holds no volume, or could not be read. *)
Remembered ==
  Scanning /\ fs.blank # 0 /\ cache[table[fs.blank]]["sb"] = "nosf"
    => table[fs.blank] \in unread

Faithful == Handover /\ Progressed /\ Remembered

StorageInv ==
  /\ DataIsTrue /\ OnlyUnreadableIsWiped
  /\ Errand /\ Stages
  /\ ~late => Faithful

-----------------------------------------------------------------------------
LEMMA InitStorageInv == Init => StorageInv
<1> SUFFICES ASSUME Init PROVE StorageInv
  OBVIOUS
<1>1. TypeOK
  <2>1. /\ media \in [Disks -> [Sectors -> Contents]] /\ cache = media
    BY DEF Init, Volume, Blank, Sectors, Contents
  <2>2. port \in [Disks -> PortStates]
    BY DEF Init, Quiet, Ops, PortStates
  <2>3. io \in Requests
    BY DEF Init, NoIo, Requests, Sectors, Contents
  <2>4. fs.i =< Len(table) /\ fs.blank =< Len(table) /\ table \in Seq(Disks)
    BY DEF Init
  <2> QED
    BY <2>1, <2>2, <2>3, <2>4 DEF Init, TypeOK, Contents
<1>2. ReadsAreTrue /\ WritesLast /\ OnlyUnreadableIsWiped /\ Errand /\ Stages
  BY DEF Init, NoIo, ReadsAreTrue, WritesLast, Ended, OnlyUnreadableIsWiped,
         Errand, Stages, Scanning, Formatting
<1>3. Faithful
  BY DEF Init, NoIo, Quiet, Faithful, Handover, Progressed, Remembered, Active,
         Scanning, Formatting
<1> QED
  BY <1>1, <1>2, <1>3 DEF StorageInv, DataIsTrue

(* A request, whatever it is about, is at a disk that was registered. *)
LEMMA TargetIsDisk ==
  ASSUME TypeOK, Errand, io.st # "idle"
  PROVE  io.d \in Disks /\ io.d # None /\ io.op \in {"read", "write"}
BY StorageAssumption DEF TypeOK, Requests, Errand, Target, Scanning, Formatting,
   Disks

(* The state of a port after issue, and after the disk has fetched, ended  *)
(* or failed a command.                                                    *)
LEMMA IssueTyped ==
  ASSUME port \in [Disks -> PortStates], NEW d, NEW cmd \in Ops, Issue(d, cmd)
  PROVE  port' \in [Disks -> PortStates]
<1>1. CASE d \in Disks
  <2>1. port[d] \in PortStates
    BY <1>1
  <2>2. [port[d] EXCEPT !.block = cmd, !.ci = TRUE] \in PortStates
    BY <2>1 DEF PortStates
  <2>3. port' = [port EXCEPT ![d] = [port[d] EXCEPT !.block = cmd, !.ci = TRUE]]
    BY <1>1 DEF Issue, PortStates
  <2> QED
    BY <1>1, <2>2, <2>3
<1>2. CASE d \notin Disks
  BY <1>2 DEF Issue
<1> QED
  BY <1>1, <1>2

LEMMA SataGoKeepsInv ==
  ASSUME StorageInv, SataGo
  PROVE  StorageInv'
<1>1. TypeOK /\ Errand /\ io.d \in Disks /\ io.d # None /\ io.op \in {"read", "write"}
  BY TargetIsDisk DEF StorageInv, DataIsTrue, SataGo
<1>2. TypeOK'
  <2>1. port' \in [Disks -> PortStates]
    <3>1. [op |-> io.op, s |-> io.s] \in Ops
      BY <1>1 DEF TypeOK, Requests, Ops
    <3>2. Issue(io.d, [op |-> io.op, s |-> io.s])
      BY DEF SataGo
    <3> QED
      BY <1>1, <3>1, <3>2, IssueTyped DEF TypeOK
  <2>2. io' \in Requests /\ dma' \in Contents
    BY <1>1 DEF SataGo, disk, history, TypeOK, Requests, Contents
  <2> QED
    BY <1>1, <2>1, <2>2 DEF SataGo, disk, history, TypeOK
<1>3. ReadsAreTrue' /\ WritesLast' /\ OnlyUnreadableIsWiped' /\ Errand' /\ Stages'
  BY <1>1 DEF SataGo, disk, history, StorageInv, TypeOK, Requests, PortStates,
     DataIsTrue, ReadsAreTrue, WritesLast,
     Ended, OnlyUnreadableIsWiped, Errand, Stages, Scanning, Formatting, Target, Sata, Finish
<1>4. ASSUME ~late' PROVE Faithful'
  <2>1. Handover'
    BY <1>1, <1>4 DEF SataGo, disk, history, StorageInv, TypeOK, PortStates,
       Requests, Faithful, Handover,
       Active, Ops, NoOp, Sata, Finish, Issue
  <2>2. Progressed'
    BY <1>1, <1>4 DEF SataGo, disk, history, StorageInv, TypeOK, PortStates,
       Requests, Stages, Faithful, Handover,
       Progressed, Answered, Active, Ops, NoOp, Sata, Finish, Issue
  <2>3. Remembered'
    BY <1>1, <1>4 DEF SataGo, disk, history, StorageInv, Faithful, Remembered,
       Scanning
  <2> QED
    BY <2>1, <2>2, <2>3 DEF Faithful
<1> QED
  BY <1>2, <1>3, <1>4 DEF StorageInv, DataIsTrue

LEMMA SataErrorKeepsInv ==
  ASSUME StorageInv, SataError
  PROVE  StorageInv'
<1>1. TypeOK /\ Errand /\ io.d \in Disks /\ io.d # None /\ io.op \in {"read", "write"}
  BY TargetIsDisk DEF StorageInv, DataIsTrue, SataError
<1>2. TypeOK'
  <2>1. io' \in Requests
    BY <1>1 DEF SataError, disk, history, TypeOK, Requests, Finish
  <2> QED
    BY <1>1, <2>1 DEF SataError, disk, history, TypeOK
<1>3. ReadsAreTrue' /\ WritesLast' /\ OnlyUnreadableIsWiped' /\ Errand' /\ Stages'
  BY <1>1 DEF SataError, disk, history, StorageInv, TypeOK, Requests,
     PortStates, DataIsTrue, ReadsAreTrue, WritesLast,
     Ended, OnlyUnreadableIsWiped, Errand, Stages, Scanning, Formatting, Target, Sata, Finish
<1>4. ASSUME ~late' PROVE Faithful'
  <2>1. Handover'
    BY <1>1, <1>4 DEF SataError, disk, history, StorageInv, TypeOK, PortStates,
       Requests, Faithful, Handover,
       Active, Ops, NoOp, Sata, Finish, Issue
  <2>2. Progressed'
    BY <1>1, <1>4 DEF SataError, disk, history, StorageInv, TypeOK, PortStates,
       Requests, Stages, Faithful, Handover,
       Progressed, Answered, Active, Ops, NoOp, Sata, Finish, Issue
  <2>3. Remembered'
    BY <1>1, <1>4 DEF SataError, disk, history, StorageInv, Faithful,
       Remembered, Scanning
  <2> QED
    BY <2>1, <2>2, <2>3 DEF Faithful
<1> QED
  BY <1>2, <1>3, <1>4 DEF StorageInv, DataIsTrue

LEMMA SataEndKeepsInv ==
  ASSUME StorageInv, SataEnd
  PROVE  StorageInv'
<1>1. TypeOK /\ Errand /\ io.d \in Disks /\ io.d # None /\ io.op \in {"read", "write"}
  BY TargetIsDisk DEF StorageInv, DataIsTrue, SataEnd
<1>2. TypeOK'
  <2>1. port' \in [Disks -> PortStates]
    <3>1. [op |-> "flush", s |-> io.s] \in Ops
      BY <1>1 DEF TypeOK, Requests, Ops
    <3>2. Issue(io.d, [op |-> "flush", s |-> io.s]) \/ UNCHANGED port
      BY DEF SataEnd
    <3> QED
      BY <1>1, <3>1, <3>2, IssueTyped DEF TypeOK
  <2>2. io' \in Requests
    BY <1>1 DEF SataEnd, disk, history, TypeOK, Requests, Finish
  <2> QED
    BY <1>1, <2>1, <2>2 DEF SataEnd, disk, history, TypeOK
<1> DEFINE Reply ==
      /\ io.st = "wait" /\ io.op = "read"
      /\ io' = [io EXCEPT !.st = "copy"] /\ UNCHANGED port
<1> DEFINE Flush ==
      /\ io.st = "wait" /\ io.op = "write"
      /\ Issue(io.d, [op |-> "flush", s |-> io.s])
      /\ io' = [io EXCEPT !.st = "flush"]
<1> DEFINE Flushed ==
      /\ io.st = "flush" /\ io.op = "write"
      /\ Finish(TRUE) /\ UNCHANGED port
<1>3. /\ Reply \/ Flush \/ Flushed
      /\ Active(io.d) /\ Answered(io.d) /\ kind[io.d] = "sata"
      /\ UNCHANGED <<disk, dma, table, fs, history>>
  BY <1>1 DEF SataEnd, StorageInv, Stages, Active, Answered, Sata
<1>4. OnlyUnreadableIsWiped' /\ Errand' /\ Stages'
  BY <1>1, <1>3 DEF disk, history, StorageInv, TypeOK, Requests,
     OnlyUnreadableIsWiped,
     Errand, Stages, Scanning, Formatting, Target, Sata, Finish, Active
<1>5. ReadsAreTrue' /\ WritesLast'
  BY <1>1, <1>3 DEF disk, history, StorageInv, TypeOK, Requests, ReadsAreTrue,
     WritesLast,
     Ended, Finish, Faithful, Progressed, Sata
<1>6. ASSUME ~late' PROVE Faithful'
  <2>0. TypeOK /\ Handover /\ Progressed /\ Remembered
    BY <1>3, <1>6 DEF StorageInv, DataIsTrue, Faithful, history
  <2>1. Handover'
    <3>1. CASE Reply
      BY <1>1, <1>3, <2>0, <3>1 DEF disk, Handover, Active, Answered, TypeOK,
         Requests, PortStates
    <3>2. CASE Flush
      BY <1>1, <1>3, <2>0, <3>2 DEF disk, Handover, Active, Answered, TypeOK,
         Requests, PortStates, Issue
    <3>3. CASE Flushed
      BY <1>1, <1>3, <2>0, <3>3 DEF disk, Handover, Active, Answered, TypeOK,
         Requests, PortStates, Finish
    <3> QED
      BY <1>3, <3>1, <3>2, <3>3
  <2>2. Progressed'
    <3>1. CASE Reply
      BY <1>1, <1>3, <2>0, <3>1 DEF disk, Progressed, Active, Answered, TypeOK,
         Requests
    <3>2. CASE Flush
      BY <1>1, <1>3, <2>0, <3>2 DEF disk, Progressed, Active, Answered, TypeOK,
         Requests, PortStates, Issue
    <3>3. CASE Flushed
      BY <1>1, <1>3, <2>0, <3>3 DEF disk, Progressed, Active, Answered, TypeOK,
         Requests, Finish
    <3> QED
      BY <1>3, <3>1, <3>2, <3>3
  <2>3. Remembered'
    BY <1>3, <2>0 DEF disk, history, Remembered, Scanning
  <2> QED
    BY <2>1, <2>2, <2>3 DEF Faithful
<1> QED
  BY <1>2, <1>4, <1>5, <1>6 DEF StorageInv, DataIsTrue

LEMMA SataCopyKeepsInv ==
  ASSUME StorageInv, SataCopy
  PROVE  StorageInv'
<1>1. TypeOK /\ Errand /\ io.d \in Disks /\ io.d # None /\ io.op \in {"read", "write"}
  BY TargetIsDisk DEF StorageInv, DataIsTrue, SataCopy
<1>2. TypeOK'
  <2>1. io' \in Requests
    BY <1>1 DEF SataCopy, disk, history, TypeOK, Requests, Finish
  <2> QED
    BY <1>1, <2>1 DEF SataCopy, disk, history, TypeOK
<1>3. ReadsAreTrue' /\ WritesLast' /\ OnlyUnreadableIsWiped' /\ Errand' /\ Stages'
  BY <1>1 DEF SataCopy, disk, history, StorageInv, TypeOK, Requests, PortStates,
     DataIsTrue, ReadsAreTrue, WritesLast,
     Ended, Faithful, Progressed, OnlyUnreadableIsWiped, Errand, Stages, Scanning, Formatting, Target, Sata, Finish
<1>4. ASSUME ~late' PROVE Faithful'
  <2>1. Handover'
    BY <1>1, <1>4 DEF SataCopy, disk, history, StorageInv, TypeOK, PortStates,
       Requests, Faithful, Handover,
       Active, Ops, NoOp, Sata, Finish, Issue
  <2>2. Progressed'
    BY <1>1, <1>4 DEF SataCopy, disk, history, StorageInv, TypeOK, PortStates,
       Requests, Stages, Faithful, Handover,
       Progressed, Answered, Active, Ops, NoOp, Sata, Finish, Issue
  <2>3. Remembered'
    BY <1>1, <1>4 DEF SataCopy, disk, history, StorageInv, Faithful, Remembered,
       Scanning
  <2> QED
    BY <2>1, <2>2, <2>3 DEF Faithful
<1> QED
  BY <1>2, <1>3, <1>4 DEF StorageInv, DataIsTrue

LEMMA SataTimeoutKeepsInv ==
  ASSUME StorageInv, SataTimeout
  PROVE  StorageInv'
<1>1. TypeOK /\ Errand /\ io.d \in Disks /\ io.d # None /\ io.op \in {"read", "write"}
  BY TargetIsDisk DEF StorageInv, DataIsTrue, SataTimeout
<1>2. TypeOK'
  <2>1. io' \in Requests
    BY <1>1 DEF SataTimeout, disk, TypeOK, Requests, Finish
  <2> QED
    BY <1>1, <2>1 DEF SataTimeout, disk, TypeOK
<1>3. ReadsAreTrue' /\ WritesLast' /\ OnlyUnreadableIsWiped' /\ Errand' /\ Stages'
  BY <1>1 DEF SataTimeout, disk, StorageInv, TypeOK, Requests, PortStates,
     DataIsTrue, ReadsAreTrue, WritesLast,
     Ended, OnlyUnreadableIsWiped, Errand, Stages, Scanning, Formatting, Target, Sata, Finish
<1>4. late'
  BY DEF SataTimeout
<1> QED
  BY <1>2, <1>3, <1>4 DEF StorageInv, DataIsTrue

(* A disk after a sector of it, or all of it, was written. *)
LEMMA SectorTyped ==
  ASSUME TypeOK, NEW d \in Disks, NEW sec \in Sectors, NEW v \in Contents
  PROVE  /\ [cache EXCEPT ![d][sec] = v] \in [Disks -> [Sectors -> Contents]]
         /\ [media EXCEPT ![d] = cache[d]] \in [Disks -> [Sectors -> Contents]]
<1>1. cache[d] \in [Sectors -> Contents] /\ [cache[d] EXCEPT ![sec] = v] \in [Sectors -> Contents]
  BY DEF TypeOK
<1> QED
  BY <1>1 DEF TypeOK

(* The state of a port after the disk has fetched, ended or failed a command. *)
LEMMA PortTyped ==
  ASSUME port \in [Disks -> PortStates], NEW d \in Disks
  PROVE  /\ [port EXCEPT ![d].got = port[d].block] \in [Disks -> PortStates]
         /\ [port EXCEPT ![d].got = NoOp, ![d].ci = FALSE] \in [Disks -> PortStates]
         /\ [port EXCEPT ![d].got = NoOp, ![d].err = TRUE] \in [Disks -> PortStates]
         /\ [port EXCEPT ![d] = Quiet] \in [Disks -> PortStates]
<1>1. port[d] \in PortStates /\ NoOp \in Ops
  BY DEF Ops
<1>2. /\ [port[d] EXCEPT !.got = port[d].block] \in PortStates
      /\ [port[d] EXCEPT !.got = NoOp, !.ci = FALSE] \in PortStates
      /\ [port[d] EXCEPT !.got = NoOp, !.err = TRUE] \in PortStates
      /\ Quiet \in PortStates
  BY <1>1 DEF PortStates, Quiet
<1> QED
  BY <1>1, <1>2 DEF PortStates

LEMMA FetchKeepsInv ==
  ASSUME StorageInv, NEW d \in Disks, Fetch(d)
  PROVE  StorageInv'
<1>1. TypeOK /\ Errand
  BY DEF StorageInv, DataIsTrue
<1>2. TypeOK'
  BY <1>1, PortTyped DEF Fetch, disk, history, TypeOK
<1>3. ReadsAreTrue' /\ WritesLast' /\ OnlyUnreadableIsWiped' /\ Errand' /\ Stages'
  BY <1>1 DEF Fetch, disk, history, StorageInv, DataIsTrue, ReadsAreTrue,
     WritesLast,
     Ended, OnlyUnreadableIsWiped, Errand, Stages, Scanning, Formatting, Target, Sata
<1>4. ASSUME ~late' PROVE Faithful'
  <2>0. TypeOK /\ Errand /\ Stages /\ Handover /\ Progressed /\ Remembered
    BY <1>1, <1>4 DEF Fetch, StorageInv, DataIsTrue, Faithful, history
  <2>1. Handover'
    BY <2>0 DEF Fetch, disk, TypeOK, PortStates, Handover, Active
  <2>2. Progressed'
    BY <2>0 DEF Fetch, disk, TypeOK, PortStates, Progressed, Answered, Active,
       Sata
  <2>3. Remembered'
    BY <2>0 DEF Fetch, disk, history, Remembered, Scanning
  <2> QED
    BY <2>1, <2>2, <2>3 DEF Faithful
<1> QED
  BY <1>2, <1>3, <1>4 DEF StorageInv, DataIsTrue

LEMMA FailKeepsInv ==
  ASSUME StorageInv, NEW d \in Disks, Fail(d)
  PROVE  StorageInv'
<1>1. TypeOK /\ Errand
  BY DEF StorageInv, DataIsTrue
<1>2. TypeOK'
  BY <1>1, PortTyped DEF Fail, disk, history, TypeOK
<1>3. ReadsAreTrue' /\ WritesLast' /\ OnlyUnreadableIsWiped' /\ Errand' /\ Stages'
  BY <1>1 DEF Fail, disk, history, StorageInv, DataIsTrue, ReadsAreTrue,
     WritesLast,
     Ended, OnlyUnreadableIsWiped, Errand, Stages, Scanning, Formatting, Target, Sata
<1>4. ASSUME ~late' PROVE Faithful'
  <2>0. TypeOK /\ Errand /\ Stages /\ Handover /\ Progressed /\ Remembered
    BY <1>1, <1>4 DEF Fail, StorageInv, DataIsTrue, Faithful, history
  <2>1. Handover'
    BY <2>0 DEF Fail, disk, TypeOK, PortStates, Handover, Active
  <2>2. Progressed'
    BY <2>0 DEF Fail, disk, TypeOK, PortStates, Handover, Progressed, Answered,
       Active, Sata
  <2>3. Remembered'
    BY <2>0 DEF Fail, disk, history, Remembered, Scanning
  <2> QED
    BY <2>1, <2>2, <2>3 DEF Faithful
<1> QED
  BY <1>2, <1>3, <1>4 DEF StorageInv, DataIsTrue

LEMMA CompleteKeepsInv ==
  ASSUME StorageInv, NEW d \in Disks, Complete(d)
  PROVE  StorageInv'
<1>1. TypeOK /\ Errand /\ port[d].got \in Ops \ {NoOp}
  BY DEF Complete, StorageInv, DataIsTrue, TypeOK, PortStates
<1> DEFINE cmd == port[d].got
<1>2. TypeOK'
  <2>1. cmd.op \in {"read", "write", "flush"} /\ cmd.s \in Sectors
    BY <1>1 DEF Ops, NoOp
  <2>2. cache' \in [Disks -> [Sectors -> Contents]] /\ media' \in [Disks -> [Sectors -> Contents]]
    BY <1>1, <2>1, SectorTyped DEF Complete, TypeOK
  <2>3. port' \in [Disks -> PortStates]
    BY <1>1, PortTyped DEF Complete, TypeOK
  <2>4. dma' \in Contents
    BY <1>1, <2>1 DEF Complete, TypeOK
  <2> QED
    BY <1>1, <2>2, <2>3, <2>4 DEF Complete, history, TypeOK
<1>3. OnlyUnreadableIsWiped' /\ Errand' /\ Stages'
  BY <1>1 DEF Complete, disk, history, StorageInv, OnlyUnreadableIsWiped,
     Errand, Stages,
     Scanning, Formatting, Target, Sata
<1>4. ASSUME ~late' PROVE Faithful' /\ ReadsAreTrue' /\ WritesLast'
  <2>0. TypeOK /\ Errand /\ Stages /\ Handover /\ Progressed /\ Remembered
    BY <1>1, <1>4 DEF Complete, StorageInv, DataIsTrue, Faithful, history
  <2>a. /\ Active(d) /\ port[d].ci /\ ~port[d].err
        /\ cmd = [op |-> IF io.st = "flush" THEN "flush" ELSE io.op, s |-> io.s]
    BY <2>0 DEF Complete, Handover
  <2>b. ReadsAreTrue' /\ WritesLast'
    BY <2>a DEF Complete, Active, ReadsAreTrue, WritesLast, Ended
  <2>1. Handover'
    BY <2>0 DEF Complete, disk, TypeOK, PortStates, Handover, Active
  <2>2. Progressed'
    BY <2>0, <2>a DEF Complete, disk, TypeOK, PortStates, Requests, Stages,
       Progressed, Answered, Active, Sata
  <2>3. Remembered'
    <3>1. CASE cmd.op = "write"
      BY <2>0, <2>a, <3>1 DEF Complete, Active, Errand, Remembered, Scanning
    <3>2. CASE cmd.op # "write"
      BY <2>0, <3>2 DEF Complete, history, Remembered, Scanning
    <3> QED
      BY <3>1, <3>2
  <2> QED
    BY <2>b, <2>1, <2>2, <2>3 DEF Faithful
<1>5. late' => ReadsAreTrue' /\ WritesLast'
  BY DEF ReadsAreTrue, WritesLast
<1> QED
  BY <1>2, <1>3, <1>4, <1>5 DEF StorageInv, DataIsTrue

LEMMA IdeReadKeepsInv ==
  ASSUME StorageInv, IdeRead
  PROVE  StorageInv'
<1>1. TypeOK /\ Errand /\ io.d \in Disks /\ io.d # None /\ io.op \in {"read", "write"}
  BY TargetIsDisk DEF StorageInv, DataIsTrue, IdeRead
<1>2. TypeOK'
  <2>1. cache[io.d][io.s] \in Contents
    BY <1>1 DEF TypeOK, Requests
  <2>2. io' \in Requests
    BY <1>1, <2>1 DEF IdeRead, TypeOK, Requests, Finish
  <2> QED
    BY <1>1, <2>2 DEF IdeRead, disk, history, TypeOK
<1>3. ReadsAreTrue' /\ WritesLast' /\ OnlyUnreadableIsWiped' /\ Errand' /\ Stages'
  BY <1>1 DEF IdeRead, disk, history, StorageInv, TypeOK, Requests,
     ReadsAreTrue, WritesLast,
     Ended, OnlyUnreadableIsWiped, Errand, Stages, Scanning, Formatting, Target, Sata, Finish
<1>4. ASSUME ~late' PROVE Faithful'
  <2>0. TypeOK /\ Errand /\ Stages /\ Handover /\ Progressed /\ Remembered
    BY <1>1, <1>4 DEF IdeRead, StorageInv, DataIsTrue, Faithful, history
  <2>1. Handover'
    BY <1>1, <2>0 DEF IdeRead, disk, TypeOK, Requests, Handover, Active, Ide,
       Finish
  <2>2. Progressed'
    BY <1>1, <2>0 DEF IdeRead, disk, TypeOK, Requests, Stages, Handover,
       Progressed, Answered, Active, Sata, Ide, Finish
  <2>3. Remembered'
    BY <1>1, <2>0 DEF IdeRead, disk, history, Errand, Remembered, Scanning, Finish
  <2> QED
    BY <2>1, <2>2, <2>3 DEF Faithful
<1> QED
  BY <1>2, <1>3, <1>4 DEF StorageInv, DataIsTrue

LEMMA IdeWriteKeepsInv ==
  ASSUME StorageInv, IdeWrite
  PROVE  StorageInv'
<1>1. TypeOK /\ Errand /\ io.d \in Disks /\ io.d # None /\ io.op \in {"read", "write"}
  BY TargetIsDisk DEF StorageInv, DataIsTrue, IdeWrite
<1>2. TypeOK'
  <2>1. [cache EXCEPT ![io.d][io.s] = io.v] \in [Disks -> [Sectors -> Contents]]
    BY <1>1, SectorTyped DEF TypeOK, Requests
  <2>2. io' \in Requests
    BY <1>1 DEF IdeWrite, TypeOK, Requests, Finish
  <2> QED
    BY <1>1, <2>1, <2>2 DEF IdeWrite, history, TypeOK
<1>3. ReadsAreTrue' /\ WritesLast' /\ OnlyUnreadableIsWiped' /\ Errand' /\ Stages'
  BY <1>1 DEF IdeWrite, history, StorageInv, TypeOK, Requests, ReadsAreTrue,
     WritesLast,
     Ended, OnlyUnreadableIsWiped, Errand, Stages, Scanning, Formatting, Target, Sata, Ide, Finish
<1>4. ASSUME ~late' PROVE Faithful'
  <2>0. TypeOK /\ Errand /\ Stages /\ Handover /\ Progressed /\ Remembered
    BY <1>1, <1>4 DEF IdeWrite, StorageInv, DataIsTrue, Faithful, history
  <2>1. Handover'
    BY <1>1, <2>0 DEF IdeWrite, disk, TypeOK, Requests, Handover, Active, Ide,
       Finish
  <2>2. Progressed'
    BY <1>1, <2>0 DEF IdeWrite, disk, TypeOK, Requests, Stages, Handover,
       Progressed, Answered, Active, Sata, Ide, Finish
  <2>3. Remembered'
    BY <1>1, <2>0 DEF IdeWrite, disk, history, Errand, Remembered, Scanning,
       Finish
  <2> QED
    BY <2>1, <2>2, <2>3 DEF Faithful
<1> QED
  BY <1>2, <1>3, <1>4 DEF StorageInv, DataIsTrue

LEMMA IdeFlushKeepsInv ==
  ASSUME StorageInv, IdeFlush
  PROVE  StorageInv'
<1>1. TypeOK /\ Errand /\ io.d \in Disks /\ io.d # None /\ io.op \in {"read", "write"}
  BY TargetIsDisk DEF StorageInv, DataIsTrue, IdeFlush
<1>2. TypeOK'
  <2>1. [media EXCEPT ![io.d] = cache[io.d]] \in [Disks -> [Sectors -> Contents]]
    BY <1>1 DEF TypeOK
  <2>2. \E ok \in BOOLEAN : io' = [io EXCEPT !.st = "done", !.ok = ok]
    BY DEF IdeFlush, Finish
  <2>3. io' \in Requests
    BY <1>1, <2>2 DEF TypeOK, Requests
  <2> QED
    BY <1>1, <2>1, <2>3 DEF IdeFlush, history, TypeOK
<1>3. ReadsAreTrue' /\ WritesLast' /\ OnlyUnreadableIsWiped' /\ Errand' /\ Stages'
  BY <1>1 DEF IdeFlush, history, StorageInv, TypeOK, Requests, ReadsAreTrue,
     WritesLast,
     Ended, OnlyUnreadableIsWiped, Errand, Stages, Scanning, Formatting, Target, Sata, Ide, Finish
<1>4. ASSUME ~late' PROVE Faithful'
  <2>0. TypeOK /\ Errand /\ Stages /\ Handover /\ Progressed /\ Remembered
    BY <1>1, <1>4 DEF IdeFlush, StorageInv, DataIsTrue, Faithful, history
  <2>1. Handover'
    BY <1>1, <2>0 DEF IdeFlush, disk, TypeOK, Requests, Handover, Active, Ide,
       Finish
  <2>2. Progressed'
    BY <1>1, <2>0 DEF IdeFlush, disk, TypeOK, Requests, Stages, Handover,
       Progressed, Answered, Active, Sata, Ide, Finish
  <2>3. Remembered'
    BY <1>1, <2>0 DEF IdeFlush, disk, history, Errand, Remembered, Scanning,
       Finish
  <2> QED
    BY <2>1, <2>2, <2>3 DEF Faithful
<1> QED
  BY <1>2, <1>3, <1>4 DEF StorageInv, DataIsTrue

LEMMA ProbeIdeKeepsInv ==
  ASSUME StorageInv, NEW d \in Disks, ProbeIde(d)
  PROVE  StorageInv'
<1>1. TypeOK /\ Errand /\ io.st = "idle" /\ io.d = None
  BY DEF ProbeIde, StorageInv, DataIsTrue, Errand
<1>2. TypeOK'
  BY <1>1 DEF ProbeIde, disk, history, Register, TypeOK
<1>3. ReadsAreTrue' /\ WritesLast' /\ OnlyUnreadableIsWiped' /\ Errand' /\ Stages'
  BY <1>1 DEF ProbeIde, disk, history, StorageInv, ReadsAreTrue, WritesLast,
     Ended,
     OnlyUnreadableIsWiped, Errand, Stages, Scanning, Formatting
<1>4. ASSUME ~late' PROVE Faithful'
  <2>0. TypeOK /\ Errand /\ Stages /\ Handover /\ Progressed /\ Remembered
    BY <1>1, <1>4 DEF ProbeIde, StorageInv, DataIsTrue, Faithful, history
  <2>1. Handover'
    BY <1>1, <2>0, StorageAssumption DEF ProbeIde, disk, TypeOK, PortStates,
       Handover, Active, Quiet, StartPort, Disks
  <2>2. Progressed'
    BY <1>1, <2>0 DEF ProbeIde, disk, Progressed
  <2>3. Remembered'
    BY <1>1, <2>0 DEF ProbeIde, disk, history, Remembered, Scanning
  <2> QED
    BY <2>1, <2>2, <2>3 DEF Faithful
<1> QED
  BY <1>2, <1>3, <1>4 DEF StorageInv, DataIsTrue

LEMMA ProbeSataKeepsInv ==
  ASSUME StorageInv, NEW d \in Disks, ProbeSata(d)
  PROVE  StorageInv'
<1>1. TypeOK /\ Errand /\ io.st = "idle" /\ io.d = None
  BY DEF ProbeSata, StorageInv, DataIsTrue, Errand
<1>2. TypeOK'
  <2>1. port' \in [Disks -> PortStates]
    BY <1>1, PortTyped DEF ProbeSata, StartPort, TypeOK
  <2> QED
    BY <1>1, <2>1 DEF ProbeSata, disk, history, Register, TypeOK
<1>3. ReadsAreTrue' /\ WritesLast' /\ OnlyUnreadableIsWiped' /\ Errand' /\ Stages'
  BY <1>1 DEF ProbeSata, disk, history, StorageInv, ReadsAreTrue, WritesLast,
     Ended,
     OnlyUnreadableIsWiped, Errand, Stages, Scanning, Formatting
<1>4. ASSUME ~late' PROVE Faithful'
  <2>0. TypeOK /\ Errand /\ Stages /\ Handover /\ Progressed /\ Remembered
    BY <1>1, <1>4 DEF ProbeSata, StorageInv, DataIsTrue, Faithful, history
  <2>1. Handover'
    BY <1>1, <2>0, StorageAssumption DEF ProbeSata, disk, TypeOK, PortStates,
       Handover, Active, Quiet, StartPort, Disks
  <2>2. Progressed'
    BY <1>1, <2>0 DEF ProbeSata, disk, Progressed
  <2>3. Remembered'
    BY <1>1, <2>0 DEF ProbeSata, disk, history, Remembered, Scanning
  <2> QED
    BY <2>1, <2>2, <2>3 DEF Faithful
<1> QED
  BY <1>2, <1>3, <1>4 DEF StorageInv, DataIsTrue

LEMMA BeginMountKeepsInv ==
  ASSUME StorageInv, BeginMount
  PROVE  StorageInv'
<1>1. TypeOK /\ Errand /\ io.st = "idle" /\ io.d = None
  BY DEF BeginMount, StorageInv, DataIsTrue, Errand
<1>2. TypeOK'
  BY <1>1 DEF BeginMount, disk, history, TypeOK
<1>3. ReadsAreTrue' /\ WritesLast' /\ OnlyUnreadableIsWiped' /\ Errand' /\ Stages'
  BY <1>1 DEF BeginMount, disk, history, StorageInv, TypeOK, ReadsAreTrue,
     WritesLast, Ended,
     OnlyUnreadableIsWiped, Errand, Stages, Scanning, Formatting
<1>4. ASSUME ~late' PROVE Faithful'
  <2>0. TypeOK /\ Errand /\ Stages /\ Handover /\ Progressed /\ Remembered
    BY <1>1, <1>4 DEF BeginMount, StorageInv, DataIsTrue, Faithful, history
  <2>1. Handover'
    BY <2>0 DEF BeginMount, disk, Handover, Active
  <2>2. Progressed'
    BY <1>1, <2>0 DEF BeginMount, disk, Progressed
  <2>3. Remembered'
    BY DEF BeginMount, Remembered, Scanning
  <2> QED
    BY <2>1, <2>2, <2>3 DEF Faithful
<1> QED
  BY <1>2, <1>3, <1>4 DEF StorageInv, DataIsTrue

LEMMA MountIoKeepsInv ==
  ASSUME StorageInv, MountIo
  PROVE  StorageInv'
<1>1. TypeOK /\ Errand
  BY DEF StorageInv, DataIsTrue
<1>2. TypeOK'
  <2>1. table[IF Scanning THEN fs.i ELSE fs.blank] \in Disks
    BY <1>1 DEF MountIo, TypeOK, Errand, Scanning, Formatting
  <2>2. Wanted \in [op: {"read", "write"}, s: Sectors, v: Contents]
    BY <1>1 DEF MountIo, Wanted, TypeOK, Sectors, Contents
  <2>3. io' \in Requests
    BY <2>1, <2>2 DEF MountIo, Start, Requests, Scanning
  <2> QED
    BY <1>1, <2>3 DEF MountIo, disk, history, TypeOK
<1>3. ReadsAreTrue' /\ WritesLast' /\ OnlyUnreadableIsWiped' /\ Errand' /\ Stages'
  BY <1>1, <1>2 DEF MountIo, disk, history, StorageInv, TypeOK, Requests,
     ReadsAreTrue, WritesLast, Ended,
     OnlyUnreadableIsWiped, Errand, Stages, Scanning, Formatting, Target, Start, Wanted
<1>4. ASSUME ~late' PROVE Faithful'
  <2>0. TypeOK /\ Errand /\ Stages /\ Handover /\ Progressed /\ Remembered
    BY <1>1, <1>4 DEF MountIo, StorageInv, DataIsTrue, Faithful, history
  <2>1. Handover'
    BY <1>1, <2>0 DEF MountIo, disk, TypeOK, Requests, Handover, Active, Start,
       Wanted
  <2>2. Progressed'
    BY <1>1, <2>0 DEF MountIo, disk, TypeOK, Requests, Progressed, Start, Wanted
  <2>3. Remembered'
    BY <1>1, <2>0 DEF MountIo, disk, history, Remembered, Scanning
  <2> QED
    BY <2>1, <2>2, <2>3 DEF Faithful
<1> QED
  BY <1>2, <1>3, <1>4 DEF StorageInv, DataIsTrue

LEMMA UseKeepsInv ==
  ASSUME StorageInv, Use
  PROVE  StorageInv'
<1>1. TypeOK /\ Errand
  BY DEF StorageInv, DataIsTrue
<1>2. TypeOK'
  <2>1. table[fs.i] \in Disks
    BY <1>1 DEF Use, TypeOK, Errand
  <2>2. ASSUME NEW masked \in BOOLEAN,
               Start(table[fs.i], [op |-> "read", s |-> "x", v |-> "zero"], masked)
        PROVE  TypeOK'
    BY <1>1, <2>1, <2>2 DEF Use, Start, Requests, Sectors, Contents, disk,
       history, TypeOK
  <2>3. ASSUME NEW masked \in BOOLEAN, NEW v \in Values,
               Start(table[fs.i], [op |-> "write", s |-> "x", v |-> v], masked)
        PROVE  TypeOK'
    BY <1>1, <2>1, <2>3 DEF Use, Start, Requests, Sectors, Contents, disk,
       history, TypeOK
  <2> QED
    BY <2>2, <2>3 DEF Use
<1>3. ReadsAreTrue' /\ WritesLast' /\ OnlyUnreadableIsWiped' /\ Errand' /\ Stages'
  BY <1>1, <1>2 DEF Use, disk, history, StorageInv, TypeOK, Requests,
     ReadsAreTrue, WritesLast, Ended,
     OnlyUnreadableIsWiped, Errand, Stages, Scanning, Formatting, Target, Start
<1>4. ASSUME ~late' PROVE Faithful'
  <2>0. TypeOK /\ Errand /\ Stages /\ Handover /\ Progressed /\ Remembered
    BY <1>1, <1>4 DEF Use, StorageInv, DataIsTrue, Faithful, history
  <2>1. Handover'
    BY <1>1, <2>0 DEF Use, disk, TypeOK, Requests, Handover, Active, Start
  <2>2. Progressed'
    BY <1>1, <2>0 DEF Use, disk, TypeOK, Requests, Progressed, Start
  <2>3. Remembered'
    BY <1>1, <2>0 DEF Use, disk, history, Remembered, Scanning
  <2> QED
    BY <2>1, <2>2, <2>3 DEF Faithful
<1> QED
  BY <1>2, <1>3, <1>4 DEF StorageInv, DataIsTrue

LEMMA UsedKeepsInv ==
  ASSUME StorageInv, Used
  PROVE  StorageInv'
<1>1. TypeOK /\ Errand
  BY DEF StorageInv, DataIsTrue
<1>2. TypeOK'
  <2>1. io' \in Requests
    BY DEF Used, NoIo, Requests, Sectors, Contents
  <2> QED
    BY <1>1, <2>1 DEF Used, disk, history, TypeOK
<1>3. ReadsAreTrue' /\ WritesLast' /\ OnlyUnreadableIsWiped' /\ Errand' /\ Stages'
  BY <1>1, <1>2 DEF Used, disk, history, StorageInv, TypeOK, Requests,
     ReadsAreTrue, WritesLast, Ended,
     OnlyUnreadableIsWiped, Errand, Stages, Scanning, Formatting, Target, NoIo
<1>4. ASSUME ~late' PROVE Faithful'
  <2>0. TypeOK /\ Errand /\ Stages /\ Handover /\ Progressed /\ Remembered
    BY <1>1, <1>4 DEF Used, StorageInv, DataIsTrue, Faithful, history
  <2>1. Handover'
    BY <1>1, <2>0 DEF Used, disk, TypeOK, Requests, Handover, Active, NoIo
  <2>2. Progressed'
    BY <1>1, <2>0 DEF Used, disk, TypeOK, Requests, Progressed, NoIo
  <2>3. Remembered'
    BY <1>1, <2>0 DEF Used, disk, history, Remembered, Scanning
  <2> QED
    BY <2>1, <2>2, <2>3 DEF Faithful
<1> QED
  BY <1>2, <1>3, <1>4 DEF StorageInv, DataIsTrue

LEMMA FormatKeepsInv ==
  ASSUME StorageInv, Format
  PROVE  StorageInv'
<1>1. TypeOK /\ Errand
  BY DEF StorageInv, DataIsTrue
<1>2. TypeOK'
  <2>1. io' \in Requests
    BY DEF Format, NoIo, Requests, Sectors, Contents
  <2> QED
    BY <1>1, <2>1 DEF Format, disk, history, TypeOK
<1>3. ReadsAreTrue' /\ WritesLast' /\ OnlyUnreadableIsWiped' /\ Errand' /\ Stages'
  BY <1>1, <1>2 DEF Format, disk, history, StorageInv, TypeOK, Requests,
     ReadsAreTrue, WritesLast, Ended,
     OnlyUnreadableIsWiped, Errand, Stages, Scanning, Formatting, Target, NoIo
<1>4. ASSUME ~late' PROVE Faithful'
  <2>0. TypeOK /\ Errand /\ Stages /\ Handover /\ Progressed /\ Remembered
    BY <1>1, <1>4 DEF Format, StorageInv, DataIsTrue, Faithful, history
  <2>1. Handover'
    BY <1>1, <2>0 DEF Format, disk, TypeOK, Requests, Handover, Active, NoIo
  <2>2. Progressed'
    BY <1>1, <2>0 DEF Format, disk, TypeOK, Requests, Progressed, NoIo
  <2>3. Remembered'
    BY <1>1, <2>0 DEF Format, disk, history, Remembered, Scanning
  <2> QED
    BY <2>1, <2>2, <2>3 DEF Faithful
<1> QED
  BY <1>2, <1>3, <1>4 DEF StorageInv, DataIsTrue

LEMMA PowerLossKeepsInv ==
  ASSUME StorageInv, PowerLoss
  PROVE  StorageInv'
<1>1. TypeOK /\ Errand
  BY DEF StorageInv, DataIsTrue
<1>2. TypeOK'
  <2>1. io' \in Requests
    BY DEF PowerLoss, NoIo, Requests, Sectors, Contents
  <2>2. port' \in [Disks -> PortStates]
    BY DEF PowerLoss, Quiet, Ops, PortStates
  <2>3. /\ table' \in Seq(Disks) /\ fs'.i =< Len(table') /\ fs'.blank =< Len(table')
        /\ fs' \in [at: {"off"}, i: Nat, blank: Nat]
    BY DEF PowerLoss
  <2> QED
    BY <1>1, <2>1, <2>2, <2>3 DEF PowerLoss, TypeOK, Contents
<1>3. ReadsAreTrue' /\ WritesLast' /\ OnlyUnreadableIsWiped' /\ Errand' /\ Stages'
  BY DEF PowerLoss, NoIo, ReadsAreTrue, WritesLast, Ended, OnlyUnreadableIsWiped,
     Errand, Stages, Scanning, Formatting
<1>4. Faithful'
  BY DEF PowerLoss, NoIo, Quiet, Faithful, Handover, Progressed, Remembered,
     Active, Scanning
<1> QED
  BY <1>2, <1>3, <1>4 DEF StorageInv, DataIsTrue

LEMMA ScanKeepsInv ==
  ASSUME StorageInv, Scan
  PROVE  StorageInv'
<1>1. TypeOK /\ Errand
  BY DEF StorageInv, DataIsTrue
<1>2. TypeOK'
  <2>1. io' \in Requests
    BY DEF Scan, NoIo, Requests, Sectors, Contents
  <2>2. io.d \in Disks
    BY <1>1, TargetIsDisk DEF Scan
  <2>3. /\ fs' \in [at: {"off", "sb", "dir", "fsb", "fdir", "rsb", "rdir", "up", "none"},
                    i: Nat, blank: Nat]
        /\ fs'.i =< Len(table) /\ fs'.blank =< Len(table)
    BY <1>1 DEF Scan, NextDisk, TypeOK
  <2>4. wiped' \subseteq Disks
    <3>1. table[IF fs.blank = 0 THEN fs.i ELSE fs.blank] \in Disks
      BY <1>1 DEF Scan, TypeOK, Errand, Scanning
    <3> QED
      BY <1>1, <3>1 DEF Scan, NextDisk, TypeOK
  <2> QED
    BY <1>1, <2>1, <2>2, <2>3, <2>4 DEF Scan, disk, TypeOK
<1> DEFINE blank == IF fs.blank = 0 THEN fs.i ELSE fs.blank
<1>3. ReadsAreTrue' /\ WritesLast' /\ Errand' /\ Stages'
  BY <1>1 DEF Scan, NextDisk, NoIo, TypeOK, ReadsAreTrue, WritesLast, Ended,
     Errand, Stages, Scanning, Formatting
(* The heart: the disk of this turn was read truly, or not at all. *)
<1>a. ASSUME ~late, ~Good, cache[table[blank]]["sb"] = "nosf"
      PROVE  table[blank] \in unread'
  <2>1. io.d = table[fs.i] /\ io.op = "read"
    BY <1>1 DEF Scan, Errand, Target, Scanning, Formatting
  <2>2. CASE fs.blank = 0
    <3>1. CASE io.ok
      BY <1>a, <2>1, <2>2, <3>1 DEF Scan, Good, StorageInv, DataIsTrue,
         ReadsAreTrue, Ended
    <3>2. CASE ~io.ok
      BY <2>1, <2>2, <3>2 DEF Scan
    <3> QED
      BY <3>1, <3>2
  <2>3. CASE fs.blank # 0
    BY <1>a, <2>3 DEF Scan, StorageInv, Faithful, Remembered, Scanning
  <2> QED
    BY <2>2, <2>3
<1>b. OnlyUnreadableIsWiped'
  BY <1>a DEF Scan, NextDisk, StorageInv, OnlyUnreadableIsWiped
<1>4. ASSUME ~late' PROVE Faithful'
  <2>0. TypeOK /\ Errand /\ Stages /\ Handover /\ Progressed /\ Remembered
    BY <1>1, <1>4 DEF Scan, StorageInv, DataIsTrue, Faithful, history
  <2>1. Handover'
    BY <1>1, <2>0 DEF Scan, disk, Handover, Active, NoIo
  <2>2. Progressed'
    BY <1>1, <2>0 DEF Scan, disk, Progressed, NoIo
  <2>3. Remembered'
    <3>1. CASE Good
      BY <1>1, <2>0, <3>1 DEF Scan, disk, TypeOK, Remembered, Scanning
    <3>2. CASE ~Good
      BY <1>a, <1>1, <1>4, <2>0, <3>2 DEF Scan, NextDisk, disk, TypeOK,
         Remembered, Scanning
    <3> QED
      BY <3>1, <3>2
  <2> QED
    BY <2>1, <2>2, <2>3 DEF Faithful
<1> QED
  BY <1>2, <1>3, <1>4, <1>b DEF StorageInv, DataIsTrue

LEMMA StorageInvHolds == Spec => []StorageInv
<1>1. StorageInv /\ [Next]_vars => StorageInv'
  <2> SUFFICES ASSUME StorageInv, [Next]_vars PROVE StorageInv'
    OBVIOUS
  <2>1. CASE Driver
    BY <2>1, SataGoKeepsInv, SataErrorKeepsInv, SataEndKeepsInv, SataCopyKeepsInv,
       SataTimeoutKeepsInv, IdeReadKeepsInv, IdeWriteKeepsInv, IdeFlushKeepsInv DEF Driver
  <2>2. CASE Kernel
    BY <2>2, ProbeIdeKeepsInv, ProbeSataKeepsInv, BeginMountKeepsInv,
       MountIoKeepsInv,
       ScanKeepsInv, FormatKeepsInv, UseKeepsInv, UsedKeepsInv DEF Kernel
  <2>3. CASE Device
    BY <2>3, FetchKeepsInv, CompleteKeepsInv, FailKeepsInv DEF Device
  <2>4. CASE PowerLoss
    BY <2>4, PowerLossKeepsInv
  <2>5. CASE UNCHANGED vars
    BY <2>5 DEF vars, StorageInv, DataIsTrue, TypeOK, ReadsAreTrue, WritesLast,
       Ended,
       OnlyUnreadableIsWiped, Errand, Stages, Faithful, Handover, Progressed, Remembered,
       Active, Answered, Scanning, Formatting, Target, Sata
  <2> QED
    BY <2>1, <2>2, <2>3, <2>4, <2>5 DEF Next
<1> QED
  BY <1>1, InitStorageInv, PTL DEF Spec

-----------------------------------------------------------------------------
(* What a request reported stays true, whatever the number of disks, which *)
(* drivers they have and when the power fails: a sector read is what the   *)
(* disk holds, a sector written to a SATA disk outlives a power loss, as   *)
(* long as no SATA command was given up (ahci_rw, issue, ata_pio1).        *)
THEOREM ReportsStayTrue == Spec => []DataIsTrue
BY StorageInvHolds, PTL DEF StorageInv

(* As long as no SATA command was given up, nosfs_disk_mount formats over  *)
(* a volume only when a sector of that disk could not be read.             *)
THEOREM OnlyUnreadableWiped == Spec => []OnlyUnreadableIsWiped
BY StorageInvHolds, PTL DEF StorageInv
=============================================================================
