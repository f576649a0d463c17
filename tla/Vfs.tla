-------------------------------- MODULE Vfs --------------------------------
(***************************************************************************)
(* fs/vfs.c: one table of open files for the kernel (pid 0) and every      *)
(* task, over two file systems: the NOSF volume, which can be written, and *)
(* the initrd of fs/nosfs.c, which a name on the volume hides.  A          *)
(* descriptor keeps the size the file had when it was opened.              *)
(*                                                                         *)
(* A content is a value with a size in read units; one read call moves one *)
(* unit.  nosfs_disk_put is what FileStore says: all, or nothing, or after *)
(* an I/O error anything in that one file.  The operators describe one     *)
(* call each; User.tla makes the calls.                                    *)
(***************************************************************************)
EXTENDS Naturals, FiniteSets

CONSTANTS Names,      \* file names name_ok accepts
          Contents,   \* what a file can hold
          Size(_),    \* its size, in units
          Initrd,     \* [Names -> Contents \cup {Missing}]
          Missing,    \* no such file
          VFS_MAX_FD

ASSUME VfsAssumption ==
    /\ VFS_MAX_FD \in Nat
    /\ Missing \notin Contents
    /\ Initrd \in [Names -> Contents \cup {Missing}]
    /\ \A c \in Contents : Size(c) \in Nat

VARIABLES
    disk,   \* the NOSF volume
    fds     \* s_fds; 0 and 1 are the console's and never given out

Fds == 2..VFS_MAX_FD - 1
Closed == [used |-> FALSE]

VfsTypeOK(pids) ==
    /\ disk \in [Names -> Contents \cup {Missing}]
    /\ fds \in [Fds -> {Closed} \cup [used: {TRUE}, src: {"ram", "disk"}, owner: pids,
                                      size: {Size(c) : c \in Contents}, pos: Nat,
                                      name: Names]]
    /\ \A fd \in Fds : fds[fd].used => fds[fd].pos <= fds[fd].size

VfsInit ==
    /\ disk \in [Names -> {Missing} \cup Contents]
    /\ fds = [fd \in Fds |-> Closed]

-----------------------------------------------------------------------------
(* The file a name stands for: the volume first, then the initrd. *)
Lookup(n) == IF disk[n] # Missing THEN disk[n] ELSE Initrd[n]

(* vfs_owned: the kernel may use any descriptor. *)
Owned(pid, fd) == fds[fd].used /\ (pid = 0 \/ fds[fd].owner = pid)

FreeFd == {fd \in Fds : ~fds[fd].used}
CanOpen(n) == Lookup(n) # Missing /\ FreeFd # {}

VfsOpen(pid, n) ==
    /\ CanOpen(n)
    /\ LET fd == CHOOSE f \in FreeFd : \A g \in FreeFd : f <= g
       IN fds' = [fds EXCEPT ![fd] =
             [used |-> TRUE, src |-> IF disk[n] # Missing THEN "disk" ELSE "ram",
              owner |-> pid, size |-> Size(Lookup(n)), pos |-> 0, name |-> n]]
    /\ UNCHANGED disk

(* Units a read of this descriptor gives: none past the size it knows, and *)
(* on the volume none past the end the file has now; a file that is gone   *)
(* is an error.                                                            *)
Readable(fd) ==
    LET f == fds[fd]
    IN /\ f.pos < f.size
       /\ f.src = "disk" => disk[f.name] # Missing /\ f.pos < Size(disk[f.name])

VfsRead(pid, fd) ==
    /\ Owned(pid, fd) /\ Readable(fd)
    /\ fds' = [fds EXCEPT ![fd].pos = @ + 1]
    /\ UNCHANGED disk

(* vfs_write: only at position 0, and then the whole file. *)
VfsWrite(pid, fd, c) ==
    /\ Owned(pid, fd) /\ fds[fd].pos = 0
    /\ \/ /\ disk' = [disk EXCEPT ![fds[fd].name] = c]
          /\ fds' = [fds EXCEPT ![fd].src = "disk", ![fd].size = Size(c),
                                ![fd].pos = Size(c)]
       \/ \E any \in Contents \cup {Missing} :
             /\ disk' = [disk EXCEPT ![fds[fd].name] = any]
             /\ UNCHANGED fds

VfsClose(pid, fd) ==
    /\ Owned(pid, fd)
    /\ fds' = [fds EXCEPT ![fd] = Closed]
    /\ UNCHANGED disk

\* mutant: descriptors of a task that dies stay open.
TaskClosed_Keep(pid) == fds

(* vfs_close_task: the kernel's own descriptors are not touched. *)
TaskClosed(pid) ==
    [fd \in Fds |-> IF pid # 0 /\ fds[fd].used /\ fds[fd].owner = pid
                    THEN Closed ELSE fds[fd]]
=============================================================================
