------------------------------ MODULE FileStore ------------------------------
(***************************************************************************)
(* What the NOSF volume promises the layers above it (vfs.c, persist.c,    *)
(* userdb.c): a map from file names to contents, changed by one call at a  *)
(* time, at the instant that call returns, and only at the name it was     *)
(* given.  A put that succeeds replaces the whole file; one that is        *)
(* refused changes nothing, except that an empty file may lose its         *)
(* directory entry when the volume is full; one that meets an I/O error    *)
(* may leave its own file with any contents.                               *)
(***************************************************************************)
CONSTANTS
  Names,     \* file names
  Contents,  \* the contents a caller can ask to be stored
  Empty,     \* the contents of a file of length 0
  Missing,   \* no such file
  NoName

VARIABLES
  files,     \* name -> what a reader of that file is given
  busy       \* the file of the put in progress, or NoName

Init ==
  /\ files = [n \in Names |-> Missing]
  /\ busy = NoName

Begin(n) ==
  /\ busy = NoName
  /\ busy' = n
  /\ UNCHANGED files

(* The call returned 0. *)
Succeed(c) ==
  /\ busy # NoName
  /\ files' = [files EXCEPT ![busy] = c]
  /\ busy' = NoName

(* The call returned -1 before it wrote anything. *)
Refuse(n) ==
  /\ busy = NoName
  /\ files[n] = Empty
  /\ files' = [files EXCEPT ![n] = Missing]
  /\ UNCHANGED busy

(* The call returned -1 after an I/O error. *)
Fail ==
  /\ busy # NoName
  /\ DOMAIN files' = Names
  /\ \A m \in Names \ {busy} : files'[m] = files[m]
  /\ busy' = NoName

Next ==
  \/ \E n \in Names : Begin(n) \/ Refuse(n)
  \/ \E c \in Contents : Succeed(c)
  \/ Fail

Spec == Init /\ [][Next]_<<files, busy>>
=============================================================================
