------------------------------ MODULE Accounts ------------------------------
(***************************************************************************)
(* fs/userdb.c: the user accounts, in memory and in the file users.db of   *)
(* the disk file system.  The file fits one sector, so a put writes one    *)
(* data sector, then the directory, then the superblock; power may fail    *)
(* between any two, and any of them may fail.  The other files of the      *)
(* volume matter in one way: to put one of them writes the whole directory,*)
(* with it the size of users.db that memory holds.                         *)
(*                                                                         *)
(* A password is a text; its FNV-1a hash is the pair of the slug and the   *)
(* text it is computed from (collisions are left out).  A slug is a        *)
(* sequence: the letters of the name as one element, then the digits that  *)
(* uniquify_slug appends.                                                  *)
(***************************************************************************)
EXTENDS Integers, Sequences

CONSTANTS
  Names, Passes,      \* what may be typed in the two fields
  SlugOf,             \* make_slug: names to slugs
  SlugMax,            \* USERDB_SLUG_MAX, in elements
  MaxUsers,           \* USERDB_MAX
  NameW, PlainW, HashW,  \* bytes of a line of users.db, its newline included
  Legacy,             \* plain-text accounts an older system may have left
  Cut,                \* what is left of a hash that the end of the file cuts
  NoText,
  MaxFaults, MaxBadReads, MaxBoots    \* bounds: failed puts and reads, power-ons

ASSUME AccountsAssumption ==
  /\ DOMAIN SlugOf = Names
  /\ \A n \in Names : Len(SlugOf[n]) \in 1 .. SlugMax
  /\ SlugMax \in Nat \ {0} /\ MaxUsers \in Nat \ {0}
  /\ NameW \in Nat \ {0, 1} /\ PlainW \in Nat \ {0, 1} /\ HashW \in Nat \ {0, 1}
  /\ \A l \in Legacy : l \in Seq([name : Names, text : Passes]) /\ Len(l) <= MaxUsers
  /\ Cut \notin Passes /\ NoText \notin Passes /\ NoText \notin Names /\ Cut # NoText
  /\ MaxFaults \in Nat /\ MaxBadReads \in Nat /\ MaxBoots \in Nat

VARIABLES
  file,       \* the data sector of users.db: accounts, hashed or plain
  diskSize,   \* its size in the directory on disk
  ramSize,    \* ... in the directory in memory
  ready,      \* nosfs_disk_ready()
  users,      \* s_users[0 .. s_count - 1]
  cur,        \* s_cur
  job,        \* where the code is: see Jobs
  faults, badReads, boots,
  \* History.
  given,      \* name and password of each account of users, as they were typed
  ledger,     \* the same for the accounts of file
  acked,      \* how many accounts of the ledger save_db has reported saved
  blind,      \* users.db could not be read at this power-on
  half,       \* the accounts are hashed, their size that of the plain ones
  forgotten   \* accounts reported saved are gone: see Forget

store == <<file, diskSize, ledger>>
ram == <<ramSize, ready, users, cur, given, blind>>
bounds == <<faults, badReads, boots>>
reported == <<acked, half, forgotten>>
vars == <<file, diskSize, ramSize, ready, users, cur, job, faults, badReads,
          boots, given, ledger, acked, blind, half, forgotten>>

\* "off": no power; "idle": accounts loaded, no call in progress; the others
\* are the steps of userdb_add ("home": create_home, before save_db) and of
\* the put of users.db.
Jobs == {"off", "idle", "home", "data", "dir", "sb"}

-----------------------------------------------------------------------------
(* Passwords, slugs, the text of the file *)

Plain(text) == [salt |-> <<>>, text |-> text]
Hash(slug, text) == [salt |-> slug, text |-> text]      \* pass_store

Smallest(S) == CHOOSE k \in S : \A j \in S : k <= j

\* The slug that uniquify_slug tries k-th; a slug without room stays as it is.
Attempt(slug, k) ==
  IF k = 0 \/ Len(slug) >= SlugMax THEN slug ELSE Append(slug, (k - 1) % 10)

Uniquified(slug) ==
  LET taken == {users[i].slug : i \in 1 .. Len(users)}
      free == {k \in 0 .. 19 : Attempt(slug, k) \notin taken}
  IN  Attempt(slug, IF free = {} THEN 20 ELSE Smallest(free))

User(name, slug, pass) == [name |-> name, slug |-> slug, pass |-> pass]

Saved_OneShort(us) ==                            \* mutant: the count not raised yet
  [hashed |-> TRUE,
   accounts |-> [i \in 1 .. Len(us) - 1 |-> [name |-> us[i].name, pass |-> us[i].pass]]]

\* save_db: names and stored passwords; the slug is not saved.
Saved(us) ==
  [hashed |-> TRUE,
   accounts |-> [i \in 1 .. Len(us) |-> [name |-> us[i].name, pass |-> us[i].pass]]]

Width(f) == NameW + (IF f.hashed THEN HashW ELSE PlainW)
Size(f) == Len(f.accounts) * Width(f)

\* How many accounts the first n bytes of f hold in full.
Complete(f, n) ==
  IF n >= Size(f) THEN Len(f.accounts) ELSE (n + 1) \div Width(f)

\* The accounts userdb_load finds there.  A password cut short is still one, of
\* a text nobody typed; a name alone is dropped.
Parsed(f, n) ==
  LET whole == Complete(f, n)
      rest == n - whole * Width(f)
      part == IF whole < Len(f.accounts) /\ rest > NameW
                THEN <<[name |-> f.accounts[whole + 1].name, pass |-> Plain(Cut)]>>
                ELSE <<>>
  IN  SubSeq(f.accounts, 1, whole) \o part

IsHash(pass) == pass.salt # <<>>                        \* pass_is_hash

\* The record userdb_load makes of an account of the file: the slug is derived
\* from the name again, a plain password is hashed with it.
Loaded(a) ==
  User(a.name, SlugOf[a.name],
       IF IsHash(a.pass) THEN a.pass ELSE Hash(SlugOf[a.name], a.pass.text))

-----------------------------------------------------------------------------
NoAccounts(hashed) == [hashed |-> hashed, accounts |-> <<>>]

Init ==
  /\ \E l \in Legacy \cup {<<>>} :
       /\ file = IF l = <<>> THEN NoAccounts(TRUE)
                 ELSE [hashed |-> FALSE,
                       accounts |-> [i \in 1 .. Len(l) |->
                          [name |-> l[i].name, pass |-> Plain(l[i].text)]]]
       /\ ledger = l /\ acked = Len(l)
  /\ diskSize = Size(file)
  /\ ramSize = 0 /\ ready = FALSE /\ users = <<>> /\ cur = 0 /\ job = "off"
  /\ given = <<>> /\ blind = FALSE
  /\ half = FALSE /\ forgotten = FALSE
  /\ faults = 0 /\ badReads = 0 /\ boots = 0

\* Of the accounts reported saved, the first n are left.
Forget(n) == acked' = n /\ forgotten' = (forgotten \/ n < acked)

(* userdb_load, on a volume that mounted.  The size of users.db is the one *)
(* in the directory on disk.  Plain passwords are hashed, and then the     *)
(* file is saved.  What a migration cut short makes of the accounts that   *)
(* the old size does not cover was never reported.                         *)
Load ==
  LET raw == Parsed(file, diskSize)
      whole == Complete(file, diskSize)
  IN  /\ users' = [i \in 1 .. Len(raw) |-> Loaded(raw[i])]
      /\ given' = [i \in 1 .. Len(raw) |->
           IF i <= whole THEN ledger[i] ELSE [name |-> ledger[i].name, text |-> Cut]]
      /\ job' = IF \E i \in 1 .. Len(raw) : ~IsHash(raw[i].pass) THEN "data" ELSE "idle"
      /\ half' = half
      /\ IF half /\ whole < acked THEN Forget(whole) ELSE Forget(acked)

\* No volume, no users.db, or a sector that could not be read: no accounts.
LoadNothing ==
  /\ users' = <<>> /\ given' = <<>> /\ job' = "idle"

Mounted ==
  /\ ready' = TRUE /\ blind' = FALSE /\ ramSize' = diskSize
  /\ Load
  /\ UNCHANGED <<store, badReads>>

\* The sector of users.db, or the whole disk, does not answer.
NotRead ==
  /\ ready' \in BOOLEAN /\ blind' = TRUE
  /\ ramSize' = IF ready' THEN diskSize ELSE 0
  /\ LoadNothing
  /\ UNCHANGED <<store, reported>>

\* The superblock or the directory does not: nosfs_disk_mount takes the disk
\* for a blank one and formats it.  The format, or the mount after it, may fail.
Formatted ==
  /\ ready' \in BOOLEAN /\ blind' = ~ready' /\ ramSize' = 0
  /\ file' = NoAccounts(TRUE) /\ diskSize' = 0 /\ ledger' = <<>>
  /\ LoadNothing
  /\ half' = FALSE /\ Forget(0)

PowerOn ==
  /\ job = "off" /\ boots < MaxBoots
  /\ boots' = boots + 1
  /\ cur' = 0
  /\ \/ Mounted
     \/ /\ badReads < MaxBadReads /\ badReads' = badReads + 1
        /\ NotRead \/ Formatted
  /\ UNCHANGED faults

-----------------------------------------------------------------------------
(* userdb_add *)

Add(name, text) ==
  /\ job = "idle"
  /\ name # NoText /\ text # NoText
  /\ Len(users) < MaxUsers
  /\ LET slug == Uniquified(SlugOf[name])
     IN  users' = Append(users, User(name, slug, Hash(slug, text)))
  /\ cur' = Len(users)
  /\ given' = Append(given, [name |-> name, text |-> text])
  /\ job' = "home"
  /\ UNCHANGED <<store, ramSize, ready, blind, bounds, reported>>

\* An empty field, or the table full: -1.
AddRefused(name, text) ==
  /\ job = "idle"
  /\ name = NoText \/ text = NoText \/ Len(users) >= MaxUsers
  /\ UNCHANGED vars

\* The directory on disk has the size that belongs to the accounts again.
SizeLands == half' = (half /\ diskSize' # Size(file))

(* create_home: two small files, whose results are ignored.  Each put that *)
(* gets as far as the directory writes the size of users.db held in memory.*)
CreateHome ==
  /\ job = "home"
  /\ IF ready
       THEN /\ diskSize' \in {diskSize, ramSize}
            /\ job' = "data"
       ELSE /\ job' = "idle"                  \* and save_db: no disk
            /\ UNCHANGED diskSize
  /\ SizeLands
  /\ UNCHANGED <<file, ledger, ram, bounds, acked, forgotten>>

-----------------------------------------------------------------------------
(* save_db: the put of users.db *)

\* No room for a new file.
SaveRefused ==
  /\ job = "data" /\ ramSize = 0
  /\ job' = "idle"
  /\ UNCHANGED <<store, ram, bounds, reported>>

\* The accounts of a file that could not be read are overwritten.
DataLands ==
  /\ file' = Saved(users)
  /\ ledger' = given
  /\ half' = (half \/ ~file.hashed)
  /\ blind' = FALSE
  /\ Forget(IF blind THEN 0 ELSE acked)

WriteData ==
  /\ job = "data"
  /\ DataLands
  /\ ramSize' = Size(file')
  /\ job' = "dir"
  /\ UNCHANGED <<diskSize, ready, users, cur, given, bounds>>

WriteDir ==
  /\ job = "dir"
  /\ diskSize' = ramSize /\ SizeLands
  /\ job' = "sb"
  /\ UNCHANGED <<file, ledger, ram, bounds, acked, forgotten>>

WriteSb ==
  /\ job = "sb"
  /\ acked' = Len(users)
  /\ job' = "idle"
  /\ UNCHANGED <<store, ram, bounds, half, forgotten>>

\* A sector fails, written or not: the put returns, what it changed stays.
PutFails ==
  /\ job \in {"data", "dir", "sb"}
  /\ faults < MaxFaults
  /\ faults' = faults + 1
  /\ \/ /\ job = "data" /\ DataLands
        /\ UNCHANGED diskSize
     \/ /\ job = "dir" /\ diskSize' = ramSize /\ SizeLands
        /\ UNCHANGED <<file, ledger, blind, acked, forgotten>>
     \/ UNCHANGED <<store, blind, reported>>
  /\ job' = "idle"
  /\ UNCHANGED <<ramSize, ready, users, cur, given, badReads, boots>>

PowerOff ==
  /\ job # "off"
  /\ job' = "off"
  /\ ramSize' = 0 /\ ready' = FALSE /\ users' = <<>> /\ cur' = 0
  /\ given' = <<>> /\ blind' = FALSE
  /\ UNCHANGED <<store, bounds, reported>>

-----------------------------------------------------------------------------
(* userdb_auth_current and userdb_auth.  After a load every password is a  *)
(* hash.  A name typed at the text login is a display name or a slug; the  *)
(* first account that fits both fields is signed in.                       *)

Opens(i, text) == Hash(users[i].slug, text) = users[i].pass

AuthCurrent(text) == users # <<>> /\ Opens(cur + 1, text)

Called(i, typed) == typed = <<users[i].name>> \/ typed = users[i].slug
Matches(typed, text) ==
  {i \in 1 .. Len(users) : Called(i, typed) /\ Opens(i, text)}

SelectNext == cur' = IF users = <<>> THEN cur ELSE (cur + 1) % Len(users)

Storing == CreateHome \/ SaveRefused \/ WriteData \/ WriteDir \/ WriteSb \/ PutFails

=============================================================================
