--------------------------- MODULE Session_proofs ---------------------------
(***************************************************************************)
(* The people's side of the system.  Nobody gets past a login without the  *)
(* password of the account shown, for every table, file, fault and loss of *)
(* power; the desktop's windows, drags and the mouse's ring agree with     *)
(* each other whatever arrives; and the glass shows the scene and one      *)
(* pointer, for every size of screen, pointer and staging buffer, with     *)
(* pixels computed without a gap, an overlap or a read past the edge.       *)
(***************************************************************************)
EXTENDS Session, Desktop, Screen, Raster,
        WellFoundedInduction, FiniteSetTheorems, TLAPS

(* Sequences of records whose set is of no interest. *)
IsSeq(s) == \E S : s \in Seq(S)

LEMMA AppendIsSeq ==
  ASSUME NEW s, IsSeq(s), NEW e
  PROVE  /\ IsSeq(Append(s, e))
         /\ Len(s) \in Nat
         /\ Len(Append(s, e)) = Len(s) + 1
         /\ \A i \in 1 .. Len(s) : Append(s, e)[i] = s[i]
         /\ Append(s, e)[Len(s) + 1] = e
<1>1. PICK S : s \in Seq(S)
  BY DEF IsSeq
<1>2. s \in Seq(S \cup {e}) /\ e \in S \cup {e}
  BY <1>1
<1>3. Append(s, e) \in Seq(S \cup {e})
  BY <1>2
<1> QED BY <1>2, <1>3 DEF IsSeq

LEMMA PrefixIsSeq ==
  ASSUME NEW s, IsSeq(s), NEW n \in 0 .. Len(s)
  PROVE  /\ IsSeq(SubSeq(s, 1, n))
         /\ Len(SubSeq(s, 1, n)) = n
         /\ \A i \in 1 .. n : SubSeq(s, 1, n)[i] = s[i]
<1>1. PICK S : s \in Seq(S)
  BY DEF IsSeq
<1>2. SubSeq(s, 1, n) \in Seq(S) /\ Len(SubSeq(s, 1, n)) = n
  BY <1>1
<1>3. ASSUME NEW i \in 1 .. n PROVE SubSeq(s, 1, n)[i] = s[i]
  BY <1>1
<1> QED BY <1>2, <1>3 DEF IsSeq

LEMMA EmptyIsSeq == IsSeq(<<>>) /\ Len(<<>>) = 0
<1>1. <<>> \in Seq({})
  OBVIOUS
<1> QED BY <1>1 DEF IsSeq

(* What userdb_load finds is a prefix of the file's accounts, the last of  *)
(* them with its password cut or not (userdb.c:270-307).                   *)
LEMMA DivBelow ==
  ASSUME NEW n \in Nat, NEW l \in Nat, NEW w \in Nat \ {0}, n < l * w
  PROVE  (n + 1) \div w \in 0 .. l
<1> DEFINE q == (n + 1) \div w
           r == (n + 1) % w
<1>1. q \in Nat /\ r \in 0 .. (w - 1) /\ n + 1 = w * q + r
  OBVIOUS
<1>2. ASSUME q > l PROVE FALSE
  <2> HIDE DEF q, r
  <2>1. PICK d \in Nat : q = l + 1 + d
    <3>1. q - l - 1 \in Nat /\ q = l + 1 + (q - l - 1)
      BY <1>1, <1>2
    <3> QED BY <3>1
  <2>2. w * q = w * l + w + w * d
    BY <2>1
  <2>3. w * d \in Nat /\ w * l = l * w
    BY <2>1
  <2> QED BY <1>1, <2>2, <2>3
<1> QED BY <1>1, <1>2


LEMMA SmallestInSet ==
  ASSUME NEW S \in SUBSET Nat, S # {}
  PROVE  Smallest(S) \in S
<1> DEFINE R == {pair \in Nat \X Nat : pair[1] < pair[2]}
<1>1. IsWellFoundedOn(R, Nat)
  <2>1. OpToRel(<, Nat) = R
    BY DEF OpToRel
  <2> QED BY <2>1, NatLessThanWellFounded
<1>2. PICK x \in S : \A y \in S : ~ (<<y, x>> \in R)
  <2> HIDE DEF R
  <2> QED BY <1>1, WFMin
<1>3. ASSUME NEW y \in S PROVE x <= y
  <2>1. x \in Nat /\ y \in Nat
    OBVIOUS
  <2>2. y < x => <<y, x>> \in R
    BY <2>1
  <2> QED BY <1>2, <2>1, <2>2
<1> QED BY <1>3 DEF Smallest

-----------------------------------------------------------------------------
(* The inductive invariant. *)

\* Each account's password is the hash of what was typed for it; for one whose
\* hash a cut file lost, of what was left.
Keeps(stored, text) ==
  /\ stored = [salt |-> stored.salt, text |-> stored.text]
  /\ stored.text = text /\ text \in Passes \cup {Cut}

TableInv ==
  /\ IsSeq(users) /\ IsSeq(given) /\ Len(users) = Len(given)
  /\ \A i \in 1 .. Len(users) : Keeps(users[i].pass, given[i].text)
  /\ cur \in Nat /\ (users # <<>> => cur < Len(users))

FileInv ==
  /\ file.hashed \in BOOLEAN /\ diskSize \in Nat /\ ramSize \in Nat
  /\ IsSeq(file.accounts) /\ IsSeq(ledger) /\ Len(file.accounts) = Len(ledger)
  /\ \A i \in 1 .. Len(ledger) : Keeps(file.accounts[i].pass, ledger[i].text)

\* The steps of onboarding that lie behind a guard, and what comes after them.
ScreenInv ==
  /\ job = "off" => screen = "off"
  /\ screen \in {"pass", "wifi", "check"} => fName # NoText
  /\ screen \in {"wifi", "check"} => fPass # NoText
  /\ screen \in {"another", "login", "desktop"} => users # <<>>
  /\ fName \in Names \cup {NoText} /\ fPass \in Passes \cup {NoText}
  /\ typed \in Passes \cup {NoText, DevPass}

SInv == TableInv /\ FileInv /\ ScreenInv

-----------------------------------------------------------------------------
(* The file *)

LEMMA WidthPositive ==
  ASSUME NEW f PROVE Width(f) \in Nat \ {0}
BY AccountsAssumption DEF Width

\* What the i-th account that userdb_load finds is known to be.
Entry(i) ==
  IF i <= Complete(file, diskSize) THEN ledger[i]
  ELSE [name |-> ledger[i].name, text |-> Cut]

LEMMA CompleteBelow ==
  ASSUME FileInv
  PROVE  /\ Complete(file, diskSize) \in 0 .. Len(ledger)
         /\ IsSeq(file.accounts) /\ Len(file.accounts) = Len(ledger)
         /\ Len(ledger) \in Nat
<1> DEFINE a == file.accounts
           w == Width(file)
<1>1. IsSeq(a) /\ Len(a) = Len(ledger) /\ Len(a) \in Nat
  <2>1. IsSeq(a) /\ Len(a) = Len(ledger)
    BY DEF FileInv
  <2> QED BY <2>1 DEF IsSeq
<1>2. w \in Nat \ {0} /\ diskSize \in Nat /\ Size(file) = Len(a) * w
  BY WidthPositive DEF FileInv, Size
<1>3. Size(file) \in Nat
  BY <1>1, <1>2
<1>4. CASE diskSize >= Size(file)
  BY <1>1, <1>4 DEF Complete
<1>5. CASE diskSize < Size(file)
  <2>1. (diskSize + 1) \div w \in 0 .. Len(a)
    <3> HIDE DEF w, a
    <3> QED BY <1>1, <1>2, <1>5, DivBelow
  <2>2. ~(diskSize >= Size(file))
    BY <1>2, <1>3, <1>5
  <2> QED BY <1>1, <2>1, <2>2 DEF Complete
<1> QED BY <1>1, <1>2, <1>3, <1>4, <1>5

LEMMA ParsedPrefix ==
  ASSUME FileInv
  PROVE  /\ IsSeq(Parsed(file, diskSize))
         /\ Len(Parsed(file, diskSize)) \in Complete(file, diskSize) .. Len(ledger)
         /\ \A i \in 1 .. Len(Parsed(file, diskSize)) :
              /\ Keeps(Parsed(file, diskSize)[i].pass, Entry(i).text)
              /\ Parsed(file, diskSize)[i].name = file.accounts[i].name
<1> DEFINE a == file.accounts
           w == Width(file)
           whole == Complete(file, diskSize)
           rest == diskSize - whole * w
           more == whole < Len(a) /\ rest > NameW
           last == [name |-> a[whole + 1].name, pass |-> Plain(Cut)]
           full == SubSeq(a, 1, whole)
<1>1. IsSeq(a) /\ Len(a) = Len(ledger) /\ Len(a) \in Nat
  BY CompleteBelow
<1>2. whole \in 0 .. Len(a)
  BY CompleteBelow
<1>3. Parsed(file, diskSize) = IF more THEN full \o <<last>> ELSE full \o <<>>
  BY DEF Parsed
<1>4. /\ IsSeq(full) /\ Len(full) = whole
      /\ \A i \in 1 .. whole : full[i] = a[i]
  <2> HIDE DEF whole, a
  <2> QED BY <1>1, <1>2, PrefixIsSeq
<1>5. \A i \in 1 .. whole : Keeps(full[i].pass, Entry(i).text) /\ full[i].name = a[i].name
  <2> TAKE i \in 1 .. whole
  <2>1. Entry(i) = ledger[i]
    BY <1>1, <1>2 DEF Entry
  <2> HIDE DEF whole, full
  <2> QED BY <1>1, <1>2, <1>4, <2>1 DEF FileInv
<1>6. PICK S : full \in Seq(S)
  <2> HIDE DEF full
  <2> QED BY <1>4 DEF IsSeq
<1>7. CASE more
  <2>0. Plain(Cut) = [salt |-> Plain(Cut).salt, text |-> Plain(Cut).text]
    BY DEF Plain
  <2>1. last.pass = Plain(Cut) /\ Plain(Cut).text = Cut
    BY DEF Plain
  <2>2. whole + 1 \in 1 .. Len(ledger)
    <3> HIDE DEF whole
    <3> QED BY <1>7, <1>1, <1>2
  <2>3. Keeps(last.pass, Entry(whole + 1).text) /\ last.name = a[whole + 1].name
    <3>1. last.name = a[whole + 1].name
      OBVIOUS
    <3>2. Entry(whole + 1).text = Cut
      <4>1. ~(whole + 1 <= whole)
        BY <1>1, <1>2
      <4> QED BY <4>1 DEF Entry
    <3> HIDE DEF last, whole
    <3> QED BY <2>0, <2>1, <3>1, <3>2 DEF Keeps
  <2> HIDE DEF full, last, whole, a, more
  <2>4. full \o <<last>> = Append(full, last)
    <3>1. full \in Seq(S \cup {last}) /\ last \in S \cup {last}
      BY <1>6
    <3> QED BY <3>1
  <2>5. /\ IsSeq(Append(full, last)) /\ Len(Append(full, last)) = whole + 1
        /\ \A i \in 1 .. whole : Append(full, last)[i] = full[i]
        /\ Append(full, last)[whole + 1] = last
    BY <1>4, AppendIsSeq
  <2>6. Parsed(file, diskSize) = Append(full, last)
    BY <1>3, <1>7, <2>4
  <2>7. \A i \in 1 .. (whole + 1) :
          /\ Keeps(Append(full, last)[i].pass, Entry(i).text)
          /\ Append(full, last)[i].name = a[i].name
    <3> TAKE i \in 1 .. (whole + 1)
    <3>1. CASE i \in 1 .. whole
      BY <3>1, <2>5, <1>5
    <3>2. CASE i = whole + 1
      BY <3>2, <2>5, <2>3
    <3>3. whole \in Nat
      BY <1>1, <1>2
    <3>4. i \in 1 .. whole \/ i = whole + 1
      BY <3>3
    <3> QED BY <3>1, <3>2, <3>4
  <2>8. whole + 1 \in whole .. Len(ledger)
    BY <1>1, <1>2, <2>2
  <2> QED BY <2>5, <2>6, <2>7, <2>8 DEF a, whole
<1>8. CASE ~more
  <2> HIDE DEF full, last, whole, a, more
  <2>1. full \o <<>> = full
    BY <1>6
  <2>2. Parsed(file, diskSize) = full
    BY <1>3, <1>8, <2>1
  <2> QED BY <2>2, <1>1, <1>2, <1>4, <1>5 DEF a, whole
<1> QED BY <1>7, <1>8

-----------------------------------------------------------------------------
(* The operators of the table *)

LEMMA LoadedKeeps ==
  ASSUME NEW a, NEW t, Keeps(a.pass, t)
  PROVE  Keeps(Loaded(a).pass, t)
BY DEF Keeps, Loaded, User, Hash

(* An account opens with what was typed for it, and with nothing else.     *)
LEMMA OpensOwn ==
  ASSUME TableInv, NEW i \in 1 .. Len(users), NEW text, Opens(i, text), text # Cut
  PROVE  text = given[i].text
<1>1. users[i].pass.text = text
  BY DEF Opens, Hash
<1> QED BY <1>1 DEF TableInv, Keeps

LEMMA TypedNotCut ==
  ASSUME typed \in Passes \cup {NoText, DevPass}
  PROVE  typed # Cut
BY AccountsAssumption, SessionAssumption

LEMMA LengthIsNat ==
  ASSUME NEW s, IsSeq(s)
  PROVE  Len(s) \in Nat /\ (s # <<>> <=> Len(s) > 0)
BY DEF IsSeq

-----------------------------------------------------------------------------
(* The initial states *)

LEMMA InitInv == SessionInit => SInv
<1> SUFFICES ASSUME SessionInit PROVE SInv
  OBVIOUS
<1>1. TableInv
  BY EmptyIsSeq DEF TableInv, SessionInit, Init
<1>2. ScreenInv
  BY DEF ScreenInv, SessionInit, Init
<1>3. FileInv
  <2>1. PICK l \in Legacy \cup {<<>>} :
          /\ file = IF l = <<>> THEN NoAccounts(TRUE)
                    ELSE [hashed |-> FALSE,
                          accounts |-> [i \in 1 .. Len(l) |->
                             [name |-> l[i].name, pass |-> Plain(l[i].text)]]]
          /\ ledger = l
    BY DEF SessionInit, Init
  <2>2. diskSize = Size(file) /\ ramSize = 0
    BY DEF SessionInit, Init
  <2>3. Width(file) \in Nat
    BY WidthPositive
  <2>4. CASE l = <<>>
    <3>1. file = NoAccounts(TRUE) /\ ledger = <<>>
      BY <2>1, <2>4
    <3>2. file.hashed = TRUE /\ file.accounts = <<>>
      BY <3>1 DEF NoAccounts
    <3>3. diskSize = 0 * Width(file)
      BY <2>2, <3>2, EmptyIsSeq DEF Size
    <3>4. diskSize = 0
      BY <3>3, <2>3
    <3>5. IsSeq(file.accounts) /\ IsSeq(ledger) /\ Len(file.accounts) = Len(ledger)
      BY <3>1, <3>2, EmptyIsSeq
    <3>6. \A i \in 1 .. Len(ledger) : Keeps(file.accounts[i].pass, ledger[i].text)
      <4>1. Len(ledger) = 0
        BY <3>1, EmptyIsSeq
      <4> QED BY <4>1
    <3>7. file.hashed \in BOOLEAN
      BY <3>2
    <3>8. diskSize \in Nat /\ ramSize \in Nat
      BY <2>2, <3>4
    <3> QED BY <3>5, <3>6, <3>7, <3>8 DEF FileInv
  <2>5. CASE l # <<>>
    <3> DEFINE acc(i) == [name |-> l[i].name, pass |-> Plain(l[i].text)]
               a == [i \in 1 .. Len(l) |-> acc(i)]
    <3>1. l \in Seq([name : Names, text : Passes])
      BY <2>5, AccountsAssumption
    <3>2. Len(l) \in Nat
      BY <3>1
    <3>3. file = [hashed |-> FALSE, accounts |-> a] /\ ledger = l
      BY <2>1, <2>5
    <3>4. \A i \in 1 .. Len(l) :
            /\ a[i].pass.text = l[i].text
            /\ a[i].pass = [salt |-> a[i].pass.salt, text |-> a[i].pass.text]
      BY DEF Plain
    <3>5. a \in Seq({acc(i) : i \in 1 .. Len(l)}) /\ Len(a) = Len(l)
      <4> HIDE DEF acc
      <4> QED BY <3>2
    <3> HIDE DEF a
    <3>6. file.hashed = FALSE /\ file.accounts = a
      BY <3>3
    <3>7. IsSeq(a) /\ IsSeq(l)
      BY <3>1, <3>5 DEF IsSeq
    <3>8. diskSize \in Nat
      <4>1. diskSize = Len(l) * Width(file)
        BY <2>2, <3>5, <3>6 DEF Size
      <4> QED BY <4>1, <2>3, <3>2
    <3>9. \A i \in 1 .. Len(l) : l[i].text \in Passes
      <4> TAKE i \in 1 .. Len(l)
      <4> DEFINE R == [name : Names, text : Passes]
      <4>1. l \in Seq(R)
        BY <3>1
      <4>2. l[i] \in R
        <5> HIDE DEF R
        <5> QED BY <4>1
      <4> QED BY <4>2
    <3> QED BY <2>2, <3>3, <3>4, <3>5, <3>6, <3>7, <3>8, <3>9 DEF FileInv, Keeps
  <2> QED BY <2>4, <2>5
<1> QED BY <1>1, <1>2, <1>3 DEF SInv

-----------------------------------------------------------------------------
(* The steps of Accounts *)

LEMMA LoadKeeps ==
  ASSUME FileInv, Load, cur' = 0
  PROVE  TableInv'
<1> DEFINE raw == Parsed(file, diskSize)
           loaded == [i \in 1 .. Len(raw) |-> Loaded(raw[i])]
<1>1. users' = loaded /\ given' = [i \in 1 .. Len(raw) |-> Entry(i)]
  BY DEF Load, Entry
<1>2. /\ IsSeq(raw)
      /\ \A i \in 1 .. Len(raw) : Keeps(raw[i].pass, Entry(i).text)
  <2> USE ParsedPrefix
  <2>1. IsSeq(raw)
    OBVIOUS
  <2>2. \A i \in 1 .. Len(raw) : Keeps(raw[i].pass, Entry(i).text)
    OBVIOUS
  <2> QED BY <2>1, <2>2
<1> HIDE DEF raw
<1>3. Len(raw) \in Nat
  BY <1>2, LengthIsNat
<1>4. loaded \in Seq({Loaded(raw[i]) : i \in 1 .. Len(raw)}) /\ Len(loaded) = Len(raw)
  BY <1>3
<1>5. IsSeq(loaded)
  BY <1>4 DEF IsSeq
<1>6. /\ IsSeq(given') /\ Len(given') = Len(raw)
      /\ \A i \in 1 .. Len(raw) : given'[i] = Entry(i)
  <2>1. [i \in 1 .. Len(raw) |-> Entry(i)] \in Seq({Entry(i) : i \in 1 .. Len(raw)})
    BY <1>3
  <2>2. Len([i \in 1 .. Len(raw) |-> Entry(i)]) = Len(raw)
    BY <1>3
  <2> QED BY <1>1, <2>1, <2>2 DEF IsSeq
<1>7. \A i \in 1 .. Len(raw) : loaded[i] = Loaded(raw[i])
  OBVIOUS
<1>8. \A i \in 1 .. Len(raw) : Keeps(loaded[i].pass, given'[i].text)
  BY <1>2, <1>6, <1>7, LoadedKeeps
<1>9. loaded # <<>> => 0 < Len(loaded)
  BY <1>5, LengthIsNat
<1> HIDE DEF loaded
<1> QED BY <1>1, <1>4, <1>5, <1>6, <1>8, <1>9 DEF TableInv

LEMMA NoAccountsFile ==
  ASSUME file' = NoAccounts(TRUE), ledger' = <<>>
  PROVE  /\ file'.hashed = TRUE
         /\ IsSeq(file'.accounts) /\ IsSeq(ledger') /\ Len(file'.accounts) = Len(ledger')
         /\ Len(ledger') = 0
<1>1. file'.hashed = TRUE /\ file'.accounts = <<>>
  BY DEF NoAccounts
<1> QED BY <1>1, EmptyIsSeq

LEMMA PowerOnKeeps ==
  ASSUME SInv, PowerOn
  PROVE  TableInv' /\ FileInv'
<1>1. cur' = 0
  BY DEF PowerOn
<1>2. ASSUME LoadNothing PROVE TableInv'
  BY <1>1, <1>2, EmptyIsSeq DEF LoadNothing, TableInv
<1>3. CASE Mounted
  <2>1. TableInv'
    BY <1>1, <1>3, LoadKeeps DEF SInv, Mounted
  <2>2. FileInv'
    BY <1>3 DEF Mounted, store, SInv, FileInv
  <2> QED BY <2>1, <2>2
<1>4. CASE NotRead
  <2>1. FileInv'
    BY <1>4 DEF NotRead, store, SInv, FileInv
  <2> QED BY <1>2, <1>4, <2>1 DEF NotRead
<1>5. CASE Formatted
  <2>1. /\ file' = NoAccounts(TRUE) /\ ledger' = <<>>
        /\ diskSize' = 0 /\ ramSize' = 0
    BY <1>5 DEF Formatted
  <2>2. /\ file'.hashed = TRUE
        /\ IsSeq(file'.accounts) /\ IsSeq(ledger') /\ Len(file'.accounts) = Len(ledger')
        /\ Len(ledger') = 0
    BY <2>1, NoAccountsFile
  <2>3. \A i \in 1 .. Len(ledger') : Keeps(file'.accounts[i].pass, ledger'[i].text)
    BY <2>2
  <2>4. FileInv'
    BY <2>1, <2>2, <2>3 DEF FileInv
  <2> QED BY <1>2, <1>5, <2>4 DEF Formatted
<1> QED BY <1>3, <1>4, <1>5 DEF PowerOn

LEMMA AddKeeps ==
  ASSUME SInv, NEW name, NEW text \in Passes, Add(name, text)
  PROVE  TableInv' /\ FileInv' /\ users' # <<>>
<1> DEFINE slug == Uniquified(SlugOf[name])
           u == User(name, slug, Hash(slug, text))
           g == [name |-> name, text |-> text]
<1>1. users' = Append(users, u) /\ given' = Append(given, g) /\ cur' = Len(users)
  BY DEF Add
<1>2. Keeps(u.pass, g.text)
  BY DEF Keeps, User, Hash
<1> HIDE DEF u, g
<1>3. /\ IsSeq(users') /\ Len(users) \in Nat /\ Len(users') = Len(users) + 1
      /\ \A i \in 1 .. Len(users) : users'[i] = users[i]
      /\ users'[Len(users) + 1] = u
  BY <1>1, AppendIsSeq DEF SInv, TableInv
<1>4. /\ IsSeq(given') /\ Len(given') = Len(users) + 1
      /\ \A i \in 1 .. Len(users) : given'[i] = given[i]
      /\ given'[Len(users) + 1] = g
  BY <1>1, AppendIsSeq DEF SInv, TableInv
<1>5. \A i \in 1 .. Len(users') : Keeps(users'[i].pass, given'[i].text)
  <2> TAKE i \in 1 .. Len(users')
  <2>1. i \in 1 .. Len(users) \/ i = Len(users) + 1
    BY <1>3
  <2>2. CASE i \in 1 .. Len(users)
    BY <2>2, <1>3, <1>4 DEF SInv, TableInv
  <2>3. CASE i = Len(users) + 1
    BY <2>3, <1>2, <1>3, <1>4
  <2> QED BY <2>1, <2>2, <2>3
<1>6. cur' \in Nat /\ cur' < Len(users')
  BY <1>1, <1>3
<1>7. users' # <<>>
  BY <1>3, LengthIsNat
<1>8. TableInv'
  BY <1>3, <1>4, <1>5, <1>6 DEF TableInv
<1>9. FileInv'
  BY DEF Add, store, SInv, FileInv
<1> QED BY <1>7, <1>8, <1>9

LEMMA DataLandsKeeps ==
  ASSUME SInv, DataLands
  PROVE  /\ file'.hashed \in BOOLEAN
         /\ IsSeq(file'.accounts) /\ IsSeq(ledger')
         /\ Len(file'.accounts) = Len(ledger')
         /\ \A i \in 1 .. Len(ledger') : Keeps(file'.accounts[i].pass, ledger'[i].text)
         /\ Size(file') \in Nat
         /\ file'.hashed = TRUE /\ ledger' = given /\ Len(file'.accounts) = Len(users)
         /\ \A i \in 1 .. Len(users) :
              file'.accounts[i] = [name |-> users[i].name, pass |-> users[i].pass]
<1> DEFINE rec(i) == [name |-> users[i].name, pass |-> users[i].pass]
           a == [i \in 1 .. Len(users) |-> rec(i)]
<1>1. file'.hashed = TRUE /\ file'.accounts = a /\ ledger' = given
  BY DEF DataLands, Saved
<1>2. Len(users) \in Nat /\ IsSeq(given) /\ Len(given) = Len(users)
  BY LengthIsNat DEF SInv, TableInv
<1>3. a \in Seq({rec(i) : i \in 1 .. Len(users)}) /\ Len(a) = Len(users)
  <2> HIDE DEF rec
  <2> QED BY <1>2
<1>4. \A i \in 1 .. Len(users) : a[i].pass = users[i].pass
  OBVIOUS
<1>8. \A i \in 1 .. Len(users) : a[i] = [name |-> users[i].name, pass |-> users[i].pass]
  OBVIOUS
<1> HIDE DEF a
<1>5. IsSeq(a)
  BY <1>3 DEF IsSeq
<1>6. Size(file') \in Nat
  <2>1. Size(file') = Len(users) * Width(file')
    BY <1>1, <1>3 DEF Size
  <2> QED BY <2>1, <1>2, WidthPositive
<1>7. \A i \in 1 .. Len(users) : Keeps(a[i].pass, given[i].text)
  BY <1>4 DEF SInv, TableInv
<1> QED BY <1>1, <1>2, <1>3, <1>5, <1>6, <1>7, <1>8

LEMMA StoringKeeps ==
  ASSUME SInv, Storing
  PROVE  TableInv' /\ FileInv' /\ UNCHANGED users
<1>1. UNCHANGED <<users, given, cur>>
  BY DEF Storing, CreateHome, SaveRefused, WriteData, WriteDir, WriteSb,
     PutFails, ram
<1>2. TableInv'
  BY <1>1 DEF SInv, TableInv
<1>3. FileInv'
  <2>1. CASE CreateHome
    BY <2>1 DEF CreateHome, ram, SInv, FileInv
  <2>2. CASE SaveRefused
    BY <2>2 DEF SaveRefused, store, ram, SInv, FileInv
  <2>3. CASE WriteData
    BY <2>3, DataLandsKeeps DEF WriteData, SInv, FileInv
  <2>4. CASE WriteDir
    BY <2>4 DEF WriteDir, ram, SInv, FileInv
  <2>5. CASE WriteSb
    BY <2>5 DEF WriteSb, store, ram, SInv, FileInv
  <2>6. CASE PutFails
    <3>1. CASE DataLands /\ UNCHANGED diskSize
      BY <3>1, <2>6, DataLandsKeeps DEF PutFails, SInv, FileInv
    <3>2. CASE diskSize' = ramSize /\ UNCHANGED <<file, ledger>>
      BY <3>2, <2>6 DEF PutFails, SInv, FileInv
    <3>3. CASE UNCHANGED store
      BY <3>3, <2>6 DEF PutFails, store, SInv, FileInv
    <3> QED BY <2>6, <3>1, <3>2, <3>3 DEF PutFails
  <2> QED BY <2>1, <2>2, <2>3, <2>4, <2>5, <2>6 DEF Storing
<1> QED BY <1>1, <1>2, <1>3

-----------------------------------------------------------------------------
(* Every step of the session *)

Commits == \E name \in Names, text \in Passes : Add(name, text)

LEMMA CommitKeeps ==
  ASSUME SInv, CommitUser
  PROVE  SInv'
<1>1. screen \in {"wifi", "check"} /\ screen' = "another" /\ job = "idle"
  BY DEF CommitUser, AtStep, Waiting
<1>2. fName \in Names /\ fPass \in Passes
  BY <1>1 DEF SInv, ScreenInv
<1>3. UNCHANGED <<fName, fPass, typed>>
  BY DEF CommitUser, fields
<1>4. TableInv' /\ FileInv' /\ users' # <<>> /\ job' # "off"
  <2>1. CASE Add(fName, fPass)
    BY <2>1, <1>2, AddKeeps DEF Add
  <2>2. CASE AddRefused(fName, fPass)
    <3>1. UNCHANGED vars
      BY <2>2 DEF AddRefused
    <3>2. Len(users) >= MaxUsers
      BY <2>2, <1>2, AccountsAssumption DEF AddRefused
    <3>3. IsSeq(users)
      BY DEF SInv, TableInv
    <3>4. users # <<>>
      BY <3>2, <3>3, EmptyIsSeq, AccountsAssumption
    <3> QED BY <3>1, <3>4, <1>1 DEF vars, SInv, TableInv, FileInv
  <2> QED BY <2>1, <2>2 DEF CommitUser
<1> QED BY <1>1, <1>3, <1>4 DEF SInv, ScreenInv

(* Steps that leave the accounts alone. *)
LEMMA StillKeeps ==
  ASSUME SInv, UNCHANGED vars
  PROVE  TableInv' /\ FileInv' /\ UNCHANGED <<users, job>>
BY DEF SInv, TableInv, FileInv, vars

LEMMA FirstStepsKeep ==
  ASSUME SInv, FirstSteps
  PROVE  SInv'
<1> USE DEF Waiting, AtStep, fields, SInv, ScreenInv
<1>1. CASE CommitUser
  BY <1>1, CommitKeeps
<1>2. CASE Back
  <2>1. screen \in Onboarding \ {"lang", "welcome"} /\ screen' = StepBack(screen)
    BY <1>2 DEF Back
  <2>2. CASE screen = "name"
    BY <2>1, <2>2, <1>2, StillKeeps DEF Back, StepBack
  <2>3. CASE screen = "pass"
    BY <2>1, <2>3, <1>2, StillKeeps DEF Back, StepBack
  <2>4. CASE screen = "wifi"
    BY <2>1, <2>4, <1>2, StillKeeps DEF Back, StepBack
  <2>5. CASE screen = "check"
    BY <2>1, <2>5, <1>2, StillKeeps DEF Back, StepBack
  <2>6. CASE screen = "another"
    BY <2>1, <2>6, <1>2, StillKeeps DEF Back, StepBack
  <2> QED BY <2>1, <2>2, <2>3, <2>4, <2>5, <2>6 DEF Onboarding
<1>3. CASE TypeField
  BY <1>3, StillKeeps DEF TypeField
<1>4. CASE Forward
  BY <1>4, StillKeeps DEF Forward
<1>5. CASE Connect
  BY <1>5, StillKeeps DEF Connect
<1>6. CASE AddAnother
  BY <1>6, StillKeeps DEF AddAnother
<1>7. CASE LeaveOnboarding
  BY <1>7, StillKeeps DEF LeaveOnboarding
<1> QED BY <1>1, <1>2, <1>3, <1>4, <1>5, <1>6, <1>7 DEF FirstSteps

-----------------------------------------------------------------------------
LEMMA StepInv == SInv /\ [SessionNext]_sessionVars => SInv'
<1> SUFFICES ASSUME SInv, [SessionNext]_sessionVars PROVE SInv'
  OBVIOUS
<1> USE DEF Waiting, AtStep, fields
<1>1. CASE SwitchOn
  <2>1. TableInv' /\ FileInv' /\ screen = "off"
    BY <1>1, PowerOnKeeps DEF SwitchOn, PowerOn, SInv, ScreenInv
  <2>2. UNCHANGED <<screen, fName, fPass, typed>>
    BY <1>1 DEF SwitchOn
  <2> QED BY <2>1, <2>2 DEF SInv, ScreenInv
<1>2. CASE FirstUse
  <2>1. screen' = "login" => users # <<>>
    BY <1>2 DEF FirstUse, FirstScreen
  <2>2. screen' \in {"lang", "welcome", "login", "textlang", "textlogin"}
    BY <1>2 DEF FirstUse, FirstScreen
  <2>3. UNCHANGED <<fName, fPass, typed>> /\ UNCHANGED vars /\ job = "idle"
    BY <1>2 DEF FirstUse
  <2>4. ScreenInv'
    BY <2>1, <2>2, <2>3, StillKeeps DEF SInv, ScreenInv
  <2> QED BY <2>3, <2>4, StillKeeps DEF SInv
<1>3. CASE SwitchOff
  <2>1. TableInv'
    BY <1>3, EmptyIsSeq DEF SwitchOff, PowerOff, TableInv
  <2>2. FileInv'
    BY <1>3 DEF SwitchOff, PowerOff, store, SInv, FileInv
  <2>3. ScreenInv'
    BY <1>3 DEF SwitchOff, ScreenInv
  <2> QED BY <2>1, <2>2, <2>3 DEF SInv
<1>4. CASE Write
  <2>1. TableInv' /\ FileInv' /\ UNCHANGED users
    BY <1>4, StoringKeeps DEF Write
  <2>2. job' # "off"
    BY <1>4 DEF Write, Storing, CreateHome, SaveRefused, WriteData, WriteDir,
       WriteSb, PutFails
  <2>3. UNCHANGED ui
    BY <1>4 DEF Write
  <2> QED BY <2>1, <2>2, <2>3 DEF SInv, ScreenInv, ui
<1>5. CASE FirstSteps
  BY <1>5, FirstStepsKeep
<1>6. CASE TypePass
  BY <1>6, StillKeeps DEF TypePass, SInv, ScreenInv
<1>7. CASE OtherUser
  <2>1. UNCHANGED <<users, given, job, file, diskSize, ramSize, ledger>> /\ UNCHANGED ui
    BY <1>7 DEF OtherUser, store
  <2>2. Len(users) \in Nat \ {0}
    BY <1>7, LengthIsNat DEF OtherUser, SInv, TableInv
  <2>3. users # <<>>
    BY <2>2, EmptyIsSeq
  <2>4. cur' = (cur + 1) % Len(users)
    BY <1>7, <2>3 DEF OtherUser, SelectNext
  <2>5. cur' \in 0 .. (Len(users) - 1)
    BY <2>2, <2>4 DEF SInv, TableInv
  <2>6. TableInv'
    BY <2>1, <2>2, <2>5 DEF SInv, TableInv
  <2>7. FileInv'
    BY <2>1 DEF SInv, FileInv
  <2>8. ScreenInv'
    BY <2>1 DEF SInv, ScreenInv, ui
  <2> QED BY <2>6, <2>7, <2>8 DEF SInv
<1>8. CASE LogIn
  <2>1. screen = "login" /\ screen' \in {"login", "desktop"} /\ typed' \in {typed, NoText}
    BY <1>8 DEF LogIn
  <2>2. UNCHANGED vars /\ UNCHANGED <<fName, fPass>> /\ job = "idle"
    BY <1>8 DEF LogIn
  <2> QED BY <2>1, <2>2, StillKeeps DEF SInv, ScreenInv
<1>9. CASE LogOut
  BY <1>9, StillKeeps DEF LogOut, SInv, ScreenInv
<1>10. CASE ChooseLanguage
  BY <1>10, StillKeeps DEF ChooseLanguage, SInv, ScreenInv
<1>11. CASE TypeText
  BY <1>11, StillKeeps DEF TypeText, SInv, ScreenInv
<1>12. CASE TextLogIn
  <2> DEFINE found == Matches(tName, typed)
  <2>1. UNCHANGED <<users, given, job, file, diskSize, ramSize, ledger, fName, fPass>>
    BY <1>12 DEF TextLogIn, store
  <2>2. screen = "textlogin" /\ screen' \in {"textlogin", "home"} /\ job = "idle"
    BY <1>12 DEF TextLogIn
  <2>3. typed' \in {typed, NoText}
    BY <1>12 DEF TextLogIn
  <2>4. cur' = IF found # {} THEN Smallest(found) - 1 ELSE cur
    BY <1>12 DEF TextLogIn
  <2>5. found \subseteq 1 .. Len(users)
    BY DEF Matches
  <2>6. Len(users) \in Nat /\ (users # <<>> <=> Len(users) > 0)
    BY LengthIsNat DEF SInv, TableInv
  <2> HIDE DEF found
  <2>7. cur' \in Nat /\ (users # <<>> => cur' < Len(users))
    <3>1. CASE found # {}
      <4>1. Smallest(found) \in found
        <5>1. found \in SUBSET Nat
          BY <2>5, <2>6
        <5> QED BY <5>1, <3>1, SmallestInSet
      <4>2. Smallest(found) \in 1 .. Len(users)
        BY <4>1, <2>5
      <4> QED BY <3>1, <4>2, <2>4, <2>6
    <3>2. CASE found = {}
      BY <3>2, <2>4 DEF SInv, TableInv
    <3> QED BY <3>1, <3>2
  <2>8. TableInv'
    BY <2>1, <2>7 DEF SInv, TableInv
  <2>9. FileInv'
    BY <2>1 DEF SInv, FileInv
  <2>10. ScreenInv'
    BY <2>1, <2>2, <2>3 DEF SInv, ScreenInv
  <2> QED BY <2>8, <2>9, <2>10 DEF SInv
<1>13. CASE UNCHANGED sessionVars
  BY <1>13, StillKeeps DEF sessionVars, ui, SInv, ScreenInv
<1> QED BY <1>1, <1>2, <1>3, <1>4, <1>5, <1>6, <1>7, <1>8, <1>9, <1>10, <1>11, <1>12, <1>13 DEF SessionNext

LEMMA AlwaysInv == SessionSpec => []SInv
BY InitInv, StepInv, PTL DEF SessionSpec

-----------------------------------------------------------------------------
(* kmain64 and onboarding never lead to the graphical login without an     *)
(* account (kernel64.c:93-97, onboarding.c:1043-1082).                     *)
THEOREM NeverWithoutAccount == SessionSpec => []NoDevLogin
<1>1. SInv => NoDevLogin
  BY DEF SInv, ScreenInv, NoDevLogin
<1> QED BY <1>1, AlwaysInv, PTL

(* What each login accepts is what was typed when the account was made     *)
(* (login.c:503-509, userdb.c:386-440).                                    *)
OwnerStep ==
  /\ screen = "login" /\ screen' = "desktop" =>
       IF users = <<>> THEN typed = DevPass ELSE typed = given[cur + 1].text
  /\ screen = "textlogin" /\ screen' = "home" =>
       IF users = <<>> THEN tName = DevUser /\ typed = DevPass
       ELSE typed = given[cur' + 1].text /\ Called(cur' + 1, tName)

LEMMA GraphicalOwner ==
  ASSUME SInv, [SessionNext]_sessionVars, screen = "login", screen' = "desktop"
  PROVE  IF users = <<>> THEN typed = DevPass ELSE typed = given[cur + 1].text
<1>1. LogIn
  <2>1. ~ UNCHANGED sessionVars
    BY DEF sessionVars, ui
  <2> USE DEF AtStep, Waiting
  <2>2. ~SwitchOn /\ ~FirstUse /\ ~SwitchOff /\ ~Write
    BY DEF SwitchOn, FirstUse, SwitchOff, Write, ui
  <2>3. ~FirstSteps
    BY DEF FirstSteps, Back, TypeField, Forward, Connect, CommitUser,
       AddAnother, LeaveOnboarding, Onboarding
  <2>4. ~TypePass /\ ~OtherUser /\ ~LogOut
    BY DEF TypePass, OtherUser, LogOut, ui
  <2>5. ~ChooseLanguage /\ ~TypeText /\ ~TextLogIn
    BY DEF ChooseLanguage, TypeText, TextLogIn
  <2> QED BY <2>1, <2>2, <2>3, <2>4, <2>5 DEF SessionNext
<1>2. TryAuth(typed)
  BY <1>1 DEF LogIn
<1>3. CASE users = <<>>
  BY <1>2, <1>3 DEF TryAuth
<1>4. CASE users # <<>>
  <2>1. Opens(cur + 1, typed)
    BY <1>2, <1>4 DEF TryAuth, AuthCurrent
  <2>2. cur + 1 \in 1 .. Len(users)
    BY <1>4, LengthIsNat DEF SInv, TableInv
  <2>3. typed # Cut
    BY TypedNotCut DEF SInv, ScreenInv
  <2> QED BY <2>1, <2>2, <2>3, <1>4, OpensOwn DEF SInv
<1> QED BY <1>3, <1>4

LEMMA TextOwner ==
  ASSUME SInv, [SessionNext]_sessionVars, screen = "textlogin", screen' = "home"
  PROVE  IF users = <<>> THEN tName = DevUser /\ typed = DevPass
         ELSE typed = given[cur' + 1].text /\ Called(cur' + 1, tName)
<1> DEFINE found == Matches(tName, typed)
<1>1. TextLogIn
  <2>1. ~ UNCHANGED sessionVars
    BY DEF sessionVars, ui
  <2> USE DEF AtStep, Waiting
  <2>2. ~SwitchOn /\ ~FirstUse /\ ~SwitchOff /\ ~Write
    BY DEF SwitchOn, FirstUse, SwitchOff, Write, ui
  <2>3. ~FirstSteps
    BY DEF FirstSteps, Back, TypeField, Forward, Connect, CommitUser,
       AddAnother, LeaveOnboarding, Onboarding
  <2>4. ~TypePass /\ ~OtherUser /\ ~LogIn /\ ~LogOut
    BY DEF TypePass, OtherUser, LogIn, LogOut
  <2>5. ~ChooseLanguage /\ ~TypeText
    BY DEF ChooseLanguage, TypeText
  <2> QED BY <2>1, <2>2, <2>3, <2>4, <2>5 DEF SessionNext
<1>2. found # {} \/ (users = <<>> /\ tName = DevUser /\ typed = DevPass)
  BY <1>1 DEF TextLogIn
<1>3. Len(users) \in Nat /\ (users # <<>> <=> Len(users) > 0)
  BY LengthIsNat DEF SInv, TableInv
<1>4. found \subseteq 1 .. Len(users)
  BY DEF Matches
<1>5. CASE found = {}
  BY <1>2, <1>5
<1>6. CASE found # {}
  <2>1. cur' = Smallest(found) - 1
    BY <1>1, <1>6 DEF TextLogIn
  <2>2. Smallest(found) \in found
    <3>1. found \in SUBSET Nat
      <4> HIDE DEF found
      <4> QED BY <1>3, <1>4
    <3> HIDE DEF found
    <3> QED BY <3>1, <1>6, SmallestInSet
  <2> DEFINE k == Smallest(found)
  <2>3. k \in 1 .. Len(users)
    BY <2>2, <1>4
  <2>4. Called(k, tName) /\ Opens(k, typed)
    BY <2>2 DEF Matches
  <2> HIDE DEF k
  <2>5. typed # Cut
    BY TypedNotCut DEF SInv, ScreenInv
  <2>6. typed = given[k].text
    BY <2>3, <2>4, <2>5, OpensOwn DEF SInv
  <2>7. cur' + 1 = k /\ users # <<>>
    BY <2>1, <2>3, <1>3 DEF k
  <2> QED BY <2>4, <2>6, <2>7
<1> QED BY <1>5, <1>6

LEMMA OwnerAlways == SInv /\ [SessionNext]_sessionVars => OwnerStep
<1> SUFFICES ASSUME SInv, [SessionNext]_sessionVars PROVE OwnerStep
  OBVIOUS
<1> QED BY GraphicalOwner, TextOwner DEF OwnerStep

(* Every step into the desktop or the text home is such a step: the        *)
(* password given for the account that is current from then on.            *)
THEOREM OnlyOwnersGetIn == SessionSpec => OwnerOnly
<1>1. SInv /\ [SessionNext]_sessionVars => [OwnerStep]_sessionVars
  BY OwnerAlways
<1>2. SessionSpec => [][OwnerStep]_sessionVars
  BY <1>1, AlwaysInv, PTL DEF SessionSpec
<1> QED BY <1>2 DEF OwnerStep, OwnerOnly

-----------------------------------------------------------------------------
(* Accounts outlive failed puts and losses of power.  The second invariant *)
(* says that memory and the file hold each account as it was typed; that,  *)
(* but for a migration cut short, the sizes the directory and memory hold  *)
(* for the file are those of whole accounts, all whose save was reported   *)
(* among them; and that every save starts from a table that has those.     *)

AsTyped(account, entry) ==
  /\ account.name \in Names /\ account.name = entry.name
  /\ account.pass.text = entry.text

AccountInv ==
  /\ Len(users) <= MaxUsers /\ Len(ledger) <= MaxUsers
  /\ \A i \in 1 .. Len(users) :
       /\ AsTyped(users[i], given[i])
       /\ users[i].slug \in {SlugOf[users[i].name], users[i].pass.salt}
  /\ \A i \in 1 .. Len(ledger) : AsTyped(file.accounts[i], ledger[i])

Covers(n) == \E k \in 0 .. MaxUsers : n = k * Width(file) /\ acked <= k

SizeInv ==
  /\ acked \in Nat /\ acked <= Len(ledger)
  /\ job \in {"data", "dir", "sb"} => ready
  /\ ~file.hashed => ~half /\ (ready => ramSize = diskSize)
  /\ job \in {"dir", "sb"} =>
       /\ file.hashed /\ ~blind
       /\ ramSize = Len(users) * Width(file) /\ Len(users) = Len(ledger)
  /\ job = "sb" => diskSize = ramSize
  /\ ~half => Covers(diskSize)
  /\ ready => Covers(ramSize) \/ (half /\ ramSize = diskSize)
  /\ ready /\ ~blind => acked <= Len(users)

PlaceInv ==
  /\ job \in Jobs /\ screen \in Screens /\ tName \in Typeable \cup {<<>>}
  /\ users = <<>> => cur = 0
  /\ ready \in BOOLEAN /\ blind \in BOOLEAN /\ half \in BOOLEAN

KeptInv == AccountInv /\ SizeInv /\ PlaceInv

LEMMA WidthIs ==
  ASSUME NEW f
  PROVE  Width(f) = IF f.hashed THEN NameW + HashW ELSE NameW + PlainW
BY AccountsAssumption DEF Width

LEMMA Multiples ==
  ASSUME NEW a \in Nat, NEW b \in Nat, NEW w \in Nat \ {0}
  PROVE  /\ a * w = b * w => a = b
         /\ a < b => a * w < b * w
         /\ a * w \in Nat
<1>1. ASSUME NEW x \in Nat, NEW y \in Nat, x < y PROVE x * w < y * w
  <2>1. PICK d \in Nat : y = x + 1 + d
    <3>1. y - x - 1 \in Nat /\ y = x + 1 + (y - x - 1)
      BY <1>1
    <3> QED BY <3>1
  <2>2. y * w = x * w + w + d * w
    BY <2>1
  <2>3. d * w \in Nat /\ x * w \in Nat
    OBVIOUS
  <2> QED BY <2>2, <2>3
<1>2. a * w \in Nat /\ b * w \in Nat
  OBVIOUS
<1>3. a * w = b * w => a = b
  <2> SUFFICES ASSUME a * w = b * w, a # b PROVE FALSE
    OBVIOUS
  <2>1. a < b \/ b < a
    OBVIOUS
  <2> QED BY <1>1, <1>2, <2>1
<1> QED BY <1>1, <1>2, <1>3

(* (n * w + 1) / w rounds down to n when a line has two bytes or more.      *)
LEMMA WholeLines ==
  ASSUME NEW k \in Nat, NEW w \in Nat \ {0, 1}
  PROVE  (k * w + 1) \div w = k
<1> DEFINE n == k * w + 1
           q == n \div w
           r == n % w
<1>1. n \in Nat
  OBVIOUS
<1>2. q \in Nat /\ r \in 0 .. (w - 1) /\ n = w * q + r
  <2> HIDE DEF n
  <2> QED BY <1>1
<1>3. n = k * w + 1
  OBVIOUS
<1> HIDE DEF n, q, r
<1>4. ~(q < k)
  <2> SUFFICES ASSUME q < k PROVE FALSE
    OBVIOUS
  <2>1. PICK d \in Nat : k = q + 1 + d
    <3>1. k - q - 1 \in Nat /\ k = q + 1 + (k - q - 1)
      BY <1>2
    <3> QED BY <3>1
  <2>2. k * w = w * q + w + d * w
    BY <1>2, <2>1
  <2>3. d * w \in Nat /\ w * q \in Nat
    BY <1>2
  <2> QED BY <1>2, <1>3, <2>2, <2>3
<1>5. ~(k < q)
  <2> SUFFICES ASSUME k < q PROVE FALSE
    OBVIOUS
  <2>1. PICK d \in Nat : q = k + 1 + d
    <3>1. q - k - 1 \in Nat /\ q = k + 1 + (q - k - 1)
      BY <1>2
    <3> QED BY <3>1
  <2>2. w * q = k * w + w + d * w
    BY <1>2, <2>1
  <2>3. d * w \in Nat /\ k * w \in Nat
    BY <1>2
  <2> QED BY <1>2, <1>3, <2>2, <2>3
<1> QED BY <1>2, <1>4, <1>5 DEF q, n

(* A file read with a whole number of lines has that many accounts, as far *)
(* as it has them.                                                         *)
LEMMA CompleteLines ==
  ASSUME FileInv, NEW k \in Nat, diskSize = k * Width(file)
  PROVE  Complete(file, diskSize) = IF k >= Len(ledger) THEN Len(ledger) ELSE k
<1> DEFINE a == file.accounts
           w == Width(file)
<1>1. Len(a) = Len(ledger) /\ Len(a) \in Nat
  BY CompleteBelow
<1>2. w \in Nat \ {0, 1} /\ Size(file) = Len(a) * w /\ diskSize = k * w
  BY WidthIs, AccountsAssumption DEF Size
<1>3. CASE k >= Len(a)
  <2>1. diskSize >= Size(file)
    <3> HIDE DEF w, a
    <3>1. k = Len(a) \/ Len(a) < k
      BY <1>1, <1>3
    <3>2. Len(a) * w \in Nat /\ k * w \in Nat /\ (Len(a) < k => Len(a) * w < k * w)
      BY <1>1, <1>2, Multiples
    <3> QED BY <1>2, <3>1, <3>2
  <2> QED BY <1>1, <1>3, <2>1 DEF Complete
<1>4. CASE k < Len(a)
  <2>1. ~(diskSize >= Size(file))
    <3> HIDE DEF w, a
    <3>1. k * w < Len(a) * w /\ k * w \in Nat /\ Len(a) * w \in Nat
      BY <1>1, <1>2, <1>4, Multiples
    <3> QED BY <1>2, <3>1
  <2>2. Complete(file, diskSize) = (k * w + 1) \div w
    BY <1>2, <2>1 DEF Complete
  <2>3. (k * w + 1) \div w = k
    <3> HIDE DEF w
    <3> QED BY <1>2, WholeLines
  <2>4. ~(k >= Len(ledger))
    <3> HIDE DEF a
    <3> QED BY <1>1, <1>4
  <2> QED BY <2>2, <2>3, <2>4
<1> HIDE DEF a
<1> QED BY <1>1, <1>3, <1>4

LEMMA LoadedFields ==
  ASSUME NEW a
  PROVE  /\ Loaded(a).name = a.name /\ Loaded(a).slug = SlugOf[a.name]
         /\ Loaded(a).pass.text = a.pass.text
BY DEF Loaded, User, Hash

(* What Load leaves of the accounts reported saved is in the table.         *)
LEMMA LoadKeepsReported ==
  ASSUME SInv, KeptInv, Load
  PROVE  /\ acked' \in Nat /\ acked' <= acked
         /\ acked' <= Complete(file, diskSize)
<1>1. /\ acked' = IF half /\ Complete(file, diskSize) < acked
                    THEN Complete(file, diskSize) ELSE acked
      /\ acked \in Nat /\ acked <= Len(ledger)
  BY DEF Load, Forget, KeptInv, SizeInv
<1>2. Complete(file, diskSize) \in Nat /\ Len(ledger) \in Nat
  BY CompleteBelow DEF SInv
<1>3. CASE half
  BY <1>1, <1>2, <1>3
<1>4. CASE ~half
  <2>1. PICK k \in 0 .. MaxUsers : diskSize = k * Width(file) /\ acked <= k
    BY <1>4 DEF KeptInv, SizeInv, Covers
  <2>2. k \in Nat
    BY AccountsAssumption
  <2>3. Complete(file, diskSize) = IF k >= Len(ledger) THEN Len(ledger) ELSE k
    BY <2>1, <2>2, CompleteLines DEF SInv
  <2> QED BY <1>1, <1>2, <1>4, <2>1, <2>2, <2>3
<1> QED BY <1>3, <1>4

LEMMA LoadKeepsAccounts ==
  ASSUME SInv, KeptInv, Load
  PROVE  /\ Len(users') <= MaxUsers
         /\ \A i \in 1 .. Len(users') :
              AsTyped(users[i], given[i])' /\ users'[i].slug = SlugOf[users'[i].name]
         /\ acked' <= Len(users')
         /\ job' \in {"data", "idle"}
<1> DEFINE raw == Parsed(file, diskSize)
           loaded == [i \in 1 .. Len(raw) |-> Loaded(raw[i])]
           whole == Complete(file, diskSize)
<1>1. /\ users' = loaded /\ given' = [i \in 1 .. Len(raw) |-> Entry(i)]
      /\ job' \in {"data", "idle"}
  BY DEF Load, Entry
<1>2. FileInv
  BY DEF SInv
<1>3. /\ IsSeq(raw)
      /\ \A i \in 1 .. Len(raw) :
           Keeps(raw[i].pass, Entry(i).text) /\ raw[i].name = file.accounts[i].name
  <2>1. IsSeq(raw)
    BY <1>2, ParsedPrefix
  <2>2. \A i \in 1 .. Len(raw) :
          Keeps(raw[i].pass, Entry(i).text) /\ raw[i].name = file.accounts[i].name
    BY <1>2, ParsedPrefix
  <2> QED BY <2>1, <2>2
<1>4. Len(raw) \in whole .. Len(ledger) /\ whole \in Nat /\ Len(ledger) \in Nat
  <2>1. Len(raw) \in whole .. Len(ledger)
    BY <1>2, ParsedPrefix
  <2>2. whole \in Nat /\ Len(ledger) \in Nat
    BY <1>2, CompleteBelow
  <2> QED BY <2>1, <2>2
<1>5. acked' \in Nat /\ acked' <= whole
  BY LoadKeepsReported
<1> HIDE DEF raw, whole
<1>6. Len(loaded) = Len(raw) /\ \A i \in 1 .. Len(raw) : loaded[i] = Loaded(raw[i])
  BY <1>4
<1>7. \A i \in 1 .. Len(raw) : given'[i] = Entry(i)
  BY <1>1
<1> HIDE DEF loaded
<1>8. Len(users') <= MaxUsers
  BY <1>1, <1>4, <1>6, AccountsAssumption DEF KeptInv, AccountInv
<1>9. ASSUME NEW i \in 1 .. Len(users')
      PROVE  AsTyped(users[i], given[i])' /\ users'[i].slug = SlugOf[users'[i].name]
  <2>1. i \in 1 .. Len(raw) /\ i \in 1 .. Len(ledger)
    BY <1>1, <1>4, <1>6
  <2>2. users'[i] = Loaded(raw[i]) /\ given'[i] = Entry(i)
    BY <1>1, <1>6, <1>7, <2>1
  <2>3. AsTyped(file.accounts[i], ledger[i])
    BY <2>1 DEF KeptInv, AccountInv
  <2>4. Entry(i).name = ledger[i].name
    BY DEF Entry
  <2>5. users'[i].name \in Names /\ users'[i].name = given'[i].name
    BY <1>3, <2>1, <2>2, <2>3, <2>4, LoadedFields DEF AsTyped
  <2>6. users'[i].slug = SlugOf[users'[i].name]
    BY <2>2, LoadedFields
  <2>7. users'[i].pass.text = given'[i].text
    BY <1>3, <2>1, <2>2, LoadedFields DEF Keeps
  <2> QED BY <2>5, <2>6, <2>7 DEF AsTyped
<1>10. acked' <= Len(users')
  BY <1>1, <1>4, <1>5, <1>6
<1> QED BY <1>1, <1>8, <1>9, <1>10

(* The file and its sizes stay, and no account is reported.                *)
LEMMA StoreStays ==
  ASSUME SInv, KeptInv, UNCHANGED <<file, ledger, diskSize, half>>, acked' \in Nat, acked' <= acked
  PROVE  /\ Len(ledger') <= MaxUsers
         /\ \A i \in 1 .. Len(ledger') : AsTyped(file.accounts[i], ledger[i])'
         /\ acked' <= Len(ledger')
         /\ \A n : Covers(n) => \E k \in 0 .. MaxUsers : n = k * Width(file') /\ acked' <= k
         /\ ~half' => Covers(diskSize)'
         /\ half' \in BOOLEAN
<1>1. acked \in Nat /\ acked <= Len(ledger) /\ Len(ledger) \in Nat
  BY CompleteBelow DEF KeptInv, SizeInv, SInv
<1>2. \A i \in 1 .. Len(ledger') : AsTyped(file.accounts[i], ledger[i])'
  BY DEF KeptInv, AccountInv, AsTyped
<1>3. ASSUME NEW n, Covers(n)
      PROVE  \E k \in 0 .. MaxUsers : n = k * Width(file') /\ acked' <= k
  <2>1. PICK k \in 0 .. MaxUsers : n = k * Width(file) /\ acked <= k
    BY <1>3 DEF Covers
  <2>2. k \in Nat
    BY AccountsAssumption
  <2>3. acked' <= k
    BY <1>1, <2>1, <2>2
  <2> QED BY <2>1, <2>3
<1>4. ~half' => Covers(diskSize)'
  BY <1>3 DEF Covers, KeptInv, SizeInv
<1> QED BY <1>1, <1>2, <1>3, <1>4 DEF KeptInv, AccountInv, SizeInv, PlaceInv

Restarted ==
  /\ AccountInv /\ SizeInv /\ cur = 0 /\ job \in Jobs
  /\ ready \in BOOLEAN /\ blind \in BOOLEAN /\ half \in BOOLEAN

LEMMA PowerOnKeepsKept ==
  ASSUME SInv, KeptInv, PowerOn
  PROVE  Restarted'
<1>1. cur' = 0
  BY DEF PowerOn
<1>2. CASE Mounted
  <2>1. /\ UNCHANGED <<file, ledger, diskSize>> /\ half' = half /\ ramSize' = diskSize
        /\ ready' = TRUE /\ blind' = FALSE /\ Load
    BY <1>2 DEF Mounted, store, Load
  <2>2. acked' \in Nat /\ acked' <= acked
    BY <2>1, LoadKeepsReported
  <2>3. /\ Len(users') <= MaxUsers
        /\ \A i \in 1 .. Len(users') :
             AsTyped(users[i], given[i])' /\ users'[i].slug = SlugOf[users'[i].name]
        /\ acked' <= Len(users')
        /\ job' \in {"data", "idle"}
    BY <2>1, LoadKeepsAccounts
  <2>4. AccountInv'
    BY <2>1, <2>2, <2>3, StoreStays DEF AccountInv
  <2>5. /\ ~half' => Covers(diskSize)'
        /\ acked' <= Len(ledger') /\ half' \in BOOLEAN
    BY <2>1, <2>2, StoreStays
  <2>6. Covers(ramSize)' \/ (half' /\ ramSize' = diskSize')
    BY <2>1, <2>5 DEF Covers
  <2>7. ~file'.hashed => ~half'
    BY <2>1 DEF KeptInv, SizeInv
  <2>8. SizeInv'
    BY <2>1, <2>2, <2>3, <2>5, <2>6, <2>7 DEF SizeInv
  <2> QED BY <1>1, <2>1, <2>3, <2>4, <2>5, <2>8 DEF Restarted, Jobs
<1>3. CASE NotRead
  <2>1. /\ UNCHANGED <<file, ledger, diskSize>> /\ half' = half /\ acked' = acked
        /\ ready' \in BOOLEAN /\ blind' = TRUE /\ ramSize' = IF ready' THEN diskSize ELSE 0
        /\ users' = <<>> /\ given' = <<>> /\ job' = "idle" /\ Len(users') = 0
    BY <1>3, EmptyIsSeq DEF NotRead, LoadNothing, store, reported
  <2>2. acked \in Nat /\ acked <= acked
    BY DEF KeptInv, SizeInv
  <2>3. AccountInv'
    BY <2>1, <2>2, StoreStays, AccountsAssumption DEF AccountInv
  <2>4. /\ ~half' => Covers(diskSize)'
        /\ acked' <= Len(ledger') /\ half' \in BOOLEAN
    BY <2>1, <2>2, StoreStays
  <2>5. ready' => Covers(ramSize)' \/ (half' /\ ramSize' = diskSize')
    BY <2>1, <2>4 DEF Covers
  <2>6. ~file'.hashed => ~half' /\ (ready' => ramSize' = diskSize')
    BY <2>1 DEF KeptInv, SizeInv
  <2>7. SizeInv'
    BY <2>1, <2>2, <2>4, <2>5, <2>6 DEF SizeInv
  <2> QED BY <1>1, <2>1, <2>3, <2>4, <2>7 DEF Restarted, Jobs
<1>4. CASE Formatted
  <2>1. /\ file' = NoAccounts(TRUE) /\ ledger' = <<>> /\ diskSize' = 0 /\ ramSize' = 0
        /\ half' = FALSE /\ acked' = 0 /\ ready' \in BOOLEAN /\ blind' \in BOOLEAN
        /\ users' = <<>> /\ given' = <<>> /\ job' = "idle" /\ Len(users') = 0
    BY <1>4, EmptyIsSeq DEF Formatted, LoadNothing, Forget
  <2>2. file'.hashed = TRUE /\ Len(ledger') = 0
    BY <2>1, NoAccountsFile
  <2>3. AccountInv'
    BY <2>1, <2>2, AccountsAssumption DEF AccountInv
  <2>4. Covers(diskSize)' /\ Covers(ramSize)'
    <3> DEFINE w == Width(file')
    <3>1. w \in Nat
      BY WidthPositive
    <3>2. 0 = 0 * w /\ 0 \in 0 .. MaxUsers
      <4> HIDE DEF w
      <4> QED BY <3>1, AccountsAssumption
    <3>3. \E k \in 0 .. MaxUsers : 0 = k * w /\ 0 <= k
      <4> HIDE DEF w
      <4> QED BY <3>2
    <3>4. diskSize' = 0 /\ ramSize' = 0 /\ acked' = 0
      BY <2>1
    <3>5. \E k \in 0 .. MaxUsers : 0 = k * Width(file') /\ 0 <= k
      BY <3>3
    <3>6. /\ \E k \in 0 .. MaxUsers : diskSize' = k * Width(file') /\ acked' <= k
          /\ \E k \in 0 .. MaxUsers : ramSize' = k * Width(file') /\ acked' <= k
      BY <3>4, <3>5
    <3> HIDE DEF w
    <3> QED BY <3>6 DEF Covers
  <2>5. SizeInv'
    <3>1. /\ acked' \in Nat /\ acked' <= Len(ledger')
          /\ acked' <= Len(users') /\ ~half' /\ ramSize' = diskSize'
      BY <2>1, <2>2
    <3>2. job' \notin {"data", "dir", "sb"}
      BY <2>1
    <3> QED BY <2>4, <3>1, <3>2 DEF SizeInv
  <2> QED BY <1>1, <2>1, <2>3, <2>5 DEF Restarted, Jobs
<1> QED BY <1>2, <1>3, <1>4 DEF PowerOn

LEMMA PowerOffKeepsKept ==
  ASSUME SInv, KeptInv, PowerOff
  PROVE  Restarted'
<1>1. /\ UNCHANGED <<file, ledger, diskSize>> /\ cur' = 0 /\ half' = half /\ acked' = acked
      /\ users' = <<>> /\ given' = <<>> /\ job' = "off" /\ ready' = FALSE /\ blind' = FALSE
      /\ Len(users') = 0
  BY EmptyIsSeq DEF PowerOff, store, reported
<1>2. acked \in Nat /\ acked <= acked
  BY DEF KeptInv, SizeInv
<1>3. AccountInv'
  BY <1>1, <1>2, StoreStays, AccountsAssumption DEF AccountInv
<1>4. /\ ~half' => Covers(diskSize)'
      /\ acked' <= Len(ledger') /\ half' \in BOOLEAN
  BY <1>1, <1>2, StoreStays
<1>5. ~file'.hashed => ~half'
  BY <1>1 DEF KeptInv, SizeInv
<1>6. SizeInv'
  BY <1>1, <1>2, <1>4, <1>5 DEF SizeInv
<1> QED BY <1>1, <1>3, <1>4, <1>6 DEF Restarted, Jobs

LEMMA AddKeepsKept ==
  ASSUME SInv, KeptInv, NEW name \in Names \cup {NoText}, NEW text, Add(name, text)
  PROVE  AccountInv' /\ SizeInv' /\ job' \in Jobs /\ users' # <<>>
<1> DEFINE slug == Uniquified(SlugOf[name])
           u == User(name, slug, Hash(slug, text))
           g == [name |-> name, text |-> text]
<1>1. /\ users' = Append(users, u) /\ given' = Append(given, g) /\ job' = "home"
      /\ UNCHANGED <<file, ledger, diskSize, acked>> /\ UNCHANGED <<ramSize, ready, blind, half>>
      /\ name \in Names /\ Len(users) < MaxUsers /\ job = "idle"
  BY DEF Add, store, reported
<1>2. u.name = name /\ u.slug = u.pass.salt /\ u.pass.text = g.text /\ g.name = name
  BY DEF User, Hash
<1> HIDE DEF u, g
<1>3. /\ IsSeq(users') /\ Len(users) \in Nat /\ Len(users') = Len(users) + 1
      /\ \A i \in 1 .. Len(users) : users'[i] = users[i]
      /\ users'[Len(users) + 1] = u
  BY <1>1, AppendIsSeq DEF SInv, TableInv
<1>4. /\ \A i \in 1 .. Len(users) : given'[i] = given[i]
      /\ given'[Len(users) + 1] = g
  BY <1>1, AppendIsSeq DEF SInv, TableInv
<1>5. ASSUME NEW i \in 1 .. Len(users')
      PROVE  AsTyped(users[i], given[i])'
             /\ users'[i].slug \in {SlugOf[users'[i].name], users'[i].pass.salt}
  <2>1. i \in 1 .. Len(users) \/ i = Len(users) + 1
    BY <1>3
  <2>2. CASE i \in 1 .. Len(users)
    BY <1>1, <1>3, <1>4, <2>2 DEF KeptInv, AccountInv, AsTyped
  <2>3. CASE i = Len(users) + 1
    <3>1. users'[i] = u /\ given'[i] = g
      BY <1>3, <1>4, <2>3
    <3> QED BY <1>1, <1>2, <3>1 DEF AsTyped
  <2> QED BY <2>1, <2>2, <2>3
<1>6. AccountInv'
  <2>1. Len(users') <= MaxUsers
    BY <1>1, <1>3, AccountsAssumption
  <2>2. acked \in Nat /\ acked <= acked
    BY DEF KeptInv, SizeInv
  <2> QED BY <1>1, <1>5, <2>1, <2>2, StoreStays DEF AccountInv
<1>7. SizeInv'
  <2>1. Covers(diskSize)' <=> Covers(diskSize)
    BY <1>1 DEF Covers, Width
  <2>2. Covers(ramSize)' <=> Covers(ramSize)
    BY <1>1 DEF Covers, Width
  <2>3. ready /\ ~blind => acked <= Len(users')
    BY <1>3 DEF KeptInv, SizeInv
  <2> QED BY <1>1, <2>1, <2>2, <2>3 DEF SizeInv, KeptInv
<1>8. users' # <<>>
  BY <1>3, LengthIsNat
<1> QED BY <1>1, <1>6, <1>7, <1>8 DEF Jobs

(* A size that covers the reported accounts of the file covers those of    *)
(* the one written over it, if both are of hashes.                         *)
LEMMA SizeOfNextFile ==
  ASSUME NEW n, Covers(n), file'.hashed = file.hashed, acked \in Nat,
         acked' \in Nat, acked' <= acked
  PROVE  \E k \in 0 .. MaxUsers : n = k * Width(file') /\ acked' <= k
<1>1. PICK k \in 0 .. MaxUsers : n = k * Width(file) /\ acked <= k
  BY DEF Covers
<1>2. k \in Nat
  BY AccountsAssumption
<1>3. acked' <= k
  BY <1>1, <1>2
<1>4. Width(file') = Width(file)
  BY WidthIs
<1> QED BY <1>1, <1>3, <1>4

(* The sector of the put lands.                                            *)
LEMMA DataLandsKept ==
  ASSUME SInv, KeptInv, DataLands, job = "data", UNCHANGED <<users, given, cur, ready, diskSize>>,
         \/ job' = "dir" /\ ramSize' = Size(file')
         \/ job' = "idle" /\ ramSize' = ramSize
  PROVE  AccountInv' /\ SizeInv' /\ blind' \in BOOLEAN /\ half' \in BOOLEAN
<1>1. /\ file'.hashed = TRUE /\ ledger' = given /\ Len(users) = Len(given)
      /\ Len(file'.accounts) = Len(users)
      /\ \A i \in 1 .. Len(users) :
           file'.accounts[i] = [name |-> users[i].name, pass |-> users[i].pass]
  BY DataLandsKeeps DEF SInv, TableInv
<1>2. blind' = FALSE /\ acked' = IF blind THEN 0 ELSE acked
  BY DEF DataLands, Forget
<1>3. half' = (half \/ ~file.hashed) /\ half' \in BOOLEAN
  BY DEF DataLands
<1>4. acked \in Nat /\ ready /\ Len(users) \in Nat /\ Len(users) <= MaxUsers
  BY LengthIsNat DEF KeptInv, SizeInv, AccountInv, SInv, TableInv
<1>5. acked' \in Nat /\ acked' <= acked /\ acked' <= Len(users)
  BY <1>2, <1>4 DEF KeptInv, SizeInv
<1>6. \A i \in 1 .. Len(ledger') : AsTyped(file.accounts[i], ledger[i])'
  <2> SUFFICES ASSUME NEW i \in 1 .. Len(ledger')
               PROVE  /\ file'.accounts[i].name \in Names
                      /\ file'.accounts[i].name = ledger'[i].name
                      /\ file'.accounts[i].pass.text = ledger'[i].text
    BY DEF AsTyped
  <2>1. i \in 1 .. Len(users) /\ ledger'[i] = given[i]
    BY <1>1
  <2>2. file'.accounts[i].name = users[i].name /\ file'.accounts[i].pass = users[i].pass
    <3>1. file'.accounts[i] = [name |-> users[i].name, pass |-> users[i].pass]
      BY <1>1, <2>1
    <3> QED BY <3>1
  <2>3. AsTyped(users[i], given[i])
    BY <2>1 DEF KeptInv, AccountInv
  <2> QED BY <2>1, <2>2, <2>3 DEF AsTyped
<1>7. AccountInv'
  <2>1. \A i \in 1 .. Len(users') :
          /\ AsTyped(users[i], given[i])'
          /\ users'[i].slug \in {SlugOf[users'[i].name], users'[i].pass.salt}
    BY DEF KeptInv, AccountInv, AsTyped
  <2> QED BY <1>1, <1>4, <1>6, <2>1 DEF AccountInv
<1>8. ~half' => Covers(diskSize)'
  <2>1. ASSUME ~half' PROVE Covers(diskSize)'
    <3>1. ~half /\ file.hashed = TRUE
      BY <1>3, <2>1 DEF SInv, FileInv
    <3>2. Covers(diskSize)
      BY <3>1 DEF KeptInv, SizeInv
    <3> QED BY <1>1, <1>4, <1>5, <3>1, <3>2, SizeOfNextFile DEF Covers
  <2> QED BY <2>1
<1>9. Size(file') = Len(users) * Width(file')
  BY <1>1 DEF Size
<1>10. Covers(ramSize)' \/ (half' /\ ramSize' = diskSize')
  <2>1. CASE ramSize' = Size(file')
    BY <1>4, <1>5, <1>9, <2>1, AccountsAssumption DEF Covers
  <2>2. CASE ramSize' = ramSize /\ ~file.hashed
    BY <1>3, <1>4, <2>2 DEF KeptInv, SizeInv
  <2>3. CASE ramSize' = ramSize /\ file.hashed
    <3>1. CASE Covers(ramSize)
      <4>1. file'.hashed = file.hashed
        BY <1>1, <2>3 DEF SInv, FileInv
      <4> QED BY <1>4, <1>5, <2>3, <3>1, <4>1, SizeOfNextFile DEF Covers
    <3>2. CASE half /\ ramSize = diskSize
      BY <1>3, <2>3, <3>2
    <3> QED BY <1>4, <3>1, <3>2 DEF KeptInv, SizeInv
  <2> QED BY <2>1, <2>2, <2>3
<1>11. SizeInv'
  BY <1>1, <1>2, <1>4, <1>5, <1>8, <1>9, <1>10 DEF SizeInv
<1> QED BY <1>2, <1>3, <1>7, <1>11

(* Steps of a put that leave the file alone.                               *)
LEMMA QuietPutKept ==
  ASSUME SInv, KeptInv, UNCHANGED <<users, given, cur, ready, file, ledger>>,
         UNCHANGED <<acked, blind, ramSize>>,
         diskSize' = diskSize \/ (ready /\ diskSize' = ramSize),
         SizeLands \/ (diskSize' = diskSize /\ half' = half),
         job' \in {"dir", "sb"} => job = "dir", job' = "sb" => diskSize' = ramSize,
         job' = "data" => ready
  PROVE  AccountInv' /\ SizeInv' /\ half' \in BOOLEAN
<1>1. AccountInv'
  BY DEF AccountInv, KeptInv, AsTyped
<1>2. half' \in BOOLEAN /\ half \in BOOLEAN /\ (half' => half)
  <2>1. half \in BOOLEAN
    BY DEF KeptInv, PlaceInv
  <2>2. CASE SizeLands
    <3>1. half' = (half /\ diskSize' # Size(file))
      BY <2>2 DEF SizeLands
    <3>2. half' \in BOOLEAN
      BY <3>1
    <3> QED BY <2>1, <3>1, <3>2
  <2>3. CASE half' = half
    BY <2>1, <2>3
  <2> QED BY <2>2, <2>3
<1>3. Covers(ramSize)' <=> Covers(ramSize)
  BY DEF Covers, Width
<1>4. Covers(diskSize)' <=> \E k \in 0 .. MaxUsers : diskSize' = k * Width(file) /\ acked <= k
  BY DEF Covers, Width
<1>5. ASSUME diskSize' = Size(file) PROVE Covers(diskSize)'
  <2>1. Size(file) = Len(ledger) * Width(file)
    BY CompleteBelow DEF Size, SInv
  <2>2. Len(ledger) \in 0 .. MaxUsers /\ acked <= Len(ledger)
    BY CompleteBelow DEF SInv, KeptInv, AccountInv, SizeInv
  <2> QED BY <1>4, <1>5, <2>1, <2>2
<1>6. ~half' => Covers(diskSize)'
  <2> SUFFICES ASSUME ~half' PROVE Covers(diskSize)'
    OBVIOUS
  <2>1. CASE half
    <3>1. diskSize' = Size(file)
      BY <2>1 DEF SizeLands
    <3> QED BY <1>5, <3>1
  <2>2. CASE ~half
    <3>1. Covers(diskSize) /\ (ready => Covers(ramSize))
      BY <2>2 DEF KeptInv, SizeInv
    <3> QED BY <1>4, <3>1 DEF Covers
  <2> QED BY <2>1, <2>2
<1>7. ready' => Covers(ramSize)' \/ (half' /\ ramSize' = diskSize')
  <2> SUFFICES ASSUME ready, ~Covers(ramSize) PROVE half' /\ ramSize' = diskSize'
    BY <1>3
  <2>1. half /\ ramSize = diskSize
    BY DEF KeptInv, SizeInv
  <2>2. diskSize' = diskSize
    BY <2>1
  <2>3. CASE ~half'
    <3>1. Covers(diskSize)'
      BY <1>6, <2>3
    <3> QED BY <1>4, <2>1, <2>2, <3>1 DEF Covers
  <2> QED BY <1>2, <2>1, <2>2, <2>3
<1>8. ~file'.hashed => ~half' /\ (ready' => ramSize' = diskSize')
  BY <1>2 DEF KeptInv, SizeInv
<1>9. SizeInv'
  <2>1. job' \in {"dir", "sb"} =>
          /\ file'.hashed /\ ~blind'
          /\ ramSize' = Len(users') * Width(file') /\ Len(users') = Len(ledger')
    BY DEF KeptInv, SizeInv
  <2>2. job' \in {"data", "dir", "sb"} => ready'
    BY DEF KeptInv, SizeInv
  <2> QED BY <1>6, <1>7, <1>8, <2>1, <2>2 DEF KeptInv, SizeInv
<1> QED BY <1>1, <1>2, <1>9

LEMMA StoringKeepsKept ==
  ASSUME SInv, KeptInv, Storing
  PROVE  /\ AccountInv' /\ SizeInv' /\ job' \in Jobs /\ ready' = ready
         /\ blind' \in BOOLEAN /\ half' \in BOOLEAN /\ UNCHANGED <<users, cur>>
<1>1. /\ UNCHANGED <<users, given, cur, ready>> /\ blind' \in BOOLEAN
      /\ job' \in Jobs /\ job \in {"home", "data", "dir", "sb"}
  BY DEF Storing, CreateHome, SaveRefused, WriteData, WriteDir, WriteSb,
     PutFails, ram,
     DataLands, Jobs, KeptInv, PlaceInv
<1>2. job # "home" => ready
  BY <1>1 DEF KeptInv, SizeInv
<1>3. CASE CreateHome
  BY <1>1, <1>3, QuietPutKept DEF CreateHome, ram
<1>4. CASE SaveRefused
  BY <1>1, <1>4, QuietPutKept DEF SaveRefused, ram, store, reported
<1>5. CASE WriteData
  BY <1>1, <1>5, DataLandsKept DEF WriteData
<1>6. CASE WriteDir
  BY <1>1, <1>2, <1>6, QuietPutKept DEF WriteDir, ram
<1>7. CASE WriteSb
  <2>1. /\ UNCHANGED <<file, ledger, diskSize, half>> /\ UNCHANGED <<ramSize, blind>>
        /\ acked' = Len(users) /\ job' = "idle" /\ job = "sb"
    BY <1>7 DEF WriteSb, ram, store
  <2>2. /\ ramSize = Len(users) * Width(file) /\ diskSize = ramSize
        /\ Len(users) = Len(ledger) /\ file.hashed
    BY <2>1 DEF KeptInv, SizeInv
  <2>3. AccountInv' /\ half' \in BOOLEAN
    BY <1>1, <2>1 DEF AccountInv, KeptInv, AsTyped, PlaceInv
  <2>4. Len(users) \in Nat /\ Len(users) \in 0 .. MaxUsers
    BY LengthIsNat, AccountsAssumption DEF SInv, TableInv, KeptInv, AccountInv
  <2>5. Covers(diskSize)' /\ Covers(ramSize)'
    BY <2>1, <2>2, <2>4 DEF Covers, Width
  <2>6. SizeInv'
    BY <1>1, <2>1, <2>2, <2>4, <2>5 DEF SizeInv
  <2> QED BY <1>1, <2>3, <2>6
<1>8. CASE PutFails
  <2>1. CASE job = "data" /\ DataLands /\ UNCHANGED diskSize
    <3>1. job' = "idle" /\ ramSize' = ramSize
      BY <1>8 DEF PutFails
    <3> QED BY <1>1, <2>1, <3>1, DataLandsKept
  <2>2. CASE job = "dir" /\ diskSize' = ramSize /\ SizeLands
             /\ UNCHANGED <<file, ledger, blind, acked, forgotten>>
    BY <1>1, <1>2, <1>8, <2>2, QuietPutKept DEF PutFails
  <2>3. CASE UNCHANGED <<store, blind, reported>>
    BY <1>1, <1>8, <2>3, QuietPutKept DEF PutFails, store, reported
  <2> QED BY <1>8, <2>1, <2>2, <2>3 DEF PutFails
<1> QED BY <1>1, <1>3, <1>4, <1>5, <1>6, <1>7, <1>8 DEF Storing

(* Steps that leave table, file and put alone. *)
LEMMA QuietKeepsKept ==
  ASSUME KeptInv, UNCHANGED <<users, given, job, file, ledger, diskSize>>,
         UNCHANGED <<ramSize, ready, blind, acked, half>>
  PROVE  AccountInv' /\ SizeInv' /\ job' \in Jobs
         /\ ready' \in BOOLEAN /\ blind' \in BOOLEAN /\ half' \in BOOLEAN
<1>1. AccountInv'
  BY DEF KeptInv, AccountInv, AsTyped
<1>2. SizeInv'
  BY DEF KeptInv, SizeInv, Covers, Width
<1> QED BY <1>1, <1>2 DEF KeptInv, PlaceInv

LEMMA KeptStep ==
  ASSUME SInv, KeptInv, [SessionNext]_sessionVars
  PROVE  KeptInv'
<1> DEFINE Quiet == /\ UNCHANGED <<users, given, job, file, ledger, diskSize>>
                    /\ UNCHANGED <<ramSize, ready, blind, acked, half>>
           Placed == /\ screen' \in Screens /\ tName' \in Typeable \cup {<<>>}
                     /\ users' = <<>> => cur' = 0
<1>1. screen \in Screens /\ tName \in Typeable \cup {<<>>} /\ (users = <<>> => cur = 0)
  BY DEF KeptInv, PlaceInv
<1>2. ASSUME Quiet, Placed PROVE KeptInv'
  BY <1>2, QuietKeepsKept DEF KeptInv, PlaceInv
<1>3. CASE SwitchOn
  <2>1. UNCHANGED <<screen, tName>> /\ PowerOn
    BY <1>3 DEF SwitchOn
  <2> QED BY <1>1, <2>1, PowerOnKeepsKept DEF Restarted, KeptInv, PlaceInv
<1>4. CASE SwitchOff
  <2>1. screen' = "off" /\ tName' = <<>> /\ PowerOff
    BY <1>4 DEF SwitchOff
  <2> QED BY <2>1, PowerOffKeepsKept DEF Restarted, KeptInv, PlaceInv, Screens
<1>5. CASE Write
  <2>1. UNCHANGED <<screen, tName>> /\ Storing
    BY <1>5 DEF Write, ui
  <2> QED BY <1>1, <2>1, StoringKeepsKept DEF KeptInv, PlaceInv
<1>6. CASE CommitUser
  <2>1. screen' = "another" /\ tName' = tName
    BY <1>6 DEF CommitUser
  <2>2. CASE Add(fName, fPass)
    <3>1. fName \in Names \cup {NoText}
      BY DEF SInv, ScreenInv
    <3>2. UNCHANGED <<ready, blind, half>>
      BY <2>2 DEF Add, reported
    <3> QED BY <1>1, <2>1, <2>2, <3>1, <3>2, AddKeepsKept DEF KeptInv, PlaceInv, Screens, Onboarding
  <2>3. CASE AddRefused(fName, fPass)
    <3>1. Quiet /\ cur' = cur
      BY <2>3 DEF AddRefused, vars
    <3> QED BY <1>1, <1>2, <2>1, <3>1 DEF Screens, Onboarding
  <2> QED BY <1>6, <2>2, <2>3 DEF CommitUser
<1>7. CASE OtherUser
  <2>1. Quiet /\ UNCHANGED <<screen, tName>>
    BY <1>7 DEF OtherUser, store, reported, ui
  <2>2. users # <<>>
    BY <1>7, EmptyIsSeq DEF OtherUser
  <2> QED BY <1>1, <1>2, <2>1, <2>2
<1>8. CASE TextLogIn
  <2> DEFINE found == Matches(tName, typed)
  <2>1. Quiet /\ tName' = tName /\ screen' \in {screen, "home"}
    BY <1>8 DEF TextLogIn, store, reported
  <2>2. users = <<>> => cur' = cur
    <3>1. users = <<>> => found = {}
      BY EmptyIsSeq DEF Matches
    <3> QED BY <1>8, <3>1 DEF TextLogIn
  <2> QED BY <1>1, <1>2, <2>1, <2>2 DEF Screens
<1>9. ASSUME UNCHANGED vars, screen' \in Screens, tName' \in Typeable \cup {<<>>} PROVE KeptInv'
  BY <1>1, <1>2, <1>9 DEF vars
<1>10. CASE FirstUse
  BY <1>1, <1>9, <1>10 DEF FirstUse, FirstScreen, Screens, Onboarding
<1>11. CASE Back
  BY <1>1, <1>9, <1>11 DEF Back, StepBack, Screens, Onboarding
<1>12. CASE TypeField \/ Forward \/ Connect \/ AddAnother \/ LeaveOnboarding
  BY <1>1, <1>9, <1>12 DEF TypeField, Forward, Connect, AddAnother,
     LeaveOnboarding, AtStep,
     Screens, Onboarding
<1>13. CASE TypePass \/ LogIn \/ LogOut \/ ChooseLanguage \/ TypeText
  BY <1>1, <1>9, <1>13 DEF TypePass, LogIn, LogOut, ChooseLanguage, TypeText,
     Screens
<1>14. CASE UNCHANGED sessionVars
  BY <1>1, <1>9, <1>14 DEF sessionVars, ui
<1> QED BY <1>3, <1>4, <1>5, <1>6, <1>7, <1>8, <1>10, <1>11, <1>12, <1>13, <1>14 DEF SessionNext, FirstSteps

LEMMA InitKept == SessionInit => KeptInv
<1> SUFFICES ASSUME SessionInit PROVE KeptInv
  OBVIOUS
<1>1. /\ users = <<>> /\ given = <<>> /\ job = "off" /\ ready = FALSE /\ blind = FALSE
      /\ half = FALSE /\ cur = 0 /\ screen = "off" /\ tName = <<>> /\ diskSize = Size(file)
  BY DEF SessionInit, Init
<1>2. PICK l \in Legacy \cup {<<>>} :
        /\ file = IF l = <<>> THEN NoAccounts(TRUE)
                  ELSE [hashed |-> FALSE,
                        accounts |-> [i \in 1 .. Len(l) |->
                           [name |-> l[i].name, pass |-> Plain(l[i].text)]]]
        /\ ledger = l /\ acked = Len(l)
  BY DEF SessionInit, Init
<1>3. /\ Len(l) \in Nat /\ Len(l) <= MaxUsers /\ (l = <<>> <=> Len(l) = 0)
      /\ l # <<>> => l \in Seq([name : Names, text : Passes])
  <2>1. CASE l = <<>>
    BY <2>1, EmptyIsSeq, AccountsAssumption
  <2>2. CASE l # <<>>
    <3>1. l \in Seq([name : Names, text : Passes]) /\ Len(l) <= MaxUsers
      BY <2>2, AccountsAssumption
    <3>2. IsSeq(l)
      BY <3>1 DEF IsSeq
    <3> QED BY <2>2, <3>1, <3>2, LengthIsNat
  <2> QED BY <2>1, <2>2
<1>4. /\ l = <<>> => file.hashed = TRUE
      /\ l # <<>> => file.hashed = FALSE
      /\ Len(file.accounts) = Len(l)
      /\ \A i \in 1 .. Len(l) : AsTyped(file.accounts[i], l[i])
  <2>1. CASE l = <<>>
    <3>1. file.hashed = TRUE /\ file.accounts = <<>>
      BY <1>2, <2>1 DEF NoAccounts
    <3>2. Len(l) = 0 /\ Len(file.accounts) = 0
      BY <2>1, <3>1, EmptyIsSeq
    <3> QED BY <2>1, <3>1, <3>2
  <2>2. CASE l # <<>>
    <3> DEFINE R == [name : Names, text : Passes]
               acc(i) == [name |-> l[i].name, pass |-> Plain(l[i].text)]
               a == [i \in 1 .. Len(l) |-> acc(i)]
    <3>1. file.hashed = FALSE /\ file.accounts = a
      BY <1>2, <2>2
    <3>2. Len(a) = Len(l)
      <4> HIDE DEF acc
      <4> QED BY <1>3
    <3>3. \A i \in 1 .. Len(l) : l[i] \in R
      <4>1. l \in Seq(R)
        BY <1>3, <2>2
      <4> HIDE DEF R
      <4> QED BY <4>1
    <3>4. \A i \in 1 .. Len(l) : a[i].name = l[i].name /\ a[i].pass.text = l[i].text
      BY DEF Plain
    <3>5. \A i \in 1 .. Len(l) : AsTyped(a[i], l[i])
      <4> HIDE DEF a
      <4> QED BY <3>3, <3>4 DEF AsTyped
    <3> HIDE DEF a
    <3> QED BY <2>2, <3>1, <3>2, <3>5
  <2> QED BY <2>1, <2>2
<1>5. AccountInv
  <2>1. Len(users) = 0
    BY <1>1, EmptyIsSeq
  <2>2. Len(users) <= MaxUsers /\ Len(ledger) <= MaxUsers
    BY <1>2, <1>3, <2>1, AccountsAssumption
  <2>3. \A i \in 1 .. Len(ledger) : AsTyped(file.accounts[i], ledger[i])
    BY <1>2, <1>4
  <2>4. \A i \in 1 .. Len(users) : FALSE
    BY <2>1
  <2> QED BY <2>2, <2>3, <2>4 DEF AccountInv
<1>6. diskSize = Len(l) * Width(file) /\ Width(file) \in Nat \ {0}
  BY <1>1, <1>4, WidthPositive DEF Size
<1>7. Covers(diskSize)
  <2>1. Len(l) \in 0 .. MaxUsers /\ acked <= Len(l)
    BY <1>2, <1>3, AccountsAssumption
  <2> QED BY <1>6, <2>1 DEF Covers
<1>10. SizeInv
  <2>1. acked \in Nat /\ acked <= Len(ledger)
    BY <1>2, <1>3
  <2> QED BY <1>1, <1>7, <2>1 DEF SizeInv
<1>11. PlaceInv
  BY <1>1 DEF PlaceInv, Jobs, Screens
<1> QED BY <1>5, <1>10, <1>11 DEF KeptInv

LEMMA AlwaysKept == SessionSpec => [](SInv /\ KeptInv)
<1>1. SessionInit => SInv /\ KeptInv
  BY InitInv, InitKept
<1>2. (SInv /\ KeptInv) /\ [SessionNext]_sessionVars => (SInv /\ KeptInv)'
  BY StepInv, KeptStep
<1> QED BY <1>1, <1>2, PTL DEF SessionSpec

(* userdb_add and userdb_load: an account whose save was reported is there *)
(* after every power-on that reads users.db, under its name, and opens with*)
(* its password unless its slug got a digit, whatever writes failed or     *)
(* power was lost, until a format, a save over a file that could not be    *)
(* read, or a migration cut short takes it away.                           *)
THEOREM ReportedAccountsKept == SessionSpec => []AccountsKept
<1>1. ASSUME SInv, KeptInv PROVE AccountsKept
  <2>1. /\ Len(users) \in Nat /\ Len(users) = Len(given) /\ cur \in Nat
        /\ users # <<>> => cur < Len(users)
        /\ Len(users) <= MaxUsers
    BY <1>1, LengthIsNat DEF SInv, TableInv, KeptInv, AccountInv
  <2>2. cur \in 0 .. MaxUsers - 1
    <3>1. users = <<>> => cur = 0
      BY <1>1 DEF KeptInv, PlaceInv
    <3> QED BY <2>1, <3>1, AccountsAssumption
  <2>3. \A i \in 1 .. Len(users) :
          users[i].name \in Names /\ users[i].pass.text \in Passes \cup {Cut}
    BY <1>1 DEF SInv, TableInv, Keeps, KeptInv, AccountInv, AsTyped
  <2>4. TypeOK
    BY <1>1, <2>1, <2>2, <2>3 DEF TypeOK, SInv, ScreenInv, KeptInv, PlaceInv
  <2>5. SavedOpen
    <3> SUFFICES ASSUME ready, ~blind
                 PROVE  /\ acked <= Len(users)
                        /\ \A i \in 1 .. acked :
                             /\ users[i].name = given[i].name
                             /\ KeptSlug(i) => Opens(i, given[i].text)
      BY DEF SavedOpen
    <3>1. acked <= Len(users) /\ acked \in Nat
      BY <1>1 DEF KeptInv, SizeInv
    <3>2. ASSUME NEW i \in 1 .. acked
          PROVE  /\ users[i].name = given[i].name
                 /\ KeptSlug(i) => Opens(i, given[i].text)
      <4>1. i \in 1 .. Len(users)
        BY <2>1, <3>1
      <4>2. /\ AsTyped(users[i], given[i])
            /\ users[i].slug \in {SlugOf[users[i].name], users[i].pass.salt}
        BY <1>1, <4>1 DEF KeptInv, AccountInv
      <4>3. /\ users[i].name = given[i].name /\ users[i].pass.text = given[i].text
        BY <4>2 DEF AsTyped
      <4>4. KeptSlug(i) => users[i].slug = users[i].pass.salt
        BY <4>2 DEF KeptSlug
      <4>5. users[i].pass = [salt |-> users[i].pass.salt, text |-> users[i].pass.text]
        BY <1>1, <4>1 DEF SInv, TableInv, Keeps
      <4> QED BY <4>3, <4>4, <4>5 DEF Opens, Hash
    <3> QED BY <3>1, <3>2
  <2> QED BY <2>4, <2>5 DEF AccountsKept
<1> QED BY <1>1, AlwaysKept, PTL

-----------------------------------------------------------------------------
(* Loops: a set of numbers has a least one, a loop's values exist one step  *)
(* after another, and what each step keeps holds at the end.               *)
LEMMA LeastElement ==
  ASSUME NEW T \in SUBSET Nat, T # {}
  PROVE  \E x \in T : \A y \in T : x <= y
<1> DEFINE R == {pair \in Nat \X Nat : pair[1] < pair[2]}
<1>1. IsWellFoundedOn(R, Nat)
  <2>1. OpToRel(<, Nat) = R
    BY DEF OpToRel
  <2> QED BY <2>1, NatLessThanWellFounded
<1>2. PICK x \in T : \A y \in T : ~ (<<y, x>> \in R)
  BY <1>1, WFMin
<1>3. ASSUME NEW y \in T PROVE x <= y
  <2>1. x \in Nat /\ y \in Nat
    OBVIOUS
  <2>2. y < x => <<y, x>> \in R
    BY <2>1
  <2> QED BY <1>2, <2>1, <2>2
<1> QED BY <1>3

\* The values of a loop that starts at base and applies step[1] .. step[n].
LEMMA Stepwise ==
  ASSUME NEW R, NEW base \in R, NEW n \in Nat, NEW step \in [1 .. n -> [R -> R]]
  PROVE  \E f : f \in [0 .. n -> R] /\ f[0] = base /\ \A k \in 1 .. n : f[k] = step[k][f[k - 1]]
<1> DEFINE Is(f, m) == /\ f \in [0 .. m -> R] /\ f[0] = base
                       /\ \A k \in 1 .. m : f[k] = step[k][f[k - 1]]
           B == {m \in 0 .. n : ~ \E f : Is(f, m)}
<1>1. ASSUME B # {} PROVE FALSE
  <2>1. B \in SUBSET Nat
    OBVIOUS
  <2>2. PICK m \in B : \A l \in B : m <= l
    <3> HIDE DEF B
    <3> QED BY <1>1, <2>1, LeastElement
  <2>3. m \in 0 .. n /\ ~ \E f : Is(f, m)
    BY <2>2
  <2>4. CASE m = 0
    <3>1. Is([k \in 0 .. 0 |-> base], 0)
      OBVIOUS
    <3> QED BY <2>3, <2>4, <3>1
  <2>5. CASE m # 0
    <3>1. m - 1 \in 0 .. n /\ m \in 1 .. n
      BY <2>3, <2>5
    <3>2. m - 1 \notin B
      <4> HIDE DEF B
      <4> QED BY <2>2, <3>1
    <3>3. PICK f : Is(f, m - 1)
      BY <3>1, <3>2
    <3> DEFINE g == [k \in 0 .. m |-> IF k = m THEN step[m][f[m - 1]] ELSE f[k]]
    <3>4. f[m - 1] \in R /\ step[m][f[m - 1]] \in R
      BY <3>1, <3>3
    <3>5. g \in [0 .. m -> R] /\ g[0] = base
      BY <3>1, <3>3, <3>4
    <3>6. ASSUME NEW k \in 1 .. m PROVE g[k] = step[k][g[k - 1]]
      <4>1. k - 1 \in 0 .. m /\ k - 1 # m
        BY <3>1
      <4>2. g[k - 1] = f[k - 1]
        BY <4>1
      <4>3. CASE k = m
        BY <4>2, <4>3
      <4>4. CASE k # m
        <5>1. k \in 1 .. (m - 1)
          BY <3>1, <4>4
        <5> QED BY <3>3, <4>2, <4>4, <5>1
      <4> QED BY <4>3, <4>4
    <3>7. Is(g, m)
      BY <3>5, <3>6
    <3> QED BY <2>3, <3>7
  <2> QED BY <2>4, <2>5
<1>2. n \notin B
  BY <1>1
<1> QED BY <1>2

\* Induction up to n.
LEMMA UpTo ==
  ASSUME NEW n \in Nat, NEW T, 0 \in T, \A k \in 1..n : k - 1 \in T => k \in T
  PROVE  \A k \in 0..n : k \in T
<1> DEFINE B == {k \in 0..n : k \notin T}
<1>1. SUFFICES ASSUME B # {} PROVE FALSE
  OBVIOUS
<1>2. B \in SUBSET Nat
  OBVIOUS
<1>3. PICK k \in B : \A l \in B : k <= l
  <2> HIDE DEF B
  <2> QED BY <1>1, <1>2, LeastElement
<1>4. k \in 1..n /\ k - 1 \in 0..n /\ k \notin T
  BY <1>3
<1>5. k - 1 \notin B
  <2> HIDE DEF B
  <2> QED BY <1>3, <1>4
<1> QED BY <1>4, <1>5

-----------------------------------------------------------------------------
(* The mouse.  A reader's copy is the first event of the ring still, but   *)
(* for where a move has gone on to; the newest event knows where the       *)
(* pointer is.                                                             *)

Rings == {m \in [ring : Seq(Events), stale : BOOLEAN, lostUp : BOOLEAN] : Len(m.ring) <= RingCap}

Newest(m, p) == ~m.stale => IF m.ring = <<>> THEN lastSeen = p ELSE m.ring[Len(m.ring)].x = p

Copy(m) == copied # NoEvent =>
    /\ m.ring # <<>> /\ copied.kind = m.ring[1].kind
    /\ copied.kind # "move" => copied = m.ring[1]
    /\ Len(m.ring) = 1 /\ ~m.stale => copied.x = m.ring[1].x

(* The last news of the left button in the ring, if it was let go and the  *)
(* release was not dropped, is that release.                               *)
IsLeftDown(e) == e.kind = "down" /\ e.button = "left"
Follows(r) ==
    /\ \A i \in 1..Len(r) : IsLeftDown(r[i]) => \E j \in 1..Len(r) : j > i /\ IsLeftUp(r[j])
    /\ drag # None => \E j \in 1..Len(r) : IsLeftUp(r[j])
LeftOrder(m) == ~m.lostUp => Follows(m.ring)

MouseNow == [ring |-> ring, stale |-> stale, lostUp |-> lostUp]

MouseTypes ==
    /\ pointer \in Positions /\ lastSeen \in Positions
    /\ down \in SUBSET Range(Buttons) /\ copied \in Events \cup {NoEvent}
    /\ MouseNow \in Rings

MouseInv ==
    /\ MouseTypes
    /\ Newest(MouseNow, pointer) /\ Copy(MouseNow)
    /\ "left" \notin down => LeftOrder(MouseNow)

(* The desktop as its handlers pass it on. *)
UiStates ==
    [win : [Slots -> Kinds \cup {None}], z : Seq(Slots), over : SUBSET {"menu", "spot", "ctx"},
     n : 0..SpotMax, sel : 0..SpotMax, drag : Slots \cup {None}, grabbed : BOOLEAN,
     logout : BOOLEAN]
(* A stack holds each of these slots once and nothing else. *)
Holds(q, S) ==
    /\ q \in Seq(Slots)
    /\ \A i, j \in 1..Len(q) : q[i] = q[j] => i = j
    /\ \A t \in Slots : t \in S <=> \E i \in 1..Len(q) : q[i] = t

UsedIn(u) == {s \in Slots : u.win[s] # None}
Distinct(w) == \A s, t \in Slots : w[s] # None /\ w[s] = w[t] /\ w[s] # "term" => s = t
Stacked(u) == Holds(u.z, UsedIn(u)) /\ Distinct(u.win)
Overlays == {{}, {"menu"}, {"spot"}, {"ctx"}}
OneOver(u) ==
    /\ u.over \in Overlays
    /\ "spot" \in u.over => u.sel < u.n \/ u.sel = 0
Dragged(u) == u.drag # None => u.drag \in UsedIn(u) /\ u.grabbed
UiOK(u) == u \in UiStates /\ Stacked(u) /\ OneOver(u) /\ Dragged(u)

DesktopInv ==
    /\ MouseInv /\ UiOK(Ui)
    /\ prevLeft \in BOOLEAN /\ pc \in {"top", "widgets", "shell", "off"}

-----------------------------------------------------------------------------
(* The stack *)

LEMMA PushedOn ==
  ASSUME NEW q, NEW S \in SUBSET Slots, Holds(q, S), NEW s \in Slots, s \notin S
  PROVE  Holds(Append(q, s), S \cup {s})
<1> DEFINE r == Append(q, s)
<1>1. q \in Seq(Slots) /\ r \in Seq(Slots) /\ Len(r) = Len(q) + 1
  BY DEF Holds
<1>2. \A i \in 1..Len(q) : r[i] = q[i] /\ q[i] \in Slots
  BY <1>1
<1>3. r[Len(q) + 1] = s
  BY <1>1
<1>4. \A i \in 1..Len(q) : q[i] # s
  BY DEF Holds
<1>5. 1..Len(r) = 1..Len(q) \cup {Len(q) + 1} /\ Len(q) + 1 \notin 1..Len(q)
  BY <1>1
<1> HIDE DEF r
<1>6. ASSUME NEW i \in 1..Len(r), NEW j \in 1..Len(r), r[i] = r[j] PROVE i = j
  <2>1. CASE i \in 1..Len(q) /\ j \in 1..Len(q)
    BY <1>2, <1>6, <2>1 DEF Holds
  <2>2. CASE i \notin 1..Len(q) \/ j \notin 1..Len(q)
    BY <1>2, <1>3, <1>4, <1>5, <1>6, <2>2
  <2> QED BY <2>1, <2>2
<1>7. ASSUME NEW t \in Slots PROVE t \in S \cup {s} <=> \E i \in 1..Len(r) : r[i] = t
  <2>1. t \in S <=> \E i \in 1..Len(q) : r[i] = t
    BY <1>2 DEF Holds
  <2> QED BY <1>3, <1>5, <2>1
<1>8. Holds(r, S \cup {s})
  BY <1>1, <1>6, <1>7 DEF Holds
<1> QED BY <1>8 DEF r

Kept(r, e, s) == IF e = s THEN r ELSE Append(r, e)
Stacks == Seq(Slots)

LEMMA WithoutExists ==
  ASSUME NEW q, NEW s
  PROVE  q \in Stacks =>
           \E f : f = [i \in 0..Len(q) |-> IF i = 0 THEN <<>> ELSE Kept(f[i - 1], q[i], s)]
<1>0. SUFFICES ASSUME q \in Stacks
      PROVE  \E f : f = [i \in 0..Len(q) |-> IF i = 0 THEN <<>> ELSE Kept(f[i - 1], q[i], s)]
  OBVIOUS
<1> DEFINE n == Len(q)
           none == <<>>
           step == [i \in 1..n |-> [r \in Stacks |-> Kept(r, q[i], s)]]
<1>1. n \in Nat
  BY <1>0 DEF Stacks
<1>2. none \in Stacks
  BY DEF Stacks
<1>3. step \in [1..n -> [Stacks -> Stacks]]
  BY <1>0 DEF Stacks, Kept
<1> HIDE DEF n, step, none
<1>4. PICK f : f \in [0..n -> Stacks] /\ f[0] = none /\ \A i \in 1..n : f[i] = step[i][f[i - 1]]
  BY <1>1, <1>2, <1>3, Stepwise
<1>5. ASSUME NEW i \in 1..n PROVE f[i] = Kept(f[i - 1], q[i], s)
  <2>1. i - 1 \in 0..n
    BY <1>1
  <2>2. f[i - 1] \in Stacks
    BY <1>4, <2>1
  <2> QED BY <1>4, <2>2 DEF step
<1>6. f = [i \in 0..n |-> IF i = 0 THEN none ELSE Kept(f[i - 1], q[i], s)]
  <2>1. \A i \in 0..n : i = 0 \/ i \in 1..n
    BY <1>1
  <2> QED BY <1>4, <1>5, <2>1
<1> QED BY <1>6 DEF n, none

LEMMA WithoutGives ==
  ASSUME NEW q, NEW S \in SUBSET Slots, Holds(q, S), NEW s \in Slots
  PROVE  Holds(Without(q, s), S \ {s})
<1> DEFINE n == Len(q)
           Solves(f) == f = [i \in 0..n |-> IF i = 0 THEN <<>> ELSE Kept(f[i - 1], q[i], s)]
           u == CHOOSE f : Solves(f)
           Below(i) == {t \in Slots : \E j \in 1..i : q[j] = t}
           T == {i \in 0..n : Holds(u[i], Below(i) \ {s})}
<1>1. n \in Nat /\ q \in Seq(Slots) /\ \A i \in 1..n : q[i] \in Slots
  BY DEF Holds
<1>2. \E f : Solves(f)
  <2>1. q \in Stacks
    BY <1>1 DEF Stacks
  <2> QED BY <2>1, WithoutExists
<1>3. Solves(u)
  BY <1>2
<1>4. Without(q, s) = u[n]
  BY DEF Without, Kept
<1> HIDE DEF u, n
<1>5. 0 \in T
  <2>1. u[0] = <<>> /\ 0 \in 0..n
    BY <1>1, <1>3
  <2>2. Below(0) = {}
    OBVIOUS
  <2>3. Holds(<<>>, {})
    BY DEF Holds
  <2>4. Below(0) \ {s} = {}
    BY <2>2
  <2> HIDE DEF Below
  <2> QED BY <2>1, <2>3, <2>4
<1>6. ASSUME NEW i \in 1..n, i - 1 \in T PROVE i \in T
  <2>1. i \in 0..n /\ i # 0 /\ i - 1 \in 0..n /\ q[i] \in Slots
    BY <1>1
  <2>2. u[i] = IF q[i] = s THEN u[i - 1] ELSE Append(u[i - 1], q[i])
    BY <1>3, <2>1 DEF Kept
  <2>3. Holds(u[i - 1], Below(i - 1) \ {s})
    BY <1>6
  <2>4. Below(i) = Below(i - 1) \cup {q[i]}
    <3>1. 1..i = 1..(i - 1) \cup {i}
      BY <1>1
    <3> QED BY <2>1, <3>1
  <2>5. q[i] \notin Below(i - 1)
    <3>1. ASSUME NEW j \in 1..(i - 1) PROVE q[j] # q[i]
      <4>1. j \in 1..n /\ j # i
        BY <1>1
      <4> QED BY <4>1 DEF Holds, n
    <3> QED BY <3>1
  <2>6. CASE q[i] = s
    <3>1. Below(i) \ {s} = Below(i - 1) \ {s}
      BY <2>4, <2>6
    <3> HIDE DEF Below
    <3> QED BY <2>1, <2>2, <2>3, <2>6, <3>1
  <2>7. CASE q[i] # s
    <3> DEFINE B == Below(i - 1) \ {s}
    <3>1. Below(i) \ {s} = B \cup {q[i]} /\ q[i] \notin B /\ B \in SUBSET Slots
      BY <2>4, <2>5, <2>7
    <3>2. Holds(u[i - 1], B)
      BY <2>3
    <3> HIDE DEF B
    <3>3. Holds(Append(u[i - 1], q[i]), B \cup {q[i]})
      BY <2>1, <3>1, <3>2, PushedOn
    <3> HIDE DEF Below
    <3> QED BY <2>1, <2>2, <2>7, <3>1, <3>3
  <2> QED BY <2>6, <2>7
<1>7. n \in T
  <2> HIDE DEF T
  <2>1. n \in 0..n
    BY <1>1
  <2> QED BY <1>1, <1>5, <1>6, <2>1, UpTo
<1>8. Below(n) = S
  BY DEF Holds, n
<1> HIDE DEF Below
<1> QED BY <1>4, <1>7, <1>8

(* z_raise: the slot is on top of what else was there. *)
LEMMA RaiseGives ==
  ASSUME NEW u, NEW S \in SUBSET Slots, Holds(u.z, S), NEW s \in Slots, u \in UiStates
  PROVE  Holds(Raise(u, s).z, S \cup {s}) /\ Raise(u, s) = [u EXCEPT !.z = Raise(u, s).z]
<1> DEFINE q == Append(Without(u.z, s), s)
<1>1. Holds(Without(u.z, s), S \ {s})
  BY WithoutGives
<1>2. Holds(q, (S \ {s}) \cup {s})
  BY <1>1, PushedOn
<1>3. (S \ {s}) \cup {s} = S \cup {s}
  OBVIOUS
<1>4. Raise(u, s) = [u EXCEPT !.z = q]
  BY DEF Raise
<1> HIDE DEF q
<1>5. Raise(u, s).z = q
  BY <1>4 DEF UiStates
<1> QED BY <1>2, <1>3, <1>4, <1>5

-----------------------------------------------------------------------------
(* mouse_push *)

LEMMA EventKinds ==
  /\ \A p \in Positions : Move(p) \in Events /\ Move(p).x = p /\ Move(p).kind = "move"
                          /\ ~IsLeftUp(Move(p)) /\ ~IsLeftDown(Move(p))
  /\ \A k \in {"down", "up"}, b \in Range(Buttons), p \in Positions :
       /\ Edge(k, b, p) \in Events /\ Edge(k, b, p).x = p /\ Edge(k, b, p).kind = k
       /\ Edge(k, b, p).button = b
  /\ \A e \in Events : /\ e.x \in Positions
                       /\ e.kind = "move" => e = Move(e.x)
                       /\ e.kind # "move" => e.kind \in {"down", "up"}
<1>1. \A p \in Positions : Move(p) \in Events /\ Move(p).x = p /\ Move(p).kind = "move"
                          /\ ~IsLeftUp(Move(p)) /\ ~IsLeftDown(Move(p))
  BY DEF Events, Move, IsLeftUp, IsLeftDown
<1>2. ASSUME NEW k \in {"down", "up"}, NEW b \in Range(Buttons), NEW p \in Positions
      PROVE  /\ Edge(k, b, p) \in Events /\ Edge(k, b, p).x = p /\ Edge(k, b, p).kind = k
             /\ Edge(k, b, p).button = b
  BY DEF Events, Edge
<1>3. ASSUME NEW e \in Events
      PROVE  /\ e.x \in Positions
             /\ e.kind = "move" => e = Move(e.x)
             /\ e.kind # "move" => e.kind \in {"down", "up"}
  <2>1. CASE \E p \in Positions : e = Move(p)
    BY <2>1 DEF Move
  <2>2. CASE \E k \in {"down", "up"}, b \in Range(Buttons), p \in Positions : e = Edge(k, b, p)
    BY <2>2 DEF Edge
  <2>3. (\E p \in Positions : e = Move(p)) \/
        (\E k \in {"down", "up"}, b \in Range(Buttons), p \in Positions : e = Edge(k, b, p))
    BY DEF Events
  <2> QED BY <2>1, <2>2, <2>3
<1> QED BY <1>1, <1>2, <1>3

(* The three ways a push goes. *)
Merged(m, e) == [m.ring EXCEPT ![Len(m.ring)].x = e.x]

LEMMA PushWays ==
  ASSUME NEW m \in Rings, NEW e \in Events
  PROVE  \/ /\ Len(m.ring) = RingCap
            /\ Push(m, e) = [m EXCEPT !.stale = TRUE, !.lostUp = @ \/ IsLeftUp(e)]
         \/ /\ Len(m.ring) < RingCap /\ e.kind = "move" /\ m.ring # <<>>
            /\ m.ring[Len(m.ring)].kind = "move"
            /\ Push(m, e) = [m EXCEPT !.ring = Merged(m, e),
                                      !.stale = copied # NoEvent /\ Len(m.ring) = 1]
         \/ /\ Len(m.ring) < RingCap
            /\ Push(m, e) = [ring |-> Append(m.ring, e), stale |-> FALSE,
                             lostUp |-> m.lostUp /\ ~IsLeftUp(e)]
<1>1. Len(m.ring) \in Nat /\ RingCap \in Nat /\ Len(m.ring) <= RingCap
  BY MouseAssumption DEF Rings
<1>2. CASE Len(m.ring) = RingCap
  BY <1>1, <1>2 DEF Push
<1>3. CASE Len(m.ring) # RingCap /\ Merges(m, e)
  <2>1. Len(m.ring) < RingCap
    BY <1>1, <1>3
  <2>2. e.kind = "move" /\ m.ring # <<>> /\ m.ring[Len(m.ring)].kind = "move"
    BY <1>3 DEF Merges, Last
  <2>3. Push(m, e) = [m EXCEPT !.ring = Merged(m, e), !.stale = copied # NoEvent /\ Len(m.ring) = 1]
    BY <1>3, <2>1 DEF Push, Merged
  <2> QED BY <2>1, <2>2, <2>3
<1>4. CASE Len(m.ring) # RingCap /\ ~Merges(m, e)
  <2>1. Len(m.ring) < RingCap
    BY <1>1, <1>4
  <2>2. Push(m, e) = [ring |-> Append(m.ring, e), stale |-> FALSE, lostUp |-> m.lostUp /\ ~IsLeftUp(e)]
    BY <1>4, <2>1 DEF Push
  <2> QED BY <2>1, <2>2
<1> QED BY <1>2, <1>3, <1>4

(* A merge replaces the position of the last event, a move before and after.*)
LEMMA MergedGives ==
  ASSUME NEW m \in Rings, NEW e \in Events, m.ring # <<>>, m.ring[Len(m.ring)].kind = "move"
  PROVE  /\ Merged(m, e) \in Seq(Events) /\ Len(Merged(m, e)) = Len(m.ring)
         /\ Merged(m, e)[Len(m.ring)] = Move(e.x)
         /\ \A i \in 1..Len(m.ring) : i # Len(m.ring) => Merged(m, e)[i] = m.ring[i]
         /\ \A i \in 1..Len(m.ring) : Merged(m, e)[i].kind = m.ring[i].kind
<1> DEFINE r == m.ring
           n == Len(r)
           q == Merged(m, e)
<1>1. r \in Seq(Events) /\ n \in Nat /\ n \in 1..n
  BY DEF Rings
<1>2. r[n] \in Events /\ r[n].kind = "move"
  BY <1>1
<1>3. r[n] = Move(r[n].x) /\ e.x \in Positions
  <2> HIDE DEF n, r
  <2> QED BY <1>2, EventKinds
<1>4. [r[n] EXCEPT !.x = e.x] = Move(e.x)
  <2>1. \A a, b : [Move(a) EXCEPT !.x = b] = Move(b)
    BY DEF Move
  <2> HIDE DEF n, r
  <2> QED BY <1>3, <2>1
<1>5. q = [r EXCEPT ![n] = Move(e.x)]
  BY <1>4 DEF Merged
<1>6. Move(e.x) \in Events /\ Move(e.x).kind = "move"
  BY <1>3, EventKinds
<1> HIDE DEF q, n, r
<1>7. q \in Seq(Events) /\ Len(q) = n
  <2>1. DOMAIN r = 1..n /\ r \in [1..n -> Events]
    BY <1>1 DEF n
  <2> QED BY <1>1, <1>5, <1>6, <2>1 DEF n
<1>8. q[n] = Move(e.x) /\ \A i \in 1..n : i # n => q[i] = r[i]
  <2>1. DOMAIN r = 1..n
    BY <1>1 DEF n
  <2> QED BY <1>1, <1>5, <2>1
<1>9. \A i \in 1..n : q[i].kind = r[i].kind
  BY <1>2, <1>6, <1>8
<1> QED BY <1>7, <1>8, <1>9 DEF q, n, r

LEMMA AppendGives ==
  ASSUME NEW m \in Rings, NEW e \in Events
  PROVE  /\ Append(m.ring, e) \in Seq(Events) /\ Len(Append(m.ring, e)) = Len(m.ring) + 1
         /\ Len(m.ring) \in Nat
         /\ Append(m.ring, e)[Len(m.ring) + 1] = e
         /\ \A i \in 1..Len(m.ring) : Append(m.ring, e)[i] = m.ring[i]
         /\ Append(m.ring, e) # <<>>
         /\ 1..Len(m.ring) + 1 = 1..Len(m.ring) \cup {Len(m.ring) + 1}
BY DEF Rings

LEMMA PushTypes ==
  ASSUME NEW m \in Rings, NEW e \in Events
  PROVE  Push(m, e) \in Rings
<1>1. m \in [ring : Seq(Events), stale : BOOLEAN, lostUp : BOOLEAN] /\ Len(m.ring) <= RingCap
  BY DEF Rings
<1>2. IsLeftUp(e) \in BOOLEAN /\ (copied # NoEvent /\ Len(m.ring) = 1) \in BOOLEAN
  BY DEF IsLeftUp
<1>3. CASE Push(m, e) = [m EXCEPT !.stale = TRUE, !.lostUp = @ \/ IsLeftUp(e)]
  BY <1>1, <1>2, <1>3 DEF Rings
<1>4. CASE /\ e.kind = "move" /\ m.ring # <<>>
            /\ m.ring[Len(m.ring)].kind = "move"
            /\ Push(m, e) = [m EXCEPT !.ring = Merged(m, e),
                                      !.stale = copied # NoEvent /\ Len(m.ring) = 1]
  <2>1. Merged(m, e) \in Seq(Events) /\ Len(Merged(m, e)) = Len(m.ring)
    BY <1>4, MergedGives
  <2> QED BY <1>1, <1>2, <1>4, <2>1 DEF Rings
<1>5. CASE /\ Len(m.ring) < RingCap
           /\ Push(m, e) = [ring |-> Append(m.ring, e), stale |-> FALSE,
                            lostUp |-> m.lostUp /\ ~IsLeftUp(e)]
  <2> DEFINE r == Append(m.ring, e)
             l == m.lostUp /\ ~IsLeftUp(e)
  <2>1. r \in Seq(Events) /\ Len(r) = Len(m.ring) + 1 /\ Len(m.ring) \in Nat
    BY AppendGives
  <2>2. Len(r) <= RingCap
    BY <1>5, <2>1, MouseAssumption
  <2>3. l \in BOOLEAN
    BY <1>1, <1>2
  <2> HIDE DEF r, l
  <2>4. Push(m, e) = [ring |-> r, stale |-> FALSE, lostUp |-> l]
    BY <1>5 DEF r, l
  <2> QED BY <2>1, <2>2, <2>3, <2>4 DEF Rings
<1> QED BY <1>3, <1>4, <1>5, PushWays

(* The newest event of a push is where the packet put the pointer, or was  *)
(* dropped.                                                                *)
LEMMA PushNewest ==
  ASSUME NEW m \in Rings, NEW e \in Events
  PROVE  Newest(Push(m, e), e.x)
<1>1. m \in [ring : Seq(Events), stale : BOOLEAN, lostUp : BOOLEAN] /\ Len(m.ring) \in Nat
  BY DEF Rings
<1>2. CASE Push(m, e) = [m EXCEPT !.stale = TRUE, !.lostUp = @ \/ IsLeftUp(e)]
  BY <1>1, <1>2 DEF Newest
<1>3. CASE /\ m.ring # <<>> /\ m.ring[Len(m.ring)].kind = "move"
           /\ Push(m, e) = [m EXCEPT !.ring = Merged(m, e),
                                     !.stale = copied # NoEvent /\ Len(m.ring) = 1]
  <2>1. Merged(m, e) \in Seq(Events) /\ Len(Merged(m, e)) = Len(m.ring)
        /\ Merged(m, e)[Len(m.ring)] = Move(e.x)
    BY <1>3, MergedGives
  <2>2. Move(e.x).x = e.x
    BY DEF Move
  <2>3. Push(m, e).ring = Merged(m, e)
    BY <1>1, <1>3
  <2>4. Merged(m, e) # <<>>
    BY <1>1, <1>3, <2>1
  <2> QED BY <2>1, <2>2, <2>3, <2>4 DEF Newest
<1>4. CASE Push(m, e) = [ring |-> Append(m.ring, e), stale |-> FALSE,
                         lostUp |-> m.lostUp /\ ~IsLeftUp(e)]
  <2>1. Push(m, e).ring = Append(m.ring, e)
    BY <1>4
  <2> QED BY <2>1, AppendGives DEF Newest
<1> QED BY <1>2, <1>3, <1>4, PushWays

LEMMA PushCopy ==
  ASSUME NEW m \in Rings, NEW e \in Events, Copy(m)
  PROVE  Copy(Push(m, e))
<1>1. m \in [ring : Seq(Events), stale : BOOLEAN, lostUp : BOOLEAN] /\ Len(m.ring) \in Nat
  BY DEF Rings
<1> SUFFICES ASSUME copied # NoEvent PROVE Copy(Push(m, e))
  BY DEF Copy
<1>2. /\ m.ring # <<>> /\ copied.kind = m.ring[1].kind
      /\ copied.kind # "move" => copied = m.ring[1]
  BY DEF Copy
<1>3. 1 \in 1..Len(m.ring)
  BY <1>1, <1>2
<1>4. CASE Push(m, e) = [m EXCEPT !.stale = TRUE, !.lostUp = @ \/ IsLeftUp(e)]
  BY <1>1, <1>2, <1>4 DEF Copy
<1>5. CASE /\ m.ring # <<>> /\ m.ring[Len(m.ring)].kind = "move"
           /\ Push(m, e) = [m EXCEPT !.ring = Merged(m, e),
                                     !.stale = copied # NoEvent /\ Len(m.ring) = 1]
  <2> DEFINE q == Merged(m, e)
  <2>1. /\ q \in Seq(Events) /\ Len(q) = Len(m.ring)
        /\ \A i \in 1..Len(m.ring) : i # Len(m.ring) => q[i] = m.ring[i]
        /\ \A i \in 1..Len(m.ring) : q[i].kind = m.ring[i].kind
    BY <1>5, MergedGives
  <2>2. Push(m, e).ring = q /\ (Push(m, e).stale <=> Len(m.ring) = 1)
    BY <1>1, <1>5
  <2> HIDE DEF q
  <2>3. q # <<>>
    BY <1>1, <1>3, <2>1
  <2>4. copied.kind = q[1].kind
    BY <1>2, <1>3, <2>1
  <2>5. ASSUME copied.kind # "move" PROVE copied = q[1]
    <3>1. 1 # Len(m.ring)
      BY <1>2, <1>5, <2>5
    <3> QED BY <1>2, <1>3, <2>1, <2>5, <3>1
  <2> QED BY <2>1, <2>2, <2>3, <2>4, <2>5 DEF Copy
<1>6. CASE Push(m, e) = [ring |-> Append(m.ring, e), stale |-> FALSE,
                         lostUp |-> m.lostUp /\ ~IsLeftUp(e)]
  <2>1. Push(m, e).ring = Append(m.ring, e)
    BY <1>6
  <2>2. Append(m.ring, e)[1] = m.ring[1]
    BY <1>3, AppendGives
  <2>3. Len(Append(m.ring, e)) # 1
    BY <1>3, AppendGives
  <2> QED BY <1>2, <2>1, <2>2, <2>3, AppendGives DEF Copy
<1> QED BY <1>4, <1>5, <1>6, PushWays

LEMMA PushOrder ==
  ASSUME NEW m \in Rings, NEW e \in Events, ~IsLeftDown(e), LeftOrder(m) \/ IsLeftUp(e)
  PROVE  LeftOrder(Push(m, e))
<1>1. m \in [ring : Seq(Events), stale : BOOLEAN, lostUp : BOOLEAN] /\ Len(m.ring) \in Nat
  BY DEF Rings
<1>2. CASE Push(m, e) = [m EXCEPT !.stale = TRUE, !.lostUp = @ \/ IsLeftUp(e)]
  <2>1. Push(m, e).ring = m.ring /\ Push(m, e).lostUp = (m.lostUp \/ IsLeftUp(e))
    BY <1>1, <1>2
  <2> QED BY <2>1 DEF LeftOrder
<1>3. CASE /\ e.kind = "move" /\ m.ring # <<>> /\ m.ring[Len(m.ring)].kind = "move"
           /\ Push(m, e) = [m EXCEPT !.ring = Merged(m, e),
                                     !.stale = copied # NoEvent /\ Len(m.ring) = 1]
  <2> DEFINE q == Merged(m, e)
             n == Len(m.ring)
  <2>1. /\ q \in Seq(Events) /\ Len(q) = n
        /\ \A i \in 1..n : i # n => q[i] = m.ring[i]
        /\ \A i \in 1..n : q[i].kind = m.ring[i].kind
    BY <1>3, MergedGives
  <2>2. Push(m, e).ring = q /\ Push(m, e).lostUp = m.lostUp
    BY <1>1, <1>3
  <2>3. LeftOrder(m)
    BY <1>3 DEF IsLeftUp
  <2>4. \A i \in 1..n : /\ IsLeftUp(q[i]) <=> IsLeftUp(m.ring[i])
                        /\ IsLeftDown(q[i]) <=> IsLeftDown(m.ring[i])
    <3> SUFFICES ASSUME NEW i \in 1..n
                 PROVE  /\ IsLeftUp(q[i]) <=> IsLeftUp(m.ring[i])
                        /\ IsLeftDown(q[i]) <=> IsLeftDown(m.ring[i])
      OBVIOUS
    <3>1. CASE i = n
      <4>1. q[i].kind = "move" /\ m.ring[i].kind = "move"
        BY <1>3, <2>1, <3>1
      <4> QED BY <4>1 DEF IsLeftUp, IsLeftDown
    <3>2. CASE i # n
      <4> HIDE DEF q, n
      <4> QED BY <2>1, <3>2
    <3> QED BY <3>1, <3>2
  <2> HIDE DEF q
  <2>5. Follows(m.ring) => Follows(q)
    BY <2>1, <2>4 DEF Follows
  <2> QED BY <2>2, <2>3, <2>5 DEF LeftOrder
<1>4. CASE Push(m, e) = [ring |-> Append(m.ring, e), stale |-> FALSE,
                         lostUp |-> m.lostUp /\ ~IsLeftUp(e)]
  <2> DEFINE q == Append(m.ring, e)
             n == Len(m.ring)
  <2>1. /\ Len(q) = n + 1 /\ n \in Nat /\ q[n + 1] = e
        /\ \A i \in 1..n : q[i] = m.ring[i]
        /\ 1..n + 1 = 1..n \cup {n + 1}
    BY AppendGives
  <2>2. Push(m, e).ring = q /\ Push(m, e).lostUp = (m.lostUp /\ ~IsLeftUp(e))
    BY <1>4
  <2> HIDE DEF q, n
  <2>3. CASE IsLeftUp(e)
    <3>1. \A i \in 1..Len(q) : IsLeftDown(q[i]) => i \in 1..n
      BY <2>1
    <3>2. \A i \in 1..n : n + 1 > i
      BY <2>1
    <3>3. n + 1 \in 1..Len(q) /\ IsLeftUp(q[n + 1])
      BY <2>1, <2>3
    <3> QED BY <2>2, <3>1, <3>2, <3>3 DEF LeftOrder, Follows
  <2>4. CASE ~IsLeftUp(e)
    <3>1. LeftOrder(m)
      BY <2>4
    <3>2. Push(m, e).lostUp = m.lostUp
      BY <1>1, <2>2, <2>4
    <3>3. Follows(m.ring) => Follows(q)
      <4>1. \A i \in 1..Len(q) : IsLeftDown(q[i]) => i \in 1..n
        BY <2>1
      <4>2. 1..n \subseteq 1..Len(q)
        BY <2>1
      <4> QED BY <2>1, <4>1, <4>2 DEF Follows, n
    <3> QED BY <2>2, <3>1, <3>2, <3>3 DEF LeftOrder
  <2> QED BY <2>3, <2>4
<1> QED BY <1>2, <1>3, <1>4, PushWays

(* mouse_handle_byte *)
Turned(m, b, p, now) ==
    IF (b \in down) = (b \in now) THEN m
    ELSE Push(m, Edge(IF b \in now THEN "down" ELSE "up", b, p))
Moved(p) == IF p = pointer THEN MouseNow ELSE Push(MouseNow, Move(p))

LEMMA ButtonsAre ==
  /\ Len(Buttons) \in Nat
  /\ \A i \in 1..Len(Buttons) : Buttons[i] \in Range(Buttons)
  /\ \A b \in Range(Buttons) : \E i \in 1..Len(Buttons) : Buttons[i] = b
<1>1. Buttons \in Seq(Range(Buttons))
  BY MouseAssumption
<1> DEFINE B == Range(Buttons)
<1>2. Len(Buttons) \in Nat /\ DOMAIN Buttons = 1..Len(Buttons)
  BY <1>1
<1>3. \A b \in Range(Buttons) : \E i \in 1..Len(Buttons) : Buttons[i] = b
  BY <1>2 DEF Range
<1>4. \A i \in 1..Len(Buttons) : Buttons[i] \in Range(Buttons)
  BY <1>2 DEF Range
<1> QED BY <1>2, <1>3, <1>4

LEMMA EdgeIs ==
  ASSUME NEW b \in Range(Buttons), NEW p \in Positions, NEW now
  PROVE  LET e == Edge(IF b \in now THEN "down" ELSE "up", b, p)
         IN  /\ e \in Events /\ e.x = p
             /\ IsLeftUp(e) <=> b = "left" /\ b \notin now
             /\ IsLeftDown(e) <=> b = "left" /\ b \in now
<1> DEFINE e == Edge(IF b \in now THEN "down" ELSE "up", b, p)
<1>1. e \in Events
  BY EventKinds
<1>2. e = [kind |-> IF b \in now THEN "down" ELSE "up", button |-> b, x |-> p]
  BY DEF Edge
<1>3. e.x = p /\ e.button = b /\ e.kind = IF b \in now THEN "down" ELSE "up"
  BY <1>2
<1> HIDE DEF e
<1> QED BY <1>1, <1>3 DEF IsLeftUp, IsLeftDown, e

LEMMA TurnedTypes ==
  ASSUME NEW m \in Rings, NEW b \in Range(Buttons), NEW p \in Positions, NEW now
  PROVE  Turned(m, b, p, now) \in Rings
BY EdgeIs, PushTypes DEF Turned

LEMMA TurnedExist ==
  ASSUME NEW p \in Positions, NEW now
  PROVE  Moved(p) \in Rings =>
           \E f : f = [i \in 0..Len(Buttons) |->
                         IF i = 0 THEN Moved(p) ELSE Turned(f[i - 1], Buttons[i], p, now)]
<1>0. SUFFICES ASSUME Moved(p) \in Rings
      PROVE  \E f : f = [i \in 0..Len(Buttons) |->
                           IF i = 0 THEN Moved(p) ELSE Turned(f[i - 1], Buttons[i], p, now)]
  OBVIOUS
<1>start. PICK m : m = Moved(p)
  OBVIOUS
<1> DEFINE n == Len(Buttons)
           sf == [i \in 1..n |-> [r \in Rings |-> Turned(r, Buttons[i], p, now)]]
<1>1. n \in Nat
  BY ButtonsAre
<1>2. sf \in [1..n -> [Rings -> Rings]]
  BY ButtonsAre, TurnedTypes
<1> HIDE DEF n, sf
<1>3. PICK turns : turns = sf
  OBVIOUS
<1>4. PICK f : f \in [0..n -> Rings] /\ f[0] = m /\ \A i \in 1..n : f[i] = turns[i][f[i - 1]]
  <2>1. turns \in [1..n -> [Rings -> Rings]]
    BY <1>2, <1>3
  <2>2. m \in Rings
    BY <1>0, <1>start
  <2> QED BY <1>1, <2>1, <2>2, Stepwise
<1>5. ASSUME NEW i \in 1..n PROVE f[i] = Turned(f[i - 1], Buttons[i], p, now)
  <2>1. i - 1 \in 0..n
    BY <1>1
  <2>2. f[i - 1] \in Rings
    BY <1>4, <2>1
  <2>3. f[i] = sf[i][f[i - 1]]
    BY <1>3, <1>4
  <2> QED BY <2>2, <2>3 DEF sf
<1>6. f = [i \in 0..n |-> IF i = 0 THEN Moved(p) ELSE Turned(f[i - 1], Buttons[i], p, now)]
  <2>1. \A i \in 0..n : i = 0 \/ i \in 1..n
    BY <1>1
  <2> QED BY <1>start, <1>4, <1>5, <2>1
<1> QED BY <1>6 DEF n

(* What holds after i buttons of a packet. *)
InPacket(m, p, now, i) ==
    /\ m \in Rings /\ Newest(m, p) /\ Copy(m)
    /\ "left" \notin now /\ ("left" \notin down \/ \E k \in 1..i : Buttons[k] = "left")
         => LeftOrder(m)

LEMMA MovedKeeps ==
  ASSUME MouseInv, NEW p \in Positions, NEW now
  PROVE  InPacket(Moved(p), p, now, 0)
<1>1. /\ MouseNow \in Rings /\ Newest(MouseNow, pointer) /\ Copy(MouseNow)
      /\ "left" \notin down => LeftOrder(MouseNow)
  BY DEF MouseInv, MouseTypes
<1>2. ~ \E k \in 1..0 : Buttons[k] = "left"
  OBVIOUS
<1>3. CASE p = pointer
  BY <1>1, <1>2, <1>3 DEF Moved, InPacket
<1>4. CASE p # pointer
  <2>1. Move(p) \in Events /\ Move(p).x = p /\ ~IsLeftDown(Move(p))
    BY EventKinds
  <2>2. Push(MouseNow, Move(p)) \in Rings
    BY <1>1, <2>1, PushTypes
  <2>3. Newest(Push(MouseNow, Move(p)), Move(p).x)
    BY <1>1, <2>1, PushNewest
  <2>4. Copy(Push(MouseNow, Move(p)))
    BY <1>1, <2>1, PushCopy
  <2>5. "left" \notin down => LeftOrder(Push(MouseNow, Move(p)))
    BY <1>1, <2>1, PushOrder
  <2> QED BY <1>2, <1>4, <2>1, <2>2, <2>3, <2>4, <2>5 DEF Moved, InPacket
<1> QED BY <1>3, <1>4

LEMMA TurnedKeeps ==
  ASSUME NEW p \in Positions, NEW now, NEW i \in 1..Len(Buttons), NEW m, InPacket(m, p, now, i - 1)
  PROVE  InPacket(Turned(m, Buttons[i], p, now), p, now, i)
<1> DEFINE b == Buttons[i]
           e == Edge(IF b \in now THEN "down" ELSE "up", b, p)
           r == Turned(m, b, p, now)
<1>1. b \in Range(Buttons)
  BY ButtonsAre
<1>2. /\ e \in Events /\ e.x = p
      /\ IsLeftUp(e) <=> b = "left" /\ b \notin now
      /\ IsLeftDown(e) <=> b = "left" /\ b \in now
  <2> HIDE DEF b
  <2> QED BY <1>1, EdgeIs
<1>3. m \in Rings /\ Newest(m, p) /\ Copy(m)
  BY DEF InPacket
<1>4. (\E k \in 1..i : Buttons[k] = "left") => b = "left" \/ \E k \in 1..i - 1 : Buttons[k] = "left"
  <2>1. i \in Nat
    BY ButtonsAre
  <2>2. \A k \in 1..i : k = i \/ k \in 1..i - 1
    BY <2>1
  <2> QED BY <2>2
<1>5. "left" \notin now /\ b # "left" /\ ("left" \notin down \/ \E k \in 1..i : Buttons[k] = "left")
        => LeftOrder(m)
  BY <1>4 DEF InPacket
<1>6. "left" \notin now /\ b = "left" /\ "left" \notin down => LeftOrder(m)
  BY DEF InPacket
<1>7. CASE (b \in down) = (b \in now)
  <2>1. r = m
    BY <1>7 DEF Turned
  <2>2. "left" \notin now /\ ("left" \notin down \/ \E k \in 1..i : Buttons[k] = "left") => LeftOrder(m)
    BY <1>5, <1>6, <1>7
  <2> HIDE DEF r, b
  <2> QED BY <1>3, <2>1, <2>2 DEF InPacket, r, b
<1>8. CASE (b \in down) # (b \in now)
  <2>1. r = Push(m, e)
    BY <1>8 DEF Turned
  <2> HIDE DEF e, b, r
  <2>2. r \in Rings
    BY <1>2, <1>3, <2>1, PushTypes
  <2>3. Newest(r, p)
    BY <1>2, <1>3, <2>1, PushNewest
  <2>4. Copy(r)
    BY <1>2, <1>3, <2>1, PushCopy
  <2>5. ASSUME "left" \notin now, "left" \notin down \/ \E k \in 1..i : Buttons[k] = "left"
        PROVE  LeftOrder(r)
    <3>1. ~IsLeftDown(e)
      BY <1>2, <2>5
    <3>2. LeftOrder(m) \/ IsLeftUp(e)
      BY <1>2, <1>5, <2>5
    <3> QED BY <1>2, <1>3, <2>1, <3>1, <3>2, PushOrder
  <2> QED BY <2>2, <2>3, <2>4, <2>5 DEF InPacket, b, r
<1> QED BY <1>7, <1>8

LEMMA PacketGives ==
  ASSUME MouseInv, NEW p \in Positions, NEW now, MousePacket(p, now)
  PROVE  \E m : /\ InPacket(m, p, now, Len(Buttons))
                /\ ring' = m.ring /\ stale' = m.stale /\ lostUp' = m.lostUp
<1> DEFINE n == Len(Buttons)
           Solves(f) == f = [i \in 0..n |->
                               IF i = 0 THEN Moved(p) ELSE Turned(f[i - 1], Buttons[i], p, now)]
           g == CHOOSE f : Solves(f)
<1>1. ring' = g[n].ring /\ stale' = g[n].stale /\ lostUp' = g[n].lostUp
  BY DEF MousePacket, Turned, Moved, MouseNow
<1>2. InPacket(Moved(p), p, now, 0)
  BY MovedKeeps
<1>3. Solves(g)
  <2>1. Moved(p) \in Rings
    BY <1>2 DEF InPacket
  <2>2. \E f : Solves(f)
    BY <2>1, TurnedExist
  <2> QED BY <2>2
<1> HIDE DEF g
<1>4. n \in Nat
  BY ButtonsAre
<1>5. PICK h : h = g
  OBVIOUS
<1>6. PICK T : T = {i \in 0..n : InPacket(h[i], p, now, i)}
  OBVIOUS
<1>7. 0 \in T
  <2>1. h[0] = Moved(p) /\ 0 \in 0..n
    BY <1>3, <1>4, <1>5
  <2> QED BY <1>2, <1>6, <2>1
<1>8. ASSUME NEW i \in 1..n, i - 1 \in T PROVE i \in T
  <2>1. h[i] = Turned(h[i - 1], Buttons[i], p, now)
    <3>1. i \in 0..n /\ i # 0
      BY <1>4
    <3> QED BY <1>3, <1>5, <3>1
  <2>2. InPacket(h[i - 1], p, now, i - 1)
    BY <1>6, <1>8
  <2>3. InPacket(h[i], p, now, i)
    BY <2>1, <2>2, TurnedKeeps
  <2> QED BY <1>4, <1>6, <2>3
<1>9. n \in T
  <2>1. \A i \in 0..n : i \in T
    BY <1>4, <1>7, <1>8, UpTo
  <2> QED BY <1>4, <2>1
<1>10. InPacket(h[n], p, now, n)
  BY <1>6, <1>9
<1> QED BY <1>1, <1>5, <1>10

-----------------------------------------------------------------------------
(* What the mouse's steps keep *)

LEMMA PacketKeeps ==
  ASSUME MouseInv, NEW p \in Positions, NEW now \in SUBSET Range(Buttons), MousePacket(p, now),
         drag' = drag
  PROVE  MouseInv'
<1>1. PICK m : /\ InPacket(m, p, now, Len(Buttons))
               /\ ring' = m.ring /\ stale' = m.stale /\ lostUp' = m.lostUp
  BY PacketGives
<1>2. pointer' = p /\ down' = now /\ copied' = copied /\ lastSeen' = lastSeen
  BY DEF MousePacket
<1>3. m \in Rings /\ Newest(m, p) /\ Copy(m)
  BY <1>1 DEF InPacket
<1>4. "left" \notin now => LeftOrder(m)
  <2>1. \E k \in 1..Len(Buttons) : Buttons[k] = "left"
    BY ButtonsAre, DesktopAssumption
  <2> QED BY <1>1, <2>1 DEF InPacket
<1>5. m = [ring |-> m.ring, stale |-> m.stale, lostUp |-> m.lostUp]
  BY <1>3 DEF Rings
<1>6. MouseNow' = m
  BY <1>1, <1>5 DEF MouseNow
<1>7. MouseTypes'
  BY <1>2, <1>3, <1>6 DEF MouseInv, MouseTypes
<1>8. Newest(MouseNow, pointer)'
  BY <1>2, <1>3, <1>6 DEF Newest
<1>9. Copy(MouseNow)'
  BY <1>2, <1>3, <1>6 DEF Copy
<1>10. ("left" \notin down => LeftOrder(MouseNow))'
  BY <1>2, <1>4, <1>6 DEF LeftOrder, Follows
<1> QED BY <1>7, <1>8, <1>9, <1>10 DEF MouseInv

LEMMA CopyEventKeeps ==
  ASSUME MouseInv, CopyEvent, drag' = drag
  PROVE  MouseInv'
<1>1. /\ ring # <<>> /\ copied' = ring[1]
      /\ UNCHANGED <<pointer, down, ring, lastSeen, stale, lostUp>>
  BY DEF CopyEvent
<1>2. MouseTypes /\ Newest(MouseNow, pointer) /\ ("left" \notin down => LeftOrder(MouseNow))
  BY DEF MouseInv
<1>3. ring \in Seq(Events)
  BY <1>2 DEF MouseTypes, MouseNow, Rings
<1>4. ring[1] \in Events
  BY <1>1, <1>3
<1>5. MouseNow' = MouseNow /\ MouseNow.ring = ring
  BY <1>1 DEF MouseNow
<1>6. MouseTypes'
  BY <1>1, <1>2, <1>4, <1>5 DEF MouseTypes
<1>7. Newest(MouseNow, pointer)'
  BY <1>1, <1>2, <1>5 DEF Newest
<1>8. Copy(MouseNow)'
  BY <1>1, <1>5 DEF Copy
<1>9. ("left" \notin down => LeftOrder(MouseNow))'
  BY <1>1, <1>2, <1>5 DEF LeftOrder, Follows
<1> QED BY <1>6, <1>7, <1>8, <1>9 DEF MouseInv

(* The event freed is the one that was copied, so the release of the left  *)
(* button that a press or a drag waits for stays, unless it is the one.    *)
LEMMA FreeEventKeeps ==
  ASSUME MouseInv, FreeEvent,
         \/ drag' = drag /\ ~IsLeftUp(copied)
         \/ drag' = None
         \/ IsLeftDown(copied)
  PROVE  MouseInv'
<1>1. /\ copied # NoEvent /\ ring' = Tail(ring) /\ lastSeen' = copied.x /\ copied' = NoEvent
      /\ UNCHANGED <<pointer, down, stale, lostUp>>
  BY DEF FreeEvent
<1>2. /\ MouseTypes /\ Newest(MouseNow, pointer) /\ Copy(MouseNow)
      /\ "left" \notin down => LeftOrder(MouseNow)
  BY DEF MouseInv
<1> DEFINE n == Len(ring)
           q == Tail(ring)
<1>3. ring \in Seq(Events) /\ n <= RingCap /\ stale \in BOOLEAN /\ lostUp \in BOOLEAN
  BY <1>2 DEF MouseTypes, MouseNow, Rings
<1>4. MouseNow.ring = ring /\ MouseNow.stale = stale /\ MouseNow.lostUp = lostUp
  BY DEF MouseNow
<1>5. /\ ring # <<>> /\ copied.kind = ring[1].kind
      /\ copied.kind # "move" => copied = ring[1]
      /\ n = 1 /\ ~stale => copied.x = ring[1].x
  BY <1>1, <1>2, <1>4 DEF Copy
<1>6. /\ n \in Nat /\ n # 0 /\ q \in Seq(Events) /\ Len(q) = n - 1
      /\ \A i \in 1..n - 1 : q[i] = ring[i + 1]
  BY <1>3, <1>5
<1>7. MouseNow' = [ring |-> q, stale |-> stale, lostUp |-> lostUp]
  BY <1>1 DEF MouseNow
<1>8. n - 1 <= RingCap
  BY <1>3, <1>6, MouseAssumption
<1>9. MouseNow' \in Rings
  <2> HIDE DEF q, n
  <2> QED BY <1>3, <1>6, <1>7, <1>8 DEF Rings
<1>10. copied \in Events
  BY <1>1, <1>2 DEF MouseTypes
<1>11. MouseTypes'
  BY <1>1, <1>2, <1>9, <1>10, EventKinds DEF MouseTypes
<1>12. Newest(MouseNow, pointer)'
  <2> SUFFICES ASSUME ~stale
               PROVE  IF q = <<>> THEN copied.x = pointer ELSE q[Len(q)].x = pointer
    BY <1>1, <1>7 DEF Newest
  <2>1. ring[n].x = pointer
    BY <1>2, <1>4, <1>5 DEF Newest
  <2>2. CASE n = 1
    <3>1. q = <<>>
      <4> HIDE DEF q, n
      <4>1. Len(q) = 0
        BY <1>6, <2>2
      <4> QED BY <1>6, <4>1
    <3> QED BY <1>5, <2>1, <2>2, <3>1
  <2>3. CASE n # 1
    <3>1. n - 1 \in 1..n - 1 /\ (n - 1) + 1 = n
      BY <1>6, <2>3
    <3>2. q # <<>> /\ q[n - 1] = ring[n]
      <4> HIDE DEF q, n
      <4>1. Len(q) # 0
        BY <1>6, <2>3
      <4> QED BY <1>6, <3>1, <4>1
    <3> QED BY <1>6, <2>1, <3>2
  <2> QED BY <2>2, <2>3
<1>13. Copy(MouseNow)'
  BY <1>1 DEF Copy
<1>14. ("left" \notin down => LeftOrder(MouseNow))'
  <2> SUFFICES ASSUME "left" \notin down, ~lostUp PROVE Follows(ring)'
    <3>1. (MouseNow.ring = ring /\ MouseNow.lostUp = lostUp)'
      BY DEF MouseNow
    <3> QED BY <1>1, <3>1 DEF LeftOrder
  <2>1. Follows(ring)
    BY <1>2, <1>4 DEF LeftOrder
  <2>2. \A i \in 1..n - 1 : i + 1 \in 1..n
    BY <1>6
  <2>3. \A j \in 1..n : j > 1 => j - 1 \in 1..n - 1 /\ (j - 1) + 1 = j
    BY <1>6
  <2>4. \A i \in 1..n - 1, j \in 1..n : j > i + 1 => j > 1 /\ j - 1 > i
    BY <1>6
  <2> HIDE DEF n
  <2>5. \A j \in 1..n : j > 1 => q[j - 1] = ring[j]
    <3> HIDE DEF q
    <3> QED BY <1>6, <2>3
  <2>6. ASSUME NEW i \in 1..n - 1, IsLeftDown(q[i])
        PROVE  \E j \in 1..n - 1 : j > i /\ IsLeftUp(q[j])
    <3> HIDE DEF q
    <3>1. IsLeftDown(ring[i + 1])
      BY <1>6, <2>6
    <3>2. PICK j \in 1..n : j > i + 1 /\ IsLeftUp(ring[j])
      BY <2>1, <2>2, <3>1 DEF Follows, n
    <3>3. j - 1 \in 1..n - 1 /\ j - 1 > i /\ q[j - 1] = ring[j]
      BY <2>3, <2>4, <2>5, <3>2
    <3> QED BY <3>2, <3>3
  <2>7. ASSUME drag' # None PROVE \E j \in 1..n - 1 : IsLeftUp(q[j])
    <3>1. \E j \in 1..n : j > 1 /\ IsLeftUp(ring[j])
      <4>1. 1 \in 1..n /\ \A j \in 1..n : j = 1 \/ j > 1
        BY <1>6
      <4>2. CASE drag' = drag /\ ~IsLeftUp(copied)
        <5>1. PICK j \in 1..n : IsLeftUp(ring[j])
          BY <2>1, <2>7, <4>2 DEF Follows, n
        <5>2. j # 1
          BY <1>5, <4>2, <5>1 DEF IsLeftUp
        <5> QED BY <4>1, <5>1, <5>2
      <4>3. CASE IsLeftDown(copied)
        <5>1. IsLeftDown(ring[1])
          BY <1>5, <4>3 DEF IsLeftDown
        <5> QED BY <2>1, <4>1, <5>1 DEF Follows, n
      <4> QED BY <2>7, <4>2, <4>3
    <3>2. PICK j \in 1..n : j > 1 /\ IsLeftUp(ring[j])
      BY <3>1
    <3>3. j - 1 \in 1..n - 1 /\ q[j - 1] = ring[j]
      BY <2>3, <2>5, <3>2
    <3> HIDE DEF q
    <3> QED BY <3>2, <3>3
  <2>8. ring' = q /\ Len(q) = n - 1
    BY <1>1, <1>6
  <2> HIDE DEF q
  <2> QED BY <2>6, <2>7, <2>8 DEF Follows
<1> QED BY <1>11, <1>12, <1>13, <1>14 DEF MouseInv

LEMMA DrainKeeps ==
  ASSUME MouseInv, Drain, copied = NoEvent, drag' = None
  PROVE  MouseInv'
<1>1. /\ ring' = <<>> /\ lastSeen' = pointer /\ stale' = FALSE /\ lostUp' = FALSE
      /\ UNCHANGED <<pointer, down, copied>>
  BY DEF Drain
<1>2. MouseTypes
  BY DEF MouseInv
<1>3. MouseNow' = [ring |-> <<>>, stale |-> FALSE, lostUp |-> FALSE]
  BY <1>1 DEF MouseNow
<1>4. MouseNow' \in Rings
  <2>1. <<>> \in Seq(Events) /\ Len(<<>>) <= RingCap
    BY MouseAssumption
  <2> QED BY <1>3, <2>1 DEF Rings
<1>5. MouseTypes'
  BY <1>1, <1>2, <1>4 DEF MouseTypes
<1>6. Newest(MouseNow, pointer)'
  BY <1>1, <1>3 DEF Newest
<1>7. Copy(MouseNow)'
  BY <1>1 DEF Copy
<1>8. LeftOrder(MouseNow)'
  BY <1>3 DEF LeftOrder, Follows
<1> QED BY <1>5, <1>6, <1>7, <1>8 DEF MouseInv

LEMMA MouseStays ==
  ASSUME MouseInv, UNCHANGED mouseVars, drag' = drag \/ drag' = None
  PROVE  MouseInv'
<1>1. UNCHANGED <<pointer, down, ring, copied, lastSeen, stale, lostUp>>
  BY DEF mouseVars
<1>2. MouseNow' = MouseNow
  BY <1>1 DEF MouseNow
<1>3. MouseTypes'
  BY <1>1, <1>2 DEF MouseInv, MouseTypes
<1>4. Newest(MouseNow, pointer)' /\ Copy(MouseNow)'
  BY <1>1, <1>2 DEF MouseInv, Newest, Copy
<1>5. ("left" \notin down => LeftOrder(MouseNow))'
  BY <1>1, <1>2 DEF MouseInv, LeftOrder, Follows
<1> QED BY <1>3, <1>4, <1>5 DEF MouseInv
-----------------------------------------------------------------------------
(* The operators of the desktop *)

LEMMA NoneApart ==
  /\ None \notin Kinds /\ None \notin Slots /\ Slots # {} /\ Slots \subseteq Nat
  /\ SpotMax \in Nat \ {0} /\ {"term", "files", "power"} \subseteq Kinds
BY DesktopAssumption

(* Overlays and the search box may change with nothing else. *)
LEMMA OverlaysKeep ==
  ASSUME NEW u, UiOK(u), NEW o \in Overlays, NEW n \in 0..SpotMax, NEW i \in 0..SpotMax,
         "spot" \in o => i < n \/ i = 0
  PROVE  UiOK([u EXCEPT !.over = o, !.n = n, !.sel = i])
<1> DEFINE v == [u EXCEPT !.over = o, !.n = n, !.sel = i]
<1>1. u \in UiStates
  BY DEF UiOK
<1>2. o \in SUBSET {"menu", "spot", "ctx"}
  BY DEF Overlays
<1>3. v \in UiStates
  BY <1>1, <1>2 DEF UiStates
<1>4. /\ v.win = u.win /\ v.z = u.z /\ v.drag = u.drag /\ v.grabbed = u.grabbed
      /\ v.over = o /\ v.n = n /\ v.sel = i
  BY <1>1 DEF UiStates
<1> HIDE DEF v
<1>5. Stacked(v)
  BY <1>4 DEF UiOK, Stacked, UsedIn
<1>6. OneOver(v)
  BY <1>4 DEF OneOver
<1>7. Dragged(v)
  BY <1>4 DEF UiOK, Dragged, UsedIn
<1>8. UiOK(v)
  BY <1>3, <1>5, <1>6, <1>7 DEF UiOK
<1> QED BY <1>8 DEF v

LEMMA OverKeeps ==
  ASSUME NEW u, UiOK(u), NEW o \in Overlays, "spot" \in o => "spot" \in u.over
  PROVE  UiOK([u EXCEPT !.over = o]) /\ [u EXCEPT !.over = o].over = o
<1>1. u \in UiStates /\ ("spot" \in u.over => u.sel < u.n \/ u.sel = 0)
  BY DEF UiOK, OneOver
<1>2. u.n \in 0..SpotMax /\ u.sel \in 0..SpotMax
  BY <1>1 DEF UiStates
<1>3. UiOK([u EXCEPT !.over = o, !.n = u.n, !.sel = u.sel])
  BY <1>1, <1>2, OverlaysKeep
<1>4. [u EXCEPT !.over = o, !.n = u.n, !.sel = u.sel] = [u EXCEPT !.over = o]
  BY <1>1 DEF UiStates
<1>5. [u EXCEPT !.over = o].over = o
  BY <1>1 DEF UiStates
<1> QED BY <1>3, <1>4, <1>5

LEMMA OverLess ==
  ASSUME NEW u, UiOK(u), NEW S
  PROVE  /\ u.over \ S \in Overlays
         /\ UiOK([u EXCEPT !.over = @ \ S]) /\ [u EXCEPT !.over = @ \ S].over = u.over \ S
<1>1. u.over \in Overlays
  BY DEF UiOK, OneOver
<1>2. u.over \ S \in Overlays
  BY <1>1 DEF Overlays
<1> QED BY <1>2, OverKeeps

LEMMA SpotKeeps ==
  ASSUME NEW u, UiOK(u)
  PROVE  /\ UiOK(SpotClose(u)) /\ SpotClose(u).over = u.over \ {"spot"}
         /\ UiOK(SpotOpen(u))
         /\ \A n \in 0..SpotMax : UiOK(SpotRebuild(u, n))
         /\ \A d : UiOK(SpotStep(u, d))
<1>0. 0 \in 0..SpotMax /\ SpotMax \in 0..SpotMax /\ {"spot"} \in Overlays
  BY NoneApart DEF Overlays
<1>1. u \in UiStates /\ u.over \in Overlays /\ ("spot" \in u.over => u.sel < u.n \/ u.sel = 0)
  BY DEF UiOK, OneOver
<1>2. UiOK(SpotClose(u)) /\ SpotClose(u).over = u.over \ {"spot"}
  <2>1. u.over \ {"spot"} \in Overlays
    BY OverLess
  <2>2. SpotClose(u) = [u EXCEPT !.over = u.over \ {"spot"}, !.n = 0, !.sel = 0]
    BY DEF SpotClose
  <2>3. UiOK([u EXCEPT !.over = u.over \ {"spot"}, !.n = 0, !.sel = 0])
    BY <1>0, <2>1, OverlaysKeep
  <2>4. SpotClose(u).over = u.over \ {"spot"}
    BY <1>1, <2>2 DEF UiStates
  <2> QED BY <2>2, <2>3, <2>4
<1>3. UiOK(SpotOpen(u))
  BY <1>0, OverlaysKeep DEF SpotOpen
<1>4. ASSUME NEW n \in 0..SpotMax PROVE UiOK(SpotRebuild(u, n))
  <2>1. UiOK([u EXCEPT !.over = u.over, !.n = n, !.sel = 0])
    BY <1>0, <1>1, OverlaysKeep
  <2>2. [u EXCEPT !.over = u.over, !.n = n, !.sel = 0] = SpotRebuild(u, n)
    BY <1>1 DEF UiStates, SpotRebuild
  <2> QED BY <2>1, <2>2
<1>5. ASSUME NEW d PROVE UiOK(SpotStep(u, d))
  <2>1. CASE u.n = 0
    BY <2>1 DEF SpotStep
  <2>2. CASE u.n # 0
    <3> DEFINE i == IF d = "down" THEN (u.sel + 1) % u.n
                    ELSE IF u.sel = 0 THEN u.n - 1 ELSE u.sel - 1
    <3>1. u.n \in 1..SpotMax /\ u.sel \in 0..SpotMax /\ SpotMax \in Nat
      BY <1>1, <2>2, NoneApart DEF UiStates
    <3>2. i \in 0..SpotMax /\ ("spot" \in u.over => i < u.n \/ i = 0)
      <4>1. (u.sel + 1) % u.n \in 0..(u.n - 1)
        BY <3>1
      <4>2. u.sel # 0 => u.sel - 1 \in 0..SpotMax
        BY <3>1
      <4>3. u.n - 1 \in 0..SpotMax /\ u.n - 1 < u.n /\ 0..(u.n - 1) \subseteq 0..SpotMax
        BY <3>1
      <4>4. u.sel < u.n => u.sel - 1 < u.n
        BY <3>1
      <4>5. \A a \in 0..(u.n - 1) : a < u.n
        BY <3>1
      <4>6. CASE d = "down"
        BY <4>1, <4>3, <4>5, <4>6
      <4>7. CASE d # "down"
        BY <1>1, <4>2, <4>3, <4>4, <4>7
      <4> QED BY <4>6, <4>7
    <3> HIDE DEF i
    <3>3. UiOK([u EXCEPT !.over = u.over, !.n = u.n, !.sel = i])
      <4>1. u.n \in 0..SpotMax
        BY <3>1
      <4> QED BY <1>1, <3>2, <4>1, OverlaysKeep
    <3>4. SpotStep(u, d) = [u EXCEPT !.sel = i]
      BY <2>2 DEF SpotStep, i
    <3>5. [u EXCEPT !.over = u.over, !.n = u.n, !.sel = i] = [u EXCEPT !.sel = i]
      BY <1>1 DEF UiStates
    <3> QED BY <3>3, <3>4, <3>5
  <2> QED BY <2>1, <2>2
<1> QED BY <1>2, <1>3, <1>4, <1>5

LEMMA RaiseKeeps ==
  ASSUME NEW u, UiOK(u), NEW s \in UsedIn(u)
  PROVE  UiOK(Raise(u, s)) /\ Raise(u, s).win = u.win /\ Raise(u, s).over = u.over
<1> DEFINE v == Raise(u, s)
           S == UsedIn(u)
<1>1. u \in UiStates /\ Holds(u.z, S) /\ Distinct(u.win)
  BY DEF UiOK, Stacked
<1>2. s \in Slots /\ S \in SUBSET Slots
  BY DEF UsedIn
<1>3. Holds(v.z, S \cup {s}) /\ v = [u EXCEPT !.z = v.z]
  <2> HIDE DEF S, v
  <2>1. Holds(Raise(u, s).z, S \cup {s}) /\ Raise(u, s) = [u EXCEPT !.z = Raise(u, s).z]
    BY <1>1, <1>2, RaiseGives
  <2> QED BY <2>1 DEF v
<1>4. S \cup {s} = S
  OBVIOUS
<1> HIDE DEF v
<1>5. /\ v.win = u.win /\ v.over = u.over /\ v.n = u.n /\ v.sel = u.sel
      /\ v.drag = u.drag /\ v.grabbed = u.grabbed
  BY <1>1, <1>3 DEF UiStates
<1>6. v \in UiStates
  <2>1. v.z \in Seq(Slots)
    BY <1>3 DEF Holds
  <2> DEFINE q == v.z
  <2>2. v = [u EXCEPT !.z = q]
    BY <1>3
  <2> HIDE DEF q
  <2>3. q \in Seq(Slots)
    BY <2>1 DEF q
  <2> QED BY <1>1, <2>2, <2>3 DEF UiStates
<1>7. Stacked(v)
  BY <1>1, <1>3, <1>4, <1>5 DEF Stacked, UsedIn
<1>8. OneOver(v) /\ Dragged(v)
  BY <1>5 DEF UiOK, OneOver, Dragged, UsedIn
<1>9. UiOK(v)
  BY <1>6, <1>7, <1>8 DEF UiOK
<1> QED BY <1>5, <1>9 DEF v

(* win_close: the slot is free, and no drag is on it. *)
LEMMA WinCloseKeeps ==
  ASSUME NEW u, UiOK(u), NEW s \in Slots
  PROVE  /\ UiOK(WinClose(u, s)) /\ WinClose(u, s).drag # s
         /\ WinClose(u, s).win = [u.win EXCEPT ![s] = None]
<1> DEFINE v == WinClose(u, s)
           S == UsedIn(u)
           w == [u.win EXCEPT ![s] = None]
           q == Without(u.z, s)
           d == IF u.drag = s THEN None ELSE u.drag
<1>1. u \in UiStates /\ Holds(u.z, S) /\ Distinct(u.win) /\ OneOver(u) /\ Dragged(u)
  BY DEF UiOK, Stacked
<1>2. S \in SUBSET Slots
  BY DEF UsedIn
<1>3. Holds(q, S \ {s})
  <2> HIDE DEF S
  <2> QED BY <1>1, <1>2, WithoutGives
<1>4. v = [u EXCEPT !.win = w, !.z = q, !.drag = d]
  BY DEF WinClose
<1>5. w \in [Slots -> Kinds \cup {None}] /\ q \in Seq(Slots) /\ d \in Slots \cup {None}
  <2>1. u.win \in [Slots -> Kinds \cup {None}] /\ u.drag \in Slots \cup {None}
    BY <1>1 DEF UiStates
  <2> QED BY <1>3, <2>1 DEF Holds
<1>6. \A t \in Slots : w[t] = IF t = s THEN None ELSE u.win[t]
  BY <1>1 DEF UiStates
<1>7. d # s /\ (d # None => d = u.drag)
  BY NoneApart
<1> HIDE DEF v, w, q, d
<1>8. v \in UiStates
  BY <1>1, <1>4, <1>5 DEF UiStates
<1>9. /\ v.win = w /\ v.z = q /\ v.drag = d /\ v.over = u.over /\ v.n = u.n /\ v.sel = u.sel
      /\ v.grabbed = u.grabbed
  BY <1>1, <1>4 DEF UiStates
<1>10. UsedIn(v) = S \ {s}
  BY <1>6, <1>9 DEF UsedIn
<1>11. Distinct(w)
  BY <1>1, <1>6 DEF Distinct
<1>12. Stacked(v)
  BY <1>3, <1>9, <1>10, <1>11 DEF Stacked
<1>13. OneOver(v)
  BY <1>1, <1>9 DEF OneOver
<1>14. Dragged(v)
  BY <1>1, <1>7, <1>9, <1>10 DEF Dragged
<1>15. UiOK(v)
  BY <1>8, <1>12, <1>13, <1>14 DEF UiOK
<1> QED BY <1>7, <1>9, <1>15 DEF v, w

LEMMA NewSlotIs ==
  ASSUME NEW u, UiOK(u)
  PROVE  NewSlot(u) \in Slots
<1> DEFINE free == {s \in Slots : u.win[s] = None}
<1>1. Holds(u.z, UsedIn(u))
  BY DEF UiOK, Stacked
<1>2. CASE free = {}
  <2>1. PICK s \in Slots : s \in UsedIn(u)
    BY <1>2, NoneApart DEF UsedIn
  <2>2. PICK i \in 1..Len(u.z) : u.z[i] = s
    BY <1>1, <2>1 DEF Holds
  <2>3. u.z \in Seq(Slots) /\ Len(u.z) \in Nat
    BY <1>1 DEF Holds
  <2>4. 1 \in 1..Len(u.z)
    BY <2>2, <2>3
  <2>5. u.z[1] \in Slots
    BY <2>3, <2>4
  <2>6. NewSlot(u) = Head(u.z)
    BY <1>2 DEF NewSlot
  <2>7. Head(u.z) = u.z[1]
    BY <2>3, <2>4
  <2> QED BY <2>5, <2>6, <2>7
<1>3. CASE free # {}
  <2>1. free \in SUBSET Nat /\ free \subseteq Slots
    BY NoneApart
  <2>2. NewSlot(u) = CHOOSE s \in free : \A t \in free : s <= t
    BY <1>3 DEF NewSlot
  <2> HIDE DEF free
  <2>3. \E s \in free : \A t \in free : s <= t
    BY <1>3, <2>1, LeastElement
  <2> QED BY <2>1, <2>2, <2>3
<1> QED BY <1>2, <1>3

LEMMA WinOpenKeeps ==
  ASSUME NEW u, UiOK(u), NEW k \in Kinds
  PROVE  UiOK(WinOpen(u, k))
<1>0. u \in UiStates /\ Dragged(u)
  BY DEF UiOK
<1>1. CASE Same(u, k) # {}
  <2> DEFINE s == CHOOSE s \in Same(u, k) : TRUE
  <2>1. s \in Same(u, k)
    BY <1>1
  <2>2. WinOpen(u, k) = Raise(u, s)
    BY <1>1 DEF WinOpen
  <2> HIDE DEF s
  <2>3. s \in UsedIn(u)
    BY <2>1, NoneApart DEF Same, UsedIn
  <2> QED BY <2>2, <2>3, RaiseKeeps
<1>2. CASE Same(u, k) = {}
  <2> DEFINE s == NewSlot(u)
             room == IF u.win[s] = None THEN u ELSE WinClose(u, s)
             w == [room.win EXCEPT ![s] = k]
             g == room.grabbed /\ room.drag # s
             v == [room EXCEPT !.win[s] = k, !.grabbed = @ /\ room.drag # s]
             r == Raise(v, s)
  <2>1. s \in Slots
    BY NewSlotIs
  <2>2. WinOpen(u, k) = r
    BY <1>2 DEF WinOpen
  <2> HIDE DEF s
  <2>3. UiOK(room) /\ room.win[s] = None /\ room.drag # s
    <3>1. CASE u.win[s] = None
      <4>1. room = u
        BY <3>1
      <4>2. u.drag # s
        BY <1>0, <2>1, <3>1, NoneApart DEF Dragged, UsedIn
      <4> HIDE DEF room
      <4> QED BY <3>1, <4>1, <4>2
    <3>2. CASE u.win[s] # None
      <4>1. UiOK(WinClose(u, s)) /\ WinClose(u, s).drag # s
            /\ WinClose(u, s).win = [u.win EXCEPT ![s] = None]
        BY <2>1, WinCloseKeeps
      <4> QED BY <1>0, <2>1, <3>2, <4>1 DEF UiStates
    <3> QED BY <3>1, <3>2
  <2>4. \A t \in Slots : room.win[t] = u.win[t] \/ room.win[t] = None
    <3>1. CASE u.win[s] = None
      BY <3>1
    <3>2. CASE u.win[s] # None
      <4>1. WinClose(u, s).win = [u.win EXCEPT ![s] = None]
        BY <2>1, WinCloseKeeps
      <4> QED BY <1>0, <2>1, <3>2, <4>1 DEF UiStates
    <3> QED BY <3>1, <3>2
  <2> HIDE DEF room
  <2>5. /\ room \in UiStates /\ Holds(room.z, UsedIn(room)) /\ Distinct(room.win)
        /\ OneOver(room) /\ Dragged(room)
    BY <2>3 DEF UiOK, Stacked
  <2>6. w \in [Slots -> Kinds \cup {None}] /\ \A t \in Slots : w[t] = IF t = s THEN k ELSE room.win[t]
    BY <2>1, <2>5 DEF UiStates
  <2>7. g \in BOOLEAN /\ (g <=> room.grabbed)
    BY <2>3, <2>5 DEF UiStates
  <2>8. v = [room EXCEPT !.win = w, !.grabbed = g]
    OBVIOUS
  <2> HIDE DEF v, w, g
  <2>9. v \in UiStates
    BY <2>5, <2>6, <2>7, <2>8 DEF UiStates
  <2>10. /\ v.win = w /\ v.z = room.z /\ v.drag = room.drag /\ v.over = room.over /\ v.n = room.n
         /\ v.sel = room.sel /\ v.grabbed = g
    BY <2>5, <2>8 DEF UiStates
  <2>11. UsedIn(room) \in SUBSET Slots /\ UsedIn(v) = UsedIn(room) \cup {s}
    BY <2>1, <2>6, <2>10, NoneApart DEF UsedIn
  <2>12. Holds(r.z, UsedIn(v)) /\ r = [v EXCEPT !.z = r.z]
    <3>1. Holds(v.z, UsedIn(room))
      BY <2>5, <2>10
    <3>2. PICK S : S = UsedIn(room)
      OBVIOUS
    <3>3. Holds(Raise(v, s).z, S \cup {s}) /\ Raise(v, s) = [v EXCEPT !.z = Raise(v, s).z]
      BY <2>1, <2>9, <2>11, <3>1, <3>2, RaiseGives
    <3> QED BY <2>11, <3>2, <3>3
  <2> HIDE DEF r
  <2>13. r \in UiStates
    <3> DEFINE q == r.z
    <3>1. r = [v EXCEPT !.z = q] /\ q \in Seq(Slots)
      BY <2>12 DEF Holds
    <3> HIDE DEF q
    <3> QED BY <2>9, <3>1 DEF UiStates
  <2>14. /\ r.win = w /\ r.drag = room.drag /\ r.over = room.over /\ r.n = room.n
         /\ r.sel = room.sel /\ r.grabbed = g
    BY <2>9, <2>10, <2>12 DEF UiStates
  <2>15. Distinct(w)
    <3>1. \A t \in Slots : k # "term" => room.win[t] # k
      <4>1. \A t \in Slots : k # "term" => u.win[t] # k
        BY <1>2 DEF Same
      <4> QED BY <2>4, <4>1, NoneApart
    <3>2. SUFFICES ASSUME NEW a \in Slots, NEW b \in Slots, w[a] # None, w[a] = w[b], w[a] # "term"
                   PROVE  a = b
      BY DEF Distinct
    <3>3. CASE a # s /\ b # s
      BY <2>5, <2>6, <3>2, <3>3 DEF Distinct
    <3>4. CASE a = s \/ b = s
      BY <2>6, <3>1, <3>2, <3>4
    <3> QED BY <3>3, <3>4
  <2>16. Stacked(r)
    <3>1. UsedIn(r) = UsedIn(v)
      BY <2>10, <2>14 DEF UsedIn
    <3> QED BY <2>12, <2>14, <2>15, <3>1 DEF Stacked
  <2>17. OneOver(r)
    BY <2>5, <2>14 DEF OneOver
  <2>18. Dragged(r)
    <3>1. UsedIn(r) = UsedIn(v)
      BY <2>10, <2>14 DEF UsedIn
    <3> QED BY <2>5, <2>7, <2>11, <2>14, <3>1 DEF Dragged
  <2> QED BY <2>2, <2>13, <2>16, <2>17, <2>18 DEF UiOK
<1> QED BY <1>1, <1>2

LEMMA ActionOpenKeeps ==
  ASSUME NEW u, UiOK(u), NEW a \in Actions
  PROVE  UiOK(ActionOpen(u, a))
<1> DEFINE shut == [u EXCEPT !.over = {}]
<1>1. UiOK(shut)
  <2>1. {} \in Overlays
    BY DEF Overlays
  <2> QED BY <2>1, OverKeeps
<1>2. CASE a = "logout"
  <2> DEFINE v == [shut EXCEPT !.logout = TRUE]
  <2> HIDE DEF shut
  <2>1. shut \in UiStates
    BY <1>1 DEF UiOK
  <2>2. v \in UiStates
    BY <2>1 DEF UiStates
  <2>3. /\ v.win = shut.win /\ v.z = shut.z /\ v.drag = shut.drag /\ v.grabbed = shut.grabbed
        /\ v.over = shut.over /\ v.n = shut.n /\ v.sel = shut.sel
    BY <2>1 DEF UiStates
  <2> HIDE DEF v
  <2>4. UiOK(v)
    BY <1>1, <2>2, <2>3 DEF UiOK, Stacked, OneOver, Dragged, UsedIn
  <2> QED BY <1>2, <2>4 DEF ActionOpen, v, shut
<1>3. CASE a # "logout"
  <2>1. a \in Kinds
    BY <1>3 DEF Actions
  <2>2. ActionOpen(u, a) = WinOpen(shut, a)
    BY <1>3 DEF ActionOpen
  <2> HIDE DEF shut
  <2> QED BY <1>1, <2>1, <2>2, WinOpenKeeps
<1> QED BY <1>2, <1>3

LEMMA SpotActivateKeeps ==
  ASSUME NEW u, UiOK(u), NEW i, NEW a \in Actions \cup {"file"}
  PROVE  UiOK(SpotActivate(u, i, a))
<1>1. UiOK(SpotClose(u)) /\ "files" \in Kinds
  BY SpotKeeps, NoneApart
<1>2. CASE i >= u.n
  BY <1>2 DEF SpotActivate
<1>3. CASE ~(i >= u.n) /\ a = "file"
  BY <1>1, <1>3, WinOpenKeeps DEF SpotActivate
<1>4. CASE ~(i >= u.n) /\ a # "file"
  BY <1>1, <1>4, ActionOpenKeeps DEF SpotActivate
<1> QED BY <1>2, <1>3, <1>4

-----------------------------------------------------------------------------
(* The steps *)

LEMMA UiFields ==
  /\ Ui.win = win /\ Ui.z = z /\ Ui.over = over /\ Ui.n = spotN /\ Ui.sel = spotSel
  /\ Ui.drag = drag /\ Ui.grabbed = grabbed /\ Ui.logout = logout
BY DEF Ui

LEMMA BecomesKeeps ==
  ASSUME NEW u, UiOK(u), Becomes(u)
  PROVE  UiOK(Ui)' /\ drag' = u.drag
<1> DEFINE g == u.grabbed /\ u.drag # None
           v == [u EXCEPT !.grabbed = g]
<1>1. u \in UiStates /\ Stacked(u) /\ OneOver(u) /\ Dragged(u)
  BY DEF UiOK
<1>2. g \in BOOLEAN
  OBVIOUS
<1> HIDE DEF g
<1>3. v \in UiStates
  BY <1>1, <1>2 DEF UiStates
<1>4. /\ v.win = u.win /\ v.z = u.z /\ v.drag = u.drag /\ v.grabbed = g
      /\ v.over = u.over /\ v.n = u.n /\ v.sel = u.sel /\ v.logout = u.logout
  BY <1>1 DEF UiStates
<1>5. v = [win |-> v.win, z |-> v.z, over |-> v.over, n |-> v.n, sel |-> v.sel,
           drag |-> v.drag, grabbed |-> v.grabbed, logout |-> v.logout]
  <2> HIDE DEF v
  <2> QED BY <1>3 DEF UiStates
<1> HIDE DEF v
<1>6. Ui' = v
  <2>1. /\ win' = v.win /\ z' = v.z /\ over' = v.over /\ spotN' = v.n /\ spotSel' = v.sel
        /\ drag' = v.drag /\ grabbed' = v.grabbed /\ logout' = v.logout
    BY <1>4 DEF Becomes, g
  <2>2. Ui' = [win |-> win', z |-> z', over |-> over', n |-> spotN', sel |-> spotSel',
               drag |-> drag', grabbed |-> grabbed', logout |-> logout']
    BY DEF Ui
  <2> QED BY <1>5, <2>1, <2>2
<1>7. Stacked(v)
  BY <1>1, <1>4 DEF Stacked, UsedIn
<1>8. OneOver(v)
  BY <1>1, <1>4 DEF OneOver
<1>9. Dragged(v)
  BY <1>1, <1>4 DEF Dragged, UsedIn, g
<1>10. UiOK(v)
  BY <1>3, <1>7, <1>8, <1>9 DEF UiOK
<1>11. UiOK(Ui)'
  BY <1>6, <1>10 DEF UiOK, Stacked, OneOver, Dragged, Holds, UsedIn, Distinct
<1> QED BY <1>11 DEF Becomes

LEMMA UiStays ==
  ASSUME UiOK(Ui), UNCHANGED uiVars
  PROVE  UiOK(Ui)' /\ drag' = drag
<1>1. Ui' = Ui /\ drag' = drag
  BY DEF uiVars, Ui
<1>2. UiOK(Ui)'
  BY <1>1 DEF UiOK, Stacked, OneOver, Dragged, Holds, UsedIn, Distinct
<1> QED BY <1>1, <1>2

(* A part of a window that may be pressed is a part of an open one. *)
LEMMA HitsAre ==
  ASSUME NEW h \in Hits
  PROVE  /\ h.part \in {"close", "title", "body", "file", "halt", "cancel"} => h.slot \in Used
<1>1. CASE \E p \in {"close", "title", "body"}, s \in Used : h = Hit(p, s)
  BY <1>1 DEF Hit
<1>2. CASE \E s \in Used : h = Hit("file", s)
  BY <1>2 DEF Hit
<1>3. CASE \E p \in {"halt", "cancel"}, s \in Used : h = Hit(p, s)
  BY <1>3 DEF Hit
<1>4. CASE \E p \in {"desktop", "bar", "launcher", "dock", "icon", "menu", "ctx", "spot", "row"} :
             h = Hit(p, None)
  BY <1>4 DEF Hit
<1> QED BY <1>1, <1>2, <1>3, <1>4 DEF Hits

LEMMA UsedNow == Used = UsedIn(Ui)
BY DEF Used, UsedIn, Ui

LEMMA OnPartKeeps ==
  ASSUME NEW u, UiOK(u), NEW h, NEW v \in OnPart(u, h),
         h.part \in {"close", "title", "body", "file", "halt", "cancel"} => h.slot \in UsedIn(u)
  PROVE  UiOK(v)
<1>0. u \in UiStates /\ Stacked(u) /\ OneOver(u)
  BY DEF UiOK
<1>1. CASE h.part = "ctx"
  <2>1. v = u \/ \E k \in Kinds : v = WinOpen(u, k)
    BY <1>1 DEF OnPart
  <2> QED BY <2>1, WinOpenKeeps
<1>2. CASE h.part = "icon"
  <2>1. v = u \/ \E k \in Kinds : v = ActionOpen(u, k)
    BY <1>2 DEF OnPart
  <2> QED BY <2>1, ActionOpenKeeps DEF Actions
<1>3. CASE h.part = "close"
  <2>1. v = WinClose(u, h.slot) /\ h.slot \in Slots
    BY <1>3 DEF OnPart, UsedIn
  <2> QED BY <2>1, WinCloseKeeps
<1>4. CASE h.part = "title"
  <2> DEFINE s == h.slot
             r == Raise(u, s)
             w == [r EXCEPT !.drag = s, !.grabbed = TRUE]
  <2>1. v = w /\ s \in UsedIn(u)
    BY <1>4 DEF OnPart
  <2>2. s \in Slots
    BY <2>1 DEF UsedIn
  <2> HIDE DEF s
  <2>3. UiOK(r) /\ r.win = u.win
    BY <2>1, RaiseKeeps
  <2> HIDE DEF r
  <2>4. r \in UiStates /\ Stacked(r) /\ OneOver(r)
    BY <2>3 DEF UiOK
  <2>5. w \in UiStates
    BY <2>2, <2>4 DEF UiStates
  <2>6. /\ w.win = r.win /\ w.z = r.z /\ w.over = r.over /\ w.n = r.n /\ w.sel = r.sel
        /\ w.drag = s /\ w.grabbed = TRUE
    BY <2>4 DEF UiStates
  <2> HIDE DEF w
  <2>7. Stacked(w)
    BY <2>4, <2>6 DEF Stacked, UsedIn
  <2>8. OneOver(w)
    BY <2>4, <2>6 DEF OneOver
  <2>9. Dragged(w)
    BY <2>1, <2>3, <2>6 DEF Dragged, UsedIn
  <2> QED BY <2>1, <2>5, <2>7, <2>8, <2>9 DEF UiOK
<1>5. CASE h.part = "body"
  <2>1. v = Raise(u, h.slot) /\ h.slot \in UsedIn(u)
    BY <1>5 DEF OnPart
  <2> QED BY <2>1, RaiseKeeps
<1>6. CASE h.part = "cancel"
  <2>1. h.slot \in UsedIn(u)
    BY <1>6
  <2>2. PICK i \in 1..Len(u.z) : u.z[i] = h.slot
    BY <1>0, <2>1 DEF Stacked, Holds, UsedIn
  <2>3. u.z \in Seq(Slots) /\ Len(u.z) \in Nat
    BY <1>0 DEF UiStates
  <2>4. Len(u.z) \in 1..Len(u.z)
    BY <2>2, <2>3
  <2>5. Last(u.z) \in Slots
    BY <2>3, <2>4 DEF Last
  <2>6. v = u \/ v = WinClose(u, Last(u.z))
    BY <1>6 DEF OnPart
  <2> DEFINE s == Last(u.z)
  <2> HIDE DEF s
  <2>7. s \in Slots
    BY <2>5 DEF s
  <2>8. v = u \/ v = WinClose(u, s)
    BY <2>6 DEF s
  <2>9. UiOK(WinClose(u, s))
    BY <2>7, WinCloseKeeps
  <2> QED BY <2>8, <2>9
<1>7. CASE h.part \in {"desktop", "bar"}
  <2>1. {} \in Overlays
    BY DEF Overlays
  <2>2. UiOK([u EXCEPT !.over = {}])
    BY <2>1, OverKeeps
  <2>3. v = SpotClose([u EXCEPT !.over = {}])
    BY <1>7 DEF OnPart
  <2> QED BY <2>2, <2>3, SpotKeeps
<1>8. CASE h.part \notin {"ctx", "icon", "close", "title", "body", "cancel", "desktop", "bar"}
  BY <1>8 DEF OnPart
<1> QED BY <1>1, <1>2, <1>3, <1>4, <1>5, <1>6, <1>7, <1>8

LEMMA ClickKeeps ==
  ASSUME UiOK(Ui), NEW h \in Hits, NEW v \in HandleClick(h)
  PROVE  UiOK(v)
<1> DEFINE u == IF "spot" \in over THEN SpotClose(Ui) ELSE Ui
           w == [u EXCEPT !.over = @ \ {"ctx"}]
<1>1. UiOK(SpotClose(Ui))
  BY SpotKeeps
<1>2. CASE "spot" \in over /\ h.part \in {"desktop", "bar"}
  BY <1>1, <1>2 DEF HandleClick
<1>3. CASE ~("spot" \in over /\ h.part \in {"desktop", "bar"})
  <2>1. v \in OnPart(w, h)
    BY <1>3 DEF HandleClick
  <2>2. u \in UiStates /\ UiOK(u)
    BY <1>1 DEF UiOK
  <2>3. u.win = win
    <3>1. Ui \in UiStates
      BY DEF UiOK
    <3>2. SpotClose(Ui).win = Ui.win
      BY <3>1 DEF SpotClose, UiStates
    <3> QED BY <3>2, UiFields
  <2> HIDE DEF u
  <2>4. UiOK(w) /\ w.win = win
    <3>1. UiOK(w)
      BY <2>2, OverLess
    <3> QED BY <2>2, <2>3, <3>1 DEF UiStates
  <2>5. UsedIn(w) = Used
    BY <2>4 DEF UsedIn, Used
  <2>6. h.part \in {"close", "title", "body", "file", "halt", "cancel"} => h.slot \in UsedIn(w)
    BY <2>5, HitsAre
  <2> HIDE DEF w
  <2> QED BY <2>1, <2>4, <2>6, OnPartKeeps
<1> QED BY <1>2, <1>3

LEMMA RightClickKeeps ==
  ASSUME UiOK(Ui), NEW h
  PROVE  UiOK(HandleRightClick(h))
<1>1. UiOK(SpotClose(Ui))
  BY SpotKeeps
<1>2. UiOK([Ui EXCEPT !.over = {"ctx"}])
  <2>1. {"ctx"} \in Overlays
    BY DEF Overlays
  <2> QED BY <2>1, OverKeeps
<1>3. UiOK([Ui EXCEPT !.over = @ \ {"ctx"}])
  BY OverLess
<1> QED BY <1>1, <1>2, <1>3 DEF HandleRightClick

LEMMA TopIs ==
  ASSUME UiOK(Ui), Top # None
  PROVE  Top \in Slots
<1>1. z \in Seq(Slots)
  BY UiFields DEF UiOK, UiStates
<1>2. z # <<>> /\ Top = z[Len(z)]
  BY DEF Top, Last
<1>3. Len(z) \in 1..Len(z)
  BY <1>1, <1>2
<1> QED BY <1>1, <1>2, <1>3

LEMMA KeyKeeps ==
  ASSUME UiOK(Ui), NEW v \in KeyEffects
  PROVE  UiOK(v)
<1>1. CASE "spot" \in over
  <2>1. \/ v \in {SpotClose(Ui), SpotStep(Ui, "down"), SpotStep(Ui, "up")}
        \/ \E a \in Actions \cup {"file"} : v = SpotActivate(Ui, spotSel, a)
        \/ \E n \in 0..SpotMax : v = SpotRebuild(Ui, n)
    BY <1>1 DEF KeyEffects
  <2>2. CASE v \in {SpotClose(Ui), SpotStep(Ui, "down"), SpotStep(Ui, "up")}
    BY <2>2, SpotKeeps
  <2>3. CASE \E a \in Actions \cup {"file"} : v = SpotActivate(Ui, spotSel, a)
    <3>1. PICK a \in Actions \cup {"file"} : v = SpotActivate(Ui, spotSel, a)
      BY <2>3
    <3> QED BY <3>1, SpotActivateKeeps
  <2>4. CASE \E n \in 0..SpotMax : v = SpotRebuild(Ui, n)
    BY <2>4, SpotKeeps
  <2> QED BY <2>1, <2>2, <2>3, <2>4
<1>2. CASE "spot" \notin over
  <2>1. v \in {Ui, SpotOpen(Ui), Escape(Ui), TermExit(Ui)}
    BY <1>2 DEF KeyEffects
  <2>2. UiOK([Ui EXCEPT !.over = {}])
    <3>1. {} \in Overlays
      BY DEF Overlays
    <3> QED BY <3>1, OverKeeps
  <2>3. Top # None => UiOK(WinClose(Ui, Top))
    BY TopIs, WinCloseKeeps
  <2>4. UiOK(Escape(Ui))
    BY <2>2, <2>3 DEF Escape
  <2>5. UiOK(TermExit(Ui))
    BY <2>3 DEF TermExit
  <2> QED BY <2>1, <2>4, <2>5, SpotKeeps
<1> QED BY <1>1, <1>2

LEMMA ClicksKeep ==
  ASSUME UiOK(Ui), NEW v \in Clicks
  PROVE  UiOK(v)
<1>1. UiOK([Ui EXCEPT !.over = @ \ {"menu", "ctx"}])
  BY OverLess
<1>2. UiOK([SpotClose(Ui) EXCEPT !.over = {"menu"}])
  <2>1. UiOK(SpotClose(Ui)) /\ {"menu"} \in Overlays
    BY SpotKeeps DEF Overlays
  <2> QED BY <2>1, OverKeeps
<1>3. \/ v = [Ui EXCEPT !.over = @ \ {"menu", "ctx"}]
      \/ \E a \in Actions : v = ActionOpen(Ui, a)
      \/ v = [SpotClose(Ui) EXCEPT !.over = {"menu"}]
      \/ \E i, a : a \in Actions /\ v = SpotActivate(Ui, i, a)
  BY DEF Clicks, Actions
<1>4. CASE \E i, a : a \in Actions /\ v = SpotActivate(Ui, i, a)
  BY <1>4, SpotActivateKeeps
<1>5. CASE \E a \in Actions : v = ActionOpen(Ui, a)
  BY <1>5, ActionOpenKeeps
<1> QED BY <1>1, <1>2, <1>3, <1>4, <1>5

(* Only a press on a title takes hold of a window; every other handler     *)
(* leaves the drag or ends it.                                             *)
Grip(u, v) == v.drag = u.drag \/ v.drag = None

LEMMA WinCloseGrips ==
  ASSUME NEW u, UiOK(u), NEW s
  PROVE  Grip(u, WinClose(u, s))
<1>1. u \in UiStates
  BY DEF UiOK
<1> DEFINE w == [u.win EXCEPT ![s] = None]
           q == Without(u.z, s)
           d == IF u.drag = s THEN None ELSE u.drag
<1>2. WinClose(u, s) = [u EXCEPT !.win = w, !.z = q, !.drag = d]
  BY DEF WinClose
<1>3. d = u.drag \/ d = None
  OBVIOUS
<1> HIDE DEF w, q, d
<1> QED BY <1>1, <1>2, <1>3 DEF Grip, UiStates

LEMMA WinOpenGrips ==
  ASSUME NEW u, UiOK(u), NEW k
  PROVE  Grip(u, WinOpen(u, k))
<1>0. \A v, s : "drag" \in DOMAIN v => Raise(v, s).drag = v.drag
  BY DEF Raise
<1>1. u \in UiStates
  BY DEF UiOK
<1>2. CASE Same(u, k) # {}
  <2> DEFINE s == CHOOSE s \in Same(u, k) : TRUE
  <2>1. WinOpen(u, k) = Raise(u, s)
    BY <1>2 DEF WinOpen
  <2> HIDE DEF s
  <2>2. "drag" \in DOMAIN u
    BY <1>1 DEF UiStates
  <2> QED BY <1>0, <2>1, <2>2 DEF Grip
<1>3. CASE Same(u, k) = {}
  <2> DEFINE s == NewSlot(u)
             room == IF u.win[s] = None THEN u ELSE WinClose(u, s)
             v == [room EXCEPT !.win[s] = k, !.grabbed = @ /\ room.drag # s]
  <2>1. s \in Slots
    BY NewSlotIs
  <2>2. WinOpen(u, k) = Raise(v, s)
    BY <1>3 DEF WinOpen
  <2> HIDE DEF s
  <2>3. room \in UiStates /\ Grip(u, room)
    <3>1. CASE u.win[s] = None
      BY <1>1, <3>1 DEF Grip
    <3>2. CASE u.win[s] # None
      BY <1>1, <2>1, <3>2, WinCloseKeeps, WinCloseGrips DEF UiOK
    <3> QED BY <3>1, <3>2
  <2> HIDE DEF room
  <2>4. "drag" \in DOMAIN v /\ v.drag = room.drag
    BY <2>3 DEF UiStates
  <2> HIDE DEF v
  <2> QED BY <1>0, <2>2, <2>3, <2>4 DEF Grip
<1> QED BY <1>2, <1>3

LEMMA ActionOpenGrips ==
  ASSUME NEW u, UiOK(u), NEW a
  PROVE  Grip(u, ActionOpen(u, a))
<1> DEFINE shut == [u EXCEPT !.over = {}]
<1>1. UiOK(shut) /\ shut.drag = u.drag /\ shut \in UiStates
  <2>1. {} \in Overlays
    BY DEF Overlays
  <2>2. UiOK(shut)
    BY <2>1, OverKeeps
  <2>3. u \in UiStates
    BY DEF UiOK
  <2> QED BY <2>2, <2>3 DEF UiOK, UiStates
<1>2. ActionOpen(u, a) = IF a = "logout" THEN [shut EXCEPT !.logout = TRUE] ELSE WinOpen(shut, a)
  BY DEF ActionOpen
<1> HIDE DEF shut
<1>3. [shut EXCEPT !.logout = TRUE].drag = shut.drag
  BY <1>1 DEF UiStates
<1>4. Grip(shut, WinOpen(shut, a))
  BY <1>1, WinOpenGrips
<1> QED BY <1>1, <1>2, <1>3, <1>4 DEF Grip

LEMMA SpotGrips ==
  ASSUME NEW u, UiOK(u)
  PROVE  /\ SpotClose(u).drag = u.drag /\ SpotOpen(u).drag = u.drag
         /\ \A n : SpotRebuild(u, n).drag = u.drag
         /\ \A d : SpotStep(u, d).drag = u.drag
         /\ \A i, a : Grip(u, SpotActivate(u, i, a))
<1>1. u \in UiStates
  BY DEF UiOK
<1>2. SpotClose(u).drag = u.drag /\ SpotOpen(u).drag = u.drag
  BY <1>1 DEF SpotClose, SpotOpen, UiStates
<1>3. \A n : SpotRebuild(u, n).drag = u.drag
  BY <1>1 DEF SpotRebuild, UiStates
<1>4. \A d : SpotStep(u, d).drag = u.drag
  <2>1. \A i : [u EXCEPT !.sel = i].drag = u.drag
    BY <1>1 DEF UiStates
  <2> QED BY <2>1 DEF SpotStep
<1>5. ASSUME NEW i, NEW a PROVE Grip(u, SpotActivate(u, i, a))
  <2>1. UiOK(SpotClose(u))
    BY SpotKeeps
  <2>2. Grip(SpotClose(u), WinOpen(SpotClose(u), "files"))
    BY <2>1, WinOpenGrips
  <2>3. Grip(SpotClose(u), ActionOpen(SpotClose(u), a))
    BY <2>1, ActionOpenGrips
  <2> QED BY <1>2, <2>2, <2>3 DEF SpotActivate, Grip
<1> QED BY <1>2, <1>3, <1>4, <1>5

LEMMA KeyGrips ==
  ASSUME UiOK(Ui), NEW v \in KeyEffects
  PROVE  Grip(Ui, v)
<1>0. Ui \in UiStates
  BY DEF UiOK
<1>1. CASE "spot" \in over
  <2>1. \/ v \in {SpotClose(Ui), SpotStep(Ui, "down"), SpotStep(Ui, "up")}
        \/ \E a : v = SpotActivate(Ui, spotSel, a)
        \/ \E n : v = SpotRebuild(Ui, n)
    BY <1>1 DEF KeyEffects
  <2> QED BY <2>1, SpotGrips DEF Grip
<1>2. CASE "spot" \notin over
  <2>1. v \in {Ui, SpotOpen(Ui), Escape(Ui), TermExit(Ui)}
    BY <1>2 DEF KeyEffects
  <2>2. [Ui EXCEPT !.over = {}].drag = Ui.drag
    BY <1>0 DEF UiStates
  <2>3. Grip(Ui, WinClose(Ui, Top))
    BY WinCloseGrips
  <2>4. Grip(Ui, Escape(Ui)) /\ Grip(Ui, TermExit(Ui))
    BY <2>2, <2>3 DEF Escape, TermExit, Grip
  <2> QED BY <2>1, <2>4, SpotGrips DEF Grip
<1> QED BY <1>1, <1>2

LEMMA ClicksGrip ==
  ASSUME UiOK(Ui), NEW v \in Clicks
  PROVE  Grip(Ui, v)
<1>0. Ui \in UiStates
  BY DEF UiOK
<1>1. \/ v = [Ui EXCEPT !.over = @ \ {"menu", "ctx"}]
      \/ \E a : v = ActionOpen(Ui, a)
      \/ v = [SpotClose(Ui) EXCEPT !.over = {"menu"}]
      \/ \E i, a : v = SpotActivate(Ui, i, a)
  BY DEF Clicks, Actions
<1>2. [Ui EXCEPT !.over = @ \ {"menu", "ctx"}].drag = Ui.drag
  BY <1>0 DEF UiStates
<1>3. [SpotClose(Ui) EXCEPT !.over = {"menu"}].drag = SpotClose(Ui).drag
  <2>1. SpotClose(Ui) \in UiStates
    BY SpotKeeps DEF UiOK
  <2> QED BY <2>1 DEF UiStates
<1>4. SpotClose(Ui).drag = Ui.drag
  BY SpotGrips
<1>5. CASE \E a : v = ActionOpen(Ui, a)
  BY <1>5, ActionOpenGrips
<1>6. CASE \E i, a : v = SpotActivate(Ui, i, a)
  BY <1>6, SpotGrips
<1> QED BY <1>1, <1>2, <1>3, <1>4, <1>5, <1>6 DEF Grip

LEMMA UiInit ==
  ASSUME win = [s \in Slots |-> None], z = <<>>, over = {}, spotN = 0, spotSel = 0, drag = None,
         grabbed = FALSE, logout = FALSE
  PROVE  UiOK(Ui)
<1>1. Ui \in UiStates
  <2>1. 0 \in 0..SpotMax /\ <<>> \in Seq(Slots) /\ win \in [Slots -> Kinds \cup {None}]
    BY NoneApart
  <2> QED BY <2>1 DEF Ui, UiStates
<1>2. Holds(Ui.z, UsedIn(Ui))
  BY UiFields DEF Holds, UsedIn
<1>3. Stacked(Ui)
  BY <1>2, UiFields DEF Stacked, Distinct
<1>4. OneOver(Ui) /\ Dragged(Ui)
  BY UiFields DEF OneOver, Overlays, Dragged
<1> QED BY <1>1, <1>3, <1>4 DEF UiOK

LEMMA DesktopInitInv == DesktopInit => DesktopInv
<1> SUFFICES ASSUME DesktopInit PROVE DesktopInv
  OBVIOUS
<1>1. /\ pointer \in Positions /\ lastSeen = pointer /\ down = {} /\ ring = <<>>
      /\ copied = NoEvent /\ stale = FALSE /\ lostUp = FALSE
  BY DEF DesktopInit, MouseInit
<1>2. MouseNow = [ring |-> <<>>, stale |-> FALSE, lostUp |-> FALSE]
  BY <1>1 DEF MouseNow
<1>3. MouseNow \in Rings
  <2>1. <<>> \in Seq(Events) /\ Len(<<>>) <= RingCap
    BY MouseAssumption
  <2> QED BY <1>2, <2>1 DEF Rings
<1>4. MouseTypes
  BY <1>1, <1>3 DEF MouseTypes
<1>5. Newest(MouseNow, pointer) /\ Copy(MouseNow)
  BY <1>1, <1>2 DEF Newest, Copy
<1>6. drag = None
  BY DEF DesktopInit
<1>7. LeftOrder(MouseNow)
  BY <1>2, <1>6 DEF LeftOrder, Follows
<1>8. UiOK(Ui)
  BY UiInit DEF DesktopInit
<1>9. prevLeft \in BOOLEAN /\ pc \in {"top", "widgets", "shell", "off"}
  BY DEF DesktopInit
<1> QED BY <1>4, <1>5, <1>7, <1>8, <1>9 DEF DesktopInv, MouseInv

LEMMA UiInitNext ==
  ASSUME win' = [s \in Slots |-> None], z' = <<>>, over' = {}, spotN' = 0, spotSel' = 0,
         drag' = None, grabbed' = FALSE, logout' = FALSE
  PROVE  UiOK(Ui)'
<1>0. Ui' = [win |-> [s \in Slots |-> None], z |-> <<>>, over |-> {}, n |-> 0, sel |-> 0,
             drag |-> None, grabbed |-> FALSE, logout |-> FALSE]
  BY DEF Ui
<1>1. Ui' \in UiStates
  <2>1. 0 \in 0..SpotMax /\ <<>> \in Seq(Slots) /\ [s \in Slots |-> None] \in [Slots -> Kinds \cup {None}]
    BY NoneApart
  <2> QED BY <1>0, <2>1 DEF UiStates
<1>2. Holds(Ui.z, UsedIn(Ui))'
  BY <1>0 DEF Holds, UsedIn
<1>3. Stacked(Ui)'
  BY <1>0, <1>2 DEF Stacked, Distinct
<1>4. OneOver(Ui)' /\ Dragged(Ui)'
  BY <1>0 DEF OneOver, Overlays, Dragged
<1> QED BY <1>1, <1>3, <1>4 DEF UiOK

LEMMA DesktopStepInv == DesktopInv /\ [DesktopNext]_deskVars => DesktopInv'
<1> SUFFICES ASSUME DesktopInv, [DesktopNext]_deskVars PROVE DesktopInv'
  OBVIOUS
<1>0. /\ MouseInv /\ UiOK(Ui) /\ prevLeft \in BOOLEAN
      /\ pc \in {"top", "widgets", "shell", "off"} /\ (LeftDown \in BOOLEAN)
  BY DEF DesktopInv, LeftDown
<1>1. CASE Packet
  <2>1. PICK p \in Positions, now \in SUBSET Range(Buttons) :
           MousePacket(p, now) /\ UNCHANGED <<uiVars, prevLeft, pc>>
    BY <1>1 DEF Packet
  <2>2. UiOK(Ui)' /\ drag' = drag
    BY <1>0, <2>1, UiStays
  <2>3. MouseInv'
    BY <1>0, <2>1, <2>2, PacketKeeps
  <2> QED BY <1>0, <2>1, <2>2, <2>3 DEF DesktopInv
<1>2. CASE TakeEvent
  <2>1. CopyEvent /\ UNCHANGED <<uiVars, prevLeft, pc>>
    BY <1>2 DEF TakeEvent
  <2>2. UiOK(Ui)' /\ drag' = drag
    BY <1>0, <2>1, UiStays
  <2>3. MouseInv'
    BY <1>0, <2>1, <2>2, CopyEventKeeps
  <2> QED BY <1>0, <2>1, <2>2, <2>3 DEF DesktopInv
<1>3. CASE MoveOver
  <2>1. /\ copied.kind = "move" /\ FreeEvent /\ UNCHANGED <<win, z, over, spotN, drag, grabbed, logout>>
        /\ pc' = "widgets" /\ UNCHANGED prevLeft
    BY <1>3 DEF MoveOver, Shut
  <2>2. MouseInv'
    BY <1>0, <2>1, FreeEventKeeps DEF IsLeftUp
  <2>3. spotSel' = spotSel \/ ("spot" \in over /\ spotSel' \in 0..(spotN - 1))
    BY <1>3 DEF MoveOver
  <2>4. CASE spotSel' = spotSel
    <3>1. UNCHANGED uiVars
      BY <2>1, <2>4 DEF uiVars
    <3> QED BY <1>0, <2>1, <2>2, <3>1, UiStays DEF DesktopInv
  <2>5. CASE spotSel' \in 0..(spotN - 1)
    <3>1. Ui \in UiStates /\ over \in Overlays /\ spotN \in 0..SpotMax /\ SpotMax \in Nat
      BY <1>0, UiFields, NoneApart DEF UiOK, OneOver, UiStates
    <3>2. spotSel' \in 0..SpotMax /\ spotSel' < spotN
      BY <2>5, <3>1
    <3>3. UiOK([Ui EXCEPT !.over = over, !.n = spotN, !.sel = spotSel'])
      <4>1. PICK i : i = spotSel'
        OBVIOUS
      <4>2. UiOK([Ui EXCEPT !.over = over, !.n = spotN, !.sel = i])
        BY <1>0, <3>1, <3>2, <4>1, OverlaysKeep
      <4> QED BY <4>1, <4>2
    <3>4. [Ui EXCEPT !.over = over, !.n = spotN, !.sel = spotSel'] = Ui'
      <4> DEFINE X == [Ui EXCEPT !.over = over, !.n = spotN, !.sel = spotSel']
      <4>1. /\ X.win = win /\ X.z = z /\ X.over = over /\ X.n = spotN /\ X.sel = spotSel'
            /\ X.drag = drag /\ X.grabbed = grabbed /\ X.logout = logout
        BY <3>1, UiFields DEF UiStates
      <4>2. X \in UiStates
        BY <3>3 DEF UiOK
      <4> HIDE DEF X
      <4>3. X = [win |-> X.win, z |-> X.z, over |-> X.over, n |-> X.n, sel |-> X.sel,
                 drag |-> X.drag, grabbed |-> X.grabbed, logout |-> X.logout]
        BY <4>2 DEF UiStates
      <4>4. Ui' = [win |-> win, z |-> z, over |-> over, n |-> spotN, sel |-> spotSel',
                   drag |-> drag, grabbed |-> grabbed, logout |-> logout]
        BY <2>1 DEF Ui
      <4> QED BY <4>1, <4>3, <4>4 DEF X
    <3>5. UiOK(Ui)'
      BY <3>3, <3>4 DEF UiOK, Stacked, OneOver, Dragged, Holds, UsedIn, Distinct
    <3> QED BY <1>0, <2>1, <2>2, <3>5 DEF DesktopInv
  <2> QED BY <2>3, <2>4, <2>5
<1>4. CASE LeftPress
  <2>1. /\ copied.kind = "down" /\ copied.button = "left" /\ FreeEvent /\ UNCHANGED prevLeft
        /\ pc' \in {"off", "widgets"}
    BY <1>4 DEF LeftPress
  <2>2. MouseInv'
    BY <1>0, <2>1, FreeEventKeeps DEF IsLeftDown
  <2>3. UiOK(Ui)'
    <3>1. CASE UNCHANGED uiVars
      BY <1>0, <3>1, UiStays
    <3>2. CASE \E h \in Hits : \E u \in HandleClick(h) \cup {Ui} : Becomes(u)
      <4>1. PICK h \in Hits : \E u \in HandleClick(h) \cup {Ui} : Becomes(u)
        BY <3>2
      <4>2. PICK u \in HandleClick(h) \cup {Ui} : Becomes(u)
        BY <4>1
      <4>3. UiOK(u)
        BY <1>0, ClickKeeps
      <4> QED BY <4>2, <4>3, BecomesKeeps
    <3> QED BY <1>4, <3>1, <3>2 DEF LeftPress
  <2> QED BY <1>0, <2>1, <2>2, <2>3 DEF DesktopInv
<1>5. CASE RightPress
  <2>1. /\ copied.kind = "down" /\ copied.button = "right" /\ FreeEvent
        /\ UNCHANGED prevLeft /\ pc' = "widgets"
    BY <1>5 DEF RightPress
  <2>2. PICK h \in Hits : Becomes(HandleRightClick(h))
    BY <1>5 DEF RightPress
  <2>3. PICK u : u = HandleRightClick(h)
    OBVIOUS
  <2>4. UiOK(u) /\ Becomes(u)
    BY <1>0, <2>2, <2>3, RightClickKeeps
  <2>5. u.drag = drag
    <3>1. Ui \in UiStates
      BY <1>0 DEF UiOK
    <3>2. SpotClose(Ui).drag = Ui.drag /\ [Ui EXCEPT !.over = {"ctx"}].drag = Ui.drag
          /\ [Ui EXCEPT !.over = @ \ {"ctx"}].drag = Ui.drag
      BY <3>1 DEF UiStates, SpotClose
    <3> QED BY <2>3, <3>2, UiFields DEF HandleRightClick
  <2>6. UiOK(Ui)' /\ drag' = drag
    BY <2>4, <2>5, BecomesKeeps
  <2>7. MouseInv'
    BY <1>0, <2>1, <2>6, FreeEventKeeps DEF IsLeftUp
  <2> QED BY <1>0, <2>1, <2>6, <2>7 DEF DesktopInv
<1>6. CASE Release
  <2>1. /\ copied.kind = "up" /\ FreeEvent /\ UNCHANGED <<win, z, over, spotN, spotSel, logout, prevLeft>>
        /\ pc' = "widgets"
        /\ IF copied.button = "left" THEN drag' = None /\ grabbed' = FALSE
           ELSE UNCHANGED <<drag, grabbed>>
    BY <1>6 DEF Release
  <2>2. MouseInv'
    BY <1>0, <2>1, FreeEventKeeps DEF IsLeftUp
  <2>3. UiOK(Ui)'
    <3>1. CASE copied.button = "left"
      <4> DEFINE u == [Ui EXCEPT !.drag = None]
      <4>1. Ui \in UiStates /\ Stacked(Ui) /\ OneOver(Ui)
        BY <1>0 DEF UiOK
      <4>2. u \in UiStates
        BY <4>1 DEF UiStates
      <4>3. /\ u.win = win /\ u.z = z /\ u.over = over /\ u.n = spotN /\ u.sel = spotSel
            /\ u.drag = None /\ u.logout = logout
        BY DEF Ui
      <4> HIDE DEF u
      <4>4. Stacked(u) /\ OneOver(u) /\ Dragged(u)
        BY <4>1, <4>3, UiFields DEF Stacked, OneOver, Dragged, UsedIn
      <4>5. Becomes(u)
        BY <2>1, <3>1, <4>3 DEF Becomes
      <4>6. PICK v : v = u
        OBVIOUS
      <4> QED BY <4>2, <4>4, <4>5, <4>6, BecomesKeeps DEF UiOK
    <3>2. CASE copied.button # "left"
      BY <1>0, <2>1, <3>2, UiStays DEF uiVars
    <3> QED BY <3>1, <3>2
  <2> QED BY <1>0, <2>1, <2>2, <2>3 DEF DesktopInv
<1>7. CASE HandleKey
  <2>1. PICK u \in KeyEffects : Becomes(u)
    BY <1>7 DEF HandleKey
  <2>2. UiOK(u)
    BY <1>0, <2>1, KeyKeeps
  <2>3. Grip(Ui, u)
    BY <1>0, <2>1, KeyGrips
  <2>4. UiOK(Ui)' /\ (drag' = drag \/ drag' = None)
    BY <2>1, <2>2, <2>3, BecomesKeeps, UiFields DEF Grip
  <2>5. UNCHANGED mouseVars /\ UNCHANGED prevLeft /\ pc' = "widgets"
    BY <1>7 DEF HandleKey
  <2>6. MouseInv'
    BY <1>0, <2>4, <2>5, MouseStays
  <2> QED BY <1>0, <2>4, <2>5, <2>6 DEF DesktopInv
<1>8. CASE ShellRun \/ ShellEnd \/ Tick
  <2>1. UNCHANGED mouseVars /\ UNCHANGED uiVars /\ UNCHANGED prevLeft
        /\ pc' \in {"top", "widgets", "shell", "off"}
    BY <1>8 DEF ShellRun, ShellEnd, Tick
  <2>2. UiOK(Ui)' /\ drag' = drag
    BY <1>0, <2>1, UiStays
  <2>3. MouseInv'
    BY <1>0, <2>1, <2>2, MouseStays
  <2> QED BY <1>0, <2>1, <2>2, <2>3 DEF DesktopInv
<1>9. CASE Widgets
  <2>1. PICK u \in Clicks \cup {Ui} : Becomes(u)
    BY <1>9 DEF Widgets
  <2>2. UiOK(u)
    BY <1>0, <2>1, ClicksKeep
  <2>3. Grip(Ui, u)
    BY <1>0, <2>1, ClicksGrip DEF Grip
  <2>4. UiOK(Ui)' /\ (drag' = drag \/ drag' = None)
    BY <2>1, <2>2, <2>3, BecomesKeeps, UiFields DEF Grip
  <2>5. UNCHANGED mouseVars /\ prevLeft' = LeftDown /\ pc' = "top"
    BY <1>9 DEF Widgets
  <2>6. MouseInv'
    BY <1>0, <2>4, <2>5, MouseStays
  <2> QED BY <1>0, <2>4, <2>5, <2>6 DEF DesktopInv
<1>10. CASE Restart
  <2>1. /\ copied = NoEvent /\ Drain /\ drag' = None /\ UNCHANGED prevLeft /\ pc' = "widgets"
        /\ win' = [s \in Slots |-> None] /\ z' = <<>> /\ over' = {} /\ spotN' = 0 /\ spotSel' = 0
        /\ logout' = FALSE /\ grabbed' = FALSE
    BY <1>10 DEF Restart
  <2>2. UiOK(Ui)'
    BY <2>1, UiInitNext
  <2>3. MouseInv'
    BY <1>0, <2>1, DrainKeeps
  <2> QED BY <1>0, <2>1, <2>2, <2>3 DEF DesktopInv
<1>11. CASE UNCHANGED deskVars
  <2>1. UNCHANGED mouseVars /\ UNCHANGED uiVars /\ UNCHANGED prevLeft /\ pc' = pc
    BY <1>11 DEF deskVars
  <2>2. UiOK(Ui)' /\ drag' = drag
    BY <1>0, <2>1, UiStays
  <2>3. MouseInv'
    BY <1>0, <2>1, <2>2, MouseStays
  <2> QED BY <1>0, <2>1, <2>2, <2>3 DEF DesktopInv
<1> QED BY <1>1, <1>2, <1>3, <1>4, <1>5, <1>6, <1>7, <1>8, <1>9, <1>10, <1>11 DEF DesktopNext
LEMMA DesktopAlways == DesktopSpec => []DesktopInv
<1>1. DesktopInit => DesktopInv
  BY DesktopInitInv
<1>2. DesktopInv /\ [DesktopNext]_deskVars => DesktopInv'
  BY DesktopStepInv
<1> QED BY <1>1, <1>2, PTL DEF DesktopSpec

LEMMA InvSound == DesktopInv => WindowsSound
<1> SUFFICES ASSUME DesktopInv PROVE WindowsSound
  OBVIOUS
<1>0. /\ MouseTypes /\ UiOK(Ui) /\ prevLeft \in BOOLEAN
      /\ pc \in {"top", "widgets", "shell", "off"}
  BY DEF DesktopInv, MouseInv
<1>1. Ui \in UiStates /\ Holds(z, Used) /\ Distinct(win)
  BY <1>0, UiFields, UsedNow DEF UiOK, Stacked
<1>2. MouseTypeOK
  <2>1. ring \in Seq(Events) /\ Len(ring) <= RingCap /\ stale \in BOOLEAN /\ lostUp \in BOOLEAN
    BY <1>0 DEF MouseTypes, MouseNow, Rings
  <2>2. Range(ring) \subseteq Events
    BY <2>1 DEF Range
  <2> QED BY <1>0, <2>1, <2>2 DEF MouseTypes, MouseTypeOK
<1>3. DesktopTypeOK
  <2>1. /\ win \in [Slots -> Kinds \cup {None}] /\ drag \in Slots \cup {None}
        /\ over \in SUBSET {"menu", "spot", "ctx"} /\ spotN \in 0..SpotMax /\ spotSel \in 0..SpotMax
        /\ grabbed \in BOOLEAN /\ logout \in BOOLEAN
    BY <1>1, UiFields DEF UiStates
  <2> QED BY <1>0, <1>2, <2>1 DEF DesktopTypeOK
<1>4. WindowsStacked
  <2>1. DOMAIN z = 1..Len(z)
    BY <1>1 DEF Holds
  <2>2. IsInjective(z)
    BY <1>1, <2>1 DEF IsInjective, Holds
  <2>3. Range(z) = Used
    <3>1. \A i \in 1..Len(z) : z[i] \in Slots
      BY <1>1 DEF Holds
    <3>2. \A t \in Slots : t \in Used <=> \E i \in 1..Len(z) : z[i] = t
      BY <1>1 DEF Holds
    <3> QED BY <2>1, <3>1, <3>2 DEF Range, Used
  <2>4. \A s, t \in Used : win[s] = win[t] /\ win[s] # "term" => s = t
    BY <1>1 DEF Distinct, Used
  <2> QED BY <2>2, <2>3, <2>4 DEF WindowsStacked
<1> QED BY <1>3, <1>4 DEF WindowsSound

LEMMA InvHeld == DesktopInv => InputHeld
<1> SUFFICES ASSUME DesktopInv PROVE InputHeld
  OBVIOUS
<1>0. MouseInv /\ UiOK(Ui)
  BY DEF DesktopInv
<1>1. over \in Overlays /\ ("spot" \in over => spotSel < spotN \/ spotSel = 0)
  BY <1>0, UiFields DEF UiOK, OneOver
<1>2. OverlaysExclusive
  <2>1. Cardinality({}) = 0 /\ \A x : Cardinality({x}) = 1
    BY FS_EmptySet, FS_Singleton
  <2>2. over = {} \/ \E x : over = {x}
    BY <1>1 DEF Overlays
  <2>3. Cardinality(over) = 0 \/ Cardinality(over) = 1
    BY <2>1, <2>2
  <2>4. Cardinality(over) <= 1
    BY <2>3
  <2> QED BY <1>1, <2>4 DEF OverlaysExclusive
<1>3. drag # None => drag \in Used /\ grabbed
  BY <1>0, UiFields, UsedNow DEF UiOK, Dragged
<1>4. drag # None /\ pc = "widgets" /\ ring = <<>> /\ ~lostUp => LeftDown
  <2> SUFFICES ASSUME drag # None, ring = <<>>, ~lostUp, "left" \notin down PROVE FALSE
    BY DEF LeftDown
  <2>1. MouseNow.ring = ring /\ MouseNow.lostUp = lostUp
    BY DEF MouseNow
  <2>2. Follows(<<>>)
    BY <1>0, <2>1 DEF MouseInv, LeftOrder
  <2> QED BY <2>2 DEF Follows
<1> QED BY <1>2, <1>3, <1>4 DEF InputHeld, DragHolds

LEMMA InvSees == DesktopInv => SeesPointer
<1>1. MouseNow.ring = ring /\ MouseNow.stale = stale
  BY DEF MouseNow
<1> QED BY <1>1 DEF DesktopInv, MouseInv, Newest, SeesPointer

(* Through every order of opening, closing, raising and recycling windows, *)
(* the three arrays of desktop_win.c agree: the stacking order is exactly  *)
(* the open windows, and only a terminal is open twice.                    *)
THEOREM WindowsAgree == DesktopSpec => []WindowsSound
<1>1. DesktopInv => WindowsSound
  BY InvSound
<1> QED BY <1>1, DesktopAlways, PTL

(* Overlays exclude one another, the selection is one of the results, and  *)
(* a drag holds the window that was pressed, with the button held once the *)
(* ring is read out, unless its release was dropped (mouse.c:60).          *)
THEOREM OneInputAtATime == DesktopSpec => []InputHeld
<1>1. DesktopInv => InputHeld
  BY InvHeld
<1> QED BY <1>1, DesktopAlways, PTL

(* A reader that has emptied the ring knows where the pointer is, however  *)
(* the interrupt merges and drops, unless the newest news was lost.        *)
THEOREM ReaderSeesPointer == DesktopSpec => []SeesPointer
<1>1. DesktopInv => SeesPointer
  BY InvSees
<1> QED BY <1>1, DesktopAlways, PTL

-----------------------------------------------------------------------------
(* The screen.  What holds of every intermediate picture a program passes  *)
(* from one call to the next (SoundGfx), and which of its pixels are shown *)
(* as the scene has them (FreshOn).                                        *)

Shades == Colours \cup {Cursor}
Damages == {d \in [on : BOOLEAN, x : Nat, w : Nat] : d.on => d.w >= 1 /\ d.x + d.w =< FbW}
Pictures ==
    [front : [Pixels -> Shades], back : [Pixels -> Colours], base : {"front", "back"},
     dirty : BOOLEAN, damage : Damages, full : BOOLEAN, bits32 : BOOLEAN, on : BOOLEAN,
     cx : Int, under : UNION {[S -> Shades] : S \in SUBSET Pixels}, left : SUBSET Pixels]

\* All of the pointer is on the glass, and no other pixel looks like one but those forgotten.
Whole(s) == s.on => \A p \in Box(s.cx) : s.front[p] = Cursor
Lone(s) == \A p \in Pixels : s.front[p] = Cursor => p \in s.left \/ (s.on /\ p \in Box(s.cx))
\* The glass under the pointer is kept where the back buffer cannot restore it.
UnderSaved(s) ==
    /\ DOMAIN s.under = IF s.on /\ ~s.bits32 THEN Box(s.cx) ELSE {}
    /\ s.on => Box(s.cx) # {}
SoundGfx(s) == s \in Pictures /\ Whole(s) /\ Lone(s) /\ UnderSaved(s)

\* The scene is on the glass or under the pointer; what the pointer covers is the scene's.
FreshOn(s, S) == \A p \in S : /\ s.front[p] \in {s.back[p], Cursor}
                              /\ p \in DOMAIN s.under => s.under[p] \in {s.back[p], Cursor}
PendingIn(s) == IF ~s.dirty THEN {} ELSE IF s.full THEN Pixels
                ELSE IF s.damage.on THEN Span(s.damage.x, s.damage.x + s.damage.w) ELSE {}
Fresh(s) == FreshOn(s, Pixels \ PendingIn(s))
ScreenOK(s) == SoundGfx(s) /\ Fresh(s)

PictureInv ==
    /\ ScreenOK(gfx)
    /\ mouse \in Pixels /\ seen \in Pixels \cup {-1} /\ spot \in BOOLEAN

-----------------------------------------------------------------------------
(* Buffers *)

LEMMA Numbers ==
  /\ FbW \in Nat /\ CursorW \in Nat /\ CursorW # 0 /\ Pad \in Nat /\ Stage \in Nat
  /\ DockX \in Nat /\ DockW \in Nat /\ MaxU \in Nat /\ FbW =< MaxU /\ Stage >= 2 * CursorW
  /\ Hots \subseteq 0 .. (CursorW - 1) /\ Cursor \notin Colours
BY ScreenAssumption

LEMMA Overlaid ==
  ASSUME NEW A, NEW f \in [Pixels -> A], NEW g, NEW S \in SUBSET Pixels, DOMAIN g = S,
         \A p \in S : g[p] \in A
  PROVE  /\ Merge(f, g) \in [Pixels -> A]
         /\ \A p \in Pixels : Merge(f, g)[p] = IF p \in S THEN g[p] ELSE f[p]
BY DEF Merge

\* A function of pixels painted over others, on the glass.
Paints(pix) == /\ DOMAIN pix \in SUBSET Pixels
               /\ \A p \in DOMAIN pix : pix[p] \in Shades

LEMMA Unders ==
  ASSUME NEW s \in Pictures
  PROVE  Paints(s.under)
<1>1. s.under \in UNION {[S -> Shades] : S \in SUBSET Pixels}
  BY DEF Pictures
<1>2. PICK S \in SUBSET Pixels : s.under \in [S -> Shades]
  BY <1>1
<1> QED BY <1>2 DEF Paints

LEMMA UnderTypes ==
  ASSUME NEW S \in SUBSET Pixels, NEW f \in [S -> Shades]
  PROVE  f \in UNION {[R -> Shades] : R \in SUBSET Pixels}
OBVIOUS

LEMMA NowhereIs == Nowhere \in UNION {[R -> Shades] : R \in SUBSET Pixels} /\ DOMAIN Nowhere = {}
<1>1. Nowhere \in [{} -> Shades]
  BY DEF Nowhere
<1>2. {} \in SUBSET Pixels
  OBVIOUS
<1> QED BY <1>1, <1>2, UnderTypes

LEMMA ToFrontGives ==
  ASSUME NEW s \in Pictures, NEW pix, Paints(pix)
  PROVE  LET t == ToFront(s, pix)
         IN  /\ t \in Pictures /\ t.base = "front" /\ t.left = s.left \ DOMAIN pix
             /\ \A p \in Pixels : t.front[p] = IF p \in DOMAIN pix THEN pix[p] ELSE s.front[p]
             /\ t.back = s.back /\ t.dirty = s.dirty /\ t.damage = s.damage /\ t.full = s.full
             /\ t.bits32 = s.bits32 /\ t.on = s.on /\ t.cx = s.cx /\ t.under = s.under
<1> DEFINE t == ToFront(s, pix)
           f == Merge(s.front, pix)
           l == s.left \ DOMAIN pix
           D == DOMAIN pix
<1>1. s.front \in [Pixels -> Shades] /\ s.left \in SUBSET Pixels
  BY DEF Pictures
<1>2. f \in [Pixels -> Shades] /\ \A p \in Pixels : f[p] = IF p \in D THEN pix[p] ELSE s.front[p]
  BY <1>1, Overlaid DEF Paints
<1>3. l \in SUBSET Pixels
  BY <1>1
<1>4. t = [s EXCEPT !.front = f, !.base = "front", !.left = l]
  BY DEF ToFront
<1> HIDE DEF t, f, l
<1>5. t \in Pictures
  BY <1>2, <1>3, <1>4 DEF Pictures
<1>6. /\ t.front = f /\ t.base = "front" /\ t.left = l
      /\ t.back = s.back /\ t.dirty = s.dirty /\ t.damage = s.damage /\ t.full = s.full
      /\ t.bits32 = s.bits32 /\ t.on = s.on /\ t.cx = s.cx /\ t.under = s.under
  BY <1>4 DEF Pictures
<1> QED BY <1>2, <1>5, <1>6 DEF t, l

(* What only moves the base, or forgets damage, leaves the picture alone.  *)
SamePicture(s, t) ==
    /\ t \in Pictures /\ t.front = s.front /\ t.back = s.back /\ t.on = s.on /\ t.cx = s.cx
    /\ t.under = s.under /\ t.left = s.left /\ t.bits32 = s.bits32

LEMMA SamePictureKeeps ==
  ASSUME NEW s, SoundGfx(s), NEW t, SamePicture(s, t)
  PROVE  SoundGfx(t) /\ \A S : FreshOn(s, S) => FreshOn(t, S)
<1>1. Whole(t)
  BY DEF SoundGfx, Whole, SamePicture
<1>2. Lone(t)
  BY DEF SoundGfx, Lone, SamePicture
<1>3. UnderSaved(t)
  BY DEF SoundGfx, UnderSaved, SamePicture
<1>4. \A S : FreshOn(s, S) => FreshOn(t, S)
  BY DEF FreshOn, SamePicture
<1> QED BY <1>1, <1>2, <1>3, <1>4 DEF SoundGfx, SamePicture

LEMMA ComposeIs ==
  ASSUME NEW s \in Pictures
  PROVE  /\ SamePicture(s, ComposeBegin(s)) /\ ComposeBegin(s).dirty = TRUE
         /\ ComposeBegin(s).base = "back" /\ ComposeBegin(s).full = s.full
         /\ ComposeBegin(s).damage = s.damage
         /\ SamePicture(s, ComposeEnd(s)) /\ ComposeEnd(s).base = "front"
         /\ ComposeEnd(s).dirty = s.dirty /\ ComposeEnd(s).full = s.full
         /\ ComposeEnd(s).damage = s.damage
<1> DEFINE t == ComposeBegin(s)
           u == ComposeEnd(s)
<1>1. t = [s EXCEPT !.base = "back", !.dirty = TRUE] /\ u = [s EXCEPT !.base = "front"]
  BY DEF ComposeBegin, ComposeEnd
<1> HIDE DEF t, u
<1>2. t \in Pictures /\ u \in Pictures
  BY <1>1 DEF Pictures
<1>3. /\ t.front = s.front /\ t.back = s.back /\ t.on = s.on /\ t.cx = s.cx
      /\ t.under = s.under /\ t.left = s.left /\ t.bits32 = s.bits32
      /\ t.dirty = TRUE /\ t.base = "back" /\ t.full = s.full /\ t.damage = s.damage
  BY <1>1 DEF Pictures
<1>4. /\ u.front = s.front /\ u.back = s.back /\ u.on = s.on /\ u.cx = s.cx
      /\ u.under = s.under /\ u.left = s.left /\ u.bits32 = s.bits32
      /\ u.dirty = s.dirty /\ u.base = "front" /\ u.full = s.full /\ u.damage = s.damage
  BY <1>1 DEF Pictures
<1> QED BY <1>2, <1>3, <1>4 DEF SamePicture, t, u

LEMMA SettledIs ==
  ASSUME NEW s \in Pictures
  PROVE  SamePicture(s, Settled(s)) /\ ~Settled(s).full /\ ~Settled(s).damage.on
<1> DEFINE t == Settled(s)
<1>1. t = [s EXCEPT !.damage = NoDamage, !.full = FALSE]
  BY DEF Settled
<1>2. NoDamage \in Damages /\ ~NoDamage.on
  BY DEF NoDamage, Damages
<1> HIDE DEF t
<1>3. t \in Pictures
  BY <1>1, <1>2 DEF Pictures
<1>4. /\ t.front = s.front /\ t.back = s.back /\ t.on = s.on /\ t.cx = s.cx
      /\ t.under = s.under /\ t.left = s.left /\ t.bits32 = s.bits32
      /\ t.full = FALSE /\ t.damage = NoDamage
  BY <1>1 DEF Pictures
<1> QED BY <1>2, <1>3, <1>4 DEF SamePicture, t

LEMMA MarkFullIs ==
  ASSUME NEW s \in Pictures
  PROVE  SamePicture(s, MarkFull(s)) /\ MarkFull(s).full = TRUE /\ MarkFull(s).dirty = s.dirty
<1> DEFINE t == MarkFull(s)
<1>1. t = [s EXCEPT !.full = TRUE]
  BY DEF MarkFull
<1> HIDE DEF t
<1>2. t \in Pictures
  BY <1>1 DEF Pictures
<1>3. /\ t.front = s.front /\ t.back = s.back /\ t.on = s.on /\ t.cx = s.cx
      /\ t.under = s.under /\ t.left = s.left /\ t.bits32 = s.bits32
      /\ t.full = TRUE /\ t.dirty = s.dirty
  BY <1>1 DEF Pictures
<1> QED BY <1>2, <1>3 DEF SamePicture, t

(* ui_comp_mark_full: with everything to be copied nothing is missing.     *)
LEMMA MarkFullKeeps ==
  ASSUME NEW s, SoundGfx(s), s.dirty \/ Fresh(s)
  PROVE  ScreenOK(MarkFull(s)) /\ MarkFull(s).dirty = s.dirty
<1> DEFINE t == MarkFull(s)
<1>1. s \in Pictures
  BY DEF SoundGfx
<1>2. SamePicture(s, t) /\ t.full = TRUE /\ t.dirty = s.dirty
  BY <1>1, MarkFullIs
<1> HIDE DEF t
<1>3. SoundGfx(t) /\ \A S : FreshOn(s, S) => FreshOn(t, S)
  BY <1>2, SamePictureKeeps
<1>4. s.dirty \in BOOLEAN
  BY <1>1 DEF Pictures
<1>5. CASE s.dirty
  <2>1. PendingIn(t) = Pixels
    BY <1>2, <1>5 DEF PendingIn
  <2>2. Fresh(t)
    BY <2>1 DEF Fresh, FreshOn
  <2> QED BY <1>2, <1>3, <2>2 DEF ScreenOK, t
<1>6. CASE ~s.dirty
  <2>1. PendingIn(t) = {} /\ PendingIn(s) = {}
    BY <1>2, <1>6 DEF PendingIn
  <2>2. Fresh(t)
    BY <1>3, <1>6, <2>1 DEF Fresh
  <2> QED BY <1>2, <1>3, <2>2 DEF ScreenOK, t
<1> QED BY <1>5, <1>6

-----------------------------------------------------------------------------
(* The pointer *)

SameScene(s, t) == /\ t.back = s.back /\ t.dirty = s.dirty /\ t.damage = s.damage
                   /\ t.full = s.full /\ t.bits32 = s.bits32
KeepsFresh(s, t) == \A S \in SUBSET Pixels : FreshOn(s, S) => FreshOn(t, S)

LEMMA BoxesIn ==
  ASSUME NEW x \in Int, NEW y \in Int
  PROVE  /\ Box(x) \in SUBSET Pixels /\ Boxes(x, y) \in SUBSET Pixels
         /\ Box(x) \subseteq Boxes(x, y) /\ Box(y) \subseteq Boxes(x, y)
<1>1. Pixels \subseteq Int /\ CursorW \in Nat
  BY Numbers DEF Pixels
<1>2. Box(x) \in SUBSET Pixels /\ Boxes(x, y) \in SUBSET Pixels
  BY DEF Box, Boxes, Span
<1>3. ASSUME NEW p \in Pixels
      PROVE  /\ x =< p /\ p < x + CursorW => Least(x, y) =< p /\ p < Most(x, y) + CursorW
             /\ y =< p /\ p < y + CursorW => Least(x, y) =< p /\ p < Most(x, y) + CursorW
  <2>1. p \in Int
    BY <1>1
  <2> QED BY <1>1, <2>1 DEF Least, Most
<1> QED BY <1>2, <1>3 DEF Box, Boxes, Span

LEMMA SmallInterval ==
  ASSUME NEW lo \in Int, NEW hi \in Int, NEW S, S \subseteq lo .. hi, lo =< hi
  PROVE  IsFiniteSet(S) /\ Cardinality(S) \in Nat /\ Cardinality(S) =< hi - lo + 1
<1>1. IsFiniteSet(lo .. hi) /\ Cardinality(lo .. hi) = hi - lo + 1
  BY FS_Interval
<1>2. Cardinality(S) =< Cardinality(lo .. hi) /\ IsFiniteSet(S)
  BY <1>1, FS_Subset
<1>3. Cardinality(S) \in Nat
  BY <1>2, FS_CardinalityType
<1> QED BY <1>1, <1>2, <1>3

\* One pointer always fits the staging rows.
LEMMA BoxFits ==
  ASSUME NEW s \in Pictures, NEW x \in Int, Box(x) # {}
  PROVE  CanStage(s, Box(x)) <=> s.bits32
<1>1. CursorW \in Nat \ {0} /\ Stage \in Nat /\ Stage >= 2 * CursorW
  BY Numbers
<1>2. Box(x) \subseteq x .. (x + CursorW - 1)
  BY <1>1, Numbers DEF Box, Span, Pixels
<1>3. x + CursorW - 1 \in Int /\ x =< x + CursorW - 1
  BY <1>1
<1> DEFINE B == Box(x)  h == x + CursorW - 1
<1> HIDE DEF B, h
<1>4. Cardinality(B) \in Nat /\ Cardinality(B) =< h - x + 1
  BY <1>2, <1>3, SmallInterval DEF B, h
<1>5. h - x + 1 = CursorW
  BY <1>1 DEF h
<1>6. Cardinality(B) =< Stage
  BY <1>1, <1>4, <1>5
<1> QED BY <1>6 DEF B, CanStage

\* Two pointers that do not fit together lie apart.
LEMMA ApartBoxes ==
  ASSUME NEW s \in Pictures, s.bits32, NEW x \in Int, NEW y \in Int, Box(x) # {},
         ~CanStage(s, Boxes(x, y))
  PROVE  Box(x) \cap Box(y) = {}
<1>1. CursorW \in Nat \ {0} /\ Stage \in Nat /\ Stage >= 2 * CursorW
  BY Numbers
<1> DEFINE lo == Least(x, y)  hi == Most(x, y) + CursorW - 1
<1>2. SUFFICES ASSUME NEW p \in Box(x), p \in Box(y) PROVE FALSE
  OBVIOUS
<1>3. p \in Int /\ x =< p /\ p < x + CursorW /\ y =< p /\ p < y + CursorW
  BY <1>2, Numbers DEF Box, Span, Pixels
<1>4. lo \in Int /\ hi \in Int /\ lo =< hi /\ hi - lo + 1 =< 2 * CursorW
  BY <1>1, <1>3 DEF Least, Most
<1>5. Boxes(x, y) \subseteq lo .. hi
  BY <1>1, Numbers DEF Boxes, Span, Pixels, Least, Most
<1> DEFINE B == Boxes(x, y)
<1> HIDE DEF lo, hi, B
<1>6. Cardinality(B) \in Nat /\ Cardinality(B) =< hi - lo + 1
  BY <1>4, <1>5, SmallInterval DEF B
<1>7. Cardinality(B) =< Stage
  BY <1>1, <1>4, <1>6
<1>8. B # {}
  BY BoxesIn DEF B
<1> QED BY <1>7, <1>8 DEF B, CanStage

\* t: s with the scene copied over an area, and a sprite on top of it.
Sprited(s, t, area, sprite) ==
    /\ t \in Pictures /\ t.base = "front" /\ t.left = s.left \ area
    /\ \A p \in Pixels : t.front[p] = IF p \notin area THEN s.front[p]
                                     ELSE IF p \in sprite THEN Cursor ELSE s.back[p]
    /\ SameScene(s, t) /\ t.on = s.on /\ t.cx = s.cx /\ t.under = s.under

LEMMA SpriteGives ==
  ASSUME NEW s \in Pictures, NEW area \in SUBSET Pixels, NEW sprite \in SUBSET Pixels
  PROVE  Sprited(s, PresentSprite(s, area, sprite), area, sprite)
<1> DEFINE pix == [p \in area |-> IF p \in sprite THEN Cursor ELSE s.back[p]]
<1>1. s.back \in [Pixels -> Colours]
  BY DEF Pictures
<1>2. DOMAIN pix = area /\ \A p \in area : pix[p] = IF p \in sprite THEN Cursor ELSE s.back[p]
  OBVIOUS
<1>3. \A p \in area : pix[p] \in Shades
  BY <1>1 DEF Shades
<1> HIDE DEF pix
<1>4. Paints(pix)
  BY <1>2, <1>3 DEF Paints
<1>5. PresentSprite(s, area, sprite) = ToFront(s, pix)
  BY DEF PresentSprite, pix
<1> DEFINE t == ToFront(s, pix)
<1>6. /\ t \in Pictures /\ t.base = "front" /\ t.left = s.left \ DOMAIN pix
      /\ \A p \in Pixels : t.front[p] = IF p \in DOMAIN pix THEN pix[p] ELSE s.front[p]
      /\ t.back = s.back /\ t.dirty = s.dirty /\ t.damage = s.damage /\ t.full = s.full
      /\ t.bits32 = s.bits32 /\ t.on = s.on /\ t.cx = s.cx /\ t.under = s.under
  BY <1>4, ToFrontGives
<1> HIDE DEF t
<1>7. \A p \in Pixels : t.front[p] = IF p \notin area THEN s.front[p]
                                    ELSE IF p \in sprite THEN Cursor ELSE s.back[p]
  BY <1>2, <1>6
<1>8. Sprited(s, t, area, sprite)
  BY <1>2, <1>6, <1>7 DEF SameScene, Sprited
<1> QED BY <1>5, <1>8 DEF t

(* cursor_invalidate: the pointer stays on the glass, and is remembered.   *)
LEMMA Forgotten ==
  ASSUME NEW s, SoundGfx(s)
  PROVE  LET t == CursorInvalidate(s)
         IN SoundGfx(t) /\ SameScene(s, t) /\ KeepsFresh(s, t) /\ ~t.on /\ DOMAIN t.under = {}
            /\ t.base = s.base /\ t.front = s.front
<1> DEFINE t == CursorInvalidate(s)
           l == IF s.on THEN s.left \cup Box(s.cx) ELSE s.left
<1>1. s \in Pictures /\ Whole(s) /\ Lone(s) /\ UnderSaved(s)
  BY DEF SoundGfx
<1>2. s.left \in SUBSET Pixels /\ s.cx \in Int /\ s.on \in BOOLEAN
  BY <1>1 DEF Pictures
<1>3. l \in SUBSET Pixels
  BY <1>2, BoxesIn
<1>4. t = [s EXCEPT !.on = FALSE, !.under = Nowhere, !.left = l]
  BY DEF CursorInvalidate
<1>5. Nowhere \in UNION {[R -> Shades] : R \in SUBSET Pixels} /\ DOMAIN Nowhere = {}
  BY NowhereIs
<1>6. Lone(s) => \A p \in Pixels : s.front[p] = Cursor => p \in l
  BY <1>2 DEF Lone
<1> HIDE DEF t, l
<1>7. t \in Pictures
  BY <1>1, <1>3, <1>4, <1>5 DEF Pictures
<1>8. t.on = FALSE /\ t.under = Nowhere /\ t.left = l /\ t.front = s.front /\ t.base = s.base
  BY <1>1, <1>4 DEF Pictures
<1>9. SameScene(s, t)
  BY <1>1, <1>4 DEF Pictures, SameScene
<1>10. Whole(t) /\ Lone(t) /\ UnderSaved(t)
  BY <1>1, <1>5, <1>6, <1>8 DEF Whole, Lone, UnderSaved
<1>11. KeepsFresh(s, t)
  BY <1>5, <1>8, <1>9 DEF KeepsFresh, FreshOn, SameScene
<1> QED BY <1>5, <1>7, <1>8, <1>9, <1>10, <1>11 DEF t, SoundGfx

\* restore_under, on a buffer whose pixels are the glass's.
LEMMA Restored ==
  ASSUME NEW s \in Pictures, s.base = "front"
  PROVE  LET t == RestoreUnder(s)
         IN  /\ t \in Pictures /\ t.base = "front" /\ SameScene(s, t) /\ t.on = s.on
             /\ t.cx = s.cx /\ DOMAIN t.under = {}
             /\ t.left = s.left \cup {p \in DOMAIN s.under : s.under[p] = Cursor}
             /\ \A p \in Pixels : t.front[p] = IF p \in DOMAIN s.under THEN s.under[p] ELSE s.front[p]
<1> DEFINE t == RestoreUnder(s)
           D == DOMAIN s.under
           f == Merge(s.front, s.under)
           l == s.left \cup {p \in D : s.under[p] = Cursor}
<1>1. s.front \in [Pixels -> Shades] /\ s.left \in SUBSET Pixels
  BY DEF Pictures
<1>2. Paints(s.under)
  BY Unders
<1>3. D \in SUBSET Pixels /\ \A p \in D : s.under[p] \in Shades
  BY <1>2 DEF Paints
<1>4. f \in [Pixels -> Shades] /\ \A p \in Pixels : f[p] = IF p \in D THEN s.under[p] ELSE s.front[p]
  BY <1>1, <1>3, Overlaid
<1>5. l \in SUBSET Pixels
  BY <1>1, <1>3
<1>6. Plot(s, s.under) = [s EXCEPT !.front = f]
  BY DEF Plot
<1>7. Nowhere \in UNION {[R -> Shades] : R \in SUBSET Pixels} /\ DOMAIN Nowhere = {}
  BY NowhereIs
<1> DEFINE v == [s EXCEPT !.front = f]
<1> HIDE DEF f
<1>8. v \in Pictures /\ v.left = s.left /\ v.under = s.under /\ v.front = f
      /\ v.base = s.base /\ SameScene(s, v) /\ v.on = s.on /\ v.cx = s.cx
  BY <1>4 DEF Pictures, SameScene
<1>9. t = [v EXCEPT !.under = Nowhere, !.left = l]
  BY <1>6, <1>8 DEF RestoreUnder
<1> HIDE DEF t, l, v, D
<1>10. t \in Pictures
  BY <1>5, <1>7, <1>8, <1>9 DEF Pictures
<1>11. t.base = v.base /\ t.on = v.on /\ t.cx = v.cx /\ t.under = Nowhere /\ t.left = l
       /\ t.front = v.front /\ SameScene(v, t)
  BY <1>8, <1>9 DEF Pictures, SameScene
<1>12. SameScene(s, t)
  BY <1>8, <1>11 DEF SameScene
<1> QED BY <1>4, <1>7, <1>8, <1>10, <1>11, <1>12 DEF t, l, D

\* What the pointer's code does to the picture, whichever way it is drawn.
Erased(s, t) == /\ SoundGfx(t) /\ SameScene(s, t) /\ KeepsFresh(s, t) /\ ~t.on

LEMMA SameSceneTrans ==
  ASSUME NEW s, NEW t, NEW u, SameScene(s, t), SameScene(t, u)
  PROVE  SameScene(s, u)
BY DEF SameScene

LEMMA KeepsTrans ==
  ASSUME NEW s, NEW t, NEW u, KeepsFresh(s, t), KeepsFresh(t, u)
  PROVE  KeepsFresh(s, u)
BY DEF KeepsFresh

\* fb_compose_end before the pointer is touched.
LEMMA Ended ==
  ASSUME NEW s, SoundGfx(s)
  PROVE  LET e == ComposeEnd(s)
         IN SoundGfx(e) /\ SameScene(s, e) /\ KeepsFresh(s, e) /\ e.base = "front" /\ e.on = s.on
            /\ e.cx = s.cx /\ e.front = s.front /\ e.under = s.under
<1> DEFINE e == ComposeEnd(s)
<1>1. s \in Pictures
  BY DEF SoundGfx
<1>2. SamePicture(s, e) /\ e.base = "front" /\ e.dirty = s.dirty /\ e.full = s.full
      /\ e.damage = s.damage
  BY <1>1, ComposeIs
<1> HIDE DEF e
<1>3. SoundGfx(e) /\ \A S : FreshOn(s, S) => FreshOn(e, S)
  BY <1>2, SamePictureKeeps
<1>4. SameScene(s, e) /\ e.on = s.on /\ e.cx = s.cx /\ e.front = s.front /\ e.under = s.under
  BY <1>2 DEF SamePicture, SameScene
<1> QED BY <1>2, <1>3, <1>4 DEF KeepsFresh, e

\* A pointer that is off, with nothing kept: only the glass and the scene matter.
LEMMA BareKeeps ==
  ASSUME NEW s, NEW t, SameScene(s, t), DOMAIN t.under = {},
         \A p \in Pixels : \/ t.front[p] = s.front[p]
                           \/ t.front[p] \in {t.back[p], Cursor}
                           \/ p \in DOMAIN s.under /\ t.front[p] = s.under[p]
  PROVE  KeepsFresh(s, t)
<1>1. SUFFICES ASSUME NEW S \in SUBSET Pixels, FreshOn(s, S) PROVE FreshOn(t, S)
  BY DEF KeepsFresh
<1>2. t.back = s.back
  BY DEF SameScene
<1>3. ASSUME NEW p \in S PROVE t.front[p] \in {t.back[p], Cursor}
  <2>1. p \in Pixels /\ s.front[p] \in {s.back[p], Cursor}
        /\ (p \in DOMAIN s.under => s.under[p] \in {s.back[p], Cursor})
    BY <1>1 DEF FreshOn
  <2> QED BY <1>2, <2>1
<1> QED BY <1>3 DEF FreshOn

(* gfx_cursor_erase *)
LEMMA EraseGives ==
  ASSUME NEW s, SoundGfx(s)
  PROVE  Erased(s, Erase(s))
<1>1. s \in Pictures /\ s.on \in BOOLEAN
  BY DEF SoundGfx, Pictures
<1>2. CASE ~s.on
  <2>1. Erase(s) = s
    BY <1>2 DEF Erase
  <2> QED BY <1>2, <2>1 DEF Erased, SameScene, KeepsFresh
<1>3. CASE s.on
  <2> DEFINE e == ComposeEnd(s)
             B == Box(e.cx)
  <2>1. SoundGfx(e) /\ SameScene(s, e) /\ KeepsFresh(s, e) /\ e.base = "front" /\ e.on = s.on
    BY Ended
  <2>2. Erase(s) = IF CanStage(e, B) THEN [PresentSprite(e, B, {}) EXCEPT !.on = FALSE, !.under = Nowhere]
                   ELSE [RestoreUnder(e) EXCEPT !.on = FALSE]
    BY <1>3 DEF Erase
  <2> HIDE DEF e
  <2>3. e \in Pictures /\ Whole(e) /\ Lone(e) /\ UnderSaved(e) /\ e.cx \in Int /\ e.on
        /\ e.bits32 \in BOOLEAN
    BY <1>3, <2>1 DEF SoundGfx, Pictures
  <2>4. B \in SUBSET Pixels /\ B # {} /\ (DOMAIN e.under = IF ~e.bits32 THEN B ELSE {})
    BY <2>3, BoxesIn DEF UnderSaved
  <2>5. CanStage(e, B) <=> e.bits32
    BY <2>3, <2>4, BoxFits
  <2> HIDE DEF B
  <2>6. CASE e.bits32
    <3> DEFINE sp == {}
               v == PresentSprite(e, B, sp)
               t == [v EXCEPT !.on = FALSE, !.under = Nowhere]
    <3> HIDE DEF sp
    <3>0. e \in Pictures /\ B \in SUBSET Pixels /\ sp \in SUBSET Pixels
      BY <2>3, <2>4 DEF sp
    <3>1. Sprited(e, v, B, sp)
      BY <3>0, SpriteGives
    <3> HIDE DEF v
    <3>1a. /\ v \in Pictures /\ v.left = e.left \ B /\ SameScene(e, v)
           /\ \A p \in Pixels : v.front[p] = IF p \in B THEN e.back[p] ELSE e.front[p]
      BY <3>1 DEF Sprited, sp
    <3>2. Nowhere \in UNION {[R -> Shades] : R \in SUBSET Pixels} /\ DOMAIN Nowhere = {}
      BY NowhereIs
    <3>3. t \in Pictures
      BY <3>1a, <3>2 DEF Pictures
    <3>4. /\ t.on = FALSE /\ t.under = Nowhere /\ t.front = v.front /\ t.left = v.left
          /\ SameScene(v, t)
      BY <3>1a DEF Pictures, SameScene
    <3> HIDE DEF t
    <3>5. SameScene(e, t)
      BY <3>1a, <3>4, SameSceneTrans
    <3>6. \A p \in Pixels : t.front[p] = IF p \in B THEN e.back[p] ELSE e.front[p]
      BY <3>1a, <3>4 DEF sp
    <3>7. Lone(t)
      <4>1. SUFFICES ASSUME NEW p \in Pixels, t.front[p] = Cursor PROVE p \in t.left
        BY DEF Lone
      <4>2. e.back[p] \in Colours /\ Cursor \notin Colours
        BY <2>3, Numbers DEF Pictures
      <4>3. p \notin B /\ e.front[p] = Cursor
        BY <3>6, <4>1, <4>2
      <4>4. p \in e.left
        BY <2>3, <4>3 DEF Lone, B
      <4> QED BY <3>1a, <3>4, <4>3, <4>4
    <3>8. Whole(t) /\ UnderSaved(t)
      BY <3>2, <3>4 DEF Whole, UnderSaved
    <3>9. SoundGfx(t)
      BY <3>3, <3>7, <3>8 DEF SoundGfx
    <3>10. \A p \in Pixels : \/ t.front[p] = e.front[p]
                             \/ t.front[p] \in {t.back[p], Cursor}
                             \/ p \in DOMAIN e.under /\ t.front[p] = e.under[p]
      BY <3>5, <3>6 DEF SameScene
    <3>10a. DOMAIN t.under = {}
      BY <3>2, <3>4
    <3>11. KeepsFresh(e, t)
      BY <3>5, <3>10, <3>10a, BareKeeps
    <3>12. SameScene(s, t) /\ KeepsFresh(s, t)
      BY <2>1, <3>5, <3>11, SameSceneTrans, KeepsTrans
    <3>13. Erase(s) = t
      BY <2>2, <2>5, <2>6 DEF t, v, sp
    <3> QED BY <3>4, <3>9, <3>12, <3>13 DEF Erased
  <2>7. CASE ~e.bits32
    <3> DEFINE v == RestoreUnder(e)
               t == [v EXCEPT !.on = FALSE]
    <3>1. /\ v \in Pictures /\ v.base = "front" /\ SameScene(e, v) /\ v.on = e.on
          /\ v.cx = e.cx /\ DOMAIN v.under = {}
          /\ v.left = e.left \cup {p \in DOMAIN e.under : e.under[p] = Cursor}
          /\ \A p \in Pixels : v.front[p] = IF p \in DOMAIN e.under THEN e.under[p] ELSE e.front[p]
      BY <2>1, <2>3, Restored
    <3> HIDE DEF v
    <3>2. t \in Pictures
      BY <3>1 DEF Pictures
    <3>3. /\ t.on = FALSE /\ t.under = v.under /\ t.front = v.front /\ t.left = v.left
          /\ SameScene(v, t)
      BY <3>1 DEF Pictures, SameScene
    <3> HIDE DEF t
    <3>4. SameScene(e, t)
      BY <3>1, <3>3, SameSceneTrans
    <3>5. DOMAIN e.under = B
      BY <2>4, <2>7
    <3>6. Lone(t)
      <4>1. SUFFICES ASSUME NEW p \in Pixels, t.front[p] = Cursor PROVE p \in t.left
        BY DEF Lone
      <4>2. CASE p \in B
        BY <3>1, <3>3, <3>5, <4>1, <4>2
      <4>3. CASE p \notin B
        <5>1. e.front[p] = Cursor
          BY <3>1, <3>3, <3>5, <4>1, <4>3
        <5>2. p \in e.left
          BY <2>3, <4>3, <5>1 DEF Lone, B
        <5> QED BY <3>1, <3>3, <5>2
      <4> QED BY <4>2, <4>3
    <3>7. Whole(t) /\ UnderSaved(t)
      BY <3>1, <3>3 DEF Whole, UnderSaved
    <3>8. SoundGfx(t)
      BY <3>2, <3>6, <3>7 DEF SoundGfx
    <3>9. \A p \in Pixels : \/ t.front[p] = e.front[p]
                            \/ t.front[p] \in {t.back[p], Cursor}
                            \/ p \in DOMAIN e.under /\ t.front[p] = e.under[p]
      BY <3>1, <3>3
    <3>9a. DOMAIN t.under = {}
      BY <3>1, <3>3
    <3>10. KeepsFresh(e, t)
      BY <3>4, <3>9, <3>9a, BareKeeps
    <3>11. SameScene(s, t) /\ KeepsFresh(s, t)
      BY <2>1, <3>4, <3>10, SameSceneTrans, KeepsTrans
    <3>12. Erase(s) = t
      BY <2>2, <2>5, <2>7 DEF t, v
    <3> QED BY <3>3, <3>8, <3>11, <3>12 DEF Erased
  <2> QED BY <2>3, <2>6, <2>7
<1> QED BY <1>1, <1>2, <1>3

\* What is known of a picture after the pointer was drawn, or taken off.
Steady(s, t) == SoundGfx(t) /\ SameScene(s, t) /\ KeepsFresh(s, t)

LEMMA CommitGives ==
  ASSUME NEW v \in Pictures, NEW x \in Int
  PROVE  LET t == Commit(v, x)
         IN  /\ t \in Pictures /\ t.on = TRUE /\ t.cx = x /\ t.under = Nowhere
             /\ t.front = v.front /\ t.left = v.left /\ SameScene(v, t)
<1> DEFINE t == Commit(v, x)
<1>1. t = [v EXCEPT !.cx = x, !.on = TRUE, !.under = Nowhere]
  BY DEF Commit
<1>2. Nowhere \in UNION {[R -> Shades] : R \in SUBSET Pixels}
  BY NowhereIs
<1> HIDE DEF t
<1>3. t \in Pictures
  BY <1>1, <1>2 DEF Pictures
<1>4. /\ t.on = TRUE /\ t.cx = x /\ t.under = Nowhere /\ t.front = v.front
      /\ t.left = v.left /\ SameScene(v, t)
  BY <1>1 DEF Pictures, SameScene
<1> QED BY <1>3, <1>4 DEF t

\* The pointer at x and the scene in the rest of an area: nothing is kept below it.
Stamped(e, t, x, A) ==
    /\ t \in Pictures /\ SameScene(e, t) /\ t.on = TRUE /\ t.cx = x /\ t.under = Nowhere
    /\ A \in SUBSET Pixels /\ Box(x) \subseteq A /\ (e.on => Box(e.cx) \subseteq A)
    /\ t.left = e.left \ A
    /\ \A p \in Pixels : t.front[p] = IF p \notin A THEN e.front[p]
                                     ELSE IF p \in Box(x) THEN Cursor ELSE e.back[p]

LEMMA StampedKeeps ==
  ASSUME NEW e, SoundGfx(e), e.bits32, NEW t, NEW x \in Int, Box(x) # {},
         NEW A, Stamped(e, t, x, A)
  PROVE  Steady(e, t)
<1>0. /\ t \in Pictures /\ SameScene(e, t) /\ t.on = TRUE /\ t.cx = x /\ t.under = Nowhere
      /\ A \in SUBSET Pixels /\ Box(x) \subseteq A /\ (e.on => Box(e.cx) \subseteq A)
      /\ t.left = e.left \ A
      /\ \A p \in Pixels : t.front[p] = IF p \notin A THEN e.front[p]
                                       ELSE IF p \in Box(x) THEN Cursor ELSE e.back[p]
  BY DEF Stamped
<1> DEFINE B == Box(x)
<1>1. e \in Pictures /\ Lone(e)
  BY DEF SoundGfx
<1>2. Cursor \notin Colours /\ \A p \in Pixels : e.back[p] \in Colours
  BY <1>1, Numbers DEF Pictures
<1>3. t.bits32 = TRUE /\ t.back = e.back
  BY <1>0, <1>1 DEF SameScene, Pictures
<1>4. B \in SUBSET Pixels
  BY BoxesIn
<1>5. Whole(t)
  BY <1>0, <1>4 DEF Whole
<1>6. Lone(t)
  <2>1. SUFFICES ASSUME NEW p \in Pixels, t.front[p] = Cursor, p \notin B PROVE p \in t.left
    BY <1>0 DEF Lone
  <2>2. p \notin A /\ e.front[p] = Cursor
    BY <1>0, <1>2, <2>1
  <2>3. p \in e.left
    BY <1>0, <1>1, <2>2 DEF Lone
  <2> QED BY <1>0, <2>2, <2>3
<1>7. DOMAIN t.under = {}
  BY <1>0, NowhereIs
<1>8. UnderSaved(t)
  BY <1>0, <1>3, <1>7 DEF UnderSaved
<1>9. \A p \in Pixels : \/ t.front[p] = e.front[p]
                        \/ t.front[p] \in {t.back[p], Cursor}
                        \/ p \in DOMAIN e.under /\ t.front[p] = e.under[p]
  BY <1>0, <1>3
<1>10. KeepsFresh(e, t)
  BY <1>0, <1>7, <1>9, BareKeeps
<1> QED BY <1>0, <1>5, <1>6, <1>8, <1>10 DEF Steady, SoundGfx

\* cursor_stamp with room for both places, the old and the new.
LEMMA StampBoth ==
  ASSUME NEW e, SoundGfx(e), e.bits32, NEW x \in Int, Box(x) # {},
         NEW A \in SUBSET Pixels, Box(x) \subseteq A, e.on => Box(e.cx) \subseteq A
  PROVE  Steady(e, Commit(PresentSprite(e, A, Box(x)), x))
<1> DEFINE B == Box(x)
           v == PresentSprite(e, A, B)
           t == Commit(v, x)
<1>1. e \in Pictures
  BY DEF SoundGfx
<1>2. B \in SUBSET Pixels
  BY BoxesIn
<1> HIDE DEF B
<1>3. Sprited(e, v, A, B)
  BY <1>1, <1>2, SpriteGives
<1> HIDE DEF v
<1>4. v \in Pictures
  BY <1>3 DEF Sprited
<1>5. /\ t \in Pictures /\ t.on = TRUE /\ t.cx = x /\ t.under = Nowhere
      /\ t.front = v.front /\ t.left = v.left /\ SameScene(v, t)
  BY <1>4, CommitGives
<1> HIDE DEF t
<1>6. SameScene(e, t)
  BY <1>3, <1>5, SameSceneTrans DEF Sprited
<1>7. /\ t.left = e.left \ A
      /\ \A p \in Pixels : t.front[p] = IF p \notin A THEN e.front[p]
                                        ELSE IF p \in B THEN Cursor ELSE e.back[p]
  BY <1>3, <1>5 DEF Sprited
<1>8. Stamped(e, t, x, A)
  BY <1>5, <1>6, <1>7 DEF B, Stamped
<1>9. Steady(e, t)
  BY <1>8, StampedKeeps
<1> QED BY <1>9 DEF t, v, B

\* cursor_stamp over a jump: the new place first, then the old one is cleared.
LEMMA StampApart ==
  ASSUME NEW e, SoundGfx(e), e.bits32, e.on, NEW x \in Int, Box(x) # {},
         Box(x) \cap Box(e.cx) = {}
  PROVE  LET c == Commit(PresentSprite(e, Box(x), Box(x)), x)
         IN c \in Pictures /\ c.bits32 /\ Steady(e, PresentSprite(c, Box(e.cx), {}))
<1> DEFINE B == Box(x)
           O == Box(e.cx)
           no == {}
           v == PresentSprite(e, B, B)
           c == Commit(v, x)
           t == PresentSprite(c, O, no)
<1>1. e \in Pictures /\ e.cx \in Int
  BY DEF SoundGfx, Pictures
<1>2. B \in SUBSET Pixels /\ O \in SUBSET Pixels /\ no \in SUBSET Pixels /\ B \cap O = {}
  BY <1>1, BoxesIn
<1>2a. B = Box(x) /\ O = Box(e.cx) /\ \A p : p \notin no
  OBVIOUS
<1> HIDE DEF B, O, no
<1>3. Sprited(e, v, B, B)
  BY <1>1, <1>2, SpriteGives
<1> HIDE DEF v
<1>4. v \in Pictures
  BY <1>3 DEF Sprited
<1>5. /\ c \in Pictures /\ c.on = TRUE /\ c.cx = x /\ c.under = Nowhere
      /\ c.front = v.front /\ c.left = v.left /\ SameScene(v, c)
  BY <1>4, CommitGives
<1> HIDE DEF c
<1>6. Sprited(c, t, O, no)
  BY <1>2, <1>5, SpriteGives
<1> HIDE DEF t
<1>7. SameScene(e, c) /\ SameScene(e, t)
  BY <1>3, <1>5, <1>6, SameSceneTrans DEF Sprited
<1>8. t \in Pictures /\ t.on = TRUE /\ t.cx = x /\ t.under = Nowhere
  BY <1>5, <1>6 DEF Sprited
<1>9. t.left = e.left \ (B \cup O)
  <2>1. t.left = c.left \ O /\ c.left = e.left \ B
    BY <1>3, <1>5, <1>6 DEF Sprited
  <2> QED BY <2>1
<1>10. \A p \in Pixels : t.front[p] = IF p \notin B \cup O THEN e.front[p]
                                      ELSE IF p \in B THEN Cursor ELSE e.back[p]
  <2>1. TAKE p \in Pixels
  <2>2. t.front[p] = IF p \notin O THEN v.front[p] ELSE c.back[p]
    BY <1>2a, <1>5, <1>6 DEF Sprited
  <2>3. v.front[p] = IF p \notin B THEN e.front[p] ELSE Cursor
    BY <1>3 DEF Sprited
  <2>4. c.back[p] = e.back[p]
    BY <1>7 DEF SameScene
  <2> QED BY <1>2, <2>2, <2>3, <2>4
<1> DEFINE A == B \cup O
<1>11. A \in SUBSET Pixels /\ Box(x) \subseteq A /\ Box(e.cx) \subseteq A
  BY <1>2, <1>2a
<1>12. t.left = e.left \ A
       /\ \A p \in Pixels : t.front[p] = IF p \notin A THEN e.front[p]
                                         ELSE IF p \in Box(x) THEN Cursor ELSE e.back[p]
  BY <1>9, <1>10, <1>2a
<1> HIDE DEF A
<1>12a. Stamped(e, t, x, A)
  BY <1>7, <1>8, <1>11, <1>12 DEF Stamped
<1>13. Steady(e, t)
  BY <1>12a, StampedKeeps
<1>14. c.bits32
  BY <1>7 DEF SameScene
<1> QED BY <1>5, <1>13, <1>14 DEF t, c, v, B, O, no

\* save_under and blit, where the hardware cannot compose: the glass below is kept.
LEMMA StampSaved ==
  ASSUME NEW e, SoundGfx(e), e.base = "front", ~e.bits32, NEW x \in Int, Box(x) # {}
  PROVE  Steady(e, BlitBase(SaveUnder(RestoreUnder(e), x), x))
<1> DEFINE B == Box(x)
           D == DOMAIN e.under
           r == RestoreUnder(e)
           w == [p \in B |-> r.front[p]]
           u == SaveUnder(r, x)
           g == [p \in B |-> Cursor]
           f == Merge(u.front, g)
           l == u.left \ B
           t == BlitBase(u, x)
<1>1. e \in Pictures /\ Lone(e) /\ UnderSaved(e)
  BY DEF SoundGfx
<1>2. B \in SUBSET Pixels /\ B # {} /\ B = Box(x)
  BY BoxesIn
<1>3. /\ r \in Pictures /\ r.base = "front" /\ SameScene(e, r)
      /\ r.left = e.left \cup {p \in D : e.under[p] = Cursor}
      /\ \A p \in Pixels : r.front[p] = IF p \in D THEN e.under[p] ELSE e.front[p]
  BY <1>1, Restored
<1> HIDE DEF B, r
<1>4. r.front \in [Pixels -> Shades]
  BY <1>3 DEF Pictures
<1>5. w \in [B -> Shades] /\ DOMAIN w = B /\ \A p \in B : w[p] = r.front[p]
  BY <1>2, <1>4
<1>6. u = [r EXCEPT !.under = w]
  BY <1>2, <1>3 DEF SaveUnder, Base
<1> HIDE DEF w, u
<1>7. w \in UNION {[R -> Shades] : R \in SUBSET Pixels}
  BY <1>2, <1>5, UnderTypes
<1>8. u \in Pictures
  BY <1>3, <1>6, <1>7 DEF Pictures
<1>9. u.under = w /\ u.front = r.front /\ u.left = r.left /\ u.base = "front" /\ SameScene(r, u)
  BY <1>3, <1>6 DEF Pictures, SameScene
<1>10. DOMAIN g = B /\ \A p \in B : g[p] = Cursor
  OBVIOUS
<1>11. \A p \in B : g[p] \in Shades
  BY <1>10 DEF Shades
<1> HIDE DEF g
<1>12. f \in [Pixels -> Shades] /\ \A p \in Pixels : f[p] = IF p \in B THEN g[p] ELSE u.front[p]
  BY <1>2, <1>4, <1>9, <1>10, <1>11, Overlaid
<1>13. l \in SUBSET Pixels
  BY <1>8 DEF Pictures
<1> DEFINE v == Plot(u, g)
<1>14. v = [u EXCEPT !.front = f]
  BY <1>9 DEF Plot
<1> HIDE DEF f, v
<1>15. v \in Pictures
  BY <1>8, <1>12, <1>14 DEF Pictures
<1>16. v.front = f /\ v.under = u.under /\ v.left = u.left /\ SameScene(u, v)
  BY <1>8, <1>14 DEF Pictures, SameScene
<1>17. t = [v EXCEPT !.cx = x, !.on = TRUE, !.left = l]
  BY <1>2, <1>16 DEF BlitBase, v, g
<1> HIDE DEF t, l
<1>18. t \in Pictures
  BY <1>13, <1>15, <1>17 DEF Pictures
<1>19. /\ t.front = f /\ t.under = w /\ t.left = l /\ t.on = TRUE /\ t.cx = x
       /\ SameScene(v, t)
  BY <1>9, <1>15, <1>16, <1>17 DEF Pictures, SameScene
<1>20. SameScene(e, t)
  BY <1>3, <1>9, <1>16, <1>19, SameSceneTrans
<1>21. \A p \in Pixels : t.front[p] = IF p \in B THEN Cursor ELSE r.front[p]
  BY <1>9, <1>10, <1>12, <1>19
<1>22. t.bits32 = e.bits32
  BY <1>20 DEF SameScene
<1>23. Whole(t)
  BY <1>2, <1>19, <1>21 DEF Whole
<1>24. UnderSaved(t)
  BY <1>2, <1>5, <1>19, <1>22 DEF UnderSaved
<1>25. Lone(t)
  <2>1. SUFFICES ASSUME NEW p \in Pixels, t.front[p] = Cursor, p \notin B PROVE p \in t.left
    BY <1>2, <1>19 DEF Lone
  <2>2. r.front[p] = Cursor
    BY <1>21, <2>1
  <2>3. p \in r.left
    <3>1. CASE p \in D
      BY <1>3, <2>2, <3>1
    <3>2. CASE p \notin D
      <4>1. e.front[p] = Cursor
        BY <1>3, <2>2, <3>2
      <4>2. e.on => p \notin Box(e.cx)
        BY <1>1, <3>2 DEF UnderSaved
      <4> QED BY <1>1, <1>3, <4>1, <4>2 DEF Lone
    <3> QED BY <3>1, <3>2
  <2> QED BY <1>9, <1>19, <2>1, <2>3 DEF l
<1>26. KeepsFresh(e, t)
  <2>1. SUFFICES ASSUME NEW S \in SUBSET Pixels, FreshOn(e, S) PROVE FreshOn(t, S)
    BY DEF KeepsFresh
  <2>2. ASSUME NEW p \in S
        PROVE  t.front[p] \in {t.back[p], Cursor}
               /\ (p \in DOMAIN t.under => t.under[p] \in {t.back[p], Cursor})
    <3>1. p \in Pixels /\ e.front[p] \in {e.back[p], Cursor}
          /\ (p \in D => e.under[p] \in {e.back[p], Cursor})
      BY <2>1 DEF FreshOn
    <3>2. t.back[p] = e.back[p]
      BY <1>20 DEF SameScene
    <3>3. r.front[p] \in {t.back[p], Cursor}
      BY <1>3, <3>1, <3>2
    <3> QED BY <1>5, <1>19, <1>21, <3>1, <3>3
  <2> QED BY <2>2 DEF FreshOn
<1>27. SoundGfx(t)
  BY <1>18, <1>23, <1>24, <1>25 DEF SoundGfx
<1>28. Steady(e, t)
  BY <1>20, <1>26, <1>27 DEF Steady
<1> QED BY <1>28 DEF t, u, r

LEMMA SteadyTrans ==
  ASSUME NEW s, NEW t, NEW u, SameScene(s, t), KeepsFresh(s, t), Steady(t, u)
  PROVE  Steady(s, u)
BY SameSceneTrans, KeepsTrans DEF Steady

(* gfx_cursor_draw, wherever the mouse is: the pointer covers the pixel it  *)
(* points at, so there is always something to draw.                        *)
LEMMA DrawGives ==
  ASSUME NEW s, SoundGfx(s), NEW m \in Pixels, NEW hot \in Hots
  PROVE  Steady(s, CursorDraw(s, m, hot))
<1> DEFINE x == m - hot
           e == ComposeEnd(s)
           X == Box(x)
           A == IF e.on THEN Boxes(x, e.cx) ELSE X
           c == Commit(PresentSprite(e, X, X), x)
<1>1. SoundGfx(e) /\ SameScene(s, e) /\ KeepsFresh(s, e) /\ e.base = "front"
  BY Ended
<1>2. x \in Int /\ X # {}
  <2>1. m \in Int /\ hot \in Int /\ 0 =< hot /\ hot < CursorW /\ CursorW \in Int
    BY Numbers DEF Pixels
  <2>2. m - hot =< m /\ m < m - hot + CursorW
    BY <2>1
  <2>3. m \in X
    BY <2>2 DEF Box, Span
  <2> QED BY <2>1, <2>3
<1>3. CursorDraw(s, m, hot) =
        IF CanStage(e, A) THEN Commit(PresentSprite(e, A, X), x)
        ELSE IF CanStage(e, X)
        THEN IF e.on /\ CanStage(c, Box(e.cx)) THEN PresentSprite(c, Box(e.cx), {}) ELSE c
        ELSE BlitBase(SaveUnder(RestoreUnder(e), x), x)
  BY DEF CursorDraw
<1>4. x \in Int /\ X = Box(x)
  BY <1>2
<1> HIDE DEF e, x
<1>5. e \in Pictures /\ UnderSaved(e) /\ e.cx \in Int /\ e.on \in BOOLEAN /\ e.bits32 \in BOOLEAN
  BY <1>1 DEF SoundGfx, Pictures
<1>6. X \in SUBSET Pixels /\ A \in SUBSET Pixels /\ X \subseteq A /\ (e.on => Box(e.cx) \subseteq A)
  BY <1>4, <1>5, BoxesIn
<1>7. CanStage(e, X) <=> e.bits32
  BY <1>2, <1>5, BoxFits
<1>8. Steady(e, CursorDraw(s, m, hot))
  <2>1. CASE CanStage(e, A)
    <3>1. e.bits32
      BY <2>1 DEF CanStage
    <3> HIDE DEF A
    <3>2. Steady(e, Commit(PresentSprite(e, A, X), x))
      BY <1>1, <1>2, <1>4, <1>6, <3>1, StampBoth
    <3> QED BY <1>3, <2>1, <3>2
  <2>2. CASE ~CanStage(e, A) /\ e.bits32
    <3>1. e.on /\ A = Boxes(x, e.cx)
      BY <1>7, <2>2
    <3>2. ~CanStage(e, Boxes(x, e.cx))
      BY <2>2, <3>1
    <3>3. X \cap Box(e.cx) = {}
      BY <1>2, <1>5, <2>2, <3>2, ApartBoxes
    <3>4. c \in Pictures /\ c.bits32 /\ Steady(e, PresentSprite(c, Box(e.cx), {}))
      BY <1>1, <1>2, <2>2, <3>1, <3>3, StampApart
    <3>5. Box(e.cx) # {}
      BY <1>5, <3>1 DEF UnderSaved
    <3> HIDE DEF c
    <3>6. CanStage(c, Box(e.cx))
      BY <1>5, <3>4, <3>5, BoxFits
    <3>7. CursorDraw(s, m, hot) = PresentSprite(c, Box(e.cx), {})
      BY <1>3, <1>7, <2>2, <3>1, <3>6
    <3> QED BY <3>4, <3>7
  <2>3. CASE ~e.bits32
    <3>1. ~CanStage(e, A)
      BY <2>3 DEF CanStage
    <3>2. Steady(e, BlitBase(SaveUnder(RestoreUnder(e), x), x))
      BY <1>1, <1>2, <2>3, StampSaved
    <3> QED BY <1>3, <1>7, <2>3, <3>1, <3>2
  <2> QED BY <1>5, <2>1, <2>2, <2>3
<1> QED BY <1>1, <1>8, SteadyTrans

-----------------------------------------------------------------------------
(* Presents *)

LEMMA FreshKept ==
  ASSUME NEW s, NEW t, SameScene(s, t), KeepsFresh(s, t), Fresh(s)
  PROVE  Fresh(t)
<1>1. PendingIn(t) = PendingIn(s)
  BY DEF PendingIn, SameScene
<1>2. Pixels \ PendingIn(s) \in SUBSET Pixels
  OBVIOUS
<1> QED BY <1>1, <1>2 DEF Fresh, KeepsFresh

LEMMA AllFresh ==
  ASSUME NEW s, FreshOn(s, Pixels)
  PROVE  Fresh(s)
BY DEF Fresh, FreshOn

LEMMA AllKept ==
  ASSUME NEW s, NEW t, KeepsFresh(s, t), FreshOn(s, Pixels)
  PROVE  FreshOn(t, Pixels)
BY DEF KeepsFresh

\* A part of the scene sent to the glass while there is no pointer on it.
Shown(s, t, S) == Steady(s, t) /\ ~t.on /\ FreshOn(t, S)

LEMMA ShowPart ==
  ASSUME NEW s, SoundGfx(s), ~s.on, NEW S \in SUBSET Pixels
  PROVE  Shown(s, ToFront(s, [p \in S |-> s.back[p]]), S)
<1> DEFINE pix == [p \in S |-> s.back[p]]
           t == ToFront(s, pix)
<1>1. s \in Pictures /\ Lone(s) /\ UnderSaved(s)
  BY DEF SoundGfx
<1>2. s.back \in [Pixels -> Colours]
  BY <1>1 DEF Pictures
<1>3. DOMAIN pix = S /\ \A p \in S : pix[p] = s.back[p]
  OBVIOUS
<1> HIDE DEF pix
<1>4. Paints(pix)
  BY <1>2, <1>3 DEF Paints, Shades
<1>5. /\ t \in Pictures /\ t.left = s.left \ DOMAIN pix
      /\ \A p \in Pixels : t.front[p] = IF p \in DOMAIN pix THEN pix[p] ELSE s.front[p]
      /\ t.back = s.back /\ t.dirty = s.dirty /\ t.damage = s.damage /\ t.full = s.full
      /\ t.bits32 = s.bits32 /\ t.on = s.on /\ t.cx = s.cx /\ t.under = s.under
  BY <1>1, <1>4, ToFrontGives
<1> HIDE DEF t
<1>6. SameScene(s, t)
  BY <1>5 DEF SameScene
<1>7. \A p \in Pixels : t.front[p] = IF p \in S THEN s.back[p] ELSE s.front[p]
  BY <1>3, <1>5
<1>8. Lone(t)
  <2>1. SUFFICES ASSUME NEW p \in Pixels, t.front[p] = Cursor PROVE p \in t.left
    BY DEF Lone
  <2>2. s.back[p] \in Colours /\ Cursor \notin Colours
    BY <1>2, Numbers
  <2>3. p \notin S /\ s.front[p] = Cursor
    BY <1>7, <2>1, <2>2
  <2> QED BY <1>1, <1>3, <1>5, <2>3 DEF Lone
<1>9. DOMAIN t.under = {} /\ ~t.on
  BY <1>1, <1>5 DEF UnderSaved
<1>10. Whole(t) /\ UnderSaved(t)
  BY <1>9 DEF Whole, UnderSaved
<1>11. \A p \in Pixels : \/ t.front[p] = s.front[p]
                         \/ t.front[p] \in {t.back[p], Cursor}
                         \/ p \in DOMAIN s.under /\ t.front[p] = s.under[p]
  BY <1>5, <1>7
<1>12. KeepsFresh(s, t)
  BY <1>6, <1>9, <1>11, BareKeeps
<1>13. FreshOn(t, S)
  BY <1>5, <1>7, <1>9 DEF FreshOn
<1>14. SoundGfx(t)
  BY <1>5, <1>8, <1>10 DEF SoundGfx
<1> QED BY <1>6, <1>9, <1>12, <1>13, <1>14 DEF Shown, Steady, t, pix

LEMMA ShowAll ==
  ASSUME NEW s, SoundGfx(s), ~s.on
  PROVE  Shown(s, ToFront(s, s.back), Pixels)
<1>1. s.back = [p \in Pixels |-> s.back[p]]
  BY DEF SoundGfx, Pictures
<1> QED BY <1>1, ShowPart

\* `dirty` cleared: nothing was left to show.
LEMMA CleanGives ==
  ASSUME NEW v, SoundGfx(v), FreshOn(v, Pixels), ~v.on
  PROVE  LET t == [v EXCEPT !.dirty = FALSE]
         IN SoundGfx(t) /\ FreshOn(t, Pixels) /\ ~t.on
<1> DEFINE t == [v EXCEPT !.dirty = FALSE]
<1>1. v \in Pictures
  BY DEF SoundGfx
<1>2. t \in Pictures
  BY <1>1 DEF Pictures
<1>3. SamePicture(v, t)
  BY <1>1, <1>2 DEF SamePicture, Pictures
<1> HIDE DEF t
<1>4. SoundGfx(t) /\ FreshOn(t, Pixels)
  BY <1>3, SamePictureKeeps
<1>5. ~t.on
  BY <1>3 DEF SamePicture
<1> QED BY <1>4, <1>5 DEF t

(* fb_compose_present, the pointer being off.                              *)
LEMMA ComposePresentGives ==
  ASSUME NEW s, SoundGfx(s), ~s.on, s.dirty \/ Fresh(s)
  PROVE  LET t == ComposePresent(s) IN SoundGfx(t) /\ FreshOn(t, Pixels) /\ ~t.on
<1> DEFINE v == ToFront(s, s.back)
           t == ComposePresent(s)
<1>1. CASE s.dirty
  <2>1. t = [v EXCEPT !.dirty = FALSE]
    BY <1>1 DEF ComposePresent
  <2>2. SoundGfx(v) /\ FreshOn(v, Pixels) /\ ~v.on
    BY ShowAll DEF Shown, Steady
  <2> HIDE DEF v, t
  <2>3. SoundGfx([v EXCEPT !.dirty = FALSE]) /\ FreshOn([v EXCEPT !.dirty = FALSE], Pixels)
        /\ ~[v EXCEPT !.dirty = FALSE].on
    BY <2>2, CleanGives
  <2> QED BY <2>1, <2>3 DEF t
<1>2. CASE ~s.dirty
  <2>1. t = ComposeEnd(s)
    BY <1>2 DEF ComposePresent
  <2>2. PendingIn(s) = {}
    BY <1>2 DEF PendingIn
  <2>3. FreshOn(s, Pixels)
    BY <1>2, <2>2 DEF Fresh
  <2> DEFINE e == ComposeEnd(s)
  <2>4. SoundGfx(e) /\ KeepsFresh(s, e) /\ e.on = s.on
    BY Ended
  <2> HIDE DEF e
  <2>5. FreshOn(e, Pixels) /\ ~e.on
    BY <2>3, <2>4, AllKept
  <2> QED BY <2>1, <2>4, <2>5 DEF e
<1>3. s.dirty \in BOOLEAN
  BY DEF SoundGfx, Pictures
<1> QED BY <1>1, <1>2, <1>3

\* The pointer forgotten and the scene copied: what a flip and a full present start with.
LEMMA FlipBegins ==
  ASSUME NEW s, SoundGfx(s), s.dirty \/ Fresh(s)
  PROVE  LET t == ComposePresent(CursorInvalidate(s))
         IN SoundGfx(t) /\ FreshOn(t, Pixels) /\ ~t.on
<1> DEFINE i == CursorInvalidate(s)
<1>1. SoundGfx(i) /\ SameScene(s, i) /\ KeepsFresh(s, i) /\ ~i.on
  BY Forgotten
<1> HIDE DEF i
<1>2. i.dirty \/ Fresh(i)
  BY <1>1, FreshKept DEF SameScene
<1>3. SoundGfx(ComposePresent(i)) /\ FreshOn(ComposePresent(i), Pixels) /\ ~ComposePresent(i).on
  BY <1>1, <1>2, ComposePresentGives
<1> QED BY <1>3 DEF i

LEMMA DrawnFresh ==
  ASSUME NEW s, SoundGfx(s), FreshOn(s, Pixels), NEW m \in Pixels, NEW hot \in Hots
  PROVE  LET t == CursorDraw(s, m, hot) IN SoundGfx(t) /\ FreshOn(t, Pixels) /\ ScreenOK(t)
<1> DEFINE t == CursorDraw(s, m, hot)
<1>1. Steady(s, t)
  BY DrawGives
<1> HIDE DEF t
<1>2. SoundGfx(t) /\ FreshOn(t, Pixels)
  BY <1>1, AllKept DEF Steady
<1>3. Fresh(t)
  BY <1>2, AllFresh
<1> QED BY <1>2, <1>3 DEF ScreenOK, t

(* gfx_cursor_flip *)
LEMMA FlipGives ==
  ASSUME NEW s, SoundGfx(s), s.dirty \/ Fresh(s), NEW m \in Pixels, NEW hot \in Hots
  PROVE  ScreenOK(CursorFlip(s, m, hot))
<1> DEFINE p == ComposePresent(CursorInvalidate(s))
<1>1. SoundGfx(p) /\ FreshOn(p, Pixels)
  BY FlipBegins
<1>2. CursorFlip(s, m, hot) = CursorDraw(p, m, hot)
  BY DEF CursorFlip
<1> HIDE DEF p
<1> QED BY <1>1, <1>2, DrawnFresh

\* The end of ui_comp_present: the pointer is stamped and the damage is forgotten.
LEMMA PresentEnds ==
  ASSUME NEW s, SoundGfx(s), FreshOn(s, Pixels), NEW m \in Pixels, NEW hot \in Hots
  PROVE  ScreenOK(Settled(CursorDraw(ComposeEnd(s), m, hot)))
<1> DEFINE e == ComposeEnd(s)
           d == CursorDraw(e, m, hot)
           t == Settled(d)
<1>1. SoundGfx(e) /\ KeepsFresh(s, e)
  BY Ended
<1> HIDE DEF e
<1>2. FreshOn(e, Pixels)
  BY <1>1, AllKept
<1>3. SoundGfx(d) /\ FreshOn(d, Pixels)
  BY <1>1, <1>2, DrawnFresh
<1> HIDE DEF d
<1>4. d \in Pictures
  BY <1>3 DEF SoundGfx
<1>5. SamePicture(d, t)
  BY <1>4, SettledIs
<1> HIDE DEF t
<1>6. SoundGfx(t) /\ FreshOn(t, Pixels)
  BY <1>3, <1>5, SamePictureKeeps
<1>7. ScreenOK(t)
  BY <1>6, AllFresh DEF ScreenOK
<1> QED BY <1>7 DEF t, d, e

(* ui_comp_present: the whole scene, or the damage once the pointer is off. *)
LEMMA PresentGives ==
  ASSUME NEW s, ScreenOK(s), NEW m \in Pixels, NEW hot \in Hots
  PROVE  ScreenOK(Present(s, m, hot))
<1>1. SoundGfx(s) /\ Fresh(s)
  BY DEF ScreenOK
<1>2. CASE s.full
  <2> DEFINE p == ComposePresent(CursorInvalidate(s))
  <2>1. SoundGfx(p) /\ FreshOn(p, Pixels)
    BY <1>1, FlipBegins
  <2>2. Present(s, m, hot) = Settled(CursorDraw(ComposeEnd(p), m, hot))
    BY <1>2 DEF Present, PresentHeavy
  <2> HIDE DEF p
  <2> QED BY <2>1, <2>2, PresentEnds
<1>3. CASE ~s.full
  <2> DEFINE h == Erase(s)
             dx == s.damage.x  dw == s.damage.w
             r == IF s.damage.on THEN PresentRect(h, dx, dw) ELSE h
  <2>1. SoundGfx(h) /\ SameScene(s, h) /\ KeepsFresh(s, h) /\ ~h.on
    BY <1>1, EraseGives DEF Erased
  <2>2. Present(s, m, hot) = Settled(CursorDraw(ComposeEnd(r), m, hot))
    BY <1>3 DEF Present
  <2>3. s.damage.on => PendingIn(s) \subseteq Span(dx, dx + dw)
    BY <1>3 DEF PendingIn
  <2>4. ~s.damage.on => PendingIn(s) = {}
    BY <1>3 DEF PendingIn
  <2>5. Span(dx, dx + dw) \in SUBSET Pixels
    BY DEF Span
  <2> HIDE DEF h, dx, dw
  <2>6. PresentRect(h, dx, dw) = ToFront(h, [p \in Span(dx, dx + dw) |-> h.back[p]])
    BY DEF PresentRect
  <2>7. FreshOn(h, Pixels \ PendingIn(s))
    <3>1. Pixels \ PendingIn(s) \in SUBSET Pixels
      OBVIOUS
    <3> QED BY <1>1, <2>1, <3>1 DEF Fresh, KeepsFresh
  <2>8. CASE s.damage.on
    <3>1. Shown(h, r, Span(dx, dx + dw))
      BY <2>1, <2>5, <2>6, <2>8, ShowPart
    <3> HIDE DEF r
    <3>2. FreshOn(r, Pixels \ PendingIn(s))
      BY <2>7, <3>1 DEF Shown, Steady, KeepsFresh
    <3>3. FreshOn(r, Span(dx, dx + dw)) /\ SoundGfx(r)
      BY <3>1 DEF Shown, Steady
    <3>4. FreshOn(r, Pixels)
      <4>1. SUFFICES ASSUME NEW p \in Pixels
                     PROVE  r.front[p] \in {r.back[p], Cursor}
                            /\ (p \in DOMAIN r.under => r.under[p] \in {r.back[p], Cursor})
        BY DEF FreshOn
      <4>2. CASE p \in PendingIn(s)
        BY <2>3, <2>8, <3>3, <4>2 DEF FreshOn
      <4>3. CASE p \notin PendingIn(s)
        BY <3>2, <4>3 DEF FreshOn
      <4> QED BY <4>2, <4>3
    <3> QED BY <2>2, <3>3, <3>4, PresentEnds
  <2>9. CASE ~s.damage.on
    <3>1. r = h /\ FreshOn(h, Pixels)
      BY <2>4, <2>7, <2>9
    <3> QED BY <2>1, <2>2, <3>1, PresentEnds
  <2> QED BY <2>8, <2>9
<1> QED BY <1>2, <1>3

-----------------------------------------------------------------------------
(* Painting, damage and fades *)

\* The scene painted upon: the glass and the pointer are as they were.
Painted(s, t) ==
    /\ SoundGfx(t) /\ t.dirty = TRUE /\ t.front = s.front /\ t.under = s.under
    /\ t.full = s.full /\ t.damage = s.damage /\ t.on = s.on

LEMMA PlotGives ==
  ASSUME NEW s, SoundGfx(s), NEW S \in SUBSET Pixels, NEW g \in [S -> Colours]
  PROVE  LET t == Plot(ComposeBegin(s), g)
         IN Painted(s, t) /\ \A p \in Pixels : t.back[p] = IF p \in S THEN g[p] ELSE s.back[p]
<1> DEFINE b == ComposeBegin(s)
           f == Merge(b.back, g)
           t == Plot(b, g)
<1>1. s \in Pictures
  BY DEF SoundGfx
<1>2. /\ SamePicture(s, b) /\ b.dirty = TRUE /\ b.base = "back" /\ b.full = s.full
      /\ b.damage = s.damage
  BY <1>1, ComposeIs
<1> HIDE DEF b
<1>3. SoundGfx(b)
  BY <1>2, SamePictureKeeps
<1>4. b \in Pictures /\ Whole(b) /\ Lone(b) /\ UnderSaved(b) /\ b.back \in [Pixels -> Colours]
  BY <1>3 DEF SoundGfx, Pictures
<1>5. DOMAIN g = S /\ \A p \in S : g[p] \in Colours
  OBVIOUS
<1>6. f \in [Pixels -> Colours] /\ \A p \in Pixels : f[p] = IF p \in S THEN g[p] ELSE b.back[p]
  BY <1>4, <1>5, Overlaid
<1>7. t = [b EXCEPT !.back = f]
  BY <1>2 DEF Plot
<1> HIDE DEF f, t
<1>8. t \in Pictures
  BY <1>4, <1>6, <1>7 DEF Pictures
<1>9. /\ t.back = f /\ t.front = b.front /\ t.dirty = b.dirty /\ t.damage = b.damage
      /\ t.full = b.full /\ t.bits32 = b.bits32 /\ t.on = b.on /\ t.cx = b.cx
      /\ t.under = b.under /\ t.left = b.left
  BY <1>4, <1>7 DEF Pictures
<1>10. Whole(t)
  BY <1>4, <1>9 DEF Whole
<1>11. Lone(t)
  BY <1>4, <1>9 DEF Lone
<1>12. UnderSaved(t)
  BY <1>4, <1>9 DEF UnderSaved
<1>13. Painted(s, t)
  BY <1>2, <1>8, <1>9, <1>10, <1>11, <1>12 DEF Painted, SoundGfx, SamePicture
<1>14. \A p \in Pixels : t.back[p] = IF p \in S THEN g[p] ELSE s.back[p]
  BY <1>2, <1>6, <1>9 DEF SamePicture
<1> QED BY <1>13, <1>14 DEF t, b

LEMMA PaintAllGives ==
  ASSUME NEW s, SoundGfx(s), NEW scene \in Scenes
  PROVE  SoundGfx(PaintAll(s, scene)) /\ PaintAll(s, scene).dirty
         /\ PaintAll(s, scene).full = s.full
<1> DEFINE t == Plot(ComposeBegin(s), scene)
<1>1. scene \in [Pixels -> Colours] /\ Pixels \in SUBSET Pixels
  BY DEF Scenes
<1>2. Painted(s, t)
  BY <1>1, PlotGives
<1>3. PaintAll(s, scene) = t
  BY DEF PaintAll
<1> HIDE DEF t
<1> QED BY <1>2, <1>3 DEF Painted

(* rect_union: the union holds both, and does not leave the screen.        *)
LEMMA UnionCovers ==
  ASSUME NEW a \in Damages, NEW x \in Nat, NEW w \in Nat, w # 0 => x + w =< FbW
  PROVE  LET u == RectUnion(a, x, w)
         IN  /\ u \in Damages
             /\ a.on => u.on /\ Span(a.x, a.x + a.w) \subseteq Span(u.x, u.x + u.w)
             /\ w # 0 => u.on /\ Span(x, x + w) \subseteq Span(u.x, u.x + u.w)
<1> DEFINE u == RectUnion(a, x, w)
<1>1. a.on \in BOOLEAN /\ a.x \in Nat /\ a.w \in Nat /\ (a.on => a.w >= 1 /\ a.x + a.w =< FbW)
  BY DEF Damages
<1>2. FbW \in Nat /\ MaxU \in Nat /\ FbW =< MaxU /\ \A p \in Pixels : p \in Int
  BY Numbers DEF Pixels
<1>3. CASE w = 0
  BY <1>1, <1>3 DEF RectUnion
<1>4. CASE w # 0 /\ ~a.on
  <2>1. u = [on |-> TRUE, x |-> x, w |-> w]
    BY <1>4 DEF RectUnion
  <2> HIDE DEF u
  <2>2. u.on = TRUE /\ u.x = x /\ u.w = w
    BY <2>1
  <2>3. u \in Damages
    BY <1>2, <1>4, <2>1 DEF Damages
  <2> QED BY <1>4, <2>2, <2>3 DEF u
<1>5. CASE w # 0 /\ a.on
  <2> DEFINE ax == a.x  aw == a.w
             lo == Least(x, ax)
             hi == Most(AddSat(x, w), AddSat(ax, aw))
             n == hi - lo
  <2>1. u = [on |-> TRUE, x |-> lo, w |-> n]
    BY <1>5 DEF RectUnion
  <2>2. ax \in Nat /\ aw \in Nat /\ aw >= 1 /\ ax + aw =< FbW /\ x + w =< FbW /\ w >= 1
    BY <1>1, <1>5
  <2> HIDE DEF u, ax, aw
  <2>3. AddSat(x, w) = x + w /\ AddSat(ax, aw) = ax + aw
    BY <1>2, <2>2 DEF AddSat, Least
  <2>4. lo \in Nat /\ n \in Nat /\ n >= 1 /\ lo + n =< FbW /\ lo =< x /\ lo =< ax
        /\ x + w =< lo + n /\ ax + aw =< lo + n
    BY <1>2, <2>2, <2>3 DEF Least, Most
  <2> HIDE DEF lo, n
  <2>5. u.on = TRUE /\ u.x = lo /\ u.w = n
    BY <2>1
  <2>6. u \in Damages
    BY <2>1, <2>4 DEF Damages
  <2>7. Span(ax, ax + aw) \subseteq Span(lo, lo + n) /\ Span(x, x + w) \subseteq Span(lo, lo + n)
    BY <1>2, <2>2, <2>4 DEF Span
  <2> QED BY <2>5, <2>6, <2>7 DEF u, ax, aw
<1> QED BY <1>1, <1>3, <1>4, <1>5

(* ui_comp_damage: padded, saturated and clipped, it still holds the span.  *)
LEMMA ClipCovers ==
  ASSUME NEW x \in Nat, NEW w \in Nat, w # 0
  PROVE  LET lo == IF x >= Pad THEN x - Pad ELSE 0
             n == ClipSpan(lo, AddSat(AddSat(w, x - lo), Pad))
         IN  /\ lo \in Nat /\ n \in Nat /\ (n # 0 => lo + n =< FbW)
             /\ Span(x, x + w) \subseteq Span(lo, lo + n)
<1> DEFINE lo == IF x >= Pad THEN x - Pad ELSE 0
           padded == AddSat(AddSat(w, x - lo), Pad)
           n == ClipSpan(lo, padded)
<1>1. FbW \in Nat /\ MaxU \in Nat /\ FbW =< MaxU /\ Pad \in Nat /\ \A p \in Pixels : p \in Int /\ p < FbW
  BY Numbers DEF Pixels
<1>2. lo \in Nat /\ lo =< x
  BY <1>1
<1> HIDE DEF lo
<1>3. padded \in Nat /\ (padded >= w + (x - lo) \/ padded = MaxU)
  BY <1>1, <1>2 DEF AddSat, Least
<1> HIDE DEF padded
<1>4. n \in Nat /\ (n # 0 => lo + n =< FbW)
  BY <1>1, <1>2, <1>3 DEF ClipSpan, Least
<1>5. ASSUME NEW p \in Pixels, x =< p, p < x + w
      PROVE  lo =< p /\ p < lo + n
  <2>1. p \in Int /\ p < FbW /\ lo =< p
    BY <1>1, <1>2, <1>5
  <2>2. n = padded \/ n = FbW - lo
    BY <1>1, <1>2, <1>3, <2>1 DEF ClipSpan, Least
  <2>3. p < lo + padded
    BY <1>1, <1>2, <1>3, <1>5, <2>1
  <2> HIDE DEF n
  <2> QED BY <1>1, <1>2, <1>4, <2>1, <2>2, <2>3
<1> HIDE DEF n
<1>6. Span(x, x + w) \subseteq Span(lo, lo + n)
  BY <1>5 DEF Span
<1> QED BY <1>2, <1>4, <1>6 DEF n, padded, lo

(* A widget painted and reported: its span is pending, with all that was.   *)
LEMMA PaintSpanGives ==
  ASSUME NEW s, ScreenOK(s), NEW x \in Nat, NEW n \in Nat, NEW c \in Colours
  PROVE  ScreenOK(PaintSpan(s, x, n, c))
<1> DEFINE S == Span(x, x + n)
           g == [p \in S |-> c]
           v == Plot(ComposeBegin(s), g)
           lo == IF x >= Pad THEN x - Pad ELSE 0
           k == ClipSpan(lo, AddSat(AddSat(n, x - lo), Pad))
           u == RectUnion(v.damage, lo, k)
           t == PaintSpan(s, x, n, c)
<1>1. SoundGfx(s) /\ Fresh(s)
  BY DEF ScreenOK
<1>2. S \in SUBSET Pixels /\ g \in [S -> Colours]
  BY DEF Span
<1> HIDE DEF g
<1>3. Painted(s, v) /\ \A p \in Pixels : v.back[p] = IF p \in S THEN g[p] ELSE s.back[p]
  BY <1>1, <1>2, PlotGives
<1> HIDE DEF v
<1>3a. /\ SoundGfx(v) /\ v.dirty = TRUE /\ v.front = s.front /\ v.under = s.under
       /\ v.full = s.full /\ v.damage = s.damage
  BY <1>3 DEF Painted
<1>4. v \in Pictures /\ v.damage \in Damages
  BY <1>3a DEF SoundGfx, Pictures
<1>5. t = IF n = 0 THEN v ELSE [v EXCEPT !.damage = u]
  BY DEF PaintSpan, Damage, v, g
\* What was shown still is, where nothing was painted.
<1>6. FreshOn(v, (Pixels \ PendingIn(s)) \ S)
  <2>1. SUFFICES ASSUME NEW p \in (Pixels \ PendingIn(s)) \ S
                 PROVE  v.front[p] \in {v.back[p], Cursor}
                        /\ (p \in DOMAIN v.under => v.under[p] \in {v.back[p], Cursor})
    BY DEF FreshOn
  <2>2. v.back[p] = s.back[p]
    BY <1>3
  <2>3. s.front[p] \in {s.back[p], Cursor}
        /\ (p \in DOMAIN s.under => s.under[p] \in {s.back[p], Cursor})
    BY <1>1 DEF Fresh, FreshOn
  <2> QED BY <1>3a, <2>2, <2>3
<1>7. CASE n = 0
  <2>1. S = {}
    <3>1. \A p \in Pixels : p \in Int
      BY Numbers DEF Pixels
    <3> QED BY <1>7, <3>1 DEF Span
  <2>2. PendingIn(s) \subseteq PendingIn(v)
    BY <1>3a DEF PendingIn
  <2>3. Fresh(v)
    BY <1>6, <2>1, <2>2 DEF Fresh, FreshOn
  <2> QED BY <1>3a, <1>5, <1>7, <2>3 DEF ScreenOK
<1>8. CASE n # 0
  <2>1. t = [v EXCEPT !.damage = u]
    BY <1>5, <1>8
  <2>2. lo \in Nat /\ k \in Nat /\ (k # 0 => lo + k =< FbW) /\ S \subseteq Span(lo, lo + k)
    BY <1>8, ClipCovers
  <2>2a. lo \in Nat /\ k \in Nat /\ (k # 0 => lo + k =< FbW)
    BY <2>2
  <2> HIDE DEF lo, k, S
  <2>3. /\ u \in Damages
        /\ v.damage.on => u.on /\ Span(v.damage.x, v.damage.x + v.damage.w) \subseteq Span(u.x, u.x + u.w)
        /\ k # 0 => u.on /\ Span(lo, lo + k) \subseteq Span(u.x, u.x + u.w)
    BY <1>4, <2>2a, UnionCovers
  <2> HIDE DEF u, t
  <2>4. t \in Pictures
    BY <1>4, <2>1, <2>3 DEF Pictures
  <2>5. SamePicture(v, t) /\ t.damage = u /\ t.dirty = TRUE /\ t.full = v.full
    BY <1>3a, <1>4, <2>1, <2>4 DEF SamePicture, Pictures
  <2>6. SoundGfx(t) /\ \A Q : FreshOn(v, Q) => FreshOn(t, Q)
    BY <1>3a, <2>5, SamePictureKeeps
  <2>7. k = 0 => Span(lo, lo + k) = {}
    <3>1. \A p \in Pixels : p \in Int
      BY Numbers DEF Pixels
    <3> QED BY <2>2, <3>1 DEF Span
  <2>8. PendingIn(s) \cup S \subseteq PendingIn(t) \/ PendingIn(t) = Pixels
    <3>1. CASE s.full
      BY <1>3a, <2>5, <3>1 DEF PendingIn
    <3>2. CASE ~s.full
      <4>1. ~t.full /\ t.dirty
        BY <1>3a, <2>5, <3>2
      <4>2. S \subseteq PendingIn(t)
        BY <2>2, <2>3, <2>5, <2>7, <4>1 DEF PendingIn
      <4>3. PendingIn(s) \subseteq PendingIn(t)
        BY <1>3a, <2>3, <2>5, <3>2, <4>1 DEF PendingIn
      <4> QED BY <4>2, <4>3
    <3> QED BY <3>1, <3>2
  <2>9. FreshOn(t, (Pixels \ PendingIn(s)) \ S)
    BY <1>6, <2>6
  <2>10. Fresh(t)
    BY <2>8, <2>9 DEF Fresh, FreshOn
  <2> QED BY <2>6, <2>10 DEF ScreenOK, t
<1> QED BY <1>7, <1>8

(* A fade ends with the scene on the glass and no pointer.                 *)
LEMMA CrossfadeGives ==
  ASSUME NEW s, SoundGfx(s)
  PROVE  LET t == Crossfade(s) IN SoundGfx(t) /\ t.dirty
<1> DEFINE i == CursorInvalidate(s)
           v == ToFront(i, i.back)
           f == [v EXCEPT !.dirty = FALSE]
           b == ComposeBegin(f)
           t == CursorInvalidate(b)
<1>1. SoundGfx(i) /\ ~i.on
  BY Forgotten
<1> HIDE DEF i
<1>2. SoundGfx(v) /\ FreshOn(v, Pixels) /\ ~v.on
  BY <1>1, ShowAll DEF Shown, Steady
<1> HIDE DEF v
<1>3. SoundGfx(f)
  BY <1>2, CleanGives
<1>4. f \in Pictures
  BY <1>3 DEF SoundGfx
<1>5. Crossfade(s) = t
  BY DEF Crossfade, BlendToFront, i, v
<1> HIDE DEF f
<1>6. SamePicture(f, b) /\ b.dirty = TRUE
  BY <1>4, ComposeIs
<1> HIDE DEF b
<1>7. SoundGfx(b)
  BY <1>3, <1>6, SamePictureKeeps
<1>8. SoundGfx(t) /\ SameScene(b, t)
  BY <1>7, Forgotten
<1> HIDE DEF t
<1>9. t.dirty
  BY <1>6, <1>8 DEF SameScene
<1> QED BY <1>5, <1>8, <1>9

LEMMA SceneBeginGives ==
  ASSUME NEW s, SoundGfx(s)
  PROVE  SoundGfx(SceneBegin(s))
<1> DEFINE b == ComposeBegin(s)
           t == SceneBegin(s)
<1>1. s \in Pictures
  BY DEF SoundGfx
<1>2. SamePicture(s, b)
  BY <1>1, ComposeIs
<1>3. NoDamage \in Damages
  BY DEF NoDamage, Damages
<1>4. t = [b EXCEPT !.full = TRUE, !.damage = NoDamage]
  BY DEF SceneBegin
<1> HIDE DEF b, t
<1>5. b \in Pictures
  BY <1>2 DEF SamePicture
<1>6. t \in Pictures
  BY <1>3, <1>4, <1>5 DEF Pictures
<1>7. SamePicture(b, t)
  BY <1>4, <1>5, <1>6 DEF SamePicture, Pictures
<1>8. SamePicture(s, t)
  BY <1>2, <1>7 DEF SamePicture
<1> QED BY <1>8, SamePictureKeeps DEF t

-----------------------------------------------------------------------------
(* The programs *)

LEMMA SteadyKeeps ==
  ASSUME NEW s, ScreenOK(s), NEW t, Steady(s, t)
  PROVE  ScreenOK(t)
BY FreshKept DEF ScreenOK, Steady

LEMMA EraseKeeps ==
  ASSUME NEW s, ScreenOK(s)
  PROVE  ScreenOK(Erase(s)) /\ SoundGfx(Erase(s))
<1>1. Erased(s, Erase(s))
  BY EraseGives DEF ScreenOK
<1>2. Steady(s, Erase(s)) /\ SoundGfx(Erase(s))
  BY <1>1 DEF Erased, Steady
<1> QED BY <1>2, SteadyKeeps

LEMMA InvalidateKeeps ==
  ASSUME NEW s, ScreenOK(s)
  PROVE  ScreenOK(CursorInvalidate(s))
<1>1. Steady(s, CursorInvalidate(s))
  BY Forgotten DEF ScreenOK, Steady
<1> QED BY <1>1, SteadyKeeps

\* ui_end, with the pointer where ui_begin read it or where it is now.
LEMMA UiEndGives ==
  ASSUME NEW s, ScreenOK(s), NEW wantFull, NEW hot \in Hots, mouse \in Pixels, mouse' \in Pixels
  PROVE  ScreenOK(UiEnd(s, wantFull, hot))
<1>1. ScreenOK(Present(s, mouse', hot))
  BY PresentGives
<1>2. ScreenOK(CursorDraw(ComposeEnd(s), mouse, hot))
  <2> DEFINE e == ComposeEnd(s)
  <2>1. SoundGfx(s)
    BY DEF ScreenOK
  <2>2. Steady(s, e)
    BY <2>1, Ended DEF Steady
  <2> HIDE DEF e
  <2>3. ScreenOK(e)
    BY <2>2, SteadyKeeps
  <2>4. Steady(e, CursorDraw(e, mouse, hot))
    BY <2>3, DrawGives DEF ScreenOK
  <2>5. ScreenOK(CursorDraw(e, mouse, hot))
    BY <2>3, <2>4, SteadyKeeps
  <2> QED BY <2>5 DEF e
<1> QED BY <1>1, <1>2 DEF UiEnd

\* A scene painted from whatever was there, and a fade over it.
LEMMA EntryGives ==
  ASSUME NEW s, SoundGfx(s), NEW scene \in Scenes
  PROVE  LET p == PaintAll(s, scene)
         IN SoundGfx(p) /\ p.dirty /\ SoundGfx(Crossfade(p)) /\ Crossfade(p).dirty
<1> DEFINE p == PaintAll(s, scene)
<1>1. SoundGfx(p) /\ p.dirty
  BY PaintAllGives
<1> HIDE DEF p
<1>2. SoundGfx(Crossfade(p)) /\ Crossfade(p).dirty
  BY <1>1, CrossfadeGives
<1> QED BY <1>1, <1>2 DEF p

LEMMA FullPresent ==
  ASSUME NEW s, SoundGfx(s), s.dirty, NEW m \in Pixels, NEW hot \in Hots
  PROVE  ScreenOK(Present(MarkFull(s), m, hot)) /\ ScreenOK(MarkFull(Present(MarkFull(s), m, hot)))
<1>1. ScreenOK(MarkFull(s))
  BY MarkFullKeeps
<1> DEFINE p == Present(MarkFull(s), m, hot)
<1>2. ScreenOK(p)
  BY <1>1, PresentGives
<1> HIDE DEF p
<1>3. ScreenOK(MarkFull(p))
  BY <1>2, MarkFullKeeps DEF ScreenOK
<1> QED BY <1>2, <1>3 DEF p

LEMMA LoginEnterKeeps == PictureInv /\ LoginEnter => PictureInv'
<1> SUFFICES ASSUME PictureInv, LoginEnter PROVE PictureInv'
  OBVIOUS
<1>1. ScreenOK(gfx) /\ mouse' \in Pixels /\ seen' \in Pixels \cup {-1} /\ spot' \in BOOLEAN
  BY DEF PictureInv, LoginEnter
<1>2. PICK scene \in Scenes, hot \in Hots, fade \in BOOLEAN :
        gfx' = IF fade THEN CursorFlip(Crossfade(PaintAll(Erase(gfx), scene)), mouse', hot)
               ELSE Present(MarkFull(PaintAll(Erase(gfx), scene)), mouse', hot)
  BY DEF LoginEnter
<1> DEFINE e == Erase(gfx)
           p == PaintAll(e, scene)
<1>3. SoundGfx(e)
  BY <1>1, EraseKeeps
<1> HIDE DEF e
<1>4. SoundGfx(p) /\ p.dirty /\ SoundGfx(Crossfade(p)) /\ Crossfade(p).dirty
  BY <1>3, EntryGives
<1> HIDE DEF p
<1>5. ScreenOK(CursorFlip(Crossfade(p), mouse', hot))
  BY <1>1, <1>4, FlipGives
<1>6. ScreenOK(Present(MarkFull(p), mouse', hot))
  BY <1>1, <1>4, FullPresent
<1>7. ScreenOK(gfx')
  BY <1>2, <1>5, <1>6 DEF p, e
<1> QED BY <1>1, <1>7 DEF PictureInv

LEMMA LoginStays == PictureInv /\ (LoginRedraw \/ LoginShake \/ LoginMoved) => PictureInv'
<1> SUFFICES ASSUME PictureInv, LoginRedraw \/ LoginShake \/ LoginMoved PROVE PictureInv'
  OBVIOUS
<1>1. ScreenOK(gfx) /\ SoundGfx(gfx) /\ mouse \in Pixels
      /\ mouse' \in Pixels /\ seen' \in Pixels \cup {-1} /\ spot' \in BOOLEAN
  BY DEF PictureInv, ScreenOK, LoginRedraw, LoginShake, LoginMoved
<1>2. CASE LoginRedraw
  <2>1. PICK scene \in Scenes, hot \in Hots :
          gfx' = Present(MarkFull(PaintAll(gfx, scene)), mouse, hot)
    BY <1>2 DEF LoginRedraw
  <2> DEFINE p == PaintAll(gfx, scene)
  <2>2. SoundGfx(p) /\ p.dirty
    BY <1>1, EntryGives
  <2> HIDE DEF p
  <2>3. ScreenOK(Present(MarkFull(p), mouse, hot))
    BY <1>1, <2>2, FullPresent
  <2> QED BY <1>1, <2>1, <2>3 DEF PictureInv, p
<1>3. CASE LoginShake
  <2>1. PICK scene \in Scenes : gfx' = ComposePresent(CursorInvalidate(PaintAll(gfx, scene)))
    BY <1>3 DEF LoginShake
  <2> DEFINE p == PaintAll(gfx, scene)
             t == ComposePresent(CursorInvalidate(p))
  <2>2. SoundGfx(p) /\ p.dirty
    BY <1>1, EntryGives
  <2> HIDE DEF p
  <2>3. SoundGfx(t) /\ FreshOn(t, Pixels)
    BY <2>2, FlipBegins
  <2> HIDE DEF t
  <2>4. ScreenOK(t)
    BY <2>3, AllFresh DEF ScreenOK
  <2> QED BY <1>1, <2>1, <2>4 DEF PictureInv, t, p
<1>4. CASE LoginMoved
  <2>1. PICK hot \in Hots : gfx' = CursorDraw(gfx, mouse, hot)
    BY <1>4 DEF LoginMoved
  <2>2. Steady(gfx, gfx')
    BY <1>1, <2>1, DrawGives
  <2>3. ScreenOK(gfx')
    BY <1>1, <2>2, SteadyKeeps
  <2> QED BY <1>1, <2>3 DEF PictureInv
<1> QED BY <1>2, <1>3, <1>4

LEMMA ObEnterKeeps == PictureInv /\ ObEnter => PictureInv'
<1> SUFFICES ASSUME PictureInv, ObEnter PROVE PictureInv'
  OBVIOUS
<1>1. ScreenOK(gfx) /\ mouse' \in Pixels /\ seen' \in Pixels \cup {-1} /\ spot' \in BOOLEAN
  BY DEF PictureInv, ObEnter
<1>2. PICK scene \in Scenes, fade \in BOOLEAN :
        gfx' = MarkFull(IF fade THEN Crossfade(PaintAll(Erase(gfx), scene))
                        ELSE PaintAll(Erase(gfx), scene))
  BY DEF ObEnter
<1> DEFINE e == Erase(gfx)
           p == PaintAll(e, scene)
<1>3. SoundGfx(e)
  BY <1>1, EraseKeeps
<1> HIDE DEF e
<1>4. SoundGfx(p) /\ p.dirty /\ SoundGfx(Crossfade(p)) /\ Crossfade(p).dirty
  BY <1>3, EntryGives
<1> HIDE DEF p
<1>5. ScreenOK(MarkFull(p)) /\ ScreenOK(MarkFull(Crossfade(p)))
  BY <1>4, MarkFullKeeps
<1>6. ScreenOK(gfx')
  BY <1>2, <1>5 DEF p, e
<1> QED BY <1>1, <1>6 DEF PictureInv

LEMMA ObStays == PictureInv /\ (ObScene \/ ObWidget \/ ObWidgetsEnd \/ CommitScene) => PictureInv'
<1> SUFFICES ASSUME PictureInv, ObScene \/ ObWidget \/ ObWidgetsEnd \/ CommitScene PROVE PictureInv'
  OBVIOUS
<1>1. ScreenOK(gfx) /\ SoundGfx(gfx) /\ mouse \in Pixels
      /\ mouse' \in Pixels /\ seen' \in Pixels \cup {-1} /\ spot' \in BOOLEAN
  BY DEF PictureInv, ScreenOK, ObScene, ObWidget, ObWidgetsEnd, CommitScene
<1>2. CASE ObScene
  <2>1. PICK scene \in Scenes : gfx' = MarkFull(PaintAll(SceneBegin(gfx), scene))
    BY <1>2 DEF ObScene
  <2> DEFINE b == SceneBegin(gfx)
             p == PaintAll(b, scene)
  <2>2. SoundGfx(b)
    BY <1>1, SceneBeginGives
  <2> HIDE DEF b
  <2>3. SoundGfx(p) /\ p.dirty
    BY <2>2, EntryGives
  <2> HIDE DEF p
  <2>4. ScreenOK(MarkFull(p))
    BY <2>3, MarkFullKeeps
  <2> QED BY <1>1, <2>1, <2>4 DEF PictureInv, p, b
<1>3. CASE ObWidget
  <2>1. PICK x \in Pixels, k \in 1 .. 2, c \in Colours : gfx' = PaintSpan(gfx, x, k, c)
    BY <1>3 DEF ObWidget
  <2>2. x \in Nat /\ k \in Nat
    BY DEF Pixels
  <2>3. ScreenOK(gfx')
    BY <1>1, <2>1, <2>2, PaintSpanGives
  <2> QED BY <1>1, <2>3 DEF PictureInv
<1>4. CASE ObWidgetsEnd
  <2>1. PICK hot \in Hots : gfx' = UiEnd(gfx, gfx.full, hot)
    BY <1>4 DEF ObWidgetsEnd
  <2>2. ScreenOK(gfx')
    BY <1>1, <2>1, UiEndGives
  <2> QED BY <1>1, <2>2 DEF PictureInv
<1>5. CASE CommitScene
  <2>1. PICK scene \in Scenes, hot \in Hots : gfx' = CursorFlip(PaintAll(gfx, scene), mouse, hot)
    BY <1>5 DEF CommitScene
  <2> DEFINE p == PaintAll(gfx, scene)
  <2>2. SoundGfx(p) /\ p.dirty
    BY <1>1, EntryGives
  <2> HIDE DEF p
  <2>3. ScreenOK(CursorFlip(p, mouse, hot))
    BY <1>1, <2>2, FlipGives
  <2> QED BY <1>1, <2>1, <2>3 DEF PictureInv, p
<1> QED BY <1>2, <1>3, <1>4, <1>5

LEMMA DesktopEnterKeeps == PictureInv /\ DesktopEnter => PictureInv'
<1> SUFFICES ASSUME PictureInv, DesktopEnter PROVE PictureInv'
  OBVIOUS
<1>1. ScreenOK(gfx) /\ mouse' \in Pixels /\ seen' \in Pixels \cup {-1} /\ spot' \in BOOLEAN
  BY DEF PictureInv, DesktopEnter
<1>2. PICK scene \in Scenes, hot \in Hots, fade \in BOOLEAN :
        gfx' = Present(MarkFull(CursorInvalidate(IF fade THEN Crossfade(PaintAll(Erase(gfx), scene))
                                                 ELSE PaintAll(Erase(gfx), scene))), mouse', hot)
  BY DEF DesktopEnter
<1> DEFINE e == Erase(gfx)
           p == PaintAll(e, scene)
           f == IF fade THEN Crossfade(p) ELSE p
           i == CursorInvalidate(f)
<1>3. SoundGfx(e)
  BY <1>1, EraseKeeps
<1> HIDE DEF e
<1>4. SoundGfx(p) /\ p.dirty /\ SoundGfx(Crossfade(p)) /\ Crossfade(p).dirty
  BY <1>3, EntryGives
<1> HIDE DEF p
<1>5. SoundGfx(f) /\ f.dirty
  BY <1>4
<1> HIDE DEF f
<1>6. SoundGfx(i) /\ SameScene(f, i)
  BY <1>5, Forgotten
<1> HIDE DEF i
<1>7. i.dirty
  BY <1>5, <1>6 DEF SameScene
<1>8. ScreenOK(Present(MarkFull(i), mouse', hot))
  BY <1>1, <1>6, <1>7, FullPresent
<1>9. ScreenOK(gfx')
  BY <1>2, <1>8 DEF i, f, p, e
<1> QED BY <1>1, <1>9 DEF PictureInv

LEMMA DesktopRedrawKeeps == PictureInv /\ DesktopRedraw => PictureInv'
<1> SUFFICES ASSUME PictureInv, DesktopRedraw PROVE PictureInv'
  OBVIOUS
<1>1. ScreenOK(gfx) /\ SoundGfx(gfx) /\ mouse \in Pixels
      /\ mouse' \in Pixels /\ seen' \in Pixels \cup {-1} /\ spot' \in BOOLEAN
  BY DEF PictureInv, ScreenOK, DesktopRedraw
<1>2. PICK scene \in Scenes, hot \in Hots, fade \in BOOLEAN, again \in BOOLEAN :
        LET p == PaintAll(gfx, scene)
            f == IF fade THEN Crossfade(p) ELSE p
            s == Present(MarkFull(f), mouse, hot)
        IN gfx' = IF again THEN MarkFull(s) ELSE s
  BY DEF DesktopRedraw
<1> DEFINE p == PaintAll(gfx, scene)
           f == IF fade THEN Crossfade(p) ELSE p
<1>3. SoundGfx(p) /\ p.dirty /\ SoundGfx(Crossfade(p)) /\ Crossfade(p).dirty
  BY <1>1, EntryGives
<1> HIDE DEF p
<1>4. SoundGfx(f) /\ f.dirty
  BY <1>3
<1> HIDE DEF f
<1>5. ScreenOK(Present(MarkFull(f), mouse, hot)) /\ ScreenOK(MarkFull(Present(MarkFull(f), mouse, hot)))
  BY <1>1, <1>4, FullPresent
<1>6. ScreenOK(gfx')
  BY <1>2, <1>5 DEF f, p
<1> QED BY <1>1, <1>6 DEF PictureInv

LEMMA DesktopWidgetsKeeps == PictureInv /\ DesktopWidgets => PictureInv'
<1> SUFFICES ASSUME PictureInv, DesktopWidgets PROVE PictureInv'
  OBVIOUS
<1>1. ScreenOK(gfx) /\ mouse \in Pixels /\ mouse' \in Pixels /\ spot' \in BOOLEAN
  BY DEF PictureInv, DesktopWidgets
<1>2. PICK hover \in BOOLEAN, c \in Colours, hot \in Hots :
        LET repaintBase == ~spot /\ (gfx.full \/ hover)
            s == IF repaintBase THEN CursorInvalidate(PaintSpan(gfx, DockX, DockW, c))
                 ELSE CursorUpdate(gfx)
        IN /\ gfx' = UiEnd(s, gfx.full, hot)
           /\ seen' = IF repaintBase THEN mouse' ELSE mouse
  BY DEF DesktopWidgets
<1> DEFINE repaintBase == ~spot /\ (gfx.full \/ hover)
           q == PaintSpan(gfx, DockX, DockW, c)
           v == CursorInvalidate(q)
           w == CursorUpdate(gfx)
           s == IF repaintBase THEN v ELSE w
<1>3. seen' \in Pixels
  BY <1>1, <1>2
<1>4. gfx' = UiEnd(s, gfx.full, hot)
  BY <1>2
<1>5. ScreenOK(q)
  BY <1>1, Numbers, PaintSpanGives
<1> HIDE DEF q
<1>6. ScreenOK(v)
  BY <1>5, InvalidateKeeps
<1>7. ScreenOK(w)
  BY <1>1, EraseKeeps DEF CursorUpdate
<1> HIDE DEF v, w, repaintBase
<1>8. ScreenOK(s)
  BY <1>6, <1>7
<1> HIDE DEF s
<1>9. ScreenOK(gfx')
  BY <1>1, <1>4, <1>8, UiEndGives
<1> QED BY <1>1, <1>3, <1>9 DEF PictureInv

LEMMA ScreenStarts == ScreenInit => PictureInv
<1> SUFFICES ASSUME ScreenInit PROVE PictureInv
  OBVIOUS
<1>1. PICK wide \in BOOLEAN, scene \in Scenes :
        gfx = [front |-> scene, back |-> scene, base |-> "front", dirty |-> FALSE,
               damage |-> NoDamage, full |-> FALSE, bits32 |-> wide,
               on |-> FALSE, cx |-> 0, under |-> Nowhere, left |-> {}]
  BY DEF ScreenInit
<1>2. scene \in [Pixels -> Colours] /\ scene \in [Pixels -> Shades]
  BY DEF Scenes, Shades
<1>3. NoDamage \in Damages
  BY DEF NoDamage, Damages
<1>4. Nowhere \in UNION {[R -> Shades] : R \in SUBSET Pixels} /\ DOMAIN Nowhere = {}
  BY NowhereIs
<1>5. gfx \in Pictures
  BY <1>1, <1>2, <1>3, <1>4 DEF Pictures
<1>6. gfx.front = scene /\ gfx.back = scene /\ ~gfx.on /\ gfx.under = Nowhere /\ ~gfx.dirty
  BY <1>1
<1>7. Lone(gfx)
  BY <1>2, <1>6, Numbers DEF Lone
<1>8. Whole(gfx) /\ UnderSaved(gfx)
  BY <1>4, <1>6 DEF Whole, UnderSaved
<1>9. Fresh(gfx)
  BY <1>4, <1>6 DEF Fresh, FreshOn
<1>10. ScreenOK(gfx)
  BY <1>5, <1>7, <1>8, <1>9 DEF ScreenOK, SoundGfx
<1> QED BY <1>10 DEF PictureInv, ScreenInit

LEMMA ScreenSteps == PictureInv /\ [ScreenNext]_screenVars => PictureInv'
<1> SUFFICES ASSUME PictureInv, [ScreenNext]_screenVars PROVE PictureInv'
  OBVIOUS
<1>1. CASE MouseIrq
  BY <1>1 DEF MouseIrq, PictureInv
<1>2. CASE LoginEnter
  BY <1>2, LoginEnterKeeps
<1>3. CASE LoginRedraw \/ LoginShake \/ LoginMoved
  BY <1>3, LoginStays
<1>4. CASE ObEnter
  BY <1>4, ObEnterKeeps
<1>5. CASE ObScene \/ ObWidget \/ ObWidgetsEnd \/ CommitScene
  BY <1>5, ObStays
<1>6. CASE DesktopEnter
  BY <1>6, DesktopEnterKeeps
<1>7. CASE DesktopRedraw
  BY <1>7, DesktopRedrawKeeps
<1>8. CASE DesktopWidgets
  BY <1>8, DesktopWidgetsKeeps
<1>9. CASE UNCHANGED screenVars
  BY <1>9 DEF screenVars, PictureInv
<1> QED BY <1>1, <1>2, <1>3, <1>4, <1>5, <1>6, <1>7, <1>8, <1>9 DEF ScreenNext

LEMMA ScreenAlways == ScreenSpec => []PictureInv
BY ScreenStarts, ScreenSteps, PTL DEF ScreenSpec

(* Every pixel of the scene is on the glass, under the pointer or waiting to *)
(* be copied, whatever the sizes of the screen, the pointer and the staging  *)
(* rows and whoever paints (ui_comp_damage, ui_comp_present).                *)
THEOREM SceneAlwaysShown == ScreenSpec => []SceneSound
<1>1. PictureInv => SceneSound
  <2> SUFFICES ASSUME PictureInv PROVE SceneSound
    OBVIOUS
  <2>1. gfx \in Pictures /\ Fresh(gfx) /\ mouse \in Pixels /\ seen \in Pixels \cup {-1}
        /\ spot \in BOOLEAN
    BY DEF PictureInv, ScreenOK, SoundGfx
  <2>2. /\ gfx.back \in [Pixels -> Colours] /\ gfx.front \in [Pixels -> Colours \cup {Cursor}]
        /\ gfx.base \in {"front", "back"} /\ gfx.left \subseteq Pixels
        /\ {gfx.dirty, gfx.full, gfx.on, gfx.bits32} \subseteq BOOLEAN
        /\ gfx.damage \in Damages
    BY <2>1 DEF Pictures, Shades
  <2>3. gfx.damage.on => gfx.damage.x \in Pixels /\ gfx.damage.x + gfx.damage.w \in 1 .. FbW
    <3> DEFINE dx == gfx.damage.x  dw == gfx.damage.w
    <3>1. dx \in Nat /\ dw \in Nat /\ (gfx.damage.on => dw >= 1 /\ dx + dw =< FbW)
      BY <2>2 DEF Damages
    <3>2. FbW \in Nat
      BY Numbers
    <3> HIDE DEF dx, dw
    <3>3. gfx.damage.on => dx \in Pixels /\ dx + dw \in 1 .. FbW
      BY <3>1, <3>2 DEF Pixels
    <3> QED BY <3>3 DEF dx, dw
  <2>4. ScreenTypeOK
    BY <2>1, <2>2, <2>3 DEF ScreenTypeOK
  <2>5. Pending = PendingIn(gfx)
    BY DEF Pending, PendingIn
  <2>6. SceneShown
    BY <2>1, <2>5 DEF SceneShown, Fresh, FreshOn
  <2> QED BY <2>4, <2>6 DEF SceneSound
<1> QED BY <1>1, ScreenAlways, PTL

(* There is one pointer on the glass, all of it, and none in the scene,      *)
(* whichever of the three ways it was stamped and whatever was forgotten     *)
(* before (cursor_stamp, gfx_cursor_invalidate, save_under).                 *)
THEOREM PointerAlwaysTrue == ScreenSpec => []PointerTrue
<1>1. PictureInv => PointerTrue
  BY DEF PictureInv, ScreenOK, SoundGfx, Whole, Lone, PointerTrue, PointerShown, OnePointer
<1> QED BY <1>1, ScreenAlways, PTL
-----------------------------------------------------------------------------
(* The pixel arithmetic.  Products and quotients first.                    *)

LEMMA Times ==
  ASSUME NEW a \in Nat, NEW b \in Nat, NEW c \in Nat, a <= b
  PROVE  a * c \in Nat /\ a * c <= b * c /\ c * a <= c * b
<1>1. PICK d \in Nat : b = a + d
  <2>1. b - a \in Nat /\ b = a + (b - a)
    OBVIOUS
  <2> QED BY <2>1
<1>2. b * c = a * c + d * c /\ d * c \in Nat /\ a * c \in Nat /\ a * c = c * a /\ b * c = c * b
  BY <1>1
<1> QED BY <1>2

LEMMA DivIs ==
  ASSUME NEW a \in Nat, NEW d \in Nat \ {0}
  PROVE  a \div d \in Nat /\ a % d \in 0 .. (d - 1) /\ a = d * (a \div d) + (a % d)
<1>1. a \div d \in Int /\ a % d \in 0 .. (d - 1)
  OBVIOUS
<1>2. a = d * (a \div d) + (a % d)
  OBVIOUS
<1>3. a \div d >= 0
  OBVIOUS
<1> QED BY <1>1, <1>2, <1>3

LEMMA DivMost ==
  ASSUME NEW a \in Nat, NEW d \in Nat \ {0}, NEW b \in Nat, a < d * b + d
  PROVE  a \div d <= b
<1> DEFINE q == a \div d  r == a % d
<1>1. q \in Nat /\ r \in 0 .. (d - 1) /\ a = d * q + r
  BY DivIs
<1> HIDE DEF q, r
<1>2. ASSUME q > b PROVE FALSE
  <2>1. b + 1 \in Nat /\ b + 1 <= q
    BY <1>1, <1>2
  <2>2. d * (b + 1) <= d * q
    BY <1>1, <2>1, Times
  <2>3. d * (b + 1) = d * b + d /\ d * b \in Nat /\ d * q \in Nat
    BY <1>1
  <2> QED BY <1>1, <2>2, <2>3
<1> QED BY <1>1, <1>2 DEF q

LEMMA DivLeast ==
  ASSUME NEW a \in Nat, NEW d \in Nat \ {0}, NEW b \in Nat, d * b <= a
  PROVE  b <= a \div d
<1> DEFINE q == a \div d  r == a % d
<1>1. q \in Nat /\ r \in 0 .. (d - 1) /\ a = d * q + r
  BY DivIs
<1> HIDE DEF q, r
<1>2. ASSUME q < b PROVE FALSE
  <2>1. q + 1 \in Nat /\ q + 1 <= b
    BY <1>1, <1>2
  <2>2. d * (q + 1) <= d * b
    BY <1>1, <2>1, Times
  <2>3. d * (q + 1) = d * q + d /\ d * b \in Nat /\ d * q \in Nat
    BY <1>1
  <2> QED BY <1>1, <2>2, <2>3
<1> QED BY <1>1, <1>2 DEF q

\* A quotient is known by the two multiples around the number.
LEMMA DivAt ==
  ASSUME NEW a \in Nat, NEW d \in Nat \ {0}, NEW b \in Nat, d * b <= a, a < d * b + d
  PROVE  a \div d = b /\ a % d = a - d * b
<1> DEFINE q == a \div d  r == a % d
<1>1. q \in Nat /\ r \in 0 .. (d - 1) /\ a = d * q + r
  BY DivIs
<1>2. q <= b /\ b <= q
  BY DivMost, DivLeast
<1> HIDE DEF q, r
<1>3. q = b
  BY <1>1, <1>2
<1>4. d * b \in Nat
  OBVIOUS
<1>5. r = a - d * b
  BY <1>1, <1>3, <1>4
<1> QED BY <1>3, <1>5 DEF q, r

LEMMA DivUp ==
  ASSUME NEW a \in Nat, NEW b \in Nat, NEW d \in Nat \ {0}, a <= b
  PROVE  a \div d <= b \div d
<1> DEFINE q == b \div d  r == b % d
<1>1. q \in Nat /\ r \in 0 .. (d - 1) /\ b = d * q + r
  BY DivIs
<1> HIDE DEF q, r
<1>2. d * q \in Nat
  BY <1>1
<1>3. a < d * q + d
  BY <1>1, <1>2
<1>4. a \div d <= q
  BY <1>1, <1>3, DivMost
<1> QED BY <1>4 DEF q

(* Loops and running totals *)

Looping(R, base, n, step) == base \in R /\ n \in Nat /\ step \in [1 .. n -> [R -> R]]
Loops(f, R, base, n, step) ==
    f \in [0 .. n -> R] /\ f[0] = base /\ \A k \in 1 .. n : f[k] = step[k][f[k - 1]]

LEMMA LoopEnds ==
  ASSUME NEW R, NEW base, NEW n, NEW step, Looping(R, base, n, step)
  PROVE  \E f : Loops(f, R, base, n, step)
BY Stepwise DEF Looping, Loops

LEMMA RunningExists ==
  ASSUME NEW base \in Int, NEW n \in Nat, NEW f \in [1 .. n -> Int]
  PROVE  \E s : s = [k \in 0 .. n |-> IF k = 0 THEN base ELSE s[k - 1] + f[k]]
<1> DEFINE sf == [k \in 1 .. n |-> [v \in Int |-> v + f[k]]]
<1>1. Looping(Int, base, n, sf)
  BY DEF Looping
<1> HIDE DEF sf
<1>2. PICK s : Loops(s, Int, base, n, sf)
  BY <1>1, LoopEnds
<1>3. ASSUME NEW k \in 1 .. n PROVE s[k] = s[k - 1] + f[k]
  <2>1. k - 1 \in 0 .. n
    OBVIOUS
  <2>2. s[k - 1] \in Int
    BY <1>2, <2>1 DEF Loops
  <2> QED BY <1>2, <2>2 DEF sf, Loops
<1>4. s = [k \in 0 .. n |-> IF k = 0 THEN base ELSE s[k - 1] + f[k]]
  <2>1. \A k \in 0 .. n : k = 0 \/ k \in 1 .. n
    OBVIOUS
  <2> QED BY <1>2, <1>3, <2>1 DEF Loops
<1> QED BY <1>4

\* s starts at base and adds one term of f after another.
Totals(s, base, n, f) ==
    s \in [0 .. n -> Int] /\ f \in [1 .. n -> Int] /\ s[0] = base /\ \A k \in 1 .. n : s[k] = s[k - 1] + f[k]

LEMMA RunningGives ==
  ASSUME NEW base \in Int, NEW n \in Nat, NEW f \in [1 .. n -> Int]
  PROVE  Totals(Running(base, n, f), base, n, f)
<1> DEFINE Solves(s) == s = [k \in 0 .. n |-> IF k = 0 THEN base ELSE s[k - 1] + f[k]]
           u == CHOOSE s : Solves(s)
<1>1. \E s : Solves(s)
  BY RunningExists
<1>2. Solves(u)
  BY <1>1
<1>3. Running(base, n, f) = u
  BY DEF Running
<1>4. u = [k \in 0 .. n |-> IF k = 0 THEN base ELSE u[k - 1] + f[k]]
  BY <1>2
<1> HIDE DEF u
<1>5. u[0] = base /\ \A k \in 1 .. n : u[k] = u[k - 1] + f[k]
  <2>1. 0 \in 0 .. n /\ \A k \in 1 .. n : k \in 0 .. n /\ k # 0
    OBVIOUS
  <2> QED BY <1>4, <2>1
<1> DEFINE T == {k \in 0 .. n : u[k] \in Int}
<1>6. 0 \in T
  BY <1>5
<1>7. \A k \in 1 .. n : k - 1 \in T => k \in T
  BY <1>5
<1> HIDE DEF T
<1>8. \A k \in 0 .. n : k \in T
  BY <1>6, <1>7, UpTo
<1>9. \A k \in 0 .. n : u[k] \in Int
  BY <1>8 DEF T
<1>10. u \in [0 .. n -> Int]
  BY <1>4, <1>9
<1> QED BY <1>3, <1>5, <1>10 DEF Totals


LEMMA TotalBetween ==
  ASSUME NEW s, NEW base \in Int, NEW n \in Nat, NEW f, Totals(s, base, n, f),
         NEW lo \in Int, NEW hi \in Int, \A k \in 1 .. n : f[k] \in lo .. hi
  PROVE  \A k \in 0 .. n : base + k * lo <= s[k] /\ s[k] <= base + k * hi
<1> DEFINE T == {k \in 0 .. n : base + k * lo <= s[k] /\ s[k] <= base + k * hi}
<1>1. 0 \in T
  BY DEF Totals
<1>2. ASSUME NEW k \in 1 .. n, k - 1 \in T PROVE k \in T
  <2>1. s[k] = s[k - 1] + f[k] /\ f[k] \in lo .. hi /\ s[k - 1] \in Int
    BY <1>2 DEF Totals
  <2>2. base + (k - 1) * lo <= s[k - 1] /\ s[k - 1] <= base + (k - 1) * hi
    BY <1>2
  <2>3. (k - 1) * lo = k * lo - lo /\ (k - 1) * hi = k * hi - hi /\ k * lo \in Int /\ k * hi \in Int
    OBVIOUS
  <2>4. PICK a \in Int, c \in Int : a = k * lo /\ c = k * hi
    BY <2>3
  <2>5. PICK v \in Int, y \in Int : v = s[k - 1] /\ y = f[k]
    BY <2>1
  <2>6. base + a - lo <= v /\ v <= base + c - hi /\ lo <= y /\ y <= hi
    BY <2>1, <2>2, <2>3, <2>4, <2>5
  <2>7. base + a <= v + y /\ v + y <= base + c
    BY <2>6
  <2> QED BY <2>1, <2>4, <2>5, <2>7
<1> HIDE DEF T
<1>3. \A k \in 0 .. n : k \in T
  BY <1>1, <1>2, UpTo
<1> QED BY <1>3 DEF T

\* The same terms from another start.
LEMMA TotalShifted ==
  ASSUME NEW s, NEW t, NEW a \in Int, NEW b \in Int, NEW n \in Nat, NEW f,
         Totals(s, a, n, f), Totals(t, b, n, f)
  PROVE  \A k \in 0 .. n : t[k] - b = s[k] - a
<1> DEFINE T == {k \in 0 .. n : t[k] - b = s[k] - a}
<1>1. 0 \in T
  BY DEF Totals
<1>2. ASSUME NEW k \in 1 .. n, k - 1 \in T PROVE k \in T
  <2>1. s[k] = s[k - 1] + f[k] /\ t[k] = t[k - 1] + f[k] /\ t[k - 1] - b = s[k - 1] - a
    BY <1>2 DEF Totals
  <2>2. k - 1 \in 0 .. n /\ k \in 0 .. n
    OBVIOUS
  <2>3. s[k - 1] \in Int /\ t[k - 1] \in Int /\ s[k] \in Int /\ t[k] \in Int
    BY <2>2 DEF Totals
  <2>4. PICK e \in Int : e = f[k]
    BY DEF Totals
  <2>5. t[k] - b = s[k] - a
    BY <2>1, <2>3, <2>4
  <2> QED BY <2>5
<1> HIDE DEF T
<1>3. \A k \in 0 .. n : k \in T
  BY <1>1, <1>2, UpTo
<1> QED BY <1>3 DEF T

\* The same terms from the other end.
LEMMA TotalReversed ==
  ASSUME NEW s, NEW t, NEW n \in Nat, NEW f, NEW g,
         Totals(s, 0, n, f), Totals(t, 0, n, g), \A k \in 1 .. n : g[k] = f[n + 1 - k]
  PROVE  t[n] = s[n]
<1> DEFINE T == {k \in 0 .. n : t[k] = s[n] - s[n - k]}
<1>0. \A k \in 0 .. n : s[k] \in Int /\ t[k] \in Int
  BY DEF Totals
<1>1. 0 \in T
  <2>1. n - 0 = n /\ n \in 0 .. n /\ t[0] = 0
    BY DEF Totals
  <2> QED BY <1>0, <2>1
<1>2. ASSUME NEW k \in 1 .. n, k - 1 \in T PROVE k \in T
  <2>1. n + 1 - k \in 1 .. n /\ n - k \in 0 .. n /\ n - (k - 1) = n + 1 - k /\ (n + 1 - k) - 1 = n - k
    OBVIOUS
  <2>2. t[k] = t[k - 1] + g[k] /\ g[k] = f[n + 1 - k]
    BY DEF Totals
  <2>3. s[n + 1 - k] = s[n - k] + f[n + 1 - k]
    BY <2>1 DEF Totals
  <2>4. t[k - 1] = s[n] - s[n + 1 - k]
    BY <1>2, <2>1
  <2>5. s[n] \in Int /\ s[n - k] \in Int /\ s[n + 1 - k] \in Int /\ t[k] \in Int /\ t[k - 1] \in Int
    BY <1>0, <2>1
  <2>6. PICK j : j = n - k
    OBVIOUS
  <2>7. PICK i : i = n + 1 - k
    OBVIOUS
  <2>8. PICK y : y = f[i]
    OBVIOUS
  <2>9. s[i] = s[j] + y /\ t[k] = t[k - 1] + y /\ t[k - 1] = s[n] - s[i]
    BY <2>2, <2>3, <2>4, <2>6, <2>7, <2>8
  <2>10. y \in Int
    <3>1. i \in 1 .. n
      BY <2>1, <2>7
    <3> QED BY <3>1, <2>8 DEF Totals
  <2>11. t[k] = s[n] - s[j]
    BY <2>5, <2>6, <2>7, <2>9, <2>10
  <2> QED BY <2>6, <2>11
<1> HIDE DEF T
<1>3. \A k \in 0 .. n : k \in T
  BY <1>1, <1>2, UpTo
<1>4. t[n] = s[n] - s[n - n] /\ n - n = 0
  BY <1>3 DEF T
<1> QED BY <1>0, <1>4 DEF Totals

\* A total of what is never negative does not fall.
LEMMA TotalRises ==
  ASSUME NEW s, NEW base \in Int, NEW n \in Nat, NEW f, Totals(s, base, n, f),
         \A k \in 1 .. n : f[k] \in Nat
  PROVE  \A k \in 0 .. n : s[k] <= s[n]
<1> DEFINE T == {k \in 0 .. n : s[n - k] <= s[n]}
<1>0. \A k \in 0 .. n : s[k] \in Int
  BY DEF Totals
<1>1. 0 \in T
  <2>1. n - 0 = n /\ n \in 0 .. n
    OBVIOUS
  <2> QED BY <1>0, <2>1
<1>2. ASSUME NEW k \in 1 .. n, k - 1 \in T PROVE k \in T
  <2>1. PICK i : i = n + 1 - k
    OBVIOUS
  <2>2. i \in 1 .. n /\ n - k = i - 1 /\ n - (k - 1) = i /\ i - 1 \in 0 .. n
    BY <2>1
  <2>3. s[i] = s[i - 1] + f[i] /\ f[i] \in Nat
    BY <2>2 DEF Totals
  <2>4. s[i] <= s[n]
    BY <1>2, <2>2
  <2>5. s[i] \in Int /\ s[i - 1] \in Int /\ s[n] \in Int
    BY <1>0, <2>2
  <2>6. s[i - 1] <= s[n]
    <3>1. PICK e \in Nat : e = f[i]
      BY <2>3
    <3> QED BY <2>3, <2>4, <2>5, <3>1
  <2> QED BY <2>2, <2>6
<1> HIDE DEF T
<1>3. \A k \in 0 .. n : k \in T
  BY <1>1, <1>2, UpTo
<1>4. ASSUME NEW k \in 0 .. n PROVE s[k] <= s[n]
  <2>1. n - k \in T /\ n - (n - k) = k
    BY <1>3
  <2> QED BY <2>1 DEF T
<1> QED BY <1>4

-----------------------------------------------------------------------------
(* Text *)

LEMMA AdvanceGrows ==
  ASSUME NEW adv \in 1 .. 4, NEW height \in 1 .. FontH
  PROVE  AdvanceH(adv, height) \in Nat
<1>1. FontH \in Nat \ {0}
  BY RasterAssumption
<1>2. adv * height \in Nat /\ FontH \div 2 \in Nat
  BY <1>1
<1>3. PICK a \in Nat : a = adv * height + FontH \div 2
  BY <1>2
<1>4. a \div FontH \in Nat
  BY <1>1, <1>3, DivIs
<1>5. PICK q \in Nat : q = a \div FontH
  BY <1>4
<1>6. Large((adv * height + FontH \div 2) \div FontH, 1) \in Nat
  BY <1>3, <1>5 DEF Large
<1> QED BY <1>1, <1>6 DEF AdvanceH

LEMMA WidthIsTotal ==
  ASSUME NEW n \in Nat, NEW text \in [1 .. n -> 1 .. 4], NEW height \in 1 .. FontH
  PROVE  /\ Len(text) = n
         /\ Advances(text, height) \in [1 .. n -> Nat]
         /\ height = FontH => Advances(text, height) = text
<1>1. Len(text) = n
  OBVIOUS
<1>2. \A k \in 1 .. n : text[k] \in 1 .. 4
  OBVIOUS
<1>3. Advances(text, height) = [k \in 1 .. n |-> AdvanceH(text[k], height)]
  BY <1>1 DEF Advances
<1>4. \A k \in 1 .. n : AdvanceH(text[k], height) \in Nat
  BY <1>2, AdvanceGrows
<1>5. ASSUME height = FontH PROVE \A k \in 1 .. n : AdvanceH(text[k], height) = text[k]
  BY <1>5, RasterAssumption DEF AdvanceH
<1> QED BY <1>1, <1>3, <1>4, <1>5

\* The stations of n glyphs: what is drawn lies between two of them.
LEMMA InkBetween ==
  ASSUME NEW s, NEW base \in Int, NEW n \in Nat, NEW f, Totals(s, base, n, f),
         NEW k \in 0 .. n, NEW limit \in Int, \A j \in 1 .. k : s[j] <= limit
  PROVE  \A p \in Ink(s, k) : p <= limit
<1>1. ASSUME NEW j \in 1 .. k, NEW p \in s[j - 1] .. s[j] PROVE p <= limit
  <2>1. j \in 0 .. n /\ j - 1 \in 0 .. n
    OBVIOUS
  <2>2. s[j] \in Int /\ s[j - 1] \in Int
    BY <2>1 DEF Totals
  <2>3. PICK a \in Int, b \in Int : a = s[j - 1] /\ b = s[j]
    BY <2>2
  <2>4. b <= limit /\ p \in a .. b
    BY <1>1, <2>3
  <2> QED BY <2>4
<1> QED BY <1>1 DEF Ink

LEMMA TextFits ==
  ASSUME NEW n \in Nat, NEW text \in [1 .. n -> 1 .. 4], NEW height \in 1 .. FontH
  PROVE  LET d == DrawTextH(2, text, height)
         IN d.at = 2 + WidthH(text, height) /\ \A p \in d.ink : p <= d.at
<1> DEFINE f == Advances(text, height)  at == Running(2, n, f)  width == Running(0, n, f)
<1>1. Len(text) = n /\ f \in [1 .. n -> Nat]
  BY WidthIsTotal
<1>2. f \in [1 .. n -> Int] /\ \A k \in 1 .. n : f[k] \in Nat
  BY <1>1
<1>3. Totals(at, 2, n, f) /\ Totals(width, 0, n, f)
  <2> HIDE DEF f
  <2> QED BY <1>2, RunningGives
<1>4. DrawTextH(2, text, height) = [at |-> at[n], ink |-> Ink(at, n)] /\ WidthH(text, height) = width[n]
  BY <1>1 DEF DrawTextH, WidthH
<1> HIDE DEF f, at, width
<1>5. at[n] - 2 = width[n] - 0 /\ at[n] \in Int /\ width[n] \in Int
  <2>1. \A k \in 0 .. n : at[k] - 2 = width[k] - 0
    BY <1>3, TotalShifted
  <2> QED BY <1>3, <2>1 DEF Totals
<1>6. \A k \in 0 .. n : at[k] <= at[n]
  BY <1>2, <1>3, TotalRises
<1>7. \A p \in Ink(at, n) : p <= at[n]
  <2>1. n \in 0 .. n /\ \A j \in 1 .. n : at[j] <= at[n]
    BY <1>6
  <2> QED BY <1>3, <1>5, <2>1, InkBetween
<1> QED BY <1>4, <1>5, <1>7

LEMMA ClipStops ==
  ASSUME NEW s, NEW n \in Nat, NEW f, NEW limit \in Int, Totals(s, 2, n, f)
  PROVE  \E k \in 0 .. n : /\ \A j \in 1 .. k : s[j] <= limit
                           /\ k < n => s[k + 1] > limit
<1> DEFINE B == {j \in 1 .. n : s[j] > limit}
<1>0. \A j \in 1 .. n : s[j] \in Int
  BY DEF Totals
<1>1. CASE B = {}
  <2>1. \A j \in 1 .. n : s[j] <= limit
    BY <1>0, <1>1
  <2> QED BY <2>1
<1>2. CASE B # {}
  <2>1. B \in SUBSET Nat
    OBVIOUS
  <2>2. PICK b \in B : \A c \in B : b <= c
    <3> HIDE DEF B
    <3> QED BY <1>2, <2>1, LeastElement
  <2>3. b \in 1 .. n /\ s[b] > limit
    BY <2>2
  <2>4. ASSUME NEW j \in 1 .. b - 1 PROVE s[j] <= limit
    <3>1. j \in 1 .. n /\ ~ (b <= j)
      BY <2>3
    <3> QED BY <1>0, <2>2, <3>1
  <2>5. b - 1 \in 0 .. n /\ (b - 1) + 1 = b
    BY <2>3
  <2> QED BY <2>3, <2>4, <2>5
<1> QED BY <1>1, <1>2

LEMMA TextClips ==
  ASSUME NEW n \in Nat, NEW text \in [1 .. n -> 1 .. 4], NEW maxX \in Int
  PROVE  LET c == ClipText(2, maxX, text)
         IN /\ \A p \in c.ink : p <= maxX
            /\ ~c.stop => c.at = 2 + WidthH(text, FontH)
<1> DEFINE at == Running(2, n, text)  width == Running(0, n, text)
           Fits(k) == /\ \A j \in 1 .. k : at[j] <= maxX
                      /\ k < n => at[k + 1] > maxX
           drawn == Fitting(at, n, maxX)
<1>0. FontH \in 1 .. FontH
  BY RasterAssumption
<1>1. Len(text) = n /\ Advances(text, FontH) = text /\ text \in [1 .. n -> Int]
  BY <1>0, WidthIsTotal
<1>2. Totals(at, 2, n, text) /\ Totals(width, 0, n, text)
  BY <1>1, RunningGives
<1>3. ClipText(2, maxX, text) = [at |-> at[drawn], ink |-> Ink(at, drawn), stop |-> drawn < n]
  BY <1>1 DEF ClipText
<1>4. WidthH(text, FontH) = width[n]
  BY <1>1 DEF WidthH
<1> HIDE DEF at, width
<1>5. drawn \in 0 .. n /\ Fits(drawn)
  <2>1. \E k \in 0 .. n : Fits(k)
    BY <1>2, ClipStops
  <2> QED BY <2>1 DEF Fitting
<1> HIDE DEF drawn
<1>6. \A p \in Ink(at, drawn) : p <= maxX
  BY <1>2, <1>5, InkBetween
<1>7. at[n] = 2 + width[n]
  <2>1. \A k \in 0 .. n : at[k] - 2 = width[k] - 0
    BY <1>2, TotalShifted
  <2>2. at[n] \in Int /\ width[n] \in Int /\ n \in 0 .. n
    BY <1>2 DEF Totals
  <2> QED BY <2>1, <2>2
<1>8. ~(drawn < n) => drawn = n
  BY <1>5
<1> DEFINE c == ClipText(2, maxX, text)
<1>9. c.at = at[drawn] /\ c.ink = Ink(at, drawn) /\ (~c.stop => ~(drawn < n))
  <2>1. c.at = at[drawn] /\ c.ink = Ink(at, drawn)
    BY <1>3
  <2>2. c.stop = (drawn < n)
    <3>1. PICK v : v = (drawn < n)
      OBVIOUS
    <3>2. c = [at |-> at[drawn], ink |-> Ink(at, drawn), stop |-> v]
      BY <1>3, <3>1, Zenon
    <3>3. c.stop = v
      BY <3>2
    <3> QED BY <3>1, <3>3
  <2>3. ~c.stop => ~(drawn < n)
    BY <2>2
  <2> QED BY <2>1, <2>3
<1> HIDE DEF c
<1>10. \A p \in c.ink : p <= maxX
  BY <1>6, <1>9
<1>11. ~c.stop => c.at = 2 + WidthH(text, FontH)
  BY <1>4, <1>7, <1>8, <1>9
<1> QED BY <1>10, <1>11 DEF c

LEMMA TextRight ==
  ASSUME NEW text \in UNION {[1 .. n -> 1 .. 4] : n \in 0 .. 3}
  PROVE  /\ \A height \in 1 .. FontH :
              LET d == DrawTextH(2, text, height)
              IN d.at = 2 + WidthH(text, height) /\ \A p \in d.ink : p <= d.at
         /\ \A maxX \in 2 .. 9 :
              LET c == ClipText(2, maxX, text)
              IN (\A p \in c.ink : p <= maxX) /\ (~c.stop => c.at = 2 + WidthH(text, FontH))
<1>0. PICK S \in {[1 .. n -> 1 .. 4] : n \in 0 .. 3} : text \in S
  OBVIOUS
<1>1. PICK n \in Nat : text \in [1 .. n -> 1 .. 4]
  <2>1. PICK n \in 0 .. 3 : S = [1 .. n -> 1 .. 4]
    OBVIOUS
  <2> QED BY <1>0, <2>1
<1>2. \A maxX \in 2 .. 9 : maxX \in Int
  OBVIOUS
<1> QED BY <1>1, <1>2, TextFits, TextClips

-----------------------------------------------------------------------------
(* The root: how far isqrt_u32 is when the bits above g are found.          *)

Roots == [op : Int, res : Int, one : Int]
Rooted(v, n, g) ==
    \E r \in Nat : /\ v.res = r * g /\ v.op = n - r * r
                   /\ r * r <= n /\ n < (r + g) * (r + g)
                   /\ v.one = (g * g) \div 4

LEMMA DigitIsRoot ==
  ASSUME NEW v \in Roots
  PROVE  Digit(v) \in Roots
<1>1. PICK op \in Int, res \in Int, one \in Int : v = [op |-> op, res |-> res, one |-> one]
  BY DEF Roots
<1>2. v.op = op /\ v.res = res /\ v.one = one
  BY <1>1
<1>3. op - (res + one) \in Int /\ res \div 2 \in Int /\ res \div 2 + one \in Int /\ one \div 4 \in Int
  OBVIOUS
<1> QED BY <1>2, <1>3 DEF Digit, Roots

LEMMA DigitFindsBit ==
  ASSUME NEW v \in Roots, NEW n \in Nat, NEW h \in Nat \ {0}, Rooted(v, n, 2 * h)
  PROVE  Rooted(Digit(v), n, h)
<1>1. PICK r \in Nat : /\ v.res = r * (2 * h) /\ v.op = n - r * r
                       /\ r * r <= n /\ n < (r + 2 * h) * (r + 2 * h)
                       /\ v.one = ((2 * h) * (2 * h)) \div 4
  BY DEF Rooted
<1>2. PICK rh \in Nat, hh \in Nat, rr \in Nat : rh = r * h /\ hh = h * h /\ rr = r * r
  <2>1. r * h \in Nat /\ h * h \in Nat /\ r * r \in Nat
    OBVIOUS
  <2> QED BY <2>1
<1>3. r * (2 * h) = 2 * rh /\ (2 * h) * (2 * h) = 4 * hh
  BY <1>2
<1>4. v.res = 2 * rh /\ v.op = n - rr /\ v.one = hh
  BY <1>1, <1>2, <1>3
<1>5. v.res \div 2 = rh /\ v.one \div 4 = (h * h) \div 4
  BY <1>2, <1>4
<1>6. /\ (r + h) * (r + h) = rr + 2 * rh + hh
      /\ (r + h + h) * (r + h + h) = (r + 2 * h) * (r + 2 * h)
      /\ (r + h) * h = rh + hh
  BY <1>2
<1>7. CASE v.op >= v.res + v.one
  <2>1. Digit(v) = [op |-> v.op - (v.res + v.one), res |-> v.res \div 2 + v.one, one |-> v.one \div 4]
    BY <1>7 DEF Digit
  <2>2. Digit(v).op = n - rr - (2 * rh + hh) /\ Digit(v).res = rh + hh /\ Digit(v).one = (h * h) \div 4
    BY <1>4, <1>5, <2>1
  <2>3. rr + 2 * rh + hh <= n
    BY <1>4, <1>7
  <2>4. PICK q \in Nat : q = r + h
    OBVIOUS
  <2>5. q * q = rr + 2 * rh + hh /\ q * h = rh + hh /\ n < (q + h) * (q + h)
    BY <1>1, <1>6, <2>4
  <2>6. /\ Digit(v).res = q * h /\ Digit(v).op = n - q * q
        /\ q * q <= n /\ n < (q + h) * (q + h)
        /\ Digit(v).one = (h * h) \div 4
    BY <2>2, <2>3, <2>5
  <2> QED BY <2>4, <2>6 DEF Rooted
<1>8. CASE ~(v.op >= v.res + v.one)
  <2>1. Digit(v) = [op |-> v.op, res |-> v.res \div 2, one |-> v.one \div 4]
    BY <1>8 DEF Digit
  <2>2. n < rr + 2 * rh + hh
    BY <1>4, <1>8
  <2>3. /\ Digit(v).res = r * h /\ Digit(v).op = n - r * r
        /\ r * r <= n /\ n < (r + h) * (r + h)
        /\ Digit(v).one = (h * h) \div 4
    BY <1>1, <1>2, <1>4, <1>5, <1>6, <2>1, <2>2
  <2> QED BY <2>3 DEF Rooted
<1> QED BY <1>7, <1>8

\* What is found of the root after so many bit pairs.
Bits == <<65536, 32768, 16384, 8192, 4096, 2048, 1024, 512, 256, 128, 64, 32, 16, 8, 4, 2, 1>>

LEMMA BitsHalve ==
  /\ Bits[1] = 65536 /\ Bits[17] = 1
  /\ \A k \in 1 .. 16 : Bits[k] = 2 * Bits[k + 1] /\ Bits[k + 1] \in Nat \ {0}
<1>1. ASSUME NEW k \in 1 .. 16 PROVE Bits[k] = 2 * Bits[k + 1] /\ Bits[k + 1] \in Nat \ {0}
  <2>1. \/ k = 1 \/ k = 2 \/ k = 3 \/ k = 4 \/ k = 5 \/ k = 6 \/ k = 7 \/ k = 8 \/ k = 9 \/ k = 10
        \/ k = 11 \/ k = 12 \/ k = 13 \/ k = 14 \/ k = 15 \/ k = 16
    OBVIOUS
  <2>2. CASE k \in 1 .. 8
    BY <2>1, <2>2 DEF Bits
  <2>3. CASE k \in 9 .. 16
    BY <2>1, <2>3 DEF Bits
  <2> QED BY <2>2, <2>3
<1> QED BY <1>1 DEF Bits

LEMMA RootFound ==
  ASSUME NEW n \in Nat, n < 65536 * 65536
  PROVE  RootIsFloor(n) /\ Isqrt(n) \in Nat
<1> DEFINE Start == [op |-> n, res |-> 0, one |-> 1073741824]
           sf == [k \in 1 .. 16 |-> [v \in Roots |-> Digit(v)]]
           Solves(s) == s = [k \in 0 .. 16 |-> IF k = 0 THEN Start ELSE Digit(s[k - 1])]
           u == CHOOSE s : Solves(s)
<1>1. Start \in Roots
  BY DEF Roots
<1>2. Looping(Roots, Start, 16, sf)
  <2>1. \A k \in 1 .. 16 : [v \in Roots |-> Digit(v)] \in [Roots -> Roots]
    BY DigitIsRoot
  <2>2. sf \in [1 .. 16 -> [Roots -> Roots]]
    BY <2>1
  <2> QED BY <1>1, <2>2 DEF Looping
<1> HIDE DEF sf, Start
<1>3. PICK f : Loops(f, Roots, Start, 16, sf)
  BY <1>2, LoopEnds
<1>4. Solves(f)
  <2>1. \A k \in 0 .. 16 : k = 0 \/ k \in 1 .. 16
    OBVIOUS
  <2>2. ASSUME NEW k \in 1 .. 16 PROVE f[k] = Digit(f[k - 1])
    <3>1. k - 1 \in 0 .. 16
      OBVIOUS
    <3>2. f[k - 1] \in Roots /\ f[k] = sf[k][f[k - 1]]
      BY <1>3, <3>1 DEF Loops
    <3> QED BY <3>2 DEF sf
  <2> QED BY <1>3, <2>1, <2>2 DEF Loops
<1>5. Solves(u)
  BY <1>4
<1>6. Isqrt(n) = u[16].res
  BY DEF Isqrt, Start
<1> HIDE DEF u
<1>7. u[0] = Start /\ \A k \in 1 .. 16 : u[k] = Digit(u[k - 1])
  <2>1. 0 \in 0 .. 16 /\ \A k \in 1 .. 16 : k \in 0 .. 16 /\ k # 0
    OBVIOUS
  <2> QED BY <1>5, <2>1
<1> DEFINE T == {k \in 0 .. 16 : u[k] \in Roots /\ Rooted(u[k], n, Bits[k + 1])}
<1>8. 0 \in T
  <2>1. Start.op = n /\ Start.res = 0 /\ Start.one = 1073741824
    BY DEF Start
  <2>2. Bits[0 + 1] = 65536
    BY BitsHalve
  <2>3. Rooted(Start, n, 65536)
    <3>1. /\ Start.res = 0 * 65536 /\ Start.op = n - 0 * 0
          /\ 0 * 0 <= n /\ n < (0 + 65536) * (0 + 65536)
          /\ Start.one = (65536 * 65536) \div 4
      BY <2>1
    <3>2. 0 \in Nat
      OBVIOUS
    <3> QED BY <3>1, <3>2 DEF Rooted
  <2>4. u[0] \in Roots /\ Rooted(u[0], n, Bits[0 + 1])
    BY <1>1, <1>7, <2>2, <2>3
  <2> QED BY <2>4
<1>9. ASSUME NEW k \in 1 .. 16, k - 1 \in T PROVE k \in T
  <2>1. u[k - 1] \in Roots /\ Rooted(u[k - 1], n, Bits[(k - 1) + 1])
    BY <1>9
  <2>2. (k - 1) + 1 = k /\ Bits[k] = 2 * Bits[k + 1] /\ Bits[k + 1] \in Nat \ {0}
    BY BitsHalve
  <2>3. PICK h \in Nat \ {0} : h = Bits[k + 1]
    BY <2>2
  <2>4. Rooted(u[k - 1], n, 2 * h)
    BY <2>1, <2>2, <2>3
  <2>5. Rooted(Digit(u[k - 1]), n, h) /\ Digit(u[k - 1]) \in Roots
    BY <2>1, <2>4, DigitFindsBit, DigitIsRoot
  <2>6. u[k] \in Roots /\ Rooted(u[k], n, Bits[k + 1])
    BY <1>7, <2>3, <2>5
  <2> QED BY <2>6
<1> HIDE DEF T
<1>10. \A k \in 0 .. 16 : k \in T
  BY <1>8, <1>9, UpTo
<1>11. Rooted(u[16], n, 1)
  <2>1. 16 \in T /\ Bits[16 + 1] = 1
    BY <1>10, BitsHalve
  <2> QED BY <2>1 DEF T
<1>12. PICK r \in Nat : u[16].res = r * 1 /\ r * r <= n /\ n < (r + 1) * (r + 1)
  BY <1>11 DEF Rooted
<1>13. Isqrt(n) = r
  BY <1>6, <1>12
<1> QED BY <1>12, <1>13 DEF RootIsFloor

-----------------------------------------------------------------------------
(* Rounded boxes *)

RoundBoxes == [kind : {"box"}, x : Nat, y : Nat, w : Nat, h : Nat, rad : Nat]
Rounded(b) == b \in RoundBoxes /\ 2 * b.rad <= b.w /\ 2 * b.rad <= b.h

LEMMA RootOfNothing == Isqrt(0) = 0
<1>1. RootIsFloor(0) /\ Isqrt(0) \in Nat
  BY RootFound
<1>2. PICK r \in Nat : r = Isqrt(0)
  BY <1>1
<1>3. r * r <= 0
  BY <1>1, <1>2 DEF RootIsFloor
<1>4. ASSUME r >= 1 PROVE FALSE
  <2>1. 1 * r <= r * r
    BY <1>4, Times
  <2> QED BY <1>3, <1>4, <2>1
<1> QED BY <1>2, <1>4

LEMMA Inward ==
  ASSUME NEW a \in Int, NEW x \in Int, NEW w \in Int, NEW rad \in Int, NEW m \in Int,
         2 * rad <= w, 256 * (a - x) + 128 >= rad * 256 + m,
         256 * (a - x) + 128 <= 256 * w - rad * 256 - m
  PROVE  Beyond(a, x, w, rad) \in Int /\ Beyond(a, x, w, rad) <= 0 - m
<1>1. w * 128 - rad * 256 >= 0
  OBVIOUS
<1>2. Large(w * 128 - rad * 256, 0) = w * 128 - rad * 256
  BY <1>1 DEF Large
<1>3. PICK c \in Int : c = a * 256 + 128 - (x * 256 + w * 128)
  OBVIOUS
<1>4. c <= w * 128 - rad * 256 - m /\ 0 - c <= w * 128 - rad * 256 - m
  BY <1>3
<1>5. Abs(c) \in Int /\ Abs(c) <= w * 128 - rad * 256 - m
  BY <1>4 DEF Abs
<1>6. PICK d \in Int : d = Abs(c)
  BY <1>5
<1> QED BY <1>2, <1>3, <1>5, <1>6 DEF Beyond

\* A pixel whose centre is m or more inside both pairs of edges, the corners apart.
LEMMA InsideIsFull ==
  ASSUME NEW b, Rounded(b), NEW p \in Int \X Int,
         NEW m \in Int, 128 <= m + b.rad * 256, 0 <= m,
         256 * (p[1] - b.x) + 128 >= b.rad * 256 + m,
         256 * (p[1] - b.x) + 128 <= 256 * b.w - b.rad * 256 - m,
         256 * (p[2] - b.y) + 128 >= b.rad * 256 + m,
         256 * (p[2] - b.y) + 128 <= 256 * b.h - b.rad * 256 - m
  PROVE  Shade(b, p) = 255
<1> DEFINE qx == Beyond(p[1], b.x, b.w, b.rad)
           qy == Beyond(p[2], b.y, b.h, b.rad)
           ox == Large(qx, 0)
           oy == Large(qy, 0)
<1>1. /\ b.x \in Nat /\ b.y \in Nat /\ b.w \in Nat /\ b.h \in Nat /\ b.rad \in Nat
      /\ 2 * b.rad <= b.w /\ 2 * b.rad <= b.h
  BY DEF Rounded, RoundBoxes
<1>2. p[1] \in Int /\ p[2] \in Int
  OBVIOUS
<1>3. Sdf(p[1], p[2], b) = Isqrt(ox * ox + oy * oy) + Small(Large(qx, qy), 0) - b.rad * 256
  BY DEF Sdf
<1>4. qx \in Int /\ qx <= 0 - m
  <2>1. p[1] \in Int /\ b.x \in Int /\ b.w \in Int /\ b.rad \in Int /\ 2 * b.rad <= b.w
    BY <1>1, <1>2
  <2>2. PICK a \in Int, x \in Int, w \in Int, r \in Int : a = p[1] /\ x = b.x /\ w = b.w /\ r = b.rad
    BY <2>1
  <2>3. /\ 2 * r <= w /\ 256 * (a - x) + 128 >= r * 256 + m
        /\ 256 * (a - x) + 128 <= 256 * w - r * 256 - m
    BY <2>1, <2>2
  <2>4. Beyond(a, x, w, r) \in Int /\ Beyond(a, x, w, r) <= 0 - m
    BY <2>3, Inward
  <2> QED BY <2>2, <2>4
<1>5. qy \in Int /\ qy <= 0 - m
  <2>1. p[2] \in Int /\ b.y \in Int /\ b.h \in Int /\ b.rad \in Int /\ 2 * b.rad <= b.h
    BY <1>1, <1>2
  <2>2. PICK a \in Int, x \in Int, w \in Int, r \in Int : a = p[2] /\ x = b.y /\ w = b.h /\ r = b.rad
    BY <2>1
  <2>3. /\ 2 * r <= w /\ 256 * (a - x) + 128 >= r * 256 + m
        /\ 256 * (a - x) + 128 <= 256 * w - r * 256 - m
    BY <2>1, <2>2
  <2>4. Beyond(a, x, w, r) \in Int /\ Beyond(a, x, w, r) <= 0 - m
    BY <2>3, Inward
  <2> QED BY <2>2, <2>4
<1> HIDE DEF qx, qy
<1>6. ox = 0 /\ oy = 0
  BY <1>4, <1>5 DEF Large
<1>7. Isqrt(ox * ox + oy * oy) = 0
  <2>1. ox * ox + oy * oy = 0
    BY <1>6
  <2> QED BY <2>1, RootOfNothing
<1>8. Small(Large(qx, qy), 0) \in Int /\ Small(Large(qx, qy), 0) <= 0 - m
  BY <1>4, <1>5 DEF Small, Large
<1> HIDE DEF ox, oy
<1>9. PICK d \in Int : d = Small(Large(qx, qy), 0)
  BY <1>8
<1>10. Sdf(p[1], p[2], b) = 0 + d - b.rad * 256
  BY <1>3, <1>7, <1>9
<1>11. PICK e \in Int : e = Sdf(p[1], p[2], b)
  BY <1>1, <1>10
<1>12. e <= -128
  BY <1>1, <1>8, <1>9, <1>10, <1>11
<1> QED BY <1>11, <1>12 DEF Shade, CoverFromD88

LEMMA InArea ==
  ASSUME NEW x0 \in Int, NEW y0 \in Int, NEW x1 \in Int, NEW y1 \in Int, NEW p
  PROVE  p \in Area(x0, y0, x1, y1) <=>
           /\ p \in Int \X Int
           /\ x0 <= p[1] /\ 0 <= p[1] /\ p[1] < x1 /\ p[1] < ScreenW
           /\ y0 <= p[2] /\ 0 <= p[2] /\ p[2] < y1 /\ p[2] < ScreenH
<1>1. ScreenW \in Nat /\ ScreenH \in Nat
  BY RasterAssumption
<1>2. \A a \in Int : a \in Large(x0, 0) .. (Small(x1, ScreenW) - 1) <=>
                       x0 <= a /\ 0 <= a /\ a < x1 /\ a < ScreenW
  BY <1>1 DEF Large, Small
<1>3. \A a \in Int : a \in Large(y0, 0) .. (Small(y1, ScreenH) - 1) <=>
                       y0 <= a /\ 0 <= a /\ a < y1 /\ a < ScreenH
  BY <1>1 DEF Large, Small
<1> DEFINE I == Large(x0, 0) .. (Small(x1, ScreenW) - 1)
           J == Large(y0, 0) .. (Small(y1, ScreenH) - 1)
<1>4. I \subseteq Int /\ J \subseteq Int
  OBVIOUS
<1>5. Area(x0, y0, x1, y1) = I \X J
  BY DEF Area
<1> HIDE DEF I, J
<1>6. p \in I \X J <=> p \in Int \X Int /\ p[1] \in I /\ p[2] \in J
  BY <1>4
<1>7. p \in Int \X Int => p[1] \in Int /\ p[2] \in Int
  OBVIOUS
<1> QED BY <1>2, <1>3, <1>5, <1>6, <1>7 DEF I, J

\* Passes that shade areas which lie apart and make up the box.
Parted(b, n, passes, areas) ==
    /\ n \in Nat /\ Len(passes) = n
    /\ \A i \in 1 .. n : passes[i] = Shaded(b, areas[i])
    /\ \A i, j \in 1 .. n : i # j => areas[i] \cap areas[j] = {}
    /\ \A p : p \in Area(b.x, b.y, b.x + b.w, b.y + b.h) <=> \E i \in 1 .. n : p \in areas[i]

LEMMA OnceEach ==
  ASSUME NEW b, NEW n, NEW passes, NEW areas, Parted(b, n, passes, areas)
  PROVE  Once(passes, b)
<1>0. /\ n \in Nat /\ Len(passes) = n
      /\ \A i \in 1 .. n : passes[i] = Shaded(b, areas[i])
      /\ \A i, j \in 1 .. n : i # j => areas[i] \cap areas[j] = {}
      /\ \A p : p \in Area(b.x, b.y, b.x + b.w, b.y + b.h) <=> \E i \in 1 .. n : p \in areas[i]
  BY DEF Parted
<1>1. ASSUME NEW i \in 1 .. n PROVE {q[1] : q \in passes[i]} = areas[i]
  <2>1. \A p \in areas[i] : <<p, Shade(b, p)>>[1] = p
    OBVIOUS
  <2>2. \A q \in Shaded(b, areas[i]) : q[1] \in areas[i]
    BY <1>0 DEF Shaded
  <2>3. ASSUME NEW p \in areas[i] PROVE \E q \in Shaded(b, areas[i]) : q[1] = p
    <3>1. <<p, Shade(b, p)>> \in Shaded(b, areas[i])
      BY DEF Shaded
    <3> QED BY <2>1, <3>1
  <2> QED BY <1>0, <2>2, <2>3
<1>2. \A i, j \in 1 .. n : i # j => {q[1] : q \in passes[i]} \cap {q[1] : q \in passes[j]} = {}
  BY <1>0, <1>1
<1>3. UNION {passes[i] : i \in 1 .. n} = Shaded(b, Area(b.x, b.y, b.x + b.w, b.y + b.h))
  <2>1. ASSUME NEW i \in 1 .. n, NEW q \in passes[i]
        PROVE  q \in Shaded(b, Area(b.x, b.y, b.x + b.w, b.y + b.h))
    <3>1. PICK p \in areas[i] : q = <<p, Shade(b, p)>>
      BY <1>0, <2>1 DEF Shaded
    <3> QED BY <1>0, <3>1 DEF Shaded
  <2>2. ASSUME NEW q \in Shaded(b, Area(b.x, b.y, b.x + b.w, b.y + b.h))
        PROVE  \E i \in 1 .. n : q \in passes[i]
    <3>1. PICK p \in Area(b.x, b.y, b.x + b.w, b.y + b.h) : q = <<p, Shade(b, p)>>
      BY DEF Shaded
    <3>2. PICK i \in 1 .. n : p \in areas[i]
      BY <1>0, <3>1
    <3>3. q \in Shaded(b, areas[i])
      BY <3>1, <3>2 DEF Shaded
    <3> QED BY <1>0, <3>3
  <2> QED BY <2>1, <2>2
<1> QED BY <1>0, <1>2, <1>3 DEF Once

LEMMA RadiusFits ==
  ASSUME NEW w \in Nat \ {0}, NEW h \in Nat \ {0}, NEW r \in Nat
  PROVE  /\ ClampRad(w, h, r) \in Nat
         /\ 2 * ClampRad(w, h, r) <= w /\ 2 * ClampRad(w, h, r) <= h
<1>1. PICK m \in Nat : m = Small(w, h) /\ m <= w /\ m <= h
  BY DEF Small
<1>2. PICK q \in Nat : q = m \div 2
  BY <1>1
<1>3. 2 * q <= m
  BY <1>1, <1>2
<1>4. ClampRad(w, h, r) = IF r * 2 > m THEN q ELSE r
  BY <1>1, <1>2 DEF ClampRad
<1> QED BY <1>1, <1>2, <1>3, <1>4

LEMMA FilledIsShaded ==
  ASSUME NEW b, NEW area, \A p \in area : Shade(b, p) = 255
  PROVE  Filled(area) = Shaded(b, area)
BY DEF Filled, Shaded

LEMMA BandIsShaded ==
  ASSUME NEW b, Rounded(b), NEW x0 \in Int, NEW y0 \in Int, NEW x1 \in Int, NEW y1 \in Int,
         b.x <= x0, b.y <= y0, x1 <= b.x + b.w, y1 <= b.y + b.h
  PROVE  BlendBand(b, x0, y0, x1, y1) = Shaded(b, Area(x0, y0, x1, y1))
<1>1. b.x \in Int /\ b.y \in Int /\ b.w \in Int /\ b.h \in Int
  BY DEF Rounded, RoundBoxes
<1>2. Large(x0, b.x) = x0 /\ Large(y0, b.y) = y0
  BY <1>1 DEF Large
<1>3. Small(x1, b.x + b.w) = x1 /\ Small(y1, b.y + b.h) = y1
  <2>1. PICK u \in Int, v \in Int : u = b.x + b.w /\ v = b.y + b.h
    BY <1>1
  <2> QED BY <2>1 DEF Small
<1> QED BY <1>2, <1>3 DEF BlendBand

\* The inside of a box, where a fill needs no distance.
LEMMA InsideShaded ==
  ASSUME NEW b, Rounded(b)
  PROVE  LET area == Area(b.x + b.rad + 1, b.y + b.rad + 1, (b.x + b.w) - b.rad - 1, (b.y + b.h) - b.rad - 1)
         IN Filled(area) = Shaded(b, area)
<1> DEFINE area == Area(b.x + b.rad + 1, b.y + b.rad + 1, (b.x + b.w) - b.rad - 1, (b.y + b.h) - b.rad - 1)
<1>1. b.x \in Nat /\ b.y \in Nat /\ b.w \in Nat /\ b.h \in Nat /\ b.rad \in Nat
  BY DEF Rounded, RoundBoxes
<1>2. ASSUME NEW p \in area PROVE Shade(b, p) = 255
  <2>1. /\ p \in Int \X Int
        /\ b.x + b.rad + 1 <= p[1] /\ p[1] < (b.x + b.w) - b.rad - 1
        /\ b.y + b.rad + 1 <= p[2] /\ p[2] < (b.y + b.h) - b.rad - 1
    <3>1. /\ b.x + b.rad + 1 \in Int /\ b.y + b.rad + 1 \in Int
          /\ (b.x + b.w) - b.rad - 1 \in Int /\ (b.y + b.h) - b.rad - 1 \in Int
      BY <1>1
    <3> QED BY <3>1, InArea
  <2>2. p[1] \in Int /\ p[2] \in Int
    BY <2>1
  <2>3. PICK m \in Int : m = 384
    OBVIOUS
  <2>4. /\ 128 <= m + b.rad * 256 /\ 0 <= m
        /\ 256 * (p[1] - b.x) + 128 >= b.rad * 256 + m
        /\ 256 * (p[1] - b.x) + 128 <= 256 * b.w - b.rad * 256 - m
        /\ 256 * (p[2] - b.y) + 128 >= b.rad * 256 + m
        /\ 256 * (p[2] - b.y) + 128 <= 256 * b.h - b.rad * 256 - m
    BY <1>1, <2>1, <2>2, <2>3
  <2> QED BY <2>1, <2>4, InsideIsFull
<1> HIDE DEF area
<1>3. Filled(area) = Shaded(b, area)
  BY <1>2, FilledIsShaded
<1> QED BY <1>3 DEF area

\* Without corners all of a box is inside.
LEMMA SquareShaded ==
  ASSUME NEW b, Rounded(b), b.rad = 0
  PROVE  Filled(Area(b.x, b.y, b.x + b.w, b.y + b.h)) = Shaded(b, Area(b.x, b.y, b.x + b.w, b.y + b.h))
<1> DEFINE area == Area(b.x, b.y, b.x + b.w, b.y + b.h)
<1>1. b.x \in Nat /\ b.y \in Nat /\ b.w \in Nat /\ b.h \in Nat /\ b.rad \in Nat
  BY DEF Rounded, RoundBoxes
<1>2. ASSUME NEW p \in area PROVE Shade(b, p) = 255
  <2>1. /\ p \in Int \X Int /\ b.x <= p[1] /\ p[1] < b.x + b.w /\ b.y <= p[2] /\ p[2] < b.y + b.h
    <3>1. b.x \in Int /\ b.y \in Int /\ b.x + b.w \in Int /\ b.y + b.h \in Int
      BY <1>1
    <3> QED BY <3>1, InArea
  <2>2. p[1] \in Int /\ p[2] \in Int
    BY <2>1
  <2>3. PICK m \in Int : m = 128
    OBVIOUS
  <2>4. /\ 128 <= m + b.rad * 256 /\ 0 <= m
        /\ 256 * (p[1] - b.x) + 128 >= b.rad * 256 + m
        /\ 256 * (p[1] - b.x) + 128 <= 256 * b.w - b.rad * 256 - m
        /\ 256 * (p[2] - b.y) + 128 >= b.rad * 256 + m
        /\ 256 * (p[2] - b.y) + 128 <= 256 * b.h - b.rad * 256 - m
    BY <1>1, <2>1, <2>2, <2>3
  <2> QED BY <2>1, <2>4, InsideIsFull
<1> HIDE DEF area
<1>3. Filled(area) = Shaded(b, area)
  BY <1>2, FilledIsShaded
<1> QED BY <1>3 DEF area

LEMMA OneArea ==
  ASSUME NEW b
  PROVE  Once(<< Shaded(b, Area(b.x, b.y, b.x + b.w, b.y + b.h)) >>, b)
<1> DEFINE passes == << Shaded(b, Area(b.x, b.y, b.x + b.w, b.y + b.h)) >>
           areas == << Area(b.x, b.y, b.x + b.w, b.y + b.h) >>
<1>1. Len(passes) = 1 /\ 1 \in Nat
  OBVIOUS
<1>2. \A i \in 1 .. 1 : passes[i] = Shaded(b, areas[i])
  OBVIOUS
<1>3. \A i, j \in 1 .. 1 : i # j => areas[i] \cap areas[j] = {}
  OBVIOUS
<1>4. \A p : p \in Area(b.x, b.y, b.x + b.w, b.y + b.h) <=> \E i \in 1 .. 1 : p \in areas[i]
  OBVIOUS
<1> HIDE DEF passes, areas
<1>5. Once(passes, b)
  <2>1. Parted(b, 1, passes, areas)
    BY <1>1, <1>2, <1>3, <1>4 DEF Parted
  <2> QED BY <2>1, OnceEach
<1> QED BY <1>5 DEF passes

LEMMA GlassOnce ==
  ASSUME NEW b, Rounded(b)
  PROVE  Once(Glass(b), b)
<1> DEFINE ix == b.x + b.rad + 1
           iy == b.y + b.rad + 1
           ix1 == (b.x + b.w) - b.rad - 1
           iy1 == (b.y + b.h) - b.rad - 1
           whole == Area(b.x, b.y, b.x + b.w, b.y + b.h)
           inside == IF ix1 > ix /\ iy1 > iy THEN Area(ix, iy, ix1, iy1) ELSE {}
           passes == << Filled(inside), Shaded(b, whole \ inside) >>
           areas == << inside, whole \ inside >>
<1>1. b.x \in Nat /\ b.y \in Nat /\ b.w \in Nat /\ b.h \in Nat /\ b.rad \in Nat
  BY DEF Rounded, RoundBoxes
<1>2. Glass(b) = passes
  BY Zenon DEF Glass
<1>3. inside \subseteq whole
  <2>1. /\ ix \in Int /\ iy \in Int /\ ix1 \in Int /\ iy1 \in Int
        /\ b.x \in Int /\ b.y \in Int /\ b.x + b.w \in Int /\ b.y + b.h \in Int
        /\ b.x <= ix /\ b.y <= iy /\ ix1 <= b.x + b.w /\ iy1 <= b.y + b.h
    BY <1>1
  <2> HIDE DEF ix, iy, ix1, iy1
  <2>2. ASSUME NEW p \in Area(ix, iy, ix1, iy1) PROVE p \in whole
    <3>1. /\ p \in Int \X Int
          /\ ix <= p[1] /\ 0 <= p[1] /\ p[1] < ix1 /\ p[1] < ScreenW
          /\ iy <= p[2] /\ 0 <= p[2] /\ p[2] < iy1 /\ p[2] < ScreenH
      BY <2>1, InArea
    <3>2. p[1] \in Int /\ p[2] \in Int
      BY <3>1
    <3>3. b.x <= p[1] /\ p[1] < b.x + b.w /\ b.y <= p[2] /\ p[2] < b.y + b.h
      BY <2>1, <3>1, <3>2
    <3> QED BY <2>1, <3>1, <3>3, InArea
  <2> QED BY <2>2
<1>4. Filled(inside) = Shaded(b, inside)
  <2>1. CASE ix1 > ix /\ iy1 > iy
    BY <2>1, InsideShaded
  <2>2. CASE ~(ix1 > ix /\ iy1 > iy)
    BY <2>2 DEF Filled, Shaded
  <2> QED BY <2>1, <2>2
<1> HIDE DEF inside, whole
<1>5. Len(passes) = 2 /\ 2 \in Nat
  OBVIOUS
<1>6. \A i \in 1 .. 2 : passes[i] = Shaded(b, areas[i])
  BY <1>4
<1>7. \A i, j \in 1 .. 2 : i # j => areas[i] \cap areas[j] = {}
  OBVIOUS
<1>8. \A p : p \in whole <=> \E i \in 1 .. 2 : p \in areas[i]
  <2>1. areas[1] = inside /\ areas[2] = whole \ inside /\ 1 \in 1 .. 2 /\ 2 \in 1 .. 2
    OBVIOUS
  <2>2. \A i \in 1 .. 2 : i = 1 \/ i = 2
    OBVIOUS
  <2> HIDE DEF areas
  <2> QED BY <1>3, <2>1, <2>2
<1> HIDE DEF passes, areas
<1>9. Once(passes, b)
  <2>1. Parted(b, 2, passes, areas)
    BY <1>5, <1>6, <1>7, <1>8 DEF Parted, whole
  <2> QED BY <2>1, OnceEach
<1> QED BY <1>2, <1>9

LEMMA RoundFillOnce ==
  ASSUME NEW b, Rounded(b)
  PROVE  Once(RoundFill(b), b)
<1> DEFINE x1 == b.x + b.w
           y1 == b.y + b.h
           ix == b.x + b.rad + 1
           iy == b.y + b.rad + 1
           ix1 == (b.x + b.w) - b.rad - 1
           iy1 == (b.y + b.h) - b.rad - 1
           whole == Area(b.x, b.y, x1, y1)
<1>1. b.x \in Nat /\ b.y \in Nat /\ b.w \in Nat /\ b.h \in Nat /\ b.rad \in Nat
  BY DEF Rounded, RoundBoxes
<1>2. /\ ix \in Int /\ iy \in Int /\ ix1 \in Int /\ iy1 \in Int
      /\ b.x \in Int /\ b.y \in Int /\ x1 \in Int /\ y1 \in Int
      /\ b.x <= ix /\ b.y <= iy /\ ix1 <= x1 /\ iy1 <= y1 /\ b.x <= x1 /\ b.y <= y1
  BY <1>1
<1>3. CASE b.rad = 0
  <2>1. RoundFill(b) = << Shaded(b, whole) >>
    BY <1>3, SquareShaded DEF RoundFill
  <2> QED BY <2>1, OneArea
<1>4. CASE b.rad # 0 /\ ~(ix1 > ix /\ iy1 > iy)
  <2>1. RoundFill(b) = << BlendBand(b, b.x, b.y, x1, y1) >>
    BY <1>4, Zenon DEF RoundFill
  <2>2. BlendBand(b, b.x, b.y, x1, y1) = Shaded(b, whole)
    BY <1>2, BandIsShaded
  <2> QED BY <2>1, <2>2, OneArea
<1>5. CASE b.rad # 0 /\ ix1 > ix /\ iy1 > iy
  <2> DEFINE in == Area(ix, iy, ix1, iy1)
             top == Area(b.x, b.y, x1, iy)
             bottom == Area(b.x, iy1, x1, y1)
             left == Area(b.x, iy, ix, iy1)
             right == Area(ix1, iy, x1, iy1)
             areas == << in, top, bottom, left, right >>
             passes == << Filled(in), BlendBand(b, b.x, b.y, x1, iy), BlendBand(b, b.x, iy1, x1, y1),
                          BlendBand(b, b.x, iy, ix, iy1), BlendBand(b, ix1, iy, x1, iy1) >>
  <2>1. RoundFill(b) = passes
    BY <1>5, Zenon DEF RoundFill
  <2>2. Filled(in) = Shaded(b, in)
    BY InsideShaded
  <2>3. iy <= y1 /\ ix <= x1 /\ b.x <= ix1 /\ b.y <= iy1
    BY <1>2, <1>5
  <2> HIDE DEF x1, y1, ix, iy, ix1, iy1
  <2>4. /\ BlendBand(b, b.x, b.y, x1, iy) = Shaded(b, top)
        /\ BlendBand(b, b.x, iy1, x1, y1) = Shaded(b, bottom)
        /\ BlendBand(b, b.x, iy, ix, iy1) = Shaded(b, left)
        /\ BlendBand(b, ix1, iy, x1, iy1) = Shaded(b, right)
    <3>1. x1 <= b.x + b.w /\ y1 <= b.y + b.h
      BY <1>2 DEF x1, y1
    <3>2. iy <= b.y + b.h /\ ix <= b.x + b.w /\ iy1 <= b.y + b.h
      BY <1>2, <2>3 DEF x1, y1
    <3>3. BlendBand(b, b.x, b.y, x1, iy) = Shaded(b, top)
      BY <1>2, <3>1, <3>2, BandIsShaded
    <3>4. BlendBand(b, b.x, iy1, x1, y1) = Shaded(b, bottom)
      BY <1>2, <2>3, <3>1, <3>2, BandIsShaded
    <3>5. BlendBand(b, b.x, iy, ix, iy1) = Shaded(b, left)
      BY <1>2, <3>1, <3>2, BandIsShaded
    <3>6. BlendBand(b, ix1, iy, x1, iy1) = Shaded(b, right)
      BY <1>2, <2>3, <3>1, <3>2, BandIsShaded
    <3> QED BY <3>3, <3>4, <3>5, <3>6
  \* Which of the passes has a pixel.
  <2> DEFINE at == [p \in Int \X Int |-> IF p[2] < iy THEN 2 ELSE IF p[2] >= iy1 THEN 3
                                         ELSE IF p[1] < ix THEN 4 ELSE IF p[1] >= ix1 THEN 5 ELSE 1]
  <2>5. ASSUME NEW p \in Int \X Int
        PROVE  /\ p \in in <=> p \in whole /\ at[p] = 1
               /\ p \in top <=> p \in whole /\ at[p] = 2
               /\ p \in bottom <=> p \in whole /\ at[p] = 3
               /\ p \in left <=> p \in whole /\ at[p] = 4
               /\ p \in right <=> p \in whole /\ at[p] = 5
               /\ at[p] \in 1 .. 5
    <3>1. PICK c \in Int, d \in Int : c = p[1] /\ d = p[2]
      OBVIOUS
    <3>2. at[p] = IF d < iy THEN 2 ELSE IF d >= iy1 THEN 3
                  ELSE IF c < ix THEN 4 ELSE IF c >= ix1 THEN 5 ELSE 1
      BY <3>1
    <3>3. p \in whole <=> /\ b.x <= c /\ 0 <= c /\ c < x1 /\ c < ScreenW
                          /\ b.y <= d /\ 0 <= d /\ d < y1 /\ d < ScreenH
      BY <1>2, <3>1, InArea
    <3>4. p \in in <=> /\ ix <= c /\ 0 <= c /\ c < ix1 /\ c < ScreenW
                       /\ iy <= d /\ 0 <= d /\ d < iy1 /\ d < ScreenH
      BY <1>2, <3>1, InArea
    <3>5. p \in top <=> /\ b.x <= c /\ 0 <= c /\ c < x1 /\ c < ScreenW
                        /\ b.y <= d /\ 0 <= d /\ d < iy /\ d < ScreenH
      BY <1>2, <3>1, InArea
    <3>6. p \in bottom <=> /\ b.x <= c /\ 0 <= c /\ c < x1 /\ c < ScreenW
                           /\ iy1 <= d /\ 0 <= d /\ d < y1 /\ d < ScreenH
      BY <1>2, <3>1, InArea
    <3>7. p \in left <=> /\ b.x <= c /\ 0 <= c /\ c < ix /\ c < ScreenW
                         /\ iy <= d /\ 0 <= d /\ d < iy1 /\ d < ScreenH
      BY <1>2, <3>1, InArea
    <3>8. p \in right <=> /\ ix1 <= c /\ 0 <= c /\ c < x1 /\ c < ScreenW
                          /\ iy <= d /\ 0 <= d /\ d < iy1 /\ d < ScreenH
      BY <1>2, <3>1, InArea
    <3> HIDE DEF at, whole, in, top, bottom, left, right
    <3>9. PICK k \in 1 .. 5 : k = at[p]
      BY <3>2
    <3>10. k = IF d < iy THEN 2 ELSE IF d >= iy1 THEN 3
               ELSE IF c < ix THEN 4 ELSE IF c >= ix1 THEN 5 ELSE 1
      BY <3>2, <3>9
    <3>11. p \in in <=> p \in whole /\ k = 1
      BY <1>2, <1>5, <2>3, <3>3, <3>4, <3>10
    <3>12. p \in top <=> p \in whole /\ k = 2
      BY <1>2, <1>5, <2>3, <3>3, <3>5, <3>10
    <3>13. p \in bottom <=> p \in whole /\ k = 3
      BY <1>2, <1>5, <2>3, <3>3, <3>6, <3>10
    <3>14. p \in left <=> p \in whole /\ k = 4
      BY <1>2, <1>5, <2>3, <3>3, <3>7, <3>10
    <3>15. p \in right <=> p \in whole /\ k = 5
      BY <1>2, <1>5, <2>3, <3>3, <3>8, <3>10
    <3> QED BY <3>9, <3>11, <3>12, <3>13, <3>14, <3>15
  <2>6. \A p : (p \in whole \/ p \in in \/ p \in top \/ p \in bottom \/ p \in left \/ p \in right)
               => p \in Int \X Int
    BY <1>2, InArea
  <2> HIDE DEF at, whole, in, top, bottom, left, right
  <2>7. /\ areas[1] = in /\ areas[2] = top /\ areas[3] = bottom /\ areas[4] = left /\ areas[5] = right
        /\ Len(passes) = 5 /\ 5 \in Nat
    OBVIOUS
  <2>8. \A i \in 1 .. 5 : passes[i] = Shaded(b, areas[i])
    BY <2>2, <2>4
  <2> HIDE DEF areas, passes
  <2>9. ASSUME NEW i \in 1 .. 5, NEW p PROVE p \in areas[i] <=> p \in Int \X Int /\ p \in whole /\ at[p] = i
    <3>1. i = 1 \/ i = 2 \/ i = 3 \/ i = 4 \/ i = 5
      OBVIOUS
    <3> QED BY <2>5, <2>6, <2>7, <3>1
  <2>10. \A i, j \in 1 .. 5 : i # j => areas[i] \cap areas[j] = {}
    BY <2>9
  <2>11. \A p : p \in whole <=> \E i \in 1 .. 5 : p \in areas[i]
    BY <2>5, <2>6, <2>9
  <2>12. Once(passes, b)
    <3>1. \A p : p \in Area(b.x, b.y, b.x + b.w, b.y + b.h) <=> \E i \in 1 .. 5 : p \in areas[i]
      BY <2>11 DEF whole, x1, y1
    <3>2. Parted(b, 5, passes, areas)
      BY <2>7, <2>8, <2>10, <3>1 DEF Parted
    <3> QED BY <3>2, OnceEach
  <2> QED BY <2>1, <2>12
<1> QED BY <1>3, <1>4, <1>5

LEMMA BoxesRounded == \A b \in Boxed : Rounded(b)
<1> SUFFICES ASSUME NEW b \in Boxed PROVE Rounded(b)
  OBVIOUS
<1>1. PICK x \in 0 .. 2, y \in 0 .. 1, w \in 1 .. MaxSide, h \in 1 .. MaxSide, r \in 0 .. MaxSide \div 2 :
        b = [kind |-> "box", x |-> x, y |-> y, w |-> w, h |-> h, rad |-> ClampRad(w, h, r)]
  BY DEF Boxed
<1>2. MaxSide \in Nat /\ MaxSide \div 2 \in Int
  BY RasterAssumption
<1>3. w \in Nat \ {0} /\ h \in Nat \ {0} /\ r \in Nat /\ x \in Nat /\ y \in Nat
  BY <1>2
<1>4. PICK m \in Nat : m = ClampRad(w, h, r) /\ 2 * m <= w /\ 2 * m <= h
  BY <1>3, RadiusFits
<1>5. b = [kind |-> "box", x |-> x, y |-> y, w |-> w, h |-> h, rad |-> m]
  BY <1>1, <1>4
<1>6. b.rad = m /\ b.w = w /\ b.h = h
  BY <1>5
<1>7. b \in RoundBoxes
  BY <1>3, <1>5 DEF RoundBoxes
<1> QED BY <1>4, <1>6, <1>7 DEF Rounded

-----------------------------------------------------------------------------
(* Bilinear samples *)

LEMMA LerpBetween ==
  ASSUME NEW u \in Nat, NEW v \in Nat, NEW t \in 0 .. 255
  PROVE  Lerp(u, v, t) \in Small(u, v) .. Large(u, v)
<1>1. PICK s \in Nat : s = 256 - t
  <2>1. 256 - t \in Nat
    OBVIOUS
  <2> QED BY <2>1
<1>2. PICK lo \in Nat, hi \in Nat : /\ lo = Small(u, v) /\ hi = Large(u, v)
                                    /\ lo <= u /\ lo <= v /\ u <= hi /\ v <= hi
  BY DEF Small, Large
<1>3. t \in Nat
  OBVIOUS
<1>4. /\ lo * s \in Nat /\ u * s \in Nat /\ hi * s \in Nat /\ lo * s <= u * s /\ u * s <= hi * s
      /\ lo * t \in Nat /\ v * t \in Nat /\ hi * t \in Nat /\ lo * t <= v * t /\ v * t <= hi * t
  BY <1>1, <1>2, <1>3, Times
<1>5. lo * s + lo * t = 256 * lo /\ hi * s + hi * t = 256 * hi
  BY <1>1, <1>2, <1>3
<1>6. PICK a \in Nat : a = u * s + v * t /\ 256 * lo <= a /\ a <= 256 * hi
  BY <1>4, <1>5
<1>7. a < 256 * hi + 256 /\ 256 \in Nat \ {0}
  BY <1>6
<1>8. lo <= a \div 256 /\ a \div 256 <= hi
  BY <1>6, <1>7, DivLeast, DivMost
<1>9. Lerp(u, v, t) = a \div 256 /\ a \div 256 \in Int
  BY <1>1, <1>6 DEF Lerp
<1>10. PICK q \in Int : q = a \div 256
  BY <1>9
<1>11. q \in lo .. hi
  BY <1>8, <1>10
<1> QED BY <1>2, <1>9, <1>10, <1>11

\* The position a pixel is sampled at, in 256ths of a source pixel.
Position(i, n, m) == IF n = 1 THEN 0 ELSE (i * (m - 1) * 256) \div (n - 1)

LEMMA PositionIs ==
  ASSUME NEW n \in Nat \ {0}, NEW m \in Nat \ {0}, NEW i \in 0 .. (n - 1)
  PROVE  /\ Position(i, n, m) \in Nat /\ Position(i, n, m) <= 256 * (m - 1)
         /\ i > 0 => Position(i - 1, n, m) <= Position(i, n, m)
         /\ m = n => Position(i, n, m) = 256 * i
         /\ n > 1 /\ i = n - 1 => Position(i, n, m) = 256 * (m - 1)
<1>1. CASE n = 1
  BY <1>1 DEF Position
<1>2. CASE n # 1
  <2>1. PICK d \in Nat \ {0}, e \in Nat : d = n - 1 /\ e = (m - 1) * 256
    <3>1. n - 1 \in Nat \ {0} /\ (m - 1) * 256 \in Nat
      BY <1>2
    <3> QED BY <3>1
  <2>2. i \in Nat /\ i <= d
    BY <2>1
  <2>3. i * (m - 1) * 256 = i * e
    BY <2>1
  <2>4. PICK a \in Nat : a = i * e
    <3>1. i * e \in Nat
      BY <2>1, <2>2
    <3> QED BY <3>1
  <2>5. Position(i, n, m) = a \div d
    BY <1>2, <2>1, <2>3, <2>4 DEF Position
  <2>6. a \div d \in Nat
    BY <2>1, <2>4, DivIs
  <2>7. a \div d <= e
    <3>1. i * e <= d * e /\ d * e \in Nat
      BY <2>1, <2>2, Times
    <3>2. a < d * e + d
      BY <2>1, <2>4, <3>1
    <3> QED BY <2>1, <2>4, <3>2, DivMost
  <2>8. ASSUME i > 0 PROVE Position(i - 1, n, m) <= a \div d
    <3>1. PICK j \in Nat : j = i - 1
      BY <2>2, <2>8
    <3>2. j <= i /\ j * (m - 1) * 256 = j * e
      BY <2>1, <2>2, <3>1
    <3>3. j * e \in Nat /\ j * e <= i * e
      BY <2>1, <2>2, <3>1, <3>2, Times
    <3>4. Position(j, n, m) = (j * e) \div d
      BY <1>2, <2>1, <3>2 DEF Position
    <3>5. PICK c \in Nat : c = j * e
      BY <3>3
    <3>6. c \div d <= a \div d
      BY <2>1, <2>4, <3>3, <3>5, DivUp
    <3> QED BY <3>1, <3>4, <3>5, <3>6
  <2>9. ASSUME m = n PROVE a \div d = 256 * i
    <3>1. PICK c \in Nat : c = 256 * i
      BY <2>2
    <3>2. a = d * c
      BY <2>1, <2>4, <2>9, <3>1
    <3>3. d * c <= a /\ a < d * c + d
      BY <2>1, <2>4, <3>2
    <3> QED BY <2>1, <2>4, <3>1, <3>3, DivAt
  <2>10. ASSUME i = n - 1 PROVE a \div d = e
    <3>1. a = d * e
      BY <2>1, <2>4, <2>10
    <3>2. d * e <= a /\ a < d * e + d
      BY <2>1, <2>4, <3>1
    <3> QED BY <2>1, <2>4, <3>2, DivAt
  <2>11. e = 256 * (m - 1)
    BY <2>1
  <2>12. PICK q \in Nat : q = a \div d
    BY <2>6
  <2> QED BY <2>5, <2>7, <2>8, <2>9, <2>10, <2>11, <2>12
<1> QED BY <1>1, <1>2

LEMMA SampleIs ==
  ASSUME NEW n \in Nat \ {0}, NEW m \in Nat \ {0}, NEW i \in 0 .. (n - 1)
  PROVE  LET s == Sample(i, n, m)
         IN /\ s.a \in 0 .. (m - 1) /\ s.b \in {s.a, s.a + 1} \cap 0 .. (m - 1) /\ s.t \in 0 .. 255
            /\ i > 0 => Sample(i - 1, n, m).a <= s.a
            /\ m = n => s.a = i /\ s.t = 0
            /\ n > 1 /\ i = n - 1 => s.a = m - 1 /\ s.t = 0
<1> DEFINE s == Sample(i, n, m)
<1>1. PICK f \in Nat : f = Position(i, n, m) /\ f <= 256 * (m - 1)
  BY PositionIs
<1>2. PICK a \in Nat, t \in 0 .. 255 : a = f \div 256 /\ t = f % 256
  <2>1. f \div 256 \in Nat /\ f % 256 \in 0 .. 255
    BY <1>1
  <2> QED BY <2>1
<1>3. s = [a |-> a, b |-> IF a + 1 < m THEN a + 1 ELSE a, t |-> t]
  BY <1>1, <1>2 DEF Sample, Position
<1>4. s.a = a /\ s.b = (IF a + 1 < m THEN a + 1 ELSE a) /\ s.t = t
  BY <1>3
<1>5. a <= m - 1
  BY <1>1, <1>2
<1>6. ASSUME i > 0 PROVE Sample(i - 1, n, m).a <= a
  <2>1. PICK j \in 0 .. (n - 1) : j = i - 1
    BY <1>6
  <2>2. PICK g \in Nat : g = Position(j, n, m)
    BY PositionIs
  <2>3. g <= f
    BY <1>1, <1>6, <2>1, <2>2, PositionIs
  <2>4. g \div 256 <= f \div 256
    BY <1>1, <2>2, <2>3
  <2>5. Sample(j, n, m).a = g \div 256
    BY <2>2 DEF Sample, Position
  <2> QED BY <1>2, <2>1, <2>4, <2>5
<1>7. ASSUME m = n PROVE a = i /\ t = 0
  <2>1. f = 256 * i
    BY <1>1, <1>7, PositionIs
  <2> QED BY <1>2, <2>1
<1>8. ASSUME n > 1, i = n - 1 PROVE a = m - 1 /\ t = 0
  <2>1. f = 256 * (m - 1)
    BY <1>1, <1>8, PositionIs
  <2> QED BY <1>2, <2>1
<1> HIDE DEF s
<1>9. s.a \in 0 .. (m - 1) /\ s.b \in {s.a, s.a + 1} \cap 0 .. (m - 1) /\ s.t \in 0 .. 255
  BY <1>4, <1>5
<1>10. (i > 0 => Sample(i - 1, n, m).a <= s.a) /\ (m = n => s.a = i /\ s.t = 0)
  BY <1>4, <1>6, <1>7
<1>11. n > 1 /\ i = n - 1 => s.a = m - 1 /\ s.t = 0
  BY <1>4, <1>8
<1> QED BY <1>9, <1>10, <1>11 DEF s

-----------------------------------------------------------------------------
(* The blur *)

LEMMA KeptInside ==
  ASSUME NEW i \in Int, NEW w \in Nat \ {0}
  PROVE  /\ Large(Small(i, w - 1), 0) \in 0 .. (w - 1)
         /\ Large(Small((w - 1) - i, w - 1), 0) = (w - 1) - Large(Small(i, w - 1), 0)
BY DEF Large, Small

\* A row of bytes, its last at e.
Bytes(img, e) == img \in [0 .. e -> Nat] /\ \A x \in 0 .. e : img[x] \in 0 .. 255
\* n terms, each of them a pixel of the row.
Pixel(f, n, img, e) == f \in [1 .. n -> Int] /\ \A k \in 1 .. n : \E y \in 0 .. e : f[k] = img[y]

LEMMA AroundIs ==
  ASSUME NEW w \in Nat \ {0}, NEW e, e = w - 1, NEW radius \in Nat, NEW img, Bytes(img, e),
         NEW x \in Int, NEW n, n = 2 * radius + 1
  PROVE  Pixel(Around(img, w, radius, x), n, img, e)
<1>1. ASSUME NEW k \in 1 .. n
      PROVE  Large(Small(x + k - 1 - radius, w - 1), 0) \in 0 .. e
  <2>1. PICK i \in Int : i = x + k - 1 - radius
    OBVIOUS
  <2> QED BY <2>1, KeptInside
<1>2. Around(img, w, radius, x) = [k \in 1 .. n |-> img[Large(Small(x + k - 1 - radius, w - 1), 0)]]
  BY DEF Around
<1>3. \A k \in 1 .. n : Around(img, w, radius, x)[k] = img[Large(Small(x + k - 1 - radius, w - 1), 0)]
  BY <1>2
<1>4. \A y \in 0 .. e : img[y] \in Int
  BY DEF Bytes
<1>5. \A k \in 1 .. n : img[Large(Small(x + k - 1 - radius, w - 1), 0)] \in Int
  BY <1>1, <1>4
<1>6. Around(img, w, radius, x) \in [1 .. n -> Int]
  BY <1>2, <1>5
<1>7. \A k \in 1 .. n : \E y \in 0 .. e : Around(img, w, radius, x)[k] = img[y]
  BY <1>1, <1>3
<1> QED BY <1>6, <1>7 DEF Pixel

\* A row has a darkest and a lightest pixel.
LEMMA Extremes ==
  ASSUME NEW e \in Nat, NEW img, \A x \in 0 .. e : img[x] \in 0 .. 255
  PROVE  \E y, zz \in 0 .. e : \A x \in 0 .. e : img[y] <= img[x] /\ img[x] <= img[zz]
<1>1. PICK y \in 0 .. e : \A x \in 0 .. e : img[y] <= img[x]
  <2> DEFINE V == {img[x] : x \in 0 .. e}
  <2>1. V \in SUBSET Nat
    OBVIOUS
  <2>2. img[0] \in V
    OBVIOUS
  <2>3. PICK v \in V : \A u \in V : v <= u
    <3> HIDE DEF V
    <3>1. V # {}
      BY <2>2
    <3> QED BY <2>1, <3>1, LeastElement
  <2> QED BY <2>3
<1>2. PICK zz \in 0 .. e : \A x \in 0 .. e : 255 - img[zz] <= 255 - img[x]
  <2> DEFINE V == {255 - img[x] : x \in 0 .. e}
  <2>1. V \in SUBSET Nat
    <3>1. ASSUME NEW x \in 0 .. e PROVE 255 - img[x] \in Nat
      <4>1. PICK i \in 0 .. 255 : i = img[x]
        OBVIOUS
      <4> QED BY <4>1
    <3> QED BY <3>1
  <2>2. 255 - img[0] \in V
    OBVIOUS
  <2>3. PICK v \in V : \A u \in V : v <= u
    <3> HIDE DEF V
    <3>1. V # {}
      BY <2>2
    <3> QED BY <2>1, <3>1, LeastElement
  <2> QED BY <2>3
<1>3. ASSUME NEW x \in 0 .. e PROVE img[x] <= img[zz]
  <2>1. PICK i \in 0 .. 255, j \in 0 .. 255 : i = img[x] /\ j = img[zz]
    OBVIOUS
  <2>2. 255 - j <= 255 - i
    BY <1>2, <2>1
  <2> QED BY <2>1, <2>2
<1> QED BY <1>1, <1>3

LEMMA BlurIs ==
  ASSUME NEW w \in Nat \ {0}, NEW e, e = w - 1, NEW radius \in Nat, NEW img, Bytes(img, e),
         NEW x \in 0 .. e, NEW n, n = 2 * radius + 1, NEW f, f = Around(img, w, radius, x)
  PROVE  \E s : Totals(s, 0, n, f) /\ BlurRow(img, w, radius)[x] = s[n] \div n
<1>1. n \in Nat /\ x \in Int
  OBVIOUS
<1>2. f \in [1 .. n -> Int]
  BY <1>1, AroundIs DEF Pixel
<1>3. PICK s : s = Running(0, n, f)
  OBVIOUS
<1>4. Totals(s, 0, n, f)
  BY <1>1, <1>2, <1>3, RunningGives
<1>5. BlurRow(img, w, radius)[x] = s[n] \div n
  BY <1>3 DEF BlurRow
<1> QED BY <1>4, <1>5

LEMMA BlurBetween ==
  ASSUME NEW w \in Nat \ {0}, NEW e \in Nat, e = w - 1, NEW radius \in Nat, NEW img, Bytes(img, e),
         NEW x \in 0 .. e
  PROVE  \E y, zz \in 0 .. e : /\ img[y] <= BlurRow(img, w, radius)[x]
                              /\ BlurRow(img, w, radius)[x] <= img[zz]
<1>1. PICK n \in Nat : n = 2 * radius + 1
  OBVIOUS
<1>2. PICK f : f = Around(img, w, radius, x)
  OBVIOUS
<1>3. PICK s : Totals(s, 0, n, f) /\ BlurRow(img, w, radius)[x] = s[n] \div n
  BY <1>1, <1>2, BlurIs
<1>4. n \in Nat \ {0}
  BY <1>1
<1>5. \A v \in 0 .. e : img[v] \in 0 .. 255
  BY DEF Bytes
<1>6. PICK y \in 0 .. e, zz \in 0 .. e : \A v \in 0 .. e : img[y] <= img[v] /\ img[v] <= img[zz]
  BY <1>5, Extremes
<1>7. PICK lo \in 0 .. 255, hi \in 0 .. 255 : lo = img[y] /\ hi = img[zz]
  BY <1>5
<1>8. \A k \in 1 .. n : f[k] \in lo .. hi
  <2>1. x \in Int
    OBVIOUS
  <2>2. Pixel(f, n, img, e)
    BY <1>1, <1>2, <2>1, AroundIs
  <2>3. ASSUME NEW v \in 0 .. e PROVE img[v] \in lo .. hi
    <3>1. PICK i \in 0 .. 255 : i = img[v]
      BY <1>5
    <3>2. lo <= i /\ i <= hi
      BY <1>6, <1>7, <3>1
    <3> QED BY <3>1, <3>2
  <2> QED BY <2>2, <2>3 DEF Pixel
<1>9. 0 + n * lo <= s[n] /\ s[n] <= 0 + n * hi
  <2>1. 0 \in Int /\ n \in Nat /\ lo \in Int /\ hi \in Int /\ n \in 0 .. n
    OBVIOUS
  <2>2. \A k \in 0 .. n : 0 + k * lo <= s[k] /\ s[k] <= 0 + k * hi
    BY <1>3, <1>8, <2>1, TotalBetween
  <2> QED BY <2>1, <2>2
<1>10. n * lo \in Nat /\ n * hi \in Nat
  OBVIOUS
<1>11. PICK a \in Nat : a = s[n]
  <2>1. n \in 0 .. n
    OBVIOUS
  <2>2. s[n] \in Int
    BY <1>3, <2>1 DEF Totals
  <2> QED BY <1>9, <1>10, <2>2
<1>12. n * lo <= a /\ a < n * hi + n
  <2>1. PICK c \in Nat, d \in Nat : c = n * lo /\ d = n * hi
    BY <1>10
  <2> QED BY <1>4, <1>9, <1>11, <2>1
<1>13. lo <= a \div n /\ a \div n <= hi
  BY <1>4, <1>12, DivLeast, DivMost
<1>14. BlurRow(img, w, radius)[x] = a \div n
  BY <1>3, <1>11
<1>15. img[y] <= BlurRow(img, w, radius)[x] /\ BlurRow(img, w, radius)[x] <= img[zz]
  BY <1>7, <1>13, <1>14
<1> QED BY <1>15

LEMMA BytesTurned ==
  ASSUME NEW e \in Nat, NEW img, Bytes(img, e)
  PROVE  Bytes([v \in 0 .. e |-> img[e - v]], e)
<1>1. ASSUME NEW v \in 0 .. e PROVE img[e - v] \in Nat /\ img[e - v] \in 0 .. 255
  <2>1. PICK c \in 0 .. e : c = e - v
    OBVIOUS
  <2>2. img[c] \in 0 .. 255 /\ img[c] \in Nat
    BY DEF Bytes
  <2> QED BY <2>1, <2>2
<1> QED BY <1>1 DEF Bytes

LEMMA BlurMirrors ==
  ASSUME NEW w \in Nat \ {0}, NEW e \in Nat, e = w - 1, NEW radius \in Nat, NEW img, Bytes(img, e),
         NEW x \in 0 .. e
  PROVE  BlurRow([v \in 0 .. e |-> img[e - v]], w, radius)[e - x] = BlurRow(img, w, radius)[x]
<1>1. PICK n \in Nat : n = 2 * radius + 1
  OBVIOUS
<1>2. PICK f : f = Around(img, w, radius, x)
  OBVIOUS
<1>3. PICK s : Totals(s, 0, n, f) /\ BlurRow(img, w, radius)[x] = s[n] \div n
  BY <1>1, <1>2, BlurIs
<1>4. PICK back : back = [v \in 0 .. e |-> img[e - v]]
  OBVIOUS
<1>5. Bytes(back, e)
  BY <1>4, BytesTurned
<1>6. PICK y \in 0 .. e : y = e - x
  OBVIOUS
<1>7. PICK g : g = Around(back, w, radius, y)
  OBVIOUS
<1>8. PICK t : Totals(t, 0, n, g) /\ BlurRow(back, w, radius)[y] = t[n] \div n
  BY <1>1, <1>5, <1>7, BlurIs
<1>9. ASSUME NEW k \in 1 .. n PROVE g[k] = f[n + 1 - k]
  <2>1. PICK i \in Int : i = x + (n + 1 - k) - 1 - radius
    BY <1>1
  <2>2. PICK c \in 0 .. e : c = Large(Small(i, w - 1), 0)
    BY <2>1, KeptInside
  <2>3. Large(Small((w - 1) - i, w - 1), 0) = e - c
    BY <2>1, <2>2, KeptInside
  <2>4. n + 1 - k \in 1 .. n
    OBVIOUS
  <2>5. f[n + 1 - k] = img[c]
    BY <1>1, <1>2, <2>1, <2>2, <2>4 DEF Around
  <2>6. y + k - 1 - radius = (w - 1) - i
    BY <1>1, <1>6, <2>1
  <2>7. g[k] = back[e - c]
    BY <1>1, <1>7, <2>3, <2>6 DEF Around
  <2>8. e - c \in 0 .. e /\ e - (e - c) = c
    BY <2>2
  <2> QED BY <1>4, <2>5, <2>7, <2>8
<1>10. t[n] = s[n]
  BY <1>3, <1>8, <1>9, TotalReversed
<1> QED BY <1>3, <1>4, <1>6, <1>8, <1>10

-----------------------------------------------------------------------------
(* The wallpaper *)

\* A side that, scaled, is at least as long as the screen's.
LEMMA CutFits ==
  ASSUME NEW side \in Nat \ {0}, NEW full \in Nat \ {0}, NEW num \in Nat \ {0}, NEW den \in Nat \ {0},
         full * den <= side * num
  PROVE  /\ CutOff(side, full, num, den) \in Nat
         /\ full * den = side * num => CutOff(side, full, num, den) = 0
         /\ \A d \in 0 .. (full - 1) : CutOff(side, full, num, den) + (d * den) \div num \in 0 .. (side - 1)
<1>1. PICK a \in Nat, b \in Nat : a = side * num /\ b = full * den
  <2>1. side * num \in Nat /\ full * den \in Nat
    OBVIOUS
  <2> QED BY <2>1
<1>2. PICK t \in Nat : t = side * num + den - 1
  <2>1. side * num + den - 1 = a + (den - 1) /\ den - 1 \in Nat
    BY <1>1
  <2> QED BY <1>1, <2>1
<1>3. t = a + (den - 1)
  BY <1>1, <1>2
<1>4. PICK c \in Nat, r \in 0 .. (den - 1) : c = t \div den /\ t = den * c + r
  BY <1>2, DivIs
<1>5. PICK zz \in Nat : zz = den * c
  BY <1>4
<1>6. PICK x0 \in Nat : /\ x0 = CutOff(side, full, num, den)
                        /\ x0 * num + b < a + den
                        /\ a = b => x0 = 0
  <2>1. CASE c > full
    <3>1. PICK g \in Nat : g = c - full
      BY <2>1
    <3>2. PICK e \in Nat : e = g * den /\ e = zz - b
      <4>1. g * den \in Nat /\ g * den = den * c - full * den
        BY <3>1
      <4> QED BY <1>1, <1>5, <4>1
    <3>3. PICK m \in Nat \ {0} : m = 2 * num
      OBVIOUS
    <3>4. PICK x0 \in Nat, s \in Nat : x0 = e \div m /\ e = m * x0 + s
      BY <3>2, <3>3, DivIs
    <3>5. CutOff(side, full, num, den) = x0
      BY <1>2, <1>4, <2>1, <3>1, <3>2, <3>3, <3>4 DEF CutOff
    <3>6. m * x0 = 2 * (x0 * num) /\ x0 * num \in Nat
      BY <3>3, <3>4
    <3>7. x0 * num <= e
      <4>1. PICK y \in Nat : y = x0 * num
        BY <3>6
      <4> QED BY <3>2, <3>4, <3>6, <4>1
    <3>8. x0 * num + b < a + den
      <4>1. PICK y \in Nat : y = x0 * num
        BY <3>6
      <4>2. zz <= a + (den - 1)
        BY <1>3, <1>4, <1>5
      <4> QED BY <1>1, <3>2, <3>7, <4>1, <4>2
    <3>9. ASSUME a = b PROVE FALSE
      <4>1. full + 1 <= c
        BY <2>1
      <4>2. den * (full + 1) <= den * c
        BY <4>1, Times
      <4>3. den * (full + 1) = b + den
        BY <1>1
      <4> QED BY <1>3, <1>4, <1>5, <3>9, <4>2, <4>3
    <3> QED BY <3>5, <3>8, <3>9
  <2>2. CASE ~(c > full)
    <3>1. CutOff(side, full, num, den) = 0
      BY <1>2, <1>4, <2>2 DEF CutOff
    <3>2. 0 * num + b < a + den
      BY <1>1
    <3> QED BY <3>1, <3>2
  <2> QED BY <2>1, <2>2
<1>7. ASSUME NEW d \in 0 .. (full - 1) PROVE x0 + (d * den) \div num \in 0 .. (side - 1)
  <2>1. PICK v \in Nat : v = d * den
    OBVIOUS
  <2>2. PICK q \in Nat, s \in 0 .. (num - 1) : q = v \div num /\ v = num * q + s
    BY <2>1, DivIs
  <2>3. v <= b - den
    <3>1. d + 1 \in Nat /\ d \in Nat /\ d + 1 <= full
      OBVIOUS
    <3>2. (d + 1) * den <= full * den
      BY <3>1, Times
    <3>3. (d + 1) * den = v + den
      BY <2>1, <3>1
    <3> QED BY <1>1, <3>2, <3>3
  <2>4. PICK y \in Nat, u \in Nat : y = x0 * num /\ u = num * q
    BY <1>6, <2>2
  <2>5. y + u < a
    BY <1>1, <1>6, <2>2, <2>3, <2>4
  <2>6. y + u = num * (x0 + q)
    BY <1>6, <2>2, <2>4
  <2>7. ASSUME x0 + q >= side PROVE FALSE
    <3>1. num * side <= num * (x0 + q)
      BY <1>6, <2>2, <2>7, Times
    <3>2. num * side = a
      BY <1>1
    <3> QED BY <1>1, <2>4, <2>5, <2>6, <3>1, <3>2
  <2>8. x0 + q \in 0 .. (side - 1)
    BY <1>6, <2>2, <2>7
  <2> QED BY <2>1, <2>2, <2>8
<1> QED BY <1>1, <1>6, <1>7

\* The two sides, and the one that is shown in full.
Scaled(p, num, den, sw, sh, fw, fh) ==
    /\ num \in Nat \ {0} /\ den \in Nat \ {0}
    /\ p = [num |-> num, den |-> den, x0 |-> CutOff(sw, fw, num, den), y0 |-> CutOff(sh, fh, num, den)]
    /\ fw * den <= sw * num /\ fh * den <= sh * num
    /\ fw * den = sw * num \/ fh * den = sh * num

LEMMA CoverIs ==
  ASSUME NEW sw \in Nat \ {0}, NEW sh \in Nat \ {0}, NEW fw \in Nat \ {0}, NEW fh \in Nat \ {0}
  PROVE  \E num, den : Scaled(CoverParams(sw, sh, fw, fh), num, den, sw, sh, fw, fh)
<1>1. CASE fw * sh >= fh * sw
  <2>1. CoverParams(sw, sh, fw, fh) = [num |-> fw, den |-> sw, x0 |-> CutOff(sw, fw, fw, sw),
                                       y0 |-> CutOff(sh, fh, fw, sw)]
    BY <1>1 DEF CoverParams
  <2>2. fw * sw = sw * fw /\ fw * sw <= sw * fw /\ fh * sw <= sh * fw
    <3>1. fw * sw \in Int /\ fw * sw = sw * fw /\ sh * fw = fw * sh
      OBVIOUS
    <3> QED BY <1>1, <3>1
  <2>3. Scaled(CoverParams(sw, sh, fw, fh), fw, sw, sw, sh, fw, fh)
    BY <2>1, <2>2 DEF Scaled
  <2> QED BY <2>3
<1>2. CASE ~(fw * sh >= fh * sw)
  <2>1. CoverParams(sw, sh, fw, fh) = [num |-> fh, den |-> sh, x0 |-> CutOff(sw, fw, fh, sh),
                                       y0 |-> CutOff(sh, fh, fh, sh)]
    BY <1>2 DEF CoverParams
  <2>2. fh * sh = sh * fh /\ fh * sh <= sh * fh /\ fw * sh <= sw * fh
    <3>1. fh * sh \in Int /\ fh * sh = sh * fh /\ sw * fh = fh * sw /\ fw * sh \in Int /\ fh * sw \in Int
      OBVIOUS
    <3> QED BY <1>2, <3>1
  <2>3. Scaled(CoverParams(sw, sh, fw, fh), fh, sh, sw, sh, fw, fh)
    BY <2>1, <2>2 DEF Scaled
  <2> QED BY <2>3
<1> QED BY <1>1, <1>2

\* The accumulator and the division.
Carries == [acc : Int, sx : Int]
At(v, k, p) == v.acc = (k * p.den) % p.num /\ v.sx = p.x0 + (k * p.den) \div p.num

LEMMA CarriedOn ==
  ASSUME NEW p, p.num \in Nat \ {0}, p.den \in Nat, p.x0 \in Int, NEW v \in Carries
  PROVE  /\ Carried(v, p) \in Carries
         /\ \A k \in Nat \ {0} : At(v, k - 1, p) => At(Carried(v, p), k, p)
<1>1. PICK num \in Nat \ {0}, den \in Nat, x0 \in Int : num = p.num /\ den = p.den /\ x0 = p.x0
  OBVIOUS
<1>2. PICK acc \in Int, sx \in Int : v = [acc |-> acc, sx |-> sx]
  BY DEF Carries
<1>3. PICK carry \in Int : carry = (acc + den) \div num
  BY <1>1
<1>4. Carried(v, p) = [acc |-> acc + den - carry * num, sx |-> sx + carry]
  BY <1>1, <1>2, <1>3 DEF Carried
<1>5. carry * num \in Int
  BY <1>1
<1>6. acc + den - carry * num \in Int /\ sx + carry \in Int
  BY <1>5
<1>7. Carried(v, p) \in Carries
  BY <1>4, <1>6 DEF Carries
<1>8. ASSUME NEW k \in Nat \ {0}, At(v, k - 1, p) PROVE At(Carried(v, p), k, p)
  <2>1. PICK j \in Nat : j = k - 1
    OBVIOUS
  <2>2. PICK a \in Nat : a = j * den
    BY <2>1
  <2>3. acc = a % num /\ sx = x0 + a \div num
    BY <1>1, <1>2, <1>8, <2>1, <2>2 DEF At
  <2>4. PICK q \in Nat, r \in 0 .. (num - 1) : q = a \div num /\ r = a % num /\ a = num * q + r
    BY <2>2, DivIs
  <2>5. PICK b \in Nat : b = r + den
    OBVIOUS
  <2>6. PICK c \in Nat, s \in 0 .. (num - 1) : c = b \div num /\ s = b % num /\ b = num * c + s
    BY DivIs
  <2>7. acc = r /\ sx = x0 + q /\ carry = c
    BY <1>3, <2>3, <2>4, <2>5, <2>6
  <2>8. PICK e \in Nat : e = k * den
    <3>1. k * den \in Nat
      OBVIOUS
    <3> QED BY <3>1
  <2>9. e = a + den
    BY <2>1, <2>2, <2>8
  <2>10. PICK y \in Nat, zz \in Nat : y = num * q /\ zz = num * c
    BY <2>4, <2>6
  <2>11. num * (q + c) = y + zz
    BY <2>4, <2>6, <2>10
  <2>12. e = y + zz + s
    BY <2>4, <2>5, <2>6, <2>9, <2>10
  <2>13. PICK w \in Nat : w = q + c
    BY <2>4, <2>6
  <2>14. num * w <= e /\ e < num * w + num
    BY <2>6, <2>11, <2>12, <2>13
  <2>15. e \div num = w /\ e % num = e - num * w
    BY <2>8, <2>13, <2>14, DivAt
  <2>16. e % num = s
    BY <2>11, <2>12, <2>13, <2>15
  <2>17. carry * num = zz
    BY <2>7, <2>10
  <2>18. acc + den - carry * num = s
    BY <2>5, <2>6, <2>7, <2>10, <2>17
  <2>19. sx + carry = x0 + w
    BY <2>7, <2>13
  <2>20. Carried(v, p).acc = s /\ Carried(v, p).sx = x0 + w
    BY <1>4, <2>18, <2>19
  <2> QED BY <1>1, <2>8, <2>15, <2>16, <2>20 DEF At
<1> QED BY <1>7, <1>8

LEMMA CoverStepIs ==
  ASSUME NEW p, p.num \in Nat \ {0}, p.den \in Nat, p.x0 \in Int, NEW d \in Nat
  PROVE  CoverStep(d, p) = p.x0 + (d * p.den) \div p.num
<1> DEFINE Start == [acc |-> 0, sx |-> p.x0]
           sf == [k \in 1 .. d |-> [v \in Carries |-> Carried(v, p)]]
           Solves(s) == s = [k \in 0 .. d |-> IF k = 0 THEN Start ELSE Carried(s[k - 1], p)]
           u == CHOOSE s : Solves(s)
<1>1. Start \in Carries
  BY DEF Carries
<1>2. Looping(Carries, Start, d, sf)
  <2>1. [v \in Carries |-> Carried(v, p)] \in [Carries -> Carries]
    BY CarriedOn
  <2>2. sf \in [1 .. d -> [Carries -> Carries]]
    BY <2>1
  <2> QED BY <1>1, <2>2 DEF Looping
<1>3. At(Start, 0, p)
  <2>1. Start.acc = 0 /\ Start.sx = p.x0
    OBVIOUS
  <2>2. PICK m \in Nat \ {0} : m = p.num
    OBVIOUS
  <2>3. 0 * p.den = 0 /\ 0 % m = 0 /\ 0 \div m = 0
    OBVIOUS
  <2> QED BY <2>1, <2>2, <2>3 DEF At
<1> HIDE DEF sf, Start
<1>4. PICK f : Loops(f, Carries, Start, d, sf)
  BY <1>2, LoopEnds
<1>5. Solves(f)
  <2>1. \A k \in 0 .. d : k = 0 \/ k \in 1 .. d
    OBVIOUS
  <2>2. ASSUME NEW k \in 1 .. d PROVE f[k] = Carried(f[k - 1], p)
    <3>1. k - 1 \in 0 .. d
      OBVIOUS
    <3>2. f[k - 1] \in Carries /\ f[k] = sf[k][f[k - 1]]
      BY <1>4, <3>1 DEF Loops
    <3> QED BY <3>2 DEF sf
  <2> QED BY <1>4, <2>1, <2>2 DEF Loops
<1>6. Solves(u)
  BY <1>5
<1>7. CoverStep(d, p) = u[d].sx
  BY DEF CoverStep, Start
<1> HIDE DEF u
<1>8. u[0] = Start /\ \A k \in 1 .. d : u[k] = Carried(u[k - 1], p)
  <2>1. 0 \in 0 .. d /\ \A k \in 1 .. d : k \in 0 .. d /\ k # 0
    OBVIOUS
  <2> QED BY <1>6, <2>1
<1> DEFINE T == {k \in 0 .. d : u[k] \in Carries /\ At(u[k], k, p)}
<1>9. 0 \in T
  BY <1>1, <1>3, <1>8
<1>10. ASSUME NEW k \in 1 .. d, k - 1 \in T PROVE k \in T
  <2>1. k \in Nat \ {0} /\ u[k - 1] \in Carries /\ At(u[k - 1], k - 1, p)
    BY <1>10
  <2>2. Carried(u[k - 1], p) \in Carries /\ At(Carried(u[k - 1], p), k, p)
    BY <2>1, CarriedOn
  <2> QED BY <1>8, <2>2
<1> HIDE DEF T
<1>11. \A k \in 0 .. d : k \in T
  BY <1>9, <1>10, UpTo
<1>12. At(u[d], d, p)
  BY <1>11 DEF T
<1> QED BY <1>7, <1>12 DEF At

Unclamped(p, sw, sh, fw, fh) ==
    /\ \A d \in 0 .. (fw - 1) : /\ CoverSrc(p.x0, d, p) = Clamped(CoverSrc(p.x0, d, p), sw)
                                /\ CoverStep(d, p) = CoverSrc(p.x0, d, p)
    /\ \A d \in 0 .. (fh - 1) : CoverSrc(p.y0, d, p) = Clamped(CoverSrc(p.y0, d, p), sh)
    /\ p.x0 = 0 \/ p.y0 = 0

LEMMA CoverRight ==
  ASSUME NEW sw \in Nat \ {0}, NEW sh \in Nat \ {0}, NEW fw \in Nat \ {0}, NEW fh \in Nat \ {0}
  PROVE  Unclamped(CoverParams(sw, sh, fw, fh), sw, sh, fw, fh)
<1>0. PICK p : p = CoverParams(sw, sh, fw, fh)
  OBVIOUS
<1>s. PICK num, den : Scaled(p, num, den, sw, sh, fw, fh)
  BY <1>0, CoverIs
<1>1. /\ num \in Nat \ {0} /\ den \in Nat \ {0}
      /\ p = [num |-> num, den |-> den, x0 |-> CutOff(sw, fw, num, den), y0 |-> CutOff(sh, fh, num, den)]
      /\ fw * den <= sw * num /\ fh * den <= sh * num
      /\ fw * den = sw * num \/ fh * den = sh * num
  BY <1>s DEF Scaled
<1>2. PICK x0, y0 : x0 = CutOff(sw, fw, num, den) /\ y0 = CutOff(sh, fh, num, den)
  OBVIOUS
<1>3. p.num = num /\ p.den = den /\ p.x0 = x0 /\ p.y0 = y0
  BY <1>1, <1>2
<1>4. /\ x0 \in Nat /\ (fw * den = sw * num => x0 = 0)
      /\ \A d \in 0 .. (fw - 1) : x0 + (d * den) \div num \in 0 .. (sw - 1)
  BY <1>1, <1>2, CutFits
<1>5. /\ y0 \in Nat /\ (fh * den = sh * num => y0 = 0)
      /\ \A d \in 0 .. (fh - 1) : y0 + (d * den) \div num \in 0 .. (sh - 1)
  BY <1>1, <1>2, CutFits
<1>6. ASSUME NEW d \in 0 .. (fw - 1)
      PROVE  CoverSrc(p.x0, d, p) = Clamped(CoverSrc(p.x0, d, p), sw) /\ CoverStep(d, p) = CoverSrc(p.x0, d, p)
  <2>1. PICK c \in 0 .. (sw - 1) : c = x0 + (d * den) \div num
    BY <1>4
  <2>2. CoverSrc(p.x0, d, p) = c
    BY <1>3, <2>1 DEF CoverSrc
  <2>3. Clamped(c, sw) = c
    BY DEF Clamped, Small
  <2>4. CoverStep(d, p) = c
    <3>1. p.num \in Nat \ {0} /\ p.den \in Nat /\ p.x0 \in Int /\ d \in Nat
      BY <1>1, <1>3, <1>4
    <3>2. CoverStep(d, p) = p.x0 + (d * p.den) \div p.num
      BY <3>1, CoverStepIs
    <3> QED BY <1>3, <2>1, <3>2
  <2> QED BY <2>2, <2>3, <2>4
<1>7. ASSUME NEW d \in 0 .. (fh - 1)
      PROVE  CoverSrc(p.y0, d, p) = Clamped(CoverSrc(p.y0, d, p), sh)
  <2>1. PICK c \in 0 .. (sh - 1) : c = y0 + (d * den) \div num
    BY <1>5
  <2>2. CoverSrc(p.y0, d, p) = c
    BY <1>3, <2>1 DEF CoverSrc
  <2>3. Clamped(c, sh) = c
    BY DEF Clamped, Small
  <2> QED BY <2>2, <2>3
<1>8. p.x0 = 0 \/ p.y0 = 0
  BY <1>1, <1>3, <1>4, <1>5
<1> QED BY <1>0, <1>6, <1>7, <1>8 DEF Unclamped

-----------------------------------------------------------------------------
LEMMA BoxRight ==
  ASSUME probe \in Boxed
  PROVE  FilledOnce
<1>1. Rounded(probe)
  BY BoxesRounded
<1>2. probe.kind = "box"
  BY <1>1 DEF Rounded, RoundBoxes
<1> QED BY <1>1, <1>2, RoundFillOnce, GlassOnce DEF FilledOnce

LEMMA RootRight ==
  ASSUME NEW n \in 0 .. MaxRoot
  PROVE  RootIsFloor(n)
<1>1. MaxRoot \in Nat /\ MaxRoot \div 65536 < 65536
  BY RasterAssumption
<1>2. n \in Nat /\ n <= MaxRoot
  BY <1>1
<1>3. MaxRoot < 65536 * 65536
  BY <1>1
<1>4. n < 65536 * 65536
  BY <1>1, <1>2, <1>3
<1> QED BY <1>2, <1>4, RootFound

LEMMA ScaleRight ==
  ASSUME probe \in [kind : {"scale"}, m : 1 .. MaxSide, n : 1 .. MaxSide]
  PROVE  SamplesInside
<1>1. PICK m \in Nat \ {0}, n \in Nat \ {0} : m = probe.m /\ n = probe.n
  <2>1. MaxSide \in Nat
    BY RasterAssumption
  <2>2. probe.m \in 1 .. MaxSide /\ probe.n \in 1 .. MaxSide
    OBVIOUS
  <2> QED BY <2>1, <2>2
<1>2. probe.kind = "scale"
  OBVIOUS
<1>3. ASSUME NEW i \in 0 .. (n - 1)
      PROVE  LET s == Sample(i, n, m)
             IN /\ s.a \in 0 .. (m - 1) /\ s.b \in {s.a, s.a + 1} \cap 0 .. (m - 1)
                /\ i > 0 => Sample(i - 1, n, m).a <= s.a
                /\ m = n => s.a = i /\ s.t = 0
                /\ \A u, v \in {0, 1, 254, 255} : Lerp(u, v, s.t) \in Small(u, v) .. Large(u, v)
  <2>1. Sample(i, n, m).t \in 0 .. 255
    BY SampleIs
  <2>2. \A u, v \in {0, 1, 254, 255} :
           Lerp(u, v, Sample(i, n, m).t) \in Small(u, v) .. Large(u, v)
    <3>1. PICK t \in 0 .. 255 : t = Sample(i, n, m).t
      BY <2>1
    <3>2. ASSUME NEW u \in {0, 1, 254, 255}, NEW v \in {0, 1, 254, 255}
          PROVE  Lerp(u, v, t) \in Small(u, v) .. Large(u, v)
      <4>1. u \in Nat /\ v \in Nat
        OBVIOUS
      <4> QED BY <4>1, LerpBetween
    <3> QED BY <3>1, <3>2
  <2> QED BY <2>2, SampleIs
<1>4. n > 1 => LET s == Sample(n - 1, n, m) IN s.a = m - 1 /\ s.t = 0
  <2>1. n - 1 \in 0 .. (n - 1)
    OBVIOUS
  <2> QED BY <2>1, SampleIs
<1> QED BY <1>1, <1>2, <1>3, <1>4 DEF SamplesInside

BlurProbe(w) == [kind : {"blur"}, w : {w}, radius : 0 .. 2, img : [0 .. (w - 1) -> {0, 7, 255}]]

LEMMA BlurRight ==
  ASSUME NEW w \in 1 .. 4, probe \in BlurProbe(w)
  PROVE  SamplesInside
<1>10. PICK radius \in Nat : radius = probe.radius
  BY DEF BlurProbe
<1>1. PICK img : radius = probe.radius /\ img = probe.img /\ w = probe.w
  BY <1>10 DEF BlurProbe
<1>2. probe.kind = "blur"
  BY DEF BlurProbe
<1>3. PICK e \in Nat : e = w - 1
  OBVIOUS
<1>4. Bytes(img, e)
  <2>1. img \in [0 .. e -> {0, 7, 255}]
    BY <1>1, <1>3 DEF BlurProbe
  <2>2. \A x \in 0 .. e : img[x] \in {0, 7, 255}
    BY <2>1
  <2>3. img \in [0 .. e -> Nat]
    BY <2>1
  <2> QED BY <2>2, <2>3 DEF Bytes
<1>5. w \in Nat \ {0}
  OBVIOUS
<1>6. ASSUME NEW x \in 0 .. e
      PROVE  \E y, zz \in 0 .. e : /\ img[y] <= BlurRow(img, w, radius)[x]
                                 /\ BlurRow(img, w, radius)[x] <= img[zz]
  BY <1>3, <1>4, <1>5, BlurBetween
<1>7. ASSUME NEW x \in 0 .. e
      PROVE  BlurRow([v \in 0 .. e |-> img[e - v]], w, radius)[e - x] = BlurRow(img, w, radius)[x]
  BY <1>3, <1>4, <1>5, BlurMirrors
<1>8. [v \in 0 .. (w - 1) |-> img[w - 1 - v]] = [v \in 0 .. e |-> img[e - v]]
  BY <1>3
<1>9. \A x \in 0 .. (w - 1) :
        /\ \E y, zz \in 0 .. (w - 1) : /\ img[y] <= BlurRow(img, w, radius)[x]
                                      /\ BlurRow(img, w, radius)[x] <= img[zz]
        /\ BlurRow([v \in 0 .. (w - 1) |-> img[w - 1 - v]], w, radius)[w - 1 - x] = BlurRow(img, w, radius)[x]
  <2> SUFFICES ASSUME NEW x \in 0 .. e
               PROVE  /\ \E y, zz \in 0 .. e : /\ img[y] <= BlurRow(img, w, radius)[x]
                                              /\ BlurRow(img, w, radius)[x] <= img[zz]
                      /\ BlurRow([v \in 0 .. e |-> img[e - v]], w, radius)[e - x] = BlurRow(img, w, radius)[x]
    BY <1>3, <1>8
  <2> QED BY <1>6, <1>7
<1> QED BY <1>1, <1>2, <1>9 DEF SamplesInside

LEMMA WallpaperRight ==
  ASSUME probe \in [kind : {"cover"}, sw : 1 .. MaxSide, sh : 1 .. MaxSide, fw : 1 .. MaxSide, fh : 1 .. MaxSide]
  PROVE  WallpaperCovers
<1>1. PICK sw \in Nat \ {0}, sh \in Nat \ {0}, fw \in Nat \ {0}, fh \in Nat \ {0} :
        sw = probe.sw /\ sh = probe.sh /\ fw = probe.fw /\ fh = probe.fh
  BY RasterAssumption
<1>2. PICK p : p = CoverParams(sw, sh, fw, fh)
  OBVIOUS
<1>3. Unclamped(p, sw, sh, fw, fh)
  BY <1>2, CoverRight
<1> QED BY <1>1, <1>2, <1>3 DEF WallpaperCovers, Unclamped

\* What may be asked.
RasterInv == probe \in Probes \cup {NoProbe}

LEMMA RasterHolds == RasterSpec => []RasterInv
<1>1. probe = NoProbe => RasterInv
  BY DEF RasterInv
<1>2. RasterInv /\ [Evaluate]_probe => RasterInv'
  BY DEF RasterInv, Evaluate
<1> QED BY <1>1, <1>2, PTL DEF RasterSpec

(* Whatever box, row, picture or text is drawn, no pixel is left out or       *)
(* blended twice, no sample is taken past an edge, the wallpaper covers the   *)
(* screen, and text ends where it was measured (draw.c, fb.c).                *)
THEOREM PixelsAreRight == RasterSpec => []PixelsRight
<1>1. RasterInv => PixelsRight
  <2> SUFFICES ASSUME RasterInv PROVE PixelsRight
    OBVIOUS
  <2>1. CASE probe = NoProbe
    BY <2>1 DEF NoProbe, PixelsRight, FilledOnce, SamplesInside, WallpaperCovers, TextMeasured
  <2>2. CASE probe \in Boxed
    <3>1. probe.kind = "box"
      BY <2>2, BoxesRounded DEF Rounded, RoundBoxes
    <3> QED BY <2>2, <3>1, BoxRight DEF PixelsRight, SamplesInside, WallpaperCovers, TextMeasured
  <2>3. CASE probe \in [kind : {"root"}, n : 0 .. MaxRoot]
    <3>1. probe.kind = "root" /\ probe.n \in 0 .. MaxRoot
      BY <2>3
    <3> QED BY <3>1, RootRight DEF PixelsRight, FilledOnce, SamplesInside, WallpaperCovers, TextMeasured
  <2>4. CASE probe \in [kind : {"scale"}, m : 1 .. MaxSide, n : 1 .. MaxSide]
    <3>1. probe.kind = "scale"
      BY <2>4
    <3> QED BY <2>4, <3>1, ScaleRight DEF PixelsRight, FilledOnce, WallpaperCovers, TextMeasured
  <2>5. CASE \E w \in 1 .. 4 : probe \in BlurProbe(w)
    <3>1. probe.kind = "blur"
      BY <2>5 DEF BlurProbe
    <3> QED BY <2>5, <3>1, BlurRight DEF PixelsRight, FilledOnce, WallpaperCovers, TextMeasured
  <2>6. CASE probe \in [kind : {"cover"}, sw : 1 .. MaxSide, sh : 1 .. MaxSide, fw : 1 .. MaxSide, fh : 1 .. MaxSide]
    <3>1. probe.kind = "cover"
      BY <2>6
    <3> QED BY <2>6, <3>1, WallpaperRight DEF PixelsRight, FilledOnce, SamplesInside, TextMeasured
  <2>7. CASE probe \in [kind : {"text"}, text : UNION {[1 .. n -> 1 .. 4] : n \in 0 .. 3}]
    <3>1. probe.kind = "text" /\ probe.text \in UNION {[1 .. n -> 1 .. 4] : n \in 0 .. 3}
      BY <2>7
    <3>2. TextMeasured
      BY <3>1, TextRight DEF TextMeasured
    <3> QED BY <3>1, <3>2 DEF PixelsRight, FilledOnce, SamplesInside, WallpaperCovers
  <2>8. CASE probe \in UNION {BlurProbe(w) : w \in 1 .. 4}
    <3>1. PICK S \in {BlurProbe(w) : w \in 1 .. 4} : probe \in S
      BY <2>8
    <3> QED BY <2>5, <3>1
  <2> DEFINE R == [kind : {"root"}, n : 0 .. MaxRoot]
             S == [kind : {"scale"}, m : 1 .. MaxSide, n : 1 .. MaxSide]
             B == UNION {BlurProbe(w) : w \in 1 .. 4}
             C == [kind : {"cover"}, sw : 1 .. MaxSide, sh : 1 .. MaxSide, fw : 1 .. MaxSide, fh : 1 .. MaxSide]
             T == [kind : {"text"}, text : UNION {[1 .. n -> 1 .. 4] : n \in 0 .. 3}]
  <2>9. Probes = Boxed \cup R \cup S \cup B \cup C \cup T
    BY Zenon DEF Probes, BlurProbe
  <2> HIDE DEF R, S, B, C, T
  <2>10. probe = NoProbe \/ probe \in Boxed \/ probe \in R \/ probe \in S \/ probe \in B
          \/ probe \in C \/ probe \in T
    BY <2>9 DEF RasterInv
  <2> QED BY <2>1, <2>2, <2>3, <2>4, <2>6, <2>7, <2>8, <2>10, Zenon DEF R, S, B, C, T
<1> QED BY <1>1, RasterHolds, PTL
=============================================================================
