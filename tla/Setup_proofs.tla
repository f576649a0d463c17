---------------------------- MODULE Setup_proofs ----------------------------
(***************************************************************************)
(* What is proved of the preferences, the wireless network and the devices *)
(* on the bus, for every value of their constants.                         *)
(*                                                                         *)
(* SettingsKept is not inductive: a load takes its settings from           *)
(* config.txt, so PInv adds what a file that nothing went wrong with       *)
(* holds, and that no flush writes a number no setting accepts, except as  *)
(* the language, which persist_init does not check.                        *)
(*                                                                         *)
(* WifiInv adds to the table and to the verdict what may be under way to   *)
(* and from the host while the guest waits: if nothing was when the        *)
(* question was sent, then the question or its answer, and nothing else.   *)
(*                                                                         *)
(* UsbInv adds to the table of devices how far the transfer under way is,  *)
(* whose it is, and what the device and the driver know by then.           *)
(***************************************************************************)
EXTENDS Prefs, Wifi, Usb, FiniteSetTheorems, WellFoundedInduction, TLAPS

-----------------------------------------------------------------------------
(* The preferences *)
Words == Values \cup {Bad}
TextFiles == UNION {[ks -> Words] : ks \in SUBSET Keys}

(* Every setting but the language is one the system accepts. *)
Checked(f) == \A k \in Keys \ {Lang} : f[k] \in Values

PInv ==
  /\ SettingsKept
  /\ config \in TextFiles
  /\ Checked(saved)
  /\ ~torn /\ DOMAIN config = Keys => Checked(config)

KeptTyped == DOMAIN kept \subseteq Keys /\ \A k \in DOMAIN kept : kept[k] \in Words

LEMMA FileTyped ==
  ASSUME NEW f \in TextFiles
  PROVE  /\ DOMAIN f \in SUBSET Keys
         /\ \A k \in DOMAIN f : f[k] \in Words
         /\ DOMAIN f = Keys => f \in [Keys -> Words]
<1>1. PICK ks \in SUBSET Keys : f \in [ks -> Words]
  BY DEF TextFiles
<1> QED BY <1>1

LEMMA WholeFile ==
  ASSUME NEW f \in [Keys -> Words]
  PROVE  f \in TextFiles
BY DEF TextFiles

(* A put that breaks off leaves some file. *)
LEMMA BrokenIsFile ==
  ASSUME NEW old \in TextFiles, NEW new \in [Keys -> Words], NEW f \in Broken(old, new)
  PROVE  f \in TextFiles
<1>1. CASE f \in {old, new}
  BY <1>1, WholeFile
<1>2. CASE f \in {[k \in ks |-> new[k]] : ks \in SUBSET Keys}
  <2>1. PICK ks \in SUBSET Keys : f = [k \in ks |-> new[k]]
    BY <1>2
  <2>2. f \in [ks -> Words]
    BY <2>1
  <2> QED BY <2>2 DEF TextFiles
<1>3. CASE f \in {[new EXCEPT ![k] = Bad] : k \in Keys}
  <2>1. f \in [Keys -> Words]
    BY <1>3 DEF Words
  <2> QED BY <2>1, WholeFile
<1> QED BY <1>1, <1>2, <1>3 DEF Broken

(* flush_file: the file is one, and a whole one if the flush was. *)
LEMMA Flushed ==
  ASSUME PInv, NEW values \in [Keys -> Words], Checked(values), PutDone(values) \/ PutFails(values)
  PROVE  /\ config' \in TextFiles
         /\ KeptTyped'
         /\ torn' \in BOOLEAN /\ behind' \in BOOLEAN
         /\ ~torn' => config' = kept'
         /\ ~torn' /\ DOMAIN config' = Keys => Checked(config')
         /\ ~behind' => config' = values /\ kept' = values
<1>1. CASE PutDone(values)
  <2>1. config' \in TextFiles /\ config' = values /\ kept' = values /\ torn' = FALSE /\ behind' = FALSE
    BY <1>1, WholeFile DEF PutDone
  <2>2. KeptTyped'
    BY <2>1 DEF KeptTyped, Words
  <2>3. Checked(config')
    BY <2>1 DEF Checked
  <2> QED BY <2>1, <2>2, <2>3
<1>2. CASE PutFails(values)
  <2>a. /\ config' \in Broken(config, values) /\ kept' = kept /\ behind' = TRUE
        /\ torn' = (torn \/ config' # config)
    BY <1>2 DEF PutFails
  <2>b. config \in TextFiles
    BY DEF PInv
  <2>c. config' \in TextFiles
    BY <2>a, <2>b, BrokenIsFile
  <2>1. /\ config' \in TextFiles /\ kept' = kept /\ behind' = TRUE
        /\ torn' = (torn \/ config' # config)
    BY <2>a, <2>c
  <2>d. KeptTyped'
    BY <2>1 DEF PInv, SettingsKept, TypeOK, KeptTyped, Words
  <2>2. KeptTyped' /\ torn' \in BOOLEAN
    BY <2>1, <2>d
  <2>3. ~torn' => ~torn /\ config' = config
    BY <2>1
  <2>4. ~torn' => config' = kept'
    BY <2>1, <2>3 DEF PInv, SettingsKept, SettingsSurvive
  <2>5. ~torn' /\ DOMAIN config' = Keys => Checked(config')
    BY <2>3 DEF PInv, Checked
  <2> QED BY <2>1, <2>2, <2>4, <2>5
<1> QED BY <1>1, <1>2

LEMMA FlushFaults ==
  ASSUME PInv, NEW values, Flush(values)
  PROVE  (PutDone(values) \/ PutFails(values)) /\ faults' \in 0 .. MaxFaults
BY PrefsAssumption DEF Flush, Fault, PInv, SettingsKept, TypeOK

(* What persist_init ends with, whatever file it was given. *)
LEMMA LoadedTyped ==
  ASSUME NEW file \in TextFiles, NEW answer \in Values, Loaded(file, answer)
  PROVE  /\ have' \in SUBSET Keys
         /\ inUse' \in [Keys -> Values]
         /\ saved' \in [Keys -> Words]
         /\ Checked(saved')
         /\ \A k \in Keys : Accepts(saved'[k]) = inUse'[k]
         /\ DOMAIN file # Keys => saved' = inUse'
         /\ \A k \in DOMAIN file : inUse'[k] = Accepts(file[k])
         /\ DOMAIN file = Keys => saved'[Lang] = file[Lang]
<1>1. have' \in SUBSET Keys
  BY FileTyped DEF Loaded
<1>2. \A v : Accepts(v) \in Values
  BY PrefsAssumption DEF Accepts
<1>3. inUse' \in [Keys -> Values]
  BY <1>2, PrefsAssumption DEF Loaded
<1>4. \A k \in DOMAIN file : inUse'[k] = Accepts(file[k])
  BY FileTyped DEF Loaded
<1>5. \A v \in Values : Accepts(v) = v
  BY DEF Accepts
<1>6. CASE DOMAIN file = Keys
  <2>1. saved' = [inUse' EXCEPT ![Lang] = file[Lang]] /\ file[Lang] \in Words
    BY <1>6, FileTyped, PrefsAssumption DEF Loaded
  <2>2. saved' \in [Keys -> Words] /\ saved'[Lang] = file[Lang]
    BY <2>1, <1>3, PrefsAssumption DEF Words
  <2>3. \A k \in Keys \ {Lang} : saved'[k] = inUse'[k]
    BY <2>1, <1>3
  <2>4. \A k \in Keys : Accepts(saved'[k]) = inUse'[k]
    BY <2>2, <2>3, <1>3, <1>4, <1>5, <1>6
  <2> QED BY <1>1, <1>3, <1>4, <1>6, <2>2, <2>3, <2>4 DEF Checked
<1>7. CASE DOMAIN file # Keys
  <2>1. saved' = inUse'
    BY <1>7 DEF Loaded
  <2> QED BY <1>1, <1>3, <1>4, <1>5, <1>7, <2>1 DEF Checked, Words
<1> QED BY <1>6, <1>7

LEMMA InitInv == Init => PInv
<1> SUFFICES ASSUME Init PROVE PInv
  OBVIOUS
<1>1. AllDefault \in [Keys -> Values] /\ AllDefault \in [Keys -> Words]
  BY PrefsAssumption DEF AllDefault, Words
<1>2. DOMAIN Nothing = {} /\ Nothing \in [{} -> Words] /\ Nothing \in TextFiles
  BY DEF Nothing, TextFiles
<1>3. Checked(AllDefault)
  BY <1>1 DEF Checked
<1>4. TypeOK
  <2>1. DOMAIN config \subseteq Keys /\ \A k \in DOMAIN config : config[k] \in Values \cup {Bad}
    BY <1>2 DEF Init
  <2>2. {avail, up, torn, behind} \subseteq BOOLEAN /\ have \subseteq Keys /\ aside \subseteq {Lang}
    BY DEF Init
  <2>3. faults \in 0 .. MaxFaults
    BY PrefsAssumption DEF Init
  <2>4. DOMAIN kept \subseteq Keys /\ \A k \in DOMAIN kept : kept[k] \in Values \cup {Bad}
    BY <1>2 DEF Init
  <2> QED BY <1>1, <2>1, <2>2, <2>3, <2>4 DEF Init, TypeOK, Words
<1>5. Keys # {}
  BY PrefsAssumption
<1> QED BY <1>2, <1>3, <1>4, <1>5 DEF Init, PInv, SettingsKept, SettingsSurvive, InStep

LEMMA PersistInitInv ==
  ASSUME PInv, NEW answer \in Values, PersistInit(answer), UNCHANGED aside
  PROVE  PInv'
<1> USE DEF Words
<1>1. config \in TextFiles /\ Loaded(config, answer)
  BY DEF PInv, PersistInit
<1>2. /\ have' \in SUBSET Keys /\ inUse' \in [Keys -> Values] /\ saved' \in [Keys -> Words]
      /\ Checked(saved') /\ \A k \in Keys : Accepts(saved'[k]) = inUse'[k]
  BY <1>1, LoadedTyped
<1>3. up' = TRUE /\ avail' = TRUE
  BY <1>1 DEF Loaded
<1>4. CASE DOMAIN config = Keys
  <2>1. UNCHANGED <<config, kept, torn, behind, faults>>
    BY <1>4 DEF PersistInit, Untouched
  <2>2. TypeOK'
    BY <1>2, <1>3, <2>1 DEF PInv, SettingsKept, TypeOK
  <2>3. ASSUME ~torn PROVE config = kept /\ saved' = kept
    <3>1. config = kept /\ Checked(config) /\ kept \in [Keys -> Words]
      BY <1>1, <1>4, <2>3, FileTyped DEF PInv, SettingsKept, SettingsSurvive
    <3>2. saved'[Lang] = config[Lang] /\ \A k \in Keys : inUse'[k] = Accepts(config[k])
      BY <1>1, <1>4, LoadedTyped
    <3>3. \A k \in Keys \ {Lang} : saved'[k] = config[k]
      BY <1>2, <3>1, <3>2 DEF Checked, Accepts
    <3>4. \A k \in Keys : saved'[k] = kept[k]
      BY <3>1, <3>2, <3>3
    <3> QED BY <1>2, <3>1, <3>4
  <2>4. SettingsSurvive' /\ InStep'
    BY <1>2, <2>1, <2>3 DEF PInv, SettingsKept, SettingsSurvive, InStep
  <2> QED BY <1>2, <2>1, <2>2, <2>4 DEF PInv, SettingsKept
<1>5. CASE DOMAIN config # Keys
  <2>1. Flush(inUse') /\ saved' = inUse'
    BY <1>1, <1>5, LoadedTyped DEF PersistInit
  <2>2. inUse' \in [Keys -> Words] /\ Checked(inUse')
    BY <1>2, <2>1
  <2>3. /\ config' \in TextFiles /\ KeptTyped'
        /\ torn' \in BOOLEAN /\ behind' \in BOOLEAN
        /\ ~torn' => config' = kept'
        /\ ~torn' /\ DOMAIN config' = Keys => Checked(config')
        /\ ~behind' => config' = inUse' /\ kept' = inUse'
    BY <2>1, <2>2, FlushFaults, Flushed
  <2>a. faults' \in 0 .. MaxFaults
    BY <2>1, FlushFaults
  <2>4. TypeOK'
    BY <1>2, <1>3, <2>3, <2>a, FileTyped DEF PInv, SettingsKept, TypeOK, KeptTyped
  <2>5. SettingsSurvive' /\ InStep'
    BY <1>2, <2>1, <2>3 DEF SettingsSurvive, InStep
  <2> QED BY <1>2, <2>1, <2>2, <2>3, <2>4, <2>5 DEF PInv, SettingsKept
<1> QED BY <1>4, <1>5

LEMMA PersistInitUnreadInv ==
  ASSUME PInv, NEW answer \in Values, PersistInitUnread(answer), UNCHANGED aside
  PROVE  PInv'
<1> USE DEF Words
<1>1. Nothing \in TextFiles /\ DOMAIN Nothing # Keys /\ Loaded(Nothing, answer)
  <2>1. DOMAIN Nothing = {} /\ Nothing \in [{} -> Words]
    BY DEF Nothing
  <2> QED BY <2>1, PrefsAssumption DEF TextFiles, PersistInitUnread
<1>2. /\ have' \in SUBSET Keys /\ inUse' \in [Keys -> Values] /\ saved' \in [Keys -> Words]
      /\ Checked(saved') /\ \A k \in Keys : Accepts(saved'[k]) = inUse'[k]
  BY <1>1, LoadedTyped
<1>3. up' = TRUE /\ avail' = TRUE
  BY <1>1 DEF Loaded, PersistInitUnread
<1>4. inUse' \in [Keys -> Words]
  BY <1>2
<1>5. /\ config' \in TextFiles /\ KeptTyped'
      /\ torn' \in BOOLEAN /\ behind' \in BOOLEAN
      /\ ~torn' => config' = kept'
      /\ ~torn' /\ DOMAIN config' = Keys => Checked(config')
      /\ ~behind' => config' = inUse' /\ kept' = inUse'
  <2>1. Checked(inUse') /\ (PutDone(inUse') \/ PutFails(inUse'))
    BY <1>2 DEF Checked, PersistInitUnread
  <2> QED BY <1>4, <2>1, Flushed
<1>6. faults' \in 0 .. MaxFaults
  BY PrefsAssumption DEF PersistInitUnread, Fault, PInv, SettingsKept, TypeOK
<1>7. TypeOK'
  BY <1>2, <1>3, <1>5, <1>6, FileTyped DEF PInv, SettingsKept, TypeOK, KeptTyped
<1>8. saved' = inUse'
  BY <1>1, LoadedTyped
<1>9. SettingsSurvive' /\ InStep'
  BY <1>2, <1>3, <1>5, <1>8 DEF SettingsSurvive, InStep
<1> QED BY <1>2, <1>3, <1>5, <1>7, <1>9 DEF PInv, SettingsKept

LEMMA PersistInitLiveInv ==
  ASSUME PInv, NEW answer \in Values, PersistInitLive(answer), UNCHANGED aside
  PROVE  PInv'
<1>1. /\ up' = TRUE /\ avail' = FALSE /\ have' = {} /\ saved' = inUse'
      /\ UNCHANGED <<config, kept, torn, behind, faults>>
  BY DEF PersistInitLive, Untouched
<1>2. inUse' \in [Keys -> Values]
  BY PrefsAssumption DEF PersistInitLive, AllDefault
<1>3. Checked(saved')
  BY <1>1, <1>2 DEF Checked
<1>4. TypeOK'
  BY <1>1, <1>2 DEF PInv, SettingsKept, TypeOK
<1> QED BY <1>1, <1>3, <1>4 DEF PInv, SettingsKept, SettingsSurvive, InStep

LEMMA SetInv ==
  ASSUME PInv, NEW k \in Keys, NEW v \in Values, Set(k, v)
  PROVE  PInv'
<1> USE DEF Words
<1>1. /\ up /\ UNCHANGED <<avail, up>> /\ aside' = aside \ {k}
      /\ inUse' = [inUse EXCEPT ![k] = v]
  BY DEF Set, PersistSet
<1>2. inUse' \in [Keys -> Values] /\ inUse \in [Keys -> Values] /\ saved \in [Keys -> Words]
  BY <1>1 DEF PInv, SettingsKept, TypeOK
<1>3. inUse'[k] = v /\ Accepts(v) = v /\ \A j \in Keys \ {k} : inUse'[j] = inUse[j]
  BY <1>1, <1>2 DEF Accepts
<1>4. CASE ~avail \/ (k \in have /\ saved[k] = v)
  <2>1. UNCHANGED <<config, kept, torn, behind, faults, have, saved>>
    BY <1>4 DEF Set, PersistSet, Untouched
  <2>2. TypeOK'
    BY <1>1, <1>2, <2>1 DEF PInv, SettingsKept, TypeOK
  <2>3. avail => saved[k] = v
    BY <1>4
  <2>4. InStep'
    BY <1>1, <1>3, <2>1, <2>3 DEF PInv, SettingsKept, InStep
  <2>5. SettingsSurvive'
    BY <1>1, <1>3, <2>1, <2>3 DEF PInv, SettingsKept, SettingsSurvive
  <2> QED BY <2>1, <2>2, <2>4, <2>5 DEF PInv, SettingsKept
<1>5. CASE ~(~avail \/ (k \in have /\ saved[k] = v))
  <2>1. have' = have \cup {k} /\ saved' = [saved EXCEPT ![k] = v] /\ Flush(saved')
    BY <1>5 DEF Set, PersistSet
  <2>2. saved' \in [Keys -> Words] /\ saved'[k] = v /\ \A j \in Keys \ {k} : saved'[j] = saved[j]
    BY <1>2, <2>1
  <2>3. Checked(saved')
    BY <2>2 DEF Checked, PInv
  <2>4. /\ config' \in TextFiles /\ KeptTyped'
        /\ torn' \in BOOLEAN /\ behind' \in BOOLEAN
        /\ ~torn' => config' = kept'
        /\ ~torn' /\ DOMAIN config' = Keys => Checked(config')
        /\ ~behind' => config' = saved' /\ kept' = saved'
    BY <2>1, <2>2, <2>3, FlushFaults, Flushed
  <2>a. faults' \in 0 .. MaxFaults
    BY <2>1, FlushFaults
  <2>5. TypeOK'
    BY <1>1, <1>2, <2>1, <2>2, <2>4, <2>a, FileTyped DEF PInv, SettingsKept, TypeOK, KeptTyped
  <2>6. \A j \in Keys \ aside' : Accepts(saved'[j]) = inUse'[j]
    BY <1>1, <1>3, <1>5, <2>2 DEF PInv, SettingsKept, InStep
  <2>7. SettingsSurvive' /\ InStep'
    BY <2>4, <2>6 DEF SettingsSurvive, InStep
  <2> QED BY <2>3, <2>4, <2>5, <2>7 DEF PInv, SettingsKept
<1> QED BY <1>4, <1>5

LEMMA SetLangInv ==
  ASSUME PInv, NEW v \in Values, SetLang(v)
  PROVE  PInv'
<1>1. /\ inUse' = [inUse EXCEPT ![Lang] = v] /\ aside' = aside \cup {Lang}
      /\ UNCHANGED <<config, kept, torn, behind, faults, avail, have, saved, up>>
  BY DEF SetLang, Untouched
<1>2. inUse \in [Keys -> Values] /\ aside \subseteq {Lang}
  BY DEF PInv, SettingsKept, TypeOK
<1>3. inUse' \in [Keys -> Values] /\ \A k \in Keys \ {Lang} : inUse'[k] = inUse[k]
  BY <1>1, <1>2
<1>4. TypeOK'
  BY <1>1, <1>2, <1>3 DEF PInv, SettingsKept, TypeOK
<1>5. SettingsSurvive' /\ InStep'
  BY <1>1, <1>2, <1>3 DEF PInv, SettingsKept, SettingsSurvive, InStep
<1> QED BY <1>1, <1>4, <1>5 DEF PInv, SettingsKept

(* The power goes off, with the file as it is or with what a flush left. *)
LEMMA OffInv ==
  ASSUME PInv, NEW file \in TextFiles, Off(file),
         faults' \in 0 .. MaxFaults
  PROVE  PInv'
<1>1. /\ up' = FALSE /\ config' = file /\ avail' = FALSE /\ have' = {}
      /\ saved' = AllDefault /\ inUse' = AllDefault /\ aside' = {} /\ kept' = kept
      /\ torn' = (torn \/ file # config) /\ behind' = FALSE
  BY DEF Off
<1>2. AllDefault \in [Keys -> Values] /\ Checked(AllDefault)
  BY PrefsAssumption DEF AllDefault, Checked
<1>3. DOMAIN file \subseteq Keys /\ \A k \in DOMAIN file : file[k] \in Words
  BY FileTyped
<1>4. TypeOK'
  BY <1>1, <1>2, <1>3 DEF PInv, SettingsKept, TypeOK, Words
<1> QED BY <1>1, <1>2, <1>4 DEF PInv, SettingsKept, SettingsSurvive, InStep

LEMMA PowerOffInv ==
  ASSUME PInv, PowerOff
  PROVE  PInv'
BY OffInv DEF PowerOff, PInv, SettingsKept, TypeOK

LEMMA PowerCutInv ==
  ASSUME PInv, PowerCut
  PROVE  PInv'
<1>1. PICK k \in Keys, v \in Values : \E file \in Broken(config, [saved EXCEPT ![k] = v]) : Off(file)
  BY DEF PowerCut
<1>2. PICK file \in Broken(config, [saved EXCEPT ![k] = v]) : Off(file)
  BY <1>1
<1>3. [saved EXCEPT ![k] = v] \in [Keys -> Words] /\ config \in TextFiles
  BY DEF PInv, SettingsKept, TypeOK, Words
<1>4. file \in TextFiles
  BY <1>2, <1>3, BrokenIsFile
<1>5. faults' \in 0 .. MaxFaults
  BY PrefsAssumption DEF PowerCut, Fault, PInv, SettingsKept, TypeOK
<1> QED BY <1>2, <1>4, <1>5, OffInv

LEMMA StutterInv ==
  ASSUME PInv, UNCHANGED vars
  PROVE  PInv'
BY DEF PInv, vars, SettingsKept, TypeOK, SettingsSurvive, InStep, Checked

(* For every set of keys and values: through any number of restarts, refused *)
(* puts, unreadable files and losses of power, config.txt is what the last  *)
(* completed flush wrote until a put breaks off in it, a power-on brings    *)
(* that into use, and within a session the next flush writes what is in     *)
(* use, whatever failed before.                                             *)
THEOREM SettingsOutliveRestarts == Spec => []SettingsKept
<1>1. PInv /\ [Next]_vars => PInv'
  <2> SUFFICES ASSUME PInv, [Next]_vars PROVE PInv'
    OBVIOUS
  <2>1. ASSUME NEW answer \in Values, PersistInit(answer) /\ UNCHANGED aside PROVE PInv'
    BY <2>1, PersistInitInv
  <2>2. ASSUME NEW answer \in Values, PersistInitUnread(answer) /\ UNCHANGED aside PROVE PInv'
    BY <2>2, PersistInitUnreadInv
  <2>3. ASSUME NEW answer \in Values, PersistInitLive(answer) /\ UNCHANGED aside PROVE PInv'
    BY <2>3, PersistInitLiveInv
  <2>4. ASSUME NEW answer \in Values, SetLang(answer) PROVE PInv'
    BY <2>4, SetLangInv
  <2>5. ASSUME NEW k \in Keys, NEW v \in Values, Set(k, v) PROVE PInv'
    BY <2>5, SetInv
  <2> QED BY <2>1, <2>2, <2>3, <2>4, <2>5, PowerOffInv, PowerCutInv, StutterInv DEF Next
<1>2. PInv => SettingsKept
  BY DEF PInv
<1> QED BY InitInv, <1>1, <1>2, PTL DEF Spec

-----------------------------------------------------------------------------
(* The wireless network *)
Names == {n.ssid : n \in HostNets} \cup {f.ssid : f \in Frames} \cup Remnants \cup {NoName}
Rows == [ssid : Names, quality : Nat, sec : Nat, src : {"radio", "host"}]

\* What the guest may make of a host's network, and the lines that may come.
Nets == {[name |-> n.name, ssid |-> s, quality |-> n.quality, sec |-> c] :
            n \in HostNets, s \in Names, c \in 0 .. 2}
Lines == {Line(k) : k \in {"W1", ".", "K", "F", "junk"}} \cup {Entry(n) : n \in Nets}

(* t is what a table of TableMax rows holds after h was heard. *)
TableIs(t, h) ==
  /\ t \in Seq(Rows) /\ Len(t) <= TableMax /\ h \subseteq Rows
  /\ \A i \in 1 .. Len(t) : t[i].ssid # NoName
  /\ \A i, j \in 1 .. Len(t) : t[i].ssid = t[j].ssid => i = j
  /\ \A i \in 1 .. Len(t) :
       /\ \E b \in h : b.ssid = t[i].ssid /\ b.sec = t[i].sec
       /\ \E b \in h : b.ssid = t[i].ssid /\ b.quality = t[i].quality
       /\ \A b \in h : b.ssid = t[i].ssid => b.sec <= t[i].sec /\ b.quality <= t[i].quality
  /\ \A b \in h : (\E i \in 1 .. Len(t) : t[i].ssid = b.ssid) \/ Len(t) = TableMax

\* Nothing but the last question and its answer is under way.
Answers(s) == \A i \in 1 .. Len(s) : s[i].k = "F" \/ (s[i].k = "K" /\ said = table[net].ssid)
Asked ==
  \/ cmds = <<[k |-> "C", net |-> table[net].ssid]>> /\ wire = <<>> /\ rx = <<>>
  \/ cmds = <<>> /\ Answers(wire) /\ Answers(rx)

Waits ==
  /\ waiting \in {"header", "entries"} => step = "wifi" /\ ~connected
  /\ waiting = "answer" =>
       /\ step = "check" /\ ~connected
       /\ net \in 1 .. Len(table) /\ table[net].src = "host"
       /\ quiet => Asked

Told ==
  connected =>
    \E i \in 1 .. Len(table) :
      /\ table[i].ssid = ssid
      /\ IF table[i].src = "radio" THEN table[i].sec = OPEN ELSE quiet => said = ssid /\ cmds = <<>>

WifiInv ==
  /\ WifiTypeOK
  /\ rx \in Seq(Lines) /\ wire \in Seq(Lines)
  /\ TableIs(table, heard)
  /\ Waits /\ Told /\ VerdictIsCurrent

LEMMA HostNetIs ==
  ASSUME NEW n \in Nets
  PROVE  n.ssid \in Names /\ n.quality \in Nat /\ n.sec \in Nat /\ n.sec \in 0 .. 2
<1>1. PICK o \in HostNets, s \in Names, c \in 0 .. 2 :
        n = [name |-> o.name, ssid |-> s, quality |-> o.quality, sec |-> c]
  BY DEF Nets
<1>2. o \in [name : {o.name}, ssid : {o.ssid}, quality : Nat, sec : 0 .. 2]
  BY WifiAssumption DEF WifiAssumption
<1> QED BY <1>1, <1>2

LEMMA HostNetsAreNets ==
  ASSUME NEW n \in HostNets
  PROVE  n \in Nets
<1>1. n \in [name : {n.name}, ssid : {n.ssid}, quality : Nat, sec : 0 .. 2]
  BY WifiAssumption DEF WifiAssumption
<1>2. n = [name |-> n.name, ssid |-> n.ssid, quality |-> n.quality, sec |-> n.sec]
  BY <1>1
<1>3. n.ssid \in Names /\ n.sec \in 0 .. 2
  BY <1>1 DEF Names
<1> QED BY <1>2, <1>3 DEF Nets

(* What is left of a row, and a row that lost its security, are rows.      *)
LEMMA NetChanged ==
  ASSUME NEW n \in Nets
  PROVE  /\ [n EXCEPT !.sec = WPA] \in Nets
         /\ \A name \in Remnants : [n EXCEPT !.ssid = name] \in Nets
<1>1. PICK o \in HostNets, s \in Names, c \in 0 .. 2 :
        n = [name |-> o.name, ssid |-> s, quality |-> o.quality, sec |-> c]
  BY DEF Nets
<1>2. [n EXCEPT !.sec = WPA] = [name |-> o.name, ssid |-> s, quality |-> o.quality, sec |-> WPA]
  BY <1>1
<1>3. WPA \in 0 .. 2
  BY DEF WPA
<1>4. [n EXCEPT !.sec = WPA] \in Nets
  BY <1>2, <1>3 DEF Nets
<1>5. ASSUME NEW name \in Remnants PROVE [n EXCEPT !.ssid = name] \in Nets
  <2>1. [n EXCEPT !.ssid = name] = [name |-> o.name, ssid |-> name, quality |-> o.quality, sec |-> c]
    BY <1>1
  <2>2. name \in Names
    BY DEF Names
  <2> QED BY <2>1, <2>2 DEF Nets
<1> QED BY <1>4, <1>5

LEMMA BssIsRow ==
  ASSUME NEW n, n.ssid \in Names, n.quality \in Nat, n.sec \in Nat, NEW src \in {"radio", "host"}
  PROVE  /\ Bss(n, src) \in Rows
         /\ Bss(n, src).ssid = n.ssid /\ Bss(n, src).sec = n.sec /\ Bss(n, src).quality = n.quality
         /\ Bss(n, src).src = src
BY DEF Bss, Rows

LEMMA FrameIsRow ==
  ASSUME NEW f \in Frames
  PROVE  Bss(f, "radio") \in Rows
<1>1. f.ssid \in Names
  BY DEF Names
<1>2. f.quality \in Nat /\ f.sec \in Nat
  BY WifiAssumption DEF WifiAssumption
<1> QED BY <1>1, <1>2, BssIsRow

LEMMA RowHas ==
  ASSUME NEW r \in Rows
  PROVE  /\ r = [ssid |-> r.ssid, quality |-> r.quality, sec |-> r.sec, src |-> r.src]
         /\ r.ssid \in Names /\ r.quality \in Nat /\ r.sec \in Nat /\ r.src \in {"radio", "host"}
BY DEF Rows

(* What a name heard again makes of its row. *)
LEMMA Again ==
  ASSUME NEW r \in Rows, NEW b \in Rows,
         NEW s, s = [r EXCEPT !.quality = Greater(@, b.quality), !.sec = Greater(@, b.sec),
                              !.src = IF b.src = "radio" THEN "radio" ELSE @]
  PROVE  /\ s \in Rows /\ s.ssid = r.ssid
         /\ s.quality \in {r.quality, b.quality} /\ s.quality >= r.quality /\ s.quality >= b.quality
         /\ s.sec \in {r.sec, b.sec} /\ s.sec >= r.sec /\ s.sec >= b.sec
<1>1. s.quality = Greater(r.quality, b.quality) /\ s.sec = Greater(r.sec, b.sec)
      /\ s.ssid = r.ssid /\ s.src = (IF b.src = "radio" THEN "radio" ELSE r.src)
  BY DEF Rows
<1>2. s \in [ssid : Names, quality : Nat, sec : Nat, src : {"radio", "host"}]
  BY DEF Rows, Greater
<1>3. r.quality \in Nat /\ b.quality \in Nat /\ r.sec \in Nat /\ b.sec \in Nat
  BY RowHas
<1> QED BY <1>1, <1>2, <1>3 DEF Greater, Rows

LEMMA AddKeeps ==
  ASSUME NEW t, NEW h, NEW b \in Rows, TableIs(t, h), b.ssid # NoName
  PROVE  TableIs(AddBss(t, b), h \cup {b})
<1> DEFINE u == AddBss(t, b)
           Up(r) == [r EXCEPT !.quality = Greater(@, b.quality), !.sec = Greater(@, b.sec),
                              !.src = IF b.src = "radio" THEN "radio" ELSE @]
<1>1. /\ t \in Seq(Rows) /\ Len(t) \in Nat /\ Len(t) <= TableMax /\ h \subseteq Rows
      /\ \A i \in 1 .. Len(t) : t[i] \in Rows
      /\ DOMAIN t = 1 .. Len(t)
  BY DEF TableIs
<1>2. \A i \in 1 .. Len(t) : t[i].ssid # NoName
  BY DEF TableIs
<1>3. \A i, j \in 1 .. Len(t) : t[i].ssid = t[j].ssid => i = j
  BY DEF TableIs
<1>4. \A i \in 1 .. Len(t) :
       /\ \E a \in h : a.ssid = t[i].ssid /\ a.sec = t[i].sec
       /\ \E a \in h : a.ssid = t[i].ssid /\ a.quality = t[i].quality
       /\ \A a \in h : a.ssid = t[i].ssid => a.sec <= t[i].sec /\ a.quality <= t[i].quality
  BY DEF TableIs
<1>5. \A a \in h : (\E i \in 1 .. Len(t) : t[i].ssid = a.ssid) \/ Len(t) = TableMax
  BY DEF TableIs
<1>6. h \cup {b} \subseteq Rows
  BY <1>1
<1>b. b.quality \in Nat /\ b.sec \in Nat
  BY RowHas
<1>7. CASE \E i \in 1 .. Len(t) : t[i].ssid = b.ssid
  <2>1. PICK k \in 1 .. Len(t) : t[k].ssid = b.ssid
    BY <1>7
  <2>2. u = [i \in 1 .. Len(t) |-> IF t[i].ssid # b.ssid THEN t[i] ELSE Up(t[i])]
    BY <1>7, <1>1 DEF AddBss
  <2> HIDE DEF Up, u
  <2>3. u[k] = Up(t[k])
    BY <2>1, <2>2
  <2>4. /\ u[k] \in Rows /\ u[k].ssid = t[k].ssid
        /\ u[k].quality \in {t[k].quality, b.quality}
        /\ u[k].quality >= t[k].quality /\ u[k].quality >= b.quality
        /\ u[k].sec \in {t[k].sec, b.sec} /\ u[k].sec >= t[k].sec /\ u[k].sec >= b.sec
    BY <2>3, <2>1, <1>1, Again DEF Up
  <2>5. \A i \in 1 .. Len(t) : i # k => u[i] = t[i]
    BY <2>1, <2>2, <1>3
  <2>6. \A i \in 1 .. Len(t) : u[i] \in Rows /\ u[i].ssid = t[i].ssid
    BY <2>4, <2>5, <1>1
  <2>7. DOMAIN u = 1 .. Len(t)
    BY <2>2
  <2>8. u \in Seq(Rows) /\ Len(u) = Len(t)
    <3>1. u \in [1 .. Len(t) -> Rows]
      BY <2>2, <2>6
    <3> QED BY <3>1, <1>1
  <2>9. \A i \in 1 .. Len(u) : u[i].ssid # NoName
    BY <2>8, <2>6, <1>2
  <2>10. \A i, j \in 1 .. Len(u) : u[i].ssid = u[j].ssid => i = j
    BY <2>8, <2>6, <1>3
  <2>11. ASSUME NEW i \in 1 .. Len(u)
         PROVE  /\ \E a \in h \cup {b} : a.ssid = u[i].ssid /\ a.sec = u[i].sec
                /\ \E a \in h \cup {b} : a.ssid = u[i].ssid /\ a.quality = u[i].quality
                /\ \A a \in h \cup {b} : a.ssid = u[i].ssid => a.sec <= u[i].sec /\ a.quality <= u[i].quality
    <3>0. i \in 1 .. Len(t)
      BY <2>8
    <3>1. /\ \E a \in h : a.ssid = t[i].ssid /\ a.sec = t[i].sec
          /\ \E a \in h : a.ssid = t[i].ssid /\ a.quality = t[i].quality
          /\ \A a \in h : a.ssid = t[i].ssid => a.sec <= t[i].sec /\ a.quality <= t[i].quality
      BY <3>0, <1>4
    <3>2. CASE i # k
      <4>1. u[i] = t[i] /\ t[i].ssid # b.ssid
        BY <3>0, <3>2, <2>5, <2>1, <1>3
      <4> QED BY <4>1, <3>1
    <3>3. CASE i = k
      <4>1. \E a \in h \cup {b} : a.ssid = u[k].ssid /\ a.sec = u[k].sec
        BY <3>1, <3>3, <2>4, <2>1
      <4>2. \E a \in h \cup {b} : a.ssid = u[k].ssid /\ a.quality = u[k].quality
        BY <3>1, <3>3, <2>4, <2>1
      <4>3. ASSUME NEW a \in h \cup {b}, a.ssid = u[k].ssid
            PROVE  a.sec <= u[k].sec /\ a.quality <= u[k].quality
        <5>1. a.quality \in Nat /\ a.sec \in Nat
          BY <1>6, RowHas
        <5>2. u[k].quality \in Nat /\ u[k].sec \in Nat /\ t[k].quality \in Nat /\ t[k].sec \in Nat
          BY <2>4, <1>1, RowHas
        <5>3. CASE a = b
          BY <5>3, <2>4
        <5>4. CASE a \in h
          <6>1. a.sec <= t[k].sec /\ a.quality <= t[k].quality
            BY <5>4, <4>3, <2>4, <3>1, <3>3
          <6> QED BY <6>1, <5>1, <5>2, <2>4
        <5> QED BY <5>3, <5>4
      <4> QED BY <4>1, <4>2, <4>3, <3>3
    <3> QED BY <3>2, <3>3
  <2>12. \A a \in h \cup {b} : (\E i \in 1 .. Len(u) : u[i].ssid = a.ssid) \/ Len(u) = TableMax
    <3>1. \E i \in 1 .. Len(u) : u[i].ssid = b.ssid
      BY <2>1, <2>6, <2>8
    <3> QED BY <3>1, <1>5, <2>6, <2>8
  <2> QED BY <2>8, <1>1, <1>6, <2>9, <2>10, <2>11, <2>12 DEF TableIs, u
<1>8. CASE ~(\E i \in 1 .. Len(t) : t[i].ssid = b.ssid) /\ Len(t) >= TableMax
  <2>1. AddBss(t, b) = t /\ Len(t) = TableMax
    BY <1>8, <1>1, WifiAssumption DEF AddBss, WifiAssumption
  <2>2. \A i \in 1 .. Len(t) :
       /\ \E a \in h \cup {b} : a.ssid = t[i].ssid /\ a.sec = t[i].sec
       /\ \E a \in h \cup {b} : a.ssid = t[i].ssid /\ a.quality = t[i].quality
       /\ \A a \in h \cup {b} : a.ssid = t[i].ssid => a.sec <= t[i].sec /\ a.quality <= t[i].quality
    BY <1>8, <1>4
  <2> QED BY <2>1, <2>2, <1>1, <1>2, <1>3, <1>6 DEF TableIs
<1>9. CASE ~(\E i \in 1 .. Len(t) : t[i].ssid = b.ssid) /\ Len(t) < TableMax
  <2>1. u = Append(t, b)
    <3>1. Len(t) \in Nat /\ ~(Len(t) >= TableMax) /\ ~(\E i \in DOMAIN t : t[i].ssid = b.ssid)
      BY <1>1, <1>9, WifiAssumption DEF WifiAssumption
    <3> QED BY <3>1 DEF AddBss
  <2>2. u \in Seq(Rows) /\ Len(u) = Len(t) + 1 /\ Len(u) <= TableMax
    BY <2>1, <1>1, <1>9, WifiAssumption DEF WifiAssumption
  <2>3. (\A i \in 1 .. Len(t) : u[i] = t[i]) /\ u[Len(u)] = b
    BY <2>1, <2>2, <1>1
  <2>4. \A i \in 1 .. Len(u) : i \in 1 .. Len(t) \/ i = Len(u)
    BY <2>2, <1>1
  <2>5. \A i \in 1 .. Len(t) : i \in 1 .. Len(u) /\ i # Len(u)
    BY <2>2, <1>1
  <2>6. Len(u) \in 1 .. Len(u)
    BY <2>2, <1>1
  <2> HIDE DEF u
  <2>7. \A i \in 1 .. Len(u) : u[i].ssid # NoName
    BY <2>3, <2>4, <1>2
  <2>8. \A i, j \in 1 .. Len(u) : u[i].ssid = u[j].ssid => i = j
    BY <2>3, <2>4, <1>3, <1>9
  <2>9. ASSUME NEW i \in 1 .. Len(u)
        PROVE  /\ \E a \in h \cup {b} : a.ssid = u[i].ssid /\ a.sec = u[i].sec
               /\ \E a \in h \cup {b} : a.ssid = u[i].ssid /\ a.quality = u[i].quality
               /\ \A a \in h \cup {b} : a.ssid = u[i].ssid => a.sec <= u[i].sec /\ a.quality <= u[i].quality
    <3>1. CASE i \in 1 .. Len(t)
      BY <3>1, <2>3, <1>4, <1>9
    <3>2. CASE i = Len(u)
      <4>0. u[i] = b
        BY <3>2, <2>3
      <4>1. \A a \in h : a.ssid # b.ssid
        BY <1>5, <1>9
      <4> QED BY <4>0, <4>1, <1>b
    <3> QED BY <3>1, <3>2, <2>4
  <2>10. \A a \in h \cup {b} : (\E i \in 1 .. Len(u) : u[i].ssid = a.ssid) \/ Len(u) = TableMax
    BY <1>5, <1>9, <2>3, <2>5, <2>6
  <2> QED BY <2>2, <1>6, <2>7, <2>8, <2>9, <2>10 DEF TableIs, u
<1> QED BY <1>7, <1>8, <1>9, <1>1, WifiAssumption DEF WifiAssumption

LEMMA Smallest ==
  ASSUME NEW T \in SUBSET Nat, T # {}
  PROVE  \E x \in T : \A y \in T : x <= y
<1> DEFINE R == {pair \in Nat \X Nat : pair[1] < pair[2]}
<1>1. IsWellFoundedOn(R, Nat)
  <2>1. OpToRel(<, Nat) = R
    BY DEF OpToRel
  <2> QED BY <2>1, NatLessThanWellFounded
<1>2. PICK x \in T : \A y \in T : ~ (<<y, x>> \in R)
  BY <1>1, WFMin
<1>3. ASSUME NEW y \in T PROVE x <= y
  <2>1. x \in Nat /\ y \in Nat
    OBVIOUS
  <2>2. y < x => <<y, x>> \in R
    BY <2>1
  <2> QED BY <1>2, <2>1, <2>2
<1> QED BY <1>3

LEMMA AddTyped ==
  ASSUME NEW t \in Seq(Rows), NEW b \in Rows
  PROVE  AddBss(t, b) \in Seq(Rows)
<1> DEFINE Up(r) == [r EXCEPT !.quality = Greater(@, b.quality), !.sec = Greater(@, b.sec),
                              !.src = IF b.src = "radio" THEN "radio" ELSE @]
           u == [i \in 1 .. Len(t) |-> IF t[i].ssid # b.ssid THEN t[i] ELSE Up(t[i])]
<1>1. Len(t) \in Nat /\ DOMAIN t = 1 .. Len(t) /\ \A i \in 1 .. Len(t) : t[i] \in Rows
  OBVIOUS
<1>2. \A i \in 1 .. Len(t) : Up(t[i]) \in Rows
  <2> SUFFICES ASSUME NEW i \in 1 .. Len(t) PROVE Up(t[i]) \in Rows
    OBVIOUS
  <2>1. t[i] \in Rows
    BY <1>1
  <2>2. PICK s : s = Up(t[i])
    OBVIOUS
  <2>3. s \in Rows
    BY <2>1, <2>2, Again
  <2> QED BY <2>2, <2>3
<1>3. AddBss(t, b) \in {u, t, Append(t, b)}
  BY <1>1 DEF AddBss
<1> HIDE DEF Up
<1>4. u \in [1 .. Len(t) -> Rows]
  BY <1>1, <1>2
<1>5. u \in Seq(Rows)
  BY <1>4, <1>1
<1>6. Append(t, b) \in Seq(Rows)
  OBVIOUS
<1> QED BY <1>3, <1>5, <1>6

LEMMA BeaconTyped ==
  ASSUME NEW t \in Seq(Rows), NEW f \in Frames
  PROVE  ParseBeacon(t, f) \in Seq(Rows)
BY FrameIsRow, AddTyped DEF ParseBeacon

LEMMA TableExists ==
  ASSUME NEW frames \in Seq(Frames)
  PROVE  \E f : f = [k \in 0 .. Len(frames) |-> IF k = 0 THEN <<>> ELSE ParseBeacon(f[k - 1], frames[k])]
<1> DEFINE N == Len(frames)
           Is(f, m) == /\ f \in [0 .. m -> Seq(Rows)] /\ f[0] = <<>>
                       /\ \A k \in 1 .. m : f[k] = ParseBeacon(f[k - 1], frames[k])
           B == {m \in 0 .. N : ~ \E f : Is(f, m)}
<1>0. N \in Nat /\ \A k \in 1 .. N : frames[k] \in Frames
  OBVIOUS
<1> HIDE DEF N
<1>1. ASSUME B # {} PROVE FALSE
  <2>1. B \in SUBSET Nat
    BY <1>0
  <2>2. PICK m \in B : \A l \in B : m <= l
    <3> HIDE DEF B
    <3> QED BY <1>1, <2>1, Smallest
  <2>3. m \in 0 .. N /\ ~ \E f : Is(f, m)
    BY <2>2
  <2>4. CASE m = 0
    <3>1. Is([k \in 0 .. 0 |-> <<>>], 0)
      OBVIOUS
    <3> QED BY <2>3, <2>4, <3>1
  <2>5. CASE m # 0
    <3>1. m - 1 \in 0 .. N /\ m \in 1 .. N /\ ~(m <= m - 1)
      BY <1>0, <2>3, <2>5
    <3>2. m - 1 \notin B
      <4> HIDE DEF B
      <4> QED BY <2>2, <3>1
    <3>3. PICK f : Is(f, m - 1)
      BY <3>1, <3>2
    <3> DEFINE g == [k \in 0 .. m |-> IF k = m THEN ParseBeacon(f[m - 1], frames[m]) ELSE f[k]]
    <3>4. f[m - 1] \in Seq(Rows) /\ ParseBeacon(f[m - 1], frames[m]) \in Seq(Rows)
      <4>1. f[m - 1] \in Seq(Rows)
        BY <3>1, <3>3
      <4>2. frames[m] \in Frames
        BY <1>0, <3>1
      <4> QED BY <4>1, <4>2, BeaconTyped
    <3>5. g \in [0 .. m -> Seq(Rows)] /\ g[0] = <<>>
      BY <3>1, <3>3, <3>4
    <3>6. ASSUME NEW k \in 1 .. m PROVE g[k] = ParseBeacon(g[k - 1], frames[k])
      <4>1. k - 1 \in 0 .. m /\ k - 1 # m
        BY <3>1
      <4>2. g[k - 1] = f[k - 1]
        BY <4>1
      <4>3. CASE k = m
        BY <4>2, <4>3
      <4>4. CASE k # m
        <5>1. k \in 1 .. (m - 1)
          BY <3>1, <4>4
        <5> QED BY <3>3, <4>2, <4>4, <5>1
      <4> QED BY <4>3, <4>4
    <3>7. Is(g, m)
      BY <3>5, <3>6
    <3> QED BY <2>3, <3>7
  <2> QED BY <2>4, <2>5
<1>2. N \notin B
  BY <1>1
<1>3. PICK f : Is(f, N)
  <2>1. N \in 0 .. N
    BY <1>0
  <2> HIDE DEF Is
  <2> QED BY <1>2, <2>1
<1>4. f = [k \in 0 .. N |-> IF k = 0 THEN <<>> ELSE ParseBeacon(f[k - 1], frames[k])]
  <2>1. \A k \in 0 .. N : f[k] = IF k = 0 THEN <<>> ELSE ParseBeacon(f[k - 1], frames[k])
    BY <1>0, <1>3
  <2> QED BY <1>3, <2>1
<1> QED BY <1>4 DEF N

\* What the first n frames announce.
HeardUpTo(frames, n) ==
  {Bss(f, "radio") : f \in {g \in {frames[k] : k \in 1 .. n} : g.beacon /\ g.ssid # NoName}}

LEMMA NothingHeard == TableIs(<<>>, {})
<1>1. <<>> \in Seq(Rows) /\ Len(<<>>) = 0 /\ 0 <= TableMax
  BY WifiAssumption DEF WifiAssumption
<1>2. 1 .. Len(<<>>) = {}
  BY <1>1
<1> QED BY <1>1, <1>2 DEF TableIs

LEMMA HeardStep ==
  ASSUME NEW frames \in Seq(Frames), NEW n \in 1 .. Len(frames), NEW t,
         TableIs(t, HeardUpTo(frames, n - 1))
  PROVE  TableIs(ParseBeacon(t, frames[n]), HeardUpTo(frames, n))
<1> DEFINE f == frames[n]
           h == HeardUpTo(frames, n - 1)
<1>1. f \in Frames /\ Bss(f, "radio") \in Rows /\ Bss(f, "radio").ssid = f.ssid
  BY FrameIsRow DEF Bss
<1>2. 1 .. n = (1 .. (n - 1)) \cup {n}
  OBVIOUS
<1>3. CASE f.beacon /\ f.ssid # NoName
  <2>1. HeardUpTo(frames, n) = h \cup {Bss(f, "radio")}
    BY <1>2, <1>3 DEF HeardUpTo
  <2>2. ParseBeacon(t, f) = AddBss(t, Bss(f, "radio"))
    BY <1>3 DEF ParseBeacon
  <2>3. TableIs(AddBss(t, Bss(f, "radio")), h \cup {Bss(f, "radio")})
    BY <1>1, <1>3, AddKeeps
  <2> QED BY <2>1, <2>2, <2>3
<1>4. CASE ~(f.beacon /\ f.ssid # NoName)
  <2>1. HeardUpTo(frames, n) = h
    BY <1>2, <1>4 DEF HeardUpTo
  <2>2. ParseBeacon(t, f) = t
    <3>1. CASE ~f.beacon
      BY <3>1 DEF ParseBeacon
    <3>2. CASE f.beacon /\ f.ssid = NoName
      <4>1. ~(\E i \in DOMAIN t : t[i].ssid = Bss(f, "radio").ssid)
        BY <1>1, <3>2 DEF TableIs
      <4>2. AddBss(t, Bss(f, "radio")) = t
        BY <1>1, <3>2, <4>1 DEF AddBss
      <4> QED BY <3>2, <4>2 DEF ParseBeacon
    <3> QED BY <1>4, <3>1, <3>2
  <2> QED BY <2>1, <2>2
<1> QED BY <1>3, <1>4

(* A scan's table is what its frames announce.                             *)
LEMMA ScanIs ==
  ASSUME NEW frames \in Seq(Frames)
  PROVE  TableIs(RtlScan(frames), HeardUpTo(frames, Len(frames)))
<1> DEFINE N == Len(frames)
           u == CHOOSE f : f = [k \in 0 .. N |-> IF k = 0 THEN <<>> ELSE ParseBeacon(f[k - 1], frames[k])]
           B == {k \in 0 .. N : ~TableIs(u[k], HeardUpTo(frames, k))}
<1>1. N \in Nat
  OBVIOUS
<1>2. RtlScan(frames) = u[N]
  BY DEF RtlScan
<1>3. u = [k \in 0 .. N |-> IF k = 0 THEN <<>> ELSE ParseBeacon(u[k - 1], frames[k])]
  BY TableExists
<1> HIDE DEF u
<1>4. u[0] = <<>>
  BY <1>1, <1>3
<1>5. \A k \in 0 .. N : k # 0 => u[k] = ParseBeacon(u[k - 1], frames[k])
  BY <1>3
<1>6. ASSUME B # {} PROVE FALSE
  <2>1. B \in SUBSET Nat
    OBVIOUS
  <2>2. PICK k \in B : \A l \in B : k <= l
    <3> HIDE DEF B
    <3> QED BY <1>6, <2>1, Smallest
  <2>3. k \in 0 .. N /\ ~TableIs(u[k], HeardUpTo(frames, k))
    BY <2>2
  <2>4. CASE k = 0
    <3>1. HeardUpTo(frames, 0) = {}
      BY DEF HeardUpTo
    <3> QED BY <1>4, <2>3, <2>4, <3>1, NothingHeard
  <2>5. CASE k # 0
    <3>1. k \in 1 .. N /\ k - 1 \in 0 .. N /\ ~(k <= k - 1)
      BY <2>3, <2>5
    <3>2. k - 1 \notin B
      <4> HIDE DEF B
      <4> QED BY <2>2, <3>1
    <3>3. TableIs(u[k - 1], HeardUpTo(frames, k - 1))
      BY <3>1, <3>2
    <3>4. TableIs(ParseBeacon(u[k - 1], frames[k]), HeardUpTo(frames, k))
      BY <3>1, <3>3, HeardStep
    <3> QED BY <1>5, <2>3, <2>5, <3>4
  <2> QED BY <2>4, <2>5
<1>7. N \notin B /\ N \in 0 .. N
  BY <1>1, <1>6
<1> QED BY <1>2, <1>7

-----------------------------------------------------------------------------
(* The lines *)

LEMMA LineIs ==
  ASSUME NEW l \in Lines
  PROVE  /\ l.k \in {"W1", ".", "K", "F", "junk", "entry"}
         /\ l.k = "entry" => l.net \in Nets /\ l = Entry(l.net)
<1>1. CASE l \in {Line(k) : k \in {"W1", ".", "K", "F", "junk"}}
  BY <1>1 DEF Line
<1>2. CASE l \in {Entry(n) : n \in Nets}
  BY <1>2 DEF Entry
<1> QED BY <1>1, <1>2 DEF Lines

LEMMA SomeLines ==
  /\ Junk \in Lines /\ Line("W1") \in Lines /\ Line(".") \in Lines
  /\ Line("K") \in Lines /\ Line("F") \in Lines
  /\ Junk.k = "junk" /\ \A k : Line(k).k = k
  /\ \A n \in HostNets : Entry(n) \in Lines
BY HostNetsAreNets DEF Lines, Junk, Line

LEMMA CutIsLines ==
  ASSUME NEW l \in Lines, NEW cut \in Cuts(l)
  PROVE  /\ cut.piece \in Lines /\ cut.rest \in Lines
         /\ l.k # "entry" => cut.piece \in {l, Junk}
<1>1. CASE cut = [piece |-> l, rest |-> Junk]
  BY <1>1, SomeLines
<1>2. CASE l.k = "W1" /\ cut = [piece |-> Junk, rest |-> Junk]
  BY <1>2, SomeLines
<1>3. CASE l.k = "entry" /\ cut # [piece |-> l, rest |-> Junk]
  <2>1. l.net \in Nets /\ Beginning(l.net) \in Lines
    BY <1>3, LineIs, SomeLines DEF Beginning
  <2>2. \/ cut = [piece |-> Entry([l.net EXCEPT !.sec = WPA]), rest |-> Junk]
        \/ cut = [piece |-> Beginning(l.net), rest |-> Junk]
        \/ \E name \in Remnants :
              cut = [piece |-> Beginning(l.net), rest |-> Entry([l.net EXCEPT !.ssid = name])]
    BY <1>3 DEF Cuts
  <2>3. Entry([l.net EXCEPT !.sec = WPA]) \in Lines
    BY <2>1, NetChanged DEF Lines
  <2>4. \A name \in Remnants : Entry([l.net EXCEPT !.ssid = name]) \in Lines
    BY <2>1, NetChanged DEF Lines
  <2>5. Junk \in Lines
    BY SomeLines
  <2>6. CASE cut = [piece |-> Entry([l.net EXCEPT !.sec = WPA]), rest |-> Junk]
    <3>1. cut.piece = Entry([l.net EXCEPT !.sec = WPA]) /\ cut.rest = Junk
      BY <2>6
    <3> QED BY <1>3, <2>3, <2>5, <3>1
  <2>7. CASE cut = [piece |-> Beginning(l.net), rest |-> Junk]
    <3>1. cut.piece = Beginning(l.net) /\ cut.rest = Junk
      BY <2>7
    <3> QED BY <1>3, <2>1, <2>5, <3>1
  <2>8. CASE \E name \in Remnants :
              cut = [piece |-> Beginning(l.net), rest |-> Entry([l.net EXCEPT !.ssid = name])]
    <3>1. PICK name \in Remnants :
              cut = [piece |-> Beginning(l.net), rest |-> Entry([l.net EXCEPT !.ssid = name])]
      BY <2>8
    <3>2. cut.piece = Beginning(l.net) /\ cut.rest = Entry([l.net EXCEPT !.ssid = name])
      BY <3>1
    <3> QED BY <1>3, <2>1, <2>4, <3>2
  <2> QED BY <2>2, <2>6, <2>7, <2>8
<1>4. CASE l.k \notin {"W1", "entry"}
  BY <1>1, <1>4 DEF Cuts
<1>5. CASE l.k = "W1"
  BY <1>1, <1>2, <1>5 DEF Cuts
<1> QED BY <1>1, <1>3, <1>4, <1>5

LEMMA FaultTyped ==
  ASSUME wifiFaults \in 0 .. MaxWifiFaults, WifiFault
  PROVE  wifiFaults' \in 0 .. MaxWifiFaults
BY WifiAssumption DEF WifiAssumption, WifiFault

(* What a line read is, and what it leaves.                                *)
LEMMA Taken ==
  ASSUME rx \in Seq(Lines), wifiFaults \in 0 .. MaxWifiFaults, NEW line, Take(line)
  PROVE  /\ rx # <<>> /\ Head(rx) \in Lines
         /\ line \in Lines /\ (Head(rx).k # "entry" => line \in {Head(rx), Junk})
         /\ rx' \in Seq(Lines)
         /\ wifiFaults' \in 0 .. MaxWifiFaults
<1>1. rx # <<>>
  BY DEF Take
<1>2. Head(rx) \in Lines /\ Tail(rx) \in Seq(Lines)
  BY <1>1
<1>3. CASE line = Head(rx) /\ rx' = Tail(rx) /\ UNCHANGED wifiFaults
  BY <1>1, <1>2, <1>3
<1>4. CASE /\ WifiFault
           /\ \E cut \in Cuts(Head(rx)) : line = cut.piece /\ rx' = <<cut.rest>> \o Tail(rx)
  <2>1. PICK cut \in Cuts(Head(rx)) : line = cut.piece /\ rx' = <<cut.rest>> \o Tail(rx)
    BY <1>4
  <2>2. /\ cut.piece \in Lines /\ cut.rest \in Lines
        /\ Head(rx).k # "entry" => cut.piece \in {Head(rx), Junk}
    BY <1>2, CutIsLines
  <2>3. <<cut.rest>> \o Tail(rx) \in Seq(Lines)
    BY <1>2, <2>2
  <2> QED BY <1>1, <1>2, <1>4, <2>1, <2>2, <2>3, FaultTyped
<1> QED BY <1>3, <1>4 DEF Take

LEMMA Waited ==
  ASSUME wifiFaults \in 0 .. MaxWifiFaults, GiveUp
  PROVE  rx' = rx /\ wifiFaults' \in 0 .. MaxWifiFaults
BY FaultTyped DEF GiveUp

LEMMA SeqOfSet ==
  ASSUME NEW T, IsFiniteSet(T)
  PROVE  /\ Cardinality(T) \in Nat
         /\ SetToSeq(T) \in [1 .. Cardinality(T) -> T]
<1>1. Cardinality(T) \in Nat /\ ExistsBijection(1 .. Cardinality(T), T)
  BY FS_CardinalityType
<1>2. \E f \in [1 .. Cardinality(T) -> T] : IsInjective(f)
  BY <1>1 DEF ExistsBijection, Bijection, Injection, IsInjective
<1> QED BY <1>1, <1>2 DEF SetToSeq

(* What a scan of the host writes.                                         *)
LEMMA ScanEntries ==
  ASSUME NEW seen \in SUBSET HostNets
  PROVE  [i \in 1 .. Cardinality(seen) |-> Entry(SetToSeq(seen)[i])] \in Seq(Lines)
<1>1. IsFiniteSet(seen)
  BY WifiAssumption, FS_Subset DEF WifiAssumption
<1>2. Cardinality(seen) \in Nat /\ SetToSeq(seen) \in [1 .. Cardinality(seen) -> seen]
  BY <1>1, SeqOfSet
<1> DEFINE n == Cardinality(seen)
           s == SetToSeq(seen)
           e == [i \in 1 .. n |-> Entry(s[i])]
<1>3. \A i \in 1 .. n : Entry(s[i]) \in Lines
  BY <1>2, SomeLines
<1> HIDE DEF s, n
<1>4. e \in [1 .. n -> Lines]
  BY <1>3
<1>5. e \in Seq(Lines)
  BY <1>2, <1>4 DEF n
<1> QED BY <1>5 DEF n, s

-----------------------------------------------------------------------------
(* The actions *)

LEMMA WifiInitInv == WifiInit => WifiInv
<1> SUFFICES ASSUME WifiInit PROVE WifiInv
  OBVIOUS
<1>1. TableIs(table, heard) /\ Len(table) = 0
  BY NothingHeard DEF WifiInit
<1>2. WifiTypeOK
  <2>1. \A i \in DOMAIN table : table[i].src \in {"radio", "host"} /\ table[i].ssid # NoName
    BY DEF WifiInit
  <2>2. {connected, radio, hostOk, wired, scanned, checking, netOk, quiet} \subseteq BOOLEAN
    BY DEF WifiInit
  <2>3. Len(table) <= TableMax /\ wifiFaults \in 0 .. MaxWifiFaults
    BY <1>1, WifiAssumption DEF WifiInit, WifiAssumption
  <2> QED BY <2>1, <2>2, <2>3 DEF WifiInit, WifiTypeOK
<1>3. rx \in Seq(Lines) /\ wire \in Seq(Lines)
  BY DEF WifiInit
<1>4. Waits /\ Told /\ VerdictIsCurrent
  BY DEF WifiInit, Waits, Told, VerdictIsCurrent
<1> QED BY <1>1, <1>2, <1>3, <1>4 DEF WifiInv

(* Only the host's side changed.                                           *)
LEMMA HostSide ==
  ASSUME WifiInv, UNCHANGED <<wlan, radio, hostOk, wired, waiting, onboarding, heard, quiet>>,
         rx' \in Seq(Lines), wire' \in Seq(Lines), last' \subseteq HostNets,
         wifiFaults' \in 0 .. MaxWifiFaults,
         waiting = "answer" /\ quiet => Asked',
         quiet /\ cmds = <<>> => cmds' = <<>> /\ said' = said,
         quiet /\ cmds # <<>> => ~connected \/ \E i \in 1 .. Len(table) :
             table[i].ssid = ssid /\ table[i].src = "radio" /\ table[i].sec = OPEN
  PROVE  WifiInv'
<1>1. WifiTypeOK'
  BY DEF WifiInv, WifiTypeOK, wlan, onboarding
<1>2. TableIs(table, heard)'
  BY DEF WifiInv, wlan
<1>3. Waits'
  BY DEF WifiInv, Waits, wlan, onboarding
<1>4. Told'
  <2> SUFFICES ASSUME connected PROVE Told'
    BY DEF Told, wlan
  <2>1. PICK i \in 1 .. Len(table) :
      /\ table[i].ssid = ssid
      /\ IF table[i].src = "radio" THEN table[i].sec = OPEN ELSE quiet => said = ssid /\ cmds = <<>>
    BY DEF WifiInv, Told
  <2>2. CASE quiet /\ cmds # <<>>
    BY <2>2 DEF Told, wlan
  <2>3. CASE ~(quiet /\ cmds # <<>>)
    BY <2>1, <2>3 DEF Told, wlan
  <2> QED BY <2>2, <2>3
<1>5. VerdictIsCurrent'
  BY DEF WifiInv, VerdictIsCurrent, wlan, onboarding, IsEth
<1> QED BY <1>1, <1>2, <1>3, <1>4, <1>5 DEF WifiInv

LEMMA ToldHost ==
  ASSUME WifiInv, quiet, cmds # <<>>
  PROVE  ~connected \/ \E i \in 1 .. Len(table) :
             table[i].ssid = ssid /\ table[i].src = "radio" /\ table[i].sec = OPEN
BY DEF WifiInv, Told

LEMMA HostServeInv == WifiInv /\ HostServe => WifiInv'
<1> SUFFICES ASSUME WifiInv, HostServe PROVE WifiInv'
  OBVIOUS
<1>1. /\ UNCHANGED <<wlan, radio, hostOk, wired, waiting, onboarding, heard, quiet>>
      /\ rx' = rx /\ wifiFaults' = wifiFaults /\ cmds # <<>> /\ cmds' = Tail(cmds)
  BY DEF HostServe, HostScan, HostConnect
<1>2. last' \subseteq HostNets /\ wire' \in Seq(Lines)
  <2>1. CASE HostScan
    <3>1. PICK seen \in SUBSET HostNets :
        /\ last' = seen
        /\ wire' = wire \o <<Line("W1")>> \o [i \in 1 .. Cardinality(seen) |-> Entry(SetToSeq(seen)[i])]
                         \o <<Line(".")>>
      BY <2>1 DEF HostScan
    <3> DEFINE e == [i \in 1 .. Cardinality(seen) |-> Entry(SetToSeq(seen)[i])]
    <3>2. e \in Seq(Lines)
      BY ScanEntries
    <3> HIDE DEF e
    <3>3. wire \in Seq(Lines)
      BY DEF WifiInv
    <3>4. wire \o <<Line("W1")>> \o e \o <<Line(".")>> \in Seq(Lines)
      BY <3>2, <3>3, SomeLines
    <3> QED BY <3>1, <3>4 DEF e
  <2>2. CASE HostConnect
    <3>1. PICK seen \in IF last = {} THEN SUBSET HostNets ELSE {last}, yes \in BOOLEAN :
        last' = seen /\ wire' = Append(wire, Line(IF yes THEN "K" ELSE "F"))
      BY <2>2 DEF HostConnect
    <3>2. seen \subseteq HostNets
      BY <3>1 DEF WifiInv, WifiTypeOK
    <3>3. Line(IF yes THEN "K" ELSE "F") \in Lines /\ wire \in Seq(Lines)
      BY SomeLines DEF WifiInv
    <3> QED BY <3>1, <3>2, <3>3
  <2> QED BY <2>1, <2>2 DEF HostServe
<1>3. waiting = "answer" /\ quiet => Asked'
  <2> SUFFICES ASSUME waiting = "answer", quiet PROVE Asked'
    OBVIOUS
  <2>1. cmds = <<[k |-> "C", net |-> table[net].ssid]>> /\ wire = <<>> /\ rx = <<>>
    BY <1>1 DEF WifiInv, Waits, Asked
  <2>2. HostConnect /\ cmds' = <<>> /\ Head(cmds).net = table[net].ssid
    BY <1>1, <2>1 DEF HostServe, HostScan
  <2>3. PICK yes \in BOOLEAN : /\ wire' = Append(wire, Line(IF yes THEN "K" ELSE "F"))
                               /\ said' = IF yes THEN Head(cmds).net ELSE NoName
    BY <2>2 DEF HostConnect
  <2>4. wire' = <<Line(IF yes THEN "K" ELSE "F")>>
    BY <2>1, <2>3
  <2>5. table' = table /\ net' = net
    BY <1>1 DEF wlan, onboarding
  <2>6. yes => said' = table'[net'].ssid
    BY <2>2, <2>3, <2>5
  <2>7. ASSUME NEW i \in 1 .. Len(wire') PROVE wire'[i].k = "F" \/ (wire'[i].k = "K" /\ said' = table'[net'].ssid)
    BY <2>4, <2>6 DEF Line
  <2>8. \A i \in 1 .. Len(rx') : FALSE
    BY <1>1, <2>1
  <2> QED BY <2>2, <2>7, <2>8 DEF Asked, Answers
<1> QED BY <1>1, <1>2, <1>3, ToldHost, HostSide DEF WifiInv, WifiTypeOK

LEMMA ArriveInv == WifiInv /\ Arrive => WifiInv'
<1> SUFFICES ASSUME WifiInv, Arrive PROVE WifiInv'
  OBVIOUS
<1>1. /\ UNCHANGED <<wlan, radio, hostOk, wired, waiting, onboarding, heard, quiet>>
      /\ cmds' = cmds /\ last' = last /\ said' = said /\ wifiFaults' = wifiFaults
      /\ wire # <<>> /\ wire' = Tail(wire) /\ rx' = Append(rx, Head(wire))
  BY DEF Arrive
<1>2. wire \in Seq(Lines) /\ rx \in Seq(Lines)
  BY DEF WifiInv
<1>3. wire' \in Seq(Lines) /\ rx' \in Seq(Lines) /\ last' \subseteq HostNets
  BY <1>1, <1>2 DEF WifiInv, WifiTypeOK
<1>4. waiting = "answer" /\ quiet => Asked'
  <2> SUFFICES ASSUME waiting = "answer", quiet PROVE Asked'
    OBVIOUS
  <2>1. cmds = <<>> /\ Answers(wire) /\ Answers(rx)
    BY <1>1 DEF WifiInv, Waits, Asked
  <2>2. table' = table /\ net' = net /\ said' = said
    BY <1>1 DEF wlan, onboarding
  <2>3. ASSUME NEW i \in 1 .. Len(wire') PROVE wire'[i].k = "F" \/ (wire'[i].k = "K" /\ said = table[net].ssid)
    <3>1. wire'[i] = wire[i + 1] /\ i + 1 \in 1 .. Len(wire)
      BY <1>1, <1>2
    <3> QED BY <3>1, <2>1 DEF Answers
  <2>4. ASSUME NEW i \in 1 .. Len(rx') PROVE rx'[i].k = "F" \/ (rx'[i].k = "K" /\ said = table[net].ssid)
    <3>1. CASE i \in 1 .. Len(rx)
      <4>1. rx'[i] = rx[i]
        BY <1>1, <1>2, <3>1
      <4> QED BY <4>1, <3>1, <2>1 DEF Answers
    <3>2. CASE i \notin 1 .. Len(rx)
      <4>1. rx'[i] = wire[1] /\ 1 \in 1 .. Len(wire)
        BY <1>1, <1>2, <3>2
      <4> QED BY <4>1, <2>1 DEF Answers
    <3> QED BY <3>1, <3>2
  <2> QED BY <1>1, <2>1, <2>2, <2>3, <2>4 DEF Asked, Answers
<1> QED BY <1>1, <1>3, <1>4, ToldHost, HostSide DEF WifiInv, WifiTypeOK

LEMMA HostReconnectInv == WifiInv /\ HostReconnect => WifiInv'
<1> SUFFICES ASSUME WifiInv, HostReconnect PROVE WifiInv'
  OBVIOUS
<1>1. /\ UNCHANGED <<wlan, radio, hostOk, wired, waiting, onboarding, heard, quiet>>
      /\ rx' = rx /\ last' = last /\ said' = said /\ cmds' = <<>> /\ wire' = <<>>
  BY DEF HostReconnect
<1>2. wifiFaults' \in 0 .. MaxWifiFaults
  BY FaultTyped DEF HostReconnect, WifiInv, WifiTypeOK
<1>3. wire' \in Seq(Lines) /\ rx' \in Seq(Lines) /\ last' \subseteq HostNets
  BY <1>1 DEF WifiInv, WifiTypeOK
<1>4. waiting = "answer" /\ quiet => Asked'
  <2> SUFFICES ASSUME waiting = "answer", quiet PROVE Asked'
    OBVIOUS
  <2>1. rx = <<>> \/ Answers(rx)
    BY DEF WifiInv, Waits, Asked
  <2>2. table' = table /\ net' = net /\ said' = said
    BY <1>1 DEF wlan, onboarding
  <2>3. Answers(rx)' /\ Answers(wire)'
    BY <1>1, <2>1, <2>2 DEF Answers
  <2> QED BY <1>1, <2>3 DEF Asked
<1> QED BY <1>1, <1>2, <1>3, <1>4, ToldHost, HostSide

LEMMA TableTyped ==
  ASSUME NEW t, NEW h, TableIs(t, h)
  PROVE  /\ Len(t) \in Nat /\ Len(t) <= TableMax /\ DOMAIN t = 1 .. Len(t)
         /\ \A i \in DOMAIN t : t[i] \in Rows /\ t[i].src \in {"radio", "host"} /\ t[i].ssid # NoName
<1>1. t \in Seq(Rows)
  BY DEF TableIs
<1>2. Len(t) \in Nat /\ DOMAIN t = 1 .. Len(t) /\ \A i \in DOMAIN t : t[i] \in Rows
  BY <1>1
<1> QED BY <1>2, RowHas DEF TableIs

LEMMA ScanInv == WifiInv /\ Scan => WifiInv'
<1> SUFFICES ASSUME WifiInv, Scan PROVE WifiInv'
  OBVIOUS
<1>1. /\ step = "wifi" /\ ~scanned /\ waiting = "no" /\ connected' = FALSE /\ ssid' = ssid
      /\ UNCHANGED <<radio, hostOk, wired, step, checking, elapsed, netOk, wire, last, said, wifiFaults>>
  BY DEF Scan
<1>2. PICK frames \in IF radio THEN SeqOf(Frames, MaxFrames) ELSE {<<>>} :
         /\ table' = RtlScan(frames)
         /\ heard' = {Bss(f, "radio") : f \in {g \in ToSet(frames) : g.beacon /\ g.ssid # NoName}}
         /\ IF table' = <<>> /\ hostOk
            THEN Send(Line("S")) /\ waiting' = "header" /\ UNCHANGED <<scanned, net>>
            ELSE Scanned /\ UNCHANGED <<rx, cmds, quiet, waiting>>
  BY DEF Scan
<1>3. frames \in Seq(Frames)
  <2>1. CASE frames \in SeqOf(Frames, MaxFrames)
    <3>1. PICK m \in 0 .. MaxFrames : frames \in [1 .. m -> Frames]
      BY <2>1 DEF SeqOf
    <3> QED BY <3>1, WifiAssumption DEF WifiAssumption
  <2>2. CASE frames = <<>>
    BY <2>2
  <2> QED BY <1>2, <2>1, <2>2
<1>4. TableIs(table, heard)'
  <2>1. ToSet(frames) = {frames[k] : k \in 1 .. Len(frames)}
    BY <1>3 DEF ToSet
  <2>2. heard' = HeardUpTo(frames, Len(frames))
    BY <1>2, <2>1 DEF HeardUpTo
  <2> QED BY <1>2, <1>3, <2>2, ScanIs
<1>5. /\ waiting' \in {"no", "header"} /\ quiet' \in BOOLEAN /\ rx' \in Seq(Lines)
      /\ scanned' \in BOOLEAN /\ net' \in Nat \ {0}
  <2>1. rx \in Seq(Lines) /\ {scanned, quiet} \subseteq BOOLEAN /\ net \in Nat \ {0}
    BY DEF WifiInv, WifiTypeOK
  <2>2. CASE Send(Line("S")) /\ waiting' = "header" /\ UNCHANGED <<scanned, net>>
    <3>1. rx' = <<>> /\ quiet' \in BOOLEAN
      BY <2>2 DEF Send
    <3> QED BY <2>1, <2>2, <3>1
  <2>3. CASE Scanned /\ UNCHANGED <<rx, cmds, quiet, waiting>>
    BY <1>1, <2>1, <2>3 DEF Scanned
  <2> QED BY <1>2, <2>2, <2>3
<1>6. WifiTypeOK'
  <2>1. Len(table') <= TableMax /\ \A i \in DOMAIN table' : table'[i].src \in {"radio", "host"} /\ table'[i].ssid # NoName
    BY <1>4, TableTyped
  <2> QED BY <1>1, <1>5, <2>1 DEF WifiInv, WifiTypeOK
<1>7. wire' \in Seq(Lines)
  BY <1>1 DEF WifiInv
<1>8. Waits' /\ Told' /\ VerdictIsCurrent'
  BY <1>1, <1>5 DEF Waits, Told, VerdictIsCurrent
<1> QED BY <1>4, <1>5, <1>6, <1>7, <1>8 DEF WifiInv

LEMMA ReadHeaderInv == WifiInv /\ ReadHeader => WifiInv'
<1> SUFFICES ASSUME WifiInv, ReadHeader PROVE WifiInv'
  OBVIOUS
<1>1. /\ waiting = "header"
      /\ UNCHANGED <<wlan, radio, hostOk, wired, step, checking, elapsed, netOk, host, heard, quiet>>
  BY DEF ReadHeader
<1>2. rx \in Seq(Lines) /\ wifiFaults \in 0 .. MaxWifiFaults /\ step = "wifi" /\ ~connected
  BY <1>1 DEF WifiInv, WifiTypeOK, Waits
<1>3. /\ waiting' \in {"no", "header", "entries"} /\ rx' \in Seq(Lines)
      /\ wifiFaults' \in 0 .. MaxWifiFaults /\ scanned' \in BOOLEAN /\ net' \in Nat \ {0}
  <2>1. ASSUME NEW line, Take(line), waiting' = IF line.k = "W1" THEN "entries" ELSE "header",
               UNCHANGED <<scanned, net>>
        PROVE  <1>3!:
    <3>1. rx' \in Seq(Lines) /\ wifiFaults' \in 0 .. MaxWifiFaults
      BY <1>2, <2>1, Taken
    <3> QED BY <2>1, <3>1 DEF WifiInv, WifiTypeOK
  <2>2. ASSUME GiveUp, waiting' = "no", Scanned PROVE <1>3!:
    BY <1>2, <2>2, Waited DEF Scanned
  <2> QED BY <2>1, <2>2 DEF ReadHeader
<1>4. WifiTypeOK'
  BY <1>1, <1>3 DEF WifiInv, WifiTypeOK, wlan, host
<1>5. TableIs(table, heard)' /\ wire' \in Seq(Lines)
  BY <1>1 DEF WifiInv, wlan, host
<1>6. Waits' /\ Told' /\ VerdictIsCurrent'
  BY <1>1, <1>2, <1>3 DEF Waits, Told, VerdictIsCurrent, wlan
<1> QED BY <1>3, <1>4, <1>5, <1>6 DEF WifiInv

LEMMA ReadEntryInv == WifiInv /\ ReadEntry => WifiInv'
<1> SUFFICES ASSUME WifiInv, ReadEntry PROVE WifiInv'
  OBVIOUS
<1>1. /\ waiting = "entries"
      /\ UNCHANGED <<connected, ssid, radio, hostOk, wired, step, checking, elapsed, netOk, host, quiet>>
  BY DEF ReadEntry
<1>2. /\ rx \in Seq(Lines) /\ wifiFaults \in 0 .. MaxWifiFaults /\ step = "wifi" /\ ~connected
      /\ TableIs(table, heard) /\ scanned \in BOOLEAN /\ net \in Nat \ {0}
  BY <1>1 DEF WifiInv, WifiTypeOK, Waits
<1>3. /\ waiting' \in {"no", "entries"} /\ rx' \in Seq(Lines) /\ TableIs(table', heard')
      /\ wifiFaults' \in 0 .. MaxWifiFaults /\ scanned' \in BOOLEAN /\ net' \in Nat \ {0}
  <2>1. ASSUME NEW line, Take(line),
               IF line.k = "entry" /\ line.net.ssid # NoName
               THEN /\ table' = AddBss(table, Bss(line.net, "host"))
                    /\ heard' = heard \cup {Bss(line.net, "host")}
               ELSE UNCHANGED <<table, heard>>,
               IF line.k = "." THEN waiting' = "no" /\ Scanned ELSE UNCHANGED <<waiting, scanned, net>>
        PROVE  <1>3!:
    <3>1. rx' \in Seq(Lines) /\ wifiFaults' \in 0 .. MaxWifiFaults /\ line \in Lines
      BY <1>2, <2>1, Taken
    <3>2. TableIs(table', heard')
      <4>1. CASE line.k = "entry" /\ line.net.ssid # NoName
        <5>1. line.net \in Nets
          BY <3>1, <4>1, LineIs
        <5>2. Bss(line.net, "host") \in Rows /\ Bss(line.net, "host").ssid # NoName
          BY <4>1, <5>1, HostNetIs, BssIsRow
        <5>3. TableIs(AddBss(table, Bss(line.net, "host")), heard \cup {Bss(line.net, "host")})
          BY <1>2, <5>2, AddKeeps
        <5> QED BY <2>1, <4>1, <5>3
      <4>2. CASE ~(line.k = "entry" /\ line.net.ssid # NoName)
        BY <1>2, <2>1, <4>2
      <4> QED BY <4>1, <4>2
    <3>3. waiting' \in {"no", "entries"} /\ scanned' \in BOOLEAN /\ net' \in Nat \ {0}
      <4>1. CASE waiting' = "no" /\ Scanned
        BY <4>1 DEF Scanned
      <4>2. CASE UNCHANGED <<waiting, scanned, net>>
        BY <1>1, <1>2, <4>2
      <4> QED BY <2>1, <4>1, <4>2
    <3> QED BY <3>1, <3>2, <3>3
  <2>2. ASSUME GiveUp, waiting' = "no", Scanned, UNCHANGED <<table, heard>> PROVE <1>3!:
    BY <1>2, <2>2, Waited DEF Scanned
  <2> QED BY <2>1, <2>2 DEF ReadEntry
<1>4. WifiTypeOK'
  <2>1. Len(table') <= TableMax /\ \A i \in DOMAIN table' : table'[i].src \in {"radio", "host"} /\ table'[i].ssid # NoName
    BY <1>3, TableTyped
  <2> QED BY <1>1, <1>3, <2>1 DEF WifiInv, WifiTypeOK, host
<1>5. wire' \in Seq(Lines)
  BY <1>1 DEF WifiInv, host
<1>6. Waits' /\ Told' /\ VerdictIsCurrent'
  BY <1>1, <1>2, <1>3 DEF Waits, Told, VerdictIsCurrent
<1> QED BY <1>3, <1>4, <1>5, <1>6 DEF WifiInv

(* Onboarding's own steps: nothing is under way and the table is as it was.*)
LEMMA ScreenSide ==
  ASSUME WifiInv, waiting = "no",
         UNCHANGED <<table, radio, hostOk, wired, rx, waiting, quiet, host, heard>>,
         connected' \in BOOLEAN, step' \in {"wifi", "check", "away"}, scanned' \in BOOLEAN,
         net' \in Nat \ {0}, checking' \in BOOLEAN, elapsed' \in Nat, netOk' \in BOOLEAN,
         wifiFaults' \in 0 .. MaxWifiFaults, Told', VerdictIsCurrent'
  PROVE  WifiInv'
<1>1. WifiTypeOK'
  BY DEF WifiInv, WifiTypeOK, host
<1>2. TableIs(table, heard)' /\ rx' \in Seq(Lines) /\ wire' \in Seq(Lines)
  BY DEF WifiInv, host
<1>3. Waits'
  BY DEF Waits
<1> QED BY <1>1, <1>2, <1>3 DEF WifiInv

LEMMA WifiTypes ==
  ASSUME WifiInv
  PROVE  /\ {connected, radio, hostOk, wired, scanned, checking, netOk, quiet} \subseteq BOOLEAN
         /\ step \in {"wifi", "check", "away"} /\ net \in Nat \ {0} /\ elapsed \in Nat
         /\ wifiFaults \in 0 .. MaxWifiFaults /\ Len(table) \in Nat
BY TableTyped DEF WifiInv, WifiTypeOK

LEMMA ToldStays ==
  ASSUME WifiInv, UNCHANGED <<table, connected, ssid, quiet, said, cmds>>
  PROVE  Told'
BY DEF WifiInv, Told

LEMMA Ticked ==
  ASSUME WifiInv, Tick
  PROVE  elapsed' \in Nat /\ checking' \in BOOLEAN
<1>1. PICK d \in Ticks : elapsed' = elapsed + d /\ checking' = (elapsed' < CheckSteps * CheckStep)
  BY DEF Tick
<1>2. d \in Nat /\ elapsed \in Nat
  BY WifiTypes, WifiAssumption DEF WifiAssumption
<1> QED BY <1>1, <1>2

LEMMA ArrowsInv == WifiInv /\ Arrows => WifiInv'
<1> SUFFICES ASSUME WifiInv, Arrows PROVE WifiInv'
  OBVIOUS
<1>1. /\ waiting = "no" /\ step = "wifi" /\ net' \in 1 .. NetCount
      /\ UNCHANGED <<wlan, step, scanned, checking, elapsed, netOk, waiting, radio, hostOk, wired,
                     heard, rx, quiet, host, wifiFaults>>
  BY DEF Arrows, Idle, NoTraffic
<1>2. net' \in Nat \ {0}
  BY <1>1, WifiTypes DEF NetCount
<1>3. Told'
  BY <1>1, ToldStays DEF wlan, host
<1>4. VerdictIsCurrent'
  BY <1>1 DEF VerdictIsCurrent
<1> QED BY <1>1, <1>2, <1>3, <1>4, WifiTypes, ScreenSide DEF wlan

LEMMA ConnectInv == WifiInv /\ Connect => WifiInv'
<1> SUFFICES ASSUME WifiInv, Connect PROVE WifiInv'
  OBVIOUS
<1>1. /\ waiting = "no" /\ step' = "check" /\ checking' = TRUE /\ elapsed' = 0 /\ netOk' = FALSE
      /\ UNCHANGED <<wlan, scanned, net, waiting, radio, hostOk, wired, heard, rx, quiet, host, wifiFaults>>
  BY DEF Connect, Idle, NoTraffic
<1>3. Told'
  BY <1>1, ToldStays DEF wlan, host
<1>4. VerdictIsCurrent'
  BY <1>1 DEF VerdictIsCurrent
<1> QED BY <1>1, <1>3, <1>4, WifiTypes, ScreenSide DEF wlan

LEMMA LeaveInv == WifiInv /\ Leave => WifiInv'
<1> SUFFICES ASSUME WifiInv, Leave PROVE WifiInv'
  OBVIOUS
<1>1. /\ waiting = "no" /\ step' \in {"wifi", "away"} /\ (net' = net \/ net' = 1)
      /\ UNCHANGED <<wlan, scanned, checking, elapsed, netOk, waiting, radio, hostOk, wired, heard,
                     rx, quiet, host, wifiFaults>>
  BY DEF Leave, Idle, NoTraffic
<1>3. Told'
  BY <1>1, ToldStays DEF wlan, host
<1>4. VerdictIsCurrent'
  BY <1>1 DEF VerdictIsCurrent
<1>5. net' \in Nat \ {0}
  BY <1>1, WifiTypes
<1> QED BY <1>1, <1>3, <1>4, <1>5, WifiTypes, ScreenSide DEF wlan

LEMMA ProbeWiredInv == WifiInv /\ ProbeWired => WifiInv'
<1> SUFFICES ASSUME WifiInv, ProbeWired PROVE WifiInv'
  OBVIOUS
<1>1. /\ waiting = "no" /\ IsEth /\ netOk' \in BOOLEAN /\ Tick
      /\ UNCHANGED <<wlan, step, scanned, net, waiting, radio, hostOk, wired, heard, rx, quiet, host,
                     wifiFaults>>
  BY DEF ProbeWired, Idle, NoTraffic, Verdict
<1>2. elapsed' \in Nat /\ checking' \in BOOLEAN
  BY <1>1, Ticked
<1>3. Told'
  BY <1>1, ToldStays DEF wlan, host
<1>4. VerdictIsCurrent'
  BY <1>1 DEF VerdictIsCurrent, IsEth, wlan
<1> QED BY <1>1, <1>2, <1>3, <1>4, WifiTypes, ScreenSide DEF wlan

LEMMA ProbeRadioInv == WifiInv /\ ProbeRadio => WifiInv'
<1> SUFFICES ASSUME WifiInv, ProbeRadio PROVE WifiInv'
  OBVIOUS
<1>1. PICK sent \in BOOLEAN :
        LET ok == sent /\ table[net].sec = OPEN
        IN  Associated(ok, table[net].ssid) /\ Verdict(ok)
  BY DEF ProbeRadio
<1>2. /\ waiting = "no" /\ net <= Len(table) /\ table[net].src = "radio" /\ Tick
      /\ UNCHANGED <<table, step, scanned, net, waiting, radio, hostOk, wired, heard, rx, quiet, host,
                     wifiFaults>>
  BY DEF ProbeRadio, Idle, NoTraffic
<1>3. elapsed' \in Nat /\ checking' \in BOOLEAN
  BY <1>2, Ticked
<1>4. net \in 1 .. Len(table)
  BY <1>2, WifiTypes
<1>5. /\ connected' \in BOOLEAN /\ netOk' \in BOOLEAN
      /\ netOk' => connected'
      /\ connected' => table[net].sec = OPEN /\ ssid' = table[net].ssid
  <2>1. CASE sent /\ table[net].sec = OPEN
    BY <1>1, <2>1 DEF Associated, Verdict
  <2>2. CASE ~(sent /\ table[net].sec = OPEN)
    BY <1>1, <2>2 DEF Associated, Verdict
  <2> QED BY <2>1, <2>2
<1>6. Told'
  BY <1>2, <1>4, <1>5 DEF Told
<1>7. VerdictIsCurrent'
  BY <1>2, <1>5 DEF VerdictIsCurrent
<1> QED BY <1>2, <1>3, <1>5, <1>6, <1>7, WifiTypes, ScreenSide

LEMMA ProgressInv == WifiInv /\ Progress => WifiInv'
<1> SUFFICES ASSUME WifiInv, Progress PROVE WifiInv'
  OBVIOUS
<1>1. /\ waiting = "no" /\ Tick
      /\ UNCHANGED <<wlan, step, scanned, net, netOk, waiting, radio, hostOk, wired, heard, rx, quiet,
                     host, wifiFaults>>
  BY DEF Progress, Idle, NoTraffic
<1>2. elapsed' \in Nat /\ checking' \in BOOLEAN
  BY <1>1, Ticked
<1>3. Told'
  BY <1>1, ToldStays DEF wlan, host
<1>4. VerdictIsCurrent'
  BY <1>1 DEF WifiInv, VerdictIsCurrent, IsEth, wlan
<1> QED BY <1>1, <1>2, <1>3, <1>4, WifiTypes, ScreenSide DEF wlan

LEMMA ProbeHostInv == WifiInv /\ ProbeHost => WifiInv'
<1> SUFFICES ASSUME WifiInv, ProbeHost PROVE WifiInv'
  OBVIOUS
<1>1. /\ waiting = "no" /\ step = "check" /\ net <= Len(table) /\ table[net].src = "host"
      /\ connected' = FALSE /\ waiting' = "answer" /\ rx' = <<>>
      /\ cmds' = Append(cmds, [k |-> "C", net |-> table[net].ssid])
      /\ quiet' = (cmds = <<>> /\ wire = <<>>)
      /\ UNCHANGED <<table, radio, hostOk, wired, onboarding, wire, last, said, heard, wifiFaults>>
  BY DEF ProbeHost, Probing, Associated, Send
<1>2. net \in 1 .. Len(table)
  BY <1>1, WifiTypes
<1>3. quiet' \in BOOLEAN
  BY <1>1
<1>4. WifiTypeOK'
  BY <1>1, <1>3 DEF WifiInv, WifiTypeOK, onboarding
<1>5. TableIs(table, heard)' /\ rx' \in Seq(Lines) /\ wire' \in Seq(Lines)
  BY <1>1 DEF WifiInv
<1>6. quiet' => Asked'
  <2> SUFFICES ASSUME quiet' PROVE Asked'
    OBVIOUS
  <2>1. cmds = <<>> /\ wire' = <<>>
    BY <1>1
  <2>2. cmds' = <<[k |-> "C", net |-> table[net].ssid]>>
    BY <1>1, <2>1
  <2>3. table' = table /\ net' = net
    BY <1>1 DEF onboarding
  <2> QED BY <1>1, <2>1, <2>2, <2>3 DEF Asked
<1>7. Waits'
  BY <1>1, <1>2, <1>6 DEF Waits, onboarding
<1>8. Told' /\ VerdictIsCurrent'
  BY <1>1 DEF Told, VerdictIsCurrent
<1> QED BY <1>4, <1>5, <1>7, <1>8 DEF WifiInv

LEMMA ReadAnswerInv == WifiInv /\ ReadAnswer => WifiInv'
<1> SUFFICES ASSUME WifiInv, ReadAnswer PROVE WifiInv'
  OBVIOUS
<1>1. /\ waiting = "answer" /\ waiting' = "no" /\ Tick
      /\ UNCHANGED <<table, radio, hostOk, wired, step, scanned, net, host, heard, quiet>>
  BY DEF ReadAnswer
<1>2. /\ rx \in Seq(Lines) /\ wifiFaults \in 0 .. MaxWifiFaults
      /\ net \in 1 .. Len(table) /\ table[net].src = "host" /\ (quiet => Asked)
  BY <1>1 DEF WifiInv, WifiTypeOK, Waits
<1>3. elapsed' \in Nat /\ checking' \in BOOLEAN
  BY <1>1, Ticked
<1>4. /\ connected' \in BOOLEAN /\ netOk' \in BOOLEAN /\ rx' \in Seq(Lines)
      /\ wifiFaults' \in 0 .. MaxWifiFaults
      /\ netOk' => connected'
      /\ connected' => ssid' = table[net].ssid /\ (quiet => said = table[net].ssid /\ cmds = <<>>)
  <2>1. ASSUME NEW line, Take(line), Associated(BeginsWithK(line), table[net].ssid), Verdict(BeginsWithK(line))
        PROVE  <1>4!:
    <3>1. /\ rx # <<>> /\ Head(rx) = rx[1] /\ (rx[1].k # "entry" => line \in {rx[1], Junk})
          /\ rx' \in Seq(Lines) /\ wifiFaults' \in 0 .. MaxWifiFaults
      BY <1>2, <2>1, Taken
    <3>2. CASE BeginsWithK(line)
      <4>1. ASSUME quiet PROVE said = table[net].ssid /\ cmds = <<>>
        <5>1. cmds = <<>> /\ Answers(rx)
          BY <1>2, <4>1, <3>1 DEF Asked
        <5>2. 1 \in 1 .. Len(rx)
          BY <1>2, <3>1
        <5>3. rx[1].k = "F" \/ (rx[1].k = "K" /\ said = table[net].ssid)
          BY <5>1, <5>2 DEF Answers
        <5>4. line \in {rx[1], Junk}
          BY <3>1, <5>3
        <5>5. line = rx[1]
          BY <5>4, <3>2, SomeLines DEF BeginsWithK
        <5> QED BY <5>1, <5>3, <5>5, <3>2 DEF BeginsWithK
      <4> QED BY <2>1, <3>1, <3>2, <4>1 DEF Associated, Verdict
    <3>3. CASE ~BeginsWithK(line)
      <4>1. netOk' = FALSE
        BY <2>1, <3>3 DEF Verdict
      <4>2. connected' = FALSE
        BY <2>1, <3>3 DEF Associated, BeginsWithK
      <4> QED BY <3>1, <4>1, <4>2
    <3> QED BY <3>2, <3>3
  <2>2. ASSUME GiveUp, Associated(FALSE, NoName), Verdict(FALSE) PROVE <1>4!:
    BY <1>2, <2>2, Waited DEF Associated, Verdict
  <2> QED BY <2>1, <2>2 DEF ReadAnswer
<1>5. WifiTypeOK'
  BY <1>1, <1>3, <1>4 DEF WifiInv, WifiTypeOK, host
<1>6. TableIs(table, heard)' /\ wire' \in Seq(Lines)
  BY <1>1 DEF WifiInv, host
<1>7. Waits'
  BY <1>1 DEF Waits
<1>8. Told'
  BY <1>1, <1>2, <1>4 DEF Told, host
<1>9. VerdictIsCurrent'
  BY <1>1, <1>4 DEF VerdictIsCurrent
<1> QED BY <1>4, <1>5, <1>6, <1>7, <1>8, <1>9 DEF WifiInv

LEMMA RestartInv == WifiInv /\ Restart => WifiInv'
<1> SUFFICES ASSUME WifiInv, Restart PROVE WifiInv'
  OBVIOUS
<1>1. /\ table' = <<>> /\ heard' = {} /\ rx' = <<>> /\ waiting' = "no" /\ connected' = FALSE
      /\ step' = "away" /\ scanned' = FALSE /\ net' = 1
      /\ checking' = FALSE /\ elapsed' = 0 /\ netOk' = FALSE /\ quiet' = TRUE
      /\ UNCHANGED <<radio, hostOk, wired, host>>
  BY DEF Restart
<1>2. wifiFaults' \in 0 .. MaxWifiFaults
  BY FaultTyped, WifiTypes DEF Restart
<1>3. TableIs(table, heard)'
  BY <1>1, NothingHeard
<1>4. WifiTypeOK'
  <2>1. Len(table') <= TableMax /\ \A i \in DOMAIN table' : table'[i].src \in {"radio", "host"} /\ table'[i].ssid # NoName
    BY <1>3, TableTyped
  <2>2. {connected, radio, hostOk, wired, scanned, checking, netOk, quiet}' \subseteq BOOLEAN
    BY <1>1, WifiTypes
  <2> QED BY <1>1, <1>2, <2>1, <2>2 DEF WifiInv, WifiTypeOK, host
<1>5. rx' \in Seq(Lines) /\ wire' \in Seq(Lines)
  BY <1>1 DEF WifiInv, host
<1>6. Waits' /\ Told' /\ VerdictIsCurrent'
  BY <1>1 DEF Waits, Told, VerdictIsCurrent
<1> QED BY <1>3, <1>4, <1>5, <1>6 DEF WifiInv

LEMMA WifiRests ==
  ASSUME WifiInv, UNCHANGED wifiVars
  PROVE  WifiInv'
<1>1. WifiTypeOK'
  BY DEF WifiInv, WifiTypeOK, wifiVars, wlan, onboarding, host
<1>2. TableIs(table, heard)' /\ rx' \in Seq(Lines) /\ wire' \in Seq(Lines)
  BY DEF WifiInv, wifiVars, wlan, host
<1>3. Waits'
  BY DEF WifiInv, Waits, Asked, Answers, wifiVars, wlan, onboarding, host
<1>4. Told' /\ VerdictIsCurrent'
  BY DEF WifiInv, Told, VerdictIsCurrent, IsEth, wifiVars, wlan, onboarding, host
<1> QED BY <1>1, <1>2, <1>3, <1>4 DEF WifiInv

LEMMA WifiAlways == WifiSpec => []WifiInv
<1>1. WifiInv /\ [WifiNext]_wifiVars => WifiInv'
  BY HostServeInv, ArriveInv, HostReconnectInv, ScanInv, ReadHeaderInv, ReadEntryInv, ArrowsInv,
     ConnectInv, LeaveInv, ProbeWiredInv, ProbeRadioInv, ProbeHostInv, ReadAnswerInv, ProgressInv,
     RestartInv, WifiRests DEF WifiNext
<1> QED BY WifiInitInv, <1>1, PTL DEF WifiSpec

(* However often, from whichever source and in whatever order a network is *)
(* heard, and whatever lines are cut on their way, the table of wlan.c has *)
(* one row for it with the best signal and the strictest security heard    *)
(* under its name, and only a full table leaves one out: for every set of  *)
(* networks and frames and every size of the table.                        *)
THEOREM NetworkTableIsTrue == WifiSpec => []NetworkTable
<1>1. WifiInv => NetworkTable
  <2> SUFFICES ASSUME WifiInv PROVE TableTrue
    BY DEF WifiInv, NetworkTable
  <2> DEFINE Same(b) == {h \in heard : h.ssid = b.ssid}
             Named(name) == {i \in DOMAIN table : table[i].ssid = name}
  <2>1. TableIs(table, heard) /\ DOMAIN table = 1 .. Len(table)
    BY TableTyped DEF WifiInv
  <2>2. ASSUME NEW i \in DOMAIN table
        PROVE  /\ Named(table[i].ssid) = {i}
               /\ \E h \in Same(table[i]) : h.sec = table[i].sec
               /\ \E h \in Same(table[i]) : h.quality = table[i].quality
               /\ \A h \in Same(table[i]) : h.sec <= table[i].sec /\ h.quality <= table[i].quality
    <3>1. \A j \in DOMAIN table : table[j].ssid = table[i].ssid => j = i
      BY <2>1 DEF TableIs
    <3>2. Named(table[i].ssid) = {i}
      BY <3>1
    <3>3. /\ \E b \in heard : b.ssid = table[i].ssid /\ b.sec = table[i].sec
          /\ \E b \in heard : b.ssid = table[i].ssid /\ b.quality = table[i].quality
          /\ \A b \in heard : b.ssid = table[i].ssid => b.sec <= table[i].sec /\ b.quality <= table[i].quality
      BY <2>1 DEF TableIs
    <3> QED BY <3>2, <3>3
  <2>3. ASSUME NEW h \in heard PROVE Named(h.ssid) # {} \/ Len(table) = TableMax
    BY <2>1 DEF TableIs
  <2> QED BY <2>2, <2>3 DEF TableTrue
<1> QED BY WifiAlways, <1>1, PTL

(* For every set of networks, and however the host's lines are cut or lost   *)
(* and the check is left and begun again: the driver claims a connection    *)
(* only if the host said K to this very question, unless something older    *)
(* was outstanding when it was asked, and the screen claims only what the   *)
(* driver does.                                                             *)
THEOREM VerdictStaysTrue == WifiSpec => []VerdictIsTrue
<1>1. WifiInv => VerdictIsTrue
  <2> SUFFICES ASSUME WifiInv PROVE ConnectedIsTrue
    BY DEF WifiInv, VerdictIsTrue
  <2>1. DOMAIN table = 1 .. Len(table) /\ Told
    BY TableTyped DEF WifiInv
  <2> QED BY <2>1 DEF Told, ConnectedIsTrue
<1> QED BY WifiAlways, <1>1, PTL

-----------------------------------------------------------------------------
(* The bus *)
Ops == {"setup", "data", "status", "in", "out"}
Peers == [on : BOOLEAN, addr : Nat, asked : Requests \cup {"none"}, to : Nat, conf : BOOLEAN,
          in : {0, 1}, out : {0, 1}, sent : Nat]
Ctrls == [kind : {"ctrl"}, addr : Nat, req : Requests, value : Nat]
Bulks == [kind : {"in", "out"}, addr : Nat]
Data == (0 .. NPorts) \X (Requests \cup {"none"})

\* The descriptors of a transfer.
OpsOf(c) == IF c.kind = "ctrl" THEN CtrlOps(c.req) ELSE <<c.kind>>

Typed ==
  /\ plugged \in [AllPorts -> {"none", "low", "high"}] /\ bus \in [AllPorts -> Peers]
  /\ qtd \in [1 .. 3 -> [op : Ops \cup {"none"}, st : {"active", "done", "halted"}]] /\ nQtd \in 0 .. 3
  /\ call \in {NoCall} \cup Ctrls \cup Bulks
  /\ hc \in {NoWork} \cup [k : 1 .. 3, op : Ops, call : Ctrls \cup Bulks]
  /\ buf \in Data /\ desc \in Data /\ cfg \in Data /\ bounce \in (0 .. NPorts) \X Nat
  /\ at \in Requests \cup {"ports", "up"} /\ port \in 1 .. NPorts + 1
  /\ devices \in Seq([desc : Data, cfg : Data]) /\ Len(devices) <= USB_MAX_DEV
  /\ handed \in [AllPorts -> Nat] /\ bulks \in Nat
  /\ again \in BOOLEAN /\ unheard \in BOOLEAN /\ loose \in BOOLEAN /\ astray \in BOOLEAN

\* No address beyond the next one is given, by what is under way either.
Addressed ==
  /\ \A d \in AllPorts : bus[d].addr <= Len(devices) + 1 /\ bus[d].to <= Len(devices) + 1
  /\ hc # NoWork /\ hc.op = "setup" => hc.call \in Ctrls /\ hc.call.value <= Len(devices) + 1

\* Whose transfer it is.
Turns ==
  /\ at \in Requests => port <= NPorts /\ Len(devices) < USB_MAX_DEV
  /\ call # NoCall =>
       /\ nQtd = Len(OpsOf(call)) /\ \A k \in 1 .. nQtd : qtd[k].op = OpsOf(call)[k]
       /\ \/ /\ at \in Requests
             /\ call = [kind |-> "ctrl", addr |-> CtrlAddr, req |-> at, value |-> Len(devices) + 1]
          \/ at = "up" /\ call \in Bulks
  /\ at # "up" => \A d \in AllPorts : handed[d] = 0

\* The controller is at the transfer that is linked, and takes its descriptors in order.
Attached ==
  ~loose =>
    /\ hc # NoWork =>
         /\ hc.call = call /\ hc.k \in 1 .. nQtd
         /\ qtd[hc.k].st = "active" /\ qtd[hc.k].op = hc.op
         /\ \A j \in 1 .. nQtd : j < hc.k => qtd[j].st = "done"
    /\ call # NoCall => \A j, k \in 1 .. nQtd : j < k /\ qtd[k].st # "active" => qtd[j].st = "done"

FramesKept ==
  ~loose =>
    /\ ~again
    /\ \A d \in AllPorts : handed[d] <= bus[d].sent
    /\ call.kind = "in" /\ qtd[1].st = "done" =>
         /\ bounce[1] \in AllPorts
         /\ handed[bounce[1]] < bounce[2] /\ bounce[2] <= bus[bounce[1]].sent

\* The address the device at the port has.
Given == IF at \in {"desc8", "setaddr"} /\ ~(at = "setaddr" /\ call # NoCall /\ qtd[2].st = "done")
         THEN 0 ELSE Len(devices) + 1

\* Device d is entry i of the table.
IsEntry(d, i) ==
  /\ bus[d].on /\ bus[d].addr = i /\ bus[d].conf
  /\ devices[i].desc = <<d, "desc18">> /\ devices[i].cfg \in {<<d, "cfg9">>, <<d, "cfg">>}

Registered ==
  ~loose /\ ~astray =>
    /\ \A i \in 1 .. Len(devices) : \E d \in AllPorts : d < port /\ IsEntry(d, i)
    /\ \A d \in AllPorts : bus[d].on =>
         (d < port /\ bus[d].addr \in 1 .. Len(devices)) \/ (d = port /\ at \in Requests /\ bus[d].addr = Given)
    /\ \A d, e \in AllPorts : bus[d].on /\ bus[e].on /\ bus[d].addr = bus[e].addr => d = e

\* What the device at the port and the driver know when so much of a request is through.
Known ==
  ~loose /\ ~astray /\ at \in Requests =>
    /\ bus[port].on
    /\ call # NoCall /\ qtd[1].st = "done" /\ qtd[nQtd].st # "done" =>
         bus[port].asked = at /\ (at = "setaddr" => bus[port].to = Len(devices) + 1)
    /\ call # NoCall /\ at \in Reads /\ qtd[2].st = "done" => buf = <<port, at>>
    /\ call # NoCall /\ at = "setcfg" /\ qtd[2].st = "done" => bus[port].conf
    /\ at \in {"cfg9", "cfg", "setcfg"} => desc = <<port, "desc18">>
    /\ at = "cfg" => cfg = <<port, "cfg9">>
    /\ at = "setcfg" => cfg \in {<<port, "cfg9">>, <<port, "cfg">>}

UsbInv == Typed /\ Addressed /\ Turns /\ Attached /\ FramesKept /\ Registered /\ Known

LEMMA Kinds ==
  ASSUME Typed
  PROVE  /\ call # NoCall => call \in Ctrls \cup Bulks
         /\ call.kind = "ctrl" => call \in Ctrls /\ call # NoCall
         /\ call.kind \in {"in", "out"} => call \in Bulks /\ call # NoCall
         /\ call \in Ctrls => call.kind = "ctrl" /\ call # NoCall
         /\ call \in Bulks => call.kind \in {"in", "out"} /\ call # NoCall
         /\ NoCall.kind = "none"
BY DEF Typed, NoCall, Ctrls, Bulks

LEMMA Works ==
  ASSUME Typed, hc # NoWork
  PROVE  hc.k \in 1 .. 3 /\ hc.op \in Ops /\ hc.call \in Ctrls \cup Bulks
BY DEF Typed

LEMMA WorkRecord ==
  ASSUME NEW k \in 1 .. 3, NEW op \in Ops, NEW c \in Ctrls \cup Bulks
  PROVE  LET w == [k |-> k, op |-> op, call |-> c]
         IN  /\ w \in [k : 1 .. 3, op : Ops, call : Ctrls \cup Bulks] /\ w # NoWork
             /\ w.k = k /\ w.op = op /\ w.call = c
BY DEF NoWork

LEMMA CtrlOpsAre ==
  ASSUME NEW req \in Requests
  PROVE  /\ req \in Reads =>
              /\ CtrlOps(req) = <<"setup", "data", "status">> /\ Len(CtrlOps(req)) = 3
              /\ CtrlOps(req)[1] = "setup" /\ CtrlOps(req)[2] = "data" /\ CtrlOps(req)[3] = "status"
         /\ req \notin Reads =>
              /\ CtrlOps(req) = <<"setup", "status">> /\ Len(CtrlOps(req)) = 2
              /\ CtrlOps(req)[1] = "setup" /\ CtrlOps(req)[2] = "status"
         /\ Len(CtrlOps(req)) \in 2 .. 3
         /\ \A k \in 1 .. Len(CtrlOps(req)) : CtrlOps(req)[k] \in {"setup", "data", "status"}
<1>1. CASE req \in Reads
  <2>1. CtrlOps(req) = <<"setup", "data", "status">>
    BY <1>1 DEF CtrlOps
  <2> QED BY <1>1, <2>1
<1>2. CASE req \notin Reads
  <2>1. CtrlOps(req) = <<"setup", "status">>
    BY <1>2 DEF CtrlOps
  <2> QED BY <1>2, <2>1
<1> QED BY <1>1, <1>2

LEMMA OpsAre ==
  ASSUME NEW c \in Ctrls \cup Bulks
  PROVE  /\ c \in Ctrls => c.req \in Requests /\ OpsOf(c) = CtrlOps(c.req) /\ c.kind = "ctrl"
         /\ c \in Bulks => c.kind \in {"in", "out"} /\ OpsOf(c) = <<c.kind>> /\ Len(OpsOf(c)) = 1 /\ OpsOf(c)[1] = c.kind
         /\ Len(OpsOf(c)) \in 1 .. 3
         /\ \A k \in 1 .. Len(OpsOf(c)) : OpsOf(c)[k] \in Ops
<1>1. CASE c \in Ctrls
  <2>1. c.req \in Requests /\ OpsOf(c) = CtrlOps(c.req) /\ c.kind = "ctrl"
    BY <1>1 DEF Ctrls, OpsOf
  <2>2. c \notin Bulks
    BY <2>1 DEF Bulks
  <2> QED BY <2>1, <2>2, CtrlOpsAre DEF Ops
<1>2. CASE c \in Bulks
  <2>1. c.kind \in {"in", "out"} /\ OpsOf(c) = <<c.kind>>
    BY <1>2 DEF Bulks, OpsOf
  <2>2. c \notin Ctrls
    BY <2>1 DEF Ctrls
  <2> QED BY <1>2, <2>1, <2>2 DEF Ops
<1> QED BY <1>1, <1>2

\* The states of the descriptors.
LEMMA States ==
  ASSUME Typed
  PROVE  /\ nQtd \in 0 .. 3
         /\ \A k \in 1 .. 3 : /\ qtd[k].st \in {"active", "done", "halted"}
                              /\ qtd[k].op \in Ops \cup {"none"}
                              /\ qtd[k] = [op |-> qtd[k].op, st |-> qtd[k].st]
BY DEF Typed

LEMMA PeerIs ==
  ASSUME Typed, NEW d \in AllPorts
  PROVE  /\ bus[d] \in Peers /\ bus[d].addr \in Nat /\ bus[d].to \in Nat /\ bus[d].sent \in Nat
         /\ bus[d].in \in {0, 1} /\ bus[d].out \in {0, 1}
         /\ bus[d].asked \in Requests \cup {"none"} /\ bus[d].on \in BOOLEAN /\ bus[d].conf \in BOOLEAN
BY DEF Typed, Peers

LEMMA DisabledIs ==
  /\ Disabled \in Peers /\ [Disabled EXCEPT !.on = TRUE] \in Peers
  /\ Disabled.on = FALSE /\ Disabled.addr = 0 /\ Disabled.to = 0 /\ Disabled.sent = 0
  /\ [Disabled EXCEPT !.on = TRUE].on = TRUE /\ [Disabled EXCEPT !.on = TRUE].addr = 0
  /\ [Disabled EXCEPT !.on = TRUE].to = 0 /\ [Disabled EXCEPT !.on = TRUE].sent = 0
BY DEF Disabled, Peers

LEMMA Bounds == /\ NPorts \in Nat /\ USB_MAX_DEV \in Nat /\ MaxBulk \in Nat /\ MaxUsbFaults \in Nat
                /\ \A d \in AllPorts : d \in Nat
BY UsbAssumption DEF UsbAssumption, AllPorts

LEMMA UsbInitInv == UsbInit => UsbInv
<1> SUFFICES ASSUME UsbInit PROVE UsbInv
  OBVIOUS
<1>1. Typed
  <2>1. plugged \in [AllPorts -> {"none", "low", "high"}] /\ bus \in [AllPorts -> Peers]
    BY DisabledIs DEF UsbInit
  <2>2. /\ qtd \in [1 .. 3 -> [op : Ops \cup {"none"}, st : {"active", "done", "halted"}]] /\ nQtd \in 0 .. 3
    BY DEF UsbInit
  <2>3. buf \in Data /\ desc \in Data /\ cfg \in Data /\ bounce \in (0 .. NPorts) \X Nat
    BY Bounds DEF UsbInit, Data, Nobody
  <2>4. handed \in [AllPorts -> Nat] /\ port \in 1 .. NPorts + 1
    BY Bounds DEF UsbInit
  <2>5. devices \in Seq([desc : Data, cfg : Data]) /\ Len(devices) <= USB_MAX_DEV
    BY Bounds DEF UsbInit
  <2> QED BY <2>1, <2>2, <2>3, <2>4, <2>5 DEF UsbInit, Typed
<1>2. Addressed
  BY DisabledIs DEF UsbInit, Addressed
<1>3. Turns
  BY DEF UsbInit, Turns, Requests, Reads
<1>4. Attached
  BY DEF UsbInit, Attached
<1>5. FramesKept
  BY DisabledIs DEF UsbInit, FramesKept, NoCall
<1>6. Registered
  BY DisabledIs DEF UsbInit, Registered
<1>7. Known
  BY DEF UsbInit, Known, Requests, Reads
<1> QED BY <1>1, <1>2, <1>3, <1>4, <1>5, <1>6, <1>7 DEF UsbInv

LEMMA UsbRestsInv == UsbInv /\ UNCHANGED usbVars => UsbInv'
<1> SUFFICES ASSUME UsbInv, UNCHANGED usbVars PROVE UsbInv'
  OBVIOUS
<1> USE DEF usbVars, enumVars, ghosts
<1>1. Typed'
  BY DEF UsbInv, Typed
<1>2. Addressed' /\ Turns' /\ Attached' /\ FramesKept'
  BY DEF UsbInv, Addressed, Turns, CtrlAddr, Attached, FramesKept
<1>6. Registered'
  BY DEF UsbInv, Registered, Given, IsEntry
<1>7. Known'
  BY DEF UsbInv, Known
<1> QED BY <1>1, <1>2, <1>6, <1>7 DEF UsbInv

-----------------------------------------------------------------------------
(* The driver begins a transfer *)

\* qtd_fill: the descriptors of the transfer wait, in order.
LEMMA Filled ==
  ASSUME Typed, NEW c \in Ctrls \cup Bulks, NEW ops, ops = OpsOf(c), Fill(ops)
  PROVE  /\ qtd' \in [1 .. 3 -> [op : Ops \cup {"none"}, st : {"active", "done", "halted"}]]
         /\ nQtd' \in 1 .. 3 /\ nQtd' = Len(OpsOf(c))
         /\ \A k \in 1 .. nQtd' : qtd'[k].op = OpsOf(c)[k] /\ qtd'[k].st = "active"
<1>1. /\ Len(ops) \in 1 .. 3 /\ \A k \in 1 .. Len(ops) : ops[k] \in Ops
  BY OpsAre
<1>2. nQtd' = Len(ops)
  BY DEF Fill
<1>3. \A k \in 1 .. 3 : qtd'[k] = IF k <= Len(ops) THEN [op |-> ops[k], st |-> "active"] ELSE qtd[k]
  BY DEF Fill
<1>4. \A k \in 1 .. 3 : qtd'[k] \in [op : Ops \cup {"none"}, st : {"active", "done", "halted"}]
  BY <1>1, <1>3 DEF Typed
<1>5. qtd' \in [1 .. 3 -> [op : Ops \cup {"none"}, st : {"active", "done", "halted"}]]
  BY <1>4 DEF Fill
<1>6. \A k \in 1 .. nQtd' : qtd'[k].op = ops[k] /\ qtd'[k].st = "active"
  BY <1>1, <1>2, <1>3
<1> QED BY <1>1, <1>2, <1>5, <1>6

LEMMA UsbCtrlInv == UsbInv /\ UsbCtrl => UsbInv'
<1> SUFFICES ASSUME UsbInv, UsbCtrl PROVE UsbInv'
  OBVIOUS
<1> DEFINE c == [kind |-> "ctrl", addr |-> CtrlAddr, req |-> at, value |-> Len(devices) + 1]
<1>1. /\ at \in Requests /\ call = NoCall /\ call' = c /\ Fill(CtrlOps(at))
      /\ UNCHANGED <<plugged, bus, hc, buf, bounce, at, port, desc, cfg, devices, astray,
                     handed, again, unheard, loose, bulks, usbFaults>>
  BY DEF UsbCtrl, enumVars, ghosts
<1>2. Typed /\ Addressed /\ Turns /\ Attached /\ FramesKept /\ Registered /\ Known
  BY DEF UsbInv
<1>3. Len(devices) \in Nat
  BY <1>2 DEF Typed
<1>4. c \in Ctrls /\ CtrlOps(at) = OpsOf(c) /\ c.kind = "ctrl" /\ c.req = at
  BY <1>1, <1>3 DEF CtrlAddr, Ctrls, OpsOf
<1> HIDE DEF c
<1>5. /\ qtd' \in [1 .. 3 -> [op : Ops \cup {"none"}, st : {"active", "done", "halted"}]]
      /\ nQtd' \in 1 .. 3 /\ nQtd' = Len(OpsOf(c))
      /\ \A k \in 1 .. nQtd' : qtd'[k].op = OpsOf(c)[k] /\ qtd'[k].st = "active"
  BY <1>1, <1>2, <1>4, Filled
<1>6. Typed'
  BY <1>1, <1>2, <1>4, <1>5 DEF Typed
<1>7. Addressed'
  BY <1>1, <1>2 DEF Addressed
<1>8. Turns'
  <2>1. c' = c /\ CtrlAddr' = CtrlAddr
    BY <1>1 DEF c, CtrlAddr
  <2>2. call' = [kind |-> "ctrl", addr |-> CtrlAddr, req |-> at, value |-> Len(devices) + 1]'
    BY <1>1, <2>1 DEF c
  <2> QED BY <1>1, <1>2, <1>4, <1>5, <2>2 DEF Turns
<1>9. Attached'
  BY <1>1, <1>2, <1>5, Works, Kinds DEF Attached
<1>10. FramesKept'
  BY <1>1, <1>2, <1>4, <1>5 DEF FramesKept
<1>q. at \in Reads \/ at \in {"setaddr", "setcfg"}
  BY <1>1 DEF Requests
<1>n. nQtd' \in 2 .. 3
  BY <1>1, <1>4, <1>5, CtrlOpsAre
<1>11. Registered'
  <2>1. Given' = Given
    BY <1>1, <1>5, <1>n DEF Given
  <2> QED BY <1>1, <1>2, <2>1 DEF Registered, IsEntry
<1>12. Known'
  BY <1>1, <1>2, <1>5, <1>n DEF Known
<1> QED BY <1>6, <1>7, <1>8, <1>9, <1>10, <1>11, <1>12 DEF UsbInv

LEMMA UsbBulkInv ==
  ASSUME UsbInv, NEW kind \in {"in", "out"}, NEW addr \in DOMAIN devices, UsbBulk(kind, addr)
  PROVE  UsbInv'
<1> DEFINE c == [kind |-> kind, addr |-> addr]
<1>1. /\ at = "up" /\ call = NoCall /\ call' = c /\ Fill(<<kind>>) /\ bulks' = bulks + 1
      /\ bounce' = IF kind = "out" THEN <<Nobody, bulks'>> ELSE bounce
      /\ UNCHANGED <<plugged, bus, hc, buf, at, port, desc, cfg, devices, astray,
                     handed, again, unheard, loose, usbFaults>>
  BY DEF UsbBulk, enumVars, ghosts
<1>2. Typed /\ Addressed /\ Turns /\ Attached /\ FramesKept /\ Registered /\ Known
  BY DEF UsbInv
<1>3. addr \in Nat
  BY <1>2 DEF Typed
<1>4. c \in Bulks /\ <<kind>> = OpsOf(c) /\ c.kind = kind
  BY <1>3 DEF Bulks, OpsOf
<1> HIDE DEF c
<1>5. /\ qtd' \in [1 .. 3 -> [op : Ops \cup {"none"}, st : {"active", "done", "halted"}]]
      /\ nQtd' \in 1 .. 3 /\ nQtd' = Len(OpsOf(c))
      /\ \A k \in 1 .. nQtd' : qtd'[k].op = OpsOf(c)[k] /\ qtd'[k].st = "active"
  BY <1>1, <1>2, <1>4, Filled
<1>b. bounce' \in (0 .. NPorts) \X Nat /\ bulks' \in Nat
  BY <1>1, <1>2, Bounds DEF Typed, Nobody
<1>6. Typed'
  BY <1>1, <1>2, <1>4, <1>5, <1>b DEF Typed
<1>7. Addressed'
  BY <1>1, <1>2 DEF Addressed
<1>8. Turns'
  BY <1>1, <1>2, <1>4, <1>5 DEF Turns
<1>9. Attached'
  BY <1>1, <1>2, <1>5, Works, Kinds DEF Attached
<1>10. FramesKept'
  BY <1>1, <1>2, <1>4, <1>5 DEF FramesKept
<1>n. at \notin Requests
  BY <1>1 DEF Requests, Reads
<1>11. Registered'
  BY <1>1, <1>2, <1>n DEF Registered, IsEntry
<1>12. Known'
  BY <1>1, <1>n DEF Known
<1> QED BY <1>6, <1>7, <1>8, <1>9, <1>10, <1>11, <1>12 DEF UsbInv

-----------------------------------------------------------------------------
(* The driver at the ports *)

\* At the ports no transfer is linked.
LEMMA AtPorts ==
  ASSUME UsbInv, at = "ports"
  PROVE  call = NoCall /\ at \notin Requests
BY Kinds DEF UsbInv, Turns, Requests, Reads

LEMMA PortsDoneInv == UsbInv /\ PortsDone => UsbInv'
<1> SUFFICES ASSUME UsbInv, PortsDone PROVE UsbInv'
  OBVIOUS
<1>1. /\ at = "ports" /\ at' = "up"
      /\ UNCHANGED <<plugged, bus, qtd, nQtd, call, hc, buf, bounce, port, desc, cfg, devices,
                   astray, handed, again, unheard, loose, bulks, usbFaults>>
  BY DEF PortsDone, ghosts
<1>2. Typed /\ Addressed /\ Turns /\ Attached /\ FramesKept /\ Registered /\ Known
  BY DEF UsbInv
<1>3. call = NoCall /\ at \notin Requests /\ at' \notin Requests
  BY <1>1, AtPorts DEF Requests, Reads
<1>4. Typed'
  BY <1>1, <1>2 DEF Typed
<1>5. Addressed' /\ Turns' /\ Attached' /\ FramesKept'
  BY <1>1, <1>2, <1>3 DEF Addressed, Turns, Attached, FramesKept
<1>6. Registered' /\ Known'
  BY <1>1, <1>2, <1>3 DEF Registered, IsEntry, Known
<1> QED BY <1>4, <1>5, <1>6 DEF UsbInv

LEMMA PortResetInv == UsbInv /\ PortReset => UsbInv'
<1> SUFFICES ASSUME UsbInv, PortReset PROVE UsbInv'
  OBVIOUS
<1> DEFINE R == [Disabled EXCEPT !.on = TRUE]
<1>1. /\ at = "ports" /\ port <= NPorts
      /\ UNCHANGED <<plugged, qtd, nQtd, call, hc, buf, bounce, cfg, devices, handed, again, unheard,
                     loose, bulks, usbFaults>>
  BY DEF PortReset, ghosts
<1>2. Typed /\ Addressed /\ Turns /\ Attached /\ FramesKept /\ Registered /\ Known
  BY DEF UsbInv
<1>3. call = NoCall /\ at \notin Requests /\ NoCall.kind = "none"
  BY <1>1, <1>2, AtPorts, Kinds
<1>4. port \in AllPorts /\ port \in Nat /\ Len(devices) \in Nat
  BY <1>1, <1>2, Bounds DEF Typed, AllPorts
<1>5. \/ /\ bus' = [bus EXCEPT ![port] = R] /\ Len(devices) < USB_MAX_DEV
         /\ at' = "desc8" /\ desc' = <<Nobody, "none">> /\ UNCHANGED <<port, astray>>
      \/ /\ bus' = [bus EXCEPT ![port] = R]
         /\ at' = "ports" /\ port' = port + 1 /\ astray' = TRUE /\ UNCHANGED desc
      \/ at' = "ports" /\ port' = port + 1 /\ UNCHANGED <<bus, desc, astray>>
  BY <1>4, Bounds DEF PortReset, NextPort
<1>6. /\ R \in Peers /\ R.on = TRUE /\ R.addr = 0 /\ R.to = 0 /\ R.sent = 0
  BY DisabledIs
<1> HIDE DEF R
<1>7. /\ bus' \in [AllPorts -> Peers] /\ desc' \in Data /\ port' \in 1 .. NPorts + 1
      /\ at' \in Requests \cup {"ports", "up"} /\ astray' \in BOOLEAN
  <2>1. bus' \in [AllPorts -> Peers]
    BY <1>2, <1>5, <1>6 DEF Typed
  <2>2. desc' \in Data
    BY <1>2, <1>5, Bounds DEF Typed, Data, Nobody
  <2>3. port' \in 1 .. NPorts + 1 /\ astray' \in BOOLEAN
    <3>1. port \in 1 .. NPorts + 1 /\ astray \in BOOLEAN
      BY <1>2 DEF Typed
    <3>2. port' \in {port, port + 1} /\ astray' \in {astray, TRUE}
      BY <1>5
    <3>3. port' \in 1 .. NPorts + 1
      BY <1>1, <1>4, <3>1, <3>2, Bounds
    <3>4. astray' \in BOOLEAN
      BY <3>1, <3>2
    <3> QED BY <3>3, <3>4
  <2>4. at' \in Requests \cup {"ports", "up"}
    BY <1>5 DEF Requests, Reads
  <2> QED BY <2>1, <2>2, <2>3, <2>4
<1>8. Typed'
  BY <1>1, <1>2, <1>7 DEF Typed
<1>9. \A d \in AllPorts : bus'[d] = bus[d] \/ bus'[d] = R
  BY <1>2, <1>5 DEF Typed
<1>10. Addressed'
  <2>1. \A d \in AllPorts : bus[d].addr <= Len(devices) + 1 /\ bus[d].to <= Len(devices) + 1
    BY <1>2 DEF Addressed
  <2>2. \A d \in AllPorts : bus'[d].addr <= Len(devices) + 1 /\ bus'[d].to <= Len(devices) + 1
    <3> SUFFICES ASSUME NEW d \in AllPorts
                 PROVE  bus'[d].addr <= Len(devices) + 1 /\ bus'[d].to <= Len(devices) + 1
      OBVIOUS
    <3>1. CASE bus'[d] = bus[d]
      BY <2>1, <3>1
    <3>2. CASE bus'[d] = R
      BY <1>4, <1>6, <3>2
    <3> QED BY <1>9, <3>1, <3>2
  <2> QED BY <1>1, <1>2, <2>2 DEF Addressed
<1>11. Turns'
  BY <1>1, <1>2, <1>3, <1>5 DEF Turns, Requests, Reads
<1>12. Attached'
  BY <1>1, <1>2 DEF Attached
<1>13. FramesKept'
  <2>1. \A d \in AllPorts : handed'[d] = 0 /\ bus'[d].sent \in Nat
    BY <1>1, <1>2, <1>7 DEF Turns, Peers
  <2> QED BY <1>1, <1>2, <1>3, <2>1 DEF FramesKept
<1>14. ASSUME ~loose', ~astray' PROVE
         /\ \A i \in 1 .. Len(devices') : \E d \in AllPorts : d < port' /\ IsEntry(d, i)'
         /\ \A d \in AllPorts : bus'[d].on =>
              (d < port' /\ bus'[d].addr \in 1 .. Len(devices')) \/ (d = port' /\ at' \in Requests /\ bus'[d].addr = Given')
         /\ \A d, e \in AllPorts : bus'[d].on /\ bus'[e].on /\ bus'[d].addr = bus'[e].addr => d = e
         /\ at' \in Requests => bus'[port'].on
  <2>1. ~loose /\ ~astray
    BY <1>1, <1>5, <1>14
  <2>2. /\ \A i \in 1 .. Len(devices) : \E d \in AllPorts : d < port /\ IsEntry(d, i)
        /\ \A d \in AllPorts : bus[d].on => d < port /\ bus[d].addr \in 1 .. Len(devices)
        /\ \A d, e \in AllPorts : bus[d].on /\ bus[e].on /\ bus[d].addr = bus[e].addr => d = e
    BY <1>2, <1>3, <2>1 DEF Registered
  <2>3. CASE at' = "ports" /\ port' = port + 1 /\ UNCHANGED <<bus, desc, astray>>
    <3>1. \A d \in AllPorts : d < port => d < port'
      BY <2>3, <1>4, Bounds
    <3>2. \A i \in 1 .. Len(devices') : \E d \in AllPorts : d < port' /\ IsEntry(d, i)'
      BY <1>1, <2>2, <2>3, <3>1 DEF IsEntry
    <3>3. at' \notin Requests
      BY <2>3 DEF Requests, Reads
    <3> QED BY <1>1, <2>2, <2>3, <3>1, <3>2, <3>3
  <2>4. CASE /\ bus' = [bus EXCEPT ![port] = R] /\ Len(devices) < USB_MAX_DEV
             /\ at' = "desc8" /\ desc' = <<Nobody, "none">> /\ UNCHANGED <<port, astray>>
    <3>1. bus'[port] = R /\ \A d \in AllPorts : d # port => bus'[d] = bus[d]
      BY <2>4, <1>2, <1>4 DEF Typed
    <3>2. \A i \in 1 .. Len(devices') : \E d \in AllPorts : d < port' /\ IsEntry(d, i)'
      <4>1. \A d \in AllPorts : d < port => d # port
        BY <1>4, Bounds
      <4> QED BY <1>1, <2>2, <2>4, <3>1, <4>1 DEF IsEntry
    <3>3. Given' = 0 /\ at' \in Requests
      BY <2>4 DEF Given, Requests, Reads
    <3>4. \A d \in AllPorts : bus'[d].on =>
              (d < port' /\ bus'[d].addr \in 1 .. Len(devices')) \/ (d = port' /\ at' \in Requests /\ bus'[d].addr = Given')
      BY <1>1, <2>2, <2>4, <3>1, <3>3, <1>6
    <3>5. \A d, e \in AllPorts : bus'[d].on /\ bus'[e].on /\ bus'[d].addr = bus'[e].addr => d = e
      BY <2>2, <3>1, <1>6
    <3> QED BY <2>4, <3>1, <3>2, <3>4, <3>5, <1>6
  <2> QED BY <1>5, <1>14, <2>3, <2>4
<1>15. Registered'
  BY <1>14 DEF Registered
<1>16. Known'
  <2>1. at' \in Requests => at' = "desc8"
    BY <1>5 DEF Requests, Reads
  <2>2. call' = NoCall
    BY <1>1, <1>3
  <2> QED BY <1>14, <2>1, <2>2 DEF Known
<1> QED BY <1>8, <1>10, <1>11, <1>12, <1>13, <1>15, <1>16 DEF UsbInv

-----------------------------------------------------------------------------
(* The driver ends a transfer *)

LEMMA Unlinked ==
  ASSUME UsbInv, Unlink
  PROVE  /\ call' = NoCall /\ NoCall.kind = "none" /\ loose' \in BOOLEAN
         /\ ~loose' => ~loose /\ hc = NoWork
BY Kinds DEF UsbInv, Typed, Unlink

\* A transfer that is done has every descriptor done.
LEMMA AllDone ==
  ASSUME UsbInv, Done
  PROVE  \A k \in 1 .. nQtd : qtd[k].st = "done"
<1>1. ASSUME NEW k \in 1 .. nQtd PROVE qtd[k].st = "done"
  <2>1. k \in 1 .. 3 /\ qtd[k].st \in {"active", "done", "halted"}
    BY States DEF UsbInv
  <2>2. qtd[k].st # "active" /\ qtd[k].st # "halted"
    BY DEF Done, Pending, Halted
  <2> QED BY <2>1, <2>2
<1> QED BY <1>1

\* The request a control transfer is for.
LEMMA CtrlIs ==
  ASSUME UsbInv, call \in Ctrls
  PROVE  /\ at \in Requests /\ call.addr = CtrlAddr /\ call.req = at /\ call.value = Len(devices) + 1
         /\ port \in AllPorts /\ Len(devices) < USB_MAX_DEV /\ call # NoCall
         /\ OpsOf(call) = CtrlOps(at) /\ nQtd = Len(CtrlOps(at))
         /\ \A k \in 1 .. nQtd : qtd[k].op = CtrlOps(at)[k]
<1>1. call # NoCall /\ call \notin Bulks /\ call.kind = "ctrl"
  BY Kinds DEF UsbInv
<1>2. /\ at \in Requests
      /\ call = [kind |-> "ctrl", addr |-> CtrlAddr, req |-> at, value |-> Len(devices) + 1]
      /\ nQtd = Len(OpsOf(call)) /\ \A k \in 1 .. nQtd : qtd[k].op = OpsOf(call)[k]
      /\ port <= NPorts /\ Len(devices) < USB_MAX_DEV
  BY <1>1 DEF UsbInv, Turns
<1>3. port \in AllPorts
  BY <1>2, Bounds DEF UsbInv, Typed, AllPorts
<1> QED BY <1>1, <1>2, <1>3 DEF OpsOf

LEMMA BulkIs ==
  ASSUME UsbInv, call \in Bulks
  PROVE  /\ at = "up" /\ at \notin Requests /\ call # NoCall /\ nQtd = 1 /\ qtd[1].op = call.kind
<1>1. call # NoCall /\ call.kind # "ctrl" /\ call \notin Ctrls
  BY Kinds DEF UsbInv
<1>2. /\ nQtd = Len(OpsOf(call)) /\ \A k \in 1 .. nQtd : qtd[k].op = OpsOf(call)[k]
  BY <1>1 DEF UsbInv, Turns
<1>3. at = "up"
  BY <1>1 DEF UsbInv, Turns
<1>4. at \notin Requests
  BY <1>3 DEF Requests, Reads
<1> QED BY <1>1, <1>2, <1>3, <1>4, OpsAre

LEMMA BulkEnds ==
  ASSUME UsbInv, call \in Bulks, Unlink,
         UNCHANGED <<plugged, bus, qtd, nQtd, hc, buf, bounce, enumVars, bulks>>,
         handed' \in [AllPorts -> Nat], again' \in BOOLEAN, unheard' \in BOOLEAN,
         ~loose' => ~again' /\ \A d \in AllPorts : handed'[d] <= bus[d].sent
  PROVE  UsbInv'
<1>1. /\ at = "up" /\ at \notin Requests /\ call' = NoCall /\ NoCall.kind = "none"
      /\ loose' \in BOOLEAN /\ (~loose' => ~loose /\ hc = NoWork)
  BY BulkIs, Unlinked
<1>2. Typed /\ Addressed /\ Turns /\ Attached /\ FramesKept /\ Registered /\ Known
  BY DEF UsbInv
<1> USE DEF enumVars
<1>3. Typed'
  BY <1>1, <1>2 DEF Typed
<1>4. Addressed' /\ Turns' /\ Attached'
  BY <1>1, <1>2 DEF Addressed, Turns, Attached
<1>5. FramesKept'
  BY <1>1 DEF FramesKept
<1>6. Registered' /\ Known'
  BY <1>1, <1>2 DEF Registered, IsEntry, Known
<1> QED BY <1>3, <1>4, <1>5, <1>6 DEF UsbInv

LEMMA BulkFailedInv == UsbInv /\ BulkFailed => UsbInv'
<1> SUFFICES ASSUME UsbInv, BulkFailed PROVE UsbInv'
  OBVIOUS
<1>1. /\ call \in Bulks /\ Unlink
      /\ UNCHANGED <<plugged, bus, qtd, nQtd, hc, buf, bounce, enumVars, bulks>>
      /\ UNCHANGED <<handed, again, unheard>>
  BY Kinds DEF BulkFailed, ghosts, UsbInv
<1>2. handed \in [AllPorts -> Nat] /\ again \in BOOLEAN /\ unheard \in BOOLEAN
  BY DEF UsbInv, Typed
<1>3. ~loose' => ~again /\ \A d \in AllPorts : handed[d] <= bus[d].sent
  BY <1>1, Unlinked DEF UsbInv, FramesKept
<1> QED BY <1>1, <1>2, <1>3, BulkEnds

LEMMA BulkDoneInv == UsbInv /\ BulkDone => UsbInv'
<1> SUFFICES ASSUME UsbInv, BulkDone PROVE UsbInv'
  OBVIOUS
<1>1. /\ call \in Bulks /\ Unlink /\ Done
      /\ UNCHANGED <<plugged, bus, qtd, nQtd, hc, buf, bounce, enumVars, bulks>>
      /\ unheard' = unheard
  BY Kinds DEF BulkDone, UsbInv
<1>2. handed \in [AllPorts -> Nat] /\ again \in BOOLEAN /\ unheard \in BOOLEAN
      /\ bounce[1] \in 0 .. NPorts /\ bounce[2] \in Nat
  BY DEF UsbInv, Typed
<1>3. nQtd = 1 /\ qtd[1].st = "done"
  BY <1>1, BulkIs, AllDone
<1>4. CASE call.kind = "in" /\ bounce[1] # Nobody
  <2>1. /\ again' = (again \/ bounce[2] <= handed[bounce[1]])
        /\ handed' = [handed EXCEPT ![bounce[1]] = bounce[2]]
    BY <1>4 DEF BulkDone
  <2>2. bounce[1] \in AllPorts
    BY <1>2, <1>4, Bounds DEF AllPorts, Nobody
  <2>3. handed' \in [AllPorts -> Nat] /\ again' \in BOOLEAN
    BY <1>2, <2>1, <2>2
  <2>4. ASSUME ~loose' PROVE ~again' /\ \A d \in AllPorts : handed'[d] <= bus[d].sent
    <3>1. ~loose
      BY <1>1, <2>4, Unlinked
    <3>2. /\ ~again /\ \A d \in AllPorts : handed[d] <= bus[d].sent
          /\ handed[bounce[1]] < bounce[2] /\ bounce[2] <= bus[bounce[1]].sent
      BY <1>3, <1>4, <3>1 DEF UsbInv, FramesKept
    <3>3. handed[bounce[1]] \in Nat
      BY <1>2, <2>2
    <3>4. ~(bounce[2] <= handed[bounce[1]])
      BY <1>2, <3>2, <3>3
    <3>5. \A d \in AllPorts : handed'[d] = IF d = bounce[1] THEN bounce[2] ELSE handed[d]
      BY <1>2, <2>1
    <3> QED BY <2>1, <3>2, <3>4, <3>5
  <2> QED BY <1>1, <1>2, <2>3, <2>4, BulkEnds
<1>5. CASE ~(call.kind = "in" /\ bounce[1] # Nobody)
  <2>1. UNCHANGED <<again, handed>>
    BY <1>5 DEF BulkDone
  <2>2. ~loose' => ~again /\ \A d \in AllPorts : handed[d] <= bus[d].sent
    BY <1>1, Unlinked DEF UsbInv, FramesKept
  <2> QED BY <1>1, <1>2, <2>1, <2>2, BulkEnds
<1> QED BY <1>4, <1>5

(* What the driver has read of a device.                                   *)
LEMMA NextPorts ==
  ASSUME UsbInv, call \in Ctrls
  PROVE  port + 1 \in 1 .. NPorts + 1 /\ port \in Nat /\ \A d \in AllPorts : d < port \/ d = port => d < port + 1
BY CtrlIs, Bounds DEF AllPorts, UsbInv, Typed

LEMMA CtrlFailedInv == UsbInv /\ CtrlFailed => UsbInv'
<1> SUFFICES ASSUME UsbInv, CtrlFailed PROVE UsbInv'
  OBVIOUS
<1>1. /\ call \in Ctrls /\ Unlink
      /\ IF at = "cfg" THEN at' = "setcfg" /\ UNCHANGED <<port, astray>>
         ELSE at' = "ports" /\ port' = port + 1 /\ astray' = TRUE
      /\ UNCHANGED <<plugged, bus, qtd, nQtd, hc, buf, bounce, desc, cfg, devices, handed, again, unheard, bulks>>
  BY Kinds DEF CtrlFailed, NextPort, ghosts, UsbInv
<1>2. Typed /\ Addressed /\ Turns /\ Attached /\ FramesKept /\ Registered /\ Known
  BY DEF UsbInv
<1>3. /\ at \in Requests /\ port \in AllPorts /\ Len(devices) < USB_MAX_DEV
      /\ call' = NoCall /\ NoCall.kind = "none" /\ loose' \in BOOLEAN
      /\ (~loose' => ~loose /\ hc = NoWork) /\ at # "up" /\ at' # "up"
      /\ at' \in Requests \cup {"ports", "up"}
  BY <1>1, CtrlIs, Unlinked DEF Requests, Reads
<1>4. port' \in 1 .. NPorts + 1 /\ astray' \in BOOLEAN
  <2>1. port \in 1 .. NPorts + 1 /\ port + 1 \in 1 .. NPorts + 1 /\ astray \in BOOLEAN
    BY <1>1, <1>2, NextPorts DEF Typed
  <2> QED BY <1>1, <2>1
<1>5. Typed'
  BY <1>1, <1>2, <1>3, <1>4 DEF Typed
<1>6. Addressed' /\ Attached'
  BY <1>1, <1>2, <1>3 DEF Addressed, Attached
<1>7. Turns'
  <2>1. at' \in Requests => port' <= NPorts
    BY <1>1, <1>2, <1>3 DEF Turns, Requests, Reads
  <2> QED BY <1>1, <1>2, <1>3, <2>1 DEF Turns
<1>8. FramesKept'
  BY <1>1, <1>2, <1>3 DEF FramesKept
<1>9. CASE at = "cfg"
  <2>1. at' = "setcfg" /\ at' \in Requests /\ UNCHANGED <<port, astray>>
    BY <1>1, <1>9 DEF Requests
  <2>2. Given = Len(devices) + 1 /\ Given' = Len(devices) + 1
    BY <1>1, <1>9, <2>1 DEF Given
  <2>3. Registered'
    BY <1>1, <1>2, <1>3, <2>1, <2>2 DEF Registered, IsEntry
  <2>4. Known'
    BY <1>1, <1>2, <1>3, <1>9, <2>1 DEF Known
  <2> QED BY <1>5, <1>6, <1>7, <1>8, <2>3, <2>4 DEF UsbInv
<1>10. CASE at # "cfg"
  <2>1. astray'
    BY <1>1, <1>10
  <2>2. Registered' /\ Known'
    BY <2>1 DEF Registered, Known
  <2> QED BY <1>5, <1>6, <1>7, <1>8, <2>2 DEF UsbInv
<1> QED BY <1>9, <1>10

LEMMA CtrlDoneInv == UsbInv /\ CtrlDone => UsbInv'
<1> SUFFICES ASSUME UsbInv, CtrlDone PROVE UsbInv'
  OBVIOUS
<1>1. /\ call \in Ctrls /\ Unlink /\ Done
      /\ desc' = IF at \in {"desc8", "desc18"} THEN buf ELSE desc
      /\ cfg' = IF at \in {"cfg9", "cfg"} THEN buf ELSE cfg
      /\ IF at = "setcfg" THEN devices' = Append(devices, Device) /\ at' = "ports" /\ port' = port + 1
         ELSE at' \in After(at) /\ UNCHANGED <<port, devices>>
      /\ UNCHANGED <<plugged, bus, qtd, nQtd, hc, buf, bounce, handed, again, unheard, astray, bulks>>
  BY Kinds DEF CtrlDone, NextPort, ghosts, UsbInv
<1>2. Typed /\ Addressed /\ Turns /\ Attached /\ FramesKept /\ Registered /\ Known
  BY DEF UsbInv
<1>3. /\ at \in Requests /\ port \in AllPorts /\ Len(devices) < USB_MAX_DEV /\ call # NoCall
      /\ call' = NoCall /\ NoCall.kind = "none" /\ loose' \in BOOLEAN
      /\ (~loose' => ~loose /\ hc = NoWork) /\ at # "up"
  BY <1>1, CtrlIs, Unlinked DEF Requests, Reads
<1>4. Len(devices) \in Nat /\ nQtd \in 2 .. 3 /\ qtd[1].st = "done" /\ qtd[2].st = "done" /\ qtd[nQtd].st = "done"
  <2>1. nQtd \in 2 .. 3
    BY <1>1, CtrlIs, CtrlOpsAre
  <2>2. 1 \in 1 .. nQtd /\ 2 \in 1 .. nQtd /\ nQtd \in 1 .. nQtd
    BY <2>1
  <2> QED BY <1>1, <1>2, <2>1, <2>2, AllDone DEF Typed
<1>5. desc' \in Data /\ cfg' \in Data
  BY <1>1, <1>2 DEF Typed
<1>6. CASE at = "setcfg"
  <2>1. devices' = Append(devices, Device) /\ at' = "ports" /\ port' = port + 1 /\ desc' = desc /\ cfg' = cfg
    BY <1>1, <1>6
  <2>2. Device \in [desc : Data, cfg : Data] /\ Device.desc = desc /\ Device.cfg = cfg
    BY <1>2 DEF Device, Typed
  <2>3. /\ devices' \in Seq([desc : Data, cfg : Data]) /\ Len(devices') = Len(devices) + 1
        /\ \A i \in 1 .. Len(devices) : devices'[i] = devices[i]
        /\ devices'[Len(devices) + 1] = Device
    BY <1>2, <2>1, <2>2 DEF Typed
  <2>4. Len(devices') <= USB_MAX_DEV
    BY <1>3, <1>4, <2>3, Bounds
  <2>5. port' \in 1 .. NPorts + 1 /\ at' \notin Requests /\ at' # "up"
    BY <1>1, <2>1, NextPorts DEF Requests, Reads
  <2>6. Typed'
    BY <1>1, <1>2, <1>3, <2>1, <2>3, <2>4, <2>5 DEF Typed
  <2>7. Addressed'
    <3>1. ASSUME NEW d \in AllPorts PROVE bus'[d].addr <= Len(devices') + 1 /\ bus'[d].to <= Len(devices') + 1
      <4>1. bus[d].addr <= Len(devices) + 1 /\ bus[d].to <= Len(devices) + 1
        BY <1>2 DEF Addressed
      <4> QED BY <1>1, <1>2, <1>4, <2>3, <4>1, PeerIs
    <3>2. ASSUME hc # NoWork, hc.op = "setup" PROVE hc.call \in Ctrls /\ hc.call.value <= Len(devices') + 1
      <4>1. hc.call \in Ctrls /\ hc.call.value <= Len(devices) + 1
        BY <1>2, <3>2 DEF Addressed
      <4>2. hc.call.value \in Nat
        BY <4>1 DEF Ctrls
      <4> QED BY <1>4, <2>3, <4>1, <4>2
    <3> QED BY <1>1, <3>1, <3>2 DEF Addressed
  <2>8. Turns' /\ Attached' /\ FramesKept'
    BY <1>1, <1>2, <1>3, <2>5 DEF Turns, Attached, FramesKept
  <2>9. Known'
    BY <2>5 DEF Known
  <2>10. ASSUME ~loose', ~astray'
         PROVE /\ \A i \in 1 .. Len(devices') : \E d \in AllPorts : d < port' /\ IsEntry(d, i)'
               /\ \A d \in AllPorts : bus'[d].on => d < port' /\ bus'[d].addr \in 1 .. Len(devices')
               /\ \A d, e \in AllPorts : bus'[d].on /\ bus'[e].on /\ bus'[d].addr = bus'[e].addr => d = e
    <3>1. ~loose /\ ~astray
      BY <1>1, <1>3, <2>10
    <3>2. Given = Len(devices) + 1
      BY <1>6 DEF Given
    <3>3. /\ \A i \in 1 .. Len(devices) : \E d \in AllPorts : d < port /\ IsEntry(d, i)
          /\ \A d \in AllPorts : bus[d].on => (d < port /\ bus[d].addr \in 1 .. Len(devices)) \/ (d = port /\ bus[d].addr = Len(devices) + 1)
          /\ \A d, e \in AllPorts : bus[d].on /\ bus[e].on /\ bus[d].addr = bus[e].addr => d = e
      BY <1>2, <3>1, <3>2 DEF Registered
    <3>4. /\ bus[port].on /\ bus[port].conf /\ desc = <<port, "desc18">>
          /\ cfg \in {<<port, "cfg9">>, <<port, "cfg">>}
      BY <1>2, <1>3, <1>4, <1>6, <3>1 DEF Known
    <3>5. bus[port].addr = Len(devices) + 1
      <4>1. port \in Nat /\ ~(port < port)
        BY <1>1, NextPorts
      <4> QED BY <3>3, <3>4, <1>3, <4>1
    <3>6. ASSUME NEW i \in 1 .. Len(devices') PROVE \E d \in AllPorts : d < port' /\ IsEntry(d, i)'
      <4>1. CASE i \in 1 .. Len(devices)
        <5>1. PICK d \in AllPorts : d < port /\ IsEntry(d, i)
          BY <3>3, <4>1
        <5>2. d < port'
          BY <1>1, <2>1, <5>1, NextPorts
        <5>3. IsEntry(d, i)'
          BY <1>1, <2>3, <4>1, <5>1 DEF IsEntry
        <5> QED BY <5>2, <5>3
      <4>2. CASE i = Len(devices) + 1
        <5>1. PICK p \in AllPorts : p = port
          BY <1>3
        <5>2. p < port'
          BY <1>1, <5>1, <2>1, NextPorts
        <5>3. devices'[i].desc = <<p, "desc18">> /\ devices'[i].cfg \in {<<p, "cfg9">>, <<p, "cfg">>}
          BY <2>2, <2>3, <3>4, <4>2, <5>1
        <5>4. bus'[p].on /\ bus'[p].addr = i /\ bus'[p].conf
          BY <1>1, <3>4, <3>5, <4>2, <5>1
        <5>5. IsEntry(p, i)'
          BY <5>3, <5>4 DEF IsEntry
        <5> QED BY <5>2, <5>5
      <4> QED BY <4>1, <4>2, <2>3, <1>4
    <3>7. ASSUME NEW d \in AllPorts, bus'[d].on PROVE d < port' /\ bus'[d].addr \in 1 .. Len(devices')
      BY <1>1, <1>4, <2>1, <2>3, <3>3, <3>7, NextPorts
    <3> QED BY <1>1, <3>3, <3>6, <3>7
  <2>11. Registered'
    BY <2>10 DEF Registered
  <2> QED BY <2>6, <2>7, <2>8, <2>9, <2>11 DEF UsbInv
<1>7. CASE at # "setcfg"
  <2>1. at' \in After(at) /\ UNCHANGED <<port, devices>>
    BY <1>1, <1>7
  <2>2. /\ at = "desc8" => at' = "setaddr"
        /\ at = "setaddr" => at' = "desc18"
        /\ at = "desc18" => at' = "cfg9"
        /\ at = "cfg9" => at' \in {"cfg", "setcfg"}
        /\ at = "cfg" => at' = "setcfg"
    BY <2>1 DEF After
  <2>3. at \in {"desc8", "setaddr", "desc18", "cfg9", "cfg"} /\ at' \in Requests /\ at' # "up"
    BY <1>3, <1>7, <2>2 DEF Requests, Reads
  <2>4. Typed'
    BY <1>1, <1>2, <1>3, <1>5, <2>1, <2>3 DEF Typed
  <2>5. Addressed' /\ Turns' /\ Attached' /\ FramesKept'
    BY <1>1, <1>2, <1>3, <2>1, <2>3 DEF Addressed, Turns, Attached, FramesKept
  <2>6. Given' = Given
    BY <1>3, <1>4, <2>1, <2>2, <2>3 DEF Given
  <2>7. Registered'
    BY <1>1, <1>2, <1>3, <2>1, <2>3, <2>6 DEF Registered, IsEntry
  <2>8. Known'
    <3> SUFFICES ASSUME ~loose, ~astray
                 PROVE  /\ bus[port].on
                        /\ at' \in {"cfg9", "cfg", "setcfg"} => desc' = <<port, "desc18">>
                        /\ at' = "cfg" => cfg' = <<port, "cfg9">>
                        /\ at' = "setcfg" => cfg' \in {<<port, "cfg9">>, <<port, "cfg">>}
      BY <1>1, <1>3, <2>1 DEF Known
    <3>1. /\ bus[port].on
          /\ at \in Reads => buf = <<port, at>>
          /\ at \in {"cfg9", "cfg", "setcfg"} => desc = <<port, "desc18">>
      BY <1>2, <1>3, <1>4 DEF Known
    <3> QED BY <1>1, <2>2, <2>3, <3>1 DEF Reads
  <2> QED BY <2>4, <2>5, <2>7, <2>8 DEF UsbInv
<1> QED BY <1>6, <1>7

-----------------------------------------------------------------------------
(* The controller *)

LEMMA AtWork ==
  ASSUME UsbInv, hc # NoWork, ~loose
  PROVE  /\ hc.call = call /\ call # NoCall /\ call \in Ctrls \cup Bulks
         /\ hc.k \in 1 .. nQtd /\ hc.k \in 1 .. 3 /\ qtd[hc.k].st = "active" /\ qtd[hc.k].op = hc.op
         /\ \A j \in 1 .. nQtd : j < hc.k => qtd[j].st = "done"
<1>1. hc.call = call /\ call \in Ctrls \cup Bulks /\ hc.k \in 1 .. 3
  BY Works DEF UsbInv, Attached
<1>2. call # NoCall
  BY <1>1, Kinds DEF UsbInv
<1> QED BY <1>1, <1>2 DEF UsbInv, Attached

LEMMA FetchInv == UsbInv /\ Fetch => UsbInv'
<1> SUFFICES ASSUME UsbInv, Fetch PROVE UsbInv'
  OBVIOUS
<1>1. /\ hc = NoWork /\ call # NoCall /\ ~Halted
      /\ UNCHANGED <<plugged, bus, qtd, nQtd, call, buf, bounce, at, port, desc, cfg, devices, astray,
                     handed, again, unheard, loose, bulks, usbFaults>>
  BY DEF Fetch, enumVars, ghosts
<1>2. PICK k \in Pending : (\A j \in Pending : k <= j) /\ hc' = [k |-> k, op |-> qtd[k].op, call |-> call]
  BY DEF Fetch
<1>3. Typed /\ Addressed /\ Turns /\ Attached /\ FramesKept /\ Registered /\ Known
  BY DEF UsbInv
<1>4. call \in Ctrls \cup Bulks
  BY <1>1, <1>3, Kinds
<1>5. k \in 1 .. nQtd /\ k \in 1 .. 3 /\ qtd[k].st = "active" /\ qtd[k].op = OpsOf(call)[k]
      /\ qtd[k].op \in Ops
  <2>1. k \in 1 .. nQtd /\ qtd[k].st = "active"
    BY DEF Pending
  <2>2. nQtd = Len(OpsOf(call)) /\ qtd[k].op = OpsOf(call)[k]
    BY <1>1, <1>3, <2>1 DEF Turns
  <2> QED BY <1>3, <1>4, <2>1, <2>2, OpsAre, States
<1>6. /\ hc' \in [k : 1 .. 3, op : Ops, call : Ctrls \cup Bulks] /\ hc' # NoWork
      /\ hc'.k = k /\ hc'.op = qtd[k].op /\ hc'.call = call
  BY <1>2, <1>4, <1>5, WorkRecord
<1>7. Typed'
  BY <1>1, <1>3, <1>6 DEF Typed
<1>8. Addressed'
  <2>1. ASSUME hc'.op = "setup" PROVE call \in Ctrls /\ call.value <= Len(devices) + 1
    <3>1. call \in Ctrls
      BY <1>4, <1>5, <1>6, <2>1, OpsAre, BulkIs
    <3>2. call.value = Len(devices) + 1 /\ Len(devices) \in Nat
      BY <3>1, <1>3, CtrlIs DEF Typed
    <3> QED BY <3>1, <3>2
  <2> QED BY <1>1, <1>3, <1>6, <2>1 DEF Addressed
<1>9. Turns'
  BY <1>1, <1>3 DEF Turns, CtrlAddr
<1>10. Attached'
  <2>1. ASSUME NEW j \in 1 .. nQtd, j < k PROVE qtd[j].st = "done"
    <3>1. j \in 1 .. 3 /\ j \in Nat /\ k \in Nat /\ qtd[j].st \in {"active", "done", "halted"}
      BY <1>3, <1>5, States
    <3>2. j \notin Pending
      BY <1>2, <2>1, <3>1
    <3>3. qtd[j].st # "active" /\ qtd[j].st # "halted"
      BY <1>1, <2>1, <3>2 DEF Pending, Halted
    <3> QED BY <3>1, <3>3
  <2> QED BY <1>1, <1>3, <1>5, <1>6, <2>1 DEF Attached
<1>11. FramesKept' /\ Known'
  BY <1>1, <1>3 DEF FramesKept, Known
<1>12. Registered'
  BY <1>1, <1>3 DEF Registered, Given, IsEntry
<1> QED BY <1>7, <1>8, <1>9, <1>10, <1>11, <1>12 DEF UsbInv

LEMMA NotReadyInv == UsbInv /\ NotReady => UsbInv'
<1> SUFFICES ASSUME UsbInv, NotReady PROVE UsbInv'
  OBVIOUS
<1>1. /\ hc' = NoWork
      /\ UNCHANGED <<plugged, bus, qtd, nQtd, call, buf, bounce, at, port, desc, cfg, devices, astray,
                     handed, again, unheard, loose, bulks, usbFaults>>
  BY DEF NotReady, enumVars, ghosts
<1>2. Typed /\ Addressed /\ Turns /\ Attached /\ FramesKept /\ Registered /\ Known
  BY DEF UsbInv
<1>3. Typed'
  BY <1>1, <1>2 DEF Typed
<1>4. Addressed' /\ Turns' /\ Attached' /\ FramesKept' /\ Known'
  BY <1>1, <1>2 DEF Addressed, Turns, CtrlAddr, Attached, FramesKept, Known
<1>5. Registered'
  BY <1>1, <1>2 DEF Registered, Given, IsEntry
<1> QED BY <1>3, <1>4, <1>5 DEF UsbInv

LEMMA Toggled ==
  ASSUME NEW r \in Peers, NEW x \in {0, 1}
  PROVE  LET s == [r EXCEPT !.in = x, !.sent = @ + 1]
         IN  /\ s \in Peers /\ s.sent = r.sent + 1
             /\ s.on = r.on /\ s.addr = r.addr /\ s.to = r.to /\ s.conf = r.conf /\ s.asked = r.asked
<1> DEFINE n == r.sent + 1
           s == [r EXCEPT !.in = x, !.sent = n]
<1>1. n \in Nat
  BY DEF Peers
<1> HIDE DEF n
<1>2. s \in Peers
  BY <1>1 DEF Peers
<1>3. /\ s.sent = n /\ s.on = r.on /\ s.addr = r.addr /\ s.to = r.to /\ s.conf = r.conf
      /\ s.asked = r.asked
  BY DEF Peers
<1> QED BY <1>2, <1>3 DEF n

LEMMA RepeatedInv == UsbInv /\ Repeated => UsbInv'
<1> SUFFICES ASSUME UsbInv, Repeated PROVE UsbInv'
  OBVIOUS
<1>1. /\ hc' = NoWork
      /\ UNCHANGED <<plugged, qtd, nQtd, call, buf, bounce, at, port, desc, cfg, devices, astray,
                     handed, again, unheard, loose, bulks, usbFaults>>
  BY DEF Repeated, enumVars, ghosts
<1>2. PICK d \in AllPorts : bus' = [bus EXCEPT ![d].in = 0, ![d].sent = @ + 1]
  BY DEF Repeated, Listening
<1>3. Typed /\ Addressed /\ Turns /\ Attached /\ FramesKept /\ Registered /\ Known
  BY DEF UsbInv
<1>4. bus' \in [AllPorts -> Peers]
  <2>1. [bus[d] EXCEPT !.in = 0, !.sent = @ + 1] \in Peers
    BY <1>3, PeerIs, Toggled
  <2> QED BY <1>2, <1>3, <2>1 DEF Typed
<1>5. \A e \in AllPorts : /\ bus'[e].on = bus[e].on /\ bus'[e].addr = bus[e].addr /\ bus'[e].to = bus[e].to
                          /\ bus'[e].asked = bus[e].asked /\ bus'[e].conf = bus[e].conf
                          /\ bus[e].sent \in Nat /\ bus'[e].sent \in {bus[e].sent, bus[e].sent + 1}
  <2> SUFFICES ASSUME NEW e \in AllPorts
               PROVE  /\ bus'[e].on = bus[e].on /\ bus'[e].addr = bus[e].addr /\ bus'[e].to = bus[e].to
                      /\ bus'[e].asked = bus[e].asked /\ bus'[e].conf = bus[e].conf
                      /\ bus[e].sent \in Nat /\ bus'[e].sent \in {bus[e].sent, bus[e].sent + 1}
    OBVIOUS
  <2>1. bus[e] \in Peers /\ bus[e].sent \in Nat
    BY <1>3, PeerIs
  <2>2. CASE e = d
    BY <1>2, <1>3, <2>1, <2>2 DEF Typed, Peers
  <2>3. CASE e # d
    BY <1>2, <1>3, <2>1, <2>3 DEF Typed
  <2> QED BY <2>2, <2>3
<1>6. Typed'
  BY <1>1, <1>3, <1>4 DEF Typed
<1>7. Addressed' /\ Turns' /\ Attached'
  BY <1>1, <1>3, <1>5 DEF Addressed, Turns, CtrlAddr, Attached
<1>8. FramesKept'
  <2> SUFFICES ASSUME ~loose PROVE FramesKept'
    BY <1>1 DEF FramesKept
  <2>1. \A e \in AllPorts : handed[e] \in Nat /\ bus[e].sent <= bus'[e].sent /\ bus'[e].sent \in Nat
    BY <1>3, <1>5 DEF Typed
  <2>2. ~again /\ \A e \in AllPorts : handed[e] <= bus'[e].sent
    BY <1>3, <1>5, <2>1 DEF FramesKept
  <2>3. bounce[2] \in Nat
    BY <1>3 DEF Typed
  <2>4. ASSUME call.kind = "in", qtd[1].st = "done"
        PROVE  /\ bounce[1] \in AllPorts
               /\ handed[bounce[1]] < bounce[2] /\ bounce[2] <= bus'[bounce[1]].sent
    <3>1. bounce[1] \in AllPorts /\ handed[bounce[1]] < bounce[2] /\ bounce[2] <= bus[bounce[1]].sent
      BY <1>3, <2>4 DEF FramesKept
    <3> QED BY <3>1, <2>1, <2>3, <1>5
  <2> QED BY <1>1, <2>2, <2>4 DEF FramesKept
<1>9. Registered'
  <2>1. Given' = Given /\ \A e \in AllPorts : \A i \in 1 .. Len(devices) : IsEntry(e, i) => IsEntry(e, i)'
    BY <1>1, <1>5 DEF Given, IsEntry
  <2> QED BY <1>1, <1>3, <1>5, <2>1 DEF Registered
<1>10. Known'
  <2>1. at \in Requests => port \in AllPorts
    BY <1>3, Bounds DEF Turns, Typed, AllPorts
  <2> QED BY <1>1, <1>3, <1>5, <2>1 DEF Known
<1> QED BY <1>6, <1>7, <1>8, <1>9, <1>10 DEF UsbInv

(* A descriptor gets its result.                                           *)
LEMMA Marked ==
  ASSUME UsbInv, hc # NoWork, NEW st \in {"done", "halted"}, qtd' = [qtd EXCEPT ![hc.k].st = st]
  PROVE  /\ qtd' \in [1 .. 3 -> [op : Ops \cup {"none"}, st : {"active", "done", "halted"}]]
         /\ \A k \in 1 .. 3 : qtd'[k].op = qtd[k].op /\ (k # hc.k => qtd'[k] = qtd[k])
         /\ qtd'[hc.k].st = st
         /\ ~loose => \A j, k \in 1 .. nQtd : j < k /\ qtd'[k].st # "active" => qtd'[j].st = "done"
<1>1. hc.k \in 1 .. 3 /\ qtd \in [1 .. 3 -> [op : Ops \cup {"none"}, st : {"active", "done", "halted"}]]
      /\ nQtd \in 0 .. 3
  BY Works DEF UsbInv, Typed
<1>2. /\ qtd' \in [1 .. 3 -> [op : Ops \cup {"none"}, st : {"active", "done", "halted"}]]
      /\ qtd'[hc.k].st = st
  BY <1>1
<1>3. \A k \in 1 .. 3 : qtd'[k].op = qtd[k].op /\ (k # hc.k => qtd'[k] = qtd[k])
  BY <1>1
<1>4. ASSUME ~loose, NEW j \in 1 .. nQtd, NEW k \in 1 .. nQtd, j < k, qtd'[k].st # "active"
      PROVE  qtd'[j].st = "done"
  <2>1. call # NoCall /\ qtd[hc.k].st = "active" /\ hc.k \in 1 .. nQtd
        /\ \A i \in 1 .. nQtd : i < hc.k => qtd[i].st = "done"
    BY <1>4, AtWork
  <2>2. \A i, l \in 1 .. nQtd : i < l /\ qtd[l].st # "active" => qtd[i].st = "done"
    BY <1>4, <2>1 DEF UsbInv, Attached
  <2>3. j \in 1 .. 3 /\ k \in 1 .. 3
    BY <1>1
  <2>4. CASE k = hc.k
    <3>1. j # hc.k /\ qtd[j].st = "done"
      BY <1>4, <2>1, <2>3, <2>4
    <3> QED BY <1>3, <2>3, <3>1
  <2>5. CASE k # hc.k
    <3>1. qtd[j].st = "done"
      BY <1>3, <1>4, <2>2, <2>3, <2>5
    <3>2. j # hc.k
      BY <3>1, <2>1
    <3> QED BY <1>3, <2>3, <3>1, <3>2
  <2> QED BY <2>4, <2>5
<1> QED BY <1>2, <1>3, <1>4

LEMMA StallsInv == UsbInv /\ Stalls => UsbInv'
<1> SUFFICES ASSUME UsbInv, Stalls PROVE UsbInv'
  OBVIOUS
<1>1. /\ hc # NoWork /\ hc' = NoWork /\ qtd' = [qtd EXCEPT ![hc.k].st = "halted"]
      /\ UNCHANGED <<plugged, bus, nQtd, call, buf, bounce, at, port, desc, cfg, devices, astray,
                     handed, again, unheard, loose, bulks>>
  BY DEF Stalls, enumVars, ghosts
<1>2. Typed /\ Addressed /\ Turns /\ Attached /\ FramesKept /\ Registered /\ Known
  BY DEF UsbInv
<1>3. /\ qtd' \in [1 .. 3 -> [op : Ops \cup {"none"}, st : {"active", "done", "halted"}]]
      /\ \A k \in 1 .. 3 : qtd'[k].op = qtd[k].op /\ (k # hc.k => qtd'[k] = qtd[k])
      /\ qtd'[hc.k].st = "halted"
      /\ ~loose => \A j, k \in 1 .. nQtd : j < k /\ qtd'[k].st # "active" => qtd'[j].st = "done"
  BY <1>1, Marked
<1>4. Typed' /\ nQtd \in 0 .. 3
  BY <1>1, <1>2, <1>3 DEF Typed
<1>5. Addressed' /\ Attached'
  BY <1>1, <1>2, <1>3 DEF Addressed, Attached
<1>6. Turns'
  BY <1>1, <1>2, <1>3, <1>4 DEF Turns, CtrlAddr
<1>7. ASSUME ~loose PROVE \A k \in 1 .. 3 : (qtd'[k].st = "done" <=> qtd[k].st = "done")
  BY <1>1, <1>3, <1>7, AtWork
<1>8. FramesKept'
  BY <1>1, <1>2, <1>7 DEF FramesKept
<1>9. Registered'
  <2> SUFFICES ASSUME ~loose PROVE Registered'
    BY <1>1 DEF Registered
  <2>1. Given' = Given
    BY <1>1, <1>7 DEF Given
  <2> QED BY <1>1, <1>2, <2>1 DEF Registered, IsEntry
<1>10. Known'
  <2> SUFFICES ASSUME ~loose, call # NoCall, at \in Requests PROVE Known'
    BY <1>1, <1>2 DEF Known
  <2>1. call \in Ctrls
    BY <1>2, BulkIs, Kinds
  <2>2. nQtd \in 1 .. 3
    BY <2>1, CtrlIs, CtrlOpsAre
  <2> QED BY <1>1, <1>2, <1>7, <2>2 DEF Known
<1> QED BY <1>4, <1>5, <1>6, <1>8, <1>9, <1>10 DEF UsbInv

\* One packet passes between the controller and device d.
Passes(d) ==
  \/ hc.op = "setup" /\ SetupPacket(d)
  \/ hc.op = "data" /\ DataPacket(d)
  \/ hc.op = "status" /\ StatusPacket(d)
  \/ hc.op = "in" /\ InPacket(d)
  \/ hc.op = "out" /\ OutPacket(d)

\* What a packet leaves of d: everything but what the packet is for.
LEMMA Passed ==
  ASSUME UsbInv, hc # NoWork, NEW d \in AllPorts, Passes(d)
  PROVE  /\ bus' \in [AllPorts -> Peers] /\ \A e \in AllPorts : e # d => bus'[e] = bus[e]
         /\ buf' \in Data /\ bounce' \in (0 .. NPorts) \X Nat /\ unheard' \in BOOLEAN
         /\ bus'[d].addr <= Len(devices) + 1 /\ bus'[d].to <= Len(devices) + 1
         /\ bus'[d].on = bus[d].on
         /\ hc.op # "status" => bus'[d].addr = bus[d].addr /\ bus'[d].conf = bus[d].conf
         /\ hc.op \in {"in", "out", "data"} => bus'[d].asked = bus[d].asked /\ bus'[d].to = bus[d].to
<1>1. Typed /\ Addressed
  BY DEF UsbInv
<1>2. /\ bus \in [AllPorts -> Peers] /\ buf \in Data /\ bounce \in (0 .. NPorts) \X Nat
      /\ unheard \in BOOLEAN /\ Len(devices) \in Nat
  BY <1>1 DEF Typed
<1>3. bus[d] \in Peers /\ bus[d].addr <= Len(devices) + 1 /\ bus[d].to <= Len(devices) + 1
  BY <1>1, <1>2 DEF Addressed
<1>4. d \in 0 .. NPorts
  BY Bounds DEF AllPorts
<1> DEFINE r == bus[d]
<1>5. CASE hc.op = "setup" /\ SetupPacket(d)
  <2> DEFINE s == [r EXCEPT !.asked = hc.call.req, !.to = hc.call.value]
  <2>1. hc.call \in Ctrls /\ hc.call.value <= Len(devices) + 1
    BY <1>1, <1>5 DEF Addressed
  <2>2. hc.call.req \in Requests /\ hc.call.value \in Nat
    BY <2>1 DEF Ctrls
  <2>3. s \in Peers /\ s.on = r.on /\ s.addr = r.addr /\ s.conf = r.conf /\ s.to = hc.call.value
    BY <1>3, <2>2 DEF Peers
  <2>4. bus' = [bus EXCEPT ![d] = s] /\ UNCHANGED <<buf, bounce, unheard>>
    BY <1>5 DEF SetupPacket
  <2> HIDE DEF s
  <2> QED BY <1>2, <1>3, <1>5, <2>1, <2>3, <2>4
<1>6. CASE hc.op = "data" /\ DataPacket(d)
  <2>1. bus' = bus /\ bounce' = bounce /\ unheard' = unheard /\ buf' = <<d, bus[d].asked>>
    BY <1>6 DEF DataPacket
  <2>2. buf' \in Data
    BY <1>1, <1>4, <2>1, PeerIs DEF Data
  <2> QED BY <1>2, <1>3, <1>6, <2>1, <2>2
<1>7. CASE hc.op = "status" /\ StatusPacket(d)
  <2> DEFINE s == [r EXCEPT !.asked = "none",
                          !.addr = IF r.asked = "setaddr" THEN r.to ELSE @,
                          !.conf = @ \/ r.asked = "setcfg",
                          !.in = IF r.asked = "setcfg" THEN 0 ELSE @,
                          !.out = IF r.asked = "setcfg" THEN 0 ELSE @]
  <2>1. s \in Peers /\ s.on = r.on /\ s.addr \in {r.addr, r.to} /\ s.to = r.to
    <3>1. r.conf \in BOOLEAN /\ r.in \in {0, 1} /\ r.out \in {0, 1} /\ r.addr \in Nat /\ r.to \in Nat
      BY <1>1, PeerIs
    <3>2. s.on = r.on /\ s.addr \in {r.addr, r.to} /\ s.to = r.to
      BY <1>3 DEF Peers
    <3>3. s \in Peers
      BY <1>3, <3>1 DEF Peers
    <3> QED BY <3>2, <3>3
  <2>2. bus' = [bus EXCEPT ![d] = s] /\ UNCHANGED <<buf, bounce, unheard>>
    BY <1>7 DEF StatusPacket
  <2> HIDE DEF s
  <2> QED BY <1>2, <1>3, <1>7, <2>1, <2>2
<1>8. CASE hc.op = "in" /\ InPacket(d)
  <2> DEFINE s == [r EXCEPT !.in = 1, !.sent = @ + 1]
  <2>1. s \in Peers /\ s.on = r.on /\ s.addr = r.addr /\ s.to = r.to /\ s.conf = r.conf /\ s.asked = r.asked
    BY <1>3, Toggled
  <2>2. bus' = [bus EXCEPT ![d] = s] /\ bounce' = <<d, r.sent + 1>> /\ UNCHANGED <<buf, unheard>>
    BY <1>8 DEF InPacket
  <2>3. bounce' \in (0 .. NPorts) \X Nat
    BY <1>1, <1>4, <2>2, PeerIs
  <2> HIDE DEF s
  <2> QED BY <1>2, <1>3, <1>8, <2>1, <2>2, <2>3
<1>9. CASE hc.op = "out" /\ OutPacket(d)
  <2> DEFINE s == [r EXCEPT !.out = 1]
  <2>1. s \in Peers /\ s.on = r.on /\ s.addr = r.addr /\ s.to = r.to /\ s.conf = r.conf /\ s.asked = r.asked
    BY <1>3 DEF Peers
  <2>2. bus' = [bus EXCEPT ![d] = s] /\ unheard' = (unheard \/ r.out = 1) /\ UNCHANGED <<buf, bounce>>
    BY <1>9 DEF OutPacket
  <2>3. unheard' \in BOOLEAN
    BY <1>2, <2>2
  <2> HIDE DEF s
  <2> QED BY <1>2, <1>3, <1>9, <2>1, <2>2, <2>3
<1> QED BY <1>5, <1>6, <1>7, <1>8, <1>9 DEF Passes

(* While a device is enumerated nobody but it answers.                     *)
LEMMA OnlyThePort ==
  ASSUME UsbInv, ~loose, ~astray, call \in Ctrls, NEW d \in AllPorts, bus[d].on, bus[d].addr = call.addr
  PROVE  d = port
<1>1. Registered /\ Len(devices) \in Nat
  BY DEF UsbInv, Typed
<1>2. call.addr \in {0, Len(devices) + 1}
  BY CtrlIs DEF CtrlAddr
<1>3. call.addr \notin 1 .. Len(devices)
  BY <1>1, <1>2
<1> QED BY <1>1, <1>3 DEF Registered

LEMMA CtrlPacket ==
  ASSUME UsbInv, ~loose, call \in Ctrls, hc # NoWork,
         NEW d \in AllPorts, bus[d].on, bus[d].addr = hc.call.addr, Passes(d),
         qtd' = [qtd EXCEPT ![hc.k].st = "done"],
         UNCHANGED <<nQtd, call, at, port, desc, cfg, devices, astray, handed, again, loose>>
  PROVE  FramesKept' /\ Registered' /\ Known'
<1>1. Typed /\ FramesKept /\ Registered /\ Known /\ Len(devices) \in Nat
  BY DEF UsbInv, Typed
<1>2. /\ bus' \in [AllPorts -> Peers] /\ \A e \in AllPorts : e # d => bus'[e] = bus[e]
      /\ bus'[d].on = bus[d].on
      /\ hc.op # "status" => bus'[d].addr = bus[d].addr /\ bus'[d].conf = bus[d].conf
      /\ hc.op \in {"in", "out", "data"} => bus'[d].asked = bus[d].asked /\ bus'[d].to = bus[d].to
  BY Passed
<1>3. /\ \A k \in 1 .. 3 : k # hc.k => qtd'[k] = qtd[k]
      /\ qtd'[hc.k].st = "done"
  BY Marked
<1>4. /\ hc.call = call /\ call # NoCall /\ call.kind = "ctrl"
      /\ hc.k \in 1 .. nQtd /\ hc.k \in 1 .. 3 /\ qtd[hc.k].st = "active" /\ qtd[hc.k].op = hc.op
      /\ \A j \in 1 .. nQtd : j < hc.k => qtd[j].st = "done"
  BY AtWork, OpsAre
<1>5. /\ at \in Requests /\ call.req = at /\ call.value = Len(devices) + 1 /\ port \in AllPorts
      /\ nQtd = Len(CtrlOps(at)) /\ hc.op = CtrlOps(at)[hc.k]
  BY <1>4, CtrlIs
<1>6. \/ at \in Reads /\ nQtd = 3 /\ hc.k = 1 /\ hc.op = "setup"
      \/ at \in Reads /\ nQtd = 3 /\ hc.k = 2 /\ hc.op = "data"
      \/ at \in Reads /\ nQtd = 3 /\ hc.k = 3 /\ hc.op = "status"
      \/ at \notin Reads /\ nQtd = 2 /\ hc.k = 1 /\ hc.op = "setup"
      \/ at \notin Reads /\ nQtd = 2 /\ hc.k = 2 /\ hc.op = "status"
  BY <1>4, <1>5, CtrlOpsAre
<1>7. bus'[d].sent = bus[d].sent
  <2>1. bus[d] \in Peers
    BY <1>1, PeerIs
  <2>2. CASE hc.op = "setup"
    <3>1. bus'[d] = [bus[d] EXCEPT !.asked = hc.call.req, !.to = hc.call.value]
      BY <1>1, <2>2 DEF Passes, SetupPacket, Typed
    <3> QED BY <2>1, <3>1 DEF Peers
  <2>3. CASE hc.op = "data"
    BY <2>3 DEF Passes, DataPacket
  <2>4. CASE hc.op = "status"
    <3>1. bus'[d] = [bus[d] EXCEPT !.asked = "none",
                          !.addr = IF bus[d].asked = "setaddr" THEN bus[d].to ELSE @,
                          !.conf = @ \/ bus[d].asked = "setcfg",
                          !.in = IF bus[d].asked = "setcfg" THEN 0 ELSE @,
                          !.out = IF bus[d].asked = "setcfg" THEN 0 ELSE @]
      BY <1>1, <2>4 DEF Passes, StatusPacket, Typed
    <3> QED BY <2>1, <3>1 DEF Peers
  <2> QED BY <1>6, <2>2, <2>3, <2>4
<1>8. FramesKept'
  <2>1. ~again /\ \A e \in AllPorts : handed[e] <= bus[e].sent
    BY <1>1 DEF FramesKept
  <2>2. \A e \in AllPorts : handed[e] <= bus'[e].sent
    BY <2>1, <1>2, <1>7
  <2> QED BY <2>1, <2>2, <1>4 DEF FramesKept
<1>9. CASE astray
  BY <1>8, <1>9 DEF Registered, Known
<1>10. CASE ~astray
  <2>1. d = port
    BY <1>4, <1>10, OnlyThePort
  <2>2. bus[d] \in Peers
    BY <1>1, PeerIs
  <2>3. /\ bus[port].on
        /\ hc.k # 1 => bus[port].asked = at /\ (at = "setaddr" => bus[port].to = Len(devices) + 1)
        /\ at \in Reads /\ qtd[2].st = "done" => buf = <<port, at>>
        /\ at \in {"cfg9", "cfg", "setcfg"} => desc = <<port, "desc18">>
        /\ at = "cfg" => cfg = <<port, "cfg9">>
        /\ at = "setcfg" => cfg \in {<<port, "cfg9">>, <<port, "cfg">>}
    <3>1. hc.k # 1 => qtd[1].st = "done" /\ qtd[nQtd].st # "done"
      <4>1. ASSUME hc.k # 1 PROVE qtd[1].st = "done" /\ qtd[nQtd].st # "done"
        <5>1. 1 \in 1 .. nQtd /\ 1 < hc.k
          BY <1>6, <4>1
        <5>2. qtd[1].st = "done"
          BY <1>4, <5>1
        <5>3. CASE hc.k = nQtd
          BY <1>4, <5>2, <5>3
        <5>4. CASE hc.k # nQtd
          <6>1. hc.k < nQtd /\ nQtd \in 1 .. nQtd
            BY <1>6, <4>1, <5>4
          <6>2. \A j, k \in 1 .. nQtd : j < k /\ qtd[k].st # "active" => qtd[j].st = "done"
            BY <1>4 DEF UsbInv, Attached
          <6>3. qtd[nQtd].st = "active"
            BY <1>4, <6>1, <6>2
          <6> QED BY <5>2, <6>3
        <5> QED BY <5>3, <5>4
      <4> QED BY <4>1
    <3> QED BY <1>1, <1>4, <1>5, <1>10, <3>1 DEF Known
  <2>4. ASSUME NEW g \in {0, Len(devices) + 1}, Given' = g, bus'[port].addr = g,
               bus'[port].conf \in BOOLEAN
        PROVE  Registered'
    <3>1. /\ \A i \in 1 .. Len(devices) : \E e \in AllPorts : e < port /\ IsEntry(e, i)
          /\ \A e \in AllPorts : bus[e].on => (e < port /\ bus[e].addr \in 1 .. Len(devices)) \/ e = port
          /\ \A e, f \in AllPorts : bus[e].on /\ bus[f].on /\ bus[e].addr = bus[f].addr => e = f
      BY <1>1, <1>10 DEF Registered
    <3>2. port \in Nat /\ \A e \in AllPorts : e < port => e # port /\ bus'[e] = bus[e]
      BY <1>2, <1>5, <2>1, Bounds
    <3>3. \A i \in 1 .. Len(devices) : \E e \in AllPorts : e < port /\ IsEntry(e, i)'
      BY <3>1, <3>2 DEF IsEntry
    <3>4. \A e \in AllPorts : bus'[e].on =>
            (e < port /\ bus'[e].addr \in 1 .. Len(devices)) \/ (e = port /\ bus'[e].addr = g)
      BY <1>2, <2>1, <2>4, <3>1
    <3>5. g \notin 1 .. Len(devices)
      BY <1>1
    <3>6. \A e, f \in AllPorts : bus'[e].on /\ bus'[f].on /\ bus'[e].addr = bus'[f].addr => e = f
      <4> SUFFICES ASSUME NEW e \in AllPorts, NEW f \in AllPorts, bus'[e].on, bus'[f].on,
                          bus'[e].addr = bus'[f].addr
                   PROVE  e = f
        OBVIOUS
      <4>1. CASE e # port /\ f # port
        BY <1>2, <2>1, <3>1, <4>1
      <4>2. CASE e = port
        BY <2>4, <3>4, <3>5, <4>2
      <4>3. CASE f = port
        BY <2>4, <3>4, <3>5, <4>3
      <4> QED BY <4>1, <4>2, <4>3
    <3> QED BY <1>5, <2>4, <3>3, <3>4, <3>6 DEF Registered
  <2>5. bus[port].addr = Given
    BY <1>1, <1>5, <1>10, <2>3, Bounds DEF Registered
  <2>6. Given \in {0, Len(devices) + 1} /\ (at # "setaddr" => Given' = Given)
    BY DEF Given
  <2>7. CASE hc.op = "setup"
    <3>1. bus'[d] = [bus[d] EXCEPT !.asked = hc.call.req, !.to = hc.call.value]
      BY <1>1, <2>7 DEF Passes, SetupPacket, Typed
    <3>2. bus'[port].asked = at /\ bus'[port].to = Len(devices) + 1 /\ bus'[port].on
          /\ bus'[port].addr = Given /\ bus'[port].conf = bus[port].conf /\ bus[port].conf \in BOOLEAN
      BY <1>4, <1>5, <2>1, <2>2, <2>3, <2>5, <3>1 DEF Peers
    <3>3. hc.k = 1 /\ nQtd \in 2 .. 3 /\ qtd'[2] = qtd[2] /\ qtd'[nQtd] = qtd[nQtd]
      BY <1>3, <1>6, <2>7
    <3>4. Given' = Given
      BY <3>3 DEF Given
    <3>5. Registered'
      BY <2>4, <2>6, <3>2, <3>4
    <3>6. buf' = buf
      BY <2>7 DEF Passes, SetupPacket
    <3>7. Known'
      BY <1>1, <1>4, <1>5, <1>10, <2>3, <3>2, <3>3, <3>6 DEF Known
    <3> QED BY <1>8, <3>5, <3>7
  <2>8. CASE hc.op = "data"
    <3>1. bus' = bus /\ buf' = <<d, bus[d].asked>>
      BY <2>8 DEF Passes, DataPacket
    <3>2. at \in Reads /\ hc.k = 2 /\ nQtd = 3 /\ qtd'[1] = qtd[1] /\ qtd'[3] = qtd[3]
      BY <1>3, <1>6, <2>8
    <3>3. buf' = <<port, at>>
      BY <2>1, <2>3, <3>1, <3>2
    <3>4. Given' = Given /\ at # "setcfg"
      BY <3>2, <2>6 DEF Reads
    <3>5. Registered'
      BY <1>1, <2>1, <2>2, <2>4, <2>5, <2>6, <3>1, <3>4, PeerIs
    <3>6. Known'
      BY <1>1, <1>4, <1>5, <1>10, <2>3, <3>1, <3>2, <3>3, <3>4 DEF Known
    <3> QED BY <1>8, <3>5, <3>6
  <2>9. CASE hc.op = "status"
    <3>1. bus'[d] = [bus[d] EXCEPT !.asked = "none",
                          !.addr = IF bus[d].asked = "setaddr" THEN bus[d].to ELSE @,
                          !.conf = @ \/ bus[d].asked = "setcfg",
                          !.in = IF bus[d].asked = "setcfg" THEN 0 ELSE @,
                          !.out = IF bus[d].asked = "setcfg" THEN 0 ELSE @]
      BY <1>1, <2>9 DEF Passes, StatusPacket, Typed
    <3>2. hc.k # 1 /\ hc.k = nQtd /\ qtd'[nQtd].st = "done"
          /\ (at \in Reads => qtd'[2] = qtd[2]) /\ (at \notin Reads => nQtd = 2)
      BY <1>3, <1>6, <2>9
    <3>3. bus[port].asked = at /\ (at = "setaddr" => bus[port].to = Len(devices) + 1)
      BY <2>3, <3>2
    <3>4. /\ bus'[port].on /\ bus'[port].conf \in BOOLEAN
          /\ bus'[port].addr = IF at = "setaddr" THEN Len(devices) + 1 ELSE Given
          /\ at = "setcfg" => bus'[port].conf
      <4>1. bus'[port].addr = IF at = "setaddr" THEN Len(devices) + 1 ELSE Given
        BY <2>1, <2>2, <2>5, <3>1, <3>3 DEF Peers
      <4>2. bus'[port].conf \in BOOLEAN /\ bus'[port].on
        BY <1>2, <2>1, <2>3 DEF Peers
      <4>3. at = "setcfg" => bus'[port].conf
        BY <2>1, <2>2, <3>1, <3>3 DEF Peers
      <4> QED BY <4>1, <4>2, <4>3
    <3>5. Given' = IF at = "setaddr" THEN Len(devices) + 1 ELSE Given
      <4>1. CASE at = "setaddr"
        <5>1. qtd'[2].st = "done"
          BY <3>2, <4>1 DEF Reads
        <5> QED BY <4>1, <5>1, <1>4 DEF Given
      <4>2. CASE at # "setaddr"
        BY <2>6, <4>2
      <4> QED BY <4>1, <4>2
    <3>6. Registered'
      BY <2>4, <2>6, <3>4, <3>5
    <3>7. buf' = buf
      BY <2>9 DEF Passes, StatusPacket
    <3>8. Known'
      BY <1>1, <1>4, <1>5, <1>10, <2>3, <3>2, <3>4, <3>7 DEF Known
    <3> QED BY <1>8, <3>6, <3>8
  <2> QED BY <1>6, <2>7, <2>8, <2>9
<1> QED BY <1>9, <1>10

LEMMA PacketInv == UsbInv /\ Packet => UsbInv'
<1> SUFFICES ASSUME UsbInv, Packet PROVE UsbInv'
  OBVIOUS
<1>1. PICK d \in AllPorts : bus[d].on /\ bus[d].addr = hc.call.addr /\ Passes(d)
  BY DEF Packet, Listening, Passes
<1>2. /\ hc # NoWork /\ hc' = NoWork /\ qtd' = [qtd EXCEPT ![hc.k].st = "done"]
      /\ UNCHANGED <<plugged, nQtd, call, at, port, desc, cfg, devices, astray, handed, again, loose,
                     bulks, usbFaults>>
  BY DEF Packet, enumVars
<1>3. Typed /\ Addressed /\ Turns /\ Attached /\ FramesKept /\ Registered /\ Known
  BY DEF UsbInv
<1>4. /\ qtd' \in [1 .. 3 -> [op : Ops \cup {"none"}, st : {"active", "done", "halted"}]]
      /\ \A k \in 1 .. 3 : qtd'[k].op = qtd[k].op /\ (k # hc.k => qtd'[k] = qtd[k])
      /\ qtd'[hc.k].st = "done"
      /\ ~loose => \A j, k \in 1 .. nQtd : j < k /\ qtd'[k].st # "active" => qtd'[j].st = "done"
  BY <1>2, Marked
<1>5. /\ bus' \in [AllPorts -> Peers] /\ \A e \in AllPorts : e # d => bus'[e] = bus[e]
      /\ buf' \in Data /\ bounce' \in (0 .. NPorts) \X Nat /\ unheard' \in BOOLEAN
      /\ bus'[d].addr <= Len(devices) + 1 /\ bus'[d].to <= Len(devices) + 1
      /\ bus'[d].on = bus[d].on
      /\ hc.op # "status" => bus'[d].addr = bus[d].addr /\ bus'[d].conf = bus[d].conf
      /\ hc.op \in {"in", "out", "data"} => bus'[d].asked = bus[d].asked /\ bus'[d].to = bus[d].to
  BY <1>1, <1>2, Passed
<1>6. Typed' /\ nQtd \in 0 .. 3
  BY <1>2, <1>3, <1>4, <1>5 DEF Typed
<1>7. Addressed'
  <2>1. \A e \in AllPorts : bus'[e].addr <= Len(devices) + 1 /\ bus'[e].to <= Len(devices) + 1
    BY <1>3, <1>5 DEF Addressed
  <2> QED BY <1>2, <2>1 DEF Addressed
<1>8. Turns'
  BY <1>2, <1>3, <1>4, <1>6 DEF Turns, CtrlAddr
<1>9. Attached'
  BY <1>2, <1>3, <1>4 DEF Attached
<1>10. CASE loose
  BY <1>2, <1>6, <1>7, <1>8, <1>9, <1>10 DEF FramesKept, Registered, Known, UsbInv
<1>11. CASE ~loose /\ call \in Bulks
  <2>1. /\ hc.call = call /\ hc.k \in 1 .. nQtd /\ qtd[hc.k].op = hc.op /\ qtd[hc.k].st = "active"
    BY <1>2, <1>11, AtWork
  <2>2. /\ at \notin Requests /\ nQtd = 1 /\ hc.k = 1 /\ hc.op = call.kind /\ call.kind \in {"in", "out"}
    BY <2>1, <1>3, <1>11, BulkIs, Kinds
  <2>3. \A e \in AllPorts : /\ bus'[e].on = bus[e].on /\ bus'[e].addr = bus[e].addr
                            /\ bus'[e].conf = bus[e].conf
    BY <1>5, <2>2
  <2>4. Registered'
    <3>1. \A e \in AllPorts : \A i \in 1 .. Len(devices) : IsEntry(e, i) => IsEntry(e, i)'
      BY <1>2, <2>3 DEF IsEntry
    <3> QED BY <1>2, <1>3, <2>2, <2>3, <3>1 DEF Registered
  <2>5. Known'
    BY <1>2, <2>2 DEF Known
  <2>6. FramesKept'
    <3>1. bus[d].sent \in Nat /\ handed[d] \in Nat /\ handed[d] <= bus[d].sent /\ ~again
          /\ \A e \in AllPorts : handed[e] <= bus[e].sent
      BY <1>3, <1>11, PeerIs DEF FramesKept, Typed
    <3>2. CASE call.kind = "in"
      <4>1. InPacket(d)
        BY <1>1, <2>2, <3>2 DEF Passes
      <4>2. bounce' = <<d, bus[d].sent + 1>> /\ bus'[d].sent = bus[d].sent + 1
        <5>1. bus'[d] = [bus[d] EXCEPT !.in = 1, !.sent = @ + 1] /\ bus[d] \in Peers
          BY <1>3, <4>1 DEF InPacket, Typed
        <5>2. bus'[d].sent = bus[d].sent + 1
          BY <5>1 DEF Peers
        <5> QED BY <4>1, <5>2 DEF InPacket
      <4>3. bounce'[1] = d /\ bounce'[2] = bus[d].sent + 1
        BY <4>2
      <4>4. handed[d] < bounce'[2] /\ bounce'[2] <= bus'[d].sent
        BY <3>1, <4>2, <4>3
      <4>5. \A e \in AllPorts : handed[e] <= bus'[e].sent
        BY <1>5, <3>1, <4>2
      <4> QED BY <1>2, <3>1, <4>3, <4>4, <4>5 DEF FramesKept
    <3>3. CASE call.kind = "out"
      <4>1. OutPacket(d)
        BY <1>1, <2>2, <3>3 DEF Passes
      <4>2. bus'[d].sent = bus[d].sent
        <5>1. bus'[d] = [bus[d] EXCEPT !.out = 1] /\ bus[d] \in Peers
          BY <1>3, <4>1 DEF OutPacket, Typed
        <5> QED BY <5>1 DEF Peers
      <4>3. \A e \in AllPorts : handed[e] <= bus'[e].sent
        BY <1>5, <3>1, <4>2
      <4> QED BY <1>2, <3>1, <3>3, <4>3 DEF FramesKept
    <3> QED BY <2>2, <3>2, <3>3
  <2> QED BY <1>6, <1>7, <1>8, <1>9, <2>4, <2>5, <2>6 DEF UsbInv
<1>12. CASE ~loose /\ call \in Ctrls
  BY <1>1, <1>2, <1>6, <1>7, <1>8, <1>9, <1>12, CtrlPacket DEF UsbInv
<1> QED BY <1>2, <1>10, <1>11, <1>12, AtWork

LEMMA UsbAlways == UsbSpec => []UsbInv
<1>1. UsbInv /\ [UsbNext]_usbVars => UsbInv'
  <2> SUFFICES ASSUME UsbInv, [UsbNext]_usbVars PROVE UsbInv'
    OBVIOUS
  <2>1. ASSUME NEW addr \in DOMAIN devices, UsbBulk("in", addr) \/ UsbBulk("out", addr) PROVE UsbInv'
    BY <2>1, UsbBulkInv
  <2> QED BY <2>1, PortResetInv, PortsDoneInv, UsbCtrlInv, CtrlDoneInv, CtrlFailedInv, BulkDoneInv,
             BulkFailedInv, FetchInv, PacketInv, RepeatedInv, NotReadyInv, StallsInv, UsbRestsInv DEF UsbNext
<1> QED BY UsbInitInv, <1>1, PTL DEF UsbSpec

(* Every device in the table of ehci.c answers its address alone, was told *)
(* to start and is described by what was read from it, and no frame is     *)
(* handed up twice, whatever is refused, not ready or timed out, unless a  *)
(* device was left unregistered or the controller was still at work on a   *)
(* transfer that was given up: for every number of ports, devices,         *)
(* transfers and failures.                                                 *)
THEOREM UsbStaysSound == UsbSpec => []UsbSound
<1>1. UsbInv => UsbSound
  <2> SUFFICES ASSUME UsbInv PROVE UsbSound
    OBVIOUS
  <2>1. Typed /\ Addressed /\ Turns /\ FramesKept /\ Registered
    BY DEF UsbInv
  <2>2. UsbTypeOK
    <3>1. nQtd \in 0..3 /\ \A k \in 1..3 : qtd[k].st \in {"active", "done", "halted"}
      BY <2>1, States
    <3>2. hc.k \in 0 .. 3
      <4>1. CASE hc = NoWork
        BY <4>1 DEF NoWork
      <4>2. CASE hc # NoWork
        BY <2>1, <4>2, Works
      <4> QED BY <4>1, <4>2
    <3>3. call.kind \in {"none", "ctrl", "in", "out"}
      BY <2>1, Kinds, OpsAre
    <3>4. \A d \in AllPorts : bus[d].addr \in 0..Len(devices) + 1 /\ {bus[d].in, bus[d].out} \subseteq {0, 1}
      BY <2>1, PeerIs DEF Addressed, Typed
    <3> QED BY <2>1, <3>1, <3>2, <3>3, <3>4 DEF UsbTypeOK, Typed
  <2>3. TableAnswers
    <3> SUFFICES ASSUME ~loose, ~astray, NEW i \in DOMAIN devices
                 PROVE  \E d \in AllPorts :
                          /\ Listening(i) = {d} /\ bus[d].conf
                          /\ devices[i].desc = <<d, "desc18">>
                          /\ devices[i].cfg \in {<<d, "cfg9">>, <<d, "cfg">>}
      BY DEF TableAnswers
    <3>1. i \in 1 .. Len(devices)
      BY <2>1 DEF Typed
    <3>2. PICK d \in AllPorts : IsEntry(d, i)
      BY <2>1, <3>1 DEF Registered
    <3>3. Listening(i) = {d}
      BY <2>1, <3>2 DEF Listening, IsEntry, Registered
    <3> QED BY <3>2, <3>3 DEF IsEntry
  <2>4. FramesAreNew
    BY <2>1 DEF FramesAreNew, FramesKept
  <2> QED BY <2>2, <2>3, <2>4 DEF UsbSound
<1> QED BY UsbAlways, <1>1, PTL
=============================================================================
