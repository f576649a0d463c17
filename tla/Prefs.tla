-------------------------------- MODULE Prefs --------------------------------
(***************************************************************************)
(* The preferences of fs/persist.c: three copies of each setting (the one  *)
(* in use: i18n_lang, wallpaper_login_id ...; s_lang and its neighbours;   *)
(* config.txt) kept in step by setters, reboots and a volume whose reads   *)
(* and writes may fail.  The volume is the one FileStore promises: a put   *)
(* replaces the file, is refused without a trace, or breaks off and leaves *)
(* the file with any contents; power may go in the middle of it.           *)
(***************************************************************************)
EXTENDS Integers, FiniteSets

CONSTANTS Keys,       \* the keys of config.txt
          Values,     \* the valid values of a setting
          Lang,       \* the key "lang", the one persist_init does not check
          Default,    \* the value each setting has at power-on
          Bad,        \* a number no setting accepts
          MaxFaults   \* bound: failed reads, failed puts and power cuts

ASSUME PrefsAssumption == Default \in Values /\ Bad \notin Values /\ MaxFaults \in Nat /\ Lang \in Keys

VARIABLES
    config,   \* what parse_buf makes of config.txt: the keys it has
    avail,    \* s_avail
    have,     \* s_have_lang ...
    saved,    \* s_lang ...: meant to be what config.txt says
    inUse,    \* what the system uses
    up,       \* the machine is on and persist_init is over
    kept,     \* ghost: what the last completed flush wrote
    torn,     \* ghost: since then a put that broke off changed config.txt
    behind,   \* ghost: since then, or since power-on, a put of config.txt failed
    aside,    \* ghost: settings changed in use only (the language, in the shell)
    faults

vars == <<config, avail, have, saved, inUse, up, kept, torn, behind, aside, faults>>

Nothing == [k \in {} |-> Default]
AllDefault == [k \in Keys |-> Default]
Accepts(v) == IF v \in Values THEN v ELSE Default

Init ==
    /\ config = Nothing
    /\ avail = FALSE /\ have = {} /\ saved = AllDefault /\ inUse = AllDefault
    /\ up = FALSE /\ kept = Nothing /\ torn = FALSE /\ behind = FALSE /\ aside = {} /\ faults = 0

(* What a put that broke off may have left: the old file, the new one, the  *)
(* beginning of it, or bytes that are no setting.                          *)
Broken(old, new) ==
    {old, new} \cup {[k \in ks |-> new[k]] : ks \in SUBSET Keys}
               \cup {[new EXCEPT ![k] = Bad] : k \in Keys}

Fault == faults < MaxFaults /\ faults' = faults + 1

(* flush_file: nosfs_disk_put of all the keys.                             *)
PutDone(values) ==
    config' = values /\ kept' = values /\ torn' = FALSE /\ behind' = FALSE

PutFails(values) ==
    /\ config' \in Broken(config, values) /\ UNCHANGED kept
    /\ torn' = (torn \/ config' # config) /\ behind' = TRUE

Flush(values) ==
    \/ PutDone(values) /\ UNCHANGED faults
    \/ PutFails(values) /\ Fault

Untouched == UNCHANGED <<config, kept, torn, behind, faults>>

(* persist_init.  `said` is the language the kernel command line asked for   *)
(* (lang_try_cmdline), which a stored one overrides.  A setter brings what it *)
(* accepts back to `saved`; the language has no such setter, and is taken    *)
(* from use only when some key was missing.                                 *)
Loaded(file, said) ==
    /\ up' = TRUE /\ avail' = TRUE /\ have' = DOMAIN file
    /\ inUse' = [k \in Keys |-> IF k \in DOMAIN file THEN Accepts(file[k])
                                ELSE IF k = Lang THEN said ELSE Default]
    /\ saved' = IF DOMAIN file = Keys THEN [inUse' EXCEPT ![Lang] = file[Lang]] ELSE inUse'

PersistInit(said) ==
    /\ ~up /\ Loaded(config, said)
    /\ IF DOMAIN config = Keys THEN Untouched ELSE Flush(inUse')

(* A read that fails counts as a file that has nothing: the defaults replace *)
(* what it had.                                                             *)
PersistInitUnread(said) ==
    /\ ~up /\ Loaded(Nothing, said)
    /\ Fault /\ (PutDone(inUse') \/ PutFails(inUse'))

(* Without a volume nothing is kept (live session).                         *)
PersistInitLive(said) ==
    /\ ~up /\ up' = TRUE /\ avail' = FALSE /\ have' = {}
    /\ inUse' = [AllDefault EXCEPT ![Lang] = said] /\ saved' = inUse'
    /\ Untouched

(* wallpaper_set_login, wallpaper_set_desk, icon_set_style, i18n_set_lang    *)
(* with the persist_set_u32 that follows: the copies in memory change first *)
(* and whatever the flush says is dropped.  Nothing is written when the     *)
(* copy in memory has the value already.                                   *)
\* mutant: the copy in memory changes only when the flush succeeded
PersistSet_Late(k, v) ==
    /\ inUse' = [inUse EXCEPT ![k] = v]
    /\ IF ~avail \/ (k \in have /\ saved[k] = v) THEN Untouched /\ UNCHANGED <<have, saved>>
       ELSE /\ Flush([saved EXCEPT ![k] = v])
            /\ have' = IF behind' THEN have ELSE have \cup {k}
            /\ saved' = IF behind' THEN saved ELSE [saved EXCEPT ![k] = v]
    /\ UNCHANGED <<avail, up>>

PersistSet(k, v) ==
    /\ inUse' = [inUse EXCEPT ![k] = v]
    /\ IF ~avail \/ (k \in have /\ saved[k] = v)
       THEN Untouched /\ UNCHANGED <<have, saved>>
       ELSE /\ have' = have \cup {k}
            /\ saved' = [saved EXCEPT ![k] = v]
            /\ Flush(saved')
    /\ UNCHANGED <<avail, up>>

Set(k, v) == up /\ PersistSet(k, v) /\ aside' = aside \ {k}

(* cmd_lang of the shell and lang_select_run change the language and store   *)
(* nothing.                                                                 *)
SetLang(v) ==
    /\ up /\ inUse' = [inUse EXCEPT ![Lang] = v] /\ aside' = aside \cup {Lang}
    /\ Untouched /\ UNCHANGED <<avail, have, saved, up>>

Off(file) ==
    /\ up' = FALSE /\ config' = file
    /\ torn' = (torn \/ file # config) /\ behind' = FALSE
    /\ avail' = FALSE /\ have' = {} /\ saved' = AllDefault /\ inUse' = AllDefault
    /\ aside' = {} /\ UNCHANGED kept

PowerOff == up /\ Off(config) /\ UNCHANGED faults

(* The power goes while set or persist_init flushes.                       *)
PowerCut ==
    /\ Fault
    /\ \E k \in Keys, v \in Values : \E file \in Broken(config, [saved EXCEPT ![k] = v]) :
         /\ up /\ avail /\ ~(k \in have /\ saved[k] = v)
         /\ Off(file)

Next ==
    \/ \E said \in Values :
         \/ (PersistInit(said) \/ PersistInitUnread(said) \/ PersistInitLive(said)) /\ UNCHANGED aside
         \/ SetLang(said)
    \/ \E k \in Keys, v \in Values : Set(k, v)
    \/ PowerOff \/ PowerCut

Spec == Init /\ [][Next]_vars

-----------------------------------------------------------------------------
TypeOK ==
    /\ DOMAIN config \subseteq Keys
    /\ \A k \in DOMAIN config : config[k] \in Values \cup {Bad}
    /\ {avail, up, torn, behind} \subseteq BOOLEAN /\ have \subseteq Keys
    /\ saved \in [Keys -> Values \cup {Bad}] /\ inUse \in [Keys -> Values]
    /\ aside \subseteq {Lang}
    /\ DOMAIN kept \subseteq Keys /\ \A k \in DOMAIN kept : kept[k] \in Values \cup {Bad}
    /\ faults \in 0 .. MaxFaults

(* config.txt says what the last completed flush wrote until a put breaks    *)
(* off in it, through restarts, refused puts and losses of power; and both   *)
(* copies in memory agree with it until a flush fails, but for a language    *)
(* changed for this session only, so that setting one key never costs        *)
(* another.  After a flush that was refused the next power-on therefore finds *)
(* the value before it, and a flush with the defaults is one too: persist_init *)
(* does it over a file it could not read (persist_init, persist_set_u32,     *)
(* flush_file).                                                             *)
SettingsSurvive ==
    /\ ~torn => config = kept
    /\ (up /\ avail /\ ~torn /\ ~behind) =>
          saved = kept /\ \A k \in Keys \ aside : inUse[k] = Accepts(kept[k])

(* Within a session whatever failed before, what the next flush will write   *)
(* is what is in use: storing one setting makes good all that were not, and  *)
(* takes none back to an older value (persist_init, persist_set_u32).        *)
InStep == (up /\ avail) => \A k \in Keys \ aside : Accepts(saved[k]) = inUse[k]

(* The settings of the last completed flush are those a restart finds, but   *)
(* for a put that broke off after it, and the next flush writes those in use. *)
SettingsKept == TypeOK /\ SettingsSurvive /\ InStep

(* "Persist keys", "stored as text in config.txt" (docs/nosfs.md:99, 129): a  *)
(* value persist_set_u32 does not write again, since it has it already, is in *)
(* the file.                                                                *)
UnchangedIsStored ==
    (up /\ avail) => \A k \in have : k \in DOMAIN config /\ config[k] = saved[k]
=============================================================================
