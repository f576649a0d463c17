-------------------------------- MODULE Wifi --------------------------------
(***************************************************************************)
(* Choosing a network in onboarding (ui/session/onboarding.c): the table   *)
(* of drivers/wifi/wlan.c, the radio of rtl8187.c and the radio of the     *)
(* virtual machine's host, reached line by line over COM2 (wlan_host.c,    *)
(* tools/wlan_host.ps1).  The host answers in order and when it likes; the *)
(* guest waits a while and goes on.  A network's name is a model value;    *)
(* what the air carries is chosen freely.                                  *)
(***************************************************************************)
EXTENDS Integers, SequencesExt

CONSTANTS
    HostNets,    \* what the host can see: [name, ssid, quality, sec], ssid being the name as the guest gets it
    Frames,      \* what the radio may hear: [ssid, quality, sec, beacon]
    MaxFrames,   \* bound: frames heard in a scan
    KNames,      \* the names that begin with a K
    NoName, Remnants, \* no name; what may be left of a name whose beginning was read before
    TableMax,    \* WLAN_MAX_BSS
    CheckStep, CheckSteps, Ticks,   \* OB_CHECK_STEP_MS, 12, and the frame times, at most 40 ms
    MaxWifiFaults     \* bound: waits given up, lines cut, lost connections and restarts

OPEN == 0
WPA == 2

ASSUME WifiAssumption ==
    /\ TableMax \in Nat \ {0} /\ MaxFrames \in Nat /\ MaxWifiFaults \in Nat
    /\ IsFiniteSet(HostNets)
    /\ \A n \in HostNets : n \in [name : {n.name}, ssid : {n.ssid}, quality : Nat, sec : 0 .. 2]
    /\ \A f \in Frames : f.quality \in Nat /\ f.sec \in 0 .. 2
    /\ CheckStep \in Nat /\ CheckSteps \in Nat /\ Ticks \subseteq Nat

VARIABLES
    table,                \* table[0 .. count-1]
    connected, ssid,      \* wlan_connected, connected_ssid
    radio, hostOk, wired, \* rtl8187 present, host_ok, net_wired(): settled at power-on
    rx,                   \* lines the COM2 receiver holds
    waiting,              \* what the guest waits for: "header", "entries", "answer", or "no"
    step, scanned, net,   \* onboarding: "wifi", "check" or "away"; s_scanned, s_net
    checking, elapsed, netOk,   \* s_checking, s_check_elapsed, s_net_ok
    cmds, wire, last,     \* the host: commands unread, lines written and not arrived, $last
    heard, quiet, said,   \* ghosts: what this scan announced; nothing was outstanding when the
    wifiFaults            \* last command was sent; the name the host last said K to

wlan == <<table, connected, ssid>>
onboarding == <<step, scanned, net, checking, elapsed, netOk>>
host == <<cmds, wire, last, said>>
wifiVars == <<wlan, radio, hostOk, wired, rx, waiting, onboarding, host, heard, quiet, wifiFaults>>

WifiFault == wifiFaults < MaxWifiFaults /\ wifiFaults' = wifiFaults + 1
Greater(a, b) == IF a > b THEN a ELSE b

-----------------------------------------------------------------------------
(* The table *)

\* mutant: a name heard again keeps the security it was first heard with
AddBss_FirstSec(t, b) ==
    IF \E i \in DOMAIN t : t[i].ssid = b.ssid
    THEN [i \in DOMAIN t |-> IF t[i].ssid # b.ssid THEN t[i]
            ELSE [t[i] EXCEPT !.quality = Greater(@, b.quality)]]
    ELSE IF b.ssid = NoName \/ Len(t) >= TableMax THEN t ELSE Append(t, b)

AddBss(t, b) ==
    IF \E i \in DOMAIN t : t[i].ssid = b.ssid
    THEN [i \in DOMAIN t |-> IF t[i].ssid # b.ssid THEN t[i]
            ELSE [t[i] EXCEPT !.quality = Greater(@, b.quality), !.sec = Greater(@, b.sec),
                              !.src = IF b.src = "radio" THEN "radio" ELSE @]]
    ELSE IF b.ssid = NoName \/ Len(t) >= TableMax THEN t ELSE Append(t, b)

Bss(a, src) == [ssid |-> a.ssid, quality |-> a.quality, sec |-> a.sec, src |-> src]

\* parse_beacon: management frames of the two subtypes, and no hidden names.
ParseBeacon(t, frame) == IF frame.beacon THEN AddBss(t, Bss(frame, "radio")) ELSE t

RtlScan(frames) ==
    LET t[k \in 0 .. Len(frames)] == IF k = 0 THEN <<>> ELSE ParseBeacon(t[k - 1], frames[k])
    IN  t[Len(frames)]

-----------------------------------------------------------------------------
(* Words on the wire *)

Line(k) == [k |-> k, net |-> NoName]
Entry(n) == [k |-> "entry", net |-> n]
Junk == Line("junk")

\* A readline that gives up in the middle of a line takes a piece of it and
\* leaves the rest for the next.  All of the line may be there but its end,
\* which is then an empty line; a row of the table is a row without its last
\* byte, the security, for which it gets WPA.  The beginning of a name says no
\* more than its first letter does.
Beginning(n) == IF n.ssid \in KNames THEN Line("K") ELSE Junk

Cuts(line) ==
    {[piece |-> line, rest |-> Junk]} \cup
    CASE line.k = "W1" -> {[piece |-> Junk, rest |-> Junk]}
      [] line.k = "entry" ->
             {[piece |-> Entry([line.net EXCEPT !.sec = WPA]), rest |-> Junk],
              [piece |-> Beginning(line.net), rest |-> Junk]}
             \cup {[piece |-> Beginning(line.net), rest |-> Entry([line.net EXCEPT !.ssid = name])]
                       : name \in Remnants}
      [] OTHER -> {}

BeginsWithK(line) == line.k = "K" \/ (line.k = "entry" /\ line.net.ssid \in KNames)

\* com2_flush_rx and com2_write.
\* mutant: what had arrived is left in the receiver
Send_NoFlush(cmd) ==
    /\ cmds' = Append(cmds, cmd) /\ UNCHANGED rx
    /\ quiet' = (cmds = <<>> /\ wire = <<>>)

Send(cmd) ==
    /\ rx' = <<>>
    /\ cmds' = Append(cmds, cmd)
    /\ quiet' = (cmds = <<>> /\ wire = <<>>)

-----------------------------------------------------------------------------
(* The host *)

\* S: scan and say so.
HostScan ==
    /\ cmds # <<>> /\ Head(cmds).k = "S" /\ cmds' = Tail(cmds)
    /\ \E seen \in SUBSET HostNets :
         /\ last' = seen
         /\ wire' = wire \o <<Line("W1")>> \o [i \in 1 .. Cardinality(seen) |-> Entry(SetToSeq(seen)[i])]
                         \o <<Line(".")>>
    /\ UNCHANGED said

\* C: yes when the name is one of the last scan's; a host that has seen none
\* scans first.  No password is tried.
HostConnect ==
    /\ cmds # <<>> /\ Head(cmds).k = "C" /\ cmds' = Tail(cmds)
    /\ \E seen \in IF last = {} THEN SUBSET HostNets ELSE {last} :
         LET yes == \E n \in seen : n.name = Head(cmds).net
         IN  /\ last' = seen
             /\ wire' = Append(wire, Line(IF yes THEN "K" ELSE "F"))
             /\ said' = IF yes THEN Head(cmds).net ELSE NoName

HostServe ==
    /\ HostScan \/ HostConnect
    /\ UNCHANGED <<wlan, radio, hostOk, wired, rx, waiting, onboarding, heard, quiet, wifiFaults>>

Arrive ==
    /\ wire # <<>>
    /\ wire' = Tail(wire) /\ rx' = Append(rx, Head(wire))
    /\ UNCHANGED <<wlan, radio, hostOk, wired, waiting, onboarding, cmds, last, said, heard, quiet, wifiFaults>>

\* The pipe breaks: what was on its way is gone, the host comes back.
HostReconnect ==
    /\ cmds # <<>> \/ wire # <<>>
    /\ WifiFault
    /\ cmds' = <<>> /\ wire' = <<>>
    /\ UNCHANGED <<wlan, radio, hostOk, wired, rx, waiting, onboarding, last, said, heard, quiet>>

-----------------------------------------------------------------------------
(* wlan_scan *)

Scanned == scanned' = TRUE /\ net' = 1

Scan ==
    /\ step = "wifi" /\ ~scanned /\ waiting = "no"
    /\ connected' = FALSE /\ UNCHANGED ssid
    /\ \E frames \in IF radio THEN SeqOf(Frames, MaxFrames) ELSE {<<>>} :
         /\ table' = RtlScan(frames)
         /\ heard' = {Bss(f, "radio") : f \in {g \in ToSet(frames) : g.beacon /\ g.ssid # NoName}}
         /\ IF table' = <<>> /\ hostOk
            THEN Send(Line("S")) /\ waiting' = "header" /\ UNCHANGED <<scanned, net>>
            ELSE Scanned /\ UNCHANGED <<rx, cmds, quiet, waiting>>
    /\ UNCHANGED <<radio, hostOk, wired, step, checking, elapsed, netOk, wire, last, said, wifiFaults>>

\* com2_readline: the next line, or what has come of it when time is up.
Readable == IF rx = <<>> THEN {} ELSE {Head(rx)} \cup {cut.piece : cut \in Cuts(Head(rx))}

Take(line) ==
    \/ /\ rx # <<>> /\ line = Head(rx) /\ rx' = Tail(rx) /\ UNCHANGED wifiFaults
    \/ /\ rx # <<>> /\ WifiFault
       /\ \E cut \in Cuts(Head(rx)) : line = cut.piece /\ rx' = <<cut.rest>> \o Tail(rx)

\* Nothing comes for too long.
GiveUp ==
    /\ rx = <<>> /\ UNCHANGED rx
    /\ IF cmds = <<>> /\ wire = <<>> THEN UNCHANGED wifiFaults ELSE WifiFault

\* wlan_host_scan: lines before the header are dropped.
ReadHeader ==
    /\ waiting = "header"
    /\ \/ \E line \in Readable :
            /\ Take(line)
            /\ waiting' = IF line.k = "W1" THEN "entries" ELSE "header"
            /\ UNCHANGED <<scanned, net>>
       \/ GiveUp /\ waiting' = "no" /\ Scanned
    /\ UNCHANGED <<wlan, radio, hostOk, wired, step, checking, elapsed, netOk, host, heard, quiet>>

\* Lines without three parts, or without a name, are dropped; the scan is over at the dot, or when
\* nothing comes.
ReadEntry ==
    /\ waiting = "entries"
    /\ \/ \E line \in Readable :
            /\ Take(line)
            /\ IF line.k = "entry" /\ line.net.ssid # NoName
               THEN /\ table' = AddBss(table, Bss(line.net, "host"))
                    /\ heard' = heard \cup {Bss(line.net, "host")}
               ELSE UNCHANGED <<table, heard>>
            /\ IF line.k = "." THEN waiting' = "no" /\ Scanned
               ELSE UNCHANGED <<waiting, scanned, net>>
       \/ GiveUp /\ waiting' = "no" /\ Scanned /\ UNCHANGED <<table, heard>>
    /\ UNCHANGED <<connected, ssid, radio, hostOk, wired, step, checking, elapsed, netOk, host, quiet>>

-----------------------------------------------------------------------------
(* The steps of onboarding *)

NetCount == Len(table) + IF wired THEN 1 ELSE 0
IsEth == net > Len(table) /\ wired

Idle == waiting = "no" /\ UNCHANGED <<waiting, radio, hostOk, wired, heard>>
NoTraffic == UNCHANGED <<rx, quiet, host, wifiFaults>>

Arrows ==
    /\ Idle /\ step = "wifi" /\ scanned
    /\ net' \in 1 .. NetCount
    /\ NoTraffic /\ UNCHANGED <<wlan, step, scanned, checking, elapsed, netOk>>

Connect ==
    /\ Idle /\ step = "wifi" /\ scanned /\ NetCount > 0
    /\ step' = "check" /\ checking' = TRUE /\ elapsed' = 0 /\ netOk' = FALSE
    /\ NoTraffic /\ UNCHANGED <<wlan, scanned, net>>

\* Escape or Back on the check; Skip on either; the next user's turn.
Leave ==
    /\ Idle
    /\ \/ step = "check" /\ step' = "wifi" /\ UNCHANGED net
       \/ step \in {"wifi", "check"} /\ step' = "away" /\ UNCHANGED net
       \/ step = "away" /\ step' = "wifi" /\ net' = 1
    /\ NoTraffic /\ UNCHANGED <<wlan, scanned, checking, elapsed, netOk>>

\* The bar: a frame passes.  Until the first of its steps is full, every frame
\* probes the link again.
Tick ==
    \E d \in Ticks :
        /\ elapsed' = elapsed + d
        /\ checking' = (elapsed' < CheckSteps * CheckStep)

Probing == step = "check" /\ checking /\ elapsed < CheckStep

Associated(ok, name) ==
    /\ connected' = ok /\ ssid' = IF ok THEN name ELSE NoName

\* ob_probe_link, what follows association: net_ensure_up and a ping.
Verdict(assoc) == netOk' \in IF assoc THEN BOOLEAN ELSE {FALSE}

ProbeWired ==
    /\ Idle /\ Probing /\ IsEth
    /\ Verdict(TRUE) /\ Tick
    /\ NoTraffic /\ UNCHANGED <<wlan, step, scanned, net>>

\* rtl8187_associate: only networks without a key; the two frames are sent and
\* no answer is read.
ProbeRadio ==
    /\ Idle /\ Probing /\ net <= Len(table) /\ table[net].src = "radio"
    /\ \E sent \in BOOLEAN :
         LET ok == sent /\ table[net].sec = OPEN
         IN  Associated(ok, table[net].ssid) /\ Verdict(ok)
    /\ Tick /\ NoTraffic /\ UNCHANGED <<table, step, scanned, net>>

\* wlan_host_connect: the question ...
ProbeHost ==
    /\ waiting = "no" /\ Probing /\ net <= Len(table) /\ table[net].src = "host"
    /\ Associated(FALSE, NoName)
    /\ Send([k |-> "C", net |-> table[net].ssid]) /\ waiting' = "answer"
    /\ UNCHANGED <<table, radio, hostOk, wired, onboarding, wire, last, said, heard, wifiFaults>>

\* ... and the first line that comes.
ReadAnswer ==
    /\ waiting = "answer" /\ waiting' = "no"
    /\ \/ \E line \in Readable :
            /\ Take(line)
            /\ Associated(BeginsWithK(line), table[net].ssid) /\ Verdict(BeginsWithK(line))
       \/ GiveUp /\ Associated(FALSE, NoName) /\ Verdict(FALSE)
    /\ Tick
    /\ UNCHANGED <<table, radio, hostOk, wired, step, scanned, net, host, heard, quiet>>

Progress ==
    /\ Idle /\ step = "check" /\ checking /\ elapsed >= CheckStep
    /\ Tick /\ NoTraffic /\ UNCHANGED <<wlan, step, scanned, net, netOk>>

-----------------------------------------------------------------------------
\* wlan_init and onboarding_run.
WifiInit ==
    /\ radio \in BOOLEAN /\ hostOk \in BOOLEAN /\ wired \in BOOLEAN
    /\ table = <<>> /\ connected = FALSE /\ ssid = NoName
    /\ rx = <<>> /\ waiting = "no"
    /\ step = "away" /\ scanned = FALSE /\ net = 1
    /\ checking = FALSE /\ elapsed = 0 /\ netOk = FALSE
    /\ cmds = <<>> /\ wire = <<>> /\ last = {} /\ said = NoName
    /\ heard = {} /\ quiet = TRUE /\ wifiFaults = 0

\* The machine restarts without an account; the host does not.  wlan_host_init
\* empties the receiver.
Restart ==
    /\ WifiFault
    /\ table' = <<>> /\ connected' = FALSE /\ ssid' = NoName
    /\ rx' = <<>> /\ waiting' = "no"
    /\ step' = "away" /\ scanned' = FALSE /\ net' = 1
    /\ checking' = FALSE /\ elapsed' = 0 /\ netOk' = FALSE
    /\ heard' = {} /\ quiet' = TRUE
    /\ UNCHANGED <<radio, hostOk, wired, host>>

WifiNext ==
    \/ HostServe \/ Arrive \/ HostReconnect
    \/ Scan \/ ReadHeader \/ ReadEntry
    \/ Arrows \/ Connect \/ Leave
    \/ ProbeWired \/ ProbeRadio \/ ProbeHost \/ ReadAnswer \/ Progress
    \/ Restart

WifiSpec == WifiInit /\ [][WifiNext]_wifiVars

-----------------------------------------------------------------------------
WifiTypeOK ==
    /\ Len(table) <= TableMax
    /\ \A i \in DOMAIN table : table[i].src \in {"radio", "host"} /\ table[i].ssid # NoName
    /\ {connected, radio, hostOk, wired, scanned, checking, netOk, quiet} \subseteq BOOLEAN
    /\ waiting \in {"no", "header", "entries", "answer"} /\ step \in {"wifi", "check", "away"}
    /\ net \in Nat \ {0} /\ elapsed \in Nat /\ last \subseteq HostNets
    /\ wifiFaults \in 0 .. MaxWifiFaults

(* However often and in whatever order a network was heard, it has one row,  *)
(* with the best signal and the strictest security of all that was heard    *)
(* under its name, and no row is without a source; only a full table leaves *)
(* a name out (wlan_add_bss, wlan_host_scan, parse_beacon).                  *)
TableTrue ==
    LET Same(b) == {h \in heard : h.ssid = b.ssid}
        Named(name) == {i \in DOMAIN table : table[i].ssid = name}
    IN  /\ \A i \in DOMAIN table :
             /\ Named(table[i].ssid) = {i}
             /\ \E h \in Same(table[i]) : h.sec = table[i].sec
             /\ \E h \in Same(table[i]) : h.quality = table[i].quality
             /\ \A h \in Same(table[i]) : h.sec <= table[i].sec /\ h.quality <= table[i].quality
        /\ \A h \in heard : Named(h.ssid) # {} \/ Len(table) = TableMax

(* Who claims to be connected was told so: by the host for this very name,   *)
(* if nothing older was outstanding when the question was asked; lines that  *)
(* had come in before never count as the answer.  An answer that is still on *)
(* its way then, or a scan, does count as soon as it begins with a K (see    *)
(* AnswerIsToThis).  Through the radio it is never a network with a key      *)
(* (wlan_connect, wlan_host_connect, com2_flush_rx, rtl8187_associate).      *)
ConnectedIsTrue ==
    connected =>
        \E i \in DOMAIN table :
            /\ table[i].ssid = ssid
            /\ IF table[i].src = "radio" THEN table[i].sec = OPEN ELSE quiet => said = ssid

(* The check screen says "connected" only of the network that is selected    *)
(* and connected: a second probe of the same check, a step back and another *)
(* choice, or a restart never leaves an old verdict standing                *)
(* (onboarding_run, ob_probe_link).                                         *)
VerdictIsCurrent ==
    (step = "check" /\ netOk /\ waiting = "no") => IsEth \/ (connected /\ ssid = table[net].ssid)

(* The table the user chooses from is bounded and true (wlan_add_bss).       *)
NetworkTable == WifiTypeOK /\ TableTrue

(* The K of tools/wlan_host.ps1:12-13 answers the C before it: who claims to *)
(* be connected through the host was told so for this name.                  *)
AnswerIsToThis ==
    connected =>
        \E i \in DOMAIN table :
            table[i].ssid = ssid /\ (table[i].src = "host" => said = ssid)

(* The driver claims a connection only if it was told so, by the answer to    *)
(* its own question unless an older one was outstanding, and the screen      *)
(* claims only the connection the driver has.                                *)
VerdictIsTrue == ConnectedIsTrue /\ VerdictIsCurrent
=============================================================================
