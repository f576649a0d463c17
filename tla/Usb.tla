-------------------------------- MODULE Usb --------------------------------
(***************************************************************************)
(* drivers/usb/ehci.c: finding the devices on the ports and transfers to   *)
(* them.  One queue head and three transfer descriptors serve every        *)
(* transfer; the controller works through them on its own and writes each  *)
(* result where the descriptor was when it began.  A transfer given up is  *)
(* unlinked at once, without waiting for the controller to let go of it    *)
(* (no asynchronous advance doorbell), and the next one is written over it.*)
(*                                                                         *)
(* A device is named by its port.  What it answers to a request is the     *)
(* pair of the two; a bulk frame is its sender and a number.               *)
(***************************************************************************)
EXTENDS Naturals, Sequences

CONSTANTS NPorts,        \* n_ports
          USB_MAX_DEV,
          MaxBulk,       \* bound: bulk transfers
          MaxUsbFaults   \* bound: refused and timed out transactions
ASSUME UsbAssumption == {NPorts, USB_MAX_DEV, MaxBulk, MaxUsbFaults} \subseteq Nat

VARIABLES
    plugged,   \* per port: "none", "low" speed, or "high"
    bus,       \* per port: what the device there remembers
    qtd, nQtd, \* qtd[], n_qtd
    call,      \* the transfer linked behind qh_head, or NoCall
    hc,        \* the controller: the descriptor it is at and the transfer it saw, or NoWork
    buf,       \* ctrl_buf + 64: the data of a control transfer
    bounce,    \* ctrl_buf + 128: the data of a bulk transfer
    at, port,  \* usb_ehci_init: the request, or "ports" or "up"; i
    desc, cfg, \* locals of enum_device
    devices,   \* devices[0 .. n_dev-1]
    handed,    \* ghost: per port, the number of the last frame handed up
    again,     \* ghost: a frame was handed up that was not new
    unheard,   \* ghost: a frame reported as sent was dropped by the device
    loose,     \* ghost: a transfer was unlinked while the controller was at it
    astray,    \* ghost: a device that answers was left unregistered
    bulks, usbFaults

enumVars == <<at, port, desc, cfg, devices, astray>>
ghosts == <<handed, again, unheard>>
usbVars == <<plugged, bus, qtd, nQtd, call, hc, buf, bounce, enumVars, ghosts,
             loose, bulks, usbFaults>>

AllPorts == 1..NPorts
Nobody == 0
NoCall == [kind |-> "none"]
NoWork == [k |-> 0]
Reads == {"desc8", "desc18", "cfg9", "cfg"}
Requests == Reads \cup {"setaddr", "setcfg"}
Disabled == [on |-> FALSE, addr |-> 0, asked |-> "none", to |-> 0, conf |-> FALSE, in |-> 0, out |-> 0, sent |-> 0]

\* usb_ehci_init after HCRESET: every port is disabled.
UsbInit ==
    /\ plugged \in [AllPorts -> {"none", "low", "high"}] /\ bus = [p \in AllPorts |-> Disabled]
    /\ qtd = [k \in 1..3 |-> [op |-> "none", st |-> "done"]] /\ nQtd = 0
    /\ call = NoCall /\ hc = NoWork
    /\ buf = <<Nobody, "none">> /\ bounce = <<Nobody, 0>>
    /\ at = "ports" /\ port = 1 /\ devices = <<>>
    /\ desc = <<Nobody, "none">> /\ cfg = <<Nobody, "none">>
    /\ handed = [p \in AllPorts |-> 0] /\ again = FALSE /\ unheard = FALSE
    /\ loose = FALSE /\ astray = FALSE /\ bulks = 0 /\ usbFaults = 0

UsbFault == usbFaults < MaxUsbFaults /\ usbFaults' = usbFaults + 1

-----------------------------------------------------------------------------
(* The driver: a transfer begins *)

\* qtd_fill; descriptors the transfer does not need keep what they had.
Fill(ops) ==
    /\ qtd' = [k \in 1..3 |-> IF k <= Len(ops) THEN [op |-> ops[k], st |-> "active"] ELSE qtd[k]]
    /\ nQtd' = Len(ops)

\* enum_device speaks to address 0 until SET_ADDRESS went through.
CtrlAddr == IF at \in {"desc8", "setaddr"} THEN 0 ELSE Len(devices) + 1

CtrlOps(req) == IF req \in Reads THEN <<"setup", "data", "status">> ELSE <<"setup", "status">>

UsbCtrl ==
    /\ at \in Requests /\ call = NoCall
    /\ call' = [kind |-> "ctrl", addr |-> CtrlAddr, req |-> at, value |-> Len(devices) + 1]
    /\ Fill(CtrlOps(at))
    /\ UNCHANGED <<plugged, bus, hc, buf, bounce, enumVars, ghosts, loose, bulks, usbFaults>>

UsbBulk(kind, addr) ==
    /\ at = "up" /\ call = NoCall /\ addr \in DOMAIN devices
    /\ bulks < MaxBulk /\ bulks' = bulks + 1
    /\ call' = [kind |-> kind, addr |-> addr]
    /\ Fill(<<kind>>)
    /\ bounce' = IF kind = "out" THEN <<Nobody, bulks'>> ELSE bounce
    /\ UNCHANGED <<plugged, bus, hc, buf, enumVars, ghosts, loose, usbFaults>>

-----------------------------------------------------------------------------
(* The controller and the devices *)

Halted == \E k \in 1..nQtd : qtd[k].st = "halted"
Pending == {k \in 1..nQtd : qtd[k].st = "active"}
Listening(addr) == {d \in AllPorts : bus[d].on /\ bus[d].addr = addr}

Fetch ==
    /\ hc = NoWork /\ call # NoCall /\ ~Halted
    /\ \E k \in Pending : (\A j \in Pending : k <= j) /\ hc' = [k |-> k, op |-> qtd[k].op, call |-> call]
    /\ UNCHANGED <<plugged, bus, qtd, nQtd, call, buf, bounce, enumVars, ghosts, loose, bulks, usbFaults>>

\* The device takes or gives a packet.  A set request takes effect when its
\* status packet passes.
SetupPacket(d) ==
    /\ bus' = [bus EXCEPT ![d].asked = hc.call.req, ![d].to = hc.call.value]
    /\ UNCHANGED <<buf, bounce, unheard>>
DataPacket(d) ==
    /\ bus[d].asked \in Reads
    /\ buf' = <<d, bus[d].asked>> /\ UNCHANGED <<bus, bounce, unheard>>
StatusPacket(d) ==
    /\ bus' = [bus EXCEPT ![d].asked = "none",
                          ![d].addr = IF bus[d].asked = "setaddr" THEN bus[d].to ELSE @,
                          ![d].conf = @ \/ bus[d].asked = "setcfg",
                          ![d].in = IF bus[d].asked = "setcfg" THEN 0 ELSE @,
                          ![d].out = IF bus[d].asked = "setcfg" THEN 0 ELSE @]
    /\ UNCHANGED <<buf, bounce, unheard>>
\* usb_bulk always begins with DATA0 and a device turns its toggle after each
\* packet that passed: one it has seen before, it confirms and drops.
InPacket(d) ==
    /\ bus[d].in = 0
    /\ bus' = [bus EXCEPT ![d].in = 1, ![d].sent = @ + 1]
    /\ bounce' = <<d, bus[d].sent + 1>> /\ UNCHANGED <<buf, unheard>>
OutPacket(d) ==
    /\ bus' = [bus EXCEPT ![d].out = 1]
    /\ unheard' = (unheard \/ bus[d].out = 1) /\ UNCHANGED <<buf, bounce>>

Packet ==
    /\ hc # NoWork
    /\ \E d \in Listening(hc.call.addr) :
         \/ hc.op = "setup" /\ SetupPacket(d)
         \/ hc.op = "data" /\ DataPacket(d)
         \/ hc.op = "status" /\ StatusPacket(d)
         \/ hc.op = "in" /\ InPacket(d)
         \/ hc.op = "out" /\ OutPacket(d)
    /\ qtd' = [qtd EXCEPT ![hc.k].st = "done"] /\ hc' = NoWork
    /\ UNCHANGED <<plugged, nQtd, call, enumVars, handed, again, loose, bulks, usbFaults>>

\* A DATA1 packet where DATA0 is expected: confirmed, dropped, asked for again.
Repeated ==
    /\ hc # NoWork /\ hc.op = "in"
    /\ \E d \in Listening(hc.call.addr) :
         bus[d].in = 1 /\ bus' = [bus EXCEPT ![d].in = 0, ![d].sent = @ + 1]
    /\ hc' = NoWork
    /\ UNCHANGED <<plugged, qtd, nQtd, call, buf, bounce, enumVars, ghosts, loose, bulks, usbFaults>>

\* The device is not ready (NAK) ...
NotReady ==
    /\ hc # NoWork /\ hc' = NoWork
    /\ UNCHANGED <<plugged, bus, qtd, nQtd, call, buf, bounce, enumVars, ghosts, loose, bulks, usbFaults>>

\* ... or refuses, or nobody answers.
Stalls ==
    /\ hc # NoWork /\ hc' = NoWork
    /\ qtd' = [qtd EXCEPT ![hc.k].st = "halted"]
    /\ IF Listening(hc.call.addr) = {} THEN UNCHANGED usbFaults ELSE UsbFault
    /\ UNCHANGED <<plugged, bus, nQtd, call, buf, bounce, enumVars, ghosts, loose, bulks>>

-----------------------------------------------------------------------------
(* The driver: a transfer ends *)

\* mutant: n counts the descriptors before the status stage
Done_NoStatus == call # NoCall /\ Pending \subseteq {nQtd} /\ ~Halted
Done == call # NoCall /\ Pending = {} /\ ~Halted
Failed == /\ call # NoCall
          /\ IF Halted THEN UNCHANGED usbFaults ELSE Pending # {} /\ UsbFault
Unlink == call' = NoCall /\ loose' = (loose \/ hc # NoWork)

NextPort == at' = "ports" /\ port' = port + 1

\* What follows a request in enum_device; a short configuration is whole after
\* its first nine bytes.
After(req) == CASE req = "desc8" -> {"setaddr"} [] req = "setaddr" -> {"desc18"}
                [] req = "desc18" -> {"cfg9"} [] req = "cfg9" -> {"cfg", "setcfg"}
                [] req = "cfg" -> {"setcfg"}

Device == [desc |-> desc, cfg |-> cfg]

CtrlDone ==
    /\ Done /\ call.kind = "ctrl" /\ Unlink
    /\ desc' = IF at \in {"desc8", "desc18"} THEN buf ELSE desc
    /\ cfg' = IF at \in {"cfg9", "cfg"} THEN buf ELSE cfg
    /\ IF at = "setcfg" THEN devices' = Append(devices, Device) /\ NextPort
       ELSE at' \in After(at) /\ UNCHANGED <<port, devices>>
    /\ UNCHANGED <<plugged, bus, qtd, nQtd, hc, buf, bounce, ghosts, astray, bulks, usbFaults>>

\* Only the second reading of the configuration may fail; after any other
\* failure the device is left as it is.
CtrlFailed ==
    /\ Failed /\ call.kind = "ctrl" /\ Unlink
    /\ IF at = "cfg" THEN at' = "setcfg" /\ UNCHANGED <<port, astray>>
       ELSE NextPort /\ astray' = TRUE
    /\ UNCHANGED <<plugged, bus, qtd, nQtd, hc, buf, bounce, desc, cfg, devices, ghosts, bulks>>

BulkDone ==
    /\ Done /\ call.kind \in {"in", "out"} /\ Unlink
    /\ IF call.kind = "in" /\ bounce[1] # Nobody
       THEN /\ again' = (again \/ bounce[2] <= handed[bounce[1]])
            /\ handed' = [handed EXCEPT ![bounce[1]] = bounce[2]]
       ELSE UNCHANGED <<again, handed>>
    /\ UNCHANGED <<plugged, bus, qtd, nQtd, hc, buf, bounce, enumVars, unheard, bulks, usbFaults>>

BulkFailed ==
    /\ Failed /\ call.kind \in {"in", "out"} /\ Unlink
    /\ UNCHANGED <<plugged, bus, qtd, nQtd, hc, buf, bounce, enumVars, ghosts, bulks>>

\* port_reset, and enum_device's first lines.  A slow device is left to a
\* companion controller.
PortReset ==
    /\ at = "ports" /\ port <= NPorts
    /\ IF plugged[port] = "high"
       THEN /\ bus' = [bus EXCEPT ![port] = [Disabled EXCEPT !.on = TRUE]]
            /\ IF Len(devices) >= USB_MAX_DEV THEN NextPort /\ astray' = TRUE /\ UNCHANGED desc
               ELSE at' = "desc8" /\ desc' = <<Nobody, "none">> /\ UNCHANGED <<port, astray>>
       ELSE NextPort /\ UNCHANGED <<bus, desc, astray>>
    /\ UNCHANGED <<plugged, qtd, nQtd, call, hc, buf, bounce, cfg, devices, ghosts, loose, bulks, usbFaults>>

PortsDone ==
    /\ at = "ports" /\ port > NPorts /\ at' = "up"
    /\ UNCHANGED <<plugged, bus, qtd, nQtd, call, hc, buf, bounce, port, desc, cfg, devices,
                   astray, ghosts, loose, bulks, usbFaults>>

UsbNext ==
    \/ PortReset \/ PortsDone
    \/ UsbCtrl \/ CtrlDone \/ CtrlFailed
    \/ \E addr \in DOMAIN devices : UsbBulk("in", addr) \/ UsbBulk("out", addr)
    \/ BulkDone \/ BulkFailed
    \/ Fetch \/ Packet \/ Repeated \/ NotReady \/ Stalls

UsbSpec == UsbInit /\ [][UsbNext]_usbVars

-----------------------------------------------------------------------------
UsbTypeOK ==
    /\ nQtd \in 0..3 /\ hc.k \in 0..3 /\ \A k \in 1..3 : qtd[k].st \in {"active", "done", "halted"}
    /\ call.kind \in {"none", "ctrl", "in", "out"} /\ at \in Requests \cup {"ports", "up"}
    /\ port \in 1..NPorts + 1 /\ Len(devices) <= USB_MAX_DEV
    /\ \A d \in AllPorts : bus[d].addr \in 0..Len(devices) + 1 /\ {bus[d].in, bus[d].out} \subseteq {0, 1}
    /\ {again, unheard, loose, astray} \subseteq BOOLEAN

(* A device in the table is the one that answers its address, it was told to *)
(* start, and what is known of it was read from it, although three requests  *)
(* of different length share the descriptors and a reading may fail and be   *)
(* ignored.  Not so after a device was left unregistered on the bus, which   *)
(* keeps address 0 or gets the next device's, nor after the controller was   *)
(* left at work on a transfer (enum_device, usb_ctrl, qh_run).               *)
TableAnswers ==
    ~loose /\ ~astray =>
        \A i \in DOMAIN devices : \E d \in AllPorts :
            /\ Listening(i) = {d} /\ bus[d].conf
            /\ devices[i].desc = <<d, "desc18">>
            /\ devices[i].cfg \in {<<d, "cfg9">>, <<d, "cfg">>}

(* Every frame the radio hands up is one its device sent, and a new one      *)
(* (usb_bulk), unless a transfer was given up while the controller was at it. *)
FramesAreNew == ~loose => ~again

(* What usb_bulk reports as sent, the device has taken.                      *)
SentIsTaken == ~unheard

(* The transfers and the table keep their bounds, every device in the table  *)
(* answers as itself, and no frame is handed up twice (usb_ctrl, usb_bulk,   *)
(* enum_device).                                                             *)
UsbSound == UsbTypeOK /\ TableAnswers /\ FramesAreNew
=============================================================================
