-------------------------------- MODULE Nic --------------------------------
(***************************************************************************)
(* net/nic.c and the two card drivers it chooses from, drivers/e1000.c and *)
(* drivers/pcnet.c.  Each has a ring of descriptors in memory for sending  *)
(* and one for receiving; the driver and the card walk them separately.    *)
(*                                                                         *)
(*   e1000  the card works between a head register of its own and a tail   *)
(*          register the driver writes, and sets DD in what it finished;   *)
(*   pcnet  each descriptor has an OWN bit that passes it to the other     *)
(*          side; there are no registers to compare.                       *)
(*                                                                         *)
(* mine is the bit the driver tests: DD set, or OWN clear.  Both drivers   *)
(* poll, so a call is one step; a send that finds its slot busy after      *)
(* 100000 looks returns false and changes nothing, and is left out.        *)
(* Buffers are never cleared: an old frame stays in its slot.              *)
(***************************************************************************)
EXTENDS Integers, Sequences, FiniteSets

CONSTANTS Slots,     \* bound: E1000_TX, E1000_RX, PCNET_TX, PCNET_RX
          Payloads,  \* what a frame can hold
          Nothing    \* no frame

ASSUME NicAssumption == Slots \in Nat /\ Slots > 1 /\ Nothing \notin Payloads

VARIABLES
    driver,  \* present: "off" before nic_init; "none": no card
    tx,      \* tx_ring, tx_buf
    txI,     \* tx_i
    tdt,     \* register TDT, e1000 only
    txHead,  \* where the card sends next (TDH)
    rx,      \* rx_ring, rx_buf
    rxI,     \* rx_i
    rdt,     \* register RDT, e1000 only
    rxHead,  \* where the card puts the next frame (RDH)
    wire,    \* the last frame put on the wire
    got      \* the last frame given to the stack

txVars == <<tx, txI, tdt, txHead, wire>>
rxVars == <<rx, rxI, rdt, rxHead, got>>
vars == <<driver, txVars, rxVars>>

Ring == 0..Slots - 1

NextSlot(i) == (i + 1) % Slots
Drivers == {"e1000", "pcnet"}

TypeOK ==
    /\ driver \in Drivers \cup {"off", "none"}
    /\ tx \in [Ring -> [mine: BOOLEAN, data: Payloads \cup {Nothing}]]
    /\ rx \in [Ring -> [mine: BOOLEAN, data: Payloads \cup {Nothing}, ok: BOOLEAN]]
    /\ {txI, tdt, txHead, rxI, rdt, rxHead} \subseteq Ring
    /\ {wire, got} \subseteq Payloads \cup {Nothing}

Init ==
    /\ driver = "off"
    /\ tx = [i \in Ring |-> [mine |-> TRUE, data |-> Nothing]]
    /\ rx = [i \in Ring |-> [mine |-> FALSE, data |-> Nothing, ok |-> FALSE]]
    /\ txI = 0 /\ tdt = 0 /\ txHead = 0
    /\ rxI = 0 /\ rdt = 0 /\ rxHead = 0
    /\ wire = Nothing /\ got = Nothing

-----------------------------------------------------------------------------
(* e1000_init and pcnet_init once they found their card: every send slot   *)
(* is the driver's, every receive slot the card's; RDT is the last slot,   *)
(* so the e1000 is given one slot less than the ring has.                  *)
E1000Init ==
    /\ driver' = "e1000"
    /\ tx' = [i \in Ring |-> [mine |-> TRUE, data |-> Nothing]]
    /\ rx' = [i \in Ring |-> [mine |-> FALSE, data |-> Nothing, ok |-> FALSE]]
    /\ txI' = 0 /\ txHead' = 0 /\ tdt' = 0
    /\ rxI' = 0 /\ rxHead' = 0 /\ rdt' = Slots - 1

PcnetInit ==
    /\ driver' = "pcnet"
    /\ tx' = [i \in Ring |-> [mine |-> TRUE, data |-> Nothing]]
    /\ rx' = [i \in Ring |-> [mine |-> FALSE, data |-> Nothing, ok |-> FALSE]]
    /\ txI' = 0 /\ txHead' = 0 /\ tdt' = 0
    /\ rxI' = 0 /\ rxHead' = 0 /\ rdt' = 0

(* nic_init: the e1000 driver first; it declines a card whose BAR0 is an   *)
(* I/O port, as pcnet_init declines one whose BAR0 is memory.              *)
NicInit(e1000, pcnet) ==
    /\ driver = "off"
    /\ \/ e1000 = "memory" /\ E1000Init
       \/ e1000 # "memory" /\ pcnet = "io" /\ PcnetInit
       \/ /\ e1000 # "memory" /\ pcnet # "io" /\ driver' = "none"
          /\ UNCHANGED <<tx, txI, tdt, txHead, rx, rxI, rdt, rxHead>>
    /\ UNCHANGED <<wire, got>>

-----------------------------------------------------------------------------
(* mutant: TDT is written before tx_i moves on. *)
E1000Send_TailFirst(p) ==
    /\ tx[txI].mine
    /\ tx' = [tx EXCEPT ![txI] = [mine |-> FALSE, data |-> p]]
    /\ tdt' = txI
    /\ txI' = NextSlot(txI)

E1000Send(p) ==
    /\ tx[txI].mine
    /\ tx' = [tx EXCEPT ![txI] = [mine |-> FALSE, data |-> p]]
    /\ txI' = NextSlot(txI)
    /\ tdt' = txI'

PcnetSend(p) ==
    /\ tx[txI].mine
    /\ tx' = [tx EXCEPT ![txI] = [mine |-> FALSE, data |-> p]]
    /\ txI' = NextSlot(txI)
    /\ UNCHANGED tdt

NicSend(p) ==
    /\ \/ driver = "e1000" /\ E1000Send(p)
       \/ driver = "pcnet" /\ PcnetSend(p)
    /\ UNCHANGED <<driver, txHead, wire, rxVars>>

(* A frame marked with an error is dropped by e1000_recv; pcnet_recv looks *)
(* at nothing but OWN.  0 bytes leave the stack's buffer as it is.         *)
(* mutant: RDT names the slot after the one just read. *)
E1000Recv_TailPast ==
    /\ rx[rxI].mine
    /\ got' = IF rx[rxI].ok THEN rx[rxI].data ELSE Nothing
    /\ rx' = [rx EXCEPT ![rxI].mine = FALSE]
    /\ rxI' = NextSlot(rxI)
    /\ rdt' = rxI'

E1000Recv ==
    /\ rx[rxI].mine
    /\ got' = IF rx[rxI].ok THEN rx[rxI].data ELSE Nothing
    /\ rx' = [rx EXCEPT ![rxI].mine = FALSE]
    /\ rdt' = rxI
    /\ rxI' = NextSlot(rxI)

(* mutant: the slot is read again and again until the card refills it. *)
PcnetRecv_KeepOwn ==
    /\ rx[rxI].mine
    /\ got' = rx[rxI].data
    /\ rxI' = NextSlot(rxI)
    /\ UNCHANGED <<rx, rdt>>

PcnetRecv ==
    /\ rx[rxI].mine
    /\ got' = rx[rxI].data
    /\ rx' = [rx EXCEPT ![rxI].mine = FALSE]
    /\ rxI' = NextSlot(rxI)
    /\ UNCHANGED rdt

NicRecv ==
    /\ \/ driver = "e1000" /\ E1000Recv
       \/ driver = "pcnet" /\ PcnetRecv
    /\ UNCHANGED <<driver, rxHead, txVars>>

-----------------------------------------------------------------------------
(* The cards.  An e1000 whose head meets its tail has nothing to do, be    *)
(* the ring empty or full.                                                 *)
HasWork == \/ driver = "e1000" /\ txHead # tdt
           \/ driver = "pcnet" /\ ~tx[txHead].mine

CardSend ==
    /\ HasWork
    /\ wire' = tx[txHead].data
    /\ tx' = [tx EXCEPT ![txHead].mine = TRUE]
    /\ txHead' = NextSlot(txHead)
    /\ UNCHANGED <<driver, txI, tdt, rxVars>>

HasRoom == \/ driver = "e1000" /\ rxHead # rdt
           \/ driver = "pcnet" /\ ~rx[rxHead].mine

CardReceive(p, ok) ==
    /\ HasRoom
    /\ rx' = [rx EXCEPT ![rxHead] = [mine |-> TRUE, data |-> p, ok |-> ok]]
    /\ rxHead' = NextSlot(rxHead)
    /\ UNCHANGED <<driver, rxI, rdt, got, txVars>>

Next ==
    \/ \E e \in {"absent", "memory", "io"}, p \in {"absent", "memory", "io"} :
          NicInit(e, p)
    \/ \E p \in Payloads : NicSend(p) \/ \E ok \in BOOLEAN : CardReceive(p, ok)
    \/ NicRecv
    \/ CardSend

(* The card works by itself; whether the stack reads is up to the stack. *)
Spec == Init /\ [][Next]_vars /\ WF_vars(CardSend)

-----------------------------------------------------------------------------
Busy == {i \in Ring : ~tx[i].mine}
Waiting == {i \in Ring : rx[i].mine}

(* The slots from a starting point on, in ring order. *)
From(start, ring, count) == [k \in 1..count |-> ring[(start + k - 1) % Slots]]

outQ == LET slots == From(txHead, tx, Cardinality(Busy))
        IN [k \in DOMAIN slots |-> slots[k].data]
inQ == LET slots == From(rxI, rx, Cardinality(Waiting))
       IN [k \in DOMAIN slots |-> [data |-> slots[k].data, ok |-> slots[k].ok]]

Card == INSTANCE Link

(* Through either driver frames leave, and are handed up, once, unchanged  *)
(* and in order, whatever the two sides of the rings do meanwhile: no slot *)
(* is overwritten before it is read, skipped, or read twice.               *)
ImplementsLink == Card!Spec

(* The ring never loses capacity: the frames that wait and the frames the  *)
(* card could still take (the slots between its head and the tail register *)
(* the driver wrote, or those it owns) always make up the whole ring, less *)
(* the one slot the e1000 keeps free.                                      *)
RoomLeft == IF driver = "e1000" THEN (rdt - rxHead) % Slots
            ELSE Cardinality(Ring \ Waiting)
CapacityKept ==
    driver \in Drivers =>
        Cardinality(Waiting) + RoomLeft
            = IF driver = "e1000" THEN Slots - 1 ELSE Slots

(* Every send slot filled while the card did nothing: TDT caught up with   *)
(* TDH, the card sees an empty ring, and no slot is ever given back.       *)
Wedged == driver = "e1000" /\ txHead = tdt /\ Busy = Ring

(* A frame accepted for sending leaves the ring.  The one exception is the *)
(* e1000 ring that was filled before the card sent anything: e1000_send    *)
(* does not keep a slot free, and then the card never sends again.         *)
FramesLeave == \A i \in Ring : (i \in Busy) ~> (i \notin Busy \/ Wedged)

(* The indices of both sides stay in their rings and lose no slot           *)
(* (e1000_recv, pcnet_recv).                                                *)
RingsSound == TypeOK /\ CapacityKept
=============================================================================
