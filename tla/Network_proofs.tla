---------------------------- MODULE Network_proofs ----------------------------
(***************************************************************************)
(* The cards, and then the stack above them.                               *)
(*                                                                         *)
(* RingsSound and ImplementsLink for rings of any size and any payloads.   *)
(* NicInv says which slots wait: an arc of the ring, from the side that    *)
(* empties it up to the side that fills it.                                *)
(*                                                                         *)
(* ReachesNextHop and RepliesMatch for any hosts, calls and arrivals.      *)
(* NetInv says for every arp_resolve that is running which address it      *)
(* resolves and what waits to be sent there, however deep they nest.       *)
(***************************************************************************)
EXTENDS Nic, Net, FiniteSetTheorems, SequenceTheorems, TLAPS

Plus(i, n) == IF i + n < Slots THEN i + n ELSE i + n - Slots
Ahead(i, j) == IF i <= j THEN j - i ELSE j - i + Slots
Arc(i, n) == {j \in Ring : Ahead(i, j) < n}

(* The driver fills the send ring and the card empties it; TDT follows.    *)
SendRing ==
  /\ Busy = Arc(txHead, Cardinality(Busy))
  /\ txI = Plus(txHead, Cardinality(Busy))
  /\ driver = "e1000" => tdt = txI

(* The card fills the receive ring; the e1000 may not fill it up, since    *)
(* RDT is the last slot the driver read.                                   *)
ReceiveRing ==
  /\ Waiting = Arc(rxI, Cardinality(Waiting))
  /\ rxHead = Plus(rxI, Cardinality(Waiting))
  /\ driver = "e1000" => rxI = Plus(rdt, 1) /\ Cardinality(Waiting) < Slots

NicInv ==
  /\ TypeOK /\ SendRing /\ ReceiveRing
  /\ driver \notin Drivers => Busy = {} /\ Waiting = {}

-----------------------------------------------------------------------------
(* Arithmetic on the ring. *)
LEMMA RingMod ==
  ASSUME NEW a \in Int, -Slots < a, a < 2 * Slots
  PROVE  a % Slots = IF a < 0 THEN a + Slots ELSE IF a < Slots THEN a ELSE a - Slots
<1>1. Slots \in Nat /\ Slots > 1
  BY NicAssumption
<1>2. CASE a < 0
  BY <1>1, <1>2
<1>3. CASE 0 <= a /\ a < Slots
  BY <1>1, <1>3
<1>4. CASE Slots <= a
  BY <1>1, <1>4
<1> QED
  BY <1>1, <1>2, <1>3, <1>4

LEMMA NextIsPlus ==
  ASSUME NEW i \in Ring
  PROVE  NextSlot(i) = Plus(i, 1) /\ Plus(i, 1) \in Ring
<1>1. i + 1 \in Int /\ 0 <= i + 1 /\ i + 1 < 2 * Slots
  BY NicAssumption DEF Ring
<1> QED
  BY <1>1, RingMod, NicAssumption DEF NextSlot, Plus, Ring

LEMMA PlusInRing ==
  ASSUME NEW i \in Ring, NEW n \in 0 .. Slots
  PROVE  Plus(i, n) \in Ring
BY NicAssumption DEF Plus, Ring

LEMMA RingFinite ==
  /\ IsFiniteSet(Ring) /\ Cardinality(Ring) = Slots
  /\ \A S \in SUBSET Ring : IsFiniteSet(S) /\ Cardinality(S) \in 0 .. Slots
<1>1. IsFiniteSet(Ring) /\ Cardinality(Ring) = Slots
  BY FS_Interval, NicAssumption DEF Ring
<1>2. ASSUME NEW S \in SUBSET Ring
      PROVE  IsFiniteSet(S) /\ Cardinality(S) \in 0 .. Slots
  <2>1. IsFiniteSet(S) /\ Cardinality(S) <= Slots
    BY <1>1, FS_Subset
  <2>2. Cardinality(S) \in Nat
    BY <2>1, FS_CardinalityType
  <2> QED
    BY <2>1, <2>2, NicAssumption
<1> QED
  BY <1>1, <1>2

(* Filling the slot after an arc, or emptying its first, gives an arc. *)
LEMMA ArcGrows ==
  ASSUME NEW i \in Ring, NEW n \in 0 .. Slots - 1
  PROVE  /\ Plus(i, n) \in Ring /\ Plus(i, n) \notin Arc(i, n)
         /\ Arc(i, n + 1) = Arc(i, n) \cup {Plus(i, n)}
         /\ Plus(i, n + 1) = Plus(Plus(i, n), 1)
BY NicAssumption DEF Arc, Plus, Ahead, Ring

LEMMA ArcShrinks ==
  ASSUME NEW i \in Ring, NEW n \in 1 .. Slots
  PROVE  /\ i \in Arc(i, n)
         /\ Arc(Plus(i, 1), n - 1) = Arc(i, n) \ {i}
         /\ Plus(Plus(i, 1), n - 1) = Plus(i, n)
BY NicAssumption DEF Arc, Plus, Ahead, Ring

LEMMA WholeArc ==
  ASSUME NEW i \in Ring
  PROVE  Arc(i, 0) = {} /\ Arc(i, Slots) = Ring /\ Plus(i, 0) = i /\ Plus(i, Slots) = i
BY NicAssumption DEF Arc, Plus, Ahead, Ring

-----------------------------------------------------------------------------
(* What a step does to the rings. *)
LEMMA Counted ==
  /\ IsFiniteSet(Busy) /\ Cardinality(Busy) \in 0 .. Slots
  /\ IsFiniteSet(Waiting) /\ Cardinality(Waiting) \in 0 .. Slots
BY RingFinite DEF Busy, Waiting

(* The fields of TypeOK one by one. *)
Fields ==
  /\ driver \in Drivers \cup {"off", "none"}
  /\ tx \in [Ring -> [mine: BOOLEAN, data: Payloads \cup {Nothing}]]
  /\ rx \in [Ring -> [mine: BOOLEAN, data: Payloads \cup {Nothing}, ok: BOOLEAN]]
  /\ txI \in Ring /\ tdt \in Ring /\ txHead \in Ring
  /\ rxI \in Ring /\ rdt \in Ring /\ rxHead \in Ring
  /\ wire \in Payloads \cup {Nothing} /\ got \in Payloads \cup {Nothing}

LEMMA FieldsTyped == (TypeOK <=> Fields) /\ (TypeOK' <=> Fields')
BY DEF TypeOK, Fields

LEMMA SendFills ==
  ASSUME NicInv, NEW p \in Payloads, NicSend(p)
  PROVE  /\ Fields /\ Fields' /\ driver \in Drivers
         /\ Cardinality(Busy) \in 0 .. Slots - 1 /\ txI = Plus(txHead, Cardinality(Busy))
         /\ tx' = [tx EXCEPT ![txI] = [mine |-> FALSE, data |-> p]]
         /\ Busy' = Busy \cup {txI} /\ Cardinality(Busy') = Cardinality(Busy) + 1
         /\ SendRing'
<1>1. /\ Fields /\ tx[txI].mine /\ txI' = NextSlot(txI) /\ driver \in Drivers
      /\ tx' = [tx EXCEPT ![txI] = [mine |-> FALSE, data |-> p]]
      /\ tdt' = IF driver = "e1000" THEN txI' ELSE tdt
      /\ UNCHANGED <<driver, txHead, wire>> /\ UNCHANGED <<rx, rxI, rdt, rxHead, got>>
  BY FieldsTyped DEF NicInv, NicSend, E1000Send, PcnetSend, Drivers, rxVars
<1>2. Cardinality(Busy) \in 0 .. Slots - 1
  <2>1. txI \in Ring \ Busy
    BY <1>1 DEF Fields, Busy
  <2>2. Cardinality(Busy) # Slots
    BY <1>1, <2>1, WholeArc DEF NicInv, SendRing, Fields
  <2> QED
    BY <2>2, Counted, NicAssumption
<1>3. txI' \in Ring /\ txI' = Plus(txI, 1)
  BY <1>1, NextIsPlus DEF Fields
<1>4. Fields'
  <2>1. tx' \in [Ring -> [mine: BOOLEAN, data: Payloads \cup {Nothing}]]
    BY <1>1 DEF Fields
  <2> QED
    BY <1>1, <1>3, <2>1 DEF Fields
<1>5. Busy' = Busy \cup {txI}
  BY <1>1 DEF Busy, Fields
<1>6. Cardinality(Busy') = Cardinality(Busy) + 1
  <2>1. txI \notin Busy
    BY <1>1 DEF Busy
  <2> QED
    BY <1>5, <2>1, Counted, FS_AddElement
<1>7. txI = Plus(txHead, Cardinality(Busy))
  BY DEF NicInv, SendRing
<1>8. SendRing'
  <2>1. Busy' = Arc(txHead, Cardinality(Busy) + 1)
        /\ txI' = Plus(txHead, Cardinality(Busy) + 1)
    BY <1>1, <1>2, <1>3, <1>5, <1>7, ArcGrows DEF Fields, NicInv, SendRing
  <2>2. Arc(txHead, Cardinality(Busy) + 1) = Arc(txHead', Cardinality(Busy'))
        /\ Plus(txHead, Cardinality(Busy) + 1) = Plus(txHead', Cardinality(Busy'))
    BY <1>1, <1>6
  <2> QED
    BY <1>1, <2>1, <2>2 DEF SendRing, Arc
<1> QED
  BY <1>1, <1>2, <1>4, <1>5, <1>6, <1>7, <1>8

LEMMA CardSendEmpties ==
  ASSUME NicInv, CardSend
  PROVE  /\ Fields /\ Fields' /\ driver \in Drivers
         /\ Cardinality(Busy) \in 1 .. Slots /\ wire' = tx[txHead].data
         /\ tx' = [tx EXCEPT ![txHead].mine = TRUE] /\ txHead' = Plus(txHead, 1)
         /\ Busy' = Busy \ {txHead} /\ Cardinality(Busy') = Cardinality(Busy) - 1
         /\ SendRing'
<1>1. /\ Fields /\ driver \in Drivers
      /\ wire' = tx[txHead].data /\ txHead' = NextSlot(txHead)
      /\ tx' = [tx EXCEPT ![txHead].mine = TRUE]
      /\ UNCHANGED <<driver, txI, tdt>> /\ UNCHANGED <<rx, rxI, rdt, rxHead, got>>
  BY FieldsTyped DEF NicInv, CardSend, HasWork, Drivers, rxVars
<1>2. Cardinality(Busy) \in 1 .. Slots
  <2>1. Cardinality(Busy) # 0
    <3>1. CASE driver = "e1000"
      BY <1>1, <3>1, WholeArc DEF NicInv, SendRing, CardSend, HasWork, Fields
    <3>2. CASE driver # "e1000"
      <4>1. txHead \in Busy
        BY <1>1, <3>2 DEF CardSend, HasWork, Busy, Fields
      <4> QED
        BY <4>1, Counted, FS_EmptySet
    <3> QED
      BY <3>1, <3>2
  <2> QED
    BY <2>1, Counted, NicAssumption
<1>3. txHead' \in Ring /\ txHead' = Plus(txHead, 1)
  BY <1>1, NextIsPlus DEF Fields
<1>4. Fields'
  <2>1. tx' \in [Ring -> [mine: BOOLEAN, data: Payloads \cup {Nothing}]]
    BY <1>1 DEF Fields
  <2> QED
    BY <1>1, <1>3, <2>1 DEF Fields
<1>5. Busy' = Busy \ {txHead}
  BY <1>1 DEF Busy, Fields
<1>6. Cardinality(Busy') = Cardinality(Busy) - 1
  <2>1. txHead \in Busy
    BY <1>1, <1>2, ArcShrinks DEF NicInv, SendRing, Fields
  <2> QED
    BY <1>5, <2>1, Counted, FS_RemoveElement
<1>7. SendRing'
  <2>1. Busy' = Arc(txHead', Cardinality(Busy) - 1)
        /\ txI' = Plus(txHead', Cardinality(Busy) - 1)
    BY <1>1, <1>2, <1>3, <1>5, ArcShrinks DEF Fields, NicInv, SendRing
  <2>2. Arc(txHead', Cardinality(Busy) - 1) = Arc(txHead', Cardinality(Busy'))
        /\ Plus(txHead', Cardinality(Busy) - 1) = Plus(txHead', Cardinality(Busy'))
    BY <1>6
  <2> QED
    BY <1>1, <2>1, <2>2 DEF SendRing, NicInv, Arc
<1> QED
  BY <1>1, <1>2, <1>3, <1>4, <1>5, <1>6, <1>7

LEMMA CardReceiveFills ==
  ASSUME NicInv, NEW p \in Payloads, NEW ok \in BOOLEAN, CardReceive(p, ok)
  PROVE  /\ Fields /\ Fields' /\ driver \in Drivers
         /\ Cardinality(Waiting) \in 0 .. Slots - 1
         /\ rxHead = Plus(rxI, Cardinality(Waiting))
         /\ rx' = [rx EXCEPT ![rxHead] = [mine |-> TRUE, data |-> p, ok |-> ok]]
         /\ Waiting' = Waiting \cup {rxHead}
         /\ Cardinality(Waiting') = Cardinality(Waiting) + 1
         /\ ReceiveRing'
<1>1. /\ Fields /\ driver \in Drivers /\ rxHead' = NextSlot(rxHead)
      /\ rx' = [rx EXCEPT ![rxHead] = [mine |-> TRUE, data |-> p, ok |-> ok]]
      /\ UNCHANGED <<driver, rxI, rdt, got>> /\ UNCHANGED <<tx, txI, tdt, txHead, wire>>
  BY FieldsTyped DEF NicInv, CardReceive, HasRoom, Drivers, txVars
<1>2. rxHead = Plus(rxI, Cardinality(Waiting))
  BY DEF NicInv, ReceiveRing
<1>3. /\ Cardinality(Waiting) \in 0 .. Slots - 1
      /\ driver = "e1000" => Cardinality(Waiting) + 1 < Slots
  <2>1. CASE driver = "e1000"
    <3>1. rxI = Plus(rdt, 1) /\ Cardinality(Waiting) < Slots /\ rxHead # rdt
      BY <2>1 DEF NicInv, ReceiveRing, CardReceive, HasRoom
    <3>2. rxI \in Ring /\ rdt \in Ring /\ Cardinality(Waiting) \in 0 .. Slots
      BY <1>1, Counted DEF Fields
    <3>3. Plus(Plus(rdt, 1), Slots - 1) = rdt
      BY <3>2, NicAssumption DEF Plus, Ring
    <3>4. Cardinality(Waiting) # Slots - 1
      BY <1>2, <3>1, <3>3
    <3> QED
      BY <3>1, <3>2, <3>4, NicAssumption
  <2>2. CASE driver # "e1000"
    <3>1. rxHead \in Ring \ Waiting
      BY <1>1, <2>2 DEF CardReceive, HasRoom, Waiting, Fields
    <3>2. Cardinality(Waiting) # Slots
      BY <1>1, <3>1, WholeArc DEF NicInv, ReceiveRing, Fields
    <3> QED
      BY <2>2, <3>2, Counted, NicAssumption
  <2> QED
    BY <2>1, <2>2
<1>4. rxHead' \in Ring /\ rxHead' = Plus(rxHead, 1)
  BY <1>1, NextIsPlus DEF Fields
<1>5. Fields'
  <2>1. rx' \in [Ring -> [mine: BOOLEAN, data: Payloads \cup {Nothing}, ok: BOOLEAN]]
    BY <1>1 DEF Fields
  <2> QED
    BY <1>1, <1>4, <2>1 DEF Fields
<1>6. Waiting' = Waiting \cup {rxHead}
  BY <1>1 DEF Waiting, Fields
<1>7. rxHead \notin Waiting
  BY <1>1, <1>2, <1>3, ArcGrows DEF NicInv, ReceiveRing, Fields
<1>8. Cardinality(Waiting') = Cardinality(Waiting) + 1
  BY <1>6, <1>7, Counted, FS_AddElement
<1>9. ReceiveRing'
  <2>1. Waiting' = Arc(rxI, Cardinality(Waiting) + 1)
        /\ rxHead' = Plus(rxI, Cardinality(Waiting) + 1)
    BY <1>1, <1>2, <1>3, <1>4, <1>6, ArcGrows DEF Fields, NicInv, ReceiveRing
  <2>2. Arc(rxI, Cardinality(Waiting) + 1) = Arc(rxI', Cardinality(Waiting'))
        /\ Plus(rxI, Cardinality(Waiting) + 1) = Plus(rxI', Cardinality(Waiting'))
    BY <1>1, <1>8
  <2>3. driver' = "e1000" => rxI' = Plus(rdt', 1) /\ Cardinality(Waiting') < Slots
    BY <1>1, <1>3, <1>8 DEF NicInv, ReceiveRing
  <2> QED
    BY <2>1, <2>2, <2>3 DEF ReceiveRing, Arc
<1> QED
  BY <1>1, <1>2, <1>3, <1>5, <1>6, <1>8, <1>9

LEMMA RecvEmpties ==
  ASSUME NicInv, NicRecv
  PROVE  /\ Fields /\ Fields' /\ driver \in Drivers
         /\ Cardinality(Waiting) \in 1 .. Slots /\ rxI' = Plus(rxI, 1)
         /\ got' \in {rx[rxI].data} \cup (IF rx[rxI].ok THEN {} ELSE {Nothing})
         /\ rx' = [rx EXCEPT ![rxI].mine = FALSE]
         /\ Waiting' = Waiting \ {rxI} /\ Cardinality(Waiting') = Cardinality(Waiting) - 1
         /\ ReceiveRing'
<1>1. /\ Fields /\ driver \in Drivers /\ rx[rxI].mine /\ rxI' = NextSlot(rxI)
      /\ rx' = [rx EXCEPT ![rxI].mine = FALSE]
      /\ rdt' = IF driver = "e1000" THEN rxI ELSE rdt
      /\ UNCHANGED <<driver, rxHead>> /\ UNCHANGED <<tx, txI, tdt, txHead, wire>>
  BY FieldsTyped DEF NicInv, NicRecv, E1000Recv, PcnetRecv, Drivers, txVars
<1>2. got' \in {rx[rxI].data} \cup (IF rx[rxI].ok THEN {} ELSE {Nothing})
  BY DEF NicRecv, E1000Recv, PcnetRecv
<1>3. rxI \in Waiting
  BY <1>1 DEF Waiting, Fields
<1>4. Cardinality(Waiting) \in 1 .. Slots
  <2>1. Cardinality(Waiting) # 0
    BY <1>3, Counted, FS_EmptySet
  <2> QED
    BY <2>1, Counted, NicAssumption
<1>5. rxI' \in Ring /\ rxI' = Plus(rxI, 1)
  BY <1>1, NextIsPlus DEF Fields
<1>6. Fields'
  <2>1. rx' \in [Ring -> [mine: BOOLEAN, data: Payloads \cup {Nothing}, ok: BOOLEAN]]
    BY <1>1 DEF Fields
  <2>2. got' \in Payloads \cup {Nothing}
    BY <1>1, <1>2 DEF Fields
  <2> QED
    BY <1>1, <1>5, <2>1, <2>2 DEF Fields
<1>7. Waiting' = Waiting \ {rxI}
  BY <1>1 DEF Waiting, Fields
<1>8. Cardinality(Waiting') = Cardinality(Waiting) - 1
  BY <1>3, <1>7, Counted, FS_RemoveElement
<1>9. ReceiveRing'
  <2>1. Waiting' = Arc(rxI', Cardinality(Waiting) - 1)
        /\ rxHead' = Plus(rxI', Cardinality(Waiting) - 1)
    BY <1>1, <1>4, <1>5, <1>7, ArcShrinks DEF Fields, NicInv, ReceiveRing
  <2>2. Arc(rxI', Cardinality(Waiting) - 1) = Arc(rxI', Cardinality(Waiting'))
        /\ Plus(rxI', Cardinality(Waiting) - 1) = Plus(rxI', Cardinality(Waiting'))
    BY <1>8
  <2>3. driver' = "e1000" => rxI' = Plus(rdt', 1) /\ Cardinality(Waiting') < Slots
    BY <1>1, <1>4, <1>5, <1>8, NicAssumption
  <2> QED
    BY <2>1, <2>2, <2>3 DEF ReceiveRing, Arc
<1> QED
  BY <1>1, <1>2, <1>4, <1>5, <1>6, <1>7, <1>8, <1>9

-----------------------------------------------------------------------------
(* The invariant, and what it gives. *)
LEMMA NicInitSound ==
  ASSUME NicInv, NEW e, NEW q, NicInit(e, q)
  PROVE  NicInv' /\ Busy = {} /\ Waiting = {} /\ Busy' = {} /\ Waiting' = {}
<1>1. Busy = {} /\ Waiting = {} /\ Fields /\ driver = "off" /\ UNCHANGED <<wire, got>>
  BY FieldsTyped DEF NicInv, NicInit, Drivers
<1>2. 0 \in Ring /\ Slots - 1 \in Ring /\ Slots > 1
  BY NicAssumption DEF Ring
<1>3. CASE E1000Init
  <2>1. Fields'
    BY <1>1, <1>2, <1>3 DEF E1000Init, Fields, Drivers
  <2>2. Busy' = {} /\ Waiting' = {}
    BY <1>3 DEF E1000Init, Busy, Waiting
  <2>3. Cardinality(Busy') = 0 /\ Cardinality(Waiting') = 0
    BY <2>2, FS_EmptySet
  <2>4. 0 = Plus(Slots - 1, 1)
    BY NicAssumption DEF Plus
  <2>5. SendRing'
    BY <1>2, <1>3, <2>2, <2>3, WholeArc DEF E1000Init, SendRing, Arc
  <2>6. rxI' = 0 /\ rxHead' = 0 /\ rdt' = Slots - 1
    BY <1>3 DEF E1000Init
  <2>7. rxI' = Plus(rdt', 1) /\ Cardinality(Waiting') < Slots
    BY <2>3, <2>4, <2>6, NicAssumption
  <2>8. ReceiveRing'
    BY <1>2, <2>2, <2>3, <2>6, <2>7, WholeArc DEF ReceiveRing, Arc
  <2> QED
    BY <1>1, <2>1, <2>2, <2>5, <2>8, FieldsTyped DEF NicInv
<1>4. CASE PcnetInit
  <2>1. Fields'
    BY <1>1, <1>2, <1>4 DEF PcnetInit, Fields, Drivers
  <2>2. Busy' = {} /\ Waiting' = {}
    BY <1>4 DEF PcnetInit, Busy, Waiting
  <2>3. Cardinality(Busy') = 0 /\ Cardinality(Waiting') = 0
    BY <2>2, FS_EmptySet
  <2>4. SendRing' /\ ReceiveRing'
    BY <1>2, <1>4, <2>2, <2>3, WholeArc DEF PcnetInit, SendRing, ReceiveRing, Arc
  <2> QED
    BY <1>1, <2>1, <2>2, <2>4, FieldsTyped DEF NicInv
<1>5. CASE driver' = "none" /\ UNCHANGED <<tx, txI, tdt, txHead, rx, rxI, rdt, rxHead>>
  <2>1. Fields'
    BY <1>1, <1>5 DEF Fields
  <2>2. Busy' = Busy /\ Waiting' = Waiting
    BY <1>5 DEF Busy, Waiting
  <2>3. SendRing'
    BY <1>5, <2>2 DEF NicInv, SendRing, Arc
  <2>4. ReceiveRing'
    BY <1>5, <2>2 DEF NicInv, ReceiveRing, Arc
  <2> QED
    BY <1>1, <1>5, <2>1, <2>2, <2>3, <2>4, FieldsTyped DEF NicInv
<1>6. \/ E1000Init \/ PcnetInit
      \/ driver' = "none" /\ UNCHANGED <<tx, txI, tdt, txHead, rx, rxI, rdt, rxHead>>
  BY DEF NicInit
<1> QED
  BY <1>1, <1>3, <1>4, <1>5, <1>6

(* A step on one ring leaves the other as it was. *)
LEMMA SameSend ==
  ASSUME SendRing, UNCHANGED <<driver, tx, txI, tdt, txHead>>
  PROVE  SendRing' /\ Busy' = Busy /\ outQ' = outQ
BY DEF SendRing, Busy, Arc, outQ, From

LEMMA SameReceive ==
  ASSUME ReceiveRing, UNCHANGED <<driver, rx, rxI, rdt, rxHead>>
  PROVE  ReceiveRing' /\ Waiting' = Waiting /\ inQ' = inQ
BY DEF ReceiveRing, Waiting, Arc, inQ, From

LEMMA NicInvStep == NicInv /\ [Next]_vars => NicInv'
<1> SUFFICES ASSUME NicInv, [Next]_vars PROVE NicInv'
  OBVIOUS
<1>1. ASSUME NEW e, NEW q, NicInit(e, q) PROVE NicInv'
  BY <1>1, NicInitSound
<1>2. ASSUME NEW p \in Payloads, NicSend(p) PROVE NicInv'
  <2>1. UNCHANGED <<driver, rx, rxI, rdt, rxHead>>
    BY <1>2 DEF NicSend, rxVars
  <2> QED
    BY <1>2, <2>1, SendFills, SameReceive, FieldsTyped DEF NicInv
<1>3. ASSUME NEW p \in Payloads, NEW ok \in BOOLEAN, CardReceive(p, ok) PROVE NicInv'
  <2>1. UNCHANGED <<driver, tx, txI, tdt, txHead>>
    BY <1>3 DEF CardReceive, txVars
  <2> QED
    BY <1>3, <2>1, CardReceiveFills, SameSend, FieldsTyped DEF NicInv
<1>4. CASE NicRecv
  <2>1. UNCHANGED <<driver, tx, txI, tdt, txHead>>
    BY <1>4 DEF NicRecv, txVars
  <2> QED
    BY <1>4, <2>1, RecvEmpties, SameSend, FieldsTyped DEF NicInv
<1>5. CASE CardSend
  <2>1. UNCHANGED <<driver, rx, rxI, rdt, rxHead>>
    BY <1>5 DEF CardSend, rxVars
  <2> QED
    BY <1>5, <2>1, CardSendEmpties, SameReceive, FieldsTyped DEF NicInv
<1>6. CASE UNCHANGED vars
  <2>1. UNCHANGED <<driver, tx, txI, tdt, txHead>> /\ UNCHANGED <<rx, rxI, rdt, rxHead>>
        /\ UNCHANGED <<wire, got>>
    BY <1>6 DEF vars, txVars, rxVars
  <2>2. Fields'
    BY <2>1, FieldsTyped DEF NicInv, Fields
  <2> QED
    BY <2>1, <2>2, SameSend, SameReceive, FieldsTyped DEF NicInv
<1> QED
  BY <1>1, <1>2, <1>3, <1>4, <1>5, <1>6 DEF Next

LEMMA InitNicInv == Init => NicInv
<1> SUFFICES ASSUME Init PROVE NicInv
  OBVIOUS
<1>1. Busy = {} /\ Waiting = {}
  BY DEF Init, Busy, Waiting
<1>2. Cardinality(Busy) = 0 /\ Cardinality(Waiting) = 0 /\ 0 \in Ring
  BY <1>1, FS_EmptySet, NicAssumption DEF Ring
<1>3. Fields
  BY <1>2 DEF Init, Fields
<1>4. SendRing /\ ReceiveRing
  BY <1>1, <1>2, WholeArc DEF Init, SendRing, ReceiveRing
<1> QED
  BY <1>1, <1>3, <1>4, FieldsTyped DEF NicInv

LEMMA NicInvHolds == Spec => []NicInv
BY InitNicInv, NicInvStep, PTL DEF Spec

(* On either card, no slot of the rings is lost and their indices stay in  *)
(* them (e1000_recv, pcnet_recv).                                          *)
THEOREM RingsStaySound == Spec => []RingsSound
<1>1. ASSUME NicInv PROVE RingsSound
  <2>1. Fields /\ Waiting \subseteq Ring
    BY <1>1, FieldsTyped DEF NicInv, Waiting
  <2>2. CASE driver = "e1000"
    <3>1. /\ rxI = Plus(rdt, 1) /\ rxHead = Plus(rxI, Cardinality(Waiting))
          /\ Cardinality(Waiting) \in 0 .. Slots - 1 /\ rdt \in Ring /\ rxHead \in Ring
      BY <1>1, <2>1, <2>2, Counted, NicAssumption DEF NicInv, ReceiveRing, Fields
    <3>2. /\ rdt - rxHead \in Int /\ -Slots < rdt - rxHead /\ rdt - rxHead < 2 * Slots
      BY <3>1, NicAssumption DEF Ring
    <3>3. (rdt - rxHead) % Slots = IF rdt < rxHead THEN rdt - rxHead + Slots ELSE rdt - rxHead
      BY <3>1, <3>2, RingMod, NicAssumption DEF Ring
    <3>4. (rdt - rxHead) % Slots = Slots - 1 - Cardinality(Waiting)
      BY <3>1, <3>3, NicAssumption DEF Plus, Ring
    <3> QED
      BY <1>1, <2>2, <3>1, <3>4, NicAssumption DEF NicInv, RingsSound,
         CapacityKept, RoomLeft
  <2>3. CASE driver # "e1000"
    <3>1. Ring \cap Waiting = Waiting
      BY <2>1
    <3>2. Cardinality(Ring \ Waiting) = Slots - Cardinality(Waiting)
      BY <3>1, RingFinite, FS_Difference
    <3> QED
      BY <1>1, <2>3, <3>2, Counted, NicAssumption DEF NicInv, RingsSound,
         CapacityKept, RoomLeft
  <2> QED
    BY <2>2, <2>3
<1> QED
  BY <1>1, NicInvHolds, PTL

-----------------------------------------------------------------------------
(* The queues Link sees, slot by slot. *)
LEMMA SlotOf ==
  ASSUME NEW i \in Ring, NEW n \in 0 .. Slots, NEW k \in 1 .. n
  PROVE  (i + k - 1) % Slots = Plus(i, k - 1) /\ Plus(i, k - 1) \in Arc(i, n)
<1>1. i + k - 1 \in Int /\ 0 <= i + k - 1 /\ i + k - 1 < 2 * Slots
  BY NicAssumption DEF Ring
<1>2. (i + k - 1) % Slots = Plus(i, k - 1)
  BY <1>1, RingMod, NicAssumption DEF Plus, Ring
<1>3. Plus(i, k - 1) \in Arc(i, n)
  BY NicAssumption DEF Plus, Arc, Ahead, Ring
<1> QED
  BY <1>2, <1>3

OutAt(head, ring, n) == [k \in 1 .. n |-> ring[Plus(head, k - 1)].data]
InAt(first, ring, n) ==
  [k \in 1 .. n |-> [data |-> ring[Plus(first, k - 1)].data,
                     ok |-> ring[Plus(first, k - 1)].ok]]

LEMMA QueuesSeen ==
  ASSUME txHead \in Ring, rxI \in Ring
  PROVE  /\ outQ = OutAt(txHead, tx, Cardinality(Busy))
         /\ inQ = InAt(rxI, rx, Cardinality(Waiting))
<1>1. \A k \in 1 .. Cardinality(Busy) : (txHead + k - 1) % Slots = Plus(txHead, k - 1)
  BY Counted, SlotOf
<1>2. \A k \in 1 .. Cardinality(Waiting) : (rxI + k - 1) % Slots = Plus(rxI, k - 1)
  BY Counted, SlotOf
<1>3. outQ = OutAt(txHead, tx, Cardinality(Busy))
  BY <1>1 DEF outQ, From, OutAt
<1>4. inQ = InAt(rxI, rx, Cardinality(Waiting))
  BY <1>2 DEF inQ, From, InAt
<1> QED
  BY <1>3, <1>4

LEMMA IsAppend ==
  ASSUME NEW S, NEW s \in Seq(S), NEW x \in S, NEW r \in Seq(S), Len(r) = Len(s) + 1,
         \A k \in 1 .. Len(s) : r[k] = s[k], r[Len(s) + 1] = x
  PROVE  r = Append(s, x)
<1>1. /\ Append(s, x) \in Seq(S) /\ Len(Append(s, x)) = Len(s) + 1 /\ Len(s) \in Nat
      /\ \A k \in 1 .. Len(s) : Append(s, x)[k] = s[k]
      /\ Append(s, x)[Len(s) + 1] = x
  BY AppendProperties
<1>2. \A k \in 1 .. Len(s) + 1 : k \in 1 .. Len(s) \/ k = Len(s) + 1
  BY <1>1
<1>3. \A k \in 1 .. Len(r) : r[k] = Append(s, x)[k]
  BY <1>1, <1>2
<1> QED
  BY <1>1, <1>3, SeqEqual

LEMMA IsTail ==
  ASSUME NEW S, NEW s \in Seq(S), s # << >>, NEW r \in Seq(S), Len(r) = Len(s) - 1,
         \A k \in 1 .. Len(s) - 1 : r[k] = s[k + 1]
  PROVE  r = Tail(s)
<1>1. /\ Tail(s) \in Seq(S) /\ Len(Tail(s)) = Len(s) - 1
      /\ \A k \in 1 .. Len(s) - 1 : Tail(s)[k] = s[k + 1]
  BY HeadTailProperties
<1> QED
  BY <1>1, SeqEqual

LEMMA SendAppends ==
  ASSUME NicInv, NEW p \in Payloads, NicSend(p)
  PROVE  Card!Send(p)
<1> DEFINE n == Cardinality(Busy)
<1>1. /\ txHead \in Ring /\ rxI \in Ring /\ txHead' = txHead /\ UNCHANGED <<wire, got>>
      /\ UNCHANGED <<driver, rx, rxI, rdt, rxHead>> /\ n \in 0 .. Slots - 1
      /\ txI = Plus(txHead, n) /\ Cardinality(Busy') = n + 1 /\ txI \in Ring
      /\ tx' = [tx EXCEPT ![txI] = [mine |-> FALSE, data |-> p]] /\ tx \in [Ring -> [mine: BOOLEAN, data: Payloads \cup {Nothing}]]
  BY SendFills DEF NicSend, rxVars, Fields
<1>2. inQ' = inQ
  BY <1>1, SameReceive DEF NicInv
<1>3. outQ = OutAt(txHead, tx, n) /\ outQ' = OutAt(txHead, tx', n + 1)
  <2>1. outQ' = OutAt(txHead', tx', Cardinality(Busy'))
    <3>1. \A k \in 1 .. Cardinality(Busy') : (txHead' + k - 1) % Slots = Plus(txHead', k - 1)
      BY <1>1, SlotOf, NicAssumption
    <3> QED
      BY <3>1 DEF outQ, From, OutAt
  <2> QED
    BY <1>1, <2>1, QueuesSeen
<1> HIDE DEF n
<1>4. \A k \in 1 .. n : Plus(txHead, k - 1) \in Ring /\ Plus(txHead, k - 1) # txI
  <2> TAKE k \in 1 .. n
  <2>1. Plus(txHead, k - 1) \in Arc(txHead, n)
    BY <1>1, SlotOf, NicAssumption
  <2>2. txI \notin Arc(txHead, n)
    BY <1>1, ArcGrows
  <2> QED
    BY <2>1, <2>2 DEF Arc
<1>5. /\ \A k \in 1 .. n : tx'[Plus(txHead, k - 1)].data = tx[Plus(txHead, k - 1)].data
      /\ tx'[Plus(txHead, n)].data = p
  BY <1>1, <1>4
<1>6. outQ' = Append(outQ, p)
  <2>1. outQ \in Seq(Payloads \cup {Nothing}) /\ Len(outQ) = n
    <3>1. \A k \in 1 .. n : tx[Plus(txHead, k - 1)].data \in Payloads \cup {Nothing}
      BY <1>1, <1>4
    <3>2. outQ \in [1 .. n -> Payloads \cup {Nothing}] /\ n \in Nat
      BY <1>1, <1>3, <3>1, NicAssumption DEF OutAt
    <3> QED
      BY <3>2
  <2>3. \A k \in 1 .. n + 1 : tx'[Plus(txHead, k - 1)].data = IF k \in 1 .. n THEN outQ[k] ELSE p
    <3> TAKE k \in 1 .. n + 1
    <3>1. CASE k \in 1 .. n
      BY <1>3, <1>5, <3>1 DEF OutAt
    <3>2. CASE k \notin 1 .. n
      <4>1. k - 1 = n
        BY <1>1, <3>2, NicAssumption
      <4> QED
        BY <1>5, <3>2, <4>1
    <3> QED
      BY <3>1, <3>2
  <2>4. outQ' = [k \in 1 .. n + 1 |-> tx'[Plus(txHead, k - 1)].data]
    BY <1>3 DEF OutAt
  <2>5. \A k \in 1 .. n : outQ'[k] = outQ[k]
    BY <1>1, <2>3, <2>4, NicAssumption
  <2>6. outQ'[n + 1] = p
    BY <1>1, <2>3, <2>4, NicAssumption
  <2>7. outQ' \in Seq(Payloads \cup {Nothing}) /\ Len(outQ') = n + 1
    <3>1. \A k \in 1 .. n + 1 : outQ'[k] \in Payloads \cup {Nothing}
      <4> TAKE k \in 1 .. n + 1
      <4>1. CASE k \in 1 .. n
        BY <2>1, <2>5, <4>1
      <4>2. CASE k \notin 1 .. n
        <5>1. k = n + 1
          BY <1>1, <4>2, NicAssumption
        <5> QED
          BY <2>6, <5>1
      <4> QED
        BY <4>1, <4>2
    <3>2. outQ' \in [1 .. n + 1 -> Payloads \cup {Nothing}] /\ n + 1 \in Nat
      BY <1>1, <2>4, <3>1, NicAssumption
    <3> QED
      BY <3>2
  <2> QED
    BY <2>1, <2>5, <2>6, <2>7, IsAppend
<1> QED
  BY <1>1, <1>2, <1>6 DEF Card!Send

LEMMA CardSendTransmits ==
  ASSUME NicInv, CardSend
  PROVE  Card!Transmit
<1> DEFINE n == Cardinality(Busy)
<1>1. /\ txHead \in Ring /\ rxI \in Ring /\ UNCHANGED <<driver, rx, rxI, rdt, rxHead>>
      /\ got' = got /\ wire' = tx[txHead].data /\ txHead' = Plus(txHead, 1)
      /\ n \in 1 .. Slots /\ Cardinality(Busy') = n - 1 /\ txHead' \in Ring
      /\ tx' = [tx EXCEPT ![txHead].mine = TRUE]
      /\ tx \in [Ring -> [mine: BOOLEAN, data: Payloads \cup {Nothing}]]
  BY CardSendEmpties DEF CardSend, rxVars, Fields
<1>2. inQ' = inQ
  BY <1>1, SameReceive DEF NicInv
<1>3. outQ = OutAt(txHead, tx, n) /\ outQ' = OutAt(Plus(txHead, 1), tx', n - 1)
  <2>1. outQ' = OutAt(txHead', tx', Cardinality(Busy'))
    <3>1. \A k \in 1 .. Cardinality(Busy') : (txHead' + k - 1) % Slots = Plus(txHead', k - 1)
      BY <1>1, SlotOf, NicAssumption
    <3> QED
      BY <3>1 DEF outQ, From, OutAt
  <2> QED
    BY <1>1, <2>1, QueuesSeen
<1> HIDE DEF n
<1>4. \A k \in 1 .. n : Plus(txHead, k - 1) \in Ring
  <2> TAKE k \in 1 .. n
  <2>1. k - 1 \in 0 .. Slots
    BY <1>1, NicAssumption
  <2> QED
    BY <1>1, <2>1, PlusInRing
<1>5. \A i \in Ring : tx'[i].data = tx[i].data
  BY <1>1
<1>6. outQ \in [1 .. n -> Payloads \cup {Nothing}] /\ n \in Nat /\ n > 0
  BY <1>1, <1>3, <1>4, NicAssumption DEF OutAt
<1>7. /\ outQ \in Seq(Payloads \cup {Nothing}) /\ Len(outQ) = n /\ outQ # << >>
      /\ Head(outQ) = tx[txHead].data
  <2>1. outQ \in Seq(Payloads \cup {Nothing}) /\ Len(outQ) = n
    BY <1>6
  <2>2. outQ # << >>
    BY <1>6, <2>1
  <2>3. outQ[1] = tx[txHead].data
    BY <1>1, <1>3, <1>6, WholeArc DEF OutAt
  <2> QED
    BY <2>1, <2>2, <2>3
<1>8. outQ' = Tail(outQ)
  <2>2. \A k \in 1 .. n - 1 : tx'[Plus(Plus(txHead, 1), k - 1)].data = outQ[k + 1]
    <3> TAKE k \in 1 .. n - 1
    <3>1. k + 1 \in 1 .. n /\ k + 1 - 1 = k
      BY <1>6
    <3>2. k \in 1 .. Slots /\ k \in 0 .. Slots
      BY <1>1, <1>6, NicAssumption
    <3>3. Plus(Plus(txHead, 1), k - 1) = Plus(txHead, k) /\ Plus(txHead, k) \in Ring
      BY <1>1, <3>2, ArcShrinks, PlusInRing
    <3> QED
      BY <1>3, <1>5, <3>1, <3>3 DEF OutAt
  <2>3. outQ' = [k \in 1 .. n - 1 |-> tx'[Plus(Plus(txHead, 1), k - 1)].data]
    BY <1>3 DEF OutAt
  <2>4. n - 1 \in Nat /\ \A k \in 1 .. n - 1 : k + 1 \in 1 .. n
    BY <1>6
  <2>5. outQ' \in [1 .. n - 1 -> Payloads \cup {Nothing}]
    BY <1>6, <2>2, <2>3, <2>4
  <2>6. outQ' \in Seq(Payloads \cup {Nothing}) /\ Len(outQ') = n - 1
    BY <2>4, <2>5
  <2> QED
    BY <1>7, <2>2, <2>3, <2>6, IsTail
<1> QED
  BY <1>1, <1>2, <1>7, <1>8 DEF Card!Transmit

Taken == [data: Payloads \cup {Nothing}, ok: BOOLEAN]

LEMMA CardReceiveArrives ==
  ASSUME NicInv, NEW p \in Payloads, NEW ok \in BOOLEAN, CardReceive(p, ok)
  PROVE  Card!Arrive(p, ok)
<1> DEFINE n == Cardinality(Waiting)
           f == [data |-> p, ok |-> ok]
<1>1. /\ txHead \in Ring /\ rxI \in Ring /\ rxI' = rxI /\ UNCHANGED <<wire, got>>
      /\ UNCHANGED <<driver, tx, txI, tdt, txHead>> /\ n \in 0 .. Slots - 1
      /\ rxHead = Plus(rxI, n) /\ Cardinality(Waiting') = n + 1 /\ rxHead \in Ring
      /\ rx' = [rx EXCEPT ![rxHead] = [mine |-> TRUE, data |-> p, ok |-> ok]]
      /\ rx \in [Ring -> [mine: BOOLEAN, data: Payloads \cup {Nothing}, ok: BOOLEAN]]
  BY CardReceiveFills DEF CardReceive, txVars, Fields
<1>2. outQ' = outQ
  BY <1>1, SameSend DEF NicInv
<1>3. inQ = InAt(rxI, rx, n) /\ inQ' = InAt(rxI, rx', n + 1)
  <2>1. inQ' = InAt(rxI', rx', Cardinality(Waiting'))
    <3>1. \A k \in 1 .. Cardinality(Waiting') : (rxI' + k - 1) % Slots = Plus(rxI', k - 1)
      BY <1>1, SlotOf, NicAssumption
    <3> QED
      BY <3>1 DEF inQ, From, InAt
  <2> QED
    BY <1>1, <2>1, QueuesSeen
<1>4. f \in Taken /\ f.data = p /\ f.ok = ok
  BY DEF Taken
<1> HIDE DEF n, f
<1>5. \A k \in 1 .. n : Plus(rxI, k - 1) \in Ring /\ Plus(rxI, k - 1) # rxHead
  <2> TAKE k \in 1 .. n
  <2>1. Plus(rxI, k - 1) \in Arc(rxI, n)
    BY <1>1, SlotOf, NicAssumption
  <2>2. rxHead \notin Arc(rxI, n)
    BY <1>1, ArcGrows
  <2> QED
    BY <2>1, <2>2 DEF Arc
<1>6. /\ \A k \in 1 .. n : rx'[Plus(rxI, k - 1)] = rx[Plus(rxI, k - 1)]
      /\ rx'[Plus(rxI, n)].data = p /\ rx'[Plus(rxI, n)].ok = ok
  BY <1>1, <1>5
<1>7. inQ \in Seq(Taken) /\ Len(inQ) = n
  <2>1. \A k \in 1 .. n : [data |-> rx[Plus(rxI, k - 1)].data,
                           ok |-> rx[Plus(rxI, k - 1)].ok] \in Taken
    BY <1>1, <1>5 DEF Taken
  <2>2. inQ \in [1 .. n -> Taken] /\ n \in Nat
    BY <1>1, <1>3, <2>1, NicAssumption DEF InAt
  <2> QED
    BY <2>2
<1>8. \A k \in 1 .. n : inQ'[k] = inQ[k]
  <2> TAKE k \in 1 .. n
  <2>1. k \in 1 .. n + 1
    BY <1>1, NicAssumption
  <2>2. inQ'[k] = [data |-> rx'[Plus(rxI, k - 1)].data, ok |-> rx'[Plus(rxI, k - 1)].ok]
    BY <1>3, <2>1 DEF InAt
  <2>3. inQ[k] = [data |-> rx[Plus(rxI, k - 1)].data, ok |-> rx[Plus(rxI, k - 1)].ok]
    BY <1>3 DEF InAt
  <2> QED
    BY <1>6, <2>2, <2>3
<1>9. inQ'[n + 1] = f
  <2>1. n + 1 \in 1 .. n + 1 /\ n + 1 - 1 = n
    BY <1>1, NicAssumption
  <2>2. \A k \in 1 .. n + 1 :
          inQ'[k] = [data |-> rx'[Plus(rxI, k - 1)].data, ok |-> rx'[Plus(rxI, k - 1)].ok]
    BY <1>3 DEF InAt
  <2> DEFINE m == n + 1
  <2>3. m \in 1 .. n + 1 /\ m - 1 = n
    BY <1>1, NicAssumption
  <2>4. inQ'[m] = [data |-> rx'[Plus(rxI, m - 1)].data, ok |-> rx'[Plus(rxI, m - 1)].ok]
    <3> HIDE DEF m
    <3> QED
      BY <2>2, <2>3
  <2>5. inQ'[n + 1] = [data |-> rx'[Plus(rxI, n)].data, ok |-> rx'[Plus(rxI, n)].ok]
    BY <2>3, <2>4
  <2> QED
    BY <1>6, <2>5 DEF f
<1>10. inQ' \in Seq(Taken) /\ Len(inQ') = n + 1
  <2>1. \A k \in 1 .. n + 1 : k \in 1 .. n \/ k = n + 1
    BY <1>1, NicAssumption
  <2>2. \A k \in 1 .. n + 1 : inQ'[k] \in Taken
    BY <1>4, <1>7, <1>8, <1>9, <2>1
  <2>3. inQ' \in [1 .. n + 1 -> Taken] /\ n + 1 \in Nat
    BY <1>1, <1>3, <2>2, NicAssumption DEF InAt
  <2> QED
    BY <2>3
<1>11. inQ' = Append(inQ, f)
  BY <1>4, <1>7, <1>8, <1>9, <1>10, IsAppend
<1> QED
  BY <1>1, <1>2, <1>11 DEF Card!Arrive, f

LEMMA NicRecvReads ==
  ASSUME NicInv, NicRecv
  PROVE  Card!Read
<1> DEFINE n == Cardinality(Waiting)
<1>1. /\ txHead \in Ring /\ rxI \in Ring /\ UNCHANGED <<driver, tx, txI, tdt, txHead>>
      /\ wire' = wire /\ rxI' = Plus(rxI, 1) /\ rxI' \in Ring
      /\ got' \in {rx[rxI].data} \cup (IF rx[rxI].ok THEN {} ELSE {Nothing})
      /\ n \in 1 .. Slots /\ Cardinality(Waiting') = n - 1
      /\ rx' = [rx EXCEPT ![rxI].mine = FALSE]
      /\ rx \in [Ring -> [mine: BOOLEAN, data: Payloads \cup {Nothing}, ok: BOOLEAN]]
  BY RecvEmpties DEF NicRecv, txVars, Fields
<1>2. outQ' = outQ
  BY <1>1, SameSend DEF NicInv
<1>3. inQ = InAt(rxI, rx, n) /\ inQ' = InAt(Plus(rxI, 1), rx', n - 1)
  <2>1. inQ' = InAt(rxI', rx', Cardinality(Waiting'))
    <3>1. \A k \in 1 .. Cardinality(Waiting') : (rxI' + k - 1) % Slots = Plus(rxI', k - 1)
      BY <1>1, SlotOf, NicAssumption
    <3> QED
      BY <3>1 DEF inQ, From, InAt
  <2> QED
    BY <1>1, <2>1, QueuesSeen
<1> HIDE DEF n
<1>4. \A k \in 1 .. n : Plus(rxI, k - 1) \in Ring
  <2> TAKE k \in 1 .. n
  <2>1. k - 1 \in 0 .. Slots
    BY <1>1, NicAssumption
  <2> QED
    BY <1>1, <2>1, PlusInRing
<1>5. \A i \in Ring : rx'[i].data = rx[i].data /\ rx'[i].ok = rx[i].ok
  BY <1>1
<1>6. inQ \in [1 .. n -> Taken] /\ n \in Nat /\ n > 0
  <2>1. \A k \in 1 .. n : [data |-> rx[Plus(rxI, k - 1)].data,
                           ok |-> rx[Plus(rxI, k - 1)].ok] \in Taken
    BY <1>1, <1>4 DEF Taken
  <2> QED
    BY <1>1, <1>3, <2>1, NicAssumption DEF InAt
<1>7. /\ inQ \in Seq(Taken) /\ Len(inQ) = n /\ inQ # << >>
      /\ Head(inQ).data = rx[rxI].data /\ Head(inQ).ok = rx[rxI].ok
  <2>1. inQ \in Seq(Taken) /\ Len(inQ) = n
    BY <1>6
  <2>2. inQ # << >>
    BY <1>6, <2>1
  <2>3. 1 \in 1 .. n /\ Plus(rxI, 1 - 1) = rxI
    BY <1>1, <1>6, WholeArc
  <2>4. inQ[1] = [data |-> rx[rxI].data, ok |-> rx[rxI].ok]
    BY <1>3, <2>3 DEF InAt
  <2> QED
    BY <2>1, <2>2, <2>4
<1>8. inQ' = Tail(inQ)
  <2>1. n - 1 \in Nat /\ \A k \in 1 .. n - 1 : k + 1 \in 1 .. n
    BY <1>6
  <2>2. \A k \in 1 .. n - 1 : inQ'[k] = inQ[k + 1]
    <3> TAKE k \in 1 .. n - 1
    <3>1. k + 1 \in 1 .. n /\ k + 1 - 1 = k
      BY <1>6
    <3>2. k \in 1 .. Slots /\ k \in 0 .. Slots
      BY <1>1, <1>6, NicAssumption
    <3>3. Plus(Plus(rxI, 1), k - 1) = Plus(rxI, k) /\ Plus(rxI, k) \in Ring
      BY <1>1, <3>2, ArcShrinks, PlusInRing
    <3>4. inQ'[k] = [data |-> rx'[Plus(rxI, k)].data, ok |-> rx'[Plus(rxI, k)].ok]
      BY <1>3, <3>3 DEF InAt
    <3>5. inQ[k + 1] = [data |-> rx[Plus(rxI, k)].data, ok |-> rx[Plus(rxI, k)].ok]
      BY <1>3, <3>1 DEF InAt
    <3> QED
      BY <1>5, <3>3, <3>4, <3>5
  <2>3. inQ' \in [1 .. n - 1 -> Taken]
    <3>1. \A k \in 1 .. n - 1 : inQ'[k] \in Taken
      BY <1>6, <2>1, <2>2
    <3> QED
      BY <1>3, <3>1 DEF InAt
  <2>4. inQ' \in Seq(Taken) /\ Len(inQ') = n - 1
    BY <2>1, <2>3
  <2> QED
    BY <1>7, <2>2, <2>4, IsTail
<1> QED
  BY <1>1, <1>2, <1>7, <1>8 DEF Card!Read

LEMMA EmptyQueues ==
  ASSUME Busy = {}, Waiting = {}
  PROVE  outQ = << >> /\ inQ = << >>
<1>1. Cardinality(Busy) = 0 /\ Cardinality(Waiting) = 0
  BY FS_EmptySet
<1> QED
  BY <1>1 DEF outQ, inQ, From

(* The detailed step of each card and driver is a step of Link: a frame    *)
(* leaves, or is handed up, once, unchanged and in order, through          *)
(* e1000_send, pcnet_send, e1000_recv and pcnet_recv.                      *)
THEOREM NicImplementsLink == Spec => ImplementsLink
<1>1. Init => Card!Init
  <2> SUFFICES ASSUME Init PROVE Card!Init
    OBVIOUS
  <2>1. Busy = {} /\ Waiting = {}
    BY DEF Init, Busy, Waiting
  <2> QED
    BY <2>1, EmptyQueues DEF Init, Card!Init
<1>2. NicInv /\ [Next]_vars => [Card!Next]_<<outQ, inQ, wire, got>>
  <2> SUFFICES ASSUME NicInv, [Next]_vars
               PROVE  Card!Next \/ UNCHANGED <<outQ, inQ, wire, got>>
    OBVIOUS
  <2>1. ASSUME NEW e, NEW q, NicInit(e, q) PROVE UNCHANGED <<outQ, inQ, wire, got>>
    <3>1. Busy = {} /\ Waiting = {} /\ Busy' = {} /\ Waiting' = {}
      BY <2>1, NicInitSound
    <3>2. outQ = << >> /\ inQ = << >>
      BY <3>1, EmptyQueues
    <3>3. Cardinality(Busy') = 0 /\ Cardinality(Waiting') = 0
      BY <3>1, FS_EmptySet
    <3>4. outQ' = << >> /\ inQ' = << >>
      BY <3>3 DEF outQ, inQ, From
    <3> QED
      BY <2>1, <3>2, <3>4 DEF NicInit
  <2>2. ASSUME NEW p \in Payloads, NicSend(p) PROVE Card!Next
    BY <2>2, SendAppends DEF Card!Next
  <2>3. ASSUME NEW p \in Payloads, NEW ok \in BOOLEAN, CardReceive(p, ok) PROVE Card!Next
    BY <2>3, CardReceiveArrives DEF Card!Next
  <2>4. CASE NicRecv
    BY <2>4, NicRecvReads DEF Card!Next
  <2>5. CASE CardSend
    BY <2>5, CardSendTransmits DEF Card!Next
  <2>6. CASE UNCHANGED vars
    <3>1. UNCHANGED <<driver, tx, txI, tdt, txHead>> /\ UNCHANGED <<rx, rxI, rdt, rxHead>>
          /\ UNCHANGED <<wire, got>>
      BY <2>6 DEF vars, txVars, rxVars
    <3> QED
      BY <3>1, SameSend, SameReceive DEF NicInv
  <2> QED
    BY <2>1, <2>2, <2>3, <2>4, <2>5, <2>6 DEF Next
<1> QED
  BY <1>1, <1>2, NicInvHolds, PTL DEF Spec, ImplementsLink, Card!Spec

-----------------------------------------------------------------------------
(* The network stack.  Where net_ping and net_status_run are before the    *)
(* request of this call is sent: it takes the next sequence number.        *)
Asking == {"disc1", "disc2", "req", "ping_arp"}

(* No call waits unless the job says where, and each call numbers its own  *)
(* request.                                                                *)
Calling ==
  /\ job.at = "idle" => job = Idle /\ nest = <<>> /\ ~polling
  /\ job.at \in {"ping_arp", "ping_wait"} => job.dst \in IPs
  /\ job.at = "ping_arp" => nest # <<>> /\ nest[1].out = NoOut
  /\ ping.want + (IF job.at \in Asking THEN 1 ELSE 0) <= calls

(* Each running arp_resolve asks for the next hop of what its caller holds *)
(* back; only the outermost can be net_ping's own, with nothing held back. *)
Resolving ==
  \A i \in 1..Len(nest) :
    IF nest[i].out = NoOut
    THEN i = 1 /\ job.at = "ping_arp" /\ nest[i].ip = NextHop(job.dst)
    ELSE nest[i].ip = NextHop(nest[i].out.dst)

(* Every other running arp_resolve was started by a frame that arrived.    *)
ByUs == nest # <<>> /\ nest[1].out = NoOut
Nested == Len(inbox) + Len(nest) <= arrivals + (IF ByUs THEN 1 ELSE 0)

(* What the handlers keep is what arrived.                                 *)
Remembered ==
  /\ arp.ok => arp.mac = arp.ip
  /\ ping.got => ping.want \in heard
  /\ dhcp.yi \in {None, dhcp.srv} \cup Bare

NetInv == ReachesNextHop /\ RepliesMatch /\ Calling /\ Resolving /\ Nested /\ Remembered

Nests == [ip: Hosts, out: Outs]

LEMMA NestFront ==
  ASSUME NEW S, NEW s \in Seq(S), s # <<>>
  PROVE  /\ Front(s) \in Seq(S) /\ Len(s) \in Nat \ {0}
         /\ Len(Front(s)) = Len(s) - 1
         /\ \A i \in 1..Len(s) - 1 : Front(s)[i] = s[i]
         /\ s[Len(s)] \in S
<1>1. Len(s) \in Nat \ {0} /\ \A i \in 1..Len(s) - 1 : s[i] \in S
  OBVIOUS
<1>2. s[Len(s)] \in S
  BY <1>1
<1>3. PICK m \in Nat : m = Len(s) - 1
  BY <1>1
<1>4. /\ SubSeq(s, 1, m) \in Seq(S)
      /\ Len(SubSeq(s, 1, m)) = m
      /\ \A i \in 1..m : SubSeq(s, 1, m)[i] = s[i]
  <2>1. 1 \in Int /\ m \in Int /\ \A i \in 1..m : s[i] \in S
    BY <1>1, <1>3
  <2>2. /\ SubSeq(s, 1, m) \in Seq(S)
        /\ Len(SubSeq(s, 1, m)) = IF 1 <= m THEN m - 1 + 1 ELSE 0
        /\ \A i \in 1..m - 1 + 1 : SubSeq(s, 1, m)[i] = s[1 + i - 1]
    BY <2>1, SubSeqProperties
  <2>3. QED BY <1>3, <2>2
<1>5. QED BY <1>1, <1>2, <1>3, <1>4 DEF Front

LEMMA HopIsLocal ==
  ASSUME NetAssumption, NEW ip \in IPs PROVE NextHop(ip) \in Hosts
BY DEF NetAssumption, NextHop, IPs

LEMMA NestIsSeq ==
  ASSUME NetInv, nest # <<>>
  PROVE  /\ nest \in Seq(Nests) /\ Len(nest) \in Nat \ {0} /\ nest[Len(nest)] \in Nests
         /\ Front(nest) \in Seq(Nests) /\ Len(Front(nest)) = Len(nest) - 1
         /\ \A i \in 1..Len(nest) - 1 : Front(nest)[i] = nest[i]
<1>1. nest \in Seq(Nests)
  BY DEF NetInv, ReachesNextHop, NetTypeOK, Nests
<1>2. QED BY <1>1, NestFront

LEMMA SentTyped ==
  ASSUME NetAssumption
  PROVE  /\ Ask \in Sent
         /\ \A ip \in Hosts : Who(ip) \in Sent /\ Is(ip) \in Sent
         /\ \A ip \in Servers, srv \in Servers \cup {None} : Request(ip, srv) \in Sent
         /\ \A dst \in IPs, mac \in Hosts : Pong(dst, mac) \in Sent
         /\ \A dst \in IPs, mac \in Hosts, seq \in 1..MaxCalls : Echo(dst, mac, seq) \in Sent
<1>1. Ask \in Sent
  BY DEF Ask, Sent
<1>2. \A ip \in Hosts : Who(ip) \in Sent /\ Is(ip) \in Sent
  BY DEF Who, Is, Sent
<1>3. \A ip \in Servers, srv \in Servers \cup {None} : Request(ip, srv) \in Sent
  BY DEF Request, Sent
<1>4. \A dst \in IPs, mac \in Hosts : Pong(dst, mac) \in Sent
  BY DEF Pong, Sent
<1>5. \A dst \in IPs, mac \in Hosts, seq \in 1..MaxCalls : Echo(dst, mac, seq) \in Sent
  BY DEF Echo, Sent
<1>6. QED BY <1>1, <1>2, <1>3, <1>4, <1>5

(* net_ping once the interface is up, whoever brought it up.               *)
LEMMA PingToKeeps ==
  ASSUME NetAssumption, NetInv, NEW dst \in IPs \cup {None}, PingTo(dst),
         nest = <<>>, ping.want + 1 <= calls', calls' \in 0..MaxCalls,
         job.at # "ping_wait", job.at # "ping_arp",
         addr' \in Servers \cup {None, Static},
         UNCHANGED <<dhcp, inbox, arrivals, result, heard>>
  PROVE  NetInv'
<1> USE DEF NetInv, ReachesNextHop, RepliesMatch
<1>1. CASE dst = None
  <2>1. job' = Idle /\ polling' = FALSE /\ UNCHANGED <<arp, ping, nest, sent>>
    BY <1>1 DEF PingTo
  <2>2. NetTypeOK'
    BY <2>1 DEF NetTypeOK, Idle
  <2>3. DatagramsReachNextHop' /\ AnsweredIsHeard' /\ RequestNamesItsOffer' /\ Remembered'
    BY <2>1 DEF DatagramsReachNextHop, AnsweredIsHeard, RequestNamesItsOffer, Remembered
  <2>4. Calling' /\ Resolving'
    BY <2>1 DEF NetTypeOK, Calling, Resolving, Idle, Asking
  <2>5. Nested'
    BY <2>1 DEF NetTypeOK, Nested, ByUs
  <2>6. QED BY <2>2, <2>3, <2>4, <2>5
<1>2. CASE dst \in IPs /\ Cached(NextHop(dst))
  <2>1. /\ PingOut(dst, arp.mac) /\ UNCHANGED <<arp, nest>>
        /\ dst \in IPs /\ arp.mac = NextHop(dst) /\ arp.mac \in Hosts
    BY <1>2, HopIsLocal DEF PingTo, Cached, Remembered, NetTypeOK, NetAssumption, IPs
  <2>2. ping.want + 1 \in 1..MaxCalls
    BY DEF NetTypeOK
  <2>3. PICK e \in Sent : e = Echo(dst, arp.mac, ping.want + 1)
    BY <2>1, <2>2, SentTyped
  <2>4. sent' = sent \cup {e} /\ e.t = "ping" /\ e.mac = NextHop(e.dst)
    BY <2>1, <2>3 DEF PingOut, Echo
  <2>5. /\ ping' \in [got: BOOLEAN, want: 0..MaxCalls]
        /\ job' = [at |-> "ping_wait", dst |-> dst] /\ polling' = FALSE
    BY <2>1, <2>2 DEF PingOut
  <2>6. NetTypeOK'
    BY <2>1, <2>4, <2>5 DEF NetTypeOK
  <2>7. DatagramsReachNextHop' /\ AnsweredIsHeard' /\ RequestNamesItsOffer'
    BY <2>4 DEF DatagramsReachNextHop, AnsweredIsHeard, RequestNamesItsOffer
  <2>8. Remembered'
    BY <2>1 DEF Remembered, PingOut
  <2>9. Calling' /\ Resolving'
    BY <2>1, <2>2, <2>5 DEF NetTypeOK, Calling, Resolving, Asking, PingOut
  <2>10. Nested'
    BY <2>1 DEF NetTypeOK, Nested, ByUs
  <2>11. QED BY <2>6, <2>7, <2>8, <2>9, <2>10
<1>3. CASE dst \in IPs /\ ~Cached(NextHop(dst))
  <2> DEFINE call == [ip |-> NextHop(dst), out |-> NoOut]
  <2>1. /\ arp' = [arp EXCEPT !.ok = FALSE, !.ip = NextHop(dst)]
        /\ nest' = <<call>> /\ polling' = FALSE
        /\ job' = [at |-> "ping_arp", dst |-> dst] /\ UNCHANGED <<ping, sent>>
    BY <1>3 DEF PingTo, Resolve, NetAssumption, IPs
  <2>2. call \in Nests /\ call.out = NoOut /\ call.ip = NextHop(dst)
    BY <1>3, HopIsLocal DEF Nests, Outs
  <2> HIDE DEF call
  <2>3. nest' \in Seq(Nests) /\ Len(nest') = 1 /\ nest'[1] = call
    BY <2>1, <2>2
  <2>4. arp' \in [ok: BOOLEAN, ip: Hosts \cup {None}, mac: Hosts \cup {None}]
    BY <2>1, <1>3, HopIsLocal DEF NetTypeOK
  <2>5. NetTypeOK'
    <3>1. job' \in [at: {"idle", "disc1", "disc2", "req", "ping_arp", "ping_wait"},
                    dst: IPs \cup {None}]
      BY <2>1
    <3>2. Len(nest') <= MaxArrivals + 1
      BY <2>3 DEF NetAssumption
    <3>3. nest' \in Seq([ip: Hosts, out: Outs])
      BY <2>3 DEF Nests
    <3>4. QED BY <2>1, <2>4, <3>1, <3>2, <3>3 DEF NetTypeOK
  <2>6. DatagramsReachNextHop' /\ AnsweredIsHeard' /\ RequestNamesItsOffer'
    BY <2>1 DEF DatagramsReachNextHop, AnsweredIsHeard, RequestNamesItsOffer
  <2>7. Remembered'
    BY <2>1 DEF Remembered, NetTypeOK
  <2>8. Calling' /\ Resolving'
    BY <1>3, <2>1, <2>2, <2>3 DEF NetTypeOK, Calling, Resolving, Asking, NoOut
  <2>9. Nested'
    BY <2>1, <2>2, <2>3 DEF NetTypeOK, Nested, ByUs
  <2>10. QED BY <2>5, <2>6, <2>7, <2>8, <2>9
<1>4. QED BY <1>1, <1>2, <1>3

LEMMA CallKeeps ==
  ASSUME NetAssumption, NetInv, NEW dst \in IPs \cup {None}, Call(dst) PROVE NetInv'
<1> USE DEF NetInv, ReachesNextHop, RepliesMatch
<1>1. /\ job = Idle /\ nest = <<>> /\ calls' = calls + 1 /\ calls' \in 0..MaxCalls
      /\ ping.want + 1 <= calls' /\ ping.want \in 0..MaxCalls
      /\ UNCHANGED <<addr, inbox, arrivals, result, heard>>
  BY DEF Call, NetTypeOK, Calling, Idle, Asking
<1>2. CASE addr # None
  <2>1. PingTo(dst) /\ UNCHANGED dhcp /\ job.at = "idle"
    BY <1>1, <1>2 DEF Call, Idle
  <2>2. addr' \in Servers \cup {None, Static}
    BY <1>1 DEF NetTypeOK
  <2>3. QED BY <1>1, <2>1, <2>2, PingToKeeps
<1>3. CASE addr = None
  <2>1. /\ dhcp' = [got |-> FALSE, yi |-> None, srv |-> None]
        /\ sent' = sent \cup {Ask} /\ job' = [at |-> "disc1", dst |-> dst]
        /\ polling' = FALSE /\ UNCHANGED <<arp, ping, nest>>
    BY <1>3 DEF Call, Discover
  <2>2. NetTypeOK'
    <3>1. sent' \subseteq Sent
      BY <2>1, SentTyped DEF NetTypeOK
    <3>2. job' \in [at: {"idle", "disc1", "disc2", "req", "ping_arp", "ping_wait"},
                    dst: IPs \cup {None}]
      BY <2>1
    <3>3. QED BY <1>1, <2>1, <3>1, <3>2 DEF NetTypeOK
  <2>3. DatagramsReachNextHop' /\ RequestNamesItsOffer'
    BY <2>1 DEF DatagramsReachNextHop, RequestNamesItsOffer, Ask
  <2>4. AnsweredIsHeard' /\ Remembered'
    BY <1>1, <2>1 DEF AnsweredIsHeard, Remembered
  <2>5. Calling' /\ Resolving'
    BY <1>1, <2>1 DEF NetTypeOK, Calling, Resolving, Asking
  <2>6. Nested'
    BY <1>1, <2>1 DEF NetTypeOK, Nested, ByUs
  <2>7. QED BY <2>2, <2>3, <2>4, <2>5, <2>6
<1>4. QED BY <1>2, <1>3

LEMMA TurnKeeps ==
  ASSUME NetAssumption, NetInv, Turn PROVE NetInv'
<1> USE DEF NetInv, ReachesNextHop, RepliesMatch
<1>1. /\ job # Idle /\ polling' = TRUE
      /\ UNCHANGED <<addr, arp, dhcp, ping, job, nest, inbox, arrivals, calls, result, heard>>
  BY DEF Turn, Spinning, world
<1>2. sent' = sent \/ \E ip \in Hosts : sent' = sent \cup {Who(ip)}
  <2>1. nest # <<>> => Top.ip \in Hosts
    BY NestIsSeq DEF Top, Nests
  <2>2. QED BY <2>1 DEF Turn
<1>3. NetTypeOK'
  <2>1. sent' \subseteq Sent
    BY <1>2, SentTyped DEF NetTypeOK
  <2>2. QED BY <1>1, <2>1 DEF NetTypeOK
<1>4. DatagramsReachNextHop' /\ RequestNamesItsOffer'
  BY <1>2 DEF DatagramsReachNextHop, RequestNamesItsOffer, Who
<1>5. AnsweredIsHeard' /\ Remembered' /\ Calling' /\ Resolving' /\ Nested'
  BY <1>1 DEF AnsweredIsHeard, Remembered, Calling, Resolving, Nested, ByUs, Idle
<1>6. QED BY <1>3, <1>4, <1>5

LEMMA QuietKeeps ==
  ASSUME NetInv, UNCHANGED <<addr, arp, dhcp, ping, nest, inbox, sent, world>>,
         job' = job \/ (job' = Idle /\ nest = <<>> /\ ~polling'),
         polling' = FALSE,
         UNCHANGED result \/ result' = [ok |-> ping.got, dst |-> job.dst, seq |-> ping.want]
  PROVE  NetInv'
<1> USE DEF NetInv, ReachesNextHop, RepliesMatch, world
<1>1. NetTypeOK'
  <2>1. job' \in [at: {"idle", "disc1", "disc2", "req", "ping_arp", "ping_wait"},
                  dst: IPs \cup {None}]
    BY DEF NetTypeOK, Idle
  <2>2. result' \in [ok: BOOLEAN, dst: IPs \cup {None}, seq: 0..MaxCalls]
    BY DEF NetTypeOK
  <2>3. QED BY <2>1, <2>2 DEF NetTypeOK
<1>2. DatagramsReachNextHop' /\ RequestNamesItsOffer' /\ Remembered' /\ Nested'
  BY DEF DatagramsReachNextHop, RequestNamesItsOffer, Remembered, Nested, ByUs
<1>3. AnsweredIsHeard'
  BY DEF AnsweredIsHeard, Remembered
<1>4. Calling' /\ Resolving'
  BY DEF NetTypeOK, Calling, Resolving, Idle, Asking
<1>5. QED BY <1>1, <1>2, <1>3, <1>4

LEMMA PingEnds ==
  ASSUME NetInv, PingReply \/ PingTimeout \/ PollDone PROVE NetInv'
<1>1. PollDone => /\ polling' = FALSE
                  /\ UNCHANGED <<addr, arp, dhcp, ping, job, nest, inbox, sent, world, result>>
  BY DEF PollDone
<1>2. ASSUME PingReply \/ PingTimeout
      PROVE /\ result' = [ok |-> ping.got, dst |-> job.dst, seq |-> ping.want]
        /\ job' = Idle /\ nest = <<>> /\ polling' = FALSE
        /\ UNCHANGED <<addr, arp, dhcp, ping, nest, inbox, sent, world>>
  <2>1. ping.got \in BOOLEAN /\ polling \in BOOLEAN
    BY DEF NetInv, ReachesNextHop, NetTypeOK
  <2>2. CASE PingReply
    BY <2>1, <2>2 DEF PingReply, Spinning
  <2>3. CASE PingTimeout
    <3>1. ping.got = FALSE /\ polling = FALSE
      BY <2>1, <2>3 DEF PingTimeout, Spinning
    <3>2. QED BY <2>3, <3>1 DEF PingTimeout, PingFails
  <2>4. QED BY <1>2, <2>2, <2>3
<1>3. QED BY <1>1, <1>2, QuietKeeps

LEMMA ResolvedKeeps ==
  ASSUME NetAssumption, NetInv, Resolved PROVE NetInv'
<1> USE DEF NetInv, ReachesNextHop, RepliesMatch
<1> DEFINE top == nest[Len(nest)]
<1>1. /\ nest # <<>> /\ nest \in Seq(Nests) /\ Len(nest) \in Nat \ {0} /\ top \in Nests
      /\ nest' = Front(nest) /\ nest' \in Seq(Nests) /\ Len(nest') = Len(nest) - 1
      /\ \A i \in 1..Len(nest) - 1 : nest'[i] = nest[i]
  BY NestIsSeq DEF Resolved
<1>2. arp.mac = top.ip /\ arp.mac \in Hosts
  BY <1>1 DEF Resolved, Top, Cached, Remembered, Nests
<1>3. UNCHANGED <<addr, arp, dhcp, inbox, arrivals, calls, heard, result>>
  BY DEF Resolved, world
<1> HIDE DEF top
<1>4. CASE top.out = NoOut
  <2>1. /\ Len(nest) = 1 /\ job.at = "ping_arp" /\ top.ip = NextHop(job.dst)
        /\ job.dst \in IPs
    BY <1>1, <1>4 DEF Resolving, Calling, top
  <2>2. nest' = <<>>
    BY <1>1, <2>1
  <2>3. ping.want + 1 <= calls /\ ping.want + 1 \in 1..MaxCalls
    BY <2>1 DEF Calling, Asking, NetTypeOK
  <2>4. PingOut(job.dst, arp.mac)
    BY <1>4 DEF Resolved, Top, top
  <2>5. PICK e \in Sent : e = Echo(job.dst, arp.mac, ping.want + 1)
    BY <1>2, <2>1, <2>3, SentTyped
  <2>6. sent' = sent \cup {e} /\ e.t = "ping" /\ e.mac = NextHop(e.dst)
    BY <1>2, <2>1, <2>4, <2>5 DEF PingOut, Echo
  <2>7. /\ ping' = [got |-> FALSE, want |-> ping.want + 1]
        /\ job' = [at |-> "ping_wait", dst |-> job.dst] /\ polling' = FALSE
    BY <2>4 DEF PingOut
  <2>8. NetTypeOK'
    <3>1. job' \in [at: {"idle", "disc1", "disc2", "req", "ping_arp", "ping_wait"},
                    dst: IPs \cup {None}]
      BY <2>1, <2>7
    <3>2. ping' \in [got: BOOLEAN, want: 0..MaxCalls]
      BY <2>3, <2>7
    <3>3. nest' \in Seq([ip: Hosts, out: Outs]) /\ Len(nest') <= MaxArrivals + 1
      BY <2>2 DEF NetAssumption
    <3>4. QED BY <1>3, <2>6, <2>7, <3>1, <3>2, <3>3 DEF NetTypeOK
  <2>9. DatagramsReachNextHop' /\ AnsweredIsHeard' /\ RequestNamesItsOffer' /\ Remembered'
    BY <1>3, <2>6, <2>7 DEF DatagramsReachNextHop, AnsweredIsHeard, RequestNamesItsOffer, Remembered
  <2>10. Calling' /\ Resolving'
    BY <1>3, <2>1, <2>2, <2>3, <2>7 DEF Calling, Resolving, Asking
  <2>11. Nested'
    BY <1>1, <1>3, <2>1, <2>2 DEF Nested, ByUs, NetTypeOK
  <2>12. QED BY <2>8, <2>9, <2>10, <2>11
<1>5. CASE top.out # NoOut
  <2>1. top.out.dst \in IPs /\ top.ip = NextHop(top.out.dst)
    BY <1>1, <1>5 DEF Resolving, Nests, Outs, top
  <2>2. sent' = sent \cup {Pong(top.out.dst, arp.mac)} /\ polling' = TRUE /\ UNCHANGED <<ping, job>>
    BY <1>5 DEF Resolved, Top, top
  <2>3. PICK e \in Sent : e = Pong(top.out.dst, arp.mac)
    BY <1>2, <2>1, SentTyped
  <2>4. sent' = sent \cup {e} /\ e.t = "pong" /\ e.mac = NextHop(e.dst)
    BY <1>2, <2>1, <2>2, <2>3 DEF Pong
  <2>5. NetTypeOK'
    BY <1>1, <1>3, <2>2, <2>4 DEF NetTypeOK, Nests
  <2>6. DatagramsReachNextHop' /\ AnsweredIsHeard' /\ RequestNamesItsOffer' /\ Remembered'
    BY <1>3, <2>2, <2>4 DEF DatagramsReachNextHop, AnsweredIsHeard, RequestNamesItsOffer, Remembered
  <2>7. job.at = "ping_arp" => Len(nest) # 1
    BY <1>1, <1>5 DEF Calling, top
  <2>8. Calling' /\ Resolving'
    BY <1>1, <1>3, <2>2, <2>7 DEF Calling, Resolving, Asking, Resolved, Spinning, Idle
  <2>9. Nested'
    BY <1>1, <1>3, <1>5, <2>2 DEF Nested, ByUs, NetTypeOK, top
  <2>10. QED BY <2>5, <2>6, <2>8, <2>9
<1>6. QED BY <1>4, <1>5

LEMMA ResolveTimeoutKeeps ==
  ASSUME NetAssumption, NetInv, ResolveTimeout PROVE NetInv'
<1> USE DEF NetInv, ReachesNextHop, RepliesMatch
<1> DEFINE top == nest[Len(nest)]
<1>1. /\ nest # <<>> /\ nest \in Seq(Nests) /\ Len(nest) \in Nat \ {0} /\ top \in Nests
      /\ nest' = Front(nest) /\ nest' \in Seq(Nests) /\ Len(nest') = Len(nest) - 1
      /\ \A i \in 1..Len(nest) - 1 : nest'[i] = nest[i]
  BY NestIsSeq DEF ResolveTimeout
<1>2. UNCHANGED <<addr, arp, dhcp, ping, inbox, sent, arrivals, calls, heard>>
  BY DEF ResolveTimeout, world
<1>3. ~polling /\ job # Idle
  BY DEF ResolveTimeout, Spinning
<1> HIDE DEF top
<1>4. DatagramsReachNextHop' /\ RequestNamesItsOffer' /\ Remembered'
  BY <1>2 DEF DatagramsReachNextHop, RequestNamesItsOffer, Remembered
<1>5. CASE top.out = NoOut
  <2>1. Len(nest) = 1 /\ job.at = "ping_arp"
    BY <1>1, <1>5 DEF Resolving, top
  <2>2. nest' = <<>>
    BY <1>1, <2>1
  <2>3. result' = [ok |-> FALSE, dst |-> job.dst, seq |-> ping.want] /\ job' = Idle /\ UNCHANGED polling
    BY <1>5 DEF ResolveTimeout, PingFails, Top, top
  <2>4. NetTypeOK'
    BY <1>2, <2>2, <2>3 DEF NetTypeOK, Idle
  <2>5. AnsweredIsHeard'
    BY <2>3 DEF AnsweredIsHeard
  <2>6. Calling' /\ Resolving'
    BY <1>2, <1>3, <2>1, <2>2, <2>3 DEF Calling, Resolving, Asking, NetTypeOK, Idle
  <2>7. Nested'
    BY <1>1, <1>2, <2>1, <2>2 DEF Nested, ByUs, NetTypeOK
  <2>8. QED BY <1>4, <2>4, <2>5, <2>6, <2>7
<1>6. CASE top.out # NoOut
  <2>1. polling' = TRUE /\ UNCHANGED <<job, result>>
    BY <1>6 DEF ResolveTimeout, Top, top
  <2>2. NetTypeOK'
    BY <1>1, <1>2, <2>1 DEF NetTypeOK, Nests
  <2>3. AnsweredIsHeard'
    BY <1>2, <2>1 DEF AnsweredIsHeard
  <2>4. job.at = "ping_arp" => Len(nest) # 1
    BY <1>1, <1>6 DEF Calling, top
  <2>5. Calling' /\ Resolving'
    BY <1>1, <1>2, <1>3, <2>1, <2>4 DEF Calling, Resolving, Asking, Idle
  <2>6. Nested'
    BY <1>1, <1>2, <1>6, <2>1 DEF Nested, ByUs, NetTypeOK, top
  <2>7. QED BY <1>4, <2>2, <2>3, <2>5, <2>6
<1>7. QED BY <1>5, <1>6

(* The head of dhcp_wait: the answer that is taken, or the fixed address.  *)
LEMMA DhcpKeeps ==
  ASSUME NetAssumption, NetInv, DhcpAnswer \/ DhcpTimeout PROVE NetInv'
<1> USE DEF NetInv, ReachesNextHop, RepliesMatch
<1>1. /\ nest = <<>> /\ job.at \in {"disc1", "disc2", "req"} /\ polling = FALSE
      /\ UNCHANGED <<inbox, arrivals, calls, heard, result>>
      /\ calls \in 0..MaxCalls /\ ping.want + 1 <= calls
  BY DEF DhcpAnswer, DhcpTimeout, InDhcp, world, NetTypeOK, Calling, Asking
<1>2. ASSUME PingTo(job.dst), UNCHANGED dhcp, addr' \in Servers \cup {None, Static}
      PROVE  NetInv'
  <2>1. job.dst \in IPs \cup {None}
    BY DEF NetTypeOK
  <2>2. QED BY <1>1, <1>2, <2>1, PingToKeeps
<1>3. CASE DhcpAnswer /\ job.at = "req"
  BY <1>2, <1>3 DEF DhcpAnswer, Answered, NetTypeOK
<1>4. CASE DhcpTimeout /\ job.at # "disc1"
  BY <1>2, <1>4 DEF DhcpTimeout
<1>5. CASE (DhcpAnswer /\ job.at # "req") \/ (DhcpTimeout /\ job.at = "disc1")
  <2>1. /\ dhcp' = [dhcp EXCEPT !.got = FALSE] /\ polling' = FALSE
        /\ UNCHANGED <<addr, arp, ping, nest>>
    BY <1>1, <1>5 DEF DhcpAnswer, DhcpTimeout, Discover
  <2>2. PICK at \in {"disc2", "req"} : job' = [at |-> at, dst |-> job.dst]
    BY <1>5 DEF DhcpAnswer, DhcpTimeout, Discover, NetTypeOK
  <2>3. sent' = sent \cup {Ask} 
        \/ \E ip \in Servers, srv \in Servers \cup {None} :
             sent' = sent \cup {Request(ip, srv)} /\ (ip = srv \/ ip \in Bare)
    BY <1>5 DEF DhcpAnswer, DhcpTimeout, Discover, Answered, Remembered, NetTypeOK
  <2>4. NetTypeOK'
    <3>1. sent' \subseteq Sent
      BY <2>3, SentTyped DEF NetTypeOK
    <3>2. dhcp' \in [got: BOOLEAN, yi: Servers \cup {None}, srv: Servers \cup {None}]
      BY <2>1 DEF NetTypeOK
    <3>3. job' \in [at: {"idle", "disc1", "disc2", "req", "ping_arp", "ping_wait"},
                    dst: IPs \cup {None}]
      BY <2>2 DEF NetTypeOK
    <3>4. QED BY <1>1, <2>1, <3>1, <3>2, <3>3 DEF NetTypeOK
  <2>5. DatagramsReachNextHop' /\ RequestNamesItsOffer'
    BY <2>3 DEF DatagramsReachNextHop, RequestNamesItsOffer, Ask, Request
  <2>6. AnsweredIsHeard' /\ Remembered'
    BY <1>1, <2>1 DEF AnsweredIsHeard, Remembered, NetTypeOK
  <2>7. Calling' /\ Resolving'
    BY <1>1, <2>1, <2>2 DEF Calling, Resolving, Asking
  <2>8. Nested'
    BY <1>1, <2>1 DEF Nested, ByUs
  <2>9. QED BY <2>4, <2>5, <2>6, <2>7, <2>8
<1>6. QED BY <1>3, <1>4, <1>5

LEMMA ArriveKeeps ==
  ASSUME NetAssumption, NetInv, Arrive PROVE NetInv'
<1> USE DEF NetInv, ReachesNextHop, RepliesMatch
<1>1. PICK f \in Answers \cup Unasked : inbox' = Append(inbox, f)
  BY DEF Arrive
<1>2. f \in Frames
  <2>1. CASE f \in Unasked
    BY <2>1 DEF Unasked, Frames, NetAssumption, IPs
  <2>2. CASE f \in Answers
    <3>1. CASE \E q \in {s \in sent : s.t = "who"} : f = [t |-> "arp_rep", from |-> q.ip]
      BY <3>1 DEF NetTypeOK, Sent, Frames
    <3>2. CASE \E q \in {s \in sent : s.t = "ping" /\ Delivered(s)} : f = [t |-> "echo_rep", seq |-> q.seq]
      BY <3>2 DEF NetTypeOK, Sent, Frames
    <3>3. CASE \E s \in Servers : f = [t |-> "offer", srv |-> s]
      BY <3>3 DEF Frames
    <3>4. CASE \E k \in {"ack", "nak"}, q \in {s \in sent : s.t = "request"} :
                 f = [t |-> k, srv |-> Asked(q)]
      BY <3>4 DEF NetTypeOK, Sent, Frames, Asked
    <3>5. QED BY <2>2, <3>1, <3>2, <3>3, <3>4 DEF Answers
  <2>3. QED BY <2>1, <2>2
<1>3. /\ arrivals' = arrivals + 1 /\ Len(inbox) < RxSize /\ arrivals < MaxArrivals
      /\ UNCHANGED <<addr, arp, dhcp, ping, job, nest, polling, sent, calls, result, heard>>
  BY DEF Arrive, stack
<1>4. inbox \in Seq(Frames) /\ Len(inbox) \in Nat
  BY DEF NetTypeOK
<1>5. inbox' \in Seq(Frames) /\ Len(inbox') = Len(inbox) + 1
  BY <1>1, <1>2, <1>4
<1>6. NetTypeOK'
  <2>1. arrivals' \in 0..MaxArrivals /\ Len(inbox') <= RxSize
    BY <1>3, <1>4, <1>5 DEF NetTypeOK, NetAssumption
  <2>2. QED BY <1>3, <1>5, <2>1 DEF NetTypeOK
<1>7. DatagramsReachNextHop' /\ AnsweredIsHeard' /\ RequestNamesItsOffer' /\ Remembered'
  BY <1>3 DEF DatagramsReachNextHop, AnsweredIsHeard, RequestNamesItsOffer, Remembered
<1>8. Calling' /\ Resolving'
  BY <1>3 DEF Calling, Resolving
<1>9. Nested'
  BY <1>3, <1>4, <1>5 DEF Nested, ByUs, NetTypeOK
<1>10. QED BY <1>6, <1>7, <1>8, <1>9

LEMMA PollKeeps ==
  ASSUME NetAssumption, NetInv, Poll PROVE NetInv'
<1> USE DEF NetInv, ReachesNextHop, RepliesMatch
<1> DEFINE f == Head(inbox)
<1>1. /\ f \in Frames /\ inbox' = Tail(inbox) /\ inbox' \in Seq(Frames)
      /\ Len(inbox') = Len(inbox) - 1 /\ Len(inbox) \in Nat /\ Len(inbox) <= RxSize
  BY HeadTailProperties DEF Poll, NetTypeOK
<1>2. polling = TRUE /\ UNCHANGED <<addr, job, arrivals, calls, result>>
  BY DEF Poll, NetTypeOK
<1>3. \/ ArpIn(f) /\ UNCHANGED <<dhcp, ping, nest, polling, heard>>
      \/ EchoIn(f) /\ UNCHANGED <<dhcp, ping, heard>>
      \/ EchoReplyIn(f) /\ UNCHANGED <<arp, dhcp, nest, polling, sent>>
      \/ DhcpIn(f) /\ UNCHANGED <<arp, ping, nest, polling, sent, heard>>
      \/ f.t = "runt" /\ polling' = FALSE /\ UNCHANGED <<arp, dhcp, ping, nest, sent, heard>>
  BY DEF Poll
<1> HIDE DEF f
<1>4. MaxArrivals \in Nat /\ RxSize \in Nat /\ MaxCalls \in Nat /\ arrivals \in 0..MaxArrivals
  BY DEF NetAssumption, NetTypeOK
<1>5. CASE ArpIn(f) /\ UNCHANGED <<dhcp, ping, nest, polling, heard>>
  <2>1. sent' = sent \/ \E ip \in Hosts : sent' = sent \cup {Is(ip)}
    BY <1>1, <1>5 DEF ArpIn, Frames
  <2>2. arp' = arp \/ \E ip \in Hosts : arp' = [ok |-> TRUE, ip |-> ip, mac |-> ip]
    BY <1>1, <1>5 DEF ArpIn, Frames
  <2>3. NetTypeOK'
    <3>1. sent' \subseteq Sent
      BY <2>1, SentTyped DEF NetTypeOK
    <3>2. arp' \in [ok: BOOLEAN, ip: Hosts \cup {None}, mac: Hosts \cup {None}]
      <4>1. arp \in [ok: BOOLEAN, ip: Hosts \cup {None}, mac: Hosts \cup {None}]
        BY DEF NetTypeOK
      <4>2. CASE \E ip \in Hosts : arp' = [ok |-> TRUE, ip |-> ip, mac |-> ip]
        BY <4>2
      <4>3. QED BY <2>2, <4>1, <4>2
    <3>3. QED BY <1>1, <1>2, <1>5, <3>1, <3>2 DEF NetTypeOK
  <2>4. DatagramsReachNextHop' /\ RequestNamesItsOffer'
    BY <2>1 DEF DatagramsReachNextHop, RequestNamesItsOffer, Is
  <2>5. AnsweredIsHeard' /\ Remembered' /\ Calling' /\ Resolving'
    BY <1>2, <1>5, <2>2 DEF AnsweredIsHeard, Remembered, Calling, Resolving
  <2>6. Nested'
    BY <1>1, <1>2, <1>4, <1>5 DEF Nested, ByUs, NetTypeOK
  <2>7. QED BY <2>3, <2>4, <2>5, <2>6
<1>6. CASE EchoIn(f) /\ UNCHANGED <<dhcp, ping, heard>>
  <2>1. f.from \in IPs /\ NextHop(f.from) \in Hosts
    BY <1>1, <1>6, HopIsLocal DEF EchoIn, Frames, IPs
  <2>2. CASE UNCHANGED <<arp, nest, polling>>
    <3>1. \/ sent' = sent
          \/ Cached(NextHop(f.from)) /\ sent' = sent \cup {Pong(f.from, arp.mac)}
      <4>1. arp.ok \in BOOLEAN /\ nest \in Seq(Nests)
        BY DEF NetTypeOK, Nests
      <4>2. CASE Resolve(NextHop(f.from), [t |-> "pong", dst |-> f.from])
        <5>1. Len(nest') = Len(nest) + 1
          BY <4>1, <4>2 DEF Resolve
        <5>2. QED BY <2>2, <4>1, <5>1
      <4>3. \/ sent' = sent
            \/ Cached(NextHop(f.from)) /\ sent' = sent \cup {Pong(f.from, arp.mac)}
            \/ Resolve(NextHop(f.from), [t |-> "pong", dst |-> f.from])
        BY <1>6 DEF EchoIn
      <4>4. QED BY <4>2, <4>3
    <3>2. Cached(NextHop(f.from)) => arp.mac = NextHop(f.from)
      BY DEF Cached, Remembered
    <3>3. NetTypeOK'
      <4>1. sent' \subseteq Sent
        BY <2>1, <3>1, <3>2, SentTyped DEF NetTypeOK
      <4>2. QED BY <1>1, <1>2, <1>6, <2>2, <4>1 DEF NetTypeOK
    <3>4. DatagramsReachNextHop' /\ RequestNamesItsOffer'
      BY <3>1, <3>2 DEF DatagramsReachNextHop, RequestNamesItsOffer, Pong
    <3>5. AnsweredIsHeard' /\ Remembered' /\ Calling' /\ Resolving'
      BY <1>2, <1>6, <2>2 DEF AnsweredIsHeard, Remembered, Calling, Resolving
    <3>6. Nested'
      BY <1>1, <1>2, <1>4, <2>2 DEF Nested, ByUs, NetTypeOK
    <3>7. QED BY <3>3, <3>4, <3>5, <3>6
  <2>3. CASE ~UNCHANGED <<arp, nest, polling>>
    <3> DEFINE call == [ip |-> NextHop(f.from), out |-> [t |-> "pong", dst |-> f.from]]
    <3>1. /\ arp' = [arp EXCEPT !.ok = FALSE, !.ip = NextHop(f.from)]
          /\ nest' = Append(nest, call) /\ polling' = FALSE /\ UNCHANGED sent
      BY <1>6, <2>3 DEF EchoIn, Resolve
    <3>2. call \in Nests /\ call.out # NoOut /\ call.ip = NextHop(call.out.dst)
      BY <2>1 DEF Nests, Outs, NoOut
    <3> HIDE DEF call
    <3>3. nest \in Seq(Nests) /\ Len(nest) \in Nat
      BY DEF NetTypeOK, Nests
    <3>4. /\ nest' \in Seq(Nests) /\ Len(nest') = Len(nest) + 1 /\ nest'[Len(nest) + 1] = call
          /\ \A i \in 1..Len(nest) : nest'[i] = nest[i]
      BY <3>1, <3>2, <3>3
    <3>5. nest # <<>> => nest'[1] = nest[1]
      BY <3>3, <3>4
    <3>6. nest = <<>> => nest'[1] = call
      BY <3>4
    <3>7. Nested'
      <4>1. nest' # <<>>
        BY <3>3, <3>4
      <4>2. ByUs' = ByUs
        BY <3>2, <3>5, <3>6, <4>1 DEF ByUs
      <4>3. QED BY <1>1, <1>2, <1>4, <3>3, <3>4, <4>2 DEF Nested
    <3>8. NetTypeOK'
      <4>1. Len(nest') <= MaxArrivals + 1
        BY <1>1, <1>4, <3>3, <3>4 DEF Nested
      <4>2. arp' \in [ok: BOOLEAN, ip: Hosts \cup {None}, mac: Hosts \cup {None}]
        BY <2>1, <3>1 DEF NetTypeOK
      <4>3. nest' \in Seq([ip: Hosts, out: Outs])
        BY <3>4 DEF Nests
      <4>4. inbox' \in Seq(Frames) /\ Len(inbox') <= RxSize
        BY <1>1, <1>4
      <4>5. UNCHANGED <<addr, job, arrivals, calls, result, dhcp, ping, heard, sent>> /\ polling' = FALSE
        BY <1>2, <1>6, <3>1
      <4>6. QED BY <4>1, <4>2, <4>3, <4>4, <4>5 DEF NetTypeOK
    <3>9. DatagramsReachNextHop' /\ RequestNamesItsOffer' /\ AnsweredIsHeard'
      BY <1>2, <1>6, <3>1 DEF DatagramsReachNextHop, RequestNamesItsOffer, AnsweredIsHeard
    <3>10. Remembered'
      BY <1>6, <3>1 DEF Remembered, NetTypeOK
    <3>11. Calling' /\ Resolving'
      BY <1>2, <1>6, <3>2, <3>3, <3>4, <3>5 DEF Calling, Resolving, Idle
    <3>12. QED BY <3>7, <3>8, <3>9, <3>10, <3>11
  <2>4. QED BY <2>2, <2>3
<1>7. CASE EchoReplyIn(f) /\ UNCHANGED <<arp, dhcp, nest, polling, sent>>
  <2>1. f.seq \in 1..MaxCalls
    BY <1>1, <1>7 DEF EchoReplyIn, Frames
  <2>2. /\ ping' = [ping EXCEPT !.got = @ \/ f.seq = ping.want] /\ heard' = heard \cup {f.seq}
    BY <1>7 DEF EchoReplyIn
  <2>3. ping' \in [got: BOOLEAN, want: 0..MaxCalls] /\ ping'.want = ping.want
    BY <2>2 DEF NetTypeOK
  <2>4. NetTypeOK'
    BY <1>1, <1>2, <1>7, <2>1, <2>2, <2>3 DEF NetTypeOK
  <2>5. DatagramsReachNextHop' /\ RequestNamesItsOffer' /\ AnsweredIsHeard'
    BY <1>2, <1>7, <2>2 DEF DatagramsReachNextHop, RequestNamesItsOffer, AnsweredIsHeard
  <2>6. Remembered'
    BY <1>7, <2>2, <2>3 DEF Remembered, NetTypeOK
  <2>7. Calling' /\ Resolving'
    BY <1>2, <1>7, <2>3 DEF Calling, Resolving
  <2>8. Nested'
    BY <1>1, <1>2, <1>4, <1>7 DEF Nested, ByUs, NetTypeOK
  <2>9. QED BY <2>4, <2>5, <2>6, <2>7, <2>8
<1>8. CASE DhcpIn(f) /\ UNCHANGED <<arp, ping, nest, polling, sent, heard>>
  <2>1. f.srv \in Servers
    BY <1>1, <1>8 DEF DhcpIn, Frames
  <2>2. /\ dhcp' \in [got: BOOLEAN, yi: Servers \cup {None}, srv: Servers \cup {None}]
        /\ dhcp'.yi \in {None, dhcp'.srv} \cup Bare
    BY <1>8, <2>1 DEF DhcpIn, DhcpOptions, NetTypeOK
  <2>3. NetTypeOK'
    BY <1>1, <1>2, <1>8, <2>2 DEF NetTypeOK
  <2>4. DatagramsReachNextHop' /\ RequestNamesItsOffer' /\ AnsweredIsHeard' /\ Remembered'
    BY <1>2, <1>8, <2>2 DEF DatagramsReachNextHop, RequestNamesItsOffer, AnsweredIsHeard, Remembered
  <2>5. Calling' /\ Resolving'
    BY <1>2, <1>8 DEF Calling, Resolving
  <2>6. Nested'
    BY <1>1, <1>2, <1>4, <1>8 DEF Nested, ByUs, NetTypeOK
  <2>7. QED BY <2>3, <2>4, <2>5, <2>6
<1>9. CASE f.t = "runt" /\ polling' = FALSE /\ UNCHANGED <<arp, dhcp, ping, nest, sent, heard>>
  <2>1. NetTypeOK'
    <3>1. inbox' \in Seq(Frames) /\ Len(inbox') <= RxSize
      BY <1>1, <1>4
    <3>2. polling' \in BOOLEAN
      BY <1>9
    <3>3. UNCHANGED <<addr, job, arrivals, calls, result, arp, dhcp, ping, nest, sent, heard>>
      BY <1>2, <1>9
    <3>4. QED BY <3>1, <3>2, <3>3 DEF NetTypeOK
  <2>2. DatagramsReachNextHop' /\ RequestNamesItsOffer' /\ AnsweredIsHeard' /\ Remembered'
    BY <1>2, <1>9 DEF DatagramsReachNextHop, RequestNamesItsOffer, AnsweredIsHeard, Remembered
  <2>3. Calling' /\ Resolving'
    BY <1>2, <1>9 DEF Calling, Resolving
  <2>4. Nested'
    BY <1>1, <1>2, <1>4, <1>9 DEF Nested, ByUs, NetTypeOK
  <2>5. QED BY <2>1, <2>2, <2>3, <2>4
<1>10. QED BY <1>3, <1>5, <1>6, <1>7, <1>8, <1>9

LEMMA NetStarts == ASSUME NetAssumption, NetInit PROVE NetInv
<1>1. NetTypeOK
  <2>1. /\ arp \in [ok: BOOLEAN, ip: Hosts \cup {None}, mac: Hosts \cup {None}]
        /\ dhcp \in [got: BOOLEAN, yi: Servers \cup {None}, srv: Servers \cup {None}]
        /\ ping \in [got: BOOLEAN, want: 0..MaxCalls]
        /\ result \in [ok: BOOLEAN, dst: IPs \cup {None}, seq: 0..MaxCalls]
    BY DEF NetInit, NetAssumption
  <2>2. job \in [at: {"idle", "disc1", "disc2", "req", "ping_arp", "ping_wait"},
                 dst: IPs \cup {None}]
    BY DEF NetInit, Idle
  <2>3. /\ nest \in Seq([ip: Hosts, out: Outs]) /\ Len(nest) <= MaxArrivals + 1
        /\ inbox \in Seq(Frames) /\ Len(inbox) <= RxSize
    BY DEF NetInit, NetAssumption
  <2>4. /\ addr \in Servers \cup {None, Static} /\ polling \in BOOLEAN /\ sent \subseteq Sent
        /\ arrivals \in 0..MaxArrivals /\ calls \in 0..MaxCalls /\ heard \subseteq 1..MaxCalls
    <3>1. addr = None /\ polling = FALSE /\ sent = {} /\ heard = {}
      BY DEF NetInit
    <3>2. arrivals = 0 /\ calls = 0 /\ MaxArrivals \in Nat /\ MaxCalls \in Nat
      BY DEF NetInit, NetAssumption
    <3>3. arrivals \in 0..MaxArrivals /\ calls \in 0..MaxCalls
      BY <3>2
    <3>4. QED BY <3>1, <3>3
  <2>5. QED BY <2>1, <2>2, <2>3, <2>4 DEF NetTypeOK
<1>2. Calling /\ Resolving /\ Nested /\ Remembered /\ DatagramsReachNextHop
      /\ AnsweredIsHeard /\ RequestNamesItsOffer
  BY DEF NetInit, Calling, Resolving, Nested, Remembered, DatagramsReachNextHop,
         AnsweredIsHeard, RequestNamesItsOffer, Idle, Asking, ByUs
<1>3. QED BY <1>1, <1>2 DEF NetInv, ReachesNextHop, RepliesMatch

LEMMA NetInductive == ASSUME NetAssumption, NetInv, [NetNext]_netVars PROVE NetInv'
<1>1. CASE \E dst \in IPs \cup {None} : Call(dst)
  BY <1>1, CallKeeps
<1>2. CASE Progress \/ TimeOut
  BY <1>2, TurnKeeps, PollKeeps, PingEnds, ResolvedKeeps, DhcpKeeps, ResolveTimeoutKeeps
     DEF Progress, TimeOut
<1>3. CASE Arrive
  BY <1>3, ArriveKeeps
<1>4. CASE UNCHANGED netVars
  BY <1>4 DEF netVars, NetInv, ReachesNextHop, RepliesMatch, NetTypeOK, Calling, Resolving, Nested,
       Remembered, DatagramsReachNextHop, AnsweredIsHeard, RequestNamesItsOffer, ByUs
<1>5. QED BY <1>1, <1>2, <1>3, <1>4 DEF NetNext

(* Every datagram leaves for the MAC of the host it must go to next: no    *)
(* wait loop that a handler starts, and that takes the one ARP entry for   *)
(* another address, lets the outer one send with the wrong entry           *)
(* (arp_resolve, ip_send); and the loops nest no deeper than frames came.  *)
THEOREM DatagramsGoWhereSent == NetSpec => []ReachesNextHop
<1>1. NetInit => NetInv
  BY NetStarts, NetAssumption
<1>2. NetInv /\ [NetNext]_netVars => NetInv'
  BY NetInductive, NetAssumption
<1>3. NetInv => ReachesNextHop
  BY DEF NetInv
<1>4. QED BY <1>1, <1>2, <1>3, PTL DEF NetSpec

(* A ping is reported answered only by the reply to that request, and an   *)
(* address is asked for from the server that offered it if that server     *)
(* names itself, with replies late, repeated and out of order (icmp_in,    *)
(* udp_in).                                                                *)
THEOREM AnswersMatchRequests == NetSpec => []RepliesMatch
<1>1. NetInit => NetInv
  BY NetStarts, NetAssumption
<1>2. NetInv /\ [NetNext]_netVars => NetInv'
  BY NetInductive, NetAssumption
<1>3. NetInv => RepliesMatch
  BY DEF NetInv
<1>4. QED BY <1>1, <1>2, <1>3, PTL DEF NetSpec
=============================================================================
