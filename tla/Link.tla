-------------------------------- MODULE Link --------------------------------
(***************************************************************************)
(* What a network card promises the stack above it (nic_send, nic_recv):   *)
(* two queues of frames.  A frame the send call accepted goes out once,    *)
(* unchanged and in order; a frame the card took from the wire is handed   *)
(* up once, unchanged and in order.  A frame damaged on the wire may be    *)
(* handed up or dropped.  A frame no call accepts, or the card has no room *)
(* for, is lost, which the specification sees as nothing happening.        *)
(***************************************************************************)
EXTENDS Sequences

CONSTANTS Payloads, Nothing

VARIABLES
    outQ,   \* accepted for sending, oldest first
    inQ,    \* taken from the wire and not read yet
    wire,   \* the last frame put on the wire
    got     \* the last frame handed to the stack

Init == outQ = <<>> /\ inQ = <<>> /\ wire = Nothing /\ got = Nothing

Send(p) == outQ' = Append(outQ, p) /\ UNCHANGED <<inQ, wire, got>>

Transmit ==
    /\ outQ # <<>>
    /\ wire' = Head(outQ)
    /\ outQ' = Tail(outQ)
    /\ UNCHANGED <<inQ, got>>

Arrive(p, ok) ==
    /\ inQ' = Append(inQ, [data |-> p, ok |-> ok])
    /\ UNCHANGED <<outQ, wire, got>>

Read ==
    /\ inQ # <<>>
    /\ inQ' = Tail(inQ)
    /\ got' \in {Head(inQ).data} \cup (IF Head(inQ).ok THEN {} ELSE {Nothing})
    /\ UNCHANGED <<outQ, wire>>

Next == \/ \E p \in Payloads : Send(p) \/ \E ok \in BOOLEAN : Arrive(p, ok)
        \/ Transmit
        \/ Read

Spec == Init /\ [][Next]_<<outQ, inQ, wire, got>>
=============================================================================
