------------------------------- MODULE Mouse -------------------------------
(***************************************************************************)
(* The PS/2 mouse (src/drivers/mouse.c): packets become events in a ring,  *)
(* filled by the interrupt and drained by the task that owns the screen.   *)
(* A position is one coordinate.  The out-of-step and overflowed packets   *)
(* that mouse_handle_byte skips change nothing and are left out.           *)
(***************************************************************************)
EXTENDS Naturals, SequencesExt

CONSTANTS Positions,     \* where the pointer may be
          Buttons,       \* the buttons, in the order of their bits
          RingCap        \* MOUSE_Q - 1: events the ring holds

ASSUME MouseAssumption == RingCap \in Nat \ {0} /\ Buttons \in Seq(Range(Buttons))

VARIABLES pointer,       \* s_x, s_y
          down,          \* s_buttons: the buttons held
          ring,          \* the events from s_tail to s_head
          copied,        \* the event mouse_get_event has copied but not freed
          lastSeen,      \* the position the last event taken carried
          stale,         \* ghost: the newest position will reach no reader
          lostUp         \* ghost: the newest release of the left button was dropped

mouseVars == <<pointer, down, ring, copied, lastSeen, stale, lostUp>>

NoEvent == [kind |-> "none"]
Move(p) == [kind |-> "move", x |-> p]
Edge(k, b, p) == [kind |-> k, button |-> b, x |-> p]
Events == {Move(p) : p \in Positions}
    \cup {Edge(k, b, p) : k \in {"down", "up"}, b \in Range(Buttons), p \in Positions}

MouseTypeOK ==
    /\ pointer \in Positions /\ lastSeen \in Positions
    /\ down \subseteq Range(Buttons)
    /\ Range(ring) \subseteq Events /\ Len(ring) <= RingCap
    /\ copied \in Events \cup {NoEvent}
    /\ stale \in BOOLEAN /\ lostUp \in BOOLEAN

MouseInit ==
    /\ pointer \in Positions /\ lastSeen = pointer
    /\ down = {} /\ ring = <<>> /\ copied = NoEvent
    /\ stale = FALSE /\ lostUp = FALSE

----------------------------------------------------------------------------
(* mouse_push: a full ring drops the event, even one that could merge.  A  *)
(* move merges into a last event that is a move; if that is the event being*)
(* copied, the reader has its old position and will free the new one.      *)

Merges(m, e) == e.kind = "move" /\ m.ring # <<>> /\ Last(m.ring).kind = "move"

IsLeftUp(e) == e.kind = "up" /\ e.button = "left"

\* mutant: a merged move keeps the old position
Push_KeepPosition(m, e) ==
    CASE Len(m.ring) = RingCap ->
            [m EXCEPT !.stale = TRUE, !.lostUp = @ \/ IsLeftUp(e)]
      [] Len(m.ring) < RingCap /\ Merges(m, e) ->
            [m EXCEPT !.stale = copied # NoEvent /\ Len(m.ring) = 1]
      [] OTHER -> [ring |-> Append(m.ring, e), stale |-> FALSE, lostUp |-> m.lostUp /\ ~IsLeftUp(e)]
Push(m, e) ==
    CASE Len(m.ring) = RingCap ->
            [m EXCEPT !.stale = TRUE, !.lostUp = @ \/ IsLeftUp(e)]
      [] Len(m.ring) < RingCap /\ Merges(m, e) ->
            [m EXCEPT !.ring[Len(m.ring)].x = e.x,
                      !.stale = copied # NoEvent /\ Len(m.ring) = 1]
      [] OTHER -> [ring |-> Append(m.ring, e), stale |-> FALSE, lostUp |-> m.lostUp /\ ~IsLeftUp(e)]

(* mouse_handle_byte, third byte: the move first, then an edge per button  *)
(* that changed, in the order of their bits.                               *)
MousePacket(p, now) ==
    LET moved == LET m == [ring |-> ring, stale |-> stale, lostUp |-> lostUp]
                 IN  IF p = pointer THEN m ELSE Push(m, Move(p))
        after[i \in 0..Len(Buttons)] ==
            IF i = 0 THEN moved
            ELSE LET b == Buttons[i]
                 IN  IF (b \in down) = (b \in now) THEN after[i - 1]
                     ELSE Push(after[i - 1], Edge(IF b \in now THEN "down" ELSE "up", b, p))
        m == after[Len(Buttons)]
    IN  /\ pointer' = p /\ down' = now
        /\ ring' = m.ring /\ stale' = m.stale /\ lostUp' = m.lostUp
        /\ UNCHANGED <<copied, lastSeen>>

(* mouse_get_event: the slot is copied field by field and freed after; the *)
(* interrupt may come in between.                                          *)
CopyEvent ==
    /\ ring # <<>> /\ copied = NoEvent
    /\ copied' = Head(ring)
    /\ UNCHANGED <<pointer, down, ring, lastSeen, stale, lostUp>>

FreeEvent ==
    /\ copied # NoEvent
    /\ ring' = Tail(ring) /\ lastSeen' = copied.x /\ copied' = NoEvent
    /\ UNCHANGED <<pointer, down, stale, lostUp>>

(* The draining loops at the head of desktop_run and the login: what was   *)
(* waiting is thrown away.                                                 *)
Drain ==
    /\ ring' = <<>> /\ lastSeen' = pointer /\ stale' = FALSE /\ lostUp' = FALSE
    /\ UNCHANGED <<pointer, down, copied>>

----------------------------------------------------------------------------
(* A reader that has emptied the ring has seen where the pointer is, unless*)
(* the last news of it was dropped or merged into an event already copied. *)
SeesPointer == ring = <<>> /\ ~stale => lastSeen = pointer
=============================================================================
