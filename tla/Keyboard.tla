------------------------------- MODULE Keyboard -------------------------------
(***************************************************************************)
(* The PS/2 keyboard of src/drivers/keyboard.c: keyboard_irq decodes scan  *)
(* code bytes, keeping the modifiers, and pushes code points into a ring   *)
(* from which keyboard_get_codepoint takes them with interrupts on.        *)
(*                                                                         *)
(* The hands on the keyboard are the environment: a set of modifiers, and  *)
(* the bytes the controller still has to deliver.  Each character typed    *)
(* has a number (id) and the symbol it should give (want), which no code   *)
(* looks at; a code point in the ring is its number and whether it is the  *)
(* symbol wanted.                                                          *)
(*                                                                         *)
(* The handler may run any number of times between two instructions of the *)
(* reader, whose task the timer may also set aside there.                  *)
(*                                                                         *)
(* Bounds: MaxKeys characters are typed and MaxWire bytes wait in the      *)
(* controller.  Mutants have a suffix after _ in their name.               *)
(***************************************************************************)
EXTENDS Integers, Sequences

CONSTANTS
  Keys,        \* the keys that are used
  Size,        \* KBD_BUFFER_SIZE
  MaxKeys, MaxWire

ASSUME KeyboardAssumption ==
  /\ Keys \subseteq {"lshift", "rshift", "lalt", "altgr", "lgui", "lctrl", "rctrl",
                     "letter", "space", "up"}
  /\ Size \in Nat /\ Size > 2
  /\ MaxKeys \in Nat /\ MaxWire \in Nat

VARIABLES
  held, both, wire,                  \* environment
  shift, altgr, gui, lctrl, e0,      \* the modifiers, as keyboard.c keeps them
  buf, head, tail,                   \* kbd_buffer, kbd_head, kbd_tail
  pc, cp, seen,                      \* keyboard_get_codepoint: codepoint, and kbd_tail as read
  due,                               \* history: the oldest character when it was read
  typed, pushed, taken,              \* history: the last characters
  overflow, emptied                  \* history: see Push and Store

hands == <<held, both, wire, typed>>
mods == <<shift, altgr, gui, lctrl, e0>>
ring == <<buf, head, tail>>
reader == <<pc, cp, seen, due>>
lost == <<overflow, emptied>>
vars == <<hands, mods, ring, reader, pushed, taken, lost>>

-----------------------------------------------------------------------------
(* Keys, and the bytes they send: a code, after an E0 byte for some keys.  *)

CharKeys == Keys \cap {"letter", "space", "up"}
Extended == {"altgr", "lgui", "rctrl", "up"}
Shifts == {"lshift", "rshift"}
Code == [lshift |-> "shift", rshift |-> "shift", lalt |-> "alt", altgr |-> "alt",
         lgui |-> "gui", lctrl |-> "ctrl", rctrl |-> "ctrl",
         letter |-> "letter", space |-> "space", up |-> "arrow"]

\* What a character key should give with the keys h held.  The driver has one
\* flag for the two shift keys: after both were held, either case will do.
Shifted(h) == h \cap Shifts # {}
Wanted(k, h) ==
  CASE k = "up" -> "KEY_UP"
    [] k = "space" -> IF h \cap {"lgui", "lctrl"} # {} THEN "KEY_SPOTLIGHT" ELSE "space"
    [] k = "letter" /\ both -> "a letter"
    [] k = "letter" /\ ~both ->
         IF "altgr" \in h
         THEN IF Shifted(h) THEN "accented capital" ELSE "accented"
         ELSE IF Shifted(h) THEN "capital" ELSE "small"

Byte(code, up, id, want) == [code |-> code, up |-> up, id |-> id, want |-> want]
Prefix(k) == IF k \in Extended THEN <<Byte("e0", FALSE, 0, "none")>> ELSE << >>
Empty == [id |-> 0, right |-> TRUE]

Init ==
  /\ held = {} /\ both = FALSE /\ wire = << >>
  /\ shift = FALSE /\ altgr = FALSE /\ gui = FALSE /\ lctrl = FALSE /\ e0 = FALSE
  /\ buf = [k \in 0 .. (Size - 1) |-> Empty] /\ head = 0 /\ tail = 0
  /\ pc = "idle" /\ cp = Empty /\ seen = 0 /\ due = 0
  /\ typed = 0 /\ pushed = 0 /\ taken = 0 /\ overflow = FALSE /\ emptied = 0

(* A key goes down (or repeats), or up.                                    *)
Press(k) ==
  /\ Len(wire) < MaxWire
  /\ k \in CharKeys => typed < MaxKeys
  /\ held' = held \cup ({k} \ CharKeys)
  /\ both' = (both \/ Shifts \subseteq held')
  /\ typed' = IF k \in CharKeys THEN typed + 1 ELSE typed
  /\ wire' = wire \o Prefix(k) \o
       <<IF k \in CharKeys THEN Byte(Code[k], FALSE, typed + 1, Wanted(k, held))
                           ELSE Byte(Code[k], FALSE, 0, "none")>>
  /\ UNCHANGED <<mods, ring, reader, pushed, taken, lost>>

Release(k) ==
  /\ Len(wire) < MaxWire
  /\ k \in held \/ (k \in CharKeys /\ typed > 0)
  /\ held' = held \ {k}
  /\ both' = (both /\ Shifted(held'))
  /\ wire' = wire \o Prefix(k) \o <<Byte(Code[k], TRUE, 0, "none")>>
  /\ UNCHANGED <<typed, mods, ring, reader, pushed, taken, lost>>

-----------------------------------------------------------------------------
(* keyboard_irq *)

\* The code point a byte gives, "none" for a byte that only changes modifiers
\* or means nothing.
Symbol(b) ==
  IF b.up THEN "none"
  ELSE CASE b.code = "arrow" -> IF e0 THEN "KEY_UP" ELSE "none"
         [] b.code = "space" -> IF gui \/ lctrl THEN "KEY_SPOTLIGHT" ELSE "space"
         [] b.code = "letter" ->
              IF altgr THEN IF shift THEN "accented capital" ELSE "accented"
                       ELSE IF shift THEN "capital" ELSE "small"
         [] OTHER -> "none"

Letters == {"small", "capital", "accented", "accented capital"}
Matches(sym, want) == sym = want \/ (want = "a letter" /\ sym \in Letters)

Modifiers_AnyAlt(b) ==            \* mutant: left Alt taken for AltGr
  /\ e0' = (b.code = "e0")
  /\ shift' = IF b.code = "shift" THEN ~b.up ELSE shift
  /\ altgr' = IF b.code = "alt" THEN ~b.up ELSE altgr
  /\ gui' = IF b.code = "gui" /\ e0 THEN ~b.up ELSE gui
  /\ lctrl' = IF b.code = "ctrl" /\ ~e0 THEN ~b.up ELSE lctrl

Modifiers(b) ==
  /\ e0' = (b.code = "e0")
  /\ shift' = IF b.code = "shift" THEN ~b.up ELSE shift
  /\ altgr' = IF b.code = "alt" /\ e0 THEN ~b.up ELSE altgr
  /\ gui' = IF b.code = "gui" /\ e0 THEN ~b.up ELSE gui
  /\ lctrl' = IF b.code = "ctrl" /\ ~e0 THEN ~b.up ELSE lctrl

After(k) == (k + 1) % Size

\* kbd_push: a full ring loses its oldest entry; overflow says that it has.
Push_Overwrite(entry) ==          \* mutant: full ring not noticed
  /\ overflow' = overflow
  /\ tail' = tail
  /\ buf' = [buf EXCEPT ![head] = entry]
  /\ head' = After(head)

Push(entry) ==
  LET full == After(head) = tail
  IN  /\ overflow' = (overflow \/ full)
      /\ tail' = IF full THEN After(tail) ELSE tail
      /\ buf' = [buf EXCEPT ![head] = entry]
      /\ head' = After(head)

Irq ==
  /\ wire # << >>
  /\ LET b == Head(wire)
     IN  /\ Modifiers(b)
         /\ IF Symbol(b) = "none"
              THEN UNCHANGED <<ring, pushed, overflow>>
              ELSE /\ Push([id |-> b.id, right |-> Matches(Symbol(b), b.want)])
                   /\ pushed' = b.id
  /\ wire' = Tail(wire)
  /\ UNCHANGED <<held, both, typed, reader, taken, emptied>>

-----------------------------------------------------------------------------
(* keyboard_get_codepoint, by the one task that reads the keyboard: it     *)
(* reads kbd_tail for the slot, and again to advance it.                   *)

HasChar ==
  /\ pc = "idle"
  /\ head # tail
  /\ pc' = "load"
  /\ UNCHANGED <<hands, mods, ring, cp, seen, due, pushed, taken, lost>>

Load ==
  /\ pc = "load"
  /\ seen' = tail
  /\ due' = buf[tail].id
  /\ pc' = "fetch"
  /\ UNCHANGED <<hands, mods, ring, cp, pushed, taken, lost>>

Fetch ==
  /\ pc = "fetch"
  /\ cp' = buf[seen]
  /\ pc' = "reload"
  /\ UNCHANGED <<hands, mods, ring, seen, due, pushed, taken, lost>>

Reload ==
  /\ pc = "reload"
  /\ seen' = tail
  /\ pc' = "store"
  /\ UNCHANGED <<hands, mods, ring, cp, due, pushed, taken, lost>>

\* The slot held another character by the time it was fetched.
Slipped == cp.id # due

Store_Keep ==                     \* mutant: kbd_tail not advanced
  /\ pc = "store"
  /\ taken' = IF Slipped THEN taken ELSE cp.id
  /\ pc' = "idle" /\ cp' = Empty /\ seen' = 0 /\ due' = 0
  /\ UNCHANGED <<hands, mods, ring, pushed, lost>>

\* emptied is the last character there was when the store threw out all that
\* waited: kbd_push had moved kbd_tail on and the store put it back.
Store ==
  /\ pc = "store"
  /\ tail' = After(seen)
  /\ emptied' = IF tail # seen /\ After(seen) = head THEN pushed ELSE emptied
  /\ taken' = IF Slipped THEN taken ELSE cp.id
  /\ pc' = "idle" /\ cp' = Empty /\ seen' = 0 /\ due' = 0
  /\ UNCHANGED <<hands, mods, buf, head, pushed, overflow>>

Next ==
  \/ \E k \in Keys : Press(k) \/ Release(k)
  \/ Irq
  \/ HasChar \/ Load \/ Fetch \/ Reload \/ Store

\* The controller interrupts while it holds a byte, and the reader goes on.
Fairness ==
  /\ WF_vars(Irq)
  /\ WF_vars(HasChar) /\ WF_vars(Load) /\ WF_vars(Fetch) /\ WF_vars(Reload) /\ WF_vars(Store)

Spec == Init /\ [][Next]_vars /\ Fairness

-----------------------------------------------------------------------------
(* Types; kbd_head and kbd_tail stay inside kbd_buffer.                    *)
Entry == [id : 0 .. MaxKeys, right : BOOLEAN]
TypeOK ==
  /\ held \subseteq Keys /\ both \in BOOLEAN
  /\ \A m \in {shift, altgr, gui, lctrl, e0} : m \in BOOLEAN
  /\ buf \in [0 .. (Size - 1) -> Entry]
  /\ head \in 0 .. (Size - 1) /\ tail \in 0 .. (Size - 1)
  /\ pc \in {"idle", "load", "fetch", "reload", "store"} /\ cp \in Entry
  /\ seen \in 0 .. (Size - 1)

Pending ==
  LET n == (head - tail) % Size
  IN  [k \in 1 .. n |-> buf[(tail + k - 1) % Size]]

(* Once the controller has no byte left, the driver's modifiers are the    *)
(* keys really held: no modifier is stuck, left Alt is not AltGr, right    *)
(* Ctrl is not left Ctrl, whatever else was typed between the bytes.  When *)
(* both shift keys were held, releasing one ends shift, so only that shift *)
(* is not stuck can be said (keyboard.c:130-138).                          *)
ModifiersMatchHands ==
  wire = << >> =>
    /\ ~e0
    /\ shift => Shifted(held)
    /\ ~both => shift = Shifted(held)
    /\ altgr = ("altgr" \in held) /\ lctrl = ("lctrl" \in held)
    /\ gui = ("lgui" \in held)

(* Every code point in the ring is the one its key should give with the    *)
(* modifiers held when it went down, although it is decoded later.         *)
SymbolsAreWanted == \A k \in DOMAIN Pending : Pending[k].right

(* The reader gets characters in the order typed and none twice, except    *)
(* one it fetches from a slot the handler wrote anew since kbd_tail was    *)
(* read for it (keyboard.c:264): that one comes too early, and once more   *)
(* in its turn.                                                            *)
InOrder == [][pc = "store" /\ pc' = "idle" /\ ~Slipped => cp.id > taken]_vars

(* While the ring never filled up, no character is lost: what is pushed    *)
(* and not yet taken is in the ring.                                       *)
NothingLost == ~overflow => Len(Pending) = pushed - taken

(* However many characters come between the instructions of the reader,    *)
(* what waits is the last ones pushed, in order and without gaps.          *)
LastOnesWait ==
  \A k \in DOMAIN Pending : Pending[k].id = pushed - Len(Pending) + k

(* The newest character waits until the reader takes it, also in a full    *)
(* ring, unless it is one of those thrown out with all the others: when    *)
(* kbd_push moves kbd_tail twice between its second read and its write in  *)
(* keyboard_get_codepoint, the write makes the ring empty.                 *)
NewestKept == pushed > taken /\ pushed > emptied => Pending # << >>

(* "Drop oldest so recent input is not silently lost" (keyboard.c:47):     *)
(* the newest character waits until it is taken, without that exception.   *)
RecentNotLost == pushed > taken => Pending # << >>

(* Whatever is typed last is read in the end, even after an overflow,      *)
(* unless the reader's own write of kbd_tail threw it out.                 *)
LastKeyIsRead ==
  \A n \in 1 .. MaxKeys : (typed = n) ~> (taken >= n \/ emptied >= n \/ typed > n)

(* From scancodes to code points: the modifiers are the keys held and each  *)
(* symbol is the one that was meant, through E0 prefixes and late decoding. *)
KeysTranslated == TypeOK /\ ModifiersMatchHands /\ SymbolsAreWanted

(* The ring loses a symbol only when full, and then the oldest, but for    *)
(* the one race that empties it (kbd_push, keyboard_get_codepoint).        *)
BufferKeeps == NothingLost /\ LastOnesWait /\ NewestKept
=============================================================================
