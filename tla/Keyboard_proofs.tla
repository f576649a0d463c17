---------------------------- MODULE Keyboard_proofs ----------------------------
(***************************************************************************)
(* KeysTranslated, BufferKeeps and InOrder for any keys, any number of     *)
(* characters and bytes, and a ring of any size.                           *)
(*                                                                         *)
(* Two invariants.  DecodeInv follows the bytes on the wire: read from the *)
(* modifiers the driver has now they lead, byte by byte, to the modifiers  *)
(* the hands hold, and each character on the way comes out as wanted.      *)
(* BufferInv places the characters: consecutive numbers in the ring, the   *)
(* reader's between those taken and those in the ring.                     *)
(***************************************************************************)
EXTENDS Keyboard, SequenceTheorems, TLAPS

(* Decoding.  A state of the decoder: the modifiers, and the last character. *)
Codes == {"e0", "shift", "alt", "gui", "ctrl", "letter", "space", "arrow"}
Wants == Letters \cup {"none", "a letter", "space", "KEY_SPOTLIGHT", "KEY_UP"}
Bytes == [code : Codes, up : BOOLEAN, id : 0 .. MaxKeys, want : Wants]
Decoders == [shift : BOOLEAN, altgr : BOOLEAN, gui : BOOLEAN, lctrl : BOOLEAN, e0 : BOOLEAN,
             last : 0 .. MaxKeys]

Now == [shift |-> shift, altgr |-> altgr, gui |-> gui, lctrl |-> lctrl, e0 |-> e0,
        last |-> pushed]

\* Symbol and Modifiers from the modifiers of d.
SymbolFrom(d, b) ==
  IF b.up THEN "none"
  ELSE CASE b.code = "arrow" -> IF d.e0 THEN "KEY_UP" ELSE "none"
         [] b.code = "space" -> IF d.gui \/ d.lctrl THEN "KEY_SPOTLIGHT" ELSE "space"
         [] b.code = "letter" ->
              IF d.altgr THEN IF d.shift THEN "accented capital" ELSE "accented"
                         ELSE IF d.shift THEN "capital" ELSE "small"
         [] OTHER -> "none"

Decode(d, b) ==
  [shift |-> IF b.code = "shift" THEN ~b.up ELSE d.shift,
   altgr |-> IF b.code = "alt" /\ d.e0 THEN ~b.up ELSE d.altgr,
   gui   |-> IF b.code = "gui" /\ d.e0 THEN ~b.up ELSE d.gui,
   lctrl |-> IF b.code = "ctrl" /\ ~d.e0 THEN ~b.up ELSE d.lctrl,
   e0    |-> (b.code = "e0"),
   last  |-> IF SymbolFrom(d, b) = "none" THEN d.last ELSE b.id]

AsWanted(d, b) ==
  SymbolFrom(d, b) # "none" =>
    b.id = d.last + 1 /\ Matches(SymbolFrom(d, b), b.want)

\* d is what the hands hold, after everything typed.
AsHeld(d) ==
  /\ ~d.e0 /\ d.last = typed
  /\ d.shift => Shifted(held)
  /\ ~both => (d.shift <=> Shifted(held))
  /\ d.altgr <=> "altgr" \in held
  /\ d.lctrl <=> "lctrl" \in held
  /\ d.gui <=> "lgui" \in held

\* From d the bytes w lead to e, by the decoders m, one before each byte.
Reaches(d, w, e) ==
  \E m \in [0 .. Len(w) -> Decoders] :
    /\ m[0] = d /\ m[Len(w)] = e
    /\ \A k \in 1 .. Len(w) : m[k] = Decode(m[k - 1], w[k]) /\ AsWanted(m[k - 1], w[k])

HandsInv ==
  /\ both => Shifted(held)
  /\ ~both => ~(Shifts \subseteq held)

WireInv ==
  /\ wire \in Seq(Bytes)
  /\ \E d \in Decoders : AsHeld(d) /\ Reaches(Now, wire, d)

DecodeInv ==
  /\ TypeOK /\ typed \in 0 .. MaxKeys /\ pushed \in 0 .. MaxKeys
  /\ HandsInv /\ WireInv
  /\ \A k \in 0 .. Size - 1 : buf[k].right

(* The ring. *)
Gap(h, t) == (h - t) % Size
Slot(t, k) == (t + k) % Size
Waiting == Gap(head, tail)

\* pushed - Waiting is the last character that left the ring.
Placed ==
  /\ \A k \in 0 .. Waiting - 1 : buf[Slot(tail, k)].id = pushed - Waiting + 1 + k
  /\ taken <= pushed - Waiting
  /\ ~overflow => taken = pushed - Waiting
  /\ Waiting = 0 => taken = pushed \/ emptied = pushed

\* Full: the handler has made the ring lose characters, and it is full since.
Full == overflow /\ Waiting = Size - 1

\* due is still the oldest character that waits, or it was lost since.
Loaded ==
  /\ pc # "idle" => Waiting >= 1
  /\ pc \in {"fetch", "reload", "store"} =>
       /\ taken < due /\ due <= pushed - Waiting + 1
       /\ due = pushed - Waiting + 1 \/ Full
  /\ pc = "fetch" => seen = tail \/ (Full /\ due <= pushed - Waiting)
  /\ pc \in {"reload", "store"} => cp.id = due \/ (Full /\ due <= pushed - Waiting)
  /\ pc = "store" => tail = seen \/ (Full /\ due <= pushed - Waiting)

BufferInv ==
  /\ taken \in 0 .. MaxKeys /\ due \in 0 .. MaxKeys
  /\ Placed /\ Loaded

-----------------------------------------------------------------------------
(* What the bytes on the wire lead to. *)
LEMMA ReachesNone ==
  ASSUME NEW d \in Decoders
  PROVE  Reaches(d, << >>, d) /\ \A e : Reaches(d, << >>, e) => e = d
<1>1. Len(<< >>) = 0
  OBVIOUS
<1>2. Reaches(d, << >>, d)
  <2> DEFINE m == [k \in 0 .. 0 |-> d]
  <2>1. m \in [0 .. Len(<< >>) -> Decoders] /\ m[0] = d /\ m[Len(<< >>)] = d
    BY <1>1
  <2>2. \A k \in 1 .. Len(<< >>) : FALSE
    BY <1>1
  <2> HIDE DEF m
  <2> QED
    BY <2>1, <2>2 DEF Reaches
<1>3. \A e : Reaches(d, << >>, e) => e = d
  BY <1>1 DEF Reaches
<1> QED
  BY <1>2, <1>3

LEMMA ReachesMore ==
  ASSUME NEW d, NEW w \in Seq(Bytes), NEW e \in Decoders, NEW b \in Bytes,
         Reaches(d, w, e), AsWanted(e, b), Decode(e, b) \in Decoders
  PROVE  Reaches(d, Append(w, b), Decode(e, b))
<1> DEFINE n == Len(w)
           v == Append(w, b)
           f == Decode(e, b)
<1>1. PICK m \in [0 .. n -> Decoders] :
        /\ m[0] = d /\ m[n] = e
        /\ \A k \in 1 .. n : m[k] = Decode(m[k - 1], w[k]) /\ AsWanted(m[k - 1], w[k])
  BY DEF Reaches
<1>2. n \in Nat /\ Len(v) = n + 1 /\ v[n + 1] = b /\ \A k \in 1 .. n : v[k] = w[k]
  BY AppendProperties
<1>3. f \in Decoders /\ f = Decode(e, b)
  OBVIOUS
<1> HIDE DEF n, v, f
<1> DEFINE t == [k \in 0 .. n + 1 |-> IF k = n + 1 THEN f ELSE m[k]]
<1>4. t \in [0 .. n + 1 -> Decoders]
  <2>1. \A k \in 0 .. n + 1 : k # n + 1 => k \in 0 .. n
    BY <1>2
  <2> QED
    BY <2>1, <1>3, <1>1
<1>5. t[0] = d /\ t[n + 1] = f
  BY <1>1, <1>2
<1>6. \A k \in 0 .. n : t[k] = m[k]
  BY <1>2
<1>7. \A k \in 1 .. n + 1 : t[k] = Decode(t[k - 1], v[k]) /\ AsWanted(t[k - 1], v[k])
  <2> SUFFICES ASSUME NEW k \in 1 .. n + 1
               PROVE  t[k] = Decode(t[k - 1], v[k]) /\ AsWanted(t[k - 1], v[k])
    OBVIOUS
  <2>1. k - 1 \in 0 .. n
    BY <1>2
  <2> HIDE DEF t
  <2>2. t[k - 1] = m[k - 1]
    BY <2>1, <1>6
  <2>3. CASE k = n + 1
    <3>1. k - 1 = n
      BY <2>3, <1>2
    <3>2. t[k - 1] = e /\ v[k] = b /\ t[k] = f
      BY <2>2, <3>1, <1>1, <1>2, <1>5, <2>3
    <3> QED
      BY <3>2, <1>3
  <2>4. CASE k # n + 1
    <3>1. k \in 1 .. n /\ k \in 0 .. n
      BY <2>4, <1>2
    <3>2. t[k] = m[k] /\ v[k] = w[k]
      BY <3>1, <1>6, <1>2
    <3> QED
      BY <3>1, <3>2, <2>2, <1>1
  <2> QED
    BY <2>3, <2>4
<1> HIDE DEF t
<1>8. t \in [0 .. Len(v) -> Decoders] /\ t[Len(v)] = f
  BY <1>2, <1>4, <1>5
<1>9. \A k \in 1 .. Len(v) : t[k] = Decode(t[k - 1], v[k]) /\ AsWanted(t[k - 1], v[k])
  BY <1>2, <1>7
<1>10. Reaches(d, v, f)
  BY <1>5, <1>8, <1>9 DEF Reaches
<1> QED
  BY <1>10 DEF v, f

LEMMA ReachesTail ==
  ASSUME NEW d \in Decoders, NEW w \in Seq(Bytes), NEW e \in Decoders, w # << >>, Reaches(d, w, e)
  PROVE  /\ AsWanted(d, Head(w)) /\ Decode(d, Head(w)) \in Decoders
         /\ Reaches(Decode(d, Head(w)), Tail(w), e)
<1> DEFINE n == Len(w)
           v == Tail(w)
<1>1. PICK m \in [0 .. n -> Decoders] :
        /\ m[0] = d /\ m[n] = e
        /\ \A k \in 1 .. n : m[k] = Decode(m[k - 1], w[k]) /\ AsWanted(m[k - 1], w[k])
  BY DEF Reaches
<1>2. n \in Nat /\ n >= 1 /\ Len(v) = n - 1 /\ Head(w) = w[1]
  BY HeadTailProperties, LenProperties, EmptySeq
<1>3. \A k \in 1 .. n - 1 : v[k] = w[k + 1]
  BY <1>2, HeadTailProperties
<1> HIDE DEF n, v
<1> DEFINE t == [k \in 0 .. n - 1 |-> m[k + 1]]
<1>4. t \in [0 .. n - 1 -> Decoders]
  <2>1. \A k \in 0 .. n - 1 : k + 1 \in 0 .. n
    BY <1>2
  <2> QED
    BY <2>1, <1>1
<1>5. \A k \in 0 .. n - 1 : t[k] = m[k + 1]
  OBVIOUS
<1> HIDE DEF t
<1>6. 1 \in 1 .. n /\ 0 \in 0 .. n - 1 /\ n - 1 \in 0 .. n - 1 /\ 0 + 1 = 1 /\ 1 - 1 = 0 /\ n - 1 + 1 = n
  BY <1>2
<1>7. m[1] = Decode(d, w[1]) /\ AsWanted(d, w[1])
  BY <1>1, <1>6
<1>8. m[1] \in Decoders
  BY <1>1, <1>6, <1>4, <1>5
<1>9. t[0] = m[1]
  BY <1>5, <1>6
<1>10. t[n - 1] = e
  BY <1>5, <1>6, <1>1
<1>11. \A k \in 1 .. n - 1 : t[k] = Decode(t[k - 1], v[k]) /\ AsWanted(t[k - 1], v[k])
  <2> SUFFICES ASSUME NEW k \in 1 .. n - 1
               PROVE  t[k] = Decode(t[k - 1], v[k]) /\ AsWanted(t[k - 1], v[k])
    OBVIOUS
  <2>1. /\ k + 1 \in 1 .. n /\ k + 1 - 1 = k /\ k - 1 + 1 = k
        /\ k \in 0 .. n - 1 /\ k - 1 \in 0 .. n - 1
    BY <1>2
  <2>2. t[k] = m[k + 1] /\ t[k - 1] = m[k] /\ v[k] = w[k + 1]
    BY <2>1, <1>5, <1>3
  <2> QED
    BY <2>1, <2>2, <1>1
<1>12. t \in [0 .. Len(v) -> Decoders] /\ t[Len(v)] = e
  BY <1>2, <1>4, <1>10
<1>13. \A k \in 1 .. Len(v) : t[k] = Decode(t[k - 1], v[k]) /\ AsWanted(t[k - 1], v[k])
  BY <1>2, <1>11
<1>14. Reaches(m[1], v, e)
  BY <1>9, <1>12, <1>13 DEF Reaches
<1> QED
  BY <1>14, <1>7, <1>8, <1>2 DEF v

(* What a byte does to a decoder. *)
LEMMA Decoded ==
  ASSUME NEW d \in Decoders, NEW b \in Bytes
  PROVE  Decode(d, b) \in Decoders
<1>1. b.id \in 0 .. MaxKeys /\ b.up \in BOOLEAN
  BY DEF Bytes
<1>2. d.shift \in BOOLEAN /\ d.altgr \in BOOLEAN /\ d.gui \in BOOLEAN /\ d.lctrl \in BOOLEAN
      /\ d.last \in 0 .. MaxKeys
  BY DEF Decoders
<1>3. (IF SymbolFrom(d, b) = "none" THEN d.last ELSE b.id) \in 0 .. MaxKeys
  BY <1>1, <1>2
<1>4. (b.code = "e0") \in BOOLEAN /\ (IF b.code = "shift" THEN ~b.up ELSE d.shift) \in BOOLEAN
  BY <1>1, <1>2
<1>5. (IF b.code = "alt" /\ d.e0 THEN ~b.up ELSE d.altgr) \in BOOLEAN
  BY <1>1, <1>2
<1>6. (IF b.code = "gui" /\ d.e0 THEN ~b.up ELSE d.gui) \in BOOLEAN
  BY <1>1, <1>2
<1>7. (IF b.code = "ctrl" /\ ~d.e0 THEN ~b.up ELSE d.lctrl) \in BOOLEAN
  BY <1>1, <1>2
<1> QED
  BY <1>3, <1>4, <1>5, <1>6, <1>7 DEF Decode, Decoders

E0 == Byte("e0", FALSE, 0, "none")

LEMMA E0Byte ==
  ASSUME NEW d \in Decoders
  PROVE  /\ E0 \in Bytes /\ AsWanted(d, E0)
         /\ Decode(d, E0).e0
         /\ Decode(d, E0).shift = d.shift /\ Decode(d, E0).altgr = d.altgr
         /\ Decode(d, E0).gui = d.gui /\ Decode(d, E0).lctrl = d.lctrl
         /\ Decode(d, E0).last = d.last
<1>1. E0 \in Bytes
  <2>1. 0 \in 0 .. MaxKeys /\ "none" \in Wants /\ FALSE \in BOOLEAN /\ "e0" \in Codes
    BY KeyboardAssumption DEF Codes, Wants
  <2> QED
    BY <2>1 DEF E0, Byte, Bytes
<1>2. SymbolFrom(d, E0) = "none"
  BY DEF SymbolFrom, E0, Byte
<1> QED
  BY <1>1, <1>2 DEF AsWanted, Decode, E0, Byte

\* The byte of a modifier gives no symbol.
LEMMA ModifierByte ==
  ASSUME NEW d \in Decoders, NEW b \in Bytes, b.code \in {"shift", "alt", "gui", "ctrl"}
  PROVE  /\ AsWanted(d, b) /\ Decode(d, b) \in Decoders
         /\ ~Decode(d, b).e0 /\ Decode(d, b).last = d.last
         /\ Decode(d, b).shift <=> IF b.code = "shift" THEN ~b.up ELSE d.shift
         /\ Decode(d, b).altgr <=> IF b.code = "alt" /\ d.e0 THEN ~b.up ELSE d.altgr
         /\ Decode(d, b).gui <=> IF b.code = "gui" /\ d.e0 THEN ~b.up ELSE d.gui
         /\ Decode(d, b).lctrl <=> IF b.code = "ctrl" /\ ~d.e0 THEN ~b.up ELSE d.lctrl
<1>2. SymbolFrom(d, b) = "none"
  BY DEF SymbolFrom
<1>3. AsWanted(d, b)
  BY <1>2 DEF AsWanted
<1>4. Decode(d, b) \in Decoders
  BY Decoded
<1>5. ~Decode(d, b).e0 /\ Decode(d, b).last = d.last
  BY <1>2 DEF Decode
<1>6. /\ Decode(d, b).shift <=> IF b.code = "shift" THEN ~b.up ELSE d.shift
      /\ Decode(d, b).altgr <=> IF b.code = "alt" /\ d.e0 THEN ~b.up ELSE d.altgr
      /\ Decode(d, b).gui <=> IF b.code = "gui" /\ d.e0 THEN ~b.up ELSE d.gui
      /\ Decode(d, b).lctrl <=> IF b.code = "ctrl" /\ ~d.e0 THEN ~b.up ELSE d.lctrl
  BY DEF Decode
<1> QED
  BY <1>3, <1>4, <1>5, <1>6

\* The byte of a character changes no modifier.
LEMMA CharByte ==
  ASSUME NEW d \in Decoders, NEW b \in Bytes, b.code \in {"letter", "space", "arrow"}
  PROVE  /\ Decode(d, b) \in Decoders /\ ~Decode(d, b).e0
         /\ Decode(d, b).shift = d.shift /\ Decode(d, b).altgr = d.altgr
         /\ Decode(d, b).gui = d.gui /\ Decode(d, b).lctrl = d.lctrl
         /\ Decode(d, b).last = IF SymbolFrom(d, b) = "none" THEN d.last ELSE b.id
<1>1. Decode(d, b) \in Decoders
  BY Decoded
<1>2. ~Decode(d, b).e0
  BY DEF Decode
<1>3. /\ Decode(d, b).shift = d.shift /\ Decode(d, b).altgr = d.altgr
      /\ Decode(d, b).gui = d.gui /\ Decode(d, b).lctrl = d.lctrl
      /\ Decode(d, b).last = IF SymbolFrom(d, b) = "none" THEN d.last ELSE b.id
  BY DEF Decode
<1> QED
  BY <1>1, <1>2, <1>3


-----------------------------------------------------------------------------
(* The hands. *)

\* The decoder before the code of key k.
At(d, k) == IF k \in Extended THEN Decode(d, E0) ELSE d

LEMMA Sent ==
  ASSUME NEW c \in Decoders, NEW w \in Seq(Bytes), NEW d \in Decoders, Reaches(c, w, d),
         NEW k \in Keys, NEW b \in Bytes, AsWanted(At(d, k), b)
  PROVE  /\ w \o Prefix(k) \o <<b>> \in Seq(Bytes)
         /\ Reaches(c, w \o Prefix(k) \o <<b>>, Decode(At(d, k), b))
<1>1. E0 \in Bytes /\ AsWanted(d, E0) /\ Decode(d, E0) \in Decoders
  BY E0Byte, Decoded
<1>2. CASE k \in Extended
  <2>1. Prefix(k) = <<E0>> /\ At(d, k) = Decode(d, E0)
    BY <1>2 DEF Prefix, E0, At
  <2>2. w \o Prefix(k) = Append(w, E0) /\ Append(w, E0) \in Seq(Bytes)
    BY <2>1, <1>1, AppendIsConcat, AppendProperties
  <2>3. Append(w, E0) \o <<b>> = Append(Append(w, E0), b) /\ Append(Append(w, E0), b) \in Seq(Bytes)
    BY <2>2, AppendIsConcat, AppendProperties
  <2>4. Reaches(c, Append(w, E0), Decode(d, E0))
    BY <1>1, ReachesMore
  <2>5. Decode(Decode(d, E0), b) \in Decoders
    BY <1>1, Decoded
  <2>6. Reaches(c, Append(Append(w, E0), b), Decode(Decode(d, E0), b))
    BY <2>1, <2>2, <2>4, <2>5, <1>1, ReachesMore
  <2> QED
    BY <2>1, <2>2, <2>3, <2>6
<1>3. CASE k \notin Extended
  <2>1. Prefix(k) = << >> /\ At(d, k) = d
    BY <1>3 DEF Prefix, At
  <2>2. w \o Prefix(k) = w
    BY <2>1, ConcatEmptySeq
  <2>3. w \o <<b>> = Append(w, b) /\ Append(w, b) \in Seq(Bytes)
    BY AppendIsConcat, AppendProperties
  <2>4. Reaches(c, Append(w, b), Decode(d, b))
    BY <2>1, Decoded, ReachesMore
  <2> QED
    BY <2>1, <2>2, <2>3, <2>4
<1> QED
  BY <1>2, <1>3

LEMMA AtFields ==
  ASSUME NEW d \in Decoders, NEW k \in Keys, ~d.e0
  PROVE  /\ At(d, k) \in Decoders
         /\ At(d, k).e0 <=> k \in Extended
         /\ At(d, k).shift = d.shift /\ At(d, k).altgr = d.altgr
         /\ At(d, k).gui = d.gui /\ At(d, k).lctrl = d.lctrl /\ At(d, k).last = d.last
<1>1. CASE k \in Extended
  BY <1>1, E0Byte, Decoded DEF At
<1>2. CASE k \notin Extended
  BY <1>2 DEF At
<1> QED
  BY <1>1, <1>2

ModifierKeys == {"lshift", "rshift", "lalt", "altgr", "lgui", "lctrl", "rctrl"}

LEMMA KeyKinds ==
  ASSUME NEW k \in Keys
  PROVE  /\ k \in CharKeys <=> k \in {"letter", "space", "up"}
         /\ k \notin CharKeys => k \in ModifierKeys
BY KeyboardAssumption DEF CharKeys, ModifierKeys

LEMMA CodeOf ==
  /\ Code["lshift"] = "shift" /\ Code["rshift"] = "shift"
  /\ Code["lalt"] = "alt" /\ Code["altgr"] = "alt" /\ Code["lgui"] = "gui"
  /\ Code["lctrl"] = "ctrl" /\ Code["rctrl"] = "ctrl"
  /\ Code["letter"] = "letter" /\ Code["space"] = "space" /\ Code["up"] = "arrow"
BY DEF Code

\* A modifier key goes down or up.
LEMMA ModifierKey ==
  ASSUME NEW d \in Decoders, ~d.e0, NEW k \in Keys, k \notin CharKeys, NEW up \in BOOLEAN
  PROVE  LET b == Byte(Code[k], up, 0, "none")
             e == Decode(At(d, k), b)
         IN  /\ b \in Bytes /\ AsWanted(At(d, k), b) /\ e \in Decoders
             /\ ~e.e0 /\ e.last = d.last
             /\ e.shift <=> IF k \in Shifts THEN ~up ELSE d.shift
             /\ e.altgr <=> IF k = "altgr" THEN ~up ELSE d.altgr
             /\ e.gui <=> IF k = "lgui" THEN ~up ELSE d.gui
             /\ e.lctrl <=> IF k = "lctrl" THEN ~up ELSE d.lctrl
<1> DEFINE c == At(d, k)
           b == Byte(Code[k], up, 0, "none")
<1>1. k \in ModifierKeys
  BY KeyKinds
<1>2. /\ c \in Decoders
      /\ c.e0 <=> k \in Extended
      /\ c.shift = d.shift /\ c.altgr = d.altgr
      /\ c.gui = d.gui /\ c.lctrl = d.lctrl /\ c.last = d.last
  BY AtFields
<1>3. /\ Code[k] \in {"shift", "alt", "gui", "ctrl"}
      /\ Code[k] = "shift" <=> k \in Shifts
      /\ (Code[k] = "alt" /\ k \in Extended) <=> k = "altgr"
      /\ (Code[k] = "gui" /\ k \in Extended) <=> k = "lgui"
      /\ (Code[k] = "ctrl" /\ k \notin Extended) <=> k = "lctrl"
  <2>1. CASE k = "lshift"
    BY <2>1, CodeOf DEF Shifts, Extended
  <2>2. CASE k = "rshift"
    BY <2>2, CodeOf DEF Shifts, Extended
  <2>3. CASE k = "lalt"
    BY <2>3, CodeOf DEF Shifts, Extended
  <2>4. CASE k = "altgr"
    BY <2>4, CodeOf DEF Shifts, Extended
  <2>5. CASE k = "lgui"
    BY <2>5, CodeOf DEF Shifts, Extended
  <2>6. CASE k = "lctrl"
    BY <2>6, CodeOf DEF Shifts, Extended
  <2>7. CASE k = "rctrl"
    BY <2>7, CodeOf DEF Shifts, Extended
  <2> QED
    BY <1>1, <2>1, <2>2, <2>3, <2>4, <2>5, <2>6, <2>7 DEF ModifierKeys
<1> HIDE DEF c
<1>9. c \in Decoders /\ Code[k] \in {"shift", "alt", "gui", "ctrl"}
  BY <1>2, <1>3
<1>10. /\ (Code[k] = "alt" /\ c.e0) <=> k = "altgr"
       /\ (Code[k] = "gui" /\ c.e0) <=> k = "lgui"
       /\ (Code[k] = "ctrl" /\ ~c.e0) <=> k = "lctrl"
  BY <1>2, <1>3
<1>11. b \in Bytes /\ b.code = Code[k] /\ (b.up <=> up)
  <2>1. Code[k] \in Codes /\ 0 \in 0 .. MaxKeys /\ "none" \in Wants
    BY <1>3, KeyboardAssumption DEF Codes, Wants
  <2> QED
    BY <2>1 DEF Byte, Bytes
<1> HIDE DEF b
<1>4. /\ AsWanted(c, b) /\ Decode(c, b) \in Decoders
      /\ ~Decode(c, b).e0 /\ Decode(c, b).last = c.last
      /\ Decode(c, b).shift <=> IF b.code = "shift" THEN ~b.up ELSE c.shift
      /\ Decode(c, b).altgr <=> IF b.code = "alt" /\ c.e0 THEN ~b.up ELSE c.altgr
      /\ Decode(c, b).gui <=> IF b.code = "gui" /\ c.e0 THEN ~b.up ELSE c.gui
      /\ Decode(c, b).lctrl <=> IF b.code = "ctrl" /\ ~c.e0 THEN ~b.up ELSE c.lctrl
  <2>1. b.code \in {"shift", "alt", "gui", "ctrl"}
    BY <1>9, <1>11
  <2> QED
    BY <2>1, <1>9, <1>11, ModifierByte
<1>5. Decode(c, b).shift <=> IF k \in Shifts THEN ~up ELSE d.shift
  BY <1>2, <1>3, <1>4, <1>11
<1>6. Decode(c, b).altgr <=> IF k = "altgr" THEN ~up ELSE d.altgr
  BY <1>2, <1>10, <1>4, <1>11
<1>7. Decode(c, b).gui <=> IF k = "lgui" THEN ~up ELSE d.gui
  BY <1>2, <1>10, <1>4, <1>11
<1>8. Decode(c, b).lctrl <=> IF k = "lctrl" THEN ~up ELSE d.lctrl
  BY <1>2, <1>10, <1>4, <1>11
<1> QED
  BY <1>2, <1>4, <1>5, <1>6, <1>7, <1>8, <1>11 DEF b, c

\* A character key goes up.
LEMMA CharReleased ==
  ASSUME NEW d \in Decoders, ~d.e0, NEW k \in CharKeys
  PROVE  LET b == Byte(Code[k], TRUE, 0, "none")
             e == Decode(At(d, k), b)
         IN  /\ b \in Bytes /\ AsWanted(At(d, k), b) /\ e \in Decoders
             /\ ~e.e0 /\ e.last = d.last
             /\ e.shift = d.shift /\ e.altgr = d.altgr /\ e.gui = d.gui /\ e.lctrl = d.lctrl
<1> DEFINE c == At(d, k)
           b == Byte(Code[k], TRUE, 0, "none")
<1>1. k \in Keys /\ k \in {"letter", "space", "up"}
  BY DEF CharKeys
<1>2. /\ c \in Decoders /\ c.shift = d.shift /\ c.altgr = d.altgr
      /\ c.gui = d.gui /\ c.lctrl = d.lctrl /\ c.last = d.last
  BY <1>1, AtFields
<1>3. Code[k] \in {"letter", "space", "arrow"}
  BY <1>1, CodeOf
<1>4. 0 \in 0 .. MaxKeys /\ "none" \in Wants
  BY KeyboardAssumption DEF Wants
<1> HIDE DEF c
<1>8. b \in Bytes /\ b.code = Code[k] /\ b.up
  <2>1. Code[k] \in Codes
    BY <1>3 DEF Codes
  <2> QED
    BY <2>1, <1>4 DEF Byte, Bytes
<1> HIDE DEF b
<1>5. /\ Decode(c, b) \in Decoders /\ ~Decode(c, b).e0
      /\ Decode(c, b).shift = c.shift /\ Decode(c, b).altgr = c.altgr
      /\ Decode(c, b).gui = c.gui /\ Decode(c, b).lctrl = c.lctrl
      /\ Decode(c, b).last = IF SymbolFrom(c, b) = "none" THEN c.last ELSE b.id
  <2>1. c \in Decoders /\ b.code \in {"letter", "space", "arrow"}
    BY <1>2, <1>3, <1>8
  <2> QED
    BY <2>1, <1>8, CharByte
<1>6. SymbolFrom(c, b) = "none"
  BY <1>8 DEF SymbolFrom
<1>7. AsWanted(c, b)
  BY <1>6 DEF AsWanted
<1> QED
  BY <1>2, <1>5, <1>6, <1>7, <1>8 DEF b, c

\* A character key goes down: what it gives is what it should.
LEMMA CharPressed ==
  ASSUME NEW d \in Decoders, AsHeld(d), HandsInv, NEW k \in CharKeys, typed \in 0 .. MaxKeys, typed < MaxKeys
  PROVE  LET b == Byte(Code[k], FALSE, typed + 1, Wanted(k, held))
             e == Decode(At(d, k), b)
         IN  /\ b \in Bytes /\ AsWanted(At(d, k), b) /\ e \in Decoders
             /\ ~e.e0 /\ e.last = d.last + 1
             /\ e.shift = d.shift /\ e.altgr = d.altgr /\ e.gui = d.gui /\ e.lctrl = d.lctrl
<1> DEFINE c == At(d, k)
           want == Wanted(k, held)
           b == Byte(Code[k], FALSE, typed + 1, want)
<1>1. k \in Keys /\ k \in {"letter", "space", "up"}
  BY DEF CharKeys
<1>2. /\ ~d.e0 /\ d.last = typed
      /\ ~both => (d.shift <=> Shifted(held))
      /\ d.altgr <=> "altgr" \in held
      /\ (d.gui \/ d.lctrl) <=> held \cap {"lgui", "lctrl"} # {}
  BY DEF AsHeld
<1>3. /\ c \in Decoders /\ c.shift = d.shift /\ c.altgr = d.altgr
      /\ c.gui = d.gui /\ c.lctrl = d.lctrl /\ c.last = d.last
      /\ c.e0 <=> k \in Extended
  BY <1>1, <1>2, AtFields
<1>4. Code[k] \in {"letter", "space", "arrow"}
  BY <1>1, CodeOf
<1>5. typed + 1 \in 0 .. MaxKeys
  BY KeyboardAssumption
<1>6. want \in Wants
  <2>1. CASE k = "up"
    BY <2>1 DEF Wanted, Wants
  <2>2. CASE k = "space"
    BY <2>2 DEF Wanted, Wants
  <2>3. CASE k = "letter" /\ both
    BY <2>3 DEF Wanted, Wants
  <2>4. CASE k = "letter" /\ ~both
    BY <2>4 DEF Wanted, Wants, Letters
  <2> QED
    BY <1>1, <2>1, <2>2, <2>3, <2>4
<1> HIDE DEF c, want
<1>11. b \in Bytes /\ b.code = Code[k] /\ ~b.up /\ b.id = typed + 1 /\ b.want = want
  <2>1. Code[k] \in Codes
    BY <1>4 DEF Codes
  <2> QED
    BY <2>1, <1>5, <1>6 DEF Byte, Bytes
<1> HIDE DEF b
<1>7. /\ Decode(c, b) \in Decoders /\ ~Decode(c, b).e0
      /\ Decode(c, b).shift = c.shift /\ Decode(c, b).altgr = c.altgr
      /\ Decode(c, b).gui = c.gui /\ Decode(c, b).lctrl = c.lctrl
      /\ Decode(c, b).last = IF SymbolFrom(c, b) = "none" THEN c.last ELSE b.id
  <2>1. c \in Decoders /\ b.code \in {"letter", "space", "arrow"}
    BY <1>3, <1>4, <1>11
  <2> QED
    BY <2>1, <1>11, CharByte
<1>8. SymbolFrom(c, b) # "none" /\ Matches(SymbolFrom(c, b), want)
  <2>1. CASE k = "up"
    <3>1. b.code = "arrow" /\ ~b.up /\ c.e0
      BY <2>1, <1>3, <1>11, CodeOf DEF Extended
    <3>2. SymbolFrom(c, b) = "KEY_UP"
      BY <3>1 DEF SymbolFrom
    <3>3. want = "KEY_UP"
      BY <2>1 DEF want, Wanted
    <3> QED
      BY <3>2, <3>3 DEF Matches
  <2>2. CASE k = "space"
    <3>1. b.code = "space" /\ ~b.up
      BY <2>2, <1>11, CodeOf
    <3>2. SymbolFrom(c, b) = IF c.gui \/ c.lctrl THEN "KEY_SPOTLIGHT" ELSE "space"
      BY <3>1 DEF SymbolFrom
    <3>3. want = IF held \cap {"lgui", "lctrl"} # {} THEN "KEY_SPOTLIGHT" ELSE "space"
      BY <2>2 DEF want, Wanted
    <3>4. SymbolFrom(c, b) = want
      BY <3>2, <3>3, <1>2, <1>3
    <3> QED
      BY <3>2, <3>4 DEF Matches
  <2>3. CASE k = "letter"
    <3>1. b.code = "letter" /\ ~b.up
      BY <2>3, <1>11, CodeOf
    <3>2. SymbolFrom(c, b) = IF c.altgr THEN IF c.shift THEN "accented capital" ELSE "accented"
                                        ELSE IF c.shift THEN "capital" ELSE "small"
      BY <3>1 DEF SymbolFrom
    <3>3. SymbolFrom(c, b) \in Letters /\ SymbolFrom(c, b) # "none"
      BY <3>2 DEF Letters
    <3>4. CASE both
      <4>1. want = "a letter"
        BY <2>3, <3>4 DEF want, Wanted
      <4> QED
        BY <3>3, <4>1 DEF Matches
    <3>5. CASE ~both
      <4>1. want = IF "altgr" \in held
                   THEN IF Shifted(held) THEN "accented capital" ELSE "accented"
                   ELSE IF Shifted(held) THEN "capital" ELSE "small"
        BY <2>3, <3>5 DEF want, Wanted
      <4>2. (c.altgr <=> "altgr" \in held) /\ (c.shift <=> Shifted(held))
        BY <1>2, <1>3, <3>5
      <4>3. SymbolFrom(c, b) = want
        BY <3>2, <4>1, <4>2
      <4> QED
        BY <3>3, <4>3 DEF Matches
    <3> QED
      BY <3>4, <3>5
  <2> QED
    BY <1>1, <2>1, <2>2, <2>3
<1>9. AsWanted(c, b)
  BY <1>2, <1>3, <1>11, <1>8 DEF AsWanted
<1>10. Decode(c, b).last = d.last + 1
  BY <1>2, <1>7, <1>8, <1>11, <1>3
<1> QED
  BY <1>3, <1>7, <1>11, <1>9, <1>10 DEF b, c, want

LEMMA AfterModifier ==
  ASSUME NEW d \in Decoders, AsHeld(d), HandsInv, NEW k \in Keys, k \notin CharKeys,
         NEW up \in BOOLEAN, NEW e \in Decoders, ~e.e0, e.last = d.last,
         e.shift <=> IF k \in Shifts THEN ~up ELSE d.shift,
         e.altgr <=> IF k = "altgr" THEN ~up ELSE d.altgr,
         e.gui <=> IF k = "lgui" THEN ~up ELSE d.gui,
         e.lctrl <=> IF k = "lctrl" THEN ~up ELSE d.lctrl,
         typed' = typed,
         up => k \in held /\ held' = held \ {k} /\ both' = (both /\ Shifted(held')),
         ~up => held' = held \cup {k} /\ both' = (both \/ Shifts \subseteq held')
  PROVE  HandsInv' /\ AsHeld(e)'
<1>1. \A x : x \in held' <=> IF x = k THEN ~up ELSE x \in held
  <2>1. CASE up
    BY <2>1
  <2>2. CASE ~up
    BY <2>2
  <2> QED
    BY <2>1, <2>2
<1>2. (Shifted(held) <=> "lshift" \in held \/ "rshift" \in held)
      /\ (Shifted(held') <=> "lshift" \in held' \/ "rshift" \in held')
  BY DEF Shifted, Shifts
<1>3. (Shifts \subseteq held <=> "lshift" \in held /\ "rshift" \in held)
      /\ (Shifts \subseteq held' <=> "lshift" \in held' /\ "rshift" \in held')
  BY DEF Shifts
<1>4. k \in Shifts <=> k = "lshift" \/ k = "rshift"
  BY DEF Shifts
<1>5. both' <=> IF up THEN both /\ Shifted(held') ELSE both \/ Shifts \subseteq held'
  <2>1. CASE up
    BY <2>1
  <2>2. CASE ~up
    BY <2>2
  <2> QED
    BY <2>1, <2>2
<1>6. HandsInv'
  BY <1>1, <1>2, <1>3, <1>5 DEF HandsInv
<1>7. /\ ~d.e0 /\ d.last = typed
      /\ d.shift => Shifted(held)
      /\ ~both => (d.shift <=> Shifted(held))
      /\ d.altgr <=> "altgr" \in held
      /\ d.lctrl <=> "lctrl" \in held
      /\ d.gui <=> "lgui" \in held
  BY DEF AsHeld
<1>8. e.altgr <=> "altgr" \in held'
  BY <1>1, <1>7
<1>9. e.lctrl <=> "lctrl" \in held'
  BY <1>1, <1>7
<1>10. e.gui <=> "lgui" \in held'
  BY <1>1, <1>7
<1>11. (both => Shifted(held)) /\ (~both => ~(Shifts \subseteq held))
  BY DEF HandsInv
<1>12. (e.shift => Shifted(held')) /\ (~both' => (e.shift <=> Shifted(held')))
  <2>1. CASE k \in Shifts /\ ~up
    BY <2>1, <1>1, <1>2, <1>4, <1>5
  <2>2. CASE k \in Shifts /\ up
    <3>1. ~e.shift
      BY <2>2
    <3>2. ASSUME ~both', Shifted(held') PROVE FALSE
      <4>1. ~both
        BY <3>2, <1>5, <2>2
      <4>2. k \in held
        BY <2>2
      <4>3. "lshift" \in held /\ "rshift" \in held
        BY <3>2, <4>2, <2>2, <1>1, <1>2, <1>4
      <4> QED
        BY <4>1, <4>3, <1>3, <1>11
    <3> QED
      BY <3>1, <3>2
  <2>3. CASE k \notin Shifts
    <3>1. (Shifted(held') <=> Shifted(held)) /\ (Shifts \subseteq held' <=> Shifts \subseteq held)
      BY <2>3, <1>1, <1>2, <1>3, <1>4
    <3>2. e.shift <=> d.shift
      BY <2>3
    <3>3. ~both' => ~both
      BY <3>1, <1>5, <1>11
    <3> QED
      BY <3>1, <3>2, <3>3, <1>7
  <2> QED
    BY <2>1, <2>2, <2>3
<1>13. AsHeld(e)'
  BY <1>7, <1>8, <1>9, <1>10, <1>12 DEF AsHeld
<1> QED
  BY <1>6, <1>13

LEMMA AfterChar ==
  ASSUME NEW d \in Decoders, AsHeld(d), HandsInv, NEW k \in CharKeys,
         NEW e \in Decoders, ~e.e0, e.last = typed',
         e.shift = d.shift, e.altgr = d.altgr, e.gui = d.gui, e.lctrl = d.lctrl,
         held' = held \/ held' = held \ {k}, both' <=> both
  PROVE  HandsInv' /\ AsHeld(e)'
<1>1. k \in {"letter", "space", "up"}
  BY DEF CharKeys
<1>2. \A x : x \notin {"letter", "space", "up"} => (x \in held' <=> x \in held)
  BY <1>1
<1>3. (Shifted(held) <=> "lshift" \in held \/ "rshift" \in held)
      /\ (Shifted(held') <=> "lshift" \in held' \/ "rshift" \in held')
  BY DEF Shifted, Shifts
<1>4. (Shifts \subseteq held <=> "lshift" \in held /\ "rshift" \in held)
      /\ (Shifts \subseteq held' <=> "lshift" \in held' /\ "rshift" \in held')
  BY DEF Shifts
<1>5. /\ "lshift" \in held' <=> "lshift" \in held
      /\ "rshift" \in held' <=> "rshift" \in held
      /\ "altgr" \in held' <=> "altgr" \in held
      /\ "lctrl" \in held' <=> "lctrl" \in held
      /\ "lgui" \in held' <=> "lgui" \in held
  BY <1>2
<1>6. (Shifted(held') <=> Shifted(held)) /\ (Shifts \subseteq held' <=> Shifts \subseteq held)
  BY <1>3, <1>4, <1>5
<1>7. HandsInv'
  BY <1>6 DEF HandsInv
<1>8. /\ ~d.e0 /\ d.last = typed
      /\ d.shift => Shifted(held)
      /\ ~both => (d.shift <=> Shifted(held))
      /\ d.altgr <=> "altgr" \in held
      /\ d.lctrl <=> "lctrl" \in held
      /\ d.gui <=> "lgui" \in held
  BY DEF AsHeld
<1>9. AsHeld(e)'
  BY <1>5, <1>6, <1>8 DEF AsHeld
<1> QED
  BY <1>7, <1>9

(* A key pressed or released. *)
LEMMA PressSends ==
  ASSUME DecodeInv, NEW k \in Keys, Press(k)
  PROVE  HandsInv' /\ WireInv' /\ typed' \in 0 .. MaxKeys /\ held' \subseteq Keys /\ both' \in BOOLEAN
<1>1. /\ wire \in Seq(Bytes) /\ HandsInv /\ typed \in 0 .. MaxKeys
      /\ held \subseteq Keys /\ both \in BOOLEAN /\ Now \in Decoders
  BY DEF DecodeInv, WireInv, TypeOK, Now, Decoders
<1>2. PICK d \in Decoders : AsHeld(d) /\ Reaches(Now, wire, d)
  BY DEF DecodeInv, WireInv
<1>3. Now' = Now
  BY DEF Press, Now, mods
<1>4. ~d.e0
  BY <1>2 DEF AsHeld
<1>5. held' \subseteq Keys /\ both' \in BOOLEAN
  BY <1>1 DEF Press
<1>6. CASE k \in CharKeys
  <2> DEFINE b == Byte(Code[k], FALSE, typed + 1, Wanted(k, held))
             f == Decode(At(d, k), b)
  <2>1. typed < MaxKeys /\ typed' = typed + 1
    BY <1>6 DEF Press
  <2>11. /\ b \in Bytes /\ AsWanted(At(d, k), b) /\ f \in Decoders
         /\ ~f.e0 /\ f.last = d.last + 1
         /\ f.shift = d.shift /\ f.altgr = d.altgr /\ f.gui = d.gui /\ f.lctrl = d.lctrl
    BY <1>1, <1>2, <1>6, <2>1, CharPressed
  <2>2. PICK e \in Decoders :
         /\ e = f /\ ~e.e0 /\ e.last = d.last + 1
         /\ e.shift = d.shift /\ e.altgr = d.altgr /\ e.gui = d.gui /\ e.lctrl = d.lctrl
    BY <2>11
  <2>3. wire' = wire \o Prefix(k) \o <<b>>
    BY <1>6 DEF Press
  <2> HIDE DEF b
  <2>4. wire' \in Seq(Bytes) /\ Reaches(Now, wire', e)
    <3>1. wire' \in Seq(Bytes) /\ Reaches(Now, wire', f)
      BY <1>1, <1>2, <2>11, <2>3, Sent
    <3> QED
      BY <3>1, <2>2
  <2> HIDE DEF f
  <2>5. held' = held
    BY <1>6 DEF Press
  <2>6. both' <=> both
    <3>1. ~both => ~(Shifts \subseteq held')
      BY <1>1, <2>5 DEF HandsInv
    <3>2. both' = (both \/ Shifts \subseteq held')
      BY DEF Press
    <3> QED
      BY <3>1, <3>2
  <2>7. e.last = typed'
    BY <2>1, <2>2, <1>2 DEF AsHeld
  <2>8. HandsInv' /\ AsHeld(e)'
    BY <1>1, <1>2, <1>6, <2>2, <2>5, <2>6, <2>7, AfterChar
  <2>9. Reaches(Now', wire', e)
    BY <2>4, <1>3
  <2>10. WireInv'
    BY <2>2, <2>4, <2>8, <2>9 DEF WireInv
  <2> QED
    BY <1>1, <1>5, <2>1, <2>8, <2>10, KeyboardAssumption
<1>7. CASE k \notin CharKeys
  <2> DEFINE b == Byte(Code[k], FALSE, 0, "none")
             e == Decode(At(d, k), b)
  <2>1. typed' = typed /\ held' = held \cup {k} /\ both' = (both \/ Shifts \subseteq held')
    BY <1>7 DEF Press
  <2>2. /\ b \in Bytes /\ AsWanted(At(d, k), b) /\ e \in Decoders
        /\ ~e.e0 /\ e.last = d.last
        /\ e.shift <=> IF k \in Shifts THEN ~FALSE ELSE d.shift
        /\ e.altgr <=> IF k = "altgr" THEN ~FALSE ELSE d.altgr
        /\ e.gui <=> IF k = "lgui" THEN ~FALSE ELSE d.gui
        /\ e.lctrl <=> IF k = "lctrl" THEN ~FALSE ELSE d.lctrl
    BY <1>4, <1>7, ModifierKey
  <2>3. wire' = wire \o Prefix(k) \o <<b>>
    BY <1>7 DEF Press
  <2> HIDE DEF b
  <2>4. wire' \in Seq(Bytes) /\ Reaches(Now, wire', e)
    BY <1>1, <1>2, <2>2, <2>3, Sent
  <2> HIDE DEF e
  <2>8. HandsInv' /\ AsHeld(e)'
    BY <1>1, <1>2, <1>7, <2>1, <2>2, AfterModifier
  <2>9. Reaches(Now', wire', e)
    BY <2>4, <1>3
  <2>10. WireInv'
    BY <2>2, <2>4, <2>8, <2>9 DEF WireInv
  <2> QED
    BY <1>1, <1>5, <2>1, <2>8, <2>10
<1> QED
  BY <1>6, <1>7

LEMMA ReleaseSends ==
  ASSUME DecodeInv, NEW k \in Keys, Release(k)
  PROVE  HandsInv' /\ WireInv' /\ typed' \in 0 .. MaxKeys /\ held' \subseteq Keys /\ both' \in BOOLEAN
<1>1. /\ wire \in Seq(Bytes) /\ HandsInv /\ typed \in 0 .. MaxKeys
      /\ held \subseteq Keys /\ both \in BOOLEAN /\ Now \in Decoders
  BY DEF DecodeInv, WireInv, TypeOK, Now, Decoders
<1>2. PICK d \in Decoders : AsHeld(d) /\ Reaches(Now, wire, d)
  BY DEF DecodeInv, WireInv
<1>3. Now' = Now
  BY DEF Release, Now, mods
<1>4. ~d.e0
  BY <1>2 DEF AsHeld
<1>5. held' \subseteq Keys /\ both' \in BOOLEAN
  BY <1>1 DEF Release
<1>6. /\ typed' = typed /\ held' = held \ {k} /\ both' = (both /\ Shifted(held'))
      /\ k \in held \/ k \in CharKeys
  BY DEF Release
<1> DEFINE b == Byte(Code[k], TRUE, 0, "none")
           e == Decode(At(d, k), b)
<1>7. wire' = wire \o Prefix(k) \o <<b>>
  BY DEF Release
<1>8. CASE k \in CharKeys
  <2>1. /\ b \in Bytes /\ AsWanted(At(d, k), b) /\ e \in Decoders
        /\ ~e.e0 /\ e.last = d.last
        /\ e.shift = d.shift /\ e.altgr = d.altgr /\ e.gui = d.gui /\ e.lctrl = d.lctrl
    BY <1>4, <1>8, CharReleased
  <2> HIDE DEF b
  <2>2. wire' \in Seq(Bytes) /\ Reaches(Now, wire', e)
    BY <1>1, <1>2, <2>1, <1>7, Sent
  <2> HIDE DEF e
  <2>3. both' <=> both
    <3>1. k \in {"letter", "space", "up"}
      BY <1>8 DEF CharKeys
    <3>2. Shifted(held) => Shifted(held')
      BY <3>1, <1>6 DEF Shifted, Shifts
    <3> QED
      BY <3>2, <1>6, <1>1 DEF HandsInv
  <2>4. e.last = typed'
    BY <1>6, <2>1, <1>2 DEF AsHeld
  <2>5. HandsInv' /\ AsHeld(e)'
    BY <1>1, <1>2, <1>8, <1>6, <2>1, <2>3, <2>4, AfterChar
  <2>6. Reaches(Now', wire', e)
    BY <2>2, <1>3
  <2>7. WireInv'
    BY <2>1, <2>2, <2>5, <2>6 DEF WireInv
  <2> QED
    BY <1>1, <1>5, <1>6, <2>5, <2>7
<1>9. CASE k \notin CharKeys
  <2>1. /\ b \in Bytes /\ AsWanted(At(d, k), b) /\ e \in Decoders
        /\ ~e.e0 /\ e.last = d.last
        /\ e.shift <=> IF k \in Shifts THEN ~TRUE ELSE d.shift
        /\ e.altgr <=> IF k = "altgr" THEN ~TRUE ELSE d.altgr
        /\ e.gui <=> IF k = "lgui" THEN ~TRUE ELSE d.gui
        /\ e.lctrl <=> IF k = "lctrl" THEN ~TRUE ELSE d.lctrl
    BY <1>4, <1>9, ModifierKey
  <2> HIDE DEF b
  <2>2. wire' \in Seq(Bytes) /\ Reaches(Now, wire', e)
    BY <1>1, <1>2, <2>1, <1>7, Sent
  <2> HIDE DEF e
  <2>3. k \in held
    BY <1>6, <1>9
  <2>5. HandsInv' /\ AsHeld(e)'
    BY <1>1, <1>2, <1>9, <1>6, <2>1, <2>3, AfterModifier
  <2>6. Reaches(Now', wire', e)
    BY <2>2, <1>3
  <2>7. WireInv'
    BY <2>1, <2>2, <2>5, <2>6 DEF WireInv
  <2> QED
    BY <1>1, <1>5, <1>6, <2>5, <2>7
<1> QED
  BY <1>8, <1>9

(* The interrupt handler takes the first byte.                              *)
LEMMA IrqDecodes ==
  ASSUME DecodeInv, Irq
  PROVE  /\ HandsInv' /\ WireInv' /\ typed' \in 0 .. MaxKeys /\ held' \subseteq Keys /\ both' \in BOOLEAN
         /\ \A f \in {shift', altgr', gui', lctrl', e0'} : f \in BOOLEAN
         /\ \/ UNCHANGED <<ring, pushed, overflow>>
            \/ /\ Push([id |-> pushed + 1, right |-> TRUE])
               /\ pushed' = pushed + 1 /\ pushed' \in 0 .. MaxKeys
<1> DEFINE b == Head(wire)
<1>1. /\ wire \in Seq(Bytes) /\ HandsInv /\ typed \in 0 .. MaxKeys
      /\ held \subseteq Keys /\ both \in BOOLEAN /\ Now \in Decoders /\ wire # << >>
  BY DEF DecodeInv, WireInv, TypeOK, Now, Decoders, Irq
<1>2. PICK d \in Decoders : AsHeld(d) /\ Reaches(Now, wire, d)
  BY DEF DecodeInv, WireInv
<1>3. b \in Bytes /\ Tail(wire) \in Seq(Bytes)
  BY <1>1, HeadTailProperties
<1>4. AsWanted(Now, b) /\ Decode(Now, b) \in Decoders /\ Reaches(Decode(Now, b), Tail(wire), d)
  BY <1>1, <1>2, ReachesTail
<1>5. Symbol(b) = SymbolFrom(Now, b)
  BY DEF Symbol, SymbolFrom, Now
<1>6. /\ Modifiers(b)
      /\ IF Symbol(b) = "none"
           THEN UNCHANGED <<ring, pushed, overflow>>
           ELSE /\ Push([id |-> b.id, right |-> Matches(Symbol(b), b.want)])
                /\ pushed' = b.id
      /\ wire' = Tail(wire) /\ UNCHANGED <<held, both, typed>>
  BY DEF Irq
<1> HIDE DEF b
<1>7. pushed' = IF SymbolFrom(Now, b) = "none" THEN pushed ELSE b.id
  BY <1>5, <1>6
<1>8. Now' = Decode(Now, b)
  BY <1>6, <1>7 DEF Modifiers, Decode, Now
<1>9. AsHeld(d)'
  BY <1>2, <1>6 DEF AsHeld
<1>10. WireInv'
  <2>1. wire' \in Seq(Bytes)
    BY <1>3, <1>6
  <2>2. Reaches(Now', wire', d)
    BY <1>4, <1>6, <1>8
  <2> QED
    BY <2>1, <2>2, <1>9 DEF WireInv
<1>11. HandsInv'
  BY <1>1, <1>6 DEF HandsInv
<1>12. Now' \in Decoders
  BY <1>4, <1>8
<1>13. /\ shift' \in BOOLEAN /\ altgr' \in BOOLEAN /\ gui' \in BOOLEAN
       /\ lctrl' \in BOOLEAN /\ e0' \in BOOLEAN
  <2>1. b.up \in BOOLEAN /\ \A f \in {shift, altgr, gui, lctrl} : f \in BOOLEAN
    BY <1>3 DEF Bytes, DecodeInv, TypeOK
  <2> QED
    BY <2>1, <1>6 DEF Modifiers
<1>14. \/ UNCHANGED <<ring, pushed, overflow>>
       \/ /\ Push([id |-> pushed + 1, right |-> TRUE])
          /\ pushed' = pushed + 1 /\ pushed' \in 0 .. MaxKeys
  <2>1. CASE Symbol(b) = "none"
    BY <2>1, <1>6
  <2>2. CASE Symbol(b) # "none"
    <3>1. b.id = pushed + 1 /\ Matches(Symbol(b), b.want)
      BY <2>2, <1>4, <1>5 DEF AsWanted, Now
    <3>2. b.id \in 0 .. MaxKeys
      BY <1>3 DEF Bytes
    <3>3. Matches(Symbol(b), b.want) \in BOOLEAN
      BY DEF Matches
    <3>4. [id |-> b.id, right |-> Matches(Symbol(b), b.want)] = [id |-> pushed + 1, right |-> TRUE]
      BY <3>1, <3>3
    <3>5. Push([id |-> b.id, right |-> Matches(Symbol(b), b.want)])
      BY <2>2, <1>6
    <3>6. Push([id |-> pushed + 1, right |-> TRUE])
      BY <3>4, <3>5
    <3> QED
      BY <2>2, <1>6, <3>1, <3>2, <3>6
  <2> QED
    BY <2>1, <2>2
<1> QED
  BY <1>1, <1>6, <1>10, <1>11, <1>13, <1>14

-----------------------------------------------------------------------------
(* Arithmetic on the ring. *)
Places == 0 .. Size - 1

LEMMA RingMod ==
  ASSUME NEW a \in Int, -Size < a, a < 2 * Size
  PROVE  a % Size = IF a < 0 THEN a + Size ELSE IF a < Size THEN a ELSE a - Size
<1>1. Size \in Nat /\ Size > 1
  BY KeyboardAssumption
<1>2. CASE a < 0
  BY <1>1, <1>2
<1>3. CASE 0 <= a /\ a < Size
  BY <1>1, <1>3
<1>4. CASE Size <= a
  BY <1>1, <1>4
<1> QED
  BY <1>1, <1>2, <1>3, <1>4

LEMMA AfterIs ==
  ASSUME NEW k \in Places
  PROVE  After(k) = IF k + 1 = Size THEN 0 ELSE k + 1
<1>1. k + 1 \in Int /\ -Size < k + 1 /\ k + 1 < 2 * Size
  BY KeyboardAssumption DEF Places
<1> QED
  BY <1>1, RingMod, KeyboardAssumption DEF After, Places

LEMMA GapIs ==
  ASSUME NEW h \in Places, NEW t \in Places
  PROVE  Gap(h, t) = IF t <= h THEN h - t ELSE h - t + Size
<1>1. h - t \in Int /\ -Size < h - t /\ h - t < 2 * Size
  BY KeyboardAssumption DEF Places
<1> QED
  BY <1>1, RingMod, KeyboardAssumption DEF Gap, Places

LEMMA SlotIs ==
  ASSUME NEW t \in Places, NEW k \in Places
  PROVE  Slot(t, k) = IF t + k < Size THEN t + k ELSE t + k - Size
<1>1. t + k \in Int /\ -Size < t + k /\ t + k < 2 * Size
  BY KeyboardAssumption DEF Places
<1> QED
  BY <1>1, RingMod, KeyboardAssumption DEF Slot, Places

(* h is the slot after the last that waits; moving h, or t, by one. *)
LEMMA Around ==
  ASSUME NEW h \in Places, NEW t \in Places
  PROVE  /\ After(h) \in Places /\ Gap(h, t) \in Places
         /\ After(h) = t <=> Gap(h, t) = Size - 1
         /\ After(h) # t => Gap(After(h), t) = Gap(h, t) + 1
         /\ h # t => Gap(h, After(t)) = Gap(h, t) - 1
         /\ After(h) = t => Gap(After(h), After(t)) = Size - 1
         /\ Gap(h, t) = 0 <=> h = t
         /\ Slot(t, Gap(h, t)) = h /\ Slot(t, 0) = t
         /\ \A k \in Places : Slot(t, k) \in Places
         /\ \A k \in Places : Slot(t, k) = h <=> k = Gap(h, t)
         /\ \A k \in Places : k + 1 \in Places => Slot(After(t), k) = Slot(t, k + 1)
         /\ \A k \in Places : After(k) # k
<1>1. Size \in Nat /\ Size > 1
  BY KeyboardAssumption
<1>2. /\ After(h) = IF h + 1 = Size THEN 0 ELSE h + 1
      /\ After(t) = IF t + 1 = Size THEN 0 ELSE t + 1
      /\ Gap(h, t) = IF t <= h THEN h - t ELSE h - t + Size
  BY AfterIs, GapIs
<1>3. After(h) \in Places /\ After(t) \in Places /\ Gap(h, t) \in Places
  BY <1>1, <1>2 DEF Places
<1>4. /\ Gap(After(h), t) = IF t <= After(h) THEN After(h) - t ELSE After(h) - t + Size
      /\ Gap(h, After(t)) = IF After(t) <= h THEN h - After(t) ELSE h - After(t) + Size
      /\ Gap(After(h), After(t)) = IF After(t) <= After(h) THEN After(h) - After(t)
                                   ELSE After(h) - After(t) + Size
  BY <1>3, GapIs
<1>5. 0 \in Places
  BY <1>1 DEF Places
<1>6. /\ After(h) = t <=> Gap(h, t) = Size - 1
      /\ Gap(h, t) = 0 <=> h = t
  BY <1>1, <1>2 DEF Places
<1>7. After(h) # t => Gap(After(h), t) = Gap(h, t) + 1
  BY <1>1, <1>2, <1>4 DEF Places
<1>8. h # t => Gap(h, After(t)) = Gap(h, t) - 1
  BY <1>1, <1>2, <1>4 DEF Places
<1>9. After(h) = t => Gap(After(h), After(t)) = Size - 1
  BY <1>1, <1>2, <1>4 DEF Places
<1>10. \A k \in Places : Slot(t, k) = IF t + k < Size THEN t + k ELSE t + k - Size
  BY SlotIs
<1>11. Slot(t, 0) = t
  BY <1>1, <1>5, <1>10 DEF Places
<1>12. \A k \in Places : Slot(t, k) \in Places
  BY <1>1, <1>10 DEF Places
<1>13. \A k \in Places : Slot(t, k) = h <=> k = Gap(h, t)
  BY <1>1, <1>2, <1>10 DEF Places
<1>14. Slot(t, Gap(h, t)) = h
  BY <1>3, <1>13
<1>15. \A k \in Places : k + 1 \in Places => Slot(After(t), k) = Slot(t, k + 1)
  <2>1. \A k \in Places : Slot(After(t), k) = IF After(t) + k < Size THEN After(t) + k ELSE After(t) + k - Size
    BY <1>3, SlotIs
  <2> QED
    BY <2>1, <1>1, <1>2, <1>10 DEF Places
<1>16. \A k \in Places : After(k) # k
  BY <1>1, AfterIs DEF Places
<1> QED
  BY <1>3, <1>6, <1>7, <1>8, <1>9, <1>11, <1>12, <1>13, <1>14, <1>15, <1>16

LEMMA HeadSlot ==
  ASSUME NEW h \in Places, NEW t \in Places, NEW k \in Places
  PROVE  Slot(t, k) = h <=> k = Gap(h, t)
BY Around

RingOK ==
  /\ buf \in [Places -> Entry] /\ head \in Places /\ tail \in Places

(* What kbd_push does to a ring with a free slot, and to a full one. *)
LEMMA PushWaits ==
  ASSUME RingOK, NEW x \in Entry, Push(x)
  PROVE  /\ RingOK' /\ Waiting \in Places /\ Waiting' \in Places
         /\ \/ /\ Waiting < Size - 1 /\ Waiting' = Waiting + 1 /\ tail' = tail /\ (overflow' <=> overflow)
               /\ buf'[Slot(tail', Waiting)] = x
               /\ \A k \in 0 .. Waiting - 1 : buf'[Slot(tail', k)] = buf[Slot(tail, k)]
            \/ /\ Waiting = Size - 1 /\ Waiting' = Waiting /\ tail' = After(tail) /\ overflow'
               /\ buf'[Slot(tail', Waiting - 1)] = x
               /\ \A k \in 0 .. Waiting - 2 : buf'[Slot(tail', k)] = buf[Slot(tail, k + 1)]
<1> DEFINE n == Gap(head, tail)
           m == Gap(head', tail')
<1>1. /\ buf \in [Places -> Entry] /\ head \in Places /\ tail \in Places
      /\ Size \in Nat /\ Size > 1
  BY KeyboardAssumption DEF RingOK
<1>2. /\ head' = After(head) /\ buf' = [buf EXCEPT ![head] = x]
      /\ tail' = (IF After(head) = tail THEN After(tail) ELSE tail)
      /\ overflow' = (overflow \/ After(head) = tail)
  BY DEF Push
<1>3. /\ After(head) \in Places /\ n \in Places
      /\ After(head) = tail <=> n = Size - 1
      /\ After(head) # tail => Gap(After(head), tail) = n + 1
      /\ After(head) = tail => Gap(After(head), After(tail)) = Size - 1
      /\ Slot(tail, n) = head
  BY <1>1, Around
<1>11. \A k \in Places : Slot(tail, k) \in Places /\ (Slot(tail, k) = head <=> k = n)
  <2>1. \A k \in Places : Slot(tail, k) \in Places
    BY <1>1, Around
  <2>2. ASSUME NEW k \in Places PROVE Slot(tail, k) = head <=> k = Gap(head, tail)
    BY <1>1, HeadSlot
  <2> QED
    BY <2>1, <2>2
<1>12. \A k \in Places : k + 1 \in Places => Slot(After(tail), k) = Slot(tail, k + 1)
  BY <1>1, Around
<1>4. After(tail) \in Places
  BY <1>1, Around
<1>5. RingOK'
  BY <1>1, <1>2, <1>3, <1>4 DEF RingOK
<1>6. m \in Places
  BY <1>5, Around DEF RingOK
<1>7. buf'[head] = x /\ \A p \in Places : p # head => buf'[p] = buf[p]
  BY <1>1, <1>2
<1>8. \A k \in Places : k # n => buf'[Slot(tail, k)] = buf[Slot(tail, k)]
  BY <1>11, <1>7
<1>9. CASE After(head) # tail
  <2>1. n < Size - 1 /\ m = n + 1 /\ tail' = tail
    BY <1>9, <1>1, <1>2, <1>3 DEF Places
  <2>2. overflow' <=> overflow
    BY <1>9, <1>2
  <2>3. \A k \in 0 .. n - 1 : k \in Places /\ k # n
    BY <1>1, <1>3 DEF Places
  <2>4. \A k \in 0 .. n - 1 : buf'[Slot(tail', k)] = buf[Slot(tail, k)]
    BY <2>1, <2>3, <1>8
  <2>5. buf'[Slot(tail', n)] = x
    BY <2>1, <1>3, <1>7
  <2> HIDE DEF n, m
  <2> QED
    BY <2>1, <2>2, <2>4, <2>5, <1>3, <1>5, <1>6 DEF Waiting, n, m
<1>10. CASE After(head) = tail
  <2>1. n = Size - 1 /\ m = n /\ tail' = After(tail) /\ overflow'
    BY <1>10, <1>2, <1>3
  <2>2. \A k \in 0 .. n - 2 : k \in Places /\ k + 1 \in Places /\ k + 1 # n
    BY <1>1, <1>3 DEF Places
  <2>3. \A k \in 0 .. n - 2 : buf'[Slot(tail', k)] = buf[Slot(tail, k + 1)]
    BY <2>1, <2>2, <1>12, <1>8
  <2>4. n - 1 \in Places /\ n - 1 + 1 = n
    BY <2>1, <1>1 DEF Places
  <2>5. Slot(tail', n - 1) = head
    BY <2>1, <2>4, <1>3, <1>12
  <2>6. buf'[Slot(tail', n - 1)] = x
    BY <2>5, <1>7
  <2> HIDE DEF n, m
  <2> QED
    BY <2>1, <2>3, <2>6, <1>3, <1>5, <1>6 DEF Waiting, n, m
<1> QED
  BY <1>9, <1>10

(* The reader takes the first slot. *)
LEMMA TailMoves ==
  ASSUME RingOK, head # tail, tail' = After(tail), UNCHANGED <<buf, head>>
  PROVE  /\ RingOK' /\ Waiting \in Places /\ Waiting >= 1 /\ Waiting' = Waiting - 1
         /\ \A k \in 0 .. Waiting - 2 : buf'[Slot(tail', k)] = buf[Slot(tail, k + 1)]
<1> DEFINE n == Gap(head, tail)
           m == Gap(head', tail')
<1>1. /\ buf \in [Places -> Entry] /\ head \in Places /\ tail \in Places
      /\ Size \in Nat /\ Size > 1
  BY KeyboardAssumption DEF RingOK
<1>2. /\ n \in Places /\ After(tail) \in Places
      /\ head # tail => Gap(head, After(tail)) = n - 1
      /\ n = 0 <=> head = tail
  BY <1>1, Around
<1>3. \A k \in Places : k + 1 \in Places => Slot(After(tail), k) = Slot(tail, k + 1)
  BY <1>1, Around
<1>4. RingOK'
  BY <1>1, <1>2 DEF RingOK
<1>5. m = n - 1 /\ n >= 1
  BY <1>1, <1>2 DEF Places
<1>6. \A k \in 0 .. n - 2 : k \in Places /\ k + 1 \in Places
  BY <1>1, <1>2 DEF Places
<1>7. \A k \in 0 .. n - 2 : buf'[Slot(tail', k)] = buf[Slot(tail, k + 1)]
  BY <1>3, <1>6
<1> HIDE DEF n, m
<1> QED
  BY <1>2, <1>4, <1>5, <1>7 DEF Waiting, n, m

LEMMA RingTyped ==
  /\ TypeOK => RingOK /\ Waiting \in Places /\ (Waiting = 0 <=> head = tail) /\ Slot(tail, 0) = tail
  /\ RingOK' => (TypeOK /\ held' \subseteq Keys /\ both' \in BOOLEAN
                 /\ (\A f \in {shift', altgr', gui', lctrl', e0'} : f \in BOOLEAN)
                 /\ pc' \in {"idle", "load", "fetch", "reload", "store"} /\ cp' \in Entry
                 /\ seen' \in Places => TypeOK')
<1>1. ASSUME TypeOK
      PROVE  RingOK /\ Waiting \in Places /\ (Waiting = 0 <=> head = tail) /\ Slot(tail, 0) = tail
  <2>1. RingOK
    BY <1>1 DEF TypeOK, RingOK, Places
  <2>2. Gap(head, tail) \in Places /\ (Gap(head, tail) = 0 <=> head = tail) /\ Slot(tail, 0) = tail
    BY <2>1, Around DEF RingOK
  <2> QED
    BY <2>1, <2>2 DEF Waiting
<1>2. RingOK' => (TypeOK /\ held' \subseteq Keys /\ both' \in BOOLEAN
                  /\ (\A f \in {shift', altgr', gui', lctrl', e0'} : f \in BOOLEAN)
                  /\ pc' \in {"idle", "load", "fetch", "reload", "store"} /\ cp' \in Entry
                  /\ seen' \in Places => TypeOK')
  BY DEF TypeOK, RingOK, Places
<1> QED
  BY <1>1, <1>2

(* DecodeInv is kept, step by step. *)
LEMMA DecodeInvInit == Init => DecodeInv
<1> SUFFICES ASSUME Init PROVE DecodeInv
  OBVIOUS
<1>1. 0 \in 0 .. MaxKeys /\ 0 \in 0 .. Size - 1 
  BY KeyboardAssumption
<1>2. Empty \in Entry /\ Empty.right
  BY <1>1 DEF Empty, Entry
<1>3. TypeOK
  <2>1. buf \in [0 .. (Size - 1) -> Entry]
    BY <1>2 DEF Init
  <2>2. \A f \in {shift, altgr, gui, lctrl, e0} : f \in BOOLEAN
    BY DEF Init
  <2> QED
    BY <1>1, <1>2, <2>1, <2>2 DEF TypeOK, Init
<1>4. HandsInv
  BY DEF HandsInv, Init, Shifts
<1>5. WireInv
  <2>1. Now \in Decoders
    BY <1>1 DEF Now, Decoders, Init
  <2>2. AsHeld(Now)
    BY DEF AsHeld, Now, Init, Shifted
  <2>3. wire = << >> /\ wire \in Seq(Bytes)
    BY DEF Init
  <2>4. Reaches(Now, wire, Now)
    BY <2>1, <2>3, ReachesNone
  <2> QED
    BY <2>1, <2>2, <2>3, <2>4 DEF WireInv
<1>6. \A k \in 0 .. Size - 1 : buf[k].right
  BY <1>2 DEF Init
<1> QED
  BY <1>1, <1>3, <1>4, <1>5, <1>6 DEF DecodeInv, Init

LEMMA HandsKeep ==
  ASSUME DecodeInv, NEW k \in Keys, Press(k) \/ Release(k)
  PROVE  DecodeInv'
<1>1. HandsInv' /\ WireInv' /\ typed' \in 0 .. MaxKeys /\ held' \subseteq Keys /\ both' \in BOOLEAN
  BY PressSends, ReleaseSends
<1>2. UNCHANGED <<mods, ring, reader, pushed>>
  BY DEF Press, Release
<1>3. TypeOK'
  BY <1>1, <1>2 DEF DecodeInv, TypeOK, mods, ring, reader
<1> QED
  BY <1>1, <1>2, <1>3 DEF DecodeInv, ring

LEMMA IrqKeeps ==
  ASSUME DecodeInv, Irq
  PROVE  DecodeInv'
<1>1. /\ HandsInv' /\ WireInv' /\ typed' \in 0 .. MaxKeys /\ held' \subseteq Keys /\ both' \in BOOLEAN
      /\ \A f \in {shift', altgr', gui', lctrl', e0'} : f \in BOOLEAN
      /\ \/ UNCHANGED <<ring, pushed, overflow>>
         \/ /\ Push([id |-> pushed + 1, right |-> TRUE])
            /\ pushed' = pushed + 1 /\ pushed' \in 0 .. MaxKeys
  BY IrqDecodes
<1>2. /\ TypeOK /\ pushed \in 0 .. MaxKeys /\ \A k \in 0 .. Size - 1 : buf[k].right
      /\ UNCHANGED <<pc, cp, seen>>
  BY DEF DecodeInv, Irq, reader
<1>3. RingOK
  BY <1>2, RingTyped
<1>4. /\ pc' \in {"idle", "load", "fetch", "reload", "store"} /\ cp' \in Entry /\ seen' \in Places
  BY <1>2 DEF TypeOK, Places
<1>5. CASE UNCHANGED <<ring, pushed, overflow>>
  <2>1. RingOK' /\ \A k \in 0 .. Size - 1 : buf'[k].right
    BY <1>2, <1>3, <1>5 DEF RingOK, ring
  <2>2. TypeOK'
    BY <1>1, <1>2, <1>4, <1>5, <2>1, RingTyped
  <2> QED
    BY <1>1, <1>2, <1>5, <2>1, <2>2 DEF DecodeInv
<1>6. CASE /\ Push([id |-> pushed + 1, right |-> TRUE])
           /\ pushed' = pushed + 1 /\ pushed' \in 0 .. MaxKeys
  <2> DEFINE x == [id |-> pushed + 1, right |-> TRUE]
  <2>1. x \in Entry /\ x.right
    BY <1>6 DEF Entry
  <2>2. Push(x)
    BY <1>6
  <2>3. buf' = [buf EXCEPT ![head] = x]
    BY <2>2 DEF Push
  <2> HIDE DEF x
  <2>4. RingOK'
    BY <1>3, <2>1, <2>2, PushWaits
  <2>5. \A k \in 0 .. Size - 1 : buf'[k].right
    BY <1>2, <1>3, <2>1, <2>3 DEF RingOK, Places
  <2>7. TypeOK'
    BY <1>1, <1>2, <1>4, <2>4, RingTyped
  <2> QED
    BY <1>1, <1>6, <2>5, <2>7 DEF DecodeInv
<1> QED
  BY <1>1, <1>5, <1>6

LEMMA ReaderKeeps ==
  ASSUME DecodeInv, HasChar \/ Load \/ Fetch \/ Reload \/ Store
  PROVE  DecodeInv'
<1>1. /\ TypeOK /\ RingOK /\ HandsInv /\ WireInv
      /\ typed \in 0 .. MaxKeys /\ pushed \in 0 .. MaxKeys
      /\ \A k \in 0 .. Size - 1 : buf[k].right
  BY RingTyped DEF DecodeInv
<1>2. UNCHANGED <<held, both, wire, typed, shift, altgr, gui, lctrl, e0, buf, head, pushed>>
  BY DEF HasChar, Load, Fetch, Reload, Store, hands, mods, ring
<1>3. HandsInv'
  BY <1>1, <1>2 DEF HandsInv
<1>4. WireInv'
  <2>1. PICK d \in Decoders : AsHeld(d) /\ Reaches(Now, wire, d)
    BY <1>1 DEF WireInv
  <2>2. Now' = Now
    BY <1>2 DEF Now
  <2>3. AsHeld(d)'
    BY <2>1, <1>2 DEF AsHeld
  <2>4. wire' \in Seq(Bytes) /\ Reaches(Now', wire', d)
    BY <2>1, <2>2, <1>1, <1>2 DEF WireInv
  <2> QED
    BY <2>3, <2>4 DEF WireInv
<1>5. Size \in Nat /\ Size > 1 /\ 0 \in Places /\ 0 \in 0 .. MaxKeys 
  BY KeyboardAssumption DEF Places
<1>6. Empty \in Entry
  BY <1>5 DEF Empty, Entry
<1>7. /\ \A k \in Places : After(k) \in Places
      /\ buf \in [Places -> Entry] /\ head \in Places /\ tail \in Places /\ seen \in Places
      /\ cp \in Entry
  <2>1. \A k \in Places : After(k) \in Places
    BY Around
  <2>2. seen \in Places /\ cp \in Entry
    BY <1>1 DEF TypeOK, Places
  <2> QED
    BY <2>1, <2>2, <1>1 DEF RingOK
<1>8. /\ pc' \in {"idle", "load", "fetch", "reload", "store"} /\ cp' \in Entry /\ seen' \in Places
      /\ tail' \in Places
  <2>1. CASE HasChar
    BY <2>1, <1>7 DEF HasChar, ring
  <2>2. CASE Load
    BY <2>2, <1>7 DEF Load, ring
  <2>5. CASE Fetch
    BY <2>5, <1>7 DEF Fetch, ring
  <2>3. CASE Reload
    BY <2>3, <1>7 DEF Reload, ring
  <2>4. CASE Store
    BY <2>4, <1>5, <1>6, <1>7 DEF Store
  <2> QED
    BY <2>1, <2>2, <2>3, <2>4, <2>5
<1>9. RingOK'
  BY <1>2, <1>7, <1>8 DEF RingOK
<1>10. held' \subseteq Keys /\ both' \in BOOLEAN /\ \A f \in {shift', altgr', gui', lctrl', e0'} : f \in BOOLEAN
  BY <1>1, <1>2 DEF TypeOK
<1>11. TypeOK'
  BY <1>1, <1>8, <1>9, <1>10, RingTyped
<1> QED
  BY <1>1, <1>2, <1>3, <1>4, <1>11 DEF DecodeInv

LEMMA DecodeInvStep == DecodeInv /\ [Next]_vars => DecodeInv'
<1> SUFFICES ASSUME DecodeInv, [Next]_vars PROVE DecodeInv'
  OBVIOUS
<1>1. CASE UNCHANGED vars
  <2>1. UNCHANGED <<held, both, wire, typed, shift, altgr, gui, lctrl, e0, buf, head, tail,
                    pc, cp, seen, pushed>>
    BY <1>1 DEF vars, hands, mods, ring, reader
  <2>2. TypeOK' /\ HandsInv'
    BY <2>1 DEF DecodeInv, TypeOK, HandsInv
  <2>3. PICK d \in Decoders : AsHeld(d) /\ Reaches(Now, wire, d)
    BY DEF DecodeInv, WireInv
  <2>4. Now' = Now /\ AsHeld(d)'
    BY <2>1, <2>3 DEF Now, AsHeld
  <2>5. wire' \in Seq(Bytes) /\ Reaches(Now', wire', d)
    BY <2>1, <2>3, <2>4 DEF DecodeInv, WireInv
  <2>6. WireInv'
    BY <2>4, <2>5 DEF WireInv
  <2> QED
    BY <2>1, <2>2, <2>6 DEF DecodeInv
<1>2. CASE Next
  BY <1>2, HandsKeep, IrqKeeps, ReaderKeeps DEF Next
<1> QED
  BY <1>1, <1>2

(* A full ring from any of its slots on: if kbd_tail is put back there, what *)
(* waits is again the last characters.                                       *)
LEMMA FromAnySlot ==
  ASSUME NEW h \in Places, NEW t \in Places, NEW u \in Places, Gap(h, t) = Size - 1
  PROVE  /\ Gap(h, u) \in Places /\ Gap(h, u) <= Size - 1 /\ (Gap(h, u) = 0 <=> h = u)
         /\ \A k \in 0 .. Gap(h, u) - 1 :
              /\ Slot(u, k) = Slot(t, (Size - 1 - Gap(h, u)) + k)
              /\ (Size - 1 - Gap(h, u)) + k \in 0 .. Size - 2
<1>1. Size \in Nat /\ Size > 1
  BY KeyboardAssumption
<1>2. /\ Gap(h, t) = IF t <= h THEN h - t ELSE h - t + Size
      /\ Gap(h, u) = IF u <= h THEN h - u ELSE h - u + Size
  BY GapIs
<1>3. Gap(h, u) \in Places /\ (Gap(h, u) = 0 <=> h = u)
  BY Around
<1> DEFINE w == Gap(h, u)
<1> HIDE DEF w
<1>4. w = Gap(h, u)
  BY DEF w
<1>5. ASSUME NEW k \in 0 .. w - 1
      PROVE  Slot(u, k) = Slot(t, (Size - 1 - w) + k) /\ (Size - 1 - w) + k \in 0 .. Size - 2
  <2> DEFINE j == (Size - 1 - w) + k
  <2>1. k \in Places /\ j \in Places /\ j \in 0 .. Size - 2 /\ j = (Size - 1 - w) + k
    BY <1>1, <1>3, <1>4 DEF Places
  <2> HIDE DEF j
  <2>2. /\ Slot(u, k) = IF u + k < Size THEN u + k ELSE u + k - Size
        /\ Slot(t, j) = IF t + j < Size THEN t + j ELSE t + j - Size
    BY <2>1, SlotIs
  <2>3. Slot(u, k) = Slot(t, j)
    BY <2>1, <2>2, <1>1, <1>2, <1>4 DEF Places
  <2> QED
    BY <2>1, <2>3
<1> QED
  BY <1>1, <1>3, <1>4, <1>5 DEF Places

(* BufferInv is kept, step by step. *)
LEMMA PushKeeps ==
  ASSUME TypeOK, pushed \in 0 .. MaxKeys, BufferInv,
         Push([id |-> pushed + 1, right |-> TRUE]), pushed' = pushed + 1, pushed' \in 0 .. MaxKeys,
         UNCHANGED <<pc, cp, seen, due, taken, emptied>>
  PROVE  BufferInv'
<1> DEFINE x == [id |-> pushed + 1, right |-> TRUE]
           n == Waiting
           m == Waiting'
<1>1. /\ RingOK /\ n \in Places /\ x \in Entry /\ x.id = pushed + 1 /\ Push(x)
      /\ Size \in Nat /\ Size > 2 /\ MaxKeys \in Nat
      /\ due \in 0 .. MaxKeys /\ taken \in 0 .. MaxKeys
  BY RingTyped, KeyboardAssumption DEF TypeOK, Entry, BufferInv
<1>2. n \in 0 .. Size - 1
  BY <1>1 DEF Places
<1>3. /\ \A k \in 0 .. n - 1 : buf[Slot(tail, k)].id = pushed - n + 1 + k
      /\ taken <= pushed - n
      /\ ~overflow => taken = pushed - n
  BY DEF BufferInv, Placed
<1>4. /\ pc # "idle" => n >= 1
      /\ pc \in {"fetch", "reload", "store"} =>
           /\ taken < due /\ due <= pushed - n + 1
           /\ due = pushed - n + 1 \/ (overflow /\ n = Size - 1)
      /\ pc = "fetch" => seen = tail \/ (overflow /\ n = Size - 1 /\ due <= pushed - n)
      /\ pc \in {"reload", "store"} => cp.id = due \/ (overflow /\ n = Size - 1 /\ due <= pushed - n)
      /\ pc = "store" => tail = seen \/ (overflow /\ n = Size - 1 /\ due <= pushed - n)
  BY DEF BufferInv, Loaded, Full
<1> HIDE DEF x
<1>5. /\ RingOK'
      /\ \/ /\ n < Size - 1 /\ m = n + 1 /\ tail' = tail /\ (overflow' <=> overflow)
            /\ buf'[Slot(tail', n)] = x
            /\ \A k \in 0 .. n - 1 : buf'[Slot(tail', k)] = buf[Slot(tail, k)]
         \/ /\ n = Size - 1 /\ m = n /\ tail' = After(tail) /\ overflow'
            /\ buf'[Slot(tail', n - 1)] = x
            /\ \A k \in 0 .. n - 2 : buf'[Slot(tail', k)] = buf[Slot(tail, k + 1)]
  BY <1>1, PushWaits
<1> HIDE DEF n, m
<1>6. CASE /\ n < Size - 1 /\ m = n + 1 /\ tail' = tail /\ (overflow' <=> overflow)
           /\ buf'[Slot(tail', n)] = x
           /\ \A k \in 0 .. n - 1 : buf'[Slot(tail', k)] = buf[Slot(tail, k)]
  <2>1. \A k \in 0 .. m - 1 : buf'[Slot(tail', k)].id = pushed' - m + 1 + k
    <3> SUFFICES ASSUME NEW k \in 0 .. m - 1
                 PROVE  buf'[Slot(tail', k)].id = pushed' - m + 1 + k
      OBVIOUS
    <3>1. CASE k = n
      BY <3>1, <1>1, <1>2, <1>6
    <3>2. CASE k # n
      <4>1. k \in 0 .. n - 1
        BY <3>2, <1>2, <1>6
      <4>2. buf'[Slot(tail', k)].id = pushed - n + 1 + k
        BY <4>1, <1>3, <1>6
      <4> QED
        BY <4>2, <1>2, <1>6
    <3> QED
      BY <3>1, <3>2
  <2>2. pushed' - m = pushed - n /\ m >= 1
    BY <1>2, <1>6
  <2>3. Placed'
    BY <2>1, <2>2, <1>3, <1>6 DEF Placed, m
  <2>4. Loaded'
    <3>1. pc' \in {"fetch", "reload", "store"} =>
           taken' < due' /\ due' <= pushed' - m + 1 /\ due' = pushed' - m + 1
      BY <2>2, <1>2, <1>4, <1>6
    <3>2. /\ pc' = "fetch" => seen' = tail'
          /\ pc' \in {"reload", "store"} => cp'.id = due'
          /\ pc' = "store" => tail' = seen'
      BY <1>1, <1>2, <1>4, <1>6
    <3> QED
      BY <2>2, <3>1, <3>2 DEF Loaded, m
  <2> QED
    BY <2>3, <2>4, <1>1 DEF BufferInv
<1>7. CASE /\ n = Size - 1 /\ m = n /\ tail' = After(tail) /\ overflow'
           /\ buf'[Slot(tail', n - 1)] = x
           /\ \A k \in 0 .. n - 2 : buf'[Slot(tail', k)] = buf[Slot(tail, k + 1)]
  <2>1. \A k \in 0 .. m - 1 : buf'[Slot(tail', k)].id = pushed' - m + 1 + k
    <3> SUFFICES ASSUME NEW k \in 0 .. m - 1
                 PROVE  buf'[Slot(tail', k)].id = pushed' - m + 1 + k
      OBVIOUS
    <3>1. CASE k = n - 1
      BY <3>1, <1>1, <1>2, <1>7
    <3>2. CASE k # n - 1
      <4>1. k \in 0 .. n - 2 /\ k + 1 \in 0 .. n - 1
        BY <3>2, <1>2, <1>7
      <4>2. buf'[Slot(tail', k)].id = pushed - n + 1 + (k + 1)
        BY <4>1, <1>3, <1>7
      <4> QED
        BY <4>1, <4>2, <1>2, <1>7
    <3> QED
      BY <3>1, <3>2
  <2>2. pushed' - m = pushed - n + 1 /\ m >= 2
    BY <1>1, <1>2, <1>7
  <2>3. Placed'
    <3>1. taken' <= pushed' - m /\ m # 0
      BY <2>2, <1>1, <1>2, <1>3, <1>7
    <3> QED
      BY <2>1, <3>1, <1>7 DEF Placed, m
  <2>4. Loaded'
    <3>1. Full' /\ m >= 1
      BY <2>2, <1>1, <1>2, <1>7 DEF Full, m
    <3>2. pc' \in {"fetch", "reload", "store"} => taken' < due' /\ due' <= pushed' - m
      BY <2>2, <1>1, <1>4
    <3>3. due' <= pushed' - m => due' <= pushed' - m + 1
      BY <2>2, <1>1, <1>2, <1>7
    <3> QED
      BY <3>1, <3>2, <3>3 DEF Loaded, m
  <2> QED
    BY <2>3, <2>4, <1>1 DEF BufferInv
<1> QED
  BY <1>5, <1>6, <1>7

LEMMA LoadKeeps ==
  ASSUME TypeOK, pushed \in 0 .. MaxKeys, BufferInv, HasChar \/ Load \/ Fetch \/ Reload
  PROVE  BufferInv'
<1> DEFINE n == Waiting
<1>1. /\ n \in Places /\ (n = 0 <=> head = tail) /\ Slot(tail, 0) = tail
      /\ taken \in 0 .. MaxKeys /\ due \in 0 .. MaxKeys
      /\ Size \in Nat /\ Size > 1 /\ MaxKeys \in Nat
      /\ buf \in [0 .. Size - 1 -> Entry] /\ tail \in 0 .. Size - 1
  BY RingTyped, KeyboardAssumption DEF BufferInv, TypeOK
<1>2. UNCHANGED <<buf, head, tail, pushed, taken, overflow, emptied>>
  BY DEF HasChar, Load, Fetch, Reload, ring, lost
<1>3. Waiting' = n /\ Placed' /\ (Full' <=> Full)
  BY <1>2 DEF BufferInv, Placed, Waiting, Full
<1>4. Loaded
  BY DEF BufferInv
<1>5. Loaded' /\ due' \in 0 .. MaxKeys
  <2>1. CASE HasChar
    <3>1. n >= 1
      BY <2>1, <1>1 DEF HasChar, Places
    <3> QED
      BY <2>1, <3>1, <1>1, <1>3 DEF Loaded, HasChar
  <2>2. CASE Load
    <3>1. n >= 1 /\ pc' = "fetch" /\ seen' = tail /\ due' = buf[tail].id
      BY <2>2, <1>4 DEF Loaded, Load
    <3>2. buf[Slot(tail, 0)].id = pushed - n + 1 + 0 /\ taken <= pushed - n
      BY <3>1, <1>1 DEF BufferInv, Placed, Places
    <3>3. due' = pushed - n + 1 /\ buf[tail] \in Entry
      BY <3>1, <3>2, <1>1 DEF Places
    <3>4. due' \in 0 .. MaxKeys
      BY <3>1, <3>3 DEF Entry
    <3> HIDE DEF n
    <3>5. taken' < due' /\ due' <= pushed' - n + 1 /\ due' = pushed' - n + 1
      BY <3>2, <3>3, <1>1, <1>2 DEF Places
    <3> QED
      BY <3>1, <3>4, <3>5, <1>2, <1>3 DEF Loaded, n
  <2>3. CASE Fetch
    <3>1. pc = "fetch" /\ pc' = "reload" /\ cp' = buf[seen] /\ UNCHANGED <<seen, due>>
      BY <2>3 DEF Fetch
    <3>2. /\ n >= 1 /\ taken < due /\ due <= pushed - n + 1
          /\ due = pushed - n + 1 \/ Full
          /\ seen = tail \/ (Full /\ due <= pushed - n)
      BY <3>1, <1>4 DEF Loaded
    <3>3. buf[tail].id = pushed - n + 1
      <4>1. buf[Slot(tail, 0)].id = pushed - n + 1 + 0
        BY <3>2, <1>1 DEF BufferInv, Placed, Places
      <4> QED
        BY <4>1, <1>1 DEF Places
    <3>4. cp'.id = due \/ (Full /\ due <= pushed - n)
      <4>1. CASE seen = tail
        <5>1. cp'.id = pushed - n + 1
          BY <4>1, <3>1, <3>3
        <5>2. due = pushed - n + 1 \/ (Full /\ due <= pushed - n)
          BY <3>2, <1>1 DEF Places
        <5> QED
          BY <5>1, <5>2
      <4> QED
        BY <4>1, <3>2
    <3> QED
      BY <3>1, <3>2, <3>4, <1>1, <1>2, <1>3 DEF Loaded
  <2>4. CASE Reload
    <3>1. pc = "reload" /\ pc' = "store" /\ seen' = tail /\ UNCHANGED <<cp, due>>
      BY <2>4 DEF Reload
    <3> QED
      BY <3>1, <1>1, <1>2, <1>3, <1>4 DEF Loaded
  <2> QED
    BY <2>1, <2>2, <2>3, <2>4
<1> QED
  BY <1>1, <1>2, <1>3, <1>5 DEF BufferInv

LEMMA StoreKeeps ==
  ASSUME TypeOK, pushed \in 0 .. MaxKeys, BufferInv, Store
  PROVE  BufferInv' /\ (~Slipped => cp.id > taken)
<1> DEFINE n == Waiting
           m == Waiting'
<1>1. /\ RingOK /\ n \in Places /\ (n = 0 <=> head = tail)
      /\ taken \in 0 .. MaxKeys /\ due \in 0 .. MaxKeys
      /\ Size \in Nat /\ Size > 2 /\ MaxKeys \in Nat /\ cp.id \in 0 .. MaxKeys /\ seen \in Places
      /\ head \in Places /\ tail \in Places
  BY RingTyped, KeyboardAssumption DEF BufferInv, TypeOK, Entry, Places
<1>2. n \in 0 .. Size - 1
  BY <1>1 DEF Places
<1>3. /\ pc = "store" /\ tail' = After(seen) /\ pc' = "idle" /\ due' = 0
      /\ taken' = (IF cp.id # due THEN taken ELSE cp.id)
      /\ emptied' = (IF tail # seen /\ After(seen) = head THEN pushed ELSE emptied)
      /\ UNCHANGED <<buf, head, pushed, overflow>>
  BY DEF Store, Slipped
<1>4. /\ \A k \in 0 .. n - 1 : buf[Slot(tail, k)].id = pushed - n + 1 + k
      /\ taken <= pushed - n
      /\ ~overflow => taken = pushed - n
  BY DEF BufferInv, Placed
<1>5. /\ n >= 1 /\ taken < due /\ due <= pushed - n + 1
      /\ due = pushed - n + 1 \/ (overflow /\ n = Size - 1)
      /\ cp.id = due \/ (overflow /\ n = Size - 1 /\ due <= pushed - n)
      /\ tail = seen \/ (overflow /\ n = Size - 1 /\ due <= pushed - n)
  BY <1>3 DEF BufferInv, Loaded, Full
<1>6. Loaded'
  BY <1>3 DEF Loaded
<1>7. /\ taken' \in 0 .. MaxKeys /\ taken' <= due /\ due' \in 0 .. MaxKeys
      /\ ~Slipped => cp.id > taken
  BY <1>1, <1>3, <1>5 DEF Slipped
<1>8. CASE tail = seen
  <2>1. /\ m = n - 1 /\ \A k \in 0 .. n - 2 : buf'[Slot(tail', k)] = buf[Slot(tail, k + 1)]
    BY <1>1, <1>3, <1>5, <1>8, TailMoves DEF Places
  <2> HIDE DEF n, m
  <2>2. \A k \in 0 .. m - 1 : buf'[Slot(tail', k)].id = pushed' - m + 1 + k
    <3> SUFFICES ASSUME NEW k \in 0 .. m - 1
                 PROVE  buf'[Slot(tail', k)].id = pushed' - m + 1 + k
      OBVIOUS
    <3>1. k \in 0 .. n - 2 /\ k + 1 \in 0 .. n - 1
      BY <2>1, <1>2
    <3>2. buf'[Slot(tail', k)].id = pushed - n + 1 + (k + 1)
      BY <3>1, <2>1, <1>4
    <3> QED
      BY <3>1, <3>2, <2>1, <1>2, <1>3
  <2>3. pushed' - m = pushed - n + 1
    BY <2>1, <1>2, <1>3
  <2>4. taken' <= pushed' - m
    BY <2>3, <1>1, <1>2, <1>5, <1>7
  <2>5. ~overflow' => taken' = pushed' - m
    BY <2>3, <1>3, <1>5
  <2>6. m = 0 => taken' = pushed'
    <3> SUFFICES ASSUME m = 0 PROVE taken' = pushed'
      OBVIOUS
    <3>1. n = 1 /\ n # Size - 1
      BY <2>1, <1>1, <1>2
    <3>2. taken' = due /\ due = pushed - n + 1
      BY <3>1, <1>3, <1>5
    <3> QED
      BY <3>1, <3>2, <1>1, <1>3
  <2>7. Placed'
    BY <2>2, <2>4, <2>5, <2>6 DEF Placed, m
  <2> QED
    BY <2>7, <1>6, <1>7 DEF BufferInv
<1>9. CASE tail # seen
  <2>1. overflow /\ n = Size - 1 /\ due <= pushed - n
    BY <1>5, <1>9
  <2>2. After(seen) \in Places /\ n = Gap(head, tail) /\ m = Gap(head, After(seen))
    BY <1>1, <1>3, Around DEF Waiting
  <2>3. /\ m \in Places /\ m <= n /\ (m = 0 <=> head = After(seen))
        /\ \A k \in 0 .. m - 1 :
             /\ Slot(After(seen), k) = Slot(tail, (n - m) + k)
             /\ (n - m) + k \in 0 .. n - 1
    <3> HIDE DEF n, m
    <3>1. Gap(head, tail) = Size - 1 /\ n - 1 = Size - 2
      BY <2>1, <2>2, <1>1
    <3>2. /\ m \in Places /\ m <= Size - 1 /\ (m = 0 <=> head = After(seen))
          /\ \A k \in 0 .. m - 1 :
               /\ Slot(After(seen), k) = Slot(tail, (Size - 1 - m) + k)
               /\ (Size - 1 - m) + k \in 0 .. Size - 2
      BY <3>1, <2>2, <1>1, FromAnySlot
    <3> QED
      BY <3>1, <3>2, <2>1
  <2> HIDE DEF n, m
  <2>4. \A k \in 0 .. m - 1 : buf'[Slot(tail', k)].id = pushed' - m + 1 + k
    <3> SUFFICES ASSUME NEW k \in 0 .. m - 1
                 PROVE  buf'[Slot(tail', k)].id = pushed' - m + 1 + k
      OBVIOUS
    <3>1. Slot(tail', k) = Slot(tail, (n - m) + k) /\ (n - m) + k \in 0 .. n - 1
      BY <2>3, <1>3
    <3>2. buf'[Slot(tail', k)].id = pushed - n + 1 + ((n - m) + k)
      BY <3>1, <1>3, <1>4
    <3> QED
      BY <3>2, <2>3, <1>2, <1>3 DEF Places
  <2>5. taken' <= pushed' - m
    BY <2>1, <2>3, <1>1, <1>2, <1>3, <1>7 DEF Places
  <2>6. m = 0 => emptied' = pushed'
    BY <2>3, <1>3, <1>9
  <2>7. Placed'
    BY <2>1, <2>4, <2>5, <2>6, <1>3 DEF Placed, m
  <2> QED
    BY <2>7, <1>6, <1>7 DEF BufferInv
<1> QED
  BY <1>8, <1>9

LEMMA BufferInvStep ==
  DecodeInv /\ BufferInv /\ [Next]_vars =>
    BufferInv' /\ (pc = "store" /\ pc' = "idle" /\ ~Slipped => cp.id > taken)
<1> SUFFICES ASSUME DecodeInv, BufferInv, [Next]_vars
             PROVE  BufferInv' /\ (pc = "store" /\ pc' = "idle" /\ ~Slipped => cp.id > taken)
  OBVIOUS
<1>1. TypeOK /\ pushed \in 0 .. MaxKeys
  BY DEF DecodeInv
<1>2. ASSUME UNCHANGED <<ring, reader, pushed, taken, lost>>
      PROVE  BufferInv' /\ pc' = pc
  BY <1>2 DEF ring, reader, lost, BufferInv, Placed, Loaded, Waiting, Full
<1>3. CASE UNCHANGED vars
  BY <1>2, <1>3 DEF vars
<1>4. ASSUME NEW k \in Keys, Press(k) \/ Release(k)
      PROVE  BufferInv' /\ pc' = pc
  BY <1>2, <1>4 DEF Press, Release
<1>5. CASE Irq
  <2>1. UNCHANGED <<reader, taken, emptied>>
    BY <1>5 DEF Irq
  <2>2. CASE UNCHANGED <<ring, pushed, overflow>>
    BY <1>2, <2>1, <2>2 DEF reader, lost
  <2>3. CASE /\ Push([id |-> pushed + 1, right |-> TRUE])
             /\ pushed' = pushed + 1 /\ pushed' \in 0 .. MaxKeys
    BY <1>1, <2>1, <2>3, PushKeeps DEF reader
  <2> QED
    BY <2>1, <2>2, <2>3, <1>5, IrqDecodes DEF reader
<1>6. CASE HasChar \/ Load \/ Fetch \/ Reload
  <2>1. BufferInv'
    BY <1>1, <1>6, LoadKeeps
  <2>2. ~(pc = "store" /\ pc' = "idle")
    BY <1>6 DEF HasChar, Load, Fetch, Reload
  <2> QED
    BY <2>1, <2>2
<1>7. CASE Store
  BY <1>1, <1>7, StoreKeeps
<1> QED
  BY <1>3, <1>4, <1>5, <1>6, <1>7 DEF Next

-----------------------------------------------------------------------------
(* The properties follow. *)
LEMMA PendingIs ==
  ASSUME TypeOK
  PROVE  /\ Waiting \in Nat /\ DOMAIN Pending = 1 .. Waiting /\ Len(Pending) = Waiting
         /\ \A k \in 1 .. Waiting :
              Pending[k] = buf[Slot(tail, k - 1)] /\ Slot(tail, k - 1) \in 0 .. Size - 1
         /\ Waiting > 0 => Pending # << >>
<1>1. Waiting \in Places /\ Places \subseteq Nat /\ RingOK
  BY RingTyped, KeyboardAssumption DEF Places
<1>2. Pending = [k \in 1 .. Waiting |-> buf[(tail + k - 1) % Size]]
  BY DEF Pending, Waiting, Gap
<1>3. ASSUME NEW k \in 1 .. Waiting
      PROVE  Pending[k] = buf[Slot(tail, k - 1)] /\ Slot(tail, k - 1) \in 0 .. Size - 1
  <2>1. tail + k - 1 = tail + (k - 1) /\ k - 1 \in Places
    BY <1>1, KeyboardAssumption DEF Places, RingOK
  <2>2. (tail + k - 1) % Size = Slot(tail, k - 1)
    BY <2>1 DEF Slot
  <2>3. Slot(tail, k - 1) \in Places
    BY <2>1, <1>1, Around DEF RingOK
  <2> QED
    BY <2>2, <2>3, <1>2 DEF Places
<1> DEFINE n == Waiting
<1>4. n \in Nat
  BY <1>1
<1>5. DOMAIN Pending = 1 .. n
  BY <1>2
<1>6. Pending \in Seq({buf[Slot(tail, k - 1)] : k \in 1 .. n})
  <2> DEFINE R == {buf[Slot(tail, k - 1)] : k \in 1 .. n}
  <2>1. \A k \in 1 .. n : Pending[k] \in R
    BY <1>3
  <2>2. Pending = [k \in 1 .. n |-> Pending[k]]
    BY <1>2
  <2> HIDE DEF R, n
  <2>3. Pending \in [1 .. n -> R]
    BY <2>1, <2>2
  <2> QED
    BY <2>3, <1>4, SeqDef DEF R
<1>7. Len(Pending) \in Nat /\ DOMAIN Pending = 1 .. Len(Pending)
  BY <1>6, LenProperties
<1> HIDE DEF n
<1>8. Len(Pending) = n
  BY <1>4, <1>5, <1>7
<1>9. n > 0 => Pending # << >>
  <2>1. Len(<< >>) = 0
    OBVIOUS
  <2> QED
    BY <2>1, <1>4, <1>8
<1> QED
  BY <1>3, <1>4, <1>5, <1>8, <1>9 DEF n

LEMMA DecodeInvHolds == Spec => []DecodeInv
<1>1. Init => DecodeInv
  BY DecodeInvInit
<1>2. DecodeInv /\ [Next]_vars => DecodeInv'
  BY DecodeInvStep
<1> QED
  BY <1>1, <1>2, PTL DEF Spec

(* KeysTranslated: every code point in the ring is the one its key should  *)
(* give, and with no byte left the driver's modifiers are the keys held,   *)
(* whatever keys are used, pressed and released in whatever order.         *)
THEOREM KeysAreTranslated == Spec => []KeysTranslated
<1>1. DecodeInv => KeysTranslated
  <2> SUFFICES ASSUME DecodeInv PROVE KeysTranslated
    OBVIOUS
  <2>1. TypeOK
    BY DEF DecodeInv
  <2>2. ModifiersMatchHands
    <3> SUFFICES ASSUME wire = << >>
                 PROVE  /\ ~e0
                        /\ shift => Shifted(held)
                        /\ ~both => shift = Shifted(held)
                        /\ altgr = ("altgr" \in held) /\ lctrl = ("lctrl" \in held)
                        /\ gui = ("lgui" \in held)
      BY DEF ModifiersMatchHands
    <3>1. PICK d \in Decoders : AsHeld(d) /\ Reaches(Now, wire, d)
      BY DEF DecodeInv, WireInv
    <3>2. Now \in Decoders
      BY <2>1 DEF DecodeInv, Now, Decoders, TypeOK
    <3>3. d = Now
      BY <3>1, <3>2, ReachesNone
    <3>4. AsHeld(Now)
      BY <3>1, <3>3
    <3>5. /\ ~e0
          /\ shift => Shifted(held)
          /\ ~both => (shift <=> Shifted(held))
          /\ altgr <=> "altgr" \in held
          /\ lctrl <=> "lctrl" \in held
          /\ gui <=> "lgui" \in held
      BY <3>4 DEF AsHeld, Now
    <3>6. /\ shift \in BOOLEAN /\ altgr \in BOOLEAN /\ lctrl \in BOOLEAN /\ gui \in BOOLEAN
          /\ Shifted(held) \in BOOLEAN
      BY <2>1 DEF TypeOK, Shifted
    <3> QED
      BY <3>5, <3>6
  <2>3. SymbolsAreWanted
    <3>1. \A k \in 0 .. Size - 1 : buf[k].right
      BY DEF DecodeInv
    <3> QED
      BY <2>1, <3>1, PendingIs DEF SymbolsAreWanted
  <2> QED
    BY <2>1, <2>2, <2>3 DEF KeysTranslated
<1> QED
  BY <1>1, DecodeInvHolds, PTL

LEMMA BufferInvInit == Init => BufferInv
<1> SUFFICES ASSUME Init PROVE BufferInv
  OBVIOUS
<1>1. 0 \in Places /\ 0 \in 0 .. MaxKeys /\ Size \in Nat /\ Size > 1
  BY KeyboardAssumption DEF Places
<1>2. head = 0 /\ tail = 0 /\ pc = "idle" /\ taken = 0 /\ pushed = 0 /\ due = 0
  BY DEF Init
<1>3. Waiting = 0
  BY <1>1, <1>2, Around DEF Waiting
<1> QED
  BY <1>1, <1>2, <1>3 DEF BufferInv, Placed, Loaded

LEMMA BufferInvHolds == Spec => []BufferInv
<1>1. Init => BufferInv
  BY BufferInvInit
<1>2. DecodeInv /\ BufferInv /\ [Next]_vars => BufferInv'
  BY BufferInvStep
<1> QED
  BY <1>1, <1>2, DecodeInvHolds, PTL DEF Spec

(* BufferKeeps: a ring that never filled up loses nothing; what waits is   *)
(* always the last characters pushed; and the newest waits until it is     *)
(* taken, unless the reader's write of kbd_tail, after the handler moved   *)
(* it twice, emptied the ring (kbd_push, keyboard_get_codepoint).          *)
THEOREM BufferKeepsNewest == Spec => []BufferKeeps
<1>1. DecodeInv /\ BufferInv => BufferKeeps
  <2> SUFFICES ASSUME DecodeInv, BufferInv PROVE BufferKeeps
    OBVIOUS
  <2> DEFINE n == Waiting
  <2>1. TypeOK /\ pushed \in 0 .. MaxKeys /\ taken \in 0 .. MaxKeys
    BY DEF DecodeInv, BufferInv
  <2>2. /\ \A k \in 0 .. n - 1 : buf[Slot(tail, k)].id = pushed - n + 1 + k
        /\ ~overflow => taken = pushed - n
        /\ n = 0 => taken = pushed \/ emptied = pushed
    BY DEF BufferInv, Placed
  <2>3. /\ n \in Nat /\ DOMAIN Pending = 1 .. n /\ Len(Pending) = n
        /\ n > 0 => Pending # << >>
    BY <2>1, PendingIs
  <2>4. \A k \in 1 .. n : Pending[k] = buf[Slot(tail, k - 1)]
    BY <2>1, PendingIs
  <2> HIDE DEF n
  <2>5. LastOnesWait
    <3> SUFFICES ASSUME NEW k \in 1 .. n PROVE Pending[k].id = pushed - n + k
      BY <2>3 DEF LastOnesWait
    <3>1. k - 1 \in 0 .. n - 1 /\ pushed - n + 1 + (k - 1) = pushed - n + k
      BY <2>1, <2>3
    <3> QED
      BY <3>1, <2>2, <2>4
  <2>6. NothingLost
    BY <2>1, <2>2, <2>3 DEF NothingLost
  <2>7. NewestKept
    <3> SUFFICES ASSUME pushed > taken, pushed > emptied PROVE n > 0
      BY <2>3 DEF NewestKept
    <3> QED
      BY <2>1, <2>2, <2>3
  <2> QED
    BY <2>5, <2>6, <2>7 DEF BufferKeeps
<1> QED
  BY <1>1, DecodeInvHolds, BufferInvHolds, PTL

(* InOrder: the reader gets characters in the order typed and none twice,  *)
(* but for one fetched from a slot the handler wrote anew meanwhile.       *)
THEOREM ReadInOrder == Spec => InOrder
<1>1. DecodeInv /\ BufferInv /\ [Next]_vars =>
        [pc = "store" /\ pc' = "idle" /\ ~Slipped => cp.id > taken]_vars
  BY BufferInvStep
<1> QED
  BY <1>1, DecodeInvHolds, BufferInvHolds, PTL DEF Spec, InOrder
=============================================================================
