------------------------------- MODULE Screen -------------------------------
(***************************************************************************)
(* The two copies of the picture and the pointer drawn over one of them:   *)
(* drivers/fb.c (front = what is on the glass, back = the composed scene), *)
(* ui/gfx/compositor.c (the damage that is still to be copied), the cursor *)
(* of ui/gfx/draw.c, and the three programs that share them (login,        *)
(* onboarding, desktop).  The mouse interrupt moves the pointer at any     *)
(* time.                                                                   *)
(*                                                                         *)
(* One row of pixels stands for the screen: every rectangle of the code is *)
(* a product of two independent spans treated alike.                       *)
(***************************************************************************)
EXTENDS Integers, FiniteSets, FiniteSetsExt

CONSTANTS FbW,        \* fb_w
          CursorW,    \* CURSOR_W (31)
          Stage,      \* FB_SPRITE_STAGE_W (96)
          Pad,        \* pad of ui_comp_damage (2)
          Hots,       \* CURSOR_HOT_X, CURSOR_PTR_HOT_X
          DockX, DockW,
          Colours,    \* what a pixel of the scene can be
          Cursor,     \* a pixel of the pointer
          MaxU        \* ~0u

ASSUME ScreenAssumption ==
    /\ FbW \in Nat /\ CursorW \in Nat \ {0} /\ Pad \in Nat /\ Stage \in Nat
    /\ DockX \in Nat /\ DockW \in Nat
    /\ MaxU \in Nat /\ FbW =< MaxU
    /\ Stage >= 2 * CursorW
    /\ Hots \subseteq 0 .. (CursorW - 1)
    /\ Cursor \notin Colours

VARIABLES gfx,       \* the screen: buffers, compositor, cursor
          mouse,    \* mouse_x()
          prog,     \* who runs: gfx_login, onboarding_run, desktop_run
          spot,     \* s_spot: Spotlight is open
          seen      \* s_cursor_x, -1 while s_cursor_valid is false

screenVars == <<gfx, mouse, prog, spot, seen>>

Pixels == 0 .. (FbW - 1)
Least(a, b) == IF a < b THEN a ELSE b
Most(a, b) == IF a > b THEN a ELSE b
Span(lo, hi) == {p \in Pixels : lo =< p /\ p < hi}
Nowhere == [p \in {} |-> Cursor]
Merge(f, g) == [p \in DOMAIN f |-> IF p \in DOMAIN g THEN g[p] ELSE f[p]]

-----------------------------------------------------------------------------
(* drivers/fb.c *)

ComposeBegin(s) == [s EXCEPT !.base = "back", !.dirty = TRUE]
ComposeEnd(s) == [s EXCEPT !.base = "front"]

(* fb_set_pixel, fb_fill_rect, fb_blend_rect: pixels of the buffer that     *)
(* fb_base points at.                                                      *)
Plot(s, pix) == IF s.base = "back" THEN [s EXCEPT !.back = Merge(@, pix)]
                                   ELSE [s EXCEPT !.front = Merge(@, pix)]
Base(s) == IF s.base = "back" THEN s.back ELSE s.front

(* Pixels sent to the glass; what was left of an old pointer there is gone. *)
ToFront(s, pix) == [s EXCEPT !.front = Merge(@, pix), !.base = "front",
                             !.left = @ \ DOMAIN pix]

PresentRect(s, lo, n) == ToFront(s, [p \in Span(lo, lo + n) |-> s.back[p]])

ComposePresent(s) == IF s.dirty THEN [ToFront(s, s.back) EXCEPT !.dirty = FALSE]
                                ELSE ComposeEnd(s)

(* fb_blend_to_front, with the amount the last step of a fade reaches (255). *)
BlendToFront(s) == [ToFront(s, s.back) EXCEPT !.dirty = FALSE]

(* fb_present_sprite_rect can fail; it then changes nothing.               *)
CanStage(s, area) == s.bits32 /\ area # {} /\ Cardinality(area) =< Stage
PresentSprite(s, area, sprite) ==
    ToFront(s, [p \in area |-> IF p \in sprite THEN Cursor ELSE s.back[p]])

-----------------------------------------------------------------------------
(* ui/gfx/draw.c: the pointer *)

Box(x) == Span(x, x + CursorW)
Boxes(x, y) == Span(Least(x, y), Most(x, y) + CursorW)

RestoreUnder(s) ==
    [Plot(s, s.under) EXCEPT !.under = Nowhere,
        !.left = @ \cup {p \in DOMAIN s.under : s.under[p] = Cursor}]
SaveUnder(s, x) == [s EXCEPT !.under = [p \in Box(x) |-> Base(s)[p]]]
BlitBase(s, x) ==
    [Plot(s, [p \in Box(x) |-> Cursor]) EXCEPT !.cx = x, !.on = TRUE,
        !.left = @ \ Box(x)]

Commit(s, x) == [s EXCEPT !.cx = x, !.on = TRUE, !.under = Nowhere]

Erase(s) ==
    IF ~s.on THEN s
    ELSE LET e == ComposeEnd(s)
         IN IF CanStage(e, Box(e.cx))
            THEN [PresentSprite(e, Box(e.cx), {}) EXCEPT !.on = FALSE, !.under = Nowhere]
            ELSE [RestoreUnder(e) EXCEPT !.on = FALSE]

(* The pointer is forgotten, not painted over: `left` remembers where.      *)
CursorInvalidate(s) ==
    [s EXCEPT !.on = FALSE, !.under = Nowhere,
              !.left = IF s.on THEN @ \cup Box(s.cx) ELSE @]

\* mutant: the old box is always cleared after the new one is drawn
CursorDraw_ClearLate(s, m, hot) ==
    LET x == m - hot
        e == ComposeEnd(s)
    IN IF CanStage(e, Box(x))
       THEN LET c == Commit(PresentSprite(e, Box(x), Box(x)), x)
            IN IF e.on THEN PresentSprite(c, Box(e.cx), {}) ELSE c
       ELSE BlitBase(SaveUnder(RestoreUnder(e), x), x)

CursorDraw(s, m, hot) ==
    LET x == m - hot
        e == ComposeEnd(s)
        both == IF e.on THEN Boxes(x, e.cx) ELSE Box(x)
    IN IF CanStage(e, both)
       THEN Commit(PresentSprite(e, both, Box(x)), x)
       ELSE IF CanStage(e, Box(x))
       THEN LET c == Commit(PresentSprite(e, Box(x), Box(x)), x)
            IN IF e.on /\ CanStage(c, Box(e.cx))
               THEN PresentSprite(c, Box(e.cx), {}) ELSE c
       ELSE BlitBase(SaveUnder(RestoreUnder(e), x), x)

CursorFlip(s, m, hot) == CursorDraw(ComposePresent(CursorInvalidate(s)), m, hot)

-----------------------------------------------------------------------------
(* ui/gfx/compositor.c *)

AddSat(a, b) == Least(a + b, MaxU)
NoDamage == [on |-> FALSE, x |-> 0, w |-> 0]

\* mutant: the union keeps the larger width instead of the larger end
RectUnion_Width(a, x, w) ==
    IF w = 0 THEN a
    ELSE IF ~a.on THEN [on |-> TRUE, x |-> x, w |-> w]
    ELSE [on |-> TRUE, x |-> Least(x, a.x), w |-> Most(w, a.w)]

RectUnion(a, x, w) ==
    IF w = 0 THEN a
    ELSE IF ~a.on THEN [on |-> TRUE, x |-> x, w |-> w]
    ELSE LET lo == Least(x, a.x)
         IN [on |-> TRUE, x |-> lo, w |-> Most(AddSat(x, w), AddSat(a.x, a.w)) - lo]

ClipSpan(x, w) == IF x >= FbW THEN 0 ELSE Least(w, FbW - x)

Damage(s, x, w) ==
    LET lo == IF x >= Pad THEN x - Pad ELSE 0
        padded == AddSat(AddSat(w, x - lo), Pad)
    IN IF w = 0 THEN s
       ELSE [s EXCEPT !.damage = RectUnion(@, lo, ClipSpan(lo, padded))]

MarkFull(s) == [s EXCEPT !.full = TRUE]
SceneBegin(s) == [ComposeBegin(s) EXCEPT !.full = TRUE, !.damage = NoDamage]
HasDamage(s) == s.full \/ s.damage.on
Settled(s) == [s EXCEPT !.damage = NoDamage, !.full = FALSE]

PresentHeavy(s, m, hot) ==
    Settled(CursorDraw(ComposeEnd(ComposePresent(CursorInvalidate(s))), m, hot))

Present(s, m, hot) ==
    IF s.full THEN PresentHeavy(s, m, hot)
    ELSE LET h == Erase(s)
             r == IF s.damage.on THEN PresentRect(h, s.damage.x, s.damage.w) ELSE h
         IN Settled(CursorDraw(ComposeEnd(r), m, hot))

-----------------------------------------------------------------------------
(* ui/gfx/animation.c: the last step of the fade shows the back buffer, and *)
(* the caller finds fb_base on it again.                                   *)
Crossfade(s) ==
    CursorInvalidate(ComposeBegin(BlendToFront(CursorInvalidate(s))))

-----------------------------------------------------------------------------
(* The programs.  The mouse may have moved when the pointer is stamped.    *)

PaintAll(s, scene) == Plot(ComposeBegin(s), scene)
PaintSpan(s, x, n, c) ==
    Damage(Plot(ComposeBegin(s), [p \in Span(x, x + n) |-> c]), x, n)

(* What a program paints over everything is one colour: what matters is     *)
(* whether a pixel is the new scene's or an older one's.                   *)
Scenes == {[p \in Pixels |-> c] : c \in Colours}

ScreenInit ==
    /\ \E wide \in BOOLEAN, scene \in Scenes :
         gfx = [front |-> scene, back |-> scene, base |-> "front", dirty |-> FALSE,
               damage |-> NoDamage, full |-> FALSE, bits32 |-> wide,
               on |-> FALSE, cx |-> 0, under |-> Nowhere, left |-> {}]
    /\ mouse \in Pixels
    /\ prog = "none" /\ spot = FALSE /\ seen = -1

MouseIrq == /\ mouse' \in Pixels \ {mouse}
            /\ UNCHANGED <<gfx, prog, spot, seen>>

(* ui_end: the damage is shown, or else only the pointer, at the place      *)
(* ui_begin read.                                                          *)
UiEnd(s, wantFull, hot) ==
    IF wantFull \/ HasDamage(s) THEN Present(s, mouse', hot)
    ELSE CursorDraw(ComposeEnd(s), mouse, hot)

(* --- gfx_login --- *)
LoginEnter ==
    /\ prog \in {"none", "onboarding", "desktop"} /\ ~gfx.full
    /\ mouse' \in Pixels
    /\ \E scene \in Scenes, hot \in Hots, fade \in BOOLEAN :
         LET p == PaintAll(Erase(gfx), scene)
         IN gfx' = IF fade THEN CursorFlip(Crossfade(p), mouse', hot)
                          ELSE Present(MarkFull(p), mouse', hot)
    /\ prog' = "login" /\ spot' = FALSE
    /\ UNCHANGED seen

LoginRedraw ==
    /\ prog = "login"
    /\ \E scene \in Scenes, hot \in Hots :
         gfx' = Present(MarkFull(PaintAll(gfx, scene)), mouse, hot)
    /\ UNCHANGED <<mouse, prog, spot, seen>>

(* login_fail_shake: the frames are shown without a pointer, then a redraw. *)
LoginShake ==
    /\ prog = "login"
    /\ \E scene \in Scenes : gfx' = ComposePresent(CursorInvalidate(PaintAll(gfx, scene)))
    /\ UNCHANGED <<mouse, prog, spot, seen>>

LoginMoved ==
    /\ prog = "login"
    /\ \E hot \in Hots : gfx' = CursorDraw(gfx, mouse, hot)
    /\ UNCHANGED <<mouse, prog, spot, seen>>

(* --- onboarding_run: a scene or a widget pass; each pass ends in ui_end -- *)
ObEnter ==
    /\ prog \in {"none", "onboarding"} /\ ~gfx.full
    /\ \E scene \in Scenes, fade \in BOOLEAN :
         LET p == PaintAll(Erase(gfx), scene)
         IN gfx' = MarkFull(IF fade THEN Crossfade(p) ELSE p)
    /\ prog' = "onboarding"
    /\ UNCHANGED <<mouse, spot, seen>>

ObScene ==
    /\ prog = "onboarding" /\ ~gfx.full
    /\ \E scene \in Scenes : gfx' = MarkFull(PaintAll(SceneBegin(gfx), scene))
    /\ UNCHANGED <<mouse, prog, spot, seen>>

ObWidget ==
    /\ prog = "onboarding"
    /\ \E x \in Pixels, n \in 1 .. 2, c \in Colours : gfx' = PaintSpan(gfx, x, n, c)
    /\ UNCHANGED <<mouse, prog, spot, seen>>

ObWidgetsEnd ==
    /\ prog = "onboarding"
    /\ mouse' \in Pixels
    /\ \E hot \in Hots : gfx' = UiEnd(gfx, gfx.full, hot)
    /\ UNCHANGED <<prog, spot, seen>>

(* commit_user: a scene of its own, flipped at once.                        *)
CommitScene ==
    /\ prog = "onboarding" /\ ~HasDamage(gfx)
    /\ \E scene \in Scenes, hot \in Hots :
         gfx' = CursorFlip(PaintAll(gfx, scene), mouse, hot)
    /\ UNCHANGED <<mouse, prog, spot, seen>>

(* --- desktop_run --- *)
DesktopEnter ==
    /\ prog = "login" /\ ~gfx.full
    /\ mouse' \in Pixels
    /\ \E scene \in Scenes, hot \in Hots, fade \in BOOLEAN :
         LET p == PaintAll(Erase(gfx), scene)
             f == IF fade THEN Crossfade(p) ELSE p
         IN gfx' = Present(MarkFull(CursorInvalidate(f)), mouse', hot)
    /\ prog' = "desktop" /\ spot' = FALSE /\ seen' = mouse

(* desktop_redraw, for a drag or, with ui_invalidate after it, for anything *)
(* else that set dirty.                                                    *)
DesktopRedraw ==
    /\ prog = "desktop" /\ ~gfx.full
    /\ spot' \in BOOLEAN
    /\ \E scene \in Scenes, hot \in Hots, fade, again \in BOOLEAN :
         LET p == PaintAll(gfx, scene)
             f == IF fade THEN Crossfade(p) ELSE p
             s == Present(MarkFull(f), mouse, hot)
         IN gfx' = IF again THEN MarkFull(s) ELSE s
    /\ UNCHANGED <<mouse, prog, seen>>

(* desktop_cursor_update(false): the pointer is taken off the glass if it   *)
(* moved since the last time this was asked.                               *)
CursorUpdate(s) == IF seen # mouse THEN Erase(s) ELSE s

(* desktop_widgets: the dock is painted on its own, unless Spotlight covers *)
(* it; the pointer is forgotten when it was.                               *)
DesktopWidgets ==
    /\ prog = "desktop"
    /\ mouse' \in Pixels
    /\ \E hover \in BOOLEAN, c \in Colours, hot \in Hots :
         LET repaintBase == ~spot /\ (gfx.full \/ hover)
             s == IF repaintBase
                  THEN CursorInvalidate(PaintSpan(gfx, DockX, DockW, c))
                  ELSE CursorUpdate(gfx)
         IN /\ gfx' = UiEnd(s, gfx.full, hot)
            /\ seen' = IF repaintBase THEN mouse' ELSE mouse
    /\ UNCHANGED <<prog, spot>>

ScreenNext ==
    \/ MouseIrq
    \/ LoginEnter \/ LoginRedraw \/ LoginShake \/ LoginMoved
    \/ ObEnter \/ ObScene \/ ObWidget \/ ObWidgetsEnd \/ CommitScene
    \/ DesktopEnter \/ DesktopRedraw \/ DesktopWidgets

ScreenSpec == ScreenInit /\ [][ScreenNext]_screenVars

-----------------------------------------------------------------------------
ScreenTypeOK ==
    /\ gfx.back \in [Pixels -> Colours]
    /\ gfx.front \in [Pixels -> Colours \cup {Cursor}]
    /\ gfx.base \in {"front", "back"}
    /\ {gfx.dirty, gfx.full, gfx.on, gfx.bits32} \subseteq BOOLEAN
    /\ gfx.damage.on => /\ gfx.damage.x \in Pixels
                       /\ gfx.damage.x + gfx.damage.w \in 1 .. FbW
    /\ gfx.left \subseteq Pixels
    /\ mouse \in Pixels /\ seen \in Pixels \cup {-1} /\ spot \in BOOLEAN

(* Every pixel of the scene is on the glass, under the pointer, or still to  *)
(* be copied: inside the pending damage or before a full present, and the    *)
(* scene then counts as dirty.  A widget that changed and lies in none of    *)
(* these would keep its old look until something else repaints it            *)
(* (ui_comp_damage, rect_union, fb_compose_present).                         *)
Pending == IF ~gfx.dirty THEN {} ELSE IF gfx.full THEN Pixels
           ELSE IF gfx.damage.on THEN Span(gfx.damage.x, gfx.damage.x + gfx.damage.w) ELSE {}
SceneShown == \A p \in Pixels \ Pending : gfx.front[p] \in {gfx.back[p], Cursor}

(* While the pointer is on, all of it is on the glass, however many presents *)
(* and jumps came before (cursor_stamp, ui_comp_present).                    *)
PointerShown == gfx.on => \A p \in Box(gfx.cx) : gfx.front[p] = Cursor

(* Nothing on the glass looks like a pointer but the pointer and what a      *)
(* cursor_invalidate left behind and nobody has painted over since; and no   *)
(* pointer ever gets into the scene.                                         *)
OnePointer ==
    \A p \in Pixels : gfx.front[p] = Cursor =>
        p \in gfx.left \/ (gfx.on /\ p \in Box(gfx.cx))

(* The glass never lacks a part of the scene that nothing will repaint.    *)
SceneSound == ScreenTypeOK /\ SceneShown

(* There is one pointer on the glass, and all of it (cursor_stamp).        *)
PointerTrue == PointerShown /\ OnePointer
=============================================================================
