------------------------------ MODULE Desktop ------------------------------
(***************************************************************************)
(* The desktop (src/ui/desktop): the loop of desktop_run over keys, mouse  *)
(* events and polled widgets, the window stack, the menu, the context menu *)
(* and the search box, with the mouse interrupt of module Mouse running    *)
(* against it.                                                             *)
(*                                                                         *)
(* A press is described by what hit_test returns for it; where windows lie *)
(* is not kept, so any part that is on the screen may be under the pointer.*)
(* The search box keeps its number of results and the selected one.        *)
(***************************************************************************)
EXTENDS Mouse, FiniteSets

CONSTANTS Slots,         \* 0 .. MAX_WIN - 1
          Kinds,         \* the kinds of window; "term", "files", "power" are special
          SpotMax,       \* most results the search box shows
          None           \* no window

ASSUME DesktopAssumption ==
    /\ Slots # {} /\ Slots \subseteq Nat /\ {"term", "files", "power"} \subseteq Kinds
    /\ None \notin Kinds /\ None \notin Slots
    /\ SpotMax \in Nat \ {0}
    /\ "left" \in Range(Buttons) /\ "right" \in Range(Buttons)

VARIABLES win,           \* s_win: the kind of the window in a slot, or None
          z,             \* s_z: the slots from the bottom up
          over,          \* s_menu, s_spot, s_ctx: the overlays shown
          spotN, spotSel,\* s_spot_n, s_spot_sel
          drag,          \* s_drag
          grabbed,       \* ghost: slot drag still holds the window pressed
          prevLeft,      \* s_prev_buttons: the left button at the last poll
          logout,        \* s_logout
          pc             \* where desktop_run is

uiVars == <<win, z, over, spotN, spotSel, drag, grabbed, logout>>
deskVars == <<mouseVars, uiVars, prevLeft, pc>>

LeftDown == "left" \in down
Used == {s \in Slots : win[s] # None}
Top == IF z = <<>> THEN None ELSE Last(z)                     \* z_top

(* The part of the state the handlers pass on to one another. *)
Ui == [win |-> win, z |-> z, over |-> over, n |-> spotN, sel |-> spotSel,
       drag |-> drag, grabbed |-> grabbed, logout |-> logout]
Becomes(u) ==
    /\ win' = u.win /\ z' = u.z /\ over' = u.over /\ spotN' = u.n
    /\ spotSel' = u.sel /\ drag' = u.drag
    /\ grabbed' = (u.grabbed /\ u.drag # None)
    /\ logout' = u.logout

----------------------------------------------------------------------------
(* Windows *)

(* The loop of z_raise and win_close over the stack. *)
Without(stack, s) ==
    LET kept[i \in 0..Len(stack)] ==
            IF i = 0 THEN <<>>
            ELSE IF stack[i] = s THEN kept[i - 1] ELSE Append(kept[i - 1], stack[i])
    IN  kept[Len(stack)]

Raise(u, s) == [u EXCEPT !.z = Append(Without(@, s), s)]   \* z_raise

\* mutant: the drag goes on without its window
WinClose_KeepDrag(u, s) ==
    [u EXCEPT !.win[s] = None, !.z = Without(@, s)]
\* mutant: a closed window stays in the stacking order
WinClose_KeepZ(u, s) ==
    [u EXCEPT !.win[s] = None, !.drag = IF @ = s THEN None ELSE @]
WinClose(u, s) ==
    [u EXCEPT !.win[s] = None, !.z = Without(@, s),
              !.drag = IF @ = s THEN None ELSE @]

(* win_open: a window of the kind is raised instead, except a terminal;    *)
(* with every slot used the bottom window makes room.                      *)
Same(u, k) == {s \in Slots : u.win[s] = k /\ k # "term"}
NewSlot(u) == LET free == {s \in Slots : u.win[s] = None}
              IN  IF free = {} THEN Head(u.z)
                  ELSE CHOOSE s \in free : \A t \in free : s <= t

WinOpen(u, k) ==
    IF Same(u, k) # {} THEN Raise(u, CHOOSE s \in Same(u, k) : TRUE)
    ELSE LET s == NewSlot(u)
             room == IF u.win[s] = None THEN u ELSE WinClose(u, s)
         IN  Raise([room EXCEPT !.win[s] = k, !.grabbed = @ /\ room.drag # s], s)

(* action_open: every overlay goes, the search box without its fade.       *)
Actions == Kinds \cup {"logout"}

ActionOpen(u, a) ==
    LET shut == [u EXCEPT !.over = {}]
    IN  IF a = "logout" THEN [shut EXCEPT !.logout = TRUE] ELSE WinOpen(shut, a)

----------------------------------------------------------------------------
(* The search box.  Which entries match is left open; an empty query       *)
(* matches every application.                                              *)

SpotClose(u) == [u EXCEPT !.over = @ \ {"spot"}, !.n = 0, !.sel = 0]

SpotOpen(u) == [u EXCEPT !.over = {"spot"}, !.n = SpotMax, !.sel = 0]

(* spot_rebuild, after spot_append or spot_backspace took the selection to *)
(* the first row.                                                          *)

SpotRebuild(u, n) == [u EXCEPT !.n = n, !.sel = 0]

(* spot_activate: a file entry opens the file browser.                     *)
SpotActivate(u, i, a) ==
    IF i >= u.n THEN u
    ELSE IF a = "file" THEN WinOpen(SpotClose(u), "files")
    ELSE ActionOpen(SpotClose(u), a)

SpotStep(u, d) ==
    IF u.n = 0 THEN u
    ELSE [u EXCEPT !.sel = IF d = "down" THEN (@ + 1) % u.n
                           ELSE IF @ = 0 THEN u.n - 1 ELSE @ - 1]

----------------------------------------------------------------------------
(* hit_test: what may be under the pointer.                                *)

Hit(p, s) == [part |-> p, slot |-> s]
Chrome == {"launcher", "dock", "menu", "spot", "row"}        \* desk_chrome_hit
Hits ==
    {Hit(p, None) : p \in {"desktop", "bar", "launcher", "dock", "icon"}}
    \cup {Hit(p, s) : p \in {"close", "title", "body"}, s \in Used}
    \cup {Hit("file", s) : s \in {s \in Used : win[s] = "files"}}
    \cup {Hit(p, s) : p \in {"halt", "cancel"}, s \in {s \in Used : win[s] = "power"}}
    \cup (IF "menu" \in over THEN {Hit("menu", None)} ELSE {})
    \cup (IF "ctx" \in over THEN {Hit("ctx", None)} ELSE {})
    \cup (IF "spot" \in over
          THEN {Hit("spot", None), Hit("row", None)} ELSE {})

(* handle_click, for the hits the widgets do not take: a press outside the *)
(* search box closes it and goes on, unless it is on the desktop or a bar. *)
(* An entry of the context menu opens a window or sets the wallpaper; an   *)
(* icon wants a double click.                                              *)
OnPart(u, h) ==
    CASE h.part = "ctx" -> {u} \cup {WinOpen(u, k) : k \in Kinds}
      [] h.part = "icon" -> {u} \cup {ActionOpen(u, k) : k \in Kinds}
      [] h.part = "close" -> {WinClose(u, h.slot)}
      [] h.part = "title" -> {[Raise(u, h.slot) EXCEPT !.drag = h.slot, !.grabbed = TRUE]}
      [] h.part = "body" -> {Raise(u, h.slot)}
      [] h.part = "cancel" ->
            {IF u.win[Last(u.z)] = "power" THEN WinClose(u, Last(u.z)) ELSE u}
      [] h.part \in {"desktop", "bar"} -> {SpotClose([u EXCEPT !.over = {}])}
      [] OTHER -> {u}

HandleClick(h) ==
    IF "spot" \in over /\ h.part \in {"desktop", "bar"} THEN {SpotClose(Ui)}
    ELSE OnPart(LET v == IF "spot" \in over THEN SpotClose(Ui) ELSE Ui
                IN [v EXCEPT !.over = @ \ {"ctx"}], h)

HandleRightClick(h) ==
    IF "spot" \in over THEN SpotClose(Ui)
    ELSE IF h.part = "desktop" THEN [Ui EXCEPT !.over = {"ctx"}]
    ELSE [Ui EXCEPT !.over = @ \ {"ctx"}]

----------------------------------------------------------------------------
(* desktop_run: one key, or one mouse event, or a look at the clock, then  *)
(* the widgets.                                                            *)

DesktopInit ==
    /\ MouseInit
    /\ win = [s \in Slots |-> None] /\ z = <<>> /\ over = {}
    /\ spotN = 0 /\ spotSel = 0 /\ drag = None /\ grabbed = FALSE
    /\ logout = FALSE /\ prevLeft \in BOOLEAN /\ pc = "top"

AtTop == pc = "top" /\ ~logout /\ copied = NoEvent

Packet == pc # "off" /\ \E p \in Positions, now \in SUBSET Range(Buttons) :
              MousePacket(p, now) /\ UNCHANGED <<uiVars, prevLeft, pc>>

TakeEvent == AtTop /\ CopyEvent /\ UNCHANGED <<uiVars, prevLeft, pc>>

Shut == UNCHANGED <<win, z, over, spotN, drag, grabbed, logout>>

MoveOver ==                       \* MOUSE_EV_MOVE, and the hover test below it
    /\ pc = "top" /\ copied.kind = "move" /\ FreeEvent
    /\ spotSel' \in {spotSel} \cup (IF drag = None /\ "spot" \in over
                                    THEN 0..(spotN - 1) ELSE {})
    /\ Shut /\ pc' = "widgets" /\ UNCHANGED prevLeft

LeftPress ==
    /\ pc = "top" /\ copied.kind = "down" /\ copied.button = "left" /\ FreeEvent
    /\ \/ /\ \E h \in Hits : h.part = "halt"
          /\ UNCHANGED uiVars /\ pc' = "off"
       \/ /\ \E u \in UNION {IF h.part \in Chrome THEN {Ui} ELSE HandleClick(h) :
                            h \in {h \in Hits : h.part # "halt"}} : Becomes(u)
          /\ pc' = "widgets"
    /\ UNCHANGED prevLeft

RightPress ==
    /\ pc = "top" /\ copied.kind = "down" /\ copied.button = "right" /\ FreeEvent
    /\ \E h \in Hits : Becomes(HandleRightClick(h))
    /\ pc' = "widgets" /\ UNCHANGED prevLeft

Release ==
    /\ pc = "top" /\ copied.kind = "up" /\ FreeEvent
    /\ IF copied.button = "left" THEN drag' = None /\ grabbed' = FALSE
       ELSE UNCHANGED <<drag, grabbed>>
    /\ UNCHANGED <<win, z, over, spotN, spotSel, logout, prevLeft>>
    /\ pc' = "widgets"

(* handle_key; F1 runs the shell, which takes the keyboard until it ends.  *)
Escape(u) ==
    IF u.over # {} THEN [u EXCEPT !.over = {}]        \* the menu or the context menu
    ELSE IF Top # None THEN WinClose(u, Top) ELSE u
TermExit(u) ==                                        \* the line "exit" entered
    IF Top # None /\ win[Top] = "term" THEN WinClose(u, Top) ELSE u
KeyEffects ==
    IF "spot" \in over
    THEN {SpotClose(Ui), SpotStep(Ui, "down"), SpotStep(Ui, "up")}
         \cup {SpotActivate(Ui, spotSel, a) : a \in Actions \cup {"file"}}
         \cup {SpotRebuild(Ui, n) : n \in 0..SpotMax}
    ELSE {Ui, SpotOpen(Ui), Escape(Ui), TermExit(Ui)}

HandleKey ==
    /\ AtTop /\ \E u \in KeyEffects : Becomes(u)
    /\ pc' = "widgets" /\ UNCHANGED <<mouseVars, prevLeft>>

ShellRun == AtTop /\ "spot" \notin over /\ pc' = "shell"
            /\ UNCHANGED <<mouseVars, uiVars, prevLeft>>
ShellEnd == pc = "shell" /\ pc' = "widgets"
            /\ UNCHANGED <<mouseVars, uiVars, prevLeft>>
Tick == AtTop /\ pc' = "widgets" /\ UNCHANGED <<mouseVars, uiVars, prevLeft>>

(* desktop_widgets: the buttons are polled, and a press since the last poll *)
(* is one click on the dock, a row of the menu or a row of the search box,  *)
(* whatever event the same press also queued.                               *)
Clicks ==
    {[Ui EXCEPT !.over = @ \ {"menu", "ctx"}]}                       \* dock, once
    \cup {ActionOpen(Ui, a) : a \in Kinds}                           \* dock, twice
    \cup {IF "menu" \in over THEN [Ui EXCEPT !.over = @ \ {"menu", "ctx"}]
          ELSE [SpotClose(Ui) EXCEPT !.over = {"menu"}]}             \* launcher
    \cup {ActionOpen(Ui, a) : a \in {a \in Actions : "menu" \in over}}
    \cup {SpotActivate(Ui, i, a) : i \in 0..(spotN - 1), a \in {a \in Actions : "spot" \in over}}

Widgets ==
    /\ pc = "widgets"
    /\ prevLeft' = LeftDown
    /\ \E u \in {Ui} \cup (IF LeftDown /\ ~prevLeft THEN Clicks ELSE {}) : Becomes(u)
    /\ pc' = "top" /\ UNCHANGED mouseVars

(* The session logs in again and desktop_run starts over; a power off ends *)
(* with the processor halted.                                              *)
Restart ==
    /\ pc = "top" /\ logout /\ copied = NoEvent
    /\ Drain
    /\ win' = [s \in Slots |-> None] /\ z' = <<>> /\ over' = {}
    /\ spotN' = 0 /\ spotSel' = 0 /\ drag' = None /\ logout' = FALSE
    /\ grabbed' = FALSE /\ pc' = "widgets" /\ UNCHANGED prevLeft

DesktopNext == \/ Packet \/ TakeEvent \/ MoveOver \/ LeftPress \/ RightPress \/ Release
        \/ HandleKey \/ ShellRun \/ ShellEnd \/ Tick \/ Widgets \/ Restart

DesktopSpec == DesktopInit /\ [][DesktopNext]_deskVars
----------------------------------------------------------------------------
DesktopTypeOK ==
    /\ MouseTypeOK
    /\ win \in [Slots -> Kinds \cup {None}] /\ drag \in Slots \cup {None}
    /\ over \subseteq {"menu", "spot", "ctx"}
    /\ spotN \in 0..SpotMax /\ spotSel \in 0..SpotMax
    /\ {grabbed, prevLeft, logout} \subseteq BOOLEAN
    /\ pc \in {"top", "widgets", "shell", "off"}

(* The stacking order is exactly the open windows, each once, and only a   *)
(* terminal may be open twice: win_open, win_close and z_raise keep three  *)
(* arrays in step.                                                         *)
WindowsStacked ==
    /\ IsInjective(z) /\ Range(z) = Used
    /\ \A s, t \in Used : win[s] = win[t] /\ win[s] # "term" => s = t

(* Menu, context menu and search box exclude one another although clicks,  *)
(* keys and polled widgets open them separately; the selected result is    *)
(* one of those shown.                                                     *)
OverlaysExclusive ==
    /\ Cardinality(over) <= 1
    /\ "spot" \in over => spotSel < spotN \/ spotSel = 0

(* A drag has the window that was pressed, not another that took its slot. *)
(* With the ring read out it has the button held too, unless the release   *)
(* was dropped by a full ring (src/drivers/mouse.c:60).                    *)
DragHolds ==
    /\ drag # None => drag \in Used /\ grabbed
    /\ drag # None /\ pc = "widgets" /\ ring = <<>> /\ ~lostUp => LeftDown

(* Windows, their kinds and their stacking agree through every order of    *)
(* opening, closing and recycling slots (desktop_win.c).                   *)
WindowsSound == DesktopTypeOK /\ WindowsStacked

(* Whatever order events and polled edges come in, at most the overlays    *)
(* that may show together do, and a drag holds on to an open window.       *)
InputHeld == OverlaysExclusive /\ DragHolds
=============================================================================
