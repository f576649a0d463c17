----------------------------- MODULE MCDesktop -----------------------------
(* The windows and the pixels of the session.  Positions are only compared *)
(* and colours only copied, so each may be exchanged.  The screen is five   *)
(* pixels wide, the pointer two, and four may be staged: a jump of three    *)
(* pixels is already too far for one staged rectangle.  The window manager  *)
(* and the painting share no variable: a behaviour follows one of them, or, *)
(* from the screen's initial states, evaluates the pixel arithmetic on each *)
(* of its inputs.                                                           *)
EXTENDS Desktop, Screen, Raster

VARIABLE subject    \* "desktop" or "screen"

MCButtons == <<"left", "right">>
MCSymmetry == Permutations(Positions) \cup Permutations(Colours)

MCInit == subject \in {"desktop", "screen"} /\ DesktopInit /\ ScreenInit /\ probe = NoProbe

\* Switched off: nothing is left to do.
DesktopRests == pc = "off"

MCNext ==
    \/ subject = "desktop" /\ DesktopNext /\ UNCHANGED <<screenVars, probe, subject>>
    \/ subject = "desktop" /\ DesktopRests /\ UNCHANGED <<deskVars, screenVars, probe, subject>>
    \/ subject = "screen" /\ probe = NoProbe /\ ScreenNext /\ UNCHANGED <<deskVars, probe, subject>>
    \/ subject = "screen" /\ prog = "none" /\ Evaluate /\ UNCHANGED <<deskVars, screenVars, subject>>
MCSpec == MCInit /\ [][MCNext]_<<deskVars, screenVars, probe, subject>>

(* Left out: what the behaviour does not follow, and what no step of the    *)
(* desktop reads before writing it: the desktop that a logout or a power    *)
(* off drops, the results of a closed search box, and the position lastSeen *)
(* while events wait.                                                       *)
DesktopView ==
    IF subject = "screen" THEN <<screenVars, probe>>
    ELSE IF pc = "off" THEN <<pc>>
    ELSE <<pc, prevLeft, logout, pointer, down, ring, copied, stale, lostUp,
           IF ring = <<>> THEN lastSeen ELSE pointer,
           IF logout THEN <<>>
           ELSE <<win, z, over, drag, grabbed,
                  IF "spot" \in over THEN <<spotN, spotSel>> ELSE <<>>>>>>
=============================================================================
