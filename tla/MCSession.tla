------------------------------ MODULE MCSession -----------------------------
(* Small instances of Session: two names with the same slug and one of its *)
(* own, and accounts left by a system that stored passwords in clear.      *)
EXTENDS Session, TLC

Clashing == "Ana" :> <<"ana">> @@ "ANA" :> <<"ana">>
AllSlugs == Clashing @@ "Leo" :> <<"leo">>

Typed == {<<"Ana">>, <<"ana">>, <<"ana", 0>>, <<"admin">>}
Admin == <<"admin">>

LeftOver ==
  {<<[name |-> "Leo", text |-> "p1"]>>,
   <<[name |-> "Leo", text |-> "p1"], [name |-> "Ana", text |-> "p2"]>>}
None == {}


\* What the rest of a behaviour depends on: a screen's fields only while the
\* screen can still use them.
SessionView ==
  <<vars, screen,
    IF screen = "off" THEN <<fb, askLang>> ELSE <<>>,
    IF screen \in Onboarding THEN fields ELSE <<>>,
    IF screen \in {"login", "textlogin"} THEN <<tName, typed>> ELSE <<>>>>
=============================================================================
