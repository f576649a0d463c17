----------------------------- MODULE MCHardware -----------------------------
(* The hardware that works beside the kernel's code: the timer, whose tick   *)
(* cuts the scheduler anywhere, and the network card, which walks the rings *)
(* the driver fills.  They share no variable, so a behaviour follows one of *)
(* them, with that one's fairness.                                          *)
EXTENDS Sched, Nic

VARIABLE subject    \* "sched" or "nic"

MCInit == subject \in {"sched", "nic"} /\ SchedInit /\ Init

MCNext ==
    \/ subject = "sched" /\ SchedNext /\ UNCHANGED <<vars, subject>>
    \/ subject = "nic" /\ Next /\ UNCHANGED <<schedVars, subject>>

\* SchedFairness, and the fairness of Nic's Spec.
MCFairness ==
    /\ WF_schedVars(subject = "sched" /\ Resume)
    /\ WF_schedVars(subject = "sched" /\ FreeReaped)
    /\ WF_schedVars(subject = "sched" /\ Bootstrap)
    /\ WF_schedVars(subject = "sched" /\ Preempt)
    /\ WF_vars(subject = "nic" /\ CardSend)

MCSpec == MCInit /\ [][MCNext]_<<schedVars, vars, subject>> /\ MCFairness
=============================================================================
