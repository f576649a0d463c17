---------------------------- MODULE MCNosfsDisk ----------------------------
(* Small instances of NosfsDisk: what TLC may take for the same. *)
EXTENDS NosfsDisk, TLC

Sym == Permutations(Vals) \cup Permutations(Names)
=============================================================================
