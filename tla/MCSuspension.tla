----------------------------- MODULE MCSuspension -----------------------------
(* Instances of Suspension for TLC.                                         *)
EXTENDS Suspension

Simetria == Permutations(Procesos)
=============================================================================
