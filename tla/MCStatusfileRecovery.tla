------------------------- MODULE MCStatusfileRecovery -------------------------
(* Two slots that stand for each other, and a few saves. *)
EXTENDS StatusfileRecovery, TLC
SlotSymmetry == Permutations(Slot)
=============================================================================
