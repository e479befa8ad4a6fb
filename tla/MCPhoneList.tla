----------------------------- MODULE MCPhoneList -----------------------------
(* The instance of PhoneList that is model-checked. *)
EXTENDS PhoneList, TLC

Symmetry == Permutations(Threads)
=============================================================================
