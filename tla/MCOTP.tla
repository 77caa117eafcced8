------------------------------- MODULE MCOTP -------------------------------
(***************************************************************************)
(* OTP for TLC: users, codes and tabs as model values.                     *)
(***************************************************************************)
EXTENDS OTP, TLC

Symmetry == Permutations(Users) \cup Permutations(Codes) \cup Permutations(Tabs)
=============================================================================
