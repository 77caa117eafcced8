------------------------------ MODULE MCBotAdmin ------------------------------
(***************************************************************************)
(* BotAdmin for TLC: forms, secrets and requests of a kind are alike.      *)
(***************************************************************************)
EXTENDS BotAdmin, TLC

Symmetry == Permutations(Secrets) \cup Permutations(Forms)
            \cup Permutations(Editors) \cup Permutations(Togglers)
=============================================================================
