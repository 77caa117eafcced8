---------------------------- MODULE MCAccountLink ----------------------------
(***************************************************************************)
(* AccountLink for TLC: two companies, and a user who registers with each. *)
(***************************************************************************)
EXTENDS AccountLink, TLC

CONSTANTS u, v, k, l

MCUsers     == {u, v}
MCCompanies == {k, l}
MCCompanyOf == u :> k @@ v :> l
=============================================================================
