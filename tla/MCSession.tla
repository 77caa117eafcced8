----------------------------- MODULE MCSession -----------------------------
(***************************************************************************)
(* Session for TLC: the deliveries of one user's updates as model values.  *)
(***************************************************************************)
EXTENDS Session, TLC
=============================================================================
