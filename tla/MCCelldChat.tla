----------------------------- MODULE MCCelldChat -----------------------------
(* Small instances of CelldChat for TLC. *)
EXTENDS CelldChat
=============================================================================
