----------------------------- MODULE MCWikiPages -----------------------------
(* Small instances of WikiPages for TLC. *)
EXTENDS WikiPages, TLC

\* Clients and pages are interchangeable; no liveness is checked here.
Symmetry == Permutations(Client) \cup Permutations(Page)
=============================================================================
