---------------------------- MODULE MCWikiUploads ----------------------------
(* Small instances of WikiUploads for TLC. *)
EXTENDS WikiUploads

CONSTANT f1

Sizes == [f \in Files |-> IF f = f1 THEN 2 ELSE 1]
\* The process is lost while a put is under way, never between the SQL write
\* of a pending or requeued row and the alarm that follows it.
AtPut == {"put", "putting"}
=============================================================================
