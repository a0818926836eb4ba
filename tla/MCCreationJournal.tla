-------------------------- MODULE MCCreationJournal --------------------------
(* Small instances of CreationJournal for TLC. *)
EXTENDS CreationJournal

\* Redeployments that turn reports off and on and change the encryption mode.
AnyEnv == Env
\* Restarts that keep the first environment.
BootEnv == {Boot}
=============================================================================
