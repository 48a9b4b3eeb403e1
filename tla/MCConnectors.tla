----------------------------- MODULE MCConnectors -----------------------------
(***************************************************************************)
(* One event of the outbox and two workers, undisturbed, for the retries.  *)
(***************************************************************************)
EXTENDS Connectors

MCNoHooks == {}
=============================================================================
