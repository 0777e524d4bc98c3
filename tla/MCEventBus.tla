----------------------------- MODULE MCEventBus -----------------------------
(***************************************************************************)
(* Instances of EventBus: two dispatchers and an event of two subscribers. *)
(***************************************************************************)
EXTENDS EventBus

CONSTANTS audit, ledger

TwoHandlers == <<audit, ledger>>

=============================================================================
