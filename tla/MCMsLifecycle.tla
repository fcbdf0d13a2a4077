--------------------------- MODULE MCMsLifecycle ----------------------------
(* Small instances of MsLifecycle for TLC. *)
EXTENDS MsLifecycle

EveryTier == DOMAIN Composition
=============================================================================
