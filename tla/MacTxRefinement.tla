-------------------------- MODULE MacTxRefinement ---------------------------
(***************************************************************************)
(* The MAC's transmit path implements MacTxService when no request is      *)
(* impolite, nobody calls mac_tx_cancel() and the PHY does not fail.       *)
(***************************************************************************)
EXTENDS MacChannelAccess

Service == INSTANCE MacTxService WITH next <- nextId

\* Every step of the MAC, the PHY and the modules is a step of the service.
ImplementsService == Service!Spec
=============================================================================
