---------------------------- MODULE MCMacVoiceRx ----------------------------
(***************************************************************************)
(* A small instance of MacVoiceRx for TLC: one burst of every class the    *)
(* tracker treats differently.                                             *)
(***************************************************************************)
EXTENDS MacVoiceRx

OneCall == {"c"}
EveryClass ==
  [type : {"SYNC", "UNKNOWN", "LC_HEADER", "VOICE_TERMINATOR", "IDLE", "FOREIGN"},
   call : OneCall, bit : {FALSE}]
=============================================================================
