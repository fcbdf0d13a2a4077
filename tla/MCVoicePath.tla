---------------------------- MODULE MCVoicePath -----------------------------
(***************************************************************************)
(* A small instance of VoicePath for TLC: the voice of one call, heard from*)
(* its first burst A on, and its terminator.                               *)
(***************************************************************************)
EXTENDS VoicePath

TheCalls == {"ours"}
LateEntry == [type : {"SYNC", "VOICE_TERMINATOR"}, call : TheCalls, bit : {FALSE}]
Nobody == {}
ShortSuperframe == <<"A", "B", "F">>
=============================================================================
