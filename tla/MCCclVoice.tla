----------------------------- MODULE MCCclVoice -----------------------------
(***************************************************************************)
(* A small instance of CclVoice for TLC: one call for us, one for others.  *)
(***************************************************************************)
EXTENDS CclVoice

TheCalls  == {"ours", "theirs"}
TheOurs   == {"ours"}
BothKinds == {MineGroup, MineUnit}

\* A superframe of three bursts instead of six: only first, last and "between"
\* matter to the code.
ShortSuperframe == <<"A", "B", "F">>

Heard(types, calls, bits) == [type : types, call : calls, bit : bits]

Everything ==
  Heard({"SYNC"}, {"ours"}, {FALSE})
    \cup Heard({"VOICE_TERMINATOR", "CALL_ALERT"}, {"ours"}, {FALSE})
    \cup Heard({"LC_HEADER", "UU_V_REQ"}, TheCalls, {FALSE})
    \cup Heard({"UNKNOWN"}, TheCalls, {TRUE})
    \cup Heard({"UU_ANS_RSP"}, {MineUnit}, BOOLEAN)
    \cup [event : {"LOST", "CALL_ENDED_TIMEOUT", "CALL_GONE"}]
=============================================================================
