------------------------------- MODULE MCDcdm -------------------------------
(* Small instances of Dcdm for TLC. *)
EXTENDS Dcdm

CONSTANTS a, b

Same    == [r \in Radios |-> 1]
InOrder == [r \in Radios |-> IF r = a THEN 1 ELSE 2]

NoForeign == {}

Says(leader, nl, sa, sdi, sid, cto) ==
  [leader |-> leader, nl |-> nl, gen |-> 0, sa |-> sa, sdi |-> sdi,
   sid |-> sid, cto |-> cto]

\* What the radio with WATID <<1, 1>> may hear.
Neighbours ==
  {Says(Nobody,      FALSE, 0, 2, 2, "unaligned_req"),   \* preferred, no leader
   Says(Nobody,      FALSE, 0, 0, 3, "unaligned_req"),   \* the opposite
   Says(Watid(2, 2), FALSE, 0, 2, 2, "push"),            \* a better leader
   Says(Watid(2, 2), FALSE, 2, 0, 3, "status"),          \* its follower
   Says(Watid(0, 3), FALSE, 0, 2, 2, "unaligned_term"),  \* a worse leader
   Says(Watid(1, 1), TRUE,  1, 0, 3, "status"),          \* an appointment
   Says(Watid(1, 1), FALSE, 3, 1, 1, "push")}            \* the same WATID
=============================================================================
