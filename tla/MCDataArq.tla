----------------------------- MODULE MCDataArq -----------------------------
(* Small instances of CclDataArq for TLC. *)
EXTENDS CclDataArq

CONSTANTS a, b, packet, text, status, spoilt

Numbered(last, no) == [last |-> last, no |-> no]

\* Blocks that their receiver reads as they were meant, or as it happens.
Aligned == <<Numbered(FALSE, 0), Numbered(FALSE, 1), Numbered(TRUE, 2)>>
Early   == <<Numbered(TRUE, 0), Numbered(TRUE, 1)>>
Text    == <<Numbered(FALSE, 72)>>

Message(from, kind, confirmed, blocks) ==
  [from |-> from, to |-> CHOOSE r \in {a, b} : r # from, kind |-> kind,
   confirmed |-> confirmed, fits |-> TRUE, blocks |-> blocks]

\* One-way traffic.
OneWay ==
  [m \in Messages |->
     CASE m = packet -> Message(a, "IP", TRUE, Aligned)
       [] m = text   -> Message(a, "DEFINED", TRUE, Text)
       [] m = status -> Message(a, "STATUS_PRECODED", TRUE, <<>>)
       [] m = spoilt -> Message(a, "IP", FALSE, Early)]

\* Both radios send.
One == <<Numbered(TRUE, 0)>>
Crossed ==
  [m \in Messages |->
     Message(IF m = packet THEN a ELSE b, "IP", TRUE, One)]
=============================================================================
