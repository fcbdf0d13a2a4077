------------------------------- MODULE Cach ---------------------------------
(***************************************************************************)
(* The codec of the common announcement channel (mac_cach.c): four bits of *)
(* access control (TACT) under a Hamming (7,4) code, spread over the 24    *)
(* bits on the air among 17 bits of payload. A word is a function from its *)
(* bit numbers to BOOLEAN.                                                 *)
(***************************************************************************)
EXTENDS BitWords

Tact    == [0..3 -> BOOLEAN]     \* 3 = AT, 2 = TC, 1 and 0 = LCSS
Word    == [0..6 -> BOOLEAN]     \* 6..3 = TACT, 2..0 = parity
Payload == [0..16 -> BOOLEAN]
Wire    == [0..23 -> BOOLEAN]

Xor3(a, b, c)    == (a <=> b) <=> c
Odd4(a, b, c, d) == ~((a <=> b) <=> (c <=> d))

hamming74_encode(d) ==
  [i \in 0..6 |->
     CASE i = 2 -> Xor3(d[3], d[2], d[1])
       [] i = 1 -> Xor3(d[2], d[1], d[0])
       [] i = 0 -> Xor3(d[3], d[2], d[0])
       [] OTHER -> d[i - 3]]

\* The checks that fail, as a number.
Syndrome(c) ==
  4 * Bit(Odd4(c[6], c[5], c[4], c[2]))
  + 2 * Bit(Odd4(c[5], c[4], c[3], c[1]))
  + Bit(Odd4(c[6], c[5], c[3], c[0]))

\* syn_to_pos: the bit that a syndrome points at.
SynToPos == <<0, 1, 3, 2, 6, 4, 5>>

Corrected(c) ==
  IF Syndrome(c) = 0 THEN c ELSE Flip(c, SynToPos[Syndrome(c)])

hamming74_decode(c) == [i \in 0..3 |-> Corrected(c)[i + 3]]

\* Where the bits of the word and of the payload are on the air.
WordAt == [i \in 0..6 |-> CASE i = 6 -> 23 [] i = 5 -> 19 [] i = 4 -> 15
                            [] i = 3 -> 11 [] i = 2 -> 9  [] i = 1 -> 5
                            [] i = 0 -> 1]
PayloadAt ==
  [i \in 0..16 |-> CASE i >= 14 -> i + 6 [] i \in 11..13 -> i + 5
                     [] i \in 8..10 -> i + 4 [] i = 7 -> 10
                     [] i \in 4..6 -> i + 2 [] i \in 1..3 -> i + 1
                     [] i = 0 -> 0]

\* cach_interleave: wire carries word and payload.
Interleaved(wire, word, payload) ==
  /\ wire \in Wire
  /\ \A i \in 0..6 : wire[WordAt[i]] = word[i]
  /\ \A i \in 0..16 : wire[PayloadAt[i]] = payload[i]

mac_cach_build(tact, payload, wire) ==
  Interleaved(wire, hamming74_encode(tact), payload)

cach_deinterleave(wire) ==
  [word    |-> [i \in 0..6 |-> wire[WordAt[i]]],
   payload |-> [i \in 0..16 |-> wire[PayloadAt[i]]]]

mac_cach_parse(wire) ==
  [tact    |-> hamming74_decode(cach_deinterleave(wire).word),
   payload |-> cach_deinterleave(wire).payload]
=============================================================================
