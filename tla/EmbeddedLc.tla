---------------------------- MODULE EmbeddedLc ------------------------------
(***************************************************************************)
(* The code that protects link control embedded in voice bursts            *)
(* (dmr_fec.c): seven rows of eleven bits under a Hamming (16,11) code, a  *)
(* row of column parities, sent column by column in four fragments of 32   *)
(* bits. A word is a function from its bit numbers to BOOLEAN, a syndrome  *)
(* the set of the parity bits that disagree.                               *)
(***************************************************************************)
EXTENDS BitWords

Data   == [0..10 -> BOOLEAN]
Row    == [0..15 -> BOOLEAN]      \* 15..5 = data, 4..0 = parity
Lc     == [0..71 -> BOOLEAN]
Stream == [0..127 -> BOOLEAN]     \* in the order of the air

Xor(a, b) == ~(a <=> b)
Xor7(a, b, c, d, e, f, g) ==
  Xor(Xor(Xor(a, b), Xor(c, d)), Xor(Xor(e, f), g))

Parity(d, k) ==
  CASE k = 4 -> Xor7(d[10], d[9], d[8], d[7], d[5], d[3], d[2])
    [] k = 3 -> Xor7(d[9], d[8], d[7], d[6], d[4], d[2], d[1])
    [] k = 2 -> Xor7(d[8], d[7], d[6], d[5], d[3], d[1], d[0])
    [] k = 1 -> Xor7(d[10], d[9], d[8], d[6], d[4], d[3], d[0])
    [] k = 0 -> Xor7(d[10], d[8], d[5], d[4], d[2], d[1], d[0])

hamming_16_11_encode(d) ==
  [b \in 0..15 |-> IF b >= 5 THEN d[b - 5] ELSE Parity(d, b)]

DataOf(w) == [i \in 0..10 |-> w[i + 5]]

hamming_16_11_syndrome(w) == {k \in 0..4 : Xor(Parity(DataOf(w), k), w[k])}

\* h16_parity_rows and, for the parity bits, themselves: the syndrome that an
\* error in a bit causes.
Mask ==
  [b \in 0..15 |->
     CASE b = 15 -> {4, 1, 0} [] b = 14 -> {4, 3, 1} [] b = 13 -> 0..4
       [] b = 12 -> {4, 3, 2} [] b = 11 -> {3, 2, 1} [] b = 10 -> {4, 2, 0}
       [] b = 9 -> {3, 1, 0}  [] b = 8 -> {4, 2, 1}  [] b = 7 -> {4, 3, 0}
       [] b = 6 -> {3, 2, 0}  [] b = 5 -> {2, 1, 0}  [] OTHER -> {b}]

hamming_16_11_decode(w) ==
  LET syn  == hamming_16_11_syndrome(w)
      hits == {b \in 0..15 : Mask[b] = syn}
  IN  [ok   |-> syn = {} \/ hits # {},
       data |-> DataOf(IF syn = {} \/ hits = {} THEN w
                       ELSE Flip(w, CHOOSE b \in hits : TRUE))]

----------------------------------------------------------------------------
\* Sum of the nine bytes, modulo 31.
Byte(lc, n) ==
  128 * Bit(lc[8 * n + 7]) + 64 * Bit(lc[8 * n + 6]) + 32 * Bit(lc[8 * n + 5])
  + 16 * Bit(lc[8 * n + 4]) + 8 * Bit(lc[8 * n + 3]) + 4 * Bit(lc[8 * n + 2])
  + 2 * Bit(lc[8 * n + 1]) + Bit(lc[8 * n])
emblc_checksum5(lc) ==
  (Byte(lc, 0) + Byte(lc, 1) + Byte(lc, 2) + Byte(lc, 3) + Byte(lc, 4)
   + Byte(lc, 5) + Byte(lc, 6) + Byte(lc, 7) + Byte(lc, 8)) % 31
ChecksumBit(lc, k) == (emblc_checksum5(lc) \div (2^k)) % 2 = 1

\* The data of row r: eleven bits of link control, or ten and one of the
\* checksum.
RowData(lc, r) ==
  [j \in 0..10 |-> IF r = 0 THEN lc[61 + j]
                   ELSE IF r = 1 THEN lc[50 + j]
                   ELSE IF j = 0 THEN ChecksumBit(lc, 6 - r)
                   ELSE lc[10 * (6 - r) + j - 1]]

\* Column 0 of the matrix is bit 15 of its rows, and goes out first.
RowOf(s, r) == [b \in 0..15 |-> s[8 * (15 - b) + r]]

emblc_bptc_encode(lc, s) ==
  /\ s \in Stream
  /\ \A r \in 0..6 : RowOf(s, r) = hamming_16_11_encode(RowData(lc, r))
  /\ \A b \in 0..15 :
       RowOf(s, 7)[b] = Xor7(RowOf(s, 0)[b], RowOf(s, 1)[b], RowOf(s, 2)[b],
                             RowOf(s, 3)[b], RowOf(s, 4)[b], RowOf(s, 5)[b],
                             RowOf(s, 6)[b])

LcOf(rows) ==
  [i \in 0..71 |-> IF i >= 61 THEN rows[0][i - 61]
                   ELSE IF i >= 50 THEN rows[1][i - 50]
                   ELSE rows[6 - (i \div 10)][(i % 10) + 1]]

emblc_bptc_decode(s) ==
  LET rows  == [r \in 0..6 |-> hamming_16_11_decode(RowOf(s, r))]
      lc    == LcOf([r \in 0..6 |-> rows[r].data])
      whole == \A r \in 0..6 : rows[r].ok
  IN  [ok |-> whole /\ \A k \in 0..4 : rows[6 - k].data[0] = ChecksumBit(lc, k),
       lc |-> IF whole THEN lc ELSE [i \in 0..71 |-> FALSE]]
=============================================================================
