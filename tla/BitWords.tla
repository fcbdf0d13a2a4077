------------------------------ MODULE BitWords ------------------------------
(***************************************************************************)
(* Words of bits, as functions from bit numbers to BOOLEAN.                *)
(***************************************************************************)
EXTENDS Integers

Flip(w, i) == [w EXCEPT ![i] = ~@]
Bit(b)     == IF b THEN 1 ELSE 0
=============================================================================
