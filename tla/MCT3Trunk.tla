----------------------------- MODULE MCT3Trunk ------------------------------
(***************************************************************************)
(* Small instances of T3Trunk for TLC.                                     *)
(***************************************************************************)
EXTENDS T3Trunk

OneApp  == {"a"}
TwoApps == {"a", "b"}
TwoDsts == {"x", "y"}

\* a asks for x, b for y.
OneEach == [a \in Apps |-> IF a = "a" THEN {"x"} ELSE {"y"}]
=============================================================================
