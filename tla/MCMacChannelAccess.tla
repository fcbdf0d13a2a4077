------------------------- MODULE MCMacChannelAccess -------------------------
(***************************************************************************)
(* Small instances of MacChannelAccess and its refinement for TLC.         *)
(***************************************************************************)
EXTENDS MacTxRefinement

CONSTANTS voice, data

AllPolite == [c \in Clients |-> {"polite"}]

\* Voice goes on in-call without listening, data is polite and may be late.
Mixed == [c \in Clients |->
            IF c = voice THEN {"impolite"} ELSE {"polite", "deadline"}]

Alike == [c \in Clients |-> MaxReq]
Uneven == [c \in Clients |-> IF c = voice THEN MaxReq ELSE 1]
=============================================================================
