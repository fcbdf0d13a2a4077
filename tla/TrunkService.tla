---------------------------- MODULE TrunkService ----------------------------
(***************************************************************************)
(* What the application may rely on when it asks the Tier III client for a *)
(* channel (dmr_t3_trunk.h): one request is open at a time, every request  *)
(* that was accepted gets one verdict, and on_grant_result() reports that  *)
(* verdict once.  Nothing is promised about the order in which the reports *)
(* of two requests reach the application.                                  *)
(***************************************************************************)
EXTENDS Naturals

CONSTANT MaxReq   \* bound: requests

VARIABLES
  accepted,   \* requests accepted so far
  open,       \* the request being served, 0 when none
  verdict,    \* the verdict of each request
  told        \* how often the verdict of each request was reported

vars == <<accepted, open, verdict, told>>

Reqs     == 1..MaxReq
Verdicts == {"OK", "TIMEOUT", "TX_FAILED", "ABORTED"}

Init ==
  /\ accepted = 0
  /\ open = 0
  /\ verdict = [r \in Reqs |-> "none"]
  /\ told = [r \in Reqs |-> 0]

\* A request is served, or fails at once because it cannot be transmitted.
Accept ==
  /\ open = 0
  /\ accepted < MaxReq
  /\ accepted' = accepted + 1
  /\ \/ /\ open' = accepted + 1
        /\ UNCHANGED verdict
     \/ /\ verdict' = [verdict EXCEPT ![accepted + 1] = "TX_FAILED"]
        /\ UNCHANGED open
  /\ UNCHANGED told

Decide ==
  /\ open # 0
  /\ \E v \in Verdicts : verdict' = [verdict EXCEPT ![open] = v]
  /\ open' = 0
  /\ UNCHANGED <<accepted, told>>

Tell(r) ==
  /\ verdict[r] # "none"
  /\ told[r] = 0
  /\ told' = [told EXCEPT ![r] = 1]
  /\ UNCHANGED <<accepted, open, verdict>>

Next == Accept \/ Decide \/ \E r \in Reqs : Tell(r)

Spec == Init /\ [][Next]_vars
=============================================================================
