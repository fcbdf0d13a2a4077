---------------------------- MODULE MacTxService ----------------------------
(***************************************************************************)
(* What a module may rely on when it hands requests to the MAC of its slot *)
(* (dmr_mac.h): a burst goes out at most once and bursts of one module go  *)
(* out in the order they were requested; DMR_MAC_TX_OK is reported once,   *)
(* after the burst went out; a request is refused at most once, and one    *)
(* refused as cancelled or late does not go out.                           *)
(*                                                                         *)
(* What it may not rely on is as telling: nothing says a request is ever   *)
(* answered, and one reported ABORTED may still go out and be reported OK. *)
(***************************************************************************)
EXTENDS Naturals

CONSTANTS Clients, Quota, MaxReq

VARIABLES
  next,      \* the next request id of each client
  aired,     \* how often each request went out
  verdicts   \* how often each result was reported for each request

vars == <<next, aired, verdicts>>

Keys     == Clients \X (1..MaxReq)
Final    == {"CANCELLED", "DEADLINE"}
Refusals == Final \cup {"ABORTED"}
Results  == Refusals \cup {"OK"}

Submitted(k) == k[2] < next[k[1]]
Refused(k, S) == \E r \in S : verdicts[k][r] > 0

Init ==
  /\ next = [c \in Clients |-> 1]
  /\ aired = [k \in Keys |-> 0]
  /\ verdicts = [k \in Keys |-> [r \in Results |-> 0]]

Submit(c) ==
  /\ next[c] <= Quota[c]
  /\ next' = [next EXCEPT ![c] = @ + 1]
  /\ UNCHANGED <<aired, verdicts>>

Transmit(k) ==
  /\ Submitted(k)
  /\ aired[k] = 0
  /\ ~Refused(k, Final)
  /\ \A id \in 1..MaxReq : id > k[2] => aired[<<k[1], id>>] = 0
  /\ aired' = [aired EXCEPT ![k] = 1]
  /\ UNCHANGED <<next, verdicts>>

Report(k, r) == verdicts' = [verdicts EXCEPT ![k][r] = @ + 1]

Confirm(k) ==
  /\ aired[k] = 1
  /\ verdicts[k]["OK"] = 0
  /\ Report(k, "OK")
  /\ UNCHANGED <<next, aired>>

Refuse(k, r) ==
  /\ Submitted(k)
  /\ ~Refused(k, Refusals)
  /\ verdicts[k]["OK"] = 0
  /\ r \in Final => aired[k] = 0
  /\ Report(k, r)
  /\ UNCHANGED <<next, aired>>

Next ==
  \/ \E c \in Clients : Submit(c)
  \/ \E k \in Keys :
       Transmit(k) \/ Confirm(k) \/ \E r \in Refusals : Refuse(k, r)

Spec == Init /\ [][Next]_vars
=============================================================================
