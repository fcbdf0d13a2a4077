---------------------------- MODULE DataService ----------------------------
(***************************************************************************)
(* What the applications of the radios may rely on when one sends a        *)
(* message (dmr_ccl_data.h): on_tx_complete() reports the end of every     *)
(* accepted message once, and the success of a confirmed message only      *)
(* after its destination delivered it.  A failure promises nothing: the    *)
(* message may have been delivered, and may be delivered again.            *)
(***************************************************************************)
CONSTANTS
  Messages,
  NeedsAck       \* the messages sent with ccl_data_tx_confirmed() or req_ack

VARIABLES
  told,       \* what the sender knows of each message
  delivered   \* messages their destination has received

vars == <<told, delivered>>

Init ==
  /\ told = [m \in Messages |-> "new"]
  /\ delivered = {}

Accept(m) ==
  /\ told[m] = "new"
  /\ told' = [told EXCEPT ![m] = "sending"]
  /\ UNCHANGED delivered

Deliver(m) ==
  /\ told[m] # "new"
  /\ delivered' = delivered \union {m}
  /\ UNCHANGED told

Report(m, success) ==
  /\ told[m] = "sending"
  /\ success => m \in delivered \/ m \notin NeedsAck
  /\ told' = [told EXCEPT ![m] = IF success THEN "ok" ELSE "failed"]
  /\ UNCHANGED delivered

Next ==
  \E m \in Messages :
    Accept(m) \/ Deliver(m) \/ \E success \in BOOLEAN : Report(m, success)

Spec == Init /\ [][Next]_vars
=============================================================================
