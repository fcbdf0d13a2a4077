---------------------------- MODULE OneShotTimer ----------------------------
(***************************************************************************)
(* The one-shot timers of dmr_phy.c that every worker thread waits for: a  *)
(* timerfd, of which the kernel knows whether it runs or has an expiry     *)
(* nobody read, and a user-space flag that lets disarm() skip the system   *)
(* call.  A module keeps a function from its timers to these records; left *)
(* counts the time to the expiry where the module models time, and is 0    *)
(* where a running timer may expire at any moment.                         *)
(***************************************************************************)
EXTENDS Integers

Off == [kern |-> "off", left |-> 0, armed |-> FALSE]

\* timerfd_settime() starts the timer anew and forgets an unread expiry.
Arm(tm, t, k) ==
  [tm EXCEPT ![t] = [kern |-> "running", left |-> k, armed |-> TRUE]]

Disarm(tm, t) == IF tm[t].armed THEN [tm EXCEPT ![t] = Off] ELSE tm

\* read() takes an expiry if there is one; the flag is cleared in any case.
Drain(tm, t) ==
  [tm EXCEPT ![t] = IF @.kern = "expired" THEN Off
                                          ELSE [@ EXCEPT !.armed = FALSE]]

\* The kernel's side of a timer whose time has come.
Due(tm, t)     == tm[t].kern = "running" /\ tm[t].left = 0
Expired(tm, t) == [tm EXCEPT ![t].kern = "expired"]
=============================================================================
