------------------------------ MODULE Delivery ------------------------------
(***************************************************************************)
(* What ownsms promises of a webhook event, with no table, no clock and no *)
(* runs: an event that was taken in is tried while it is pending, at most  *)
(* MaxAttempts times; it ends delivered, and then an attempt was           *)
(* acknowledged, or failed, and then every attempt was made.  An attempt   *)
(* that was not acknowledged may have been taken all the same: its answer  *)
(* got lost.                                                               *)
(*                                                                         *)
(* Webhooks implements this module while one run at a time delivers and    *)
(* none dies between a POST and its save.                                  *)
(***************************************************************************)
EXTENDS Naturals

CONSTANTS
  Deliveries,     \* the events
  MaxAttempts     \* how often each may be tried

VARIABLES
  stage,     \* of each event: "none", "pending", "delivered" or "failed"
  tries,     \* how often it was tried
  acked      \* has an attempt of it been acknowledged?

vars == <<stage, tries, acked>>

Init ==
  /\ stage = [d \in Deliveries |-> "none"]
  /\ tries = [d \in Deliveries |-> 0]
  /\ acked = [d \in Deliveries |-> FALSE]

Accept(d) ==
  /\ stage[d] = "none"
  /\ stage' = [stage EXCEPT ![d] = "pending"]
  /\ UNCHANGED <<tries, acked>>

Try(d, got) ==
  /\ stage[d] = "pending" /\ tries[d] < MaxAttempts
  /\ tries' = [tries EXCEPT ![d] = @ + 1]
  /\ acked' = [acked EXCEPT ![d] = @ \/ got]
  /\ UNCHANGED stage

Settle(d, end) ==
  /\ stage[d] = "pending"
  /\ \/ end = "delivered" /\ acked[d]
     \/ end = "failed" /\ tries[d] = MaxAttempts
  /\ stage' = [stage EXCEPT ![d] = end]
  /\ UNCHANGED <<tries, acked>>

Next ==
  \E d \in Deliveries :
    \/ Accept(d)
    \/ \E got \in BOOLEAN : Try(d, got)
    \/ \E end \in {"delivered", "failed"} : Settle(d, end)

Spec == Init /\ [][Next]_vars
=============================================================================
