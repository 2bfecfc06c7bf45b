----------------------------- MODULE Lifecycle -----------------------------
(***************************************************************************)
(* What ownsms promises about the life of one SMS, with no database, no    *)
(* threads and no clock: the stages a message goes through and the edges   *)
(* between them.  The stages are the values of Message.status, except that *)
(* "sending" is the public name of "dispatched" and that a message failed  *)
(* with error_code "lease_timeout" is "presumed": the server guesses that  *)
(* it failed, and a later report of the device may correct the guess.      *)
(*                                                                         *)
(* Dispatch implements this module when the device sends its reports on a  *)
(* message one at a time.                                                  *)
(***************************************************************************)
CONSTANT Msgs       \* the messages

VARIABLE stage      \* stage[m]: where message m is in its life

Stages == {"none", "queued", "sending", "presumed",
           "sent", "delivered", "failed", "expired", "canceled"}

(* The edges of the lifecycle: who may follow whom.                        *)
Edges ==
  {<<"none", "queued">>,                                   \* accepted
   <<"queued", "sending">>,                                \* handed to the device
   <<"queued", "expired">>, <<"queued", "canceled">>,
   <<"sending", "sent">>, <<"sending", "failed">>,         \* reported
   <<"sending", "presumed">>,                              \* lease over
   <<"presumed", "sent">>, <<"presumed", "delivered">>,    \* late reports
   <<"presumed", "failed">>,
   <<"sent", "delivered">>, <<"sent", "failed">>}          \* delivery report

Init == stage = [m \in Msgs |-> "none"]

(* A step moves a batch of messages along one edge: the code's bulk        *)
(* statements (claim, cancel a campaign, reclaim) move several at once.    *)
Move(S, edge) ==
  /\ \A m \in S : stage[m] = edge[1]
  /\ stage' = [m \in Msgs |-> IF m \in S THEN edge[2] ELSE stage[m]]

Next == \E S \in SUBSET Msgs, edge \in Edges : Move(S, edge)

Spec == Init /\ [][Next]_stage
=============================================================================
