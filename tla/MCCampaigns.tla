---------------------------- MODULE MCCampaigns -----------------------------
(***************************************************************************)
(* A campaign of two messages, to one device, with one of each thread but  *)
(* the viewers.                                                            *)
(***************************************************************************)
EXTENDS Campaigns, TLC

CONSTANT phone1

MCDevices == {phone1}
MCOwner == [x \in Msgs \cup Conns |-> phone1]
MCFaults == {"lost_reply", "phone_dies"}
=============================================================================
