----------------------------- MODULE MCDispatch -----------------------------
(***************************************************************************)
(* Small instances of Dispatch: one device, one or two messages, of which  *)
(* message 2 (or the only one) belongs to the campaign.  The bound on time *)
(* is the largest deadline: a countdown at 0 stays there.                  *)
(***************************************************************************)
EXTENDS Dispatch, TLC

CONSTANT phone1     \* the device, a model value

MCDevices == {phone1}

MCOwner == [x \in Msgs \cup Conns |-> phone1]

MCFaults == FaultKinds
MCFaultsNoCrash == {"lost_reply", "phone_dies"}
MCFaultsMild == {"lost_reply", "phone_dies", "deactivate"}

(* Connections, threads and runs are interchangeable: they differ in name  *)
(* only, and all of them serve the one device.                             *)
Symmetry == Permutations(Conns) \cup Permutations(Reports) \cup Permutations(Runs)
=============================================================================
