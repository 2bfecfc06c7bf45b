------------------------------ MODULE MCDevices ------------------------------
(***************************************************************************)
(* A device with two SIMs, one SIM of another device, two administrators   *)
(* and one poll.                                                           *)
(***************************************************************************)
EXTENDS Devices, TLC

MCDeviceOf == [s \in Sims |-> IF s = 9 THEN "other" ELSE "phone"]

Symmetry == Permutations(Editors)
=============================================================================
