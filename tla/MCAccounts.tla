----------------------------- MODULE MCAccounts -----------------------------
(***************************************************************************)
(* Two accounts, three devices, four keys and one code: primary keys are   *)
(* the bound on how many rows there can be.                                *)
(***************************************************************************)
EXTENDS Accounts, TLC

MCScopes == {"send", "read"}

Symmetry == Permutations(Accounts) \cup Permutations(Devices) \cup Permutations(ApiKeys)
              \cup Permutations(Threads)
=============================================================================
