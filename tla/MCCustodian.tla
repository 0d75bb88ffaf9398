---------------------------- MODULE MCCustodian -----------------------------
(* Custodian for TLC: no credential is told from another. *)
EXTENDS Custodian, TLC

Symmetry == Permutations(Creds)
==============================================================================
