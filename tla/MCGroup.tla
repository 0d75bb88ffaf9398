------------------------------ MODULE MCGroup ------------------------------
(***************************************************************************)
(* Small instances of Group for TLC.                                       *)
(***************************************************************************)
EXTENDS Group, TLC

CONSTANTS a, u1, u2

(* One custodian; the other account appears in invitations. *)
OneUid == a :> u1

(* The member and another account; the member alone, asking twice. *)
MCScenarios == {[others |-> {u2}, reqs |-> 1], [others |-> {}, reqs |-> 2]}

Symmetry == Permutations(ProfileKeys)
=============================================================================
