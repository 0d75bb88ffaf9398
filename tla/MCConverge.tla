----------------------------- MODULE MCConverge -----------------------------
(* Converge for TLC, with no two base keys hashing to the same session id. *)
EXTENDS Converge

Distinct == [b \in Bases |-> b]
==============================================================================
