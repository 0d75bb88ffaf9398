----------------------------- MODULE MCEndpoint -----------------------------
(***************************************************************************)
(* Endpoint for TLC.  No two base keys hash to the same session id, so     *)
(* devices and base keys are interchangeable; a scenario that tells them   *)
(* apart does so in the state.                                             *)
(***************************************************************************)
EXTENDS Endpoint

CONSTANTS d1, d2, b1, b2, b3

Distinct == [b \in Bases |-> b]

Quiet(hybrid, devices, bases) ==
  [hybrid |-> hybrid, devices |-> devices, bases |-> bases, noOpk |-> {},
   faults |-> FALSE, overlap |-> FALSE, bad |-> FALSE]

\* No callback fails: two devices that share the index, also with bundles that
\* are refused half way, and one device with more sessions than it has places,
\* one of them for an inactive session.
Calm == {[Quiet(TRUE, {d1, d2}, {b1, b2}) EXCEPT !.bad = TRUE],
         Quiet(TRUE, {d1}, {b1, b2, b3})}

\* Any callback may fail, in both kinds of suite, with two one-time prekeys or one.
Faulty == {[Quiet(h, {d1}, {b1, b2}) EXCEPT !.noOpk = IF h THEN {b2} ELSE {},
                                            !.faults = TRUE, !.bad = TRUE] :
             h \in BOOLEAN}

CalmAndFaulty == Calm \cup Faulty

FaultyWithOpk == {[Quiet(h, {d1}, {b1}) EXCEPT !.faults = TRUE] : h \in BOOLEAN}

Symmetry == Permutations(Devices) \cup Permutations(Bases)
==============================================================================
