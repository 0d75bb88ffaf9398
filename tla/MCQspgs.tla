------------------------------- MODULE MCQspgs -------------------------------
(***************************************************************************)
(* Small groups for Qspgs: a (the founder), c and b stand in that order at *)
(* version 4, a and b admins; d is outside.                                *)
(***************************************************************************)
EXTENDS Qspgs

CONSTANTS a, b, c, d

MCStanding == << a, c, b >>

Scenario(ops, movers) ==
    [ops |-> ops, movers |-> movers, authors |-> movers, standing |-> TRUE,
     acquainted |-> Users \X Users, start |-> {}, flags |-> {}, solo |-> FALSE, maxv |-> 6, maxk |-> 4, maxl |-> 2, maxep |-> 1]

(* Two admins rotate, and two rotate and remove, while answers get lost and *)
(* processes stop.                                                          *)
Rotations == Scenario({"rotate", "faults"}, {a, b})
Removals == [Scenario({"remove", "rotate", "faults"}, {a, b}) EXCEPT !.maxk = 3]

(* One admin rotates, adds and removes, nothing is lost. *)
CalmRotations == [Scenario({"remove", "rotate", "add"}, {a}) EXCEPT !.solo = TRUE, !.maxv = 7]

(* Members leave, add others and refresh their keys; admins consolidate;   *)
(* the server may serve any version.                                       *)
Lines == [Scenario({"leave", "adduser", "consolidate", "stale"}, {a, c})
            EXCEPT !.acquainted = (Users \X Users) \ {<<c, b>>},
                   !.authors = {c}, !.start = {"add"}, !.maxv = 5]
Refreshes == [Scenario({"refresh", "acquaint", "consolidate"}, {b, c})
                EXCEPT !.authors = {c}, !.maxv = 5, !.maxl = 1, !.maxep = 2]

(* A group from its first version, with settings. *)
Founding == [Scenario({"create", "add", "setadmin", "settings", "modattr", "consolidate"},
                      {a})
               EXCEPT !.maxk = 2, !.maxl = 1,
                      !.standing = FALSE, !.acquainted = {a} \X Users, !.maxv = 3,
                      !.start = {"attr"}, !.flags = {{}}]

(* Two admins invite, revoke and complete at once, also for those who are   *)
(* members; one of them does so for longer.                                 *)
Invitations == [Scenario({"invite", "complete", "revoke"}, {a, b}) EXCEPT !.maxk = 3]
Reinvitations == [Scenario({"invite", "complete", "revoke"}, {a})
                    EXCEPT !.maxv = 7, !.maxk = 5]

(* d joins over a link, perhaps twice, and an admin lists who joined; and   *)
(* once, while the admin also rotates the key under the link.               *)
Links == Scenario({"link", "join", "consolidate"}, {b, d})
LinkRotations == [Scenario({"link", "join", "rotate", "consolidate", "forget"}, {b, d})
                    EXCEPT !.maxl = 1]

MCScenarios == {Rotations, Removals, CalmRotations, Lines, Refreshes, Founding,
                Invitations, Reinvitations, Links, LinkRotations}

(* The scenario in which the code does not do what its documents say. *)
Acceptances == {Scenario({"invite", "consolidate"}, {a})}
==============================================================================
