---------------------------- MODULE QspgsHistory ----------------------------
(***************************************************************************)
(* What a post-quantum private group promises its members, however many    *)
(* admins edit it and whatever answers are lost: one line of versions.     *)
(* Each version is made from the one before it by an admin of the one      *)
(* before it, a version that drops somebody is sealed under a key no       *)
(* earlier version used, and nothing already published changes.            *)
(***************************************************************************)
EXTENDS Naturals, Sequences

VARIABLE vers     \* the versions: [mem, adm, key, by] each

KeysOf(line) == {line[i].key : i \in DOMAIN line}

(* v may come after the versions of line. *)
Continues(line, v) ==
    IF line = << >>
    THEN v.mem = {v.by} /\ v.adm = {v.by}
    ELSE LET p == line[Len(line)]
         IN  /\ v.by \in p.adm
             /\ p.mem \subseteq v.mem \/ v.key \notin KeysOf(line)
             /\ v.key = p.key \/ v.key \notin KeysOf(line)

Init == \A i \in DOMAIN vers : Continues(SubSeq(vers, 1, i - 1), vers[i])

Publish ==
    /\ Len(vers') = Len(vers) + 1
    /\ SubSeq(vers', 1, Len(vers)) = vers
    /\ Continues(vers, vers'[Len(vers')])

Spec == Init /\ [][Publish]_vers
=============================================================================
