---------------------------- MODULE GroupServer ----------------------------
(***************************************************************************)
(* The server of the private groups: the stateless operations of the       *)
(* library over its secret key (src/group/group_facade_server.c), and the  *)
(* roster the coordinator of the examples keeps around them                *)
(* (examples/group_coordinator.c).                                         *)
(*                                                                         *)
(* A roster entry is [ct, pkct, used]; pkct = None marks an invited        *)
(* member.  A slot once taken is kept and reused.                          *)
(***************************************************************************)
EXTENDS GroupState, FiniteSetsExt

CONSTANT RosterMax          \* ROSTER_MAX

-----------------------------------------------------------------------------
(* The library.                                                            *)

(* The key is sealed under a credential; no key and a wrong credential are *)
(* told apart.                                                             *)
ServerSeal(s, cred) == [sealed |-> s, under |-> cred]
ServerOpen(blob, cred) ==
    IF blob = None THEN Refuse("STATE", None)
    ELSE IF blob.under # cred THEN Refuse("VERIFY", None)
    ELSE Result("OK", blob.sealed, None)

ServerExportPublic(s) ==
    [a |-> PublicFromSecret(SecretA(s)), p |-> PublicFromSecret(SecretP(s))]

ServerIssueAuth(s, uid, date) ==
    IF ~DayAligned(date) THEN Refuse("ARG", None) ELSE Result("OK", AuthIssue(s, uid, date), None)

ServerBlindIssuePk(s, uid, commit, req) ==
    IF ~PkRequestVerify(commit, req) THEN Refuse("VERIFY", None)
    ELSE Result("OK", PkBlindIssue(s, uid, req), None)

ServerVerifyAuth(s, pub, pres) ==
    IF ~AuthPresentVerify(s, pub, pres) THEN Refuse("VERIFY", None)
    ELSE Result("OK", pres.ct, None)

ServerVerifyPk(s, pub, pres) ==
    IF ~PkPresentVerify(s, pub, pres) THEN Refuse("VERIFY", None)
    ELSE Result("OK", [ct |-> pres.ct, pkct |-> pres.pkct], None)

-----------------------------------------------------------------------------
(* The coordinator's roster.                                               *)

Entry(ct, pkct) == [ct |-> ct, pkct |-> pkct, used |-> TRUE]

RosterFind(r, ct) == {i \in DOMAIN r : r[i].used /\ r[i].ct = ct}

(* The member's slot, a free one, a new one, or 0 when the roster is full. *)
RosterSlot(r, ct) ==
    LET free == {i \in DOMAIN r : ~r[i].used}
    IN  IF RosterFind(r, ct) # {} THEN Min(RosterFind(r, ct))
        ELSE IF free # {} THEN Min(free)
        ELSE IF Len(r) < RosterMax THEN Len(r) + 1 ELSE 0

RosterPut(r, i, e) == IF i <= Len(r) THEN [r EXCEPT ![i] = e] ELSE Append(r, e)

(* The RPCs that change the roster: [rc, out], out being the roster after. *)
RpcAddMember(s, pub, r, pres) ==
    LET v == ServerVerifyPk(s, pub, pres)
        i == RosterSlot(r, pres.ct)
    IN  IF pub = None \/ v.rc # "OK" \/ i = 0 THEN Result("FAIL", r, None)
        ELSE Result("REPLY", RosterPut(r, i, Entry(v.out.ct, v.out.pkct)), None)

RpcAddInvited(r, ct) ==
    LET i == RosterSlot(r, ct)
    IN  IF i = 0 THEN Result("FAIL", r, None)
        ELSE Result("REPLY", RosterPut(r, i, Entry(ct, None)), None)

RpcDeleteMember(r, ct) ==
    Result("REPLY", [i \in DOMAIN r |-> IF i \in RosterFind(r, ct)
                                        THEN [r[i] EXCEPT !.used = FALSE] ELSE r[i]], None)

RpcVerifyAuth(s, pub, pres) ==
    IF pub = None \/ ServerVerifyAuth(s, pub, pres).rc # "OK" THEN "FAIL" ELSE "REPLY"

RpcFetchMembers(r) ==
    LET list[i \in 0 .. Len(r)] ==
          IF i = 0 THEN << >>
          ELSE IF r[i].used THEN Append(list[i - 1], r[i]) ELSE list[i - 1]
    IN  list[Len(r)]
=============================================================================
