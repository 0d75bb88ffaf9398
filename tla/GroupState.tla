----------------------------- MODULE GroupState -----------------------------
(***************************************************************************)
(* What a custodian keeps of its groups, and the calls an application      *)
(* makes on it (src/group/group_state.c, group_ops.c and                   *)
(* group_facade_client.c).  Nothing is kept in memory between calls: a     *)
(* call reads and writes sealed records, named <<kind, group>> (a          *)
(* profile-key credential also by its UID; the server's parameters by no   *)
(* group).                                                                 *)
(*                                                                         *)
(* Every operator maps the store st to [rc, out, st]: the return code, the *)
(* object emitted, and the store left behind.  bad is the set of the       *)
(* numbers of the call's store writes that fail.  cap is the caller's      *)
(* buffer: "null" (a size query), "small" or "enough".                     *)
(***************************************************************************)
EXTENDS GroupCrypto

CONSTANT FormatVersions     \* the group formats this build supports

Caps == {"null", "small", "enough"}

-----------------------------------------------------------------------------
(* The record store.                                                       *)

LoadRec(st, key) == IF key \in DOMAIN st THEN st[key] ELSE None
StoreRec(st, key, v) == [k \in DOMAIN st \cup {key} |-> IF k = key THEN v ELSE st[k]]
RemoveRec(st, key) == [k \in DOMAIN st \ {key} |-> st[k]]
RemoveUnless(failed, st, key) == IF failed THEN st ELSE RemoveRec(st, key)

MasterKey(g) == <<"MASTER_KEY", g>>
AuthCred(g) == <<"AUTH_CRED", g>>
PkCred(g, uid) == <<"PK_CRED", g, uid>>
OwnPk(g) == <<"OWN_PK", g>>
BlindState(g) == <<"BLIND_STATE", g>>
ServerParams == <<"SERVER_PARAMS">>

Result(rc, out, st) == [rc |-> rc, out |-> out, st |-> st]
Refuse(rc, st) == Result(rc, None, st)

(* The caller's buffer is looked at only here, after the call's effects. *)
Emit(obj, cap, st) ==
    Result(IF cap = "small" THEN "TOOLONG" ELSE "OK",
           IF cap = "enough" THEN obj ELSE None, st)

-----------------------------------------------------------------------------
(* The server's parameters and the group's key.                            *)

InstallServerParams(st, pub, bad) ==
    IF 1 \in bad THEN Refuse("STORE", st)
                 ELSE Result("OK", None, StoreRec(st, ServerParams, pub))

DeriveAndStoreMaster(st, k, v, bad) ==
    IF 1 \in bad THEN Refuse("STORE", st)
    ELSE Result("OK", GroupId(k, v),
                StoreRec(st, MasterKey(GroupId(k, v)), [key |-> k, ver |-> v]))

(* A group is made at the newest format. *)
NewestFormat == CHOOSE v \in FormatVersions : \A w \in FormatVersions : w <= v
GroupCreate(st, k, bad) == DeriveAndStoreMaster(st, k, NewestFormat, bad)

KeyEnvelope(k, v) == [envver |-> v, gmk |-> k]

InstallMasterKey(st, env, bad) ==
    IF env.envver \notin FormatVersions THEN Refuse("UNSUPPORTED", st)
    ELSE DeriveAndStoreMaster(st, env.gmk, env.envver, bad)

(* A record that does not rederive the name it is filed under is refused. *)
GroupLoad(st, g) ==
    LET r == LoadRec(st, MasterKey(g))
    IN  IF r = None THEN "NOT_FOUND" ELSE IF GroupId(r.key, r.ver) # g THEN "VERIFY" ELSE "OK"

GroupSecret(st, g) == st[MasterKey(g)].key

ExportKeyEnvelope(st, g, cap) ==
    LET r == LoadRec(st, MasterKey(g))
    IN  IF r = None THEN Refuse("NOT_FOUND", st) ELSE Emit(KeyEnvelope(r.key, r.ver), cap, st)

ExportGroupPublicParams(st, g, cap) ==
    IF GroupLoad(st, g) # "OK" THEN Refuse(GroupLoad(st, g), st)
    ELSE Emit(GroupPublicDerive(GroupSecret(st, g)), cap, st)

-----------------------------------------------------------------------------
(* Forgetting a group: the dependent records, the master key, then, in any *)
(* case, the state of an outstanding request.                              *)

(* Mutant: the master key goes first. *)
DeleteOrderKeyFirst(g) == <<MasterKey(g), AuthCred(g), OwnPk(g)>>

DeleteOrder(g) == <<AuthCred(g), OwnPk(g), MasterKey(g)>>

Removed(bad) == {i \in 1 .. 3 : \A j \in 1 .. i : j \notin bad}

DeleteStored(st, g, bad) ==
    LET gone == {DeleteOrder(g)[i] : i \in Removed(bad)}
    IN  Result(IF Removed(bad) = 1 .. 3 THEN "OK" ELSE "STORE", None,
               [k \in DOMAIN st \ gone |-> st[k]])

Forget(st, g, bad) ==
    LET d == DeleteStored(st, g, bad)
    IN  Result(d.rc, None, RemoveUnless(4 \in bad, d.st, BlindState(g)))

-----------------------------------------------------------------------------
(* Credentials.                                                            *)

(* The server's answer is verified for the UID and the date given, then    *)
(* stored over any earlier credential.  The group itself is not looked at. *)
ReceiveAuthCredential(st, g, uid, date, resp, bad) ==
    LET pub == LoadRec(st, ServerParams)
    IN  IF pub = None THEN Refuse("STATE", st)
        ELSE IF ~AuthVerify(pub.a, uid, date, resp) THEN Refuse("VERIFY", st)
        ELSE IF 1 \in bad THEN Refuse("STORE", st)
        ELSE Result("OK", None, StoreRec(st, AuthCred(g), [tag |-> resp.tag, date |-> date]))

ProfileKeyCommit(st, g, uid, pk, cap, bad) ==
    IF 1 \in bad THEN Refuse("STORE", st)
    ELSE Emit(PkCommit(uid, pk), cap, StoreRec(st, OwnPk(g), pk))

(* y is fresh; a second request for the group overwrites the first. *)
PkCredentialRequest(st, g, uid, pk, y, cap, bad) ==
    LET req == PkRequest(uid, pk, y)
    IN  IF 1 \in bad THEN Refuse("STORE", st)
        ELSE Emit(req, cap, StoreRec(st, BlindState(g), [req |-> req, y |-> y]))

FinishVerifies(st, g, uid, resp) ==
    PkReceiveVerify(LoadRec(st, ServerParams).p, uid, LoadRec(st, BlindState(g)).req, resp)

PkCredentialFinish(st, g, uid, resp, bad) ==
    IF None \in {LoadRec(st, BlindState(g)), LoadRec(st, ServerParams)} THEN Refuse("STATE", st)
    ELSE IF ~FinishVerifies(st, g, uid, resp) THEN Refuse("VERIFY", st)
    ELSE IF 1 \in bad THEN Refuse("STORE", st)
    ELSE Result("OK", None,
                RemoveUnless(2 \in bad,
                   StoreRec(st, PkCred(g, uid), PkUnblind(st[BlindState(g)].y, resp)),
                   BlindState(g)))

-----------------------------------------------------------------------------
(* Presentations.                                                          *)

(* Mutant: a credential stays good after its day. *)
AuthCredValidSince(cred, now) == now >= cred.date

AuthCredValid(cred, now) == (now \div DaySecs) * DaySecs = cred.date

AuthAsMember(st, g, uid, now, cap) ==
    LET cred == LoadRec(st, AuthCred(g))
    IN  IF cred = None THEN Refuse("NOT_FOUND", st)
        ELSE IF ~AuthCredValid(cred, now) THEN Refuse("EXPIRED", st)
        ELSE Emit(AuthPresent(GroupSecret(st, g), uid, cred.date, cred.tag), cap, st)

(* Presentations need the group's key and the server's parameters. *)
LoadForPresentation(st, g) ==
    IF GroupLoad(st, g) # "OK" THEN GroupLoad(st, g)
    ELSE IF LoadRec(st, ServerParams) = None THEN "STATE" ELSE "OK"

(* A custodian opened without a clock has no day to compare with. *)
AuthPresentCall(st, g, uid, clock, now, cap) ==
    LET rc == LoadForPresentation(st, g)
    IN  IF ~clock THEN Refuse("STATE", st)
        ELSE IF rc # "OK" THEN Refuse(rc, st) ELSE AuthAsMember(st, g, uid, now, cap)

AddMember(st, g, uid, pk, cap) ==
    LET rc == LoadForPresentation(st, g)
        cred == LoadRec(st, PkCred(g, uid))
    IN  IF rc # "OK" THEN Refuse(rc, st)
        ELSE IF cred = None THEN Refuse("NOT_FOUND", st)
        ELSE Emit(PkPresent(GroupSecret(st, g), uid, pk, cred), cap, st)

AddInvitedMember(st, g, uid, cap) ==
    IF GroupLoad(st, g) # "OK" THEN Refuse(GroupLoad(st, g), st)
    ELSE Emit(UidEncrypt(GroupSecret(st, g), uid), cap, st)

(* The new key is stored, then the credential dropped as far as the store  *)
(* allows.                                                                 *)
UpdateStored(st, g, uid, pk, cap, bad) ==
    IF 1 \in bad THEN Refuse("STORE", st)
    ELSE Emit(PkPresent(GroupSecret(st, g), uid, pk, LoadRec(st, PkCred(g, uid))), cap,
              RemoveUnless(2 \in bad, StoreRec(st, OwnPk(g), pk), PkCred(g, uid)))

UpdateProfileKey(st, g, uid, pk, cap, bad) ==
    LET rc == LoadForPresentation(st, g)
    IN  IF rc # "OK" THEN Refuse(rc, st)
        ELSE IF LoadRec(st, PkCred(g, uid)) = None THEN Refuse("NOT_FOUND", st)
        ELSE UpdateStored(st, g, uid, pk, cap, bad)

DeleteMember(st, g, uid, cap, bad) ==
    IF GroupLoad(st, g) # "OK" THEN Refuse(GroupLoad(st, g), st)
    ELSE Emit(UidEncrypt(GroupSecret(st, g), uid), cap,
              RemoveUnless(1 \in bad, st, PkCred(g, uid)))

-----------------------------------------------------------------------------
(* Reading the roster: all entries decrypt or none is returned.            *)

DecryptMember(k, e) ==
    LET uid == UidDecrypt(k, e.ct)
    IN  [uid |-> uid, pk |-> IF e.pkct = None THEN None ELSE PkDecrypt(k, uid, e.pkct)]

MemberOpens(k, e) ==
    /\ UidDecrypt(k, e.ct) # None
    /\ e.pkct # None => PkDecrypt(k, UidDecrypt(k, e.ct), e.pkct) # None

FetchMembers(st, g, list) ==
    IF GroupLoad(st, g) # "OK" THEN Refuse(GroupLoad(st, g), st)
    ELSE IF \E i \in DOMAIN list : ~MemberOpens(GroupSecret(st, g), list[i])
         THEN Refuse("VERIFY", st)
    ELSE Result("OK", [i \in DOMAIN list |-> DecryptMember(GroupSecret(st, g), list[i])], st)
=============================================================================
