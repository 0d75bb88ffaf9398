---------------------------- MODULE GroupCrypto ----------------------------
(***************************************************************************)
(* The keyed-verification credentials of the private groups (src/group) as *)
(* terms.  A MAC tag is the pair of the server key and the attributes it   *)
(* was computed over; a proof is the statement it was made for, with       *)
(* whether its witness satisfied that statement, and it verifies exactly   *)
(* for the statement the verifier rebuilds; a ciphertext is its key and    *)
(* its plaintext, so that equal plaintexts give equal ciphertexts.         *)
(***************************************************************************)
EXTENDS Naturals, Sequences

CONSTANTS
    None,           \* the absent value
    DaySecs         \* the length of a day in ticks of the clock

ASSUME DayAssumption == DaySecs \in Nat \ {0}

-----------------------------------------------------------------------------
(* Keys.  A server holds one key for each of the two kinds of credential;  *)
(* a group has one master key.                                             *)

SecretA(s) == <<s, "auth">>
SecretP(s) == <<s, "profile">>
PublicFromSecret(sk) == <<"public", sk>>

GroupPublicDerive(k) == <<"public", k>>

(* The local name of a group covers its format version. *)
GroupId(k, v) == <<k, v>>

-----------------------------------------------------------------------------
(* Attributes.  The second half of a profile attribute hashes the key with *)
(* its owner's UID.                                                        *)

AttrsUid(uid) == [uid |-> uid]
AttrAuth(uid, date) == [uid |-> uid, date |-> date]
AttrBlind(uid, pk) == [of |-> uid, pk |-> pk]
AttrProfile(uid, pk) == [uid |-> uid, blind |-> AttrBlind(uid, pk)]

(* A date that is no UTC midnight has no attribute: it is rejected, never  *)
(* rounded.                                                                *)
DayAligned(date) == date % DaySecs = 0

-----------------------------------------------------------------------------
(* MACs.                                                                   *)

Mac(sk, attrs) == [sk |-> sk, attrs |-> attrs]
MacVerify(sk, attrs, tag) == tag = Mac(sk, attrs)

-----------------------------------------------------------------------------
(* Proofs, and the statements they are made for.                           *)

ConjProve(stmt, holds) == [stmt |-> stmt, holds |-> holds]
ConjVerify(stmt, pi) == pi.holds /\ pi.stmt = stmt

PiI(pp, attrs, tag) == [pp |-> pp, attrs |-> attrs, tag |-> tag]
PiA(z, pub, com, ct) == [z |-> z, pub |-> pub, com |-> com, ct |-> ct]
PiP(z, pub, com, ct, pkct) ==
    [z |-> z, pub |-> pub, com |-> com, ct |-> ct, pkct |-> pkct]
PiBR(commit, yy, blind) == [commit |-> commit, yy |-> yy, blind |-> blind]
PiBI(pp, m, req, s) == [pp |-> pp, m |-> m, req |-> req, s |-> s]

-----------------------------------------------------------------------------
(* Verifiable encryption: deterministic, and a decryption under another    *)
(* key, or for another UID, is an error.                                   *)

UidEncrypt(k, uid) == [uidkey |-> k, uid |-> uid]
UidDecrypt(k, ct) == IF ct.uidkey = k THEN ct.uid ELSE None

PkEncrypt(k, uid, pk) == [pkkey |-> k, uid |-> uid, pk |-> pk]
PkDecrypt(k, uid, ct) == IF ct.pkkey = k /\ ct.uid = uid THEN ct.pk ELSE None

-----------------------------------------------------------------------------
(* The authentication credential: issued in the open, over a UID and a     *)
(* day.                                                                    *)

AuthIssue(s, uid, date) ==
    LET attrs == AttrAuth(uid, date)
        tag == Mac(SecretA(s), attrs)
    IN  [tag |-> tag,
         pi |-> ConjProve(PiI(PublicFromSecret(SecretA(s)), attrs, tag), TRUE)]

(* The client recomputes the attributes from the UID and the date it asked *)
(* for.                                                                    *)
AuthVerify(pp, uid, date, resp) ==
    /\ DayAligned(date)
    /\ ConjVerify(PiI(pp, AttrAuth(uid, date), resp.tag), resp.pi)

-----------------------------------------------------------------------------
(* The profile-key credential: the key is blinded under an ephemeral y.    *)

PkCommit(uid, pk) == [commit |-> AttrBlind(uid, pk)]

PkRequest(uid, pk, y) ==
    LET blind == AttrBlind(uid, pk)
    IN  [yy |-> y, blind |-> blind,
         pi |-> ConjProve(PiBR(PkCommit(uid, pk), y, blind), TRUE)]

PkRequestVerify(commit, req) ==
    /\ ConjVerify(PiBR(commit, req.yy, req.blind), req.pi)
    /\ commit.commit = req.blind

(* The answer carries the tag encrypted to the request's y. *)
PkBlindIssue(s, uid, req) ==
    LET tag == Mac(SecretP(s), [uid |-> uid, blind |-> req.blind])
        ct == [yy |-> req.yy, tag |-> tag]
    IN  [s |-> ct, pi |-> ConjProve(PiBI(PublicFromSecret(SecretP(s)), AttrsUid(uid), req, ct),
                                    TRUE)]

(* Mutant: the answer's proof is checked against the request it names, not *)
(* the one outstanding.                                                    *)
PkReceiveVerifyAnyRequest(pp, uid, req, resp) ==
    ConjVerify(PiBI(pp, AttrsUid(uid), resp.pi.stmt.req, resp.s), resp.pi)

PkReceiveVerify(pp, uid, req, resp) ==
    ConjVerify(PiBI(pp, AttrsUid(uid), req, resp.s), resp.pi)

(* Decrypting with another y gives an element that is no tag. *)
PkUnblind(y, resp) == IF resp.s.yy = y THEN resp.s.tag ELSE Mac(None, None)

-----------------------------------------------------------------------------
(* Presentations.  The committed attributes and the tag are hidden; the    *)
(* verifier recovers Z from its key, and it is the prover's exactly when   *)
(* the tag is a MAC over what was committed.                               *)

AuthPresent(k, uid, date, tag) ==
    LET com == [uid |-> uid, tag |-> tag]
        ct == UidEncrypt(k, uid)
    IN  [com |-> com, date |-> date, ct |-> ct,
         pi |-> ConjProve(PiA(TRUE, GroupPublicDerive(k), com, ct), TRUE)]

AuthPresentVerify(s, pub, pres) ==
    LET z == MacVerify(SecretA(s), AttrAuth(pres.com.uid, pres.date), pres.com.tag)
    IN  ConjVerify(PiA(z, pub, pres.com, pres.ct), pres.pi)

PkPresent(k, uid, pk, tag) ==
    LET com == [uid |-> uid, pk |-> pk, tag |-> tag]
        ct == UidEncrypt(k, uid)
        pkct == PkEncrypt(k, uid, pk)
    IN  [pkcom |-> com, ct |-> ct, pkct |-> pkct,
         pi |-> ConjProve(PiP(TRUE, GroupPublicDerive(k), com, ct, pkct), TRUE)]

(* Mutant: the server does not recompute Z from its key. *)
PkPresentVerifyNoMac(s, pub, pres) ==
    ConjVerify(PiP(TRUE, pub, pres.pkcom, pres.ct, pres.pkct), pres.pi)

PkPresentVerify(s, pub, pres) ==
    LET z == MacVerify(SecretP(s), AttrProfile(pres.pkcom.uid, pres.pkcom.pk), pres.pkcom.tag)
    IN  ConjVerify(PiP(z, pub, pres.pkcom, pres.ct, pres.pkct), pres.pi)
=============================================================================
