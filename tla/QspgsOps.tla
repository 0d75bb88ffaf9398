------------------------------ MODULE QspgsOps ------------------------------
(***************************************************************************)
(* The client library of the post-quantum private groups: member entries,  *)
(* the edits of a core, appendix lines and the verification of a fetched   *)
(* version (src/qspgs/qspgs_ops.c and qspgs_facade_client.c).              *)
(*                                                                         *)
(* Keys are numbers.  Whoever holds a group key opens what is sealed under *)
(* it, so "opens" is equality with the core's key.  A user's key is the    *)
(* number of the epoch it was derived for; NoKey is the all-zero key.      *)
(* A store s has the fields gk, pend (the current and the staged group     *)
(* key), jls (the link secret) and acq (acquaintances: the epoch of the    *)
(* user key accepted for each, 0 if none).  accts maps the users whose     *)
(* account record the caller supplies to the epoch it attests.             *)
(***************************************************************************)
EXTENDS QspgsCrypto, FiniteSets, Sequences, FiniteSetsExt, Functions

-----------------------------------------------------------------------------
(* Member entries.                                                         *)

MemberBuild(uid, uk, admn) ==
    [uid |-> uid, admn |-> admn, pend |-> FALSE, key |-> uk]

(* An invitee who has not answered: the key slot holds the key gk' of the  *)
(* invitation.                                                             *)
MemberBuildPending(uid, gkp) ==
    [uid |-> uid, admn |-> FALSE, pend |-> TRUE, key |-> gkp]

(* Decrypting leaves the key of a pending entry zeroed. *)
MemberDecrypt(m) == IF m.pend THEN [m EXCEPT !.key = NoKey] ELSE m

VkLst(mem, gk) == [i \in DOMAIN mem |-> AttributeHash(mem[i].uid, gk)]

PlacesOf(mem, uid) == {i \in DOMAIN mem : mem[i].uid = uid}
IndexOf(mem, uid) == IF PlacesOf(mem, uid) = {} THEN 0 ELSE Min(PlacesOf(mem, uid))
LastIndexOf(mem, uid) == IF PlacesOf(mem, uid) = {} THEN 0 ELSE Max(PlacesOf(mem, uid))

(* What stands at the places at of a sequence, in order. *)
Kept(seq, at) ==
    LET upto[i \in 0 .. Len(seq)] ==
            IF i = 0 THEN << >>
            ELSE IF i \in at THEN Append(upto[i - 1], seq[i]) ELSE upto[i - 1]
    IN  upto[Len(seq)]

-----------------------------------------------------------------------------
(* The local store, and opening a core.                                    *)

GroupKeyStore(s, gk) == [s EXCEPT !.gk = gk]

(* A rotated key is staged beside the current one, one at a time, and      *)
(* committed or rolled back when the fate of the edit is known.            *)
CanStage(s) == s.pend = NoKey
GroupKeyStage(s, gk) == [s EXCEPT !.pend = gk]
GroupKeyCommit(s) == [s EXCEPT !.gk = s.pend, !.pend = NoKey]
GroupKeyRollback(s) == [s EXCEPT !.pend = NoKey]

(* A secret of NoKey deletes the record. *)
JoinlinkStore(s, jls) == [s EXCEPT !.jls = jls]
AcquaintanceStore(s, uid, uk) == [s EXCEPT !.acq[uid] = uk]

(* The staged key shadows the current one. *)
GroupKeyLoad(s) == IF s.pend # NoKey THEN s.pend ELSE s.gk

(* What a client shows the server: its token and its pseudonym key, both   *)
(* derived from the key it would load; and the key it sends to others.     *)
FetchToken(s) == DeriveFet(GroupKeyLoad(s))
SelfVkr(u, s) == VkPsdn(u, GroupKeyLoad(s))
ExportGroupKey(s) == GroupKeyLoad(s)

ResolveVkb(u, s, accts, uid) ==
    uid \in {u} \cup {w \in DOMAIN s.acq : s.acq[w] # 0} \cup DOMAIN accts

CoreResolveVerify(core) ==
    LET vk == VkPsdn(core.mem[core.signer].uid, core.gk)
    IN  HashCheck(core.vk[core.signer], vk) /\ CoreVerify(core, vk)

NoAccts == << >>

OpenCurrent(u, s, core) ==
    /\ core.signer \in DOMAIN core.mem
    /\ FieldOpens(GroupKeyLoad(s), core)
    /\ ResolveVkb(u, s, NoAccts, core.mem[core.signer].uid)
    /\ CoreResolveVerify(core)

SelfAdminIndex(u, core) ==
    LET i == IndexOf(core.mem, u) IN IF i # 0 /\ core.mem[i].admn THEN i ELSE 0

EditBegin(u, s, core) == OpenCurrent(u, s, core) /\ SelfAdminIndex(u, core) # 0

-----------------------------------------------------------------------------
(* The edits that keep the group key.  Each carries the core forward one   *)
(* version, folds no appendix line and is signed by the editor.            *)

EmitEdited(u, core) ==
    [core EXCEPT !.vmaj = @ + 1, !.lvmin = 0,
                 !.signer = IndexOf(core.mem, u), !.by = CoreSign(u, core.gk)]

Genesis(u, uk, gk, flags) ==
    [vmaj |-> 1, lvmin |-> 0, gk |-> gk, mem |-> << MemberBuild(u, uk, TRUE) >>,
     vk |-> << AttributeHash(u, gk) >>, link |-> NoLink, flags |-> flags, attr |-> 0,
     signer |-> 1, by |-> CoreSign(u, gk)]

Appended(u, core, m) ==
    [EmitEdited(u, core) EXCEPT !.mem = Append(@, m),
                                !.vk = Append(@, AttributeHash(m.uid, core.gk))]

AddMember(u, s, core, w) == Appended(u, core, MemberBuild(w, s.acq[w], FALSE))

Invite(u, core, w, gkp) == Appended(u, core, MemberBuildPending(w, gkp))

SetAdmin(u, core, w, b) ==
    [EmitEdited(u, core) EXCEPT !.mem[IndexOf(core.mem, w)].admn = b]

(* The pending entry becomes a present one with the accepted user key; its *)
(* admin bit and its place in the list of hashes stay.                     *)
CompleteInvitation(u, core, w, uk) ==
    [EmitEdited(u, core) EXCEPT !.mem[IndexOf(core.mem, w)].pend = FALSE,
                                !.mem[IndexOf(core.mem, w)].key = uk]

ChangeSettings(u, core, flags, attr) ==
    [EmitEdited(u, core) EXCEPT !.flags = flags, !.attr = attr]

(* An open link is closed, a closed one opened with a fresh secret. *)
ToggleJoinLink(u, core, secret) ==
    [EmitEdited(u, core) EXCEPT
        !.link = IF core.link = NoLink THEN JoinlinkSeal(secret, core.gk)
                                       ELSE NoLink]

-----------------------------------------------------------------------------
(* Rotation.  Every survivor is sealed again under the new key, from what  *)
(* decrypting its entry returned.                                          *)

Rebuilt(m) ==
    LET v == MemberDecrypt(m)
    IN  IF v.pend THEN MemberBuildPending(v.uid, v.key)
                  ELSE MemberBuild(v.uid, v.key, v.admn)

Rebuild(mem) == [i \in DOMAIN mem |-> Rebuilt(mem[i])]

(* The slot of an open link is sealed again under the secret this client   *)
(* stored, and dropped when it stored none.                                *)
ResealLink(s, core, gk) ==
    IF core.link = NoLink \/ s.jls = NoKey THEN NoLink
                                           ELSE JoinlinkSeal(s.jls, gk)

SurvivorsOf(core, gone) == Kept(core.mem, DOMAIN core.mem \ PlacesOf(core.mem, gone))

CanRebuild(u, s, core, gone) ==
    LET left == SurvivorsOf(core, gone)
    IN  /\ \A i \in DOMAIN left : ResolveVkb(u, s, NoAccts, left[i].uid)
        /\ IndexOf(left, u) # 0

RebuildAndEmit(u, s, core, gk, gone) ==
    LET mem == Rebuild(SurvivorsOf(core, gone))
    IN  [core EXCEPT !.vmaj = @ + 1, !.lvmin = 0, !.gk = gk, !.mem = mem,
                     !.vk = VkLst(mem, gk), !.link = ResealLink(s, core, gk),
                     !.signer = LastIndexOf(mem, u), !.by = CoreSign(u, gk)]
=============================================================================
