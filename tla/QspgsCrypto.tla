---------------------------- MODULE QspgsCrypto ----------------------------
(***************************************************************************)
(* The cryptography of the post-quantum private groups, symbolically: a    *)
(* derivation is an injective term over its key and its label, a sealed    *)
(* value opens under the key it was sealed to and under no other, and a    *)
(* signature verifies under the signer's key over the signed value         *)
(* (src/qspgs/qspgs_keys.c, qspgs_field.c, qspgs_join.c, qspgs_pers.c).    *)
(* Suites, nonces, lengths and buffers are left out.                       *)
(***************************************************************************)
EXTENDS Integers

NoKey == 0

(* The fetch token of a group key. *)
DeriveFet(gk) == <<"fet", gk>>

(* The pseudonym key of a user in a group: the base key rerandomised by    *)
(* the group key and the user id.  Cores list its hash.                    *)
VkPsdn(uid, gk) == <<uid, gk>>
VkpsdnHash(vk) == <<"hash", vk>>
HashCheck(h, vk) == h = VkpsdnHash(vk)

AttributeHash(uid, gk) == VkpsdnHash(VkPsdn(uid, gk))

(* A core and an appendix line are signed with the pseudonym key; what is  *)
(* kept of the signature is the key it verifies under.                     *)
CoreSign(uid, gk) == VkPsdn(uid, gk)
CoreVerify(core, vk) == core.by = vk
ApxLineSign(uid, gk) == VkPsdn(uid, gk)
ApxLineVerify(line, vk) == line.by = vk

(* What is sealed under a group key opens under that key. *)
FieldOpens(gk, core) == gk = core.gk

(* The key pair of an invitation, derived from its key gk'. *)
JoinDerive(gkp) == <<"join", gkp>>
JoinSeal(ipk, pt) == [to |-> ipk, pt |-> pt]
JoinOpens(isk, ct) == ct.to = isk

(* The slot of a join link holds the group key, sealed under the secret. *)
JoinlinkKey(jls) == <<"joinlink", jls>>
JoinlinkSeal(jls, gk) == [key |-> JoinlinkKey(jls), gk |-> gk]
JoinlinkOpens(jls, slot) == slot.key = JoinlinkKey(jls)

NoLink == JoinlinkSeal(NoKey, NoKey)

(* The identity signature on an account or an acceptance. *)
PersSign(uid, obj) == <<uid, obj>>
PersVerify(uid, obj, sig) == sig = <<uid, obj>>

(* The answer to an invitation: the user key, signed, sealed to the key of *)
(* the invitation.                                                         *)
InviteSeal(gkp, uid, uk) ==
    JoinSeal(JoinDerive(gkp), [uid |-> uid, uk |-> uk, sig |-> PersSign(uid, uk)])
InviteOpens(gkp, q) == JoinOpens(JoinDerive(gkp), q)
InviteVerify(q) == PersVerify(q.pt.uid, q.pt.uk, q.pt.sig)
=============================================================================
