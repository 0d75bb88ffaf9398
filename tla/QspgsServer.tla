---------------------------- MODULE QspgsServer ----------------------------
(***************************************************************************)
(* What a server of the post-quantum private groups checks before it       *)
(* stores anything (src/qspgs/qspgs_server.c, qspgs_facade_server.c).      *)
(* The server holds no key: it sees versions, signer indices, admin bits   *)
(* and the hashes of the members' pseudonym keys, and compares them.       *)
(*                                                                         *)
(* A core is a record                                                      *)
(*   vmaj, lvmin   its major version and the appendix lines it folded      *)
(*   gk            the group key its fields are sealed under               *)
(*   mem, vk       the member list and the list of pseudonym-key hashes    *)
(*   link          the join-link slot                                      *)
(*   flags, attr   the sealed settings and attributes                      *)
(*   signer, by    the signer's index and the pseudonym key that signed    *)
(* Suite, AEAD, format version and group id never change and are left out. *)
(***************************************************************************)
EXTENDS QspgsCrypto, Sequences

TokenCheck(presented, stored) == presented = stored

(* The bearer token is derived from the group key, one token for one key. *)
FetchCheck(fet, presented) == TokenCheck(presented, fet)

(* Compare and swap: the write extends the head and advances it.  The      *)
(* minor version of a stored core is always 0.                             *)
VersionCheck(cur, ext, new) == ext = cur /\ new > cur

(* The four operation kinds and what each allows the list of pseudonym     *)
(* hashes to become.                                                       *)
VkTransition(op, prior, next) ==
    CASE op = "unchanged" -> next = prior
      [] op = "append" -> /\ Len(next) = Len(prior) + 1
                          /\ SubSeq(next, 1, Len(prior)) = prior
      [] op = "replace" -> TRUE

(* The first version: one member, an admin, who signed it. *)
CreateCheck(next, vkr) ==
    /\ Len(next.mem) = 1 /\ Len(next.vk) = 1 /\ next.vmaj = 1
    /\ next.signer = 1 /\ next.mem[1].admn
    /\ HashCheck(next.vk[1], vkr) /\ CoreVerify(next, vkr)

(* The admin gate reads the member list of the stored version, at the      *)
(* index the signer has in the submitted one.                              *)
AdminGate(prior, next) ==
    /\ next.signer \in DOMAIN prior.mem /\ next.signer \in DOMAIN prior.vk
    /\ prior.mem[next.signer].admn

CoreCheck(op, prior, next, vkr) ==
    /\ AdminGate(prior, next)
    /\ next.vmaj = prior.vmaj + 1
    /\ VkTransition(op, prior.vk, next.vk)
    /\ next.signer \in DOMAIN next.mem /\ next.signer \in DOMAIN next.vk
    /\ HashCheck(next.vk[next.signer], vkr) /\ CoreVerify(next, vkr)

(* A line is taken when its author's key is the one listed at its index;   *)
(* a joiner is not listed yet.  The signature covers the version the line  *)
(* names, which is not compared with the version of the stored core.       *)
ApxCheck(vk, line, vkr) ==
    /\ line.kind # "join" => /\ line.idx \in DOMAIN vk
                             /\ HashCheck(vk[line.idx], vkr)
    /\ ApxLineVerify(line, vkr)

(* The first line sets the version of the stored appendix; a later one     *)
(* must name the same.                                                     *)
AppendixTakes(lines, line) == lines # << >> => line.vmaj = lines[1].vmaj
=============================================================================
