------------------------------ MODULE DrCommon -------------------------------
(***************************************************************************)
(* What the classical and the hybrid ratchet engines share besides the     *)
(* skipped-key store (src/ratchet/dr_common.c): the key schedule and the   *)
(* walk along a receiving chain.                                           *)
(*                                                                         *)
(* Keys are symbolic.  A root key is the sequence of the ratchet secrets   *)
(* mixed into it; every key derived from it names that sequence and its    *)
(* purpose, so two keys are equal exactly when they were derived by the    *)
(* same steps from the same secrets.  This takes the KDFs to be injective. *)
(***************************************************************************)
EXTENDS SkipStore, Sequences

\* The three outputs of KDF_RK: the new root, a chain key, a next header key.
KdfRk(rk, secret) ==
  LET root == Append(rk, secret)
  IN  [rk  |-> root,
       ck  |-> [root |-> root, i |-> 0],
       nhk |-> [use |-> "header", root |-> root]]

\* Faulty variant: the chain does not move on.
KdfCkStuck(ck) == [mk |-> [use |-> "message", root |-> ck.root, i |-> ck.i], ck |-> ck]

\* KDF_CK: the key of the next message of the chain, and the advanced chain.
KdfCk(ck) == [mk |-> [use |-> "message", root |-> ck.root, i |-> ck.i],
              ck |-> [ck EXCEPT !.i = @ + 1]]

\* The message keys that can still be derived from a chain key.
Derivable(ck, mk) == ck # NoKey /\ ck.root = mk.root /\ ck.i <= mk.i

\* One round of gy_drc_skip_forward, on a receiving side w = [store, ck, nr]:
\* store the key of the next message under the header key hk.
SkipKey(w, hk) ==
  LET out == KdfCk(w.ck)
  IN  [store |-> StoreInsert(w.store, hk, w.nr, out.mk), ck |-> out.ck, nr |-> w.nr + 1]

\* gy_drc_skip_forward: skip every message below `to`.
SkipForward(w, to, hk) ==
  LET walk[j \in 0 .. to - w.nr] == IF j = 0 THEN w ELSE SkipKey(walk[j - 1], hk)
  IN  IF to <= w.nr THEN w ELSE walk[to - w.nr]
==============================================================================
