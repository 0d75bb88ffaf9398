---------------------------- MODULE HybridRatchet ----------------------------
(***************************************************************************)
(* The hybrid Double Ratchet (src/ratchet/hybrid_double_ratchet.c): the    *)
(* classical engine with an ML-KEM ratchet beside the curve one.  Every    *)
(* root step mixes a secret encapsulated to the peer's ML-KEM key; a key   *)
(* pair is refreshed every `interval` steps and then advertised in every   *)
(* header of the next sending chain.  The responder's first chain also     *)
(* confirms the initiator's identity key: its root mixes in a secret that  *)
(* only the holder of that key can open.                                   *)
(***************************************************************************)
EXTENDS DoubleRatchet

VARIABLE interval  \* mlkem_interval, fixed for life; 0: a classical session

KemPair(p, k) == [kem |-> p, k |-> k]
IdentityKem == KemPair(Alice, 0)

\* A zeroized key is no key pair.
ASSUME IdentityAssumption == NoKey # IdentityKem

\* A ciphertext names the key it is for and its randomness: fresh in every
\* ratchet step, as the step's curve key is.  Decapsulation never fails: with
\* another key it yields another secret.
Encaps(ek, fresh) == [ek |-> ek, r |-> fresh]
Decaps(ct, dk) == [ct |-> ct, dk |-> dk]
Secret(ct) == Decaps(ct, ct.ek)

\* hybrid_combine, and hybrid_combine3 when there is a confirmation.
HybridCombine(confirm, kem, dh) == <<confirm, kem, dh>>

HybridInitAlice ==
  LET dhs == KeyPair(Alice, 1)
      dhr == KeyPair(Bob, 0)
      ct  == Encaps(KemPair(Bob, 0), dhs)
      out == KdfRk(SkDr, HybridCombine(NoKey, Secret(ct), Dh(dhs, dhr)))
  IN  [rk   |-> out.rk, dhs |-> dhs, dhr |-> dhr,
       cks  |-> out.ck, ckr |-> NoKey,
       hks  |-> SharedHka, nhks |-> out.nhk,
       hkr  |-> NoKey,     nhkr |-> SharedNhkb,
       ns   |-> 0, nr |-> 0, pn |-> 0, skipped |-> EmptyStore,
       mlkem |-> KemPair(Alice, 1), remoteEk |-> KemPair(Bob, 0), kemCt |-> ct,
       counter |-> 0, sendEk |-> TRUE, role |-> "initiator", pq |-> "classical",
       idKem |-> IdentityKem, confirmPending |-> FALSE, confirmCt |-> NoKey]

HybridInitBob ==
  [rk   |-> SkDr, dhs |-> KeyPair(Bob, 0), dhr |-> NoKey,
   cks  |-> NoKey, ckr  |-> NoKey,
   hks  |-> NoKey, nhks |-> SharedNhkb,
   hkr  |-> NoKey, nhkr |-> SharedHka,
   ns   |-> 0, nr |-> 0, pn |-> 0, skipped |-> EmptyStore,
   mlkem |-> KemPair(Bob, 0), remoteEk |-> NoKey, kemCt |-> NoKey,
   counter |-> interval, sendEk |-> FALSE, role |-> "responder", pq |-> "classical",
   idKem |-> IdentityKem, confirmPending |-> TRUE, confirmCt |-> NoKey]

HybridInit == st = [p \in Party |-> IF p = Alice THEN HybridInitAlice ELSE HybridInitBob]
------------------------------------------------------------------------------
\* confirmCt is held exactly while the sending chain carries it.
HybridMessage(s) ==
  [hk |-> s.hks, dh |-> s.dhs, pn |-> s.pn, n |-> s.ns, mk |-> KdfCk(s.cks).mk,
   ct |-> s.kemCt, ek |-> IF s.sendEk THEN s.mlkem ELSE NoKey, confirm |-> s.confirmCt]

HybridEncrypt(p) ==
  LET s == st[p]
  IN  /\ s.cks # NoKey /\ s.hks # NoKey /\ s.kemCt # NoKey
      /\ MaySend(p)
      /\ sent' = [sent EXCEPT ![p] = @ \cup {HybridMessage(s)}]
      /\ st' = [st EXCEPT ![p].cks = KdfCk(s.cks).ck, ![p].ns = @ + 1]
      /\ UNCHANGED accepted
------------------------------------------------------------------------------
\* The initiator takes a confirmation in its first step and requires one
\* there; the responder takes none.
ConfirmAllowed(s, m) ==
  (m.confirm # NoKey) = (s.role = "initiator" /\ s.pq = "classical")

\* The step must know a key to encapsulate to.
RatchetAllowed(s, m) ==
  ConfirmAllowed(s, m) /\ (m.ek # NoKey \/ s.remoteEk # NoKey)

\* Faulty variant: a responder is satisfied when it has sent its confirmation.
PqAfterEarly(s) == "confirmed"

\* An initiator has opened the confirmation, or a responder has a message on a
\* chain that descends from its own.
PqAfter(s) ==
  IF \/ s.role = "initiator" /\ s.pq = "classical"
     \/ s.role = "responder" /\ s.pq = "confirm_sent"
  THEN "confirmed"
  ELSE IF s.confirmPending THEN "confirm_sent" ELSE s.pq

\* Faulty variant: the ciphertext is opened with the refreshed key.
DecapKeyRefreshed(s, fresh) == fresh

\* The receiving half opens with the key of before the refresh.
DecapKey(s, fresh) == s.mlkem

HybridDhRatchet(s, m) ==
  LET regen   == s.counter + 1 >= interval
      fresh   == IF regen THEN FreshPair(s.mlkem) ELSE s.mlkem
      opened  == IF s.role = "initiator" /\ s.pq = "classical"
                 THEN Decaps(m.confirm, s.idKem) ELSE NoKey
      recv    == KdfRk(s.rk, HybridCombine(opened, Decaps(m.ct, DecapKey(s, fresh)),
                                           Dh(s.dhs, m.dh)))
      dhs     == FreshPair(s.dhs)
      ek      == IF m.ek # NoKey THEN m.ek ELSE s.remoteEk
      ct      == Encaps(ek, dhs)
      confirm == IF s.confirmPending THEN Encaps(s.idKem, dhs) ELSE NoKey
      send    == KdfRk(recv.rk,
                   HybridCombine(IF confirm = NoKey THEN NoKey ELSE Secret(confirm),
                                 Secret(ct), Dh(dhs, m.dh)))
  IN  [s EXCEPT !.rk = send.rk, !.dhs = dhs, !.dhr = m.dh,
                !.ckr = recv.ck, !.cks = send.ck,
                !.hkr = s.nhkr,  !.nhkr = recv.nhk,
                !.hks = s.nhks,  !.nhks = send.nhk,
                !.pn = s.ns, !.ns = 0, !.nr = 0,
                !.mlkem = fresh, !.counter = IF regen THEN 0 ELSE @ + 1,
                !.sendEk = regen, !.remoteEk = ek, !.kemCt = ct,
                !.confirmCt = confirm, !.confirmPending = FALSE, !.pq = PqAfter(s),
                !.idKem = IF s.role = "initiator" THEN NoKey ELSE @]

HybridAtMessage(s, m) ==
  IF NewRemote(s, m)
  THEN LET old == IF s.ckr = NoKey THEN s ELSE SkipTo(s, m.pn, s.hkr)
           new == HybridDhRatchet(old, m)
       IN  SkipTo(new, m.n, new.hkr)
  ELSE SkipTo(s, m.n, s.hkr)

HybridOpensWithChain(s, m, intact) ==
  /\ intact
  /\ HeaderOpens(s, m)
  /\ s.role = "responder" => m.confirm = NoKey
  /\ WithinBounds(s, m)
  /\ NewRemote(s, m) => RatchetAllowed(s, m)
  /\ KdfCk(HybridAtMessage(s, m).ckr).mk = m.mk

\* gy_hybrid_dr_decrypt_assoc's first path is the classical engine's.
HybridDecryptSkipped(p, m, intact) == DecryptSkipped(p, m, intact)

HybridDecryptChain(p, m, intact) ==
  LET s == st[p]
      stage == HybridAtMessage(s, m)
  IN  /\ ~ OpensWithSkipped(s, m, intact)
      /\ HybridOpensWithChain(s, m, intact)
      /\ st' = [st EXCEPT ![p] =
                  [stage EXCEPT !.ckr = KdfCk(@).ck, !.nr = @ + 1,
                                !.skipped = PostSuccess(@)]]
      /\ Accept(p, m)
      /\ UNCHANGED sent

HybridDecryptReject(p, m, intact) ==
  /\ ~ OpensWithSkipped(st[p], m, intact)
  /\ ~ HybridOpensWithChain(st[p], m, intact)
  /\ UNCHANGED session

HybridNext ==
  \E p \in Party : \/ HybridEncrypt(p)
                   \/ \E m \in sent[Peer(p)], intact \in BOOLEAN :
                        \/ HybridDecryptSkipped(p, m, intact)
                        \/ HybridDecryptChain(p, m, intact)
                        \/ HybridDecryptReject(p, m, intact)
==============================================================================
