---------------------------- MODULE DoubleRatchet ----------------------------
(***************************************************************************)
(* The Double Ratchet with header encryption (src/ratchet/                 *)
(* double_ratchet.c) between an initiator and a responder that have just   *)
(* agreed on their secrets.                                                *)
(***************************************************************************)
EXTENDS DrCommon

CONSTANTS
  Alice, Bob,  \* gy_dr_init_alice's and gy_dr_init_bob's side
  MaxSent,     \* bound: messages each side sends
  MaxTotal     \* bound: messages both sides send

ASSUME PartyAssumption == Alice # Bob

Party == {Alice, Bob}
Peer(p) == IF p = Alice THEN Bob ELSE Alice

VARIABLES
  st,       \* st[p]: struct gy_dr_state
  sent,     \* sent[p]: the messages p has sent
  accepted  \* accepted[p]: how often p has decrypted each message

session == <<st, sent, accepted>>

\* X3DH's outputs, known to both sides.
SkDr == << >>
SharedHka  == [use |-> "shared_hka"]
SharedNhkb == [use |-> "shared_nhkb"]

\* The ratchet key pair p generates after k others; pair 0 of the responder is
\* its signed prekey.
KeyPair(p, k) == [owner |-> p, k |-> k]
FreshPair(pair) == [pair EXCEPT !.k = @ + 1]

Dh(own, remote) == {own, remote}

InitAlice ==
  LET dhs == KeyPair(Alice, 1)
      dhr == KeyPair(Bob, 0)
      out == KdfRk(SkDr, Dh(dhs, dhr))
  IN  [rk   |-> out.rk, dhs |-> dhs, dhr |-> dhr,
       cks  |-> out.ck, ckr |-> NoKey,
       hks  |-> SharedHka, nhks |-> out.nhk,
       hkr  |-> NoKey,     nhkr |-> SharedNhkb,
       ns   |-> 0, nr |-> 0, pn |-> 0,
       skipped |-> EmptyStore]

InitBob ==
  [rk   |-> SkDr, dhs |-> KeyPair(Bob, 0), dhr |-> NoKey,
   cks  |-> NoKey, ckr  |-> NoKey,
   hks  |-> NoKey, nhks |-> SharedNhkb,
   hkr  |-> NoKey, nhkr |-> SharedHka,
   ns   |-> 0, nr |-> 0, pn |-> 0,
   skipped |-> EmptyStore]

ClassicalInit == st = [p \in Party |-> IF p = Alice THEN InitAlice ELSE InitBob]
------------------------------------------------------------------------------
\* A message as the receiver can tell it apart: the key its header is
\* encrypted under, the header, and the key of its payload.
Message(s) == [hk |-> s.hks, dh |-> s.dhs, pn |-> s.pn, n |-> s.ns,
               mk |-> KdfCk(s.cks).mk]

MaySend(p) == /\ Cardinality(sent[p]) < MaxSent
              /\ Cardinality(sent[p]) + Cardinality(sent[Peer(p)]) < MaxTotal

Encrypt(p) ==
  LET s == st[p]
  IN  /\ s.cks # NoKey /\ s.hks # NoKey
      /\ MaySend(p)
      /\ sent' = [sent EXCEPT ![p] = @ \cup {Message(s)}]
      /\ st' = [st EXCEPT ![p].cks = KdfCk(s.cks).ck, ![p].ns = @ + 1]
      /\ UNCHANGED accepted
------------------------------------------------------------------------------
\* The stored keys that answer to the message's header.
SkippedFor(s, m) ==
  {i \in DOMAIN s.skipped.ent : /\ HeaderKeyOf(s.skipped, i) = m.hk
                                /\ s.skipped.ent[i].n = m.n}

\* The payload's tag verifies under the first of them.
OpensWithSkipped(s, m, intact) ==
  /\ intact
  /\ SkippedFor(s, m) # {}
  /\ s.skipped.ent[Min(SkippedFor(s, m))].mk = m.mk

DhRatchet(s, dhr) ==
  LET recv == KdfRk(s.rk, Dh(s.dhs, dhr))
      dhs  == FreshPair(s.dhs)
      send == KdfRk(recv.rk, Dh(dhs, dhr))
  IN  [s EXCEPT !.rk = send.rk, !.dhs = dhs, !.dhr = dhr,
                !.ckr = recv.ck, !.cks = send.ck,
                !.hkr = s.nhkr,  !.nhkr = recv.nhk,
                !.hks = s.nhks,  !.nhks = send.nhk,
                !.pn = s.ns, !.ns = 0, !.nr = 0]

\* Skip to message n of the current receiving chain.
SkipTo(s, n, hk) ==
  LET w == SkipForward([store |-> s.skipped, ck |-> s.ckr, nr |-> s.nr], n, hk)
  IN  [s EXCEPT !.skipped = w.store, !.ckr = w.ck, !.nr = w.nr]

NewRemote(s, m) == s.dhr = NoKey \/ m.dh # s.dhr

\* HKr, then NHKr, opens the header.
HeaderOpens(s, m) == \/ s.hkr # NoKey /\ m.hk = s.hkr
                     \/ s.nhkr # NoKey /\ m.hk = s.nhkr

\* The bounds on the header's counters, before any key is derived.
WithinBounds(s, m) ==
  IF NewRemote(s, m)
  THEN /\ s.ckr # NoKey => m.pn >= s.nr /\ m.pn - s.nr <= MaxSkip
       /\ m.n <= MaxSkip
  ELSE /\ s.ckr # NoKey
       /\ m.n >= s.nr
       /\ m.n - s.nr <= MaxSkip

\* Faulty variant: the old chain is not finished.
AtMessageDropsOldChain(s, m) ==
  IF NewRemote(s, m)
  THEN LET new == DhRatchet(s, m.dh) IN SkipTo(new, m.n, new.hkr)
  ELSE SkipTo(s, m.n, s.hkr)

\* The staged copy, at the point where the message key is to be derived.
AtMessage(s, m) ==
  IF NewRemote(s, m)
  THEN LET old == IF s.ckr = NoKey THEN s ELSE SkipTo(s, m.pn, s.hkr)
           new == DhRatchet(old, m.dh)
       IN  SkipTo(new, m.n, new.hkr)
  ELSE SkipTo(s, m.n, s.hkr)

\* The payload's tag verifies under the key of the chain.
OpensWithChain(s, m, intact) ==
  /\ intact
  /\ HeaderOpens(s, m)
  /\ WithinBounds(s, m)
  /\ KdfCk(AtMessage(s, m).ckr).mk = m.mk

NoCount == [m \in {} |-> 0]

Counted(count, m) ==
  [x \in DOMAIN count \cup {m} |->
     IF x \notin DOMAIN count THEN 1 ELSE IF x = m THEN count[x] + 1 ELSE count[x]]

Accept(p, m) == accepted' = [accepted EXCEPT ![p] = Counted(@, m)]

\* Faulty variant: a used key stays in the store.
DecryptSkippedKeepsKey(p, m, intact) ==
  /\ OpensWithSkipped(st[p], m, intact)
  /\ st' = [st EXCEPT ![p].skipped = PostSuccess(@)]
  /\ Accept(p, m)
  /\ UNCHANGED sent

\* gy_dr_decrypt_assoc's first path.
DecryptSkipped(p, m, intact) ==
  LET s == st[p]
      i == Min(SkippedFor(s, m))
  IN  /\ OpensWithSkipped(s, m, intact)
      /\ st' = [st EXCEPT ![p].skipped = PostSuccess(StoreRemove(@, i))]
      /\ Accept(p, m)
      /\ UNCHANGED sent

\* Its second path: everything on a staged copy, committed with the tag.
DecryptChain(p, m, intact) ==
  LET s == st[p]
      stage == AtMessage(s, m)
  IN  /\ ~ OpensWithSkipped(s, m, intact)
      /\ OpensWithChain(s, m, intact)
      /\ st' = [st EXCEPT ![p] =
                  [stage EXCEPT !.ckr = KdfCk(@).ck, !.nr = @ + 1,
                                !.skipped = PostSuccess(@)]]
      /\ Accept(p, m)
      /\ UNCHANGED sent

\* Every other return leaves the session as it was.
DecryptReject(p, m, intact) ==
  /\ ~ OpensWithSkipped(st[p], m, intact)
  /\ ~ OpensWithChain(st[p], m, intact)
  /\ UNCHANGED session

Decrypt(p, m, intact) == \/ DecryptSkipped(p, m, intact)
                         \/ DecryptChain(p, m, intact)
                         \/ DecryptReject(p, m, intact)

ClassicalNext ==
  \E p \in Party : \/ Encrypt(p)
                   \/ \E m \in sent[Peer(p)], intact \in BOOLEAN :
                        Decrypt(p, m, intact)
==============================================================================
