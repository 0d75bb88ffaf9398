---------------------------- MODULE RatchetProofs ----------------------------
(***************************************************************************)
(* NoReplay, KeysNeverReused, ForwardSecrecy and ConfirmationAgreed for    *)
(* both engines, for every store size, age limit, refresh interval and     *)
(* number of messages.                                                     *)
(***************************************************************************)
EXTENDS Ratchet, FiniteLemmas

\* A root key is a sequence of secrets; nothing else is known of them.
IsRoot(r) == r \in Seq(Range(r))

\* The message keys a store holds.
StoreKeys(store) == {store.ent[i].mk : i \in DOMAIN store.ent}

\* Every key that a receiver holds, or held once and used (A), is of a root no
\* longer than L; it holds none that it used, and none twice.
KeysOk(store, A, L) ==
  /\ DOMAIN store.ent \in SUBSET Nat /\ IsFiniteSet(DOMAIN store.ent)
  /\ \A k \in A \cup StoreKeys(store) : IsRoot(k.root) /\ k.i \in Nat /\ Len(k.root) <= L
  /\ \A k \in A : k \notin StoreKeys(store)
  /\ \A i, j \in DOMAIN store.ent : store.ent[i].mk = store.ent[j].mk => i = j

\* A receiving chain is past every key that was derived from it.
ChainOk(ck, store, A, L) ==
  /\ ck = [root |-> ck.root, i |-> ck.i]
  /\ IsRoot(ck.root) /\ ck.i \in Nat /\ Len(ck.root) <= L
  /\ \A k \in A \cup StoreKeys(store) : k.root = ck.root => k.i < ck.i

\* The fields both engines have.
ClassicalFields == {"rk", "dhs", "dhr", "cks", "ckr", "hks", "nhks", "hkr", "nhkr",
                    "ns", "nr", "pn", "skipped"}

HybridFields == {"mlkem", "remoteEk", "kemCt", "counter", "sendEk", "role", "pq",
                 "idKem", "confirmPending", "confirmCt"}

IsRecord(s) == s = [x \in DOMAIN s |-> s[x]]

\* A side's state is a record with these fields, and its counters are numbers.
SideOk(s) ==
  /\ IsRecord(s)
  /\ ClassicalFields \subseteq DOMAIN s
  /\ interval # 0 => HybridFields \subseteq DOMAIN s
  /\ IsRoot(s.rk) /\ s.ns \in Nat /\ s.nr \in Nat /\ s.pn \in Nat

RecvOk(s, A) ==
  /\ KeysOk(s.skipped, A, Len(s.rk))
  /\ s.ckr # NoKey => ChainOk(s.ckr, s.skipped, A, Len(s.rk))

\* The initiator's roots are of odd length when it sends, the responder's of
\* even length; a side's first chain uses the header key of the key agreement,
\* every later one a key of the root two steps before.
Parity(p) == IF p = Alice THEN 1 ELSE 0
First(p) == IF p = Alice THEN 1 ELSE 2
FirstHeader(p) == IF p = Alice THEN SharedHka ELSE SharedNhkb

HeaderFor(p, hk, root) ==
  IF Len(root) = First(p) THEN hk = FirstHeader(p)
  ELSE /\ hk = [use |-> "header", root |-> hk.root]
       /\ Len(hk.root) = Len(root) - 2

\* A message p has sent when its state is s.
SentOk(p, m, s) ==
  /\ IsRoot(m.mk.root) /\ First(p) <= Len(m.mk.root) /\ Len(m.mk.root) <= Len(s.rk)
  /\ Len(m.mk.root) % 2 = Parity(p)
  /\ m.n \in Nat /\ m.pn \in Nat /\ m.mk.i = m.n
  /\ HeaderFor(p, m.hk, m.mk.root)
  /\ Len(m.mk.root) = Len(s.rk) => m.mk.root = s.rk /\ m.n < s.ns

\* A sender's chain is of its newest root, and past every message it has sent.
SendOk(p, s, S) ==
  /\ Len(s.rk) % 2 = Parity(p)
  /\ s.nhks = IF Len(s.rk) = 0 THEN SharedNhkb ELSE [use |-> "header", root |-> s.rk]
  /\ s.cks # NoKey => /\ s.cks = [root |-> s.rk, i |-> s.ns]
                      /\ First(p) <= Len(s.rk)
                      /\ HeaderFor(p, s.hks, s.rk)
  /\ \A m \in S : SentOk(p, m, s)
  /\ \A m, o \in S : Len(m.mk.root) = Len(o.mk.root) =>
                       m.mk.root = o.mk.root /\ (m.n = o.n => m = o)

\* The keys of the messages of a bag.
UsedKeys(B) == {m.mk : m \in DOMAIN B}

\* A side that has sent S and decrypted B.
PartyOk(p, s, S, B) ==
  /\ SideOk(s)
  /\ RecvOk(s, UsedKeys(B))
  /\ SendOk(p, s, S)
  /\ B = [m \in DOMAIN B |-> 1]

\* How far the confirmation is, by the number of root steps of the initiator
\* a and the responder b.
InitiatorPq(a, b) ==
  /\ a.role = "initiator" /\ a.confirmPending = FALSE
  /\ \/ a.pq = "classical" /\ Len(a.rk) = 1 /\ a.idKem = IdentityKem
     \/ a.pq = "confirmed" /\ 3 <= Len(a.rk) /\ a.idKem = NoKey /\ 2 <= Len(b.rk)

ResponderPq(a, b) ==
  /\ b.role = "responder"
  /\ \/ b.pq = "classical" /\ Len(b.rk) = 0 /\ b.confirmPending = TRUE
     \/ b.pq = "confirm_sent" /\ Len(b.rk) = 2 /\ b.confirmPending = FALSE
     \/ b.pq = "confirmed" /\ 4 <= Len(b.rk) /\ b.confirmPending = FALSE /\ 3 <= Len(a.rk)

PqOk == InitiatorPq(st[Alice], st[Bob]) /\ ResponderPq(st[Alice], st[Bob])

\* Both sides.
PartiesOk ==
  /\ st = [p \in Party |-> st[p]]
  /\ sent = [p \in Party |-> sent[p]]
  /\ accepted = [p \in Party |-> accepted[p]]
  /\ \A p \in Party : PartyOk(p, st[p], sent[p], accepted[p])

\* The inductive invariant.
IInv ==
  /\ PartiesOk
  /\ interval # 0 => PqOk
------------------------------------------------------------------------------
\* A root step makes a longer root.
LEMMA RootStep ==
  ASSUME NEW r, IsRoot(r), NEW x
  PROVE  /\ IsRoot(Append(r, x))
         /\ Len(r) \in Nat
         /\ Len(Append(r, x)) = Len(r) + 1
<1>1. r \in Seq(Range(r) \cup {x}) /\ Len(r) \in Nat
  BY DEF IsRoot
<1>2. /\ Append(r, x) \in Seq(Range(r) \cup {x})
      /\ Len(Append(r, x)) = Len(r) + 1
  BY <1>1
<1>3. DOMAIN Append(r, x) = 1 .. Len(Append(r, x))
  BY <1>2
<1>4. \A j \in 1 .. Len(Append(r, x)) : Append(r, x)[j] \in Range(Append(r, x))
  BY <1>3, Zenon DEF Range
<1>5. Append(r, x) \in Seq(Range(Append(r, x)))
  BY <1>2, <1>3, <1>4
<1>6. QED
  BY <1>1, <1>2, <1>5, Zenon DEF IsRoot

\* Filing a key: the store holds it, and otherwise what it held before, less
\* what was evicted.
LEMMA StoreInsertKeys ==
  ASSUME NEW s, NEW hk, NEW n, NEW mk, NEW A, NEW L, KeysOk(s, A, L),
         IsRoot(mk.root), mk.i \in Nat, Len(mk.root) <= L,
         mk \notin A \cup StoreKeys(s)
  PROVE  /\ KeysOk(StoreInsert(s, hk, n, mk), A, L)
         /\ StoreKeys(StoreInsert(s, hk, n, mk)) \subseteq StoreKeys(s) \cup {mk}
<1> DEFINE r == MakeRoom(s)
<1> DEFINE k == NextStamp(r)
<1> DEFINE t == StoreInsert(s, hk, n, mk)
<1>1. /\ DOMAIN r.ent \subseteq DOMAIN s.ent
      /\ \A i \in DOMAIN r.ent : r.ent[i] = s.ent[i]
  BY Zenon DEF MakeRoom, StoreRemove, RemoveAll, Restrict
<1>2. /\ DOMAIN t.ent = {k} \cup DOMAIN r.ent
      /\ t.ent[k].mk = mk
      /\ \A i \in DOMAIN r.ent : i # k => t.ent[i] = r.ent[i]
  BY Zenon DEF StoreInsert, FileKey
<1> HIDE DEF r, k, t
<1>3. \A i \in DOMAIN t.ent : i # k => i \in DOMAIN s.ent /\ t.ent[i] = s.ent[i]
  BY <1>1, <1>2, Zenon
<1>4. StoreKeys(t) \subseteq StoreKeys(s) \cup {mk}
  BY <1>2, <1>3 DEF StoreKeys
<1>5. \A i, j \in DOMAIN t.ent : t.ent[i].mk = t.ent[j].mk => i = j
  BY <1>2, <1>3 DEF StoreKeys, KeysOk
<1>6. DOMAIN t.ent \in SUBSET Nat /\ IsFiniteSet(DOMAIN t.ent)
  <2>1. DOMAIN r.ent \in SUBSET Nat /\ IsFiniteSet(DOMAIN r.ent)
    BY <1>1, FS_Subset, Zenon DEF KeysOk
  <2>2. /\ {0} \cup DOMAIN r.ent \in SUBSET Nat /\ {0} \cup DOMAIN r.ent # {}
        /\ IsFiniteSet({0} \cup DOMAIN r.ent)
    BY <2>1, FS_AddElement, FS_Singleton, FS_Union
  <2>3. Max({0} \cup DOMAIN r.ent) \in Nat
    BY <2>2, MaxOfNaturals, Zenon
  <2>4. k \in Nat
    BY <2>3 DEF k, NextStamp
  <2>5. IsFiniteSet({k} \cup DOMAIN r.ent)
    BY <2>1, FS_Singleton, FS_Union, ZenonT(60)
  <2>6. QED
    BY <1>2, <2>1, <2>4, <2>5, Zenon
<1>7. QED
  BY <1>4, <1>5, <1>6, Zenon DEF KeysOk, t

\* Dropping entries keeps what is known of the keys held.
LEMMA DropKeys ==
  ASSUME NEW s, NEW t, NEW A, NEW L,
         DOMAIN t.ent \subseteq DOMAIN s.ent, \A i \in DOMAIN t.ent : t.ent[i] = s.ent[i]
  PROVE  /\ StoreKeys(t) \subseteq StoreKeys(s)
         /\ KeysOk(s, A, L) => KeysOk(t, A, L)
         /\ \A ck : ChainOk(ck, s, A, L) => ChainOk(ck, t, A, L)
<1>1. StoreKeys(t) \subseteq StoreKeys(s)
  BY Zenon DEF StoreKeys
<1>2. KeysOk(s, A, L) => KeysOk(t, A, L)
  BY <1>1, FS_Subset, Zenon DEF KeysOk
<1>3. ASSUME NEW ck, ChainOk(ck, s, A, L) PROVE ChainOk(ck, t, A, L)
  BY <1>1, <1>3, Zenon DEF ChainOk
<1>4. QED
  BY <1>1, <1>2, <1>3, Zenon

\* A successful decryption only drops keys.
LEMMA PostSuccessDrops ==
  ASSUME NEW s
  PROVE  /\ DOMAIN PostSuccess(s).ent \subseteq DOMAIN s.ent
         /\ \A i \in DOMAIN PostSuccess(s).ent : PostSuccess(s).ent[i] = s.ent[i]
  BY Zenon DEF PostSuccess, RemoveAll, Restrict

\* A receiving side w on its way along a chain of root `root`.
WalkOk(w, root, i, n, A, L) ==
  /\ KeysOk(w.store, A, L)
  /\ ChainOk(w.ck, w.store, A, L)
  /\ w.ck.root = root /\ w.ck.i = i
  /\ w.nr = n

\* Skipping one message.
LEMMA SkipKeyOk ==
  ASSUME NEW w, NEW hk, NEW root, NEW i \in Nat, NEW n \in Nat, NEW A, NEW L,
         WalkOk(w, root, i, n, A, L)
  PROVE  WalkOk(SkipKey(w, hk), root, i + 1, n + 1, A, L)
<1> DEFINE mk == KdfCk(w.ck).mk
<1> DEFINE v == SkipKey(w, hk)
<1>1. /\ mk.root = root /\ mk.i = i
      /\ KdfCk(w.ck).ck = [root |-> root, i |-> i + 1]
  BY Zenon DEF KdfCk, WalkOk, ChainOk
<1>2. /\ v.store = StoreInsert(w.store, hk, w.nr, mk)
      /\ v.ck = [root |-> root, i |-> i + 1]
      /\ v.nr = n + 1
  BY <1>1, Zenon DEF SkipKey, WalkOk
<1> HIDE DEF mk, v
<1>3. /\ KeysOk(w.store, A, L)
      /\ \A k \in A \cup StoreKeys(w.store) : k.root = root => k.i < i
      /\ IsRoot(root) /\ Len(root) <= L
  BY Zenon DEF WalkOk, ChainOk
<1>4. mk \notin A \cup StoreKeys(w.store)
  BY <1>1, <1>3
<1>5. /\ KeysOk(v.store, A, L)
      /\ StoreKeys(v.store) \subseteq StoreKeys(w.store) \cup {mk}
  <2>1. IsRoot(mk.root) /\ mk.i \in Nat /\ Len(mk.root) <= L
    BY <1>1, <1>3, Zenon
  <2>2. KeysOk(w.store, A, L) /\ mk \notin A \cup StoreKeys(w.store)
    BY <1>3, <1>4, Zenon
  <2>3. /\ KeysOk(StoreInsert(w.store, hk, w.nr, mk), A, L)
        /\ StoreKeys(StoreInsert(w.store, hk, w.nr, mk)) \subseteq StoreKeys(w.store) \cup {mk}
    BY <2>1, <2>2, StoreInsertKeys, ZenonT(60)
  <2>4. QED
    BY <1>2, <2>3, Zenon
<1>6. \A k \in A \cup StoreKeys(w.store) : k.root = root => k.i < i + 1
  <2>1. \A k \in A \cup StoreKeys(w.store) : k.i \in Nat
    BY <1>3, Zenon DEF KeysOk
  <2>2. QED
    BY <1>3, <2>1
<1>7. ChainOk(v.ck, v.store, A, L)
  BY <1>1, <1>2, <1>3, <1>5, <1>6 DEF ChainOk
<1>8. QED
  BY <1>2, <1>5, <1>7 DEF WalkOk, v

\* f[j] is the receiving side after j rounds of gy_drc_skip_forward's loop.
IsWalk(f, w, hk, n) == f = [j \in 0 .. n |-> IF j = 0 THEN w ELSE SkipKey(f[j - 1], hk)]

\* The loop's rounds make a function.
LEMMA WalkExists ==
  ASSUME NEW w, NEW hk, NEW n \in Nat
  PROVE  \E f : IsWalk(f, w, hk, n)
<1> DEFINE S == {k \in Nat : \E f : IsWalk(f, w, hk, k)}
<1>1. 0 \in S
  <2> DEFINE f == [j \in 0 .. 0 |-> w]
  <2>1. f = [j \in 0 .. 0 |-> IF j = 0 THEN w ELSE SkipKey(f[j - 1], hk)]
    OBVIOUS
  <2>2. IsWalk(f, w, hk, 0)
    BY <2>1, Zenon DEF IsWalk
  <2>3. QED
    BY <2>2, Zenon
<1>2. ASSUME NEW k \in Nat, k \in S PROVE k + 1 \in S
  <2>1. PICK f : IsWalk(f, w, hk, k)
    BY <1>2, Zenon
  <2> DEFINE g == [j \in 0 .. k + 1 |-> IF j = k + 1 THEN SkipKey(f[k], hk) ELSE f[j]]
  <2>2. \A j \in 0 .. k : g[j] = f[j]
    OBVIOUS
  <2>3. \A j \in 0 .. k + 1 : g[j] = IF j = 0 THEN w ELSE SkipKey(g[j - 1], hk)
    BY <2>1, <2>2 DEF IsWalk
  <2>4. IsWalk(g, w, hk, k + 1)
    BY <2>3, Zenon DEF IsWalk
  <2>5. QED
    BY <2>4
<1> HIDE DEF S
<1>3. n \in S
  BY <1>1, <1>2, NatSetInduction, Zenon
<1>4. QED
  BY <1>3, Zenon DEF S

\* gy_drc_skip_forward advances the chain by what it skips.
LEMMA SkipForwardOk ==
  ASSUME NEW w, NEW hk, NEW to \in Nat, NEW root, NEW i \in Nat, NEW n \in Nat,
         NEW A, NEW L, WalkOk(w, root, i, n, A, L)
  PROVE  \E k, l \in Nat : WalkOk(SkipForward(w, to, hk), root, k, l, A, L)
<1>0. w.nr = n
  BY Zenon DEF WalkOk
<1>1. CASE to <= n
  BY <1>0, <1>1, Zenon DEF SkipForward
<1>2. CASE ~ (to <= n)
  <2> DEFINE d == to - n
  <2> DEFINE walk == CHOOSE f : IsWalk(f, w, hk, d)
  <2>1. d \in Nat
    BY <1>2
  <2>2. SkipForward(w, to, hk) = walk[d]
    BY <1>0, <1>2, Zenon DEF SkipForward, IsWalk
  <2> HIDE DEF d
  <2>3. IsWalk(walk, w, hk, d)
    <3>1. \E f : IsWalk(f, w, hk, d)
      BY <2>1, WalkExists, Zenon
    <3>2. QED
      BY <3>1, Zenon
  <2> HIDE DEF walk
  <2> DEFINE T == {j \in Nat : j <= d => WalkOk(walk[j], root, i + j, n + j, A, L)}
  <2>5. 0 \in T
    BY <2>1, <2>3 DEF IsWalk
  <2>6. ASSUME NEW j \in Nat, j \in T PROVE j + 1 \in T
    <3>1. SUFFICES ASSUME j + 1 <= d
                   PROVE  WalkOk(walk[j + 1], root, i + (j + 1), n + (j + 1), A, L)
      OBVIOUS
    <3>2. WalkOk(walk[j], root, i + j, n + j, A, L)
      BY <2>1, <2>6, <3>1
    <3>3. walk[j + 1] = SkipKey(walk[j], hk)
      BY <2>1, <2>3, <3>1 DEF IsWalk
    <3>4. i + j \in Nat /\ n + j \in Nat
      OBVIOUS
    <3>5. WalkOk(SkipKey(walk[j], hk), root, (i + j) + 1, (n + j) + 1, A, L)
      BY <3>2, <3>4, SkipKeyOk, Zenon
    <3>6. QED
      BY <3>3, <3>5
  <2> HIDE DEF T
  <2>7. d \in T
    BY <2>1, <2>5, <2>6, NatSetInduction, Zenon
  <2>8. WalkOk(walk[d], root, i + d, n + d, A, L)
    BY <2>1, <2>7 DEF T
  <2>9. QED
    BY <2>1, <2>2, <2>8
<1>3. QED
  BY <1>1, <1>2, Zenon
------------------------------------------------------------------------------
\* What a side knows of the keys it holds, with a receiving chain in place.
StageOk(s, A) == /\ SideOk(s)
                 /\ KeysOk(s.skipped, A, Len(s.rk))
                 /\ ChainOk(s.ckr, s.skipped, A, Len(s.rk))

\* The sending half, and what the engine made of the confirmation, are as
\* they were.
SameSending(s, t) ==
  /\ t.rk = s.rk /\ t.cks = s.cks /\ t.ns = s.ns
  /\ t.hks = s.hks /\ t.nhks = s.nhks
  /\ interval # 0 => /\ t.role = s.role /\ t.pq = s.pq /\ t.idKem = s.idKem
                     /\ t.confirmPending = s.confirmPending

\* Both halves have made a step: two secrets more in the root, new chains.
Stepped(s, t) ==
  /\ Len(t.rk) = Len(s.rk) + 2 /\ Len(t.ckr.root) = Len(s.rk) + 1
  /\ t.cks = [root |-> t.rk, i |-> 0] /\ t.ns = 0
  /\ t.hks = s.nhks /\ t.nhks = [use |-> "header", root |-> t.rk]
  /\ interval # 0 =>
       /\ t.role = s.role /\ t.pq = PqAfter(s) /\ t.confirmPending = FALSE
       /\ t.idKem = IF s.role = "initiator" THEN NoKey ELSE s.idKem

\* Skipping along the receiving chain.
LEMMA SkipToOk ==
  ASSUME NEW s, NEW A, StageOk(s, A), NEW n \in Nat, NEW hk
  PROVE  /\ StageOk(SkipTo(s, n, hk), A)
         /\ SameSending(s, SkipTo(s, n, hk))
         /\ SkipTo(s, n, hk).ckr.root = s.ckr.root
<1> DEFINE w == [store |-> s.skipped, ck |-> s.ckr, nr |-> s.nr]
<1> DEFINE v == SkipForward(w, n, hk)
<1> DEFINE t == SkipTo(s, n, hk)
<1>1. s.nr \in Nat /\ s.ckr.i \in Nat
  BY Zenon DEF StageOk, SideOk, ChainOk
<1>2. WalkOk(w, s.ckr.root, s.ckr.i, s.nr, A, Len(s.rk))
  BY Zenon DEF WalkOk, StageOk
<1>3. t = [s EXCEPT !.skipped = v.store, !.ckr = v.ck, !.nr = v.nr]
  BY Zenon DEF SkipTo
<1> HIDE DEF w, t
<1>4. PICK k \in Nat, l \in Nat : WalkOk(v, s.ckr.root, k, l, A, Len(s.rk))
  BY <1>1, <1>2, SkipForwardOk, Zenon
<1> HIDE DEF v
<1>5. /\ t.skipped = v.store /\ t.ckr = v.ck /\ t.nr = l
      /\ t.rk = s.rk /\ t.cks = s.cks /\ t.ns = s.ns /\ t.pn = s.pn
      /\ t.hks = s.hks /\ t.nhks = s.nhks
      /\ IsRecord(t) /\ DOMAIN t = DOMAIN s
  BY <1>3, <1>4, ZenonT(60) DEF StageOk, SideOk, WalkOk, ClassicalFields, IsRecord
<1>6. interval # 0 => /\ t.role = s.role /\ t.pq = s.pq /\ t.idKem = s.idKem
                      /\ t.confirmPending = s.confirmPending
  BY <1>3, Zenon DEF StageOk, SideOk, HybridFields, IsRecord
<1>7. SideOk(t)
  BY <1>5, Zenon DEF StageOk, SideOk
<1>8. StageOk(t, A) /\ t.ckr.root = s.ckr.root
  BY <1>4, <1>5, <1>7, Zenon DEF StageOk, WalkOk
<1>9. QED
  BY <1>5, <1>6, <1>8, Zenon DEF SameSending, t

\* What both engines' ratchet steps come to.
LEMMA StepOk ==
  ASSUME NEW s, NEW t, NEW A, NEW a, NEW b, SideOk(s),
         KeysOk(s.skipped, A, Len(s.rk)),
         IsRecord(t), DOMAIN t = DOMAIN s,
         t.ckr = [root |-> Append(s.rk, a), i |-> 0],
         t.rk = Append(Append(s.rk, a), b),
         t.ns = 0, t.nr = 0, t.pn = s.ns, t.skipped = s.skipped
  PROVE  /\ StageOk(t, A)
         /\ Len(t.rk) = Len(s.rk) + 2
         /\ Len(t.ckr.root) = Len(s.rk) + 1
<1> DEFINE r == Append(s.rk, a)
<1>1. IsRoot(s.rk)
  BY Zenon DEF SideOk
<1>2. IsRoot(r) /\ Len(r) = Len(s.rk) + 1 /\ Len(s.rk) \in Nat
  BY <1>1, RootStep, Zenon
<1>3. t.ckr = [root |-> r, i |-> 0] /\ t.rk = Append(r, b)
  BY Zenon
<1> HIDE DEF r
<1>4. IsRoot(t.rk) /\ Len(t.rk) = Len(r) + 1 /\ Len(r) \in Nat
  BY <1>2, <1>3, RootStep, Zenon
<1>5. SideOk(t)
  BY <1>4 DEF SideOk
<1>6. \A k \in A \cup StoreKeys(t.skipped) :
        /\ IsRoot(k.root) /\ k.i \in Nat /\ Len(k.root) <= Len(s.rk) /\ Len(k.root) \in Nat
  <2>1. \A k \in A \cup StoreKeys(t.skipped) :
          IsRoot(k.root) /\ k.i \in Nat /\ Len(k.root) <= Len(s.rk)
    BY Zenon DEF KeysOk
  <2>2. QED
    BY <2>1, RootStep, Zenon
<1>7. KeysOk(t.skipped, A, Len(t.rk))
  BY <1>2, <1>4, <1>6 DEF KeysOk
<1>8. ChainOk(t.ckr, t.skipped, A, Len(t.rk))
  <2>1. t.ckr.root = r /\ t.ckr.i = 0
    BY <1>3
  <2>2. \A k \in A \cup StoreKeys(t.skipped) : k.root # r
    BY <1>2, <1>6, SMTT(60)
  <2>3. QED
    <3>1. t.ckr = [root |-> t.ckr.root, i |-> t.ckr.i]
      BY <1>3, Zenon
    <3>2. IsRoot(r) /\ 0 \in Nat /\ Len(r) <= Len(t.rk)
      BY <1>2, <1>4
    <3>3. QED
      BY <2>1, <2>2, <3>1, <3>2, Zenon DEF ChainOk
<1>9. QED
  BY <1>2, <1>3, <1>4, <1>5, <1>7, <1>8 DEF StageOk

\* dh_ratchet of the classical engine.
LEMMA DhRatchetOk ==
  ASSUME NEW s, NEW A, NEW dh, SideOk(s), KeysOk(s.skipped, A, Len(s.rk)), interval = 0
  PROVE  /\ StageOk(DhRatchet(s, dh), A)
         /\ Stepped(s, DhRatchet(s, dh))
<1> DEFINE t == DhRatchet(s, dh)
<1> DEFINE a == Dh(s.dhs, dh)
<1> DEFINE b == Dh(FreshPair(s.dhs), dh)
<1> DEFINE recv == KdfRk(s.rk, a)
<1> DEFINE send == KdfRk(recv.rk, b)
<1>1. /\ t.ckr = recv.ck /\ t.rk = send.rk /\ t.cks = send.ck
      /\ t.hks = s.nhks /\ t.nhks = send.nhk
      /\ t.ns = 0 /\ t.nr = 0 /\ t.pn = s.ns /\ t.skipped = s.skipped
      /\ IsRecord(t) /\ DOMAIN t = DOMAIN s
  BY ZenonT(60) DEF DhRatchet, SideOk, ClassicalFields, IsRecord
<1> HIDE DEF t, a, b
<1>2. /\ t.ckr = [root |-> Append(s.rk, a), i |-> 0]
      /\ t.rk = Append(Append(s.rk, a), b)
      /\ t.cks = [root |-> t.rk, i |-> 0]
      /\ t.nhks = [use |-> "header", root |-> t.rk]
  BY <1>1, Zenon DEF KdfRk
<1> HIDE DEF recv, send
<1>3. /\ StageOk(t, A)
      /\ Len(t.rk) = Len(s.rk) + 2
      /\ Len(t.ckr.root) = Len(s.rk) + 1
  BY <1>1, <1>2, StepOk, ZenonT(60)
<1>4. QED
  BY <1>1, <1>2, <1>3, Zenon DEF Stepped, t

\* dh_ratchet of the hybrid engine.
LEMMA HybridDhRatchetOk ==
  ASSUME NEW s, NEW A, NEW m, SideOk(s), KeysOk(s.skipped, A, Len(s.rk)), interval # 0
  PROVE  /\ StageOk(HybridDhRatchet(s, m), A)
         /\ Stepped(s, HybridDhRatchet(s, m))
<1> DEFINE t == HybridDhRatchet(s, m)
<1> DEFINE regen == s.counter + 1 >= interval
<1> DEFINE fresh == IF regen THEN FreshPair(s.mlkem) ELSE s.mlkem
<1> DEFINE opened == IF s.role = "initiator" /\ s.pq = "classical"
                     THEN Decaps(m.confirm, s.idKem) ELSE NoKey
<1> DEFINE a == HybridCombine(opened, Decaps(m.ct, DecapKey(s, fresh)), Dh(s.dhs, m.dh))
<1> DEFINE dhs == FreshPair(s.dhs)
<1> DEFINE ek == IF m.ek # NoKey THEN m.ek ELSE s.remoteEk
<1> DEFINE confirm == IF s.confirmPending THEN Encaps(s.idKem, dhs) ELSE NoKey
<1> DEFINE b == HybridCombine(IF confirm = NoKey THEN NoKey ELSE Secret(confirm),
                              Secret(Encaps(ek, dhs)), Dh(dhs, m.dh))
<1> DEFINE recv == KdfRk(s.rk, a)
<1> DEFINE send == KdfRk(recv.rk, b)
<1>0. t = [s EXCEPT !.rk = send.rk, !.dhs = dhs, !.dhr = m.dh,
                    !.ckr = recv.ck, !.cks = send.ck,
                    !.hkr = s.nhkr,  !.nhkr = recv.nhk,
                    !.hks = s.nhks,  !.nhks = send.nhk,
                    !.pn = s.ns, !.ns = 0, !.nr = 0,
                    !.mlkem = fresh, !.counter = IF regen THEN 0 ELSE @ + 1,
                    !.sendEk = regen, !.remoteEk = ek, !.kemCt = Encaps(ek, dhs),
                    !.confirmCt = confirm, !.confirmPending = FALSE, !.pq = PqAfter(s),
                    !.idKem = IF s.role = "initiator" THEN NoKey ELSE @]
  BY Zenon DEF HybridDhRatchet
<1> HIDE DEF t, a, b, fresh, regen, opened, dhs, ek, confirm, recv, send
<1>1. /\ t.ckr = recv.ck /\ t.rk = send.rk /\ t.cks = send.ck
      /\ t.hks = s.nhks /\ t.nhks = send.nhk
      /\ t.ns = 0 /\ t.nr = 0 /\ t.pn = s.ns /\ t.skipped = s.skipped
      /\ IsRecord(t) /\ DOMAIN t = DOMAIN s
  <2>1. IsRecord(s) /\ ClassicalFields \subseteq DOMAIN s /\ HybridFields \subseteq DOMAIN s
    BY Zenon DEF SideOk
  <2>2. IsRecord(t) /\ DOMAIN t = DOMAIN s
    <3>1. DOMAIN t = DOMAIN s
      BY <1>0, ZenonT(60)
    <3> DEFINE id == IF s.role = "initiator" THEN NoKey ELSE s.idKem
    <3> DEFINE u == [s EXCEPT !.rk = send.rk, !.dhs = dhs, !.dhr = m.dh,
                              !.ckr = recv.ck, !.cks = send.ck,
                              !.hkr = s.nhkr,  !.nhkr = recv.nhk,
                              !.hks = s.nhks,  !.nhks = send.nhk,
                              !.pn = s.ns, !.ns = 0, !.nr = 0,
                              !.mlkem = fresh, !.counter = IF regen THEN 0 ELSE @ + 1,
                              !.sendEk = regen, !.remoteEk = ek, !.kemCt = Encaps(ek, dhs),
                              !.confirmCt = confirm, !.confirmPending = FALSE,
                              !.pq = PqAfter(s)]
    <3>2. t = [u EXCEPT !.idKem = id]
      BY <1>0, Zenon
    <3> HIDE DEF u, id
    <3>3. IsRecord(t)
      BY <3>2, Zenon DEF IsRecord
    <3>4. QED
      BY <3>1, <3>3, Zenon
  <2>3. t.ckr = recv.ck /\ t.rk = send.rk /\ t.cks = send.ck
    BY <1>0, <2>1, ZenonT(60) DEF ClassicalFields
  <2>4. t.hks = s.nhks /\ t.nhks = send.nhk
    BY <1>0, <2>1, ZenonT(60) DEF ClassicalFields
  <2>5. t.ns = 0 /\ t.nr = 0 /\ t.pn = s.ns /\ t.skipped = s.skipped
    BY <1>0, <2>1, ZenonT(60) DEF ClassicalFields
  <2>6. QED
    BY <2>2, <2>3, <2>4, <2>5, Zenon
<1>2. /\ t.role = s.role /\ t.pq = PqAfter(s) /\ t.confirmPending = FALSE
      /\ t.idKem = IF s.role = "initiator" THEN NoKey ELSE s.idKem
  BY <1>0, ZenonT(60) DEF SideOk, HybridFields, IsRecord
<1>3. /\ t.ckr = [root |-> Append(s.rk, a), i |-> 0]
      /\ t.rk = Append(Append(s.rk, a), b)
      /\ t.cks = [root |-> t.rk, i |-> 0]
      /\ t.nhks = [use |-> "header", root |-> t.rk]
  BY <1>1, Zenon DEF KdfRk, recv, send
<1>4. /\ StageOk(t, A)
      /\ Len(t.rk) = Len(s.rk) + 2
      /\ Len(t.ckr.root) = Len(s.rk) + 1
  BY <1>1, <1>3, StepOk, ZenonT(60)
<1>5. QED
  BY <1>1, <1>2, <1>3, <1>4, Zenon DEF Stepped, t

\* Skipping before and after a step does not touch what the step does.
LEMMA SteppedBetween ==
  ASSUME NEW s, NEW o, NEW n, NEW t, SameSending(s, o), Stepped(o, n), SameSending(n, t),
         t.ckr.root = n.ckr.root
  PROVE  Stepped(s, t)
<1>1. PqAfter(o) = PqAfter(s) \/ interval = 0
  BY Zenon DEF PqAfter, SameSending
<1>2. QED
  BY <1>1, ZenonT(60) DEF SameSending, Stepped

\* The staged copy of either engine keeps what is known of a side's keys.
LEMMA AtMessageOk ==
  ASSUME NEW s, NEW m, NEW A, SideOk(s), RecvOk(s, A), m.n \in Nat, m.pn \in Nat,
         WithinBounds(s, m), NEW t,
         t = IF interval = 0 THEN AtMessage(s, m) ELSE HybridAtMessage(s, m)
  PROVE  /\ StageOk(t, A)
         /\ ~ NewRemote(s, m) => SameSending(s, t)
         /\ NewRemote(s, m) => Stepped(s, t)
<1>1. CASE ~ NewRemote(s, m)
  <2>1. t = SkipTo(s, m.n, s.hkr)
    BY <1>1, Zenon DEF AtMessage, HybridAtMessage
  <2>2. StageOk(s, A)
    BY <1>1, Zenon DEF WithinBounds, RecvOk, StageOk
  <2>3. QED
    BY <1>1, <2>1, <2>2, SkipToOk, ZenonT(60)
<1>2. CASE NewRemote(s, m)
  <2> DEFINE o == IF s.ckr = NoKey THEN s ELSE SkipTo(s, m.pn, s.hkr)
  <2> DEFINE n == IF interval = 0 THEN DhRatchet(o, m.dh) ELSE HybridDhRatchet(o, m)
  <2>1. t = SkipTo(n, m.n, n.hkr)
    BY <1>2, Zenon DEF AtMessage, HybridAtMessage
  <2>2. SideOk(o) /\ KeysOk(o.skipped, A, Len(o.rk)) /\ SameSending(s, o)
    <3>1. CASE s.ckr = NoKey
      BY <3>1, Zenon DEF RecvOk, SameSending
    <3>2. CASE s.ckr # NoKey
      <4>1. StageOk(s, A)
        BY <3>2, Zenon DEF RecvOk, StageOk
      <4>2. StageOk(o, A) /\ SameSending(s, o)
        BY <3>2, <4>1, SkipToOk, Zenon
      <4>3. QED
        BY <4>2, Zenon DEF StageOk
    <3>3. QED
      BY <3>1, <3>2, Zenon
  <2> HIDE DEF o
  <2>3. StageOk(n, A) /\ Stepped(o, n)
    BY <2>2, DhRatchetOk, HybridDhRatchetOk, Zenon
  <2> HIDE DEF n
  <2>4. StageOk(t, A) /\ SameSending(n, t) /\ t.ckr.root = n.ckr.root
    BY <2>1, <2>3, SkipToOk
  <2>5. Stepped(s, t)
    BY <2>2, <2>3, <2>4, SteppedBetween, Zenon
  <2>6. QED
    BY <1>2, <2>4, <2>5, Zenon
<1>3. QED
  BY <1>1, <1>2, Zenon
------------------------------------------------------------------------------
\* What sending, and opening a message with the chain, leave of a side.
AfterSend(s) == [s EXCEPT !.cks = KdfCk(s.cks).ck, !.ns = @ + 1]

AfterOpen(s) == [s EXCEPT !.ckr = KdfCk(@).ck, !.nr = @ + 1, !.skipped = PostSuccess(@)]

Staged(s, m) == IF interval = 0 THEN AtMessage(s, m) ELSE HybridAtMessage(s, m)

\* Sending a message, in either engine.
LEMMA EncryptOk ==
  ASSUME NEW p \in Party, NEW s, NEW S, NEW B, PartyOk(p, s, S, B), s.cks # NoKey,
         NEW m, m.hk = s.hks, m.pn = s.pn, m.n = s.ns, m.mk = KdfCk(s.cks).mk,
         NEW t, t = AfterSend(s)
  PROVE  /\ PartyOk(p, t, S \cup {m}, B)
         /\ t.rk = s.rk
         /\ interval # 0 => /\ t.role = s.role /\ t.pq = s.pq /\ t.idKem = s.idKem
                            /\ t.confirmPending = s.confirmPending
<1>1. SideOk(s) /\ RecvOk(s, UsedKeys(B)) /\ SendOk(p, s, S)
  BY Zenon DEF PartyOk
<1>2. s.cks = [root |-> s.rk, i |-> s.ns] /\ s.ns \in Nat /\ s.pn \in Nat /\ IsRoot(s.rk)
  BY <1>1, Zenon DEF SendOk, SideOk
<1>3. /\ m.mk.root = s.rk /\ m.mk.i = s.ns
      /\ KdfCk(s.cks).ck = [root |-> s.rk, i |-> s.ns + 1]
  BY <1>2 DEF KdfCk
<1>4. /\ t.cks = [root |-> s.rk, i |-> s.ns + 1] /\ t.ns = s.ns + 1
      /\ t.rk = s.rk /\ t.hks = s.hks /\ t.nhks = s.nhks /\ t.nr = s.nr /\ t.pn = s.pn
      /\ t.ckr = s.ckr /\ t.skipped = s.skipped
      /\ IsRecord(t) /\ DOMAIN t = DOMAIN s
  BY <1>1, <1>3, ZenonT(60) DEF AfterSend, SideOk, ClassicalFields, IsRecord
<1>5. interval # 0 => /\ t.role = s.role /\ t.pq = s.pq /\ t.idKem = s.idKem
                      /\ t.confirmPending = s.confirmPending
  BY <1>1, Zenon DEF AfterSend, SideOk, HybridFields, IsRecord
<1>6. SideOk(t)
  BY <1>1, <1>4, SMTT(60) DEF SideOk
<1>7. RecvOk(t, UsedKeys(B))
  BY <1>1, <1>4, Zenon DEF RecvOk
<1>8. SendOk(p, t, S \cup {m})
  <2>1. /\ Len(t.rk) % 2 = Parity(p)
        /\ t.nhks = IF Len(t.rk) = 0 THEN SharedNhkb ELSE [use |-> "header", root |-> t.rk]
        /\ t.cks = [root |-> t.rk, i |-> t.ns]
        /\ First(p) <= Len(t.rk) /\ HeaderFor(p, t.hks, t.rk)
    BY <1>1, <1>4, ZenonT(60) DEF SendOk
  <2>2. \A x \in S \cup {m} : SentOk(p, x, t)
    <3>1. Len(s.rk) \in Nat
      BY <1>2, RootStep, Zenon
    <3>2. ASSUME NEW x \in S PROVE SentOk(p, x, t)
      <4>1. SentOk(p, x, s)
        BY <1>1, ZenonT(60) DEF SendOk
      <4>2. x.n < s.ns => x.n < s.ns + 1
        BY <1>2, <4>1 DEF SentOk
      <4>3. QED
        BY <1>4, <4>1, <4>2, Zenon DEF SentOk
    <3>3. SentOk(p, m, t)
      <4>1. s.ns < s.ns + 1 /\ Len(s.rk) <= Len(s.rk)
        BY <1>2, <3>1, SMTT(60)
      <4>2. QED
        BY <1>2, <1>3, <1>4, <2>1, <4>1, ZenonT(60) DEF SentOk
    <3>4. QED
      BY <3>2, <3>3, Zenon
  <2>3. \A x, y \in S \cup {m} : Len(x.mk.root) = Len(y.mk.root) =>
          x.mk.root = y.mk.root /\ (x.n = y.n => x = y)
    <3>1. \A x, y \in S : Len(x.mk.root) = Len(y.mk.root) =>
            x.mk.root = y.mk.root /\ (x.n = y.n => x = y)
      BY <1>1, Zenon DEF SendOk
    <3>2. \A x \in S : Len(x.mk.root) = Len(m.mk.root) => x.mk.root = m.mk.root /\ x.n # m.n
      <4>1. \A x \in S : Len(x.mk.root) = Len(s.rk) =>
              x.mk.root = s.rk /\ x.n < s.ns /\ x.n \in Nat
        BY <1>1, ZenonT(60) DEF SendOk, SentOk
      <4>2. QED
        BY <1>2, <1>3, <4>1, SMTT(60)
    <3>3. QED
      BY <3>1, <3>2, ZenonT(60)
  <2>4. QED
    BY <2>1, <2>2, <2>3, ZenonT(60) DEF SendOk
<1>9. QED
  BY <1>4, <1>5, <1>6, <1>7, <1>8, Zenon DEF PartyOk

\* Counting a message whose key is new.
LEMMA AcceptNew ==
  ASSUME NEW B, NEW m, B = [x \in DOMAIN B |-> 1], m.mk \notin UsedKeys(B)
  PROVE  LET C == Counted(B, m)
         IN  UsedKeys(C) = UsedKeys(B) \cup {m.mk} /\ C = [x \in DOMAIN C |-> 1]
<1> DEFINE C == Counted(B, m)
<1>1. m \notin DOMAIN B
  BY Zenon DEF UsedKeys
<1>2. C = [x \in DOMAIN B \cup {m} |-> 1]
  BY <1>1, Zenon DEF Counted
<1>3. DOMAIN C = DOMAIN B \cup {m}
  BY <1>2, Zenon
<1> HIDE DEF C
<1>4. UsedKeys(C) = UsedKeys(B) \cup {m.mk} /\ C = [x \in DOMAIN C |-> 1]
  BY <1>2, <1>3 DEF UsedKeys
<1>5. QED
  BY <1>4, Zenon DEF C

\* Decrypting with a stored key: it leaves the store for good.
LEMMA DecryptSkippedOk ==
  ASSUME NEW p \in Party, NEW s, NEW S, NEW B, PartyOk(p, s, S, B),
         NEW m, NEW i \in DOMAIN s.skipped.ent, s.skipped.ent[i].mk = m.mk,
         NEW t, t = [s EXCEPT !.skipped = PostSuccess(StoreRemove(@, i))]
  PROVE  /\ PartyOk(p, t, S, Counted(B, m))
         /\ SameSending(s, t)
<1> DEFINE A == UsedKeys(B)
<1> DEFINE L == Len(s.rk)
<1> DEFINE r == StoreRemove(s.skipped, i)
<1> DEFINE u == PostSuccess(r)
<1> DEFINE C == Counted(B, m)
<1>1. /\ SideOk(s) /\ KeysOk(s.skipped, A, L) /\ SendOk(p, s, S)
      /\ s.ckr # NoKey => ChainOk(s.ckr, s.skipped, A, L)
      /\ B = [x \in DOMAIN B |-> 1]
  BY Zenon DEF PartyOk, RecvOk
<1>2. /\ DOMAIN u.ent \subseteq DOMAIN s.skipped.ent \ {i}
      /\ \A j \in DOMAIN u.ent : u.ent[j] = s.skipped.ent[j]
  <2>1. /\ DOMAIN r.ent = DOMAIN s.skipped.ent \ {i}
        /\ \A j \in DOMAIN r.ent : r.ent[j] = s.skipped.ent[j]
    BY Zenon DEF StoreRemove, RemoveAll, Restrict
  <2> HIDE DEF r
  <2>2. QED
    BY <2>1, PostSuccessDrops
<1>3. t = [s EXCEPT !.skipped = u]
  BY Zenon
<1> HIDE DEF u, r
<1>4. m.mk \in StoreKeys(s.skipped) /\ m.mk \notin A
  BY <1>1, ZenonT(60) DEF StoreKeys, KeysOk
<1>5. m.mk \notin StoreKeys(u)
  BY <1>1, <1>2, ZenonT(60) DEF StoreKeys, KeysOk
<1>6. /\ StoreKeys(u) \subseteq StoreKeys(s.skipped)
      /\ KeysOk(u, A, L)
      /\ s.ckr # NoKey => ChainOk(s.ckr, u, A, L)
  <2>1. DOMAIN u.ent \subseteq DOMAIN s.skipped.ent
    BY <1>2, Zenon
  <2>2. QED
    BY <1>1, <1>2, <2>1, DropKeys, ZenonT(60)
<1>7. UsedKeys(C) = A \cup {m.mk} /\ C = [x \in DOMAIN C |-> 1]
  BY <1>1, <1>4, AcceptNew, Zenon
<1> HIDE DEF C, A, L
<1>8. RecvOk(t, UsedKeys(C)) /\ SameSending(s, t) /\ SideOk(t)
  <2>1. /\ t.skipped = u /\ t.ckr = s.ckr /\ t.rk = s.rk /\ t.cks = s.cks /\ t.ns = s.ns
        /\ t.nr = s.nr /\ t.pn = s.pn /\ t.hks = s.hks /\ t.nhks = s.nhks
        /\ IsRecord(t) /\ DOMAIN t = DOMAIN s
    BY <1>1, <1>3 DEF SideOk, ClassicalFields, IsRecord
  <2>2. interval # 0 => /\ t.role = s.role /\ t.pq = s.pq /\ t.idKem = s.idKem
                        /\ t.confirmPending = s.confirmPending
    BY <1>1, <1>3, Zenon DEF SideOk, HybridFields, IsRecord
  <2>3. KeysOk(u, A \cup {m.mk}, L)
    BY <1>1, <1>4, <1>5, <1>6, Zenon DEF KeysOk
  <2>4. s.ckr # NoKey => ChainOk(s.ckr, u, A \cup {m.mk}, L)
    BY <1>1, <1>4, <1>6, Zenon DEF ChainOk
  <2>5. RecvOk(t, UsedKeys(C))
    BY <1>7, <2>1, <2>3, <2>4, Zenon DEF RecvOk, L
  <2>6. SideOk(t)
    BY <1>1, <2>1, Zenon DEF SideOk
  <2>7. QED
    BY <2>1, <2>2, <2>5, <2>6, Zenon DEF SameSending
<1>9. SendOk(p, t, S)
  BY <1>1, <1>8, ZenonT(60) DEF SendOk, SentOk, SameSending
<1>10. QED
  BY <1>7, <1>8, <1>9, Zenon DEF PartyOk, C

\* Two root steps keep the parity of the number of steps.
LEMMA TwoSteps == 0 % 2 = 0 /\ \A n \in Nat : (n + 2) % 2 = n % 2
  OBVIOUS

\* Decrypting with the chain, in either engine: the key is new, and the chain
\* moves past it.
LEMMA DecryptChainOk ==
  ASSUME NEW p \in Party, NEW s, NEW S, NEW B, PartyOk(p, s, S, B),
         NEW m, m.n \in Nat, m.pn \in Nat, WithinBounds(s, m),
         NEW g, g = Staged(s, m), KdfCk(g.ckr).mk = m.mk,
         NEW t, t = AfterOpen(g)
  PROVE  /\ PartyOk(p, t, S, Counted(B, m))
         /\ SameSending(s, t) \/ (Stepped(s, t) /\ Len(m.mk.root) = Len(s.rk) + 1)
<1> DEFINE A == UsedKeys(B)
<1> DEFINE L == Len(g.rk)
<1> DEFINE u == PostSuccess(g.skipped)
<1> DEFINE C == Counted(B, m)
<1>1. /\ SideOk(s) /\ RecvOk(s, A) /\ SendOk(p, s, S)
      /\ B = [x \in DOMAIN B |-> 1]
  BY Zenon DEF PartyOk
<1>2. /\ StageOk(g, A)
      /\ SameSending(s, g) \/ Stepped(s, g)
  BY <1>1, AtMessageOk, Zenon DEF Staged
<1>3. /\ SideOk(g) /\ KeysOk(g.skipped, A, L) /\ ChainOk(g.ckr, g.skipped, A, L)
  BY <1>2, Zenon DEF StageOk
<1>4. /\ m.mk.root = g.ckr.root /\ m.mk.i = g.ckr.i
      /\ KdfCk(g.ckr).ck = [root |-> g.ckr.root, i |-> g.ckr.i + 1]
  BY <1>3 DEF KdfCk, ChainOk
<1>5. /\ t.ckr = [root |-> g.ckr.root, i |-> g.ckr.i + 1] /\ t.nr = g.nr + 1
      /\ t.skipped = u
      /\ t.rk = g.rk /\ t.cks = g.cks /\ t.ns = g.ns /\ t.pn = g.pn
      /\ t.hks = g.hks /\ t.nhks = g.nhks
      /\ IsRecord(t) /\ DOMAIN t = DOMAIN g
  BY <1>3, <1>4, ZenonT(60) DEF AfterOpen, SideOk, ClassicalFields, IsRecord
<1>6. interval # 0 => /\ t.role = g.role /\ t.pq = g.pq /\ t.idKem = g.idKem
                      /\ t.confirmPending = g.confirmPending
  BY <1>3, Zenon DEF AfterOpen, SideOk, HybridFields, IsRecord
<1>7. SideOk(t)
  BY <1>3, <1>5, SMTT(60) DEF SideOk
<1>8. m.mk \notin A /\ m.mk \notin StoreKeys(g.skipped)
  BY <1>3, <1>4, SMTT(60) DEF ChainOk
<1>9. /\ StoreKeys(u) \subseteq StoreKeys(g.skipped)
      /\ KeysOk(u, A, L) /\ ChainOk(g.ckr, u, A, L)
  BY <1>3, PostSuccessDrops, DropKeys, ZenonT(60)
<1>10. UsedKeys(C) = A \cup {m.mk} /\ C = [x \in DOMAIN C |-> 1]
  BY <1>1, <1>8, AcceptNew, ZenonT(60)
<1> HIDE DEF A, C, u
<1>11. RecvOk(t, UsedKeys(C))
  <2>1. IsRoot(m.mk.root) /\ m.mk.i \in Nat /\ Len(m.mk.root) <= L
    BY <1>3, <1>4, Zenon DEF ChainOk
  <2> HIDE DEF L
  <2>2. KeysOk(u, A \cup {m.mk}, L)
    BY <1>8, <1>9, <2>1, Zenon DEF KeysOk
  <2>3. ChainOk(t.ckr, u, A \cup {m.mk}, L)
    <3>1. /\ t.ckr.root = m.mk.root /\ t.ckr.i = m.mk.i + 1
          /\ t.ckr = [root |-> t.ckr.root, i |-> t.ckr.i]
      BY <1>4, <1>5, SMTT(60)
    <3>2. \A k \in A \cup StoreKeys(u) : k.root = m.mk.root => k.i < m.mk.i /\ k.i \in Nat
      BY <1>4, <1>9, Zenon DEF ChainOk, KeysOk
    <3>3. \A k \in (A \cup {m.mk}) \cup StoreKeys(u) : k.root = m.mk.root => k.i < m.mk.i + 1
      BY <2>1, <3>2, SMTT(60)
    <3>4. QED
      BY <2>1, <3>1, <3>3, SMTT(60) DEF ChainOk
  <2>4. QED
    BY <1>5, <1>10, <2>2, <2>3, Zenon DEF RecvOk, L
<1>12. SameSending(s, t) \/ (Stepped(s, t) /\ Len(m.mk.root) = Len(s.rk) + 1)
  <2>1. CASE SameSending(s, g)
    BY <1>5, <1>6, <2>1, ZenonT(60) DEF SameSending
  <2>2. CASE Stepped(s, g)
    BY <1>4, <1>5, <1>6, <2>2, SMTT(60) DEF Stepped
  <2>3. QED
    BY <1>2, <2>1, <2>2, Zenon
<1>13. SendOk(p, t, S)
  <2>1. CASE SameSending(s, t)
    BY <1>1, <2>1, ZenonT(60) DEF SendOk, SentOk, SameSending
  <2>2. CASE Stepped(s, t)
    <3>1. Len(s.rk) \in Nat /\ IsRoot(s.rk)
      BY <1>1, RootStep, Zenon DEF SideOk
    <3>2. /\ Len(s.rk) % 2 = Parity(p)
          /\ s.nhks = IF Len(s.rk) = 0 THEN SharedNhkb ELSE [use |-> "header", root |-> s.rk]
      BY <1>1, ZenonT(60) DEF SendOk
    <3>3. /\ Len(t.rk) = Len(s.rk) + 2
          /\ t.cks = [root |-> t.rk, i |-> 0] /\ t.ns = 0
          /\ t.hks = s.nhks /\ t.nhks = [use |-> "header", root |-> t.rk]
      BY <2>2, ZenonT(60) DEF Stepped
    <3>4. Len(t.rk) % 2 = Parity(p) /\ First(p) <= Len(t.rk) /\ Len(t.rk) # 0
      <4>1. Len(t.rk) % 2 = Len(s.rk) % 2
        BY <3>1, <3>3, TwoSteps, ZenonT(60)
      <4>2. First(p) <= Len(t.rk) /\ Len(t.rk) # 0
        BY <3>1, <3>3, SMTT(60) DEF First
      <4>3. QED
        BY <3>2, <4>1, <4>2, ZenonT(60)
    <3>5. HeaderFor(p, t.hks, t.rk)
      <4>1. CASE Len(s.rk) = 0
        <5>1. Len(s.rk) % 2 = 0
          BY <4>1, TwoSteps, ZenonT(60)
        <5>2. p # Alice /\ Len(t.rk) = 2
          BY <3>2, <3>3, <4>1, <5>1, SMTT(60) DEF Parity
        <5>3. QED
          BY <3>2, <3>3, <4>1, <5>1, <5>2, Zenon DEF HeaderFor, First, FirstHeader
      <4>2. CASE Len(s.rk) # 0
        <5>1. Len(t.rk) # First(p)
          BY <3>1, <3>2, <3>3, <4>2, SMTT(60) DEF First, Parity
        <5>2. t.hks = [use |-> "header", root |-> s.rk] /\ Len(s.rk) = Len(t.rk) - 2
          BY <3>1, <3>2, <3>3, <4>2, SMTT(60)
        <5>3. QED
          BY <5>1, <5>2, SMTT(60) DEF HeaderFor
      <4>3. QED
        BY <4>1, <4>2, Zenon
    <3>6. \A x \in S : SentOk(p, x, t)
      <4>1. \A x \in S : SentOk(p, x, s)
        BY <1>1, Zenon DEF SendOk
      <4>2. \A x \in S : Len(x.mk.root) \in Nat
        BY <4>1, RootStep, Zenon DEF SentOk
      <4>3. QED
        <5>1. ASSUME NEW x \in S PROVE SentOk(p, x, t)
          <6>1. SentOk(p, x, s) /\ Len(x.mk.root) \in Nat
            BY <4>1, <4>2, Zenon
          <6>2. Len(x.mk.root) <= Len(t.rk) /\ Len(x.mk.root) # Len(t.rk)
            BY <3>1, <3>3, <6>1, SMTT(60) DEF SentOk
          <6>3. QED
            BY <6>1, <6>2, ZenonT(60) DEF SentOk
        <5>2. QED
          BY <5>1, Zenon
    <3>7. QED
      BY <1>1, <3>3, <3>4, <3>5, <3>6, ZenonT(60) DEF SendOk
  <2>3. QED
    BY <1>12, <2>1, <2>2, Zenon
<1>14. QED
  BY <1>7, <1>10, <1>11, <1>12, <1>13, Zenon DEF PartyOk, C
------------------------------------------------------------------------------
\* A step of one side leaves the other as it was.
LEMMA OneSideMoves ==
  ASSUME PartiesOk, NEW p \in Party, NEW t, NEW S, NEW C, PartyOk(p, t, S, C),
         st' = [st EXCEPT ![p] = t], sent' = [sent EXCEPT ![p] = S],
         accepted' = [accepted EXCEPT ![p] = C], interval' = interval
  PROVE  PartiesOk'
<1>1. /\ st' = [q \in Party |-> st'[q]]
      /\ sent' = [q \in Party |-> sent'[q]]
      /\ accepted' = [q \in Party |-> accepted'[q]]
  BY ZenonT(60) DEF PartiesOk
<1>2. ASSUME NEW q \in Party PROVE PartyOk(q, st'[q], sent'[q], accepted'[q])
  <2>1. CASE q = p
    BY <2>1, Zenon DEF PartiesOk
  <2>2. CASE q # p
    <3>1. st'[q] = st[q] /\ sent'[q] = sent[q] /\ accepted'[q] = accepted[q]
      BY <2>2, ZenonT(60) DEF PartiesOk
    <3>2. QED
      BY <3>1, ZenonT(60) DEF PartiesOk
  <2>3. QED
    BY <2>1, <2>2, Zenon
<1>3. \A q \in Party : PartyOk(q, st[q], sent[q], accepted[q])'
  BY <1>2, Zenon DEF PartyOk, SideOk
<1>4. QED
  BY <1>1, <1>3, Zenon DEF PartiesOk

\* A side that makes no root step changes nothing about the confirmation.
LEMMA PqSame ==
  ASSUME PartiesOk, PqOk, NEW p \in Party, NEW t, SameSending(st[p], t), interval # 0,
         st' = [st EXCEPT ![p] = t]
  PROVE  PqOk'
<1>1. \A q \in Party : /\ st'[q].rk = st[q].rk /\ st'[q].role = st[q].role
                        /\ st'[q].pq = st[q].pq /\ st'[q].idKem = st[q].idKem
                        /\ st'[q].confirmPending = st[q].confirmPending
  BY Zenon DEF PartiesOk, SameSending
<1>2. Alice \in Party /\ Bob \in Party
  BY Zenon DEF Party
<1>3. QED
  BY <1>1, <1>2, ZenonT(60) DEF PqOk, InitiatorPq, ResponderPq

\* A root step, made for a message the peer has sent on a chain of the root
\* that this side is about to reach.
LEMMA PqStep ==
  ASSUME PartiesOk, PqOk, NEW p \in Party, NEW t, Stepped(st[p], t), interval # 0,
         st' = [st EXCEPT ![p] = t],
         NEW m, SentOk(Peer(p), m, st[Peer(p)]), Len(m.mk.root) = Len(st[p].rk) + 1
  PROVE  PqOk'
<1>1. Alice \in Party /\ Bob \in Party /\ Alice # Bob
  BY PartyAssumption, Zenon DEF Party
<1>2. Len(st[Alice].rk) \in Nat /\ Len(st[Bob].rk) \in Nat
  BY <1>1, RootStep, Zenon DEF PartiesOk, PartyOk, SideOk
<1>3. Len(t.rk) = Len(st[p].rk) + 2
  BY Zenon DEF Stepped
<1>4. /\ t.role = st[p].role /\ t.pq = PqAfter(st[p]) /\ t.confirmPending = FALSE
      /\ t.idKem = IF st[p].role = "initiator" THEN NoKey ELSE st[p].idKem
  BY Zenon DEF Stepped
<1>5. CASE p = Alice
  <2>1. st'[Alice] = t /\ st'[Bob] = st[Bob]
    BY <1>1, <1>5, Zenon DEF PartiesOk
  <2>2. 2 <= Len(st[Bob].rk)
    <3>1. IsRoot(m.mk.root) /\ First(Bob) <= Len(m.mk.root) /\ Len(m.mk.root) <= Len(st[Bob].rk)
      BY <1>1, <1>5, Zenon DEF SentOk, Peer
    <3>2. QED
      BY <1>1, <1>2, <3>1, RootStep, SMTT(60) DEF First
  <2>3. t.role = "initiator" /\ t.pq = "confirmed" /\ t.idKem = NoKey
    <3>1. /\ st[p].role = "initiator" /\ st[p].confirmPending = FALSE
          /\ st[p].pq = "classical" \/ st[p].pq = "confirmed"
      BY <1>5, Zenon DEF PqOk, InitiatorPq
    <3>2. PqAfter(st[p]) = "confirmed"
      BY <3>1, Zenon DEF PqAfter
    <3>3. QED
      BY <1>4, <3>1, <3>2, Zenon
  <2>4. 3 <= Len(t.rk)
    <3>1. Len(st[Alice].rk) = 1 \/ 3 <= Len(st[Alice].rk)
      BY Zenon DEF PqOk, InitiatorPq
    <3>2. \A n \in Nat : n = 1 \/ 3 <= n => 3 <= n + 2
      OBVIOUS
    <3>3. QED
      BY <1>2, <1>3, <1>5, <3>1, <3>2, ZenonT(60)
  <2>5. InitiatorPq(t, st[Bob])
    BY <1>4, <2>2, <2>3, <2>4, Zenon DEF InitiatorPq
  <2>6. ResponderPq(t, st[Bob])
    BY <2>4, Zenon DEF PqOk, ResponderPq
  <2>7. QED
    BY <2>1, <2>5, <2>6, Zenon DEF PqOk
<1>6. CASE p = Bob
  <2>1. st'[Bob] = t /\ st'[Alice] = st[Alice]
    BY <1>1, <1>6, Zenon DEF PartiesOk
  <2>2. Len(st[Bob].rk) + 1 <= Len(st[Alice].rk)
    BY <1>1, <1>2, <1>6, Zenon DEF SentOk, Peer
  <2>3. t.role = "responder" /\ 2 <= Len(t.rk)
    BY <1>2, <1>3, <1>4, <1>6, SMTT(60) DEF PqOk, ResponderPq
  <2>4. InitiatorPq(st[Alice], t)
    BY <2>3, Zenon DEF PqOk, InitiatorPq
  <2>5. ResponderPq(st[Alice], t)
    <3>1. CASE st[Bob].pq = "classical"
      <4>1. t.pq = "confirm_sent" /\ Len(t.rk) = 2
        BY <1>2, <1>3, <1>4, <1>6, <3>1, SMTT(60) DEF PqOk, ResponderPq, PqAfter
      <4>2. QED
        BY <1>4, <2>3, <4>1, Zenon DEF ResponderPq
    <3>2. CASE st[Bob].pq # "classical"
      <4>1. /\ st[Bob].role = "responder" /\ st[Bob].confirmPending = FALSE
            /\ st[Bob].pq \in {"confirm_sent", "confirmed"} /\ 2 <= Len(st[Bob].rk)
        <5>1. /\ st[Bob].role = "responder" /\ st[Bob].confirmPending = FALSE
              /\ st[Bob].pq \in {"confirm_sent", "confirmed"}
              /\ Len(st[Bob].rk) = 2 \/ 4 <= Len(st[Bob].rk)
          BY <3>2, Zenon DEF PqOk, ResponderPq
        <5>2. \A n \in Nat : n = 2 \/ 4 <= n => 2 <= n
          OBVIOUS
        <5>3. QED
          BY <1>2, <5>1, <5>2, Zenon
      <4>2. t.pq = "confirmed"
        <5>1. PqAfter(st[Bob]) = "confirmed"
          <6>1. CASE st[Bob].pq = "confirm_sent"
            BY <4>1, <6>1, Zenon DEF PqAfter
          <6>2. CASE st[Bob].pq = "confirmed"
            BY <4>1, <6>2, ZenonT(60) DEF PqAfter
          <6>3. QED
            BY <4>1, <6>1, <6>2, Zenon
        <5>2. QED
          BY <1>4, <1>6, <5>1, Zenon
      <4>3. 4 <= Len(t.rk) /\ 3 <= Len(st[Alice].rk)
        BY <1>2, <1>3, <1>6, <2>2, <4>1, SMTT(60)
      <4>4. QED
        BY <1>4, <2>3, <4>2, <4>3, Zenon DEF ResponderPq
    <3>3. QED
      BY <3>1, <3>2, Zenon
  <2>6. QED
    BY <2>1, <2>4, <2>5, Zenon DEF PqOk
<1>7. QED
  BY <1>5, <1>6, Zenon DEF Party

\* Both engines start with the invariant.
LEMMA InitInv == Init => IInv
<1> SUFFICES ASSUME Init PROVE IInv
  BY Zenon
<1>1. Alice \in Party /\ Bob \in Party /\ Alice # Bob /\ \A p \in Party : p = Alice \/ p = Bob
  BY PartyAssumption, Zenon DEF Party
<1>2. /\ sent = [p \in Party |-> {}] /\ accepted = [p \in Party |-> NoCount]
      /\ IF interval = 0 THEN ClassicalInit ELSE HybridInit
  BY Zenon DEF Init
<1>3. IsRoot(SkDr) /\ Len(SkDr) = 0
  BY DEF IsRoot, SkDr
<1>4. /\ UsedKeys(NoCount) = {} /\ NoCount = [m \in DOMAIN NoCount |-> 1]
  BY Zenon DEF UsedKeys, NoCount
<1>5. \A L : KeysOk(EmptyStore, {}, L) /\ StoreKeys(EmptyStore) = {}
  <2>1. DOMAIN EmptyStore.ent = {}
    BY Zenon DEF EmptyStore
  <2>2. QED
    BY <2>1, FS_EmptySet, Zenon DEF KeysOk, StoreKeys
<1>6. /\ SideOk(st[Bob]) /\ st[Bob].rk = SkDr /\ st[Bob].cks = NoKey /\ st[Bob].ckr = NoKey
      /\ st[Bob].nhks = SharedNhkb /\ st[Bob].skipped = EmptyStore
      /\ interval # 0 => /\ st[Bob].role = "responder" /\ st[Bob].pq = "classical"
                         /\ st[Bob].confirmPending = TRUE
  <2>1. CASE interval = 0
    <3>1. st[Bob] = InitBob
      BY <1>1, <1>2, <2>1, Zenon DEF ClassicalInit
    <3>2. QED
      BY <1>3, <2>1, <3>1 DEF InitBob, SideOk, ClassicalFields, IsRecord
  <2>2. CASE interval # 0
    <3>1. st[Bob] = HybridInitBob
      BY <1>1, <1>2, <2>2, Zenon DEF HybridInit
    <3>2. QED
      BY <1>3, <2>2, <3>1 DEF HybridInitBob, SideOk, ClassicalFields, HybridFields, IsRecord
  <2>3. QED
    BY <2>1, <2>2, ZenonT(60)
<1> DEFINE Start(x) ==
       /\ SideOk(st[Alice]) /\ st[Alice].rk = Append(SkDr, x)
       /\ st[Alice].cks = [root |-> Append(SkDr, x), i |-> 0]
       /\ st[Alice].nhks = [use |-> "header", root |-> Append(SkDr, x)]
       /\ st[Alice].hks = SharedHka /\ st[Alice].ns = 0
       /\ st[Alice].ckr = NoKey /\ st[Alice].skipped = EmptyStore
       /\ interval # 0 => /\ st[Alice].role = "initiator" /\ st[Alice].pq = "classical"
                          /\ st[Alice].idKem = IdentityKem
                          /\ st[Alice].confirmPending = FALSE
<1>7. \E x : Start(x)
  <2>1. CASE interval = 0
    <3> DEFINE x == Dh(KeyPair(Alice, 1), KeyPair(Bob, 0))
    <3>1. st[Alice] = InitAlice
      BY <1>1, <1>2, <2>1, Zenon DEF ClassicalInit
    <3>2. InitAlice.rk = Append(SkDr, x) /\ IsRoot(Append(SkDr, x))
      BY <1>3, RootStep, ZenonT(60) DEF InitAlice, KdfRk
    <3>3. SideOk(InitAlice)
      BY <2>1, <3>2, ZenonT(60) DEF InitAlice, SideOk, ClassicalFields, IsRecord
    <3>4. Start(x)
      <4>1. /\ InitAlice.cks = [root |-> Append(SkDr, x), i |-> 0]
            /\ InitAlice.nhks = [use |-> "header", root |-> Append(SkDr, x)]
        BY ZenonT(60) DEF InitAlice, KdfRk
      <4>2. /\ InitAlice.hks = SharedHka /\ InitAlice.ns = 0
            /\ InitAlice.ckr = NoKey /\ InitAlice.skipped = EmptyStore
        BY ZenonT(60) DEF InitAlice
      <4>3. QED
        BY <2>1, <3>1, <3>2, <3>3, <4>1, <4>2, ZenonT(60)
    <3>5. QED
      BY <3>4, ZenonT(60)
  <2>2. CASE interval # 0
    <3> DEFINE dhs == KeyPair(Alice, 1)
    <3> DEFINE x == HybridCombine(NoKey, Secret(Encaps(KemPair(Bob, 0), dhs)),
                                  Dh(dhs, KeyPair(Bob, 0)))
    <3>1. st[Alice] = HybridInitAlice
      BY <1>1, <1>2, <2>2, Zenon DEF HybridInit
    <3>2. HybridInitAlice.rk = Append(SkDr, x) /\ IsRoot(Append(SkDr, x))
      BY <1>3, RootStep, ZenonT(60) DEF HybridInitAlice, KdfRk
    <3>3. SideOk(HybridInitAlice)
      <4>1. IsRecord(HybridInitAlice)
        BY ZenonT(60) DEF HybridInitAlice, IsRecord
      <4>2. DOMAIN HybridInitAlice = ClassicalFields \cup HybridFields
        BY ZenonT(60) DEF HybridInitAlice, ClassicalFields, HybridFields
      <4>3. HybridInitAlice.ns = 0 /\ HybridInitAlice.nr = 0 /\ HybridInitAlice.pn = 0
        BY ZenonT(60) DEF HybridInitAlice
      <4>4. QED
        BY <3>2, <4>1, <4>2, <4>3 DEF SideOk
    <3>4. Start(x)
      <4>1. /\ HybridInitAlice.cks = [root |-> Append(SkDr, x), i |-> 0]
            /\ HybridInitAlice.nhks = [use |-> "header", root |-> Append(SkDr, x)]
        BY ZenonT(60) DEF HybridInitAlice, KdfRk
      <4>2. /\ HybridInitAlice.hks = SharedHka /\ HybridInitAlice.ns = 0
            /\ HybridInitAlice.ckr = NoKey /\ HybridInitAlice.skipped = EmptyStore
            /\ HybridInitAlice.role = "initiator" /\ HybridInitAlice.pq = "classical"
            /\ HybridInitAlice.idKem = IdentityKem
            /\ HybridInitAlice.confirmPending = FALSE
        BY ZenonT(60) DEF HybridInitAlice
      <4>3. QED
        BY <2>2, <3>1, <3>2, <3>3, <4>1, <4>2, Zenon
    <3>5. QED
      BY <3>4, ZenonT(60)
  <2>3. QED
    BY <2>1, <2>2, ZenonT(60)
<1>8. PICK x : Start(x)
  BY <1>7, ZenonT(60)
<1>9. Len(st[Alice].rk) = 1 /\ Len(st[Bob].rk) = 0
  BY <1>3, <1>6, <1>8, RootStep, SMTT(60)
<1> HIDE DEF Start
<1>10. \A p \in Party : RecvOk(st[p], UsedKeys(NoCount))
  <2>1. st[Alice].ckr = NoKey /\ st[Alice].skipped = EmptyStore
    BY <1>8, ZenonT(60) DEF Start
  <2>2. QED
    BY <1>1, <1>4, <1>5, <1>6, <2>1, ZenonT(60) DEF RecvOk
<1> USE DEF Start
<1>11. SendOk(Alice, st[Alice], {})
  BY <1>8, <1>9, SMTT(60) DEF SendOk, Parity, First, HeaderFor, FirstHeader
<1>12. SendOk(Bob, st[Bob], {})
  BY <1>1, <1>6, <1>9, SMTT(60) DEF SendOk, Parity
<1>13. PartiesOk
  <2>1. st = [p \in Party |-> st[p]]
    BY <1>2, Zenon DEF ClassicalInit, HybridInit
  <2>2. \A p \in Party : SideOk(st[p]) /\ SendOk(p, st[p], {})
    BY <1>1, <1>6, <1>8, <1>11, <1>12, Zenon
  <2>3. \A p \in Party : sent[p] = {} /\ accepted[p] = NoCount
    BY <1>2, Zenon
  <2>4. \A p \in Party : PartyOk(p, st[p], sent[p], accepted[p])
    BY <1>4, <1>10, <2>2, <2>3, Zenon DEF PartyOk
  <2>5. QED
    BY <1>2, <2>1, <2>4, Zenon DEF PartiesOk
<1>14. interval # 0 => PqOk
  BY <1>6, <1>8, <1>9, ZenonT(60) DEF PqOk, InitiatorPq, ResponderPq
<1>15. QED
  BY <1>13, <1>14, Zenon DEF IInv

\* What either engine's encryption does.
LEMMA EncryptStep ==
  ASSUME IInv, NEW p \in Party, IF interval = 0 THEN Encrypt(p) ELSE HybridEncrypt(p),
         interval' = interval
  PROVE  IInv'
<1> DEFINE s == st[p]
<1> DEFINE m == IF interval = 0 THEN Message(s) ELSE HybridMessage(s)
<1> DEFINE t == AfterSend(s)
<1>1. PartiesOk /\ PartyOk(p, s, sent[p], accepted[p])
  BY Zenon DEF IInv, PartiesOk
<1>2. s.cks # NoKey /\ accepted' = accepted
  BY Zenon DEF Encrypt, HybridEncrypt
<1>3. st' = [st EXCEPT ![p] = t]
  BY <1>1, Zenon DEF AfterSend, Encrypt, HybridEncrypt, PartiesOk
<1>4. sent' = [sent EXCEPT ![p] = sent[p] \cup {m}]
  BY Zenon DEF Encrypt, HybridEncrypt
<1>5. accepted' = [accepted EXCEPT ![p] = accepted[p]]
  BY <1>1, <1>2, Zenon DEF PartiesOk
<1>6. m.hk = s.hks /\ m.pn = s.pn /\ m.n = s.ns /\ m.mk = KdfCk(s.cks).mk
  BY ZenonT(60) DEF Message, HybridMessage
<1> HIDE DEF m
<1>7. /\ PartyOk(p, t, sent[p] \cup {m}, accepted[p])
      /\ t.rk = s.rk
      /\ interval # 0 => /\ t.role = s.role /\ t.pq = s.pq /\ t.idKem = s.idKem
                         /\ t.confirmPending = s.confirmPending
  BY <1>1, <1>2, <1>6, EncryptOk, SMTT(60)
<1> HIDE DEF t
<1>8. PartiesOk'
  BY <1>1, <1>3, <1>4, <1>5, <1>7, OneSideMoves, ZenonT(60)
<1>9. interval # 0 => PqOk'
  <2> SUFFICES ASSUME interval # 0 PROVE PqOk'
    BY Zenon
  <2>1. \A q \in Party : /\ st'[q].rk = st[q].rk /\ st'[q].role = st[q].role
                          /\ st'[q].pq = st[q].pq /\ st'[q].idKem = st[q].idKem
                          /\ st'[q].confirmPending = st[q].confirmPending
    BY <1>1, <1>3, <1>7, Zenon DEF PartiesOk
  <2>2. Alice \in Party /\ Bob \in Party /\ PqOk
    BY Zenon DEF Party, IInv
  <2>3. QED
    BY <2>1, <2>2, ZenonT(60) DEF PqOk, InitiatorPq, ResponderPq
<1>10. QED
  BY <1>8, <1>9, Zenon DEF IInv

\* A message of p's peer, as p meets it.
LEMMA PeerMessage ==
  ASSUME IInv, NEW p \in Party, NEW m \in sent[Peer(p)]
  PROVE  SentOk(Peer(p), m, st[Peer(p)]) /\ m.n \in Nat /\ m.pn \in Nat
<1>1. Peer(p) \in Party
  BY Zenon DEF Peer, Party
<1>2. SentOk(Peer(p), m, st[Peer(p)])
  BY <1>1, ZenonT(60) DEF IInv, PartiesOk, PartyOk, SendOk
<1>3. QED
  BY <1>2, ZenonT(60) DEF SentOk

\* The first path of decryption, in either engine.
LEMMA DecryptSkippedStep ==
  ASSUME IInv, NEW p \in Party, NEW m, NEW intact, DecryptSkipped(p, m, intact),
         interval' = interval
  PROVE  IInv'
<1> DEFINE s == st[p]
<1> DEFINE i == Min(SkippedFor(s, m))
<1> DEFINE t == [s EXCEPT !.skipped = PostSuccess(StoreRemove(@, i))]
<1> DEFINE C == Counted(accepted[p], m)
<1>1. PartiesOk /\ PartyOk(p, s, sent[p], accepted[p])
  BY Zenon DEF IInv, PartiesOk
<1>2. /\ SkippedFor(s, m) # {} /\ s.skipped.ent[i].mk = m.mk
      /\ st' = [st EXCEPT ![p].skipped = PostSuccess(StoreRemove(@, i))]
      /\ accepted' = [accepted EXCEPT ![p] = Counted(@, m)]
      /\ sent' = sent
  BY Zenon DEF DecryptSkipped, OpensWithSkipped, Accept
<1>3. i \in DOMAIN s.skipped.ent
  <2>1. DOMAIN s.skipped.ent \in SUBSET Nat
    BY <1>1, ZenonT(60) DEF PartyOk, RecvOk, KeysOk
  <2>2. SkippedFor(s, m) \in SUBSET DOMAIN s.skipped.ent
    BY Zenon DEF SkippedFor
  <2>3. QED
    BY <1>2, <2>1, <2>2, MinOfNaturals, Zenon
<1>4. /\ st' = [st EXCEPT ![p] = t]
      /\ accepted' = [accepted EXCEPT ![p] = C]
      /\ sent' = [sent EXCEPT ![p] = sent[p]]
  BY <1>1, <1>2, ZenonT(60) DEF PartiesOk
<1> HIDE DEF i
<1>5. PartyOk(p, t, sent[p], C) /\ SameSending(s, t)
  BY <1>1, <1>2, <1>3, DecryptSkippedOk, SMTT(60)
<1> HIDE DEF t, C
<1>6. PartiesOk'
  BY <1>1, <1>4, <1>5, OneSideMoves, ZenonT(60)
<1>7. interval # 0 => PqOk'
  BY <1>1, <1>4, <1>5, PqSame, ZenonT(60) DEF IInv
<1>8. QED
  BY <1>6, <1>7, Zenon DEF IInv

\* The second path, in either engine.
LEMMA DecryptChainStep ==
  ASSUME IInv, NEW p \in Party, NEW m \in sent[Peer(p)], NEW intact,
         IF interval = 0 THEN DecryptChain(p, m, intact) ELSE HybridDecryptChain(p, m, intact),
         interval' = interval
  PROVE  IInv'
<1> DEFINE s == st[p]
<1> DEFINE g == Staged(s, m)
<1> DEFINE t == AfterOpen(g)
<1> DEFINE C == Counted(accepted[p], m)
<1>1. PartiesOk /\ PartyOk(p, s, sent[p], accepted[p])
  BY Zenon DEF IInv, PartiesOk
<1>2. SentOk(Peer(p), m, st[Peer(p)]) /\ m.n \in Nat /\ m.pn \in Nat
  BY PeerMessage, Zenon
<1>3. WithinBounds(s, m) /\ KdfCk(g.ckr).mk = m.mk
  BY Zenon DEF DecryptChain, HybridDecryptChain, OpensWithChain, HybridOpensWithChain, Staged
<1>4. /\ st' = [st EXCEPT ![p] = t]
      /\ accepted' = [accepted EXCEPT ![p] = Counted(@, m)]
      /\ sent' = sent
  BY ZenonT(60) DEF DecryptChain, HybridDecryptChain, Accept, AfterOpen, Staged
<1>5. /\ accepted' = [accepted EXCEPT ![p] = C]
      /\ sent' = [sent EXCEPT ![p] = sent[p]]
  BY <1>1, <1>4, ZenonT(60) DEF PartiesOk
<1>6. /\ PartyOk(p, t, sent[p], C)
      /\ SameSending(s, t) \/ (Stepped(s, t) /\ Len(m.mk.root) = Len(s.rk) + 1)
  BY <1>1, <1>2, <1>3, DecryptChainOk, ZenonT(60)
<1> HIDE DEF t, C
<1>7. PartiesOk'
  BY <1>1, <1>4, <1>5, <1>6, OneSideMoves, ZenonT(60)
<1>8. interval # 0 => PqOk'
  BY <1>1, <1>2, <1>4, <1>6, PqSame, PqStep, ZenonT(60) DEF IInv
<1>9. QED
  BY <1>7, <1>8, Zenon DEF IInv

\* Every step of either engine keeps the invariant.
LEMMA NextInv == IInv /\ [Next]_vars => IInv'
<1> SUFFICES ASSUME IInv, [Next]_vars PROVE IInv'
  BY Zenon
<1>1. ASSUME UNCHANGED <<st, sent, accepted, interval>> PROVE IInv'
  BY <1>1, Zenon DEF IInv, PartiesOk, PartyOk, SideOk, PqOk
<1>2. CASE UNCHANGED vars
  BY <1>1, <1>2, Zenon DEF vars, session
<1>3. CASE interval = 0 /\ ClassicalNext /\ UNCHANGED interval
  <2>1. ASSUME NEW p \in Party, Encrypt(p) PROVE IInv'
    BY <1>3, <2>1, EncryptStep, Zenon
  <2>2. ASSUME NEW p \in Party, NEW m \in sent[Peer(p)], NEW intact \in BOOLEAN,
               Decrypt(p, m, intact)
        PROVE  IInv'
    <3>1. CASE DecryptSkipped(p, m, intact)
      BY <1>3, <3>1, DecryptSkippedStep, Zenon
    <3>2. CASE DecryptChain(p, m, intact)
      BY <1>3, <3>2, DecryptChainStep, Zenon
    <3>3. CASE DecryptReject(p, m, intact)
      BY <1>1, <1>3, <3>3, Zenon DEF DecryptReject, session
    <3>4. QED
      BY <2>2, <3>1, <3>2, <3>3, Zenon DEF Decrypt
  <2>3. QED
    BY <1>3, <2>1, <2>2, ZenonT(60) DEF ClassicalNext
<1>4. CASE interval # 0 /\ HybridNext /\ UNCHANGED interval
  <2>1. ASSUME NEW p \in Party, HybridEncrypt(p) PROVE IInv'
    BY <1>4, <2>1, EncryptStep, Zenon
  <2>2. ASSUME NEW p \in Party, NEW m \in sent[Peer(p)], NEW intact \in BOOLEAN,
               \/ HybridDecryptSkipped(p, m, intact)
               \/ HybridDecryptChain(p, m, intact)
               \/ HybridDecryptReject(p, m, intact)
        PROVE  IInv'
    <3>1. CASE HybridDecryptSkipped(p, m, intact)
      BY <1>4, <3>1, DecryptSkippedStep, Zenon DEF HybridDecryptSkipped
    <3>2. CASE HybridDecryptChain(p, m, intact)
      BY <1>4, <3>2, DecryptChainStep, Zenon
    <3>3. CASE HybridDecryptReject(p, m, intact)
      BY <1>1, <1>4, <3>3, Zenon DEF HybridDecryptReject, session
    <3>4. QED
      BY <2>2, <3>1, <3>2, <3>3, Zenon
  <2>3. QED
    BY <1>4, <2>1, <2>2, Zenon DEF HybridNext
<1>5. QED
  BY <1>2, <1>3, <1>4, Zenon DEF Next

\* The invariant the four theorems rest on: a receiver's chain is past every
\* key it has used or stored, a sender's past every message it has sent.
THEOREM RatchetInvariant == Spec => []IInv
<1>1. Init => IInv
  BY InitInv, Zenon
<1>2. IInv /\ [Next]_vars => IInv'
  BY NextInv, Zenon
<1>3. QED
  BY <1>1, <1>2, PTL DEF Spec

\* No message is decrypted twice by gy_dr_decrypt_assoc or
\* gy_hybrid_dr_decrypt_assoc, whatever the network delivers, however long the
\* session and however small the store.
THEOREM NeverReplayed == Spec => []NoReplay
<1>1. IInv => NoReplay
  BY DEF IInv, PartiesOk, PartyOk, NoReplay
<1>2. QED
  BY <1>1, RatchetInvariant, PTL

\* What a side has decrypted it cannot derive again, and what it has sent is
\* behind its chain, in every state of either engine.
THEOREM ForwardSecret == Spec => []ForwardSecrecy
<1>1. ASSUME IInv PROVE ForwardSecrecy
  <2> DEFINE Safe(p) ==
        /\ \A m \in DOMAIN accepted[p] :
             /\ ~ Derivable(st[p].ckr, m.mk)
             /\ \A i \in DOMAIN st[p].skipped.ent : st[p].skipped.ent[i].mk # m.mk
        /\ \A m \in sent[p] : ~ Derivable(st[p].cks, m.mk)
  <2> SUFFICES ASSUME NEW p \in Party PROVE Safe(p)
    BY Zenon DEF ForwardSecrecy
  <2> DEFINE s == st[p]
  <2>1. PartyOk(p, s, sent[p], accepted[p])
    BY <1>1, Zenon DEF IInv, PartiesOk
  <2>2. ASSUME NEW m \in DOMAIN accepted[p]
        PROVE  /\ ~ Derivable(s.ckr, m.mk)
               /\ \A i \in DOMAIN s.skipped.ent : s.skipped.ent[i].mk # m.mk
    <3>1. m.mk \in UsedKeys(accepted[p])
      BY Zenon DEF UsedKeys
    <3>2. m.mk \notin StoreKeys(s.skipped)
      BY <2>1, <3>1, ZenonT(60) DEF PartyOk, RecvOk, KeysOk
    <3>3. m.mk.i \in Nat
      BY <2>1, <3>1, ZenonT(60) DEF PartyOk, RecvOk, KeysOk
    <3>4. s.ckr # NoKey /\ m.mk.root = s.ckr.root => m.mk.i < s.ckr.i /\ s.ckr.i \in Nat
      BY <2>1, <3>1, ZenonT(60) DEF PartyOk, RecvOk, ChainOk
    <3>5. QED
      BY <3>2, <3>3, <3>4, SMTT(60) DEF StoreKeys, Derivable
  <2>3. ASSUME NEW m \in sent[p] PROVE ~ Derivable(s.cks, m.mk)
    <3>1. SentOk(p, m, s)
      BY <2>1, Zenon DEF PartyOk, SendOk
    <3>2. s.cks # NoKey => s.cks.root = s.rk /\ s.cks.i = s.ns
      BY <2>1, SMTT(60) DEF PartyOk, SendOk
    <3>3. m.mk.i \in Nat /\ s.ns \in Nat /\ (m.mk.root = s.rk => m.mk.i < s.ns)
      BY <2>1, <3>1, ZenonT(60) DEF PartyOk, SideOk, SentOk
    <3>4. QED
      BY <3>2, <3>3, SMTT(60) DEF Derivable
  <2>4. QED
    BY <2>2, <2>3, Zenon
<1>2. QED
  BY <1>1, RatchetInvariant, PTL

\* Over all chains of both sides, a message key, and a header key with a
\* message number, belong to one message.
THEOREM KeysUsedOnce == Spec => []KeysNeverReused
<1>1. ASSUME IInv PROVE KeysNeverReused
  <2> SUFFICES ASSUME NEW p \in Party, NEW q \in Party, NEW m \in sent[p], NEW o \in sent[q],
                      m.mk = o.mk \/ (m.hk = o.hk /\ m.n = o.n)
               PROVE  p = q /\ m = o
    BY Zenon DEF KeysNeverReused
  <2>1. SentOk(p, m, st[p]) /\ SentOk(q, o, st[q])
    BY <1>1, ZenonT(60) DEF IInv, PartiesOk, PartyOk, SendOk
  <2>2. Len(m.mk.root) \in Nat /\ Len(o.mk.root) \in Nat
    BY <2>1, RootStep, ZenonT(60) DEF SentOk
  <2>3. Len(m.mk.root) % 2 = Parity(p) /\ Len(o.mk.root) % 2 = Parity(q)
    BY <2>1, ZenonT(60) DEF SentOk
  <2>4. HeaderFor(p, m.hk, m.mk.root) /\ HeaderFor(q, o.hk, o.mk.root)
    BY <2>1, ZenonT(60) DEF SentOk
  <2>5. Len(m.mk.root) = Len(o.mk.root)
    <3>1. SUFFICES ASSUME m.hk = o.hk PROVE Len(m.mk.root) = Len(o.mk.root)
      BY Zenon
    <3>2. SharedHka.use # "header" /\ SharedNhkb.use # "header" /\ SharedHka # SharedNhkb
      BY Zenon DEF SharedHka, SharedNhkb
    <3>3. CASE Len(m.mk.root) = First(p)
      <4>1. m.hk = FirstHeader(p)
        BY <2>4, <3>3, Zenon DEF HeaderFor
      <4>2. o.hk.use # "header"
        BY <3>1, <3>2, <4>1, Zenon DEF FirstHeader
      <4>3. Len(o.mk.root) = First(q) /\ o.hk = FirstHeader(q)
        BY <2>4, <4>2 DEF HeaderFor
      <4>4. First(p) = First(q)
        BY <3>1, <3>2, <4>1, <4>3, ZenonT(60) DEF FirstHeader, First
      <4>5. QED
        BY <3>3, <4>3, <4>4, Zenon
    <3>4. CASE Len(m.mk.root) # First(p)
      <4>1. m.hk.use = "header" /\ Len(m.hk.root) = Len(m.mk.root) - 2
        BY <2>4, <3>4, SMTT(60) DEF HeaderFor
      <4>2. Len(o.mk.root) # First(q)
        BY <2>4, <3>1, <3>2, <4>1, Zenon DEF HeaderFor, FirstHeader
      <4>3. Len(o.hk.root) = Len(o.mk.root) - 2
        BY <2>4, <4>2, Zenon DEF HeaderFor
      <4>4. QED
        BY <2>2, <3>1, <4>1, <4>3, SMTT(60)
    <3>5. QED
      BY <3>3, <3>4, Zenon
  <2>6. p = q
    <3>1. Parity(p) = Parity(q)
      BY <2>3, <2>5, ZenonT(60)
    <3>2. QED
      BY <3>1 DEF Parity, Party
  <2>7. m.n = o.n
    BY <2>1, Zenon DEF SentOk
  <2>8. QED
    BY <1>1, <2>5, <2>6, <2>7, ZenonT(60) DEF IInv, PartiesOk, PartyOk, SendOk
<1>2. QED
  BY <1>1, RatchetInvariant, PTL

\* An initiator is sure of the confirmation only when the responder has sent
\* it, a responder only when the initiator has opened it (pq_state), over any
\* network and for every refresh interval.
THEOREM ConfirmationSound == Spec => []ConfirmationAgreed
<1>1. ASSUME IInv PROVE ConfirmationAgreed
  <2> SUFFICES ASSUME interval > 0
               PROVE  /\ st[Alice].pq = "confirmed" => st[Bob].pq # "classical"
                      /\ st[Bob].pq = "confirmed" => st[Alice].pq = "confirmed"
                      /\ (st[Alice].pq = "classical") = (st[Alice].idKem # NoKey)
    BY Zenon DEF ConfirmationAgreed
  <2>1. PqOk
    <3>1. ~ (0 > 0)
      OBVIOUS
    <3>2. QED
      BY <1>1, <3>1, Zenon DEF IInv
  <2>2. Alice \in Party /\ Bob \in Party
    BY Zenon DEF Party
  <2>3. Len(st[Alice].rk) \in Nat /\ Len(st[Bob].rk) \in Nat
    BY <1>1, <2>2, RootStep, Zenon DEF IInv, PartiesOk, PartyOk, SideOk
  <2>4. ~ (2 <= 0) /\ ~ (3 <= 1)
    OBVIOUS
  <2>5. st[Alice].pq = "confirmed" => st[Bob].pq # "classical"
    BY <2>1, <2>4, Zenon DEF PqOk, InitiatorPq, ResponderPq
  <2>6. st[Bob].pq = "confirmed" => st[Alice].pq = "confirmed"
    BY <2>1, <2>4, ZenonT(60) DEF PqOk, InitiatorPq, ResponderPq
  <2>7. (st[Alice].pq = "classical") <=> (st[Alice].idKem # NoKey)
    BY <2>1, IdentityAssumption, Zenon DEF PqOk, InitiatorPq
  <2>8. QED
    BY <2>5, <2>6, <2>7, Zenon
<1>2. QED
  BY <1>1, RatchetInvariant, PTL
==============================================================================
