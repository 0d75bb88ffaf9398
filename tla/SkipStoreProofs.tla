--------------------------- MODULE SkipStoreProofs ---------------------------
(***************************************************************************)
(* The invariants of SkipStoreSpec, and that it implements SkippedKeys,    *)
(* for every capacity, age limit and set of keys.                          *)
(***************************************************************************)
EXTENDS SkipStoreSpec, FiniteLemmas

\* The inductive invariant: each part needs the others.  A free slot is only
\* certain because references count entries; a slot's key is only stable
\* because references reach 0 when, and only when, its last entry goes.
StoreInv(s) == StoreType(s) /\ RefsCount(s) /\ KeysDistinct(s)

IInv == StoreInv(store) /\ AgesInOrder(store)

\* The entries of a slot are finitely many.
LEMMA EntriesFinite ==
  ASSUME NEW s, StoreType(s), NEW e
  PROVE  IsFiniteSet(EntriesOf(s, e)) /\ Cardinality(EntriesOf(s, e)) \in Nat
<1>1. EntriesOf(s, e) \in SUBSET DOMAIN s.ent /\ IsFiniteSet(DOMAIN s.ent)
  BY Zenon DEF EntriesOf, StoreType
<1>2. QED
  BY <1>1, FS_Subset, FS_CardinalityType, Zenon

\* A slot has a reference exactly when some entry is filed under it.
LEMMA LiveIffEntry ==
  ASSUME NEW s, StoreType(s), RefsCount(s), NEW e \in Slots
  PROVE  e \in Live(s) <=> EntriesOf(s, e) # {}
<1>1. s.epochs[e].refs = Cardinality(EntriesOf(s, e))
  BY Zenon DEF RefsCount
<1>2. Cardinality(EntriesOf(s, e)) = 0 <=> EntriesOf(s, e) = {}
  BY EntriesFinite, FS_EmptySet, Zenon
<1>3. Cardinality(EntriesOf(s, e)) \in Nat
  BY EntriesFinite, Zenon
<1>4. QED
  BY <1>1, <1>2, <1>3 DEF Live

\* Dropping entries leaves every other entry under the header key it had.
LEMMA RemoveAllInv ==
  ASSUME NEW s, StoreInv(s), NEW D \in SUBSET DOMAIN s.ent
  PROVE  /\ StoreInv(RemoveAll(s, D))
         /\ DOMAIN RemoveAll(s, D).ent = DOMAIN s.ent \ D
         /\ \A i \in DOMAIN s.ent \ D :
              /\ RemoveAll(s, D).ent[i] = s.ent[i]
              /\ HeaderKeyOf(RemoveAll(s, D), i) = HeaderKeyOf(s, i)
         /\ RemoveAll(s, D).recvCount = s.recvCount
         /\ Cardinality(DOMAIN RemoveAll(s, D).ent) = Cardinality(DOMAIN s.ent) - Cardinality(D)
<1> DEFINE r == RemoveAll(s, D)
<1> DEFINE drop(e) == Cardinality(EntriesOf(s, e) \cap D)
<1>0. StoreType(s) /\ RefsCount(s) /\ KeysDistinct(s)
  BY Zenon DEF StoreInv
<1>1. /\ r = [ent |-> r.ent, epochs |-> r.epochs, recvCount |-> r.recvCount]
      /\ r.ent = [i \in DOMAIN s.ent \ D |-> s.ent[i]]
      /\ r.epochs = [e \in Slots |-> EpochUnref(s.epochs[e], drop(e))]
      /\ r.recvCount = s.recvCount
  <2>1. s = [ent |-> s.ent, epochs |-> s.epochs, recvCount |-> s.recvCount]
    BY <1>0, Zenon DEF StoreType
  <2>2. QED
    BY <2>1, Zenon DEF RemoveAll, Restrict
<1> HIDE DEF r
<1>2. \A e \in Slots : EntriesOf(r, e) = EntriesOf(s, e) \ D
  BY <1>1, Zenon DEF EntriesOf
<1>3. ASSUME NEW e \in Slots
      PROVE  /\ drop(e) \in Nat
             /\ drop(e) <= Cardinality(EntriesOf(s, e))
             /\ Cardinality(EntriesOf(r, e)) = Cardinality(EntriesOf(s, e)) - drop(e)
  <2>1. IsFiniteSet(EntriesOf(s, e))
    BY <1>0, EntriesFinite, Zenon
  <2>2. IsFiniteSet(EntriesOf(s, e) \cap D) /\ drop(e) <= Cardinality(EntriesOf(s, e))
    BY <2>1, FS_Intersection, Zenon
  <2>3. Cardinality(EntriesOf(s, e) \ D) = Cardinality(EntriesOf(s, e)) - drop(e)
    BY <2>1, FS_Difference, ZenonT(60)
  <2>4. QED
    BY <2>2, <2>3, <1>2, FS_CardinalityType, ZenonT(60)
<1>4. ASSUME NEW e \in Slots
      PROVE  /\ r.epochs[e].refs = Cardinality(EntriesOf(r, e))
             /\ r.epochs[e].refs \in Nat
             /\ r.epochs[e] \in [hk : HeaderKey \cup {NoKey}, refs : Nat]
             /\ r.epochs[e].refs = 0 => r.epochs[e].hk = NoKey
             /\ r.epochs[e].refs # 0 => s.epochs[e].refs # 0 /\ r.epochs[e].hk = s.epochs[e].hk
  <2> DEFINE slot == s.epochs[e]
  <2>1. /\ slot \in [hk : HeaderKey \cup {NoKey}, refs : Nat]
        /\ slot.refs = Cardinality(EntriesOf(s, e))
        /\ slot.refs = 0 => slot.hk = NoKey
    BY <1>0, Zenon DEF StoreType, RefsCount, KeysDistinct
  <2>2. r.epochs[e] = EpochUnref(slot, drop(e))
    BY <1>1, Zenon
  <2>3. /\ drop(e) \in Nat
        /\ drop(e) <= slot.refs
        /\ Cardinality(EntriesOf(r, e)) = slot.refs - drop(e)
    BY <1>3, <2>1, Zenon
  <2> HIDE DEF drop, slot
  <2>4. QED
    BY <2>1, <2>2, <2>3 DEF EpochUnref, FreeSlot, slot
<1>5. StoreType(r)
  <2>1. IsFiniteSet(DOMAIN r.ent) /\ Cardinality(DOMAIN r.ent) <= Cardinality(DOMAIN s.ent)
    <3>1. IsFiniteSet(DOMAIN s.ent) /\ DOMAIN r.ent \in SUBSET DOMAIN s.ent
      BY <1>0, <1>1, Zenon DEF StoreType
    <3>2. QED
      BY <3>1, FS_Subset, Zenon
  <2>2. Cardinality(DOMAIN r.ent) \in Nat /\ Cardinality(DOMAIN s.ent) \in Nat
    BY <2>1, <1>0, FS_CardinalityType, Zenon DEF StoreType
  <2>3. Cardinality(DOMAIN r.ent) <= MaxSkip
    BY <1>0, <2>1, <2>2, SkipAssumption, SMTT(60) DEF StoreType
  <2>4. r.epochs \in [Slots -> [hk : HeaderKey \cup {NoKey}, refs : Nat]]
    BY <1>1, <1>4, Zenon
  <2>5. r.ent \in [DOMAIN r.ent -> Entry] /\ DOMAIN r.ent \subseteq Nat \ {0} /\ r.recvCount \in Nat
    BY <1>0, <1>1, ZenonT(60) DEF StoreType
  <2>6. QED
    BY <1>1, <2>1, <2>3, <2>4, <2>5, Zenon DEF StoreType
<1>6. RefsCount(r)
  BY <1>4, Zenon DEF RefsCount
<1>7. KeysDistinct(r)
  <2>1. ASSUME NEW e \in Slots, r.epochs[e].refs # 0
        PROVE  r.epochs[e].hk # NoKey
    BY <1>0, <1>4, <2>1, Zenon DEF KeysDistinct
  <2>2. ASSUME NEW e \in Live(r), NEW f \in Live(r), r.epochs[e].hk = r.epochs[f].hk
        PROVE  e = f
    <3>1. /\ e \in Slots /\ f \in Slots
          /\ r.epochs[e].refs # 0 /\ r.epochs[f].refs # 0
      BY <1>4 DEF Live
    <3>2. /\ s.epochs[e].refs # 0 /\ r.epochs[e].hk = s.epochs[e].hk
          /\ s.epochs[f].refs # 0 /\ r.epochs[f].hk = s.epochs[f].hk
      BY <3>1, <1>4, Zenon
    <3>3. e \in Live(s) /\ f \in Live(s)
      BY <3>1, <3>2, <1>0, SMTT(60) DEF Live, StoreType
    <3>4. QED
      BY <2>2, <3>2, <3>3, <1>0, ZenonT(60) DEF KeysDistinct
  <2>3. QED
    BY <1>4, <2>1, <2>2, Zenon DEF KeysDistinct
<1>8. ASSUME NEW i \in DOMAIN s.ent \ D
      PROVE  r.ent[i] = s.ent[i] /\ HeaderKeyOf(r, i) = HeaderKeyOf(s, i)
  <2>1. r.ent[i] = s.ent[i] /\ s.ent[i].epoch \in Slots
    BY <1>0, <1>1, Zenon DEF StoreType, Entry
  <2> DEFINE e == s.ent[i].epoch
  <2>2. i \in EntriesOf(r, e)
    BY <1>1, <2>1, Zenon DEF EntriesOf
  <2>3. r.epochs[e].refs # 0
    <3>1. e \in Live(r)
      BY <1>5, <1>6, <2>1, <2>2, LiveIffEntry, Zenon
    <3>2. QED
      BY <3>1 DEF Live
  <2>4. QED
    BY <1>4, <2>1, <2>3, Zenon DEF HeaderKeyOf
<1>9. Cardinality(DOMAIN r.ent) = Cardinality(DOMAIN s.ent) - Cardinality(D)
  <2>1. IsFiniteSet(DOMAIN s.ent) /\ DOMAIN r.ent = DOMAIN s.ent \ D /\ DOMAIN s.ent \cap D = D
    BY <1>0, <1>1, Zenon DEF StoreType
  <2>2. QED
    BY <2>1, FS_Difference, ZenonT(60)
<1>10. QED
  BY <1>1, <1>5, <1>6, <1>7, <1>8, <1>9, ZenonT(60) DEF StoreInv, r

------------------------------------------------------------------------------
\* Below capacity some slot is free: the live slots are the epochs of the
\* entries, so they are no more than the entries.
LEMMA FreeSlotExists ==
  ASSUME NEW s, StoreInv(s), Cardinality(DOMAIN s.ent) < MaxSkip
  PROVE  Slots \ Live(s) # {}
<1>1. SUFFICES ASSUME Slots \subseteq Live(s) PROVE FALSE
  BY Zenon
<1>2. StoreType(s) /\ RefsCount(s)
  BY Zenon DEF StoreInv
<1> DEFINE f == [i \in DOMAIN s.ent |-> s.ent[i].epoch]
<1>3. f \in Surjection(DOMAIN s.ent, Slots)
  <2>1. f \in [DOMAIN s.ent -> Slots]
    BY <1>2, Zenon DEF StoreType, Entry
  <2>2. ASSUME NEW e \in Slots PROVE \E i \in DOMAIN s.ent : f[i] = e
    <3>1. EntriesOf(s, e) # {}
      BY <1>1, <1>2, LiveIffEntry, Zenon
    <3>2. QED
      BY <3>1, Zenon DEF EntriesOf
  <2>3. QED
    BY <2>1, <2>2, Zenon DEF Surjection
<1>4. IsFiniteSet(DOMAIN s.ent)
  BY <1>2, Zenon DEF StoreType
<1>5. Cardinality(Slots) <= Cardinality(DOMAIN s.ent)
  BY <1>3, <1>4, FS_Surjection, Zenon
<1>6. Cardinality(Slots) = MaxSkip
  <2>1. MaxSkip \in Nat /\ MaxSkip > 0
    BY SkipAssumption
  <2>2. 0 \in Int /\ MaxSkip - 1 \in Int
    BY <2>1
  <2>3. Cardinality(0 .. MaxSkip - 1) = IF 0 > MaxSkip - 1 THEN 0 ELSE (MaxSkip - 1) - 0 + 1
    BY <2>2, FS_Interval, Zenon
  <2>4. QED
    BY <2>1, <2>3 DEF Slots
<1>7. Cardinality(DOMAIN s.ent) \in Nat
  BY <1>4, FS_CardinalityType, Zenon
<1>8. QED
  BY <1>5, <1>6, <1>7, SkipAssumption

\* The slot epoch_intern returns is in the table; it is free or holds hk, and
\* no other live slot holds hk.
LEMMA EpochInternSlot ==
  ASSUME NEW s, StoreInv(s), Cardinality(DOMAIN s.ent) < MaxSkip, NEW hk
  PROVE  /\ EpochIntern(s, hk) \in Slots
         /\ \/ EpochIntern(s, hk) \notin Live(s)
            \/ s.epochs[EpochIntern(s, hk)].hk = hk
         /\ \A f \in Live(s) : s.epochs[f].hk = hk => f = EpochIntern(s, hk)
<1> DEFINE held == {e \in Live(s) : s.epochs[e].hk = hk}
<1> DEFINE free == Slots \ Live(s)
<1>1. EpochIntern(s, hk) = IF held # {} THEN Min(held)
                           ELSE IF free # {} THEN Min(free) ELSE MaxSkip
  BY Zenon DEF EpochIntern
<1>2. free # {}
  BY FreeSlotExists, Zenon
<1>3. Slots \subseteq Nat
  BY SkipAssumption DEF Slots
<1>4. held \subseteq Nat /\ free \subseteq Nat /\ Live(s) \subseteq Slots
  BY <1>3, ZenonT(60) DEF Live
<1>5. CASE held # {}
  <2>1. Min(held) \in held
    BY <1>4, <1>5, MinOfNaturals, Zenon
  <2>2. \A e, f \in Live(s) : s.epochs[e].hk = s.epochs[f].hk => e = f
    BY Zenon DEF StoreInv, KeysDistinct
  <2>3. EpochIntern(s, hk) = Min(held)
    BY <1>1, <1>5, Zenon
  <2>4. QED
    BY <1>4, <2>1, <2>2, <2>3, ZenonT(60)
<1>6. CASE held = {}
  <2>1. Min(free) \in free
    BY <1>2, <1>4, MinOfNaturals, Zenon
  <2>2. EpochIntern(s, hk) = Min(free)
    BY <1>1, <1>2, <1>6, Zenon
  <2>3. QED
    BY <1>6, <2>1, <2>2, Zenon
<1>7. QED
  BY <1>5, <1>6, Zenon

\* Eviction at capacity makes room and disturbs no other entry.
LEMMA MakeRoomInv ==
  ASSUME NEW s, StoreInv(s)
  PROVE  /\ StoreInv(MakeRoom(s))
         /\ Cardinality(DOMAIN MakeRoom(s).ent) < MaxSkip
         /\ MakeRoom(s).recvCount = s.recvCount
         /\ DOMAIN MakeRoom(s).ent = IF Cardinality(DOMAIN s.ent) = MaxSkip
                                     THEN DOMAIN s.ent \ {Min(DOMAIN s.ent)}
                                     ELSE DOMAIN s.ent
         /\ \A i \in DOMAIN MakeRoom(s).ent :
              /\ i \in DOMAIN s.ent
              /\ MakeRoom(s).ent[i] = s.ent[i]
              /\ HeaderKeyOf(MakeRoom(s), i) = HeaderKeyOf(s, i)
<1>1. /\ IsFiniteSet(DOMAIN s.ent) /\ Cardinality(DOMAIN s.ent) <= MaxSkip
      /\ DOMAIN s.ent \subseteq Nat
  BY Zenon DEF StoreInv, StoreType
<1>2. Cardinality(DOMAIN s.ent) \in Nat /\ MaxSkip \in Nat \ {0}
  BY <1>1, FS_CardinalityType, SkipAssumption, Zenon
<1>3. CASE Cardinality(DOMAIN s.ent) = MaxSkip
  <2>1. DOMAIN s.ent # {}
    BY <1>2, <1>3, FS_EmptySet, Zenon
  <2>2. Min(DOMAIN s.ent) \in DOMAIN s.ent
    BY <1>1, <2>1, MinOfNaturals, Zenon
  <2> DEFINE D == {Min(DOMAIN s.ent)}
  <2>3. MakeRoom(s) = RemoveAll(s, D)
    BY <1>3, Zenon DEF MakeRoom, StoreRemove
  <2>4. Cardinality(D) = 1
    BY FS_Singleton, Zenon
  <2>5. D \in SUBSET DOMAIN s.ent
    BY <2>2, Zenon
  <2> HIDE DEF D
  <2>6. /\ StoreInv(RemoveAll(s, D))
        /\ DOMAIN RemoveAll(s, D).ent = DOMAIN s.ent \ D
        /\ \A i \in DOMAIN s.ent \ D :
             /\ RemoveAll(s, D).ent[i] = s.ent[i]
             /\ HeaderKeyOf(RemoveAll(s, D), i) = HeaderKeyOf(s, i)
        /\ RemoveAll(s, D).recvCount = s.recvCount
        /\ Cardinality(DOMAIN RemoveAll(s, D).ent) = Cardinality(DOMAIN s.ent) - Cardinality(D)
    BY <2>5, RemoveAllInv, Zenon
  <2>7. Cardinality(DOMAIN MakeRoom(s).ent) < MaxSkip
    BY <1>2, <1>3, <2>3, <2>4, <2>6
  <2>8. QED
    BY <1>3, <2>3, <2>6, <2>7, Zenon DEF D
<1>4. CASE Cardinality(DOMAIN s.ent) # MaxSkip
  <2>1. MakeRoom(s) = s
    BY <1>4, Zenon DEF MakeRoom
  <2>2. Cardinality(DOMAIN s.ent) < MaxSkip
    BY <1>1, <1>2, <1>4
  <2>3. QED
    BY <1>4, <2>1, <2>2, Zenon
<1>5. QED
  BY <1>3, <1>4, Zenon

\* The stamp of a new entry is above every stamp in use.
LEMMA NextStampFresh ==
  ASSUME NEW s, StoreType(s)
  PROVE  NextStamp(s) \in Nat \ {0} /\ \A i \in DOMAIN s.ent : i < NextStamp(s)
<1> DEFINE S == {0} \cup DOMAIN s.ent
<1>1. S \in SUBSET Nat /\ S # {}
  BY DEF StoreType
<1>2. IsFiniteSet(S)
  <2>1. IsFiniteSet(DOMAIN s.ent \cup {0})
    BY FS_AddElement, Zenon DEF StoreType
  <2>2. S = DOMAIN s.ent \cup {0}
    BY Zenon
  <2>3. QED
    BY <2>1, <2>2, Zenon
<1>3. Max(S) \in S /\ \A y \in S : y <= Max(S)
  BY <1>1, <1>2, MaxOfNaturals, Zenon
<1>4. NextStamp(s) = Max(S) + 1
  BY Zenon DEF NextStamp
<1> HIDE DEF S
<1>5. Max(S) \in Nat
  BY <1>1, <1>3, ZenonT(60)
<1>6. \A i \in S : i \in Nat /\ i < NextStamp(s)
  BY <1>1, <1>3, <1>4, <1>5
<1>7. NextStamp(s) \in Nat \ {0}
  BY <1>4, <1>5
<1>8. QED
  BY <1>6, <1>7, Zenon DEF S

\* Filing a key below capacity adds one entry, which answers to hk, and
\* disturbs no other entry.
LEMMA FileKeyInv ==
  ASSUME NEW s, StoreInv(s), Cardinality(DOMAIN s.ent) < MaxSkip,
         NEW hk \in HeaderKey, NEW n \in MsgNum, NEW mk \in MessageKey
  PROVE  LET r == FileKey(s, hk, n, mk)
             k == NextStamp(s)
         IN  /\ StoreInv(r)
             /\ r.recvCount = s.recvCount
             /\ DOMAIN r.ent = {k} \cup DOMAIN s.ent
             /\ k \notin DOMAIN s.ent
             /\ r.ent[k].n = n /\ r.ent[k].age = s.recvCount /\ r.ent[k].mk = mk
             /\ HeaderKeyOf(r, k) = hk
             /\ \A i \in DOMAIN s.ent : /\ r.ent[i] = s.ent[i]
                                       /\ HeaderKeyOf(r, i) = HeaderKeyOf(s, i)
<1> DEFINE r == FileKey(s, hk, n, mk)
<1> DEFINE k == NextStamp(s)
<1> DEFINE e == EpochIntern(s, hk)
<1>0. StoreType(s) /\ RefsCount(s) /\ KeysDistinct(s)
  BY Zenon DEF StoreInv
<1>1. k \in Nat \ {0} /\ k \notin DOMAIN s.ent
  <2>1. k \in Nat \ {0} /\ \A i \in DOMAIN s.ent : i < k
    BY <1>0, NextStampFresh, Zenon
  <2>2. QED
    BY <2>1
<1>2. /\ e \in Slots
      /\ e \notin Live(s) \/ s.epochs[e].hk = hk
      /\ \A f \in Live(s) : s.epochs[f].hk = hk => f = e
  BY EpochInternSlot, Zenon
<1>3. /\ r = [ent |-> r.ent, epochs |-> r.epochs, recvCount |-> r.recvCount]
      /\ r.ent = [i \in {k} \cup DOMAIN s.ent |->
                    IF i = k
                    THEN [epoch |-> e, n |-> n, age |-> s.recvCount, mk |-> mk]
                    ELSE s.ent[i]]
      /\ r.epochs = [f \in Slots |->
                       IF f = e THEN [hk |-> hk, refs |-> s.epochs[e].refs + 1]
                                ELSE s.epochs[f]]
      /\ r.recvCount = s.recvCount
  BY Zenon DEF FileKey
<1> HIDE DEF r, k, e
<1>4. /\ \A f \in Slots : s.epochs[f] \in [hk : HeaderKey \cup {NoKey}, refs : Nat]
      /\ s.recvCount \in Nat
  BY <1>0, Zenon DEF StoreType
<1>5. StoreType(r)
  <2>1. DOMAIN r.ent = DOMAIN s.ent \cup {k}
    BY <1>3, Zenon
  <2>2. IsFiniteSet(DOMAIN r.ent) /\ Cardinality(DOMAIN r.ent) = Cardinality(DOMAIN s.ent) + 1
    BY <1>0, <1>1, <2>1, FS_AddElement, SMTT(60) DEF StoreType
  <2>3. Cardinality(DOMAIN s.ent) \in Nat
    BY <1>0, FS_CardinalityType, Zenon DEF StoreType
  <2>4. Cardinality(DOMAIN r.ent) <= MaxSkip
    BY <2>2, <2>3, SkipAssumption
  <2>5. r.ent \in [DOMAIN r.ent -> Entry]
    BY <1>0, <1>2, <1>3, <1>4, SMTT(60) DEF StoreType, Entry
  <2>6. DOMAIN r.ent \subseteq Nat \ {0}
    BY <1>0, <1>1, <2>1, Zenon DEF StoreType
  <2>7. r.epochs \in [Slots -> [hk : HeaderKey \cup {NoKey}, refs : Nat]]
    BY <1>2, <1>3, <1>4
  <2>8. QED
    BY <1>3, <1>4, <2>2, <2>4, <2>5, <2>6, <2>7, Zenon DEF StoreType
<1>6. RefsCount(r)
  <2>1. SUFFICES ASSUME NEW f \in Slots
                 PROVE  r.epochs[f].refs = Cardinality(EntriesOf(r, f))
    BY Zenon DEF RefsCount
  <2>2. s.epochs[f].refs = Cardinality(EntriesOf(s, f)) /\ IsFiniteSet(EntriesOf(s, f))
    BY <1>0, EntriesFinite, Zenon DEF RefsCount
  <2>3. CASE f = e
    <3>1. EntriesOf(r, f) = EntriesOf(s, f) \cup {k}
      BY <1>1, <1>3, <2>3 DEF EntriesOf
    <3>2. k \notin EntriesOf(s, f)
      BY <1>1, Zenon DEF EntriesOf
    <3>3. Cardinality(EntriesOf(r, f)) = Cardinality(EntriesOf(s, f)) + 1
      BY <2>2, <3>1, <3>2, FS_AddElement, ZenonT(60)
    <3>4. QED
      BY <1>3, <2>2, <2>3, <3>3, SMTT(60)
  <2>4. CASE f # e
    <3>1. EntriesOf(r, f) = EntriesOf(s, f)
      BY <1>1, <1>3, <2>4 DEF EntriesOf
    <3>2. QED
      BY <1>3, <2>2, <2>4, <3>1, Zenon
  <2>5. QED
    BY <2>3, <2>4, Zenon
<1>7. /\ r.epochs[e].hk = hk /\ r.epochs[e].refs # 0
      /\ \A f \in Slots \ {e} : r.epochs[f] = s.epochs[f]
  BY <1>2, <1>3, <1>4
<1>8. KeysDistinct(r)
  <2>1. \A f \in Slots : r.epochs[f].refs = 0 <=> r.epochs[f].hk = NoKey
    BY <1>0, <1>7, SpecAssumption, ZenonT(60) DEF KeysDistinct
  <2>2. ASSUME NEW f \in Live(r), NEW g \in Live(r), r.epochs[f].hk = r.epochs[g].hk
        PROVE  f = g
    <3>1. /\ f \in Slots /\ g \in Slots
          /\ f # e => f \in Live(s) /\ r.epochs[f] = s.epochs[f]
          /\ g # e => g \in Live(s) /\ r.epochs[g] = s.epochs[g]
      BY <1>7, Zenon DEF Live
    <3>2. QED
      BY <1>0, <1>2, <1>7, <2>2, <3>1, ZenonT(60) DEF KeysDistinct
  <2>3. QED
    BY <2>1, <2>2, Zenon DEF KeysDistinct
<1>9. ASSUME NEW i \in DOMAIN s.ent
      PROVE  r.ent[i] = s.ent[i] /\ HeaderKeyOf(r, i) = HeaderKeyOf(s, i)
  <2>1. r.ent[i] = s.ent[i] /\ s.ent[i].epoch \in Slots
    BY <1>0, <1>1, <1>3, Zenon DEF StoreType, Entry
  <2>2. s.ent[i].epoch \in Live(s)
    <3>1. i \in EntriesOf(s, s.ent[i].epoch)
      BY Zenon DEF EntriesOf
    <3>2. QED
      BY <1>0, <2>1, <3>1, LiveIffEntry, Zenon
  <2>3. r.epochs[s.ent[i].epoch].hk = s.epochs[s.ent[i].epoch].hk
    BY <1>2, <1>7, <2>1, <2>2, Zenon
  <2>4. QED
    BY <2>1, <2>3, Zenon DEF HeaderKeyOf
<1>10. /\ r.ent[k] = [epoch |-> e, n |-> n, age |-> s.recvCount, mk |-> mk]
       /\ HeaderKeyOf(r, k) = hk
  BY <1>3, <1>7, SMTT(60) DEF HeaderKeyOf
<1>11. DOMAIN r.ent = {k} \cup DOMAIN s.ent
  BY <1>3, Zenon
<1>12. StoreInv(r)
  BY <1>5, <1>6, <1>8, Zenon DEF StoreInv
<1>13. r.ent[k].n = n /\ r.ent[k].age = s.recvCount /\ r.ent[k].mk = mk
  BY <1>10, SMTT(60)
<1>14. /\ StoreInv(r)
       /\ r.recvCount = s.recvCount
       /\ DOMAIN r.ent = {k} \cup DOMAIN s.ent
       /\ k \notin DOMAIN s.ent
       /\ r.ent[k].n = n /\ r.ent[k].age = s.recvCount /\ r.ent[k].mk = mk
       /\ HeaderKeyOf(r, k) = hk
       /\ \A i \in DOMAIN s.ent : /\ r.ent[i] = s.ent[i]
                                 /\ HeaderKeyOf(r, i) = HeaderKeyOf(s, i)
  BY <1>1, <1>3, <1>9, <1>10, <1>11, <1>12, <1>13, ZenonT(60)
<1>15. QED
  BY <1>14, Zenon DEF r, k
------------------------------------------------------------------------------
\* Successful decryption keeps the invariant of the store.
LEMMA PostSuccessInv ==
  ASSUME NEW s, StoreInv(s), AgesInOrder(s)
  PROVE  /\ StoreInv(PostSuccess(s)) /\ AgesInOrder(PostSuccess(s))
         /\ PostSuccess(s).recvCount = s.recvCount + 1
         /\ DOMAIN PostSuccess(s).ent =
              {i \in DOMAIN s.ent : (s.recvCount + 1) - s.ent[i].age < AgeLimit}
         /\ \A i \in DOMAIN PostSuccess(s).ent :
              /\ PostSuccess(s).ent[i] = s.ent[i]
              /\ HeaderKeyOf(PostSuccess(s), i) = HeaderKeyOf(s, i)
<1> DEFINE r == PostSuccess(s)
<1> DEFINE clock == s.recvCount + 1
<1> DEFINE D == Aged(s, clock)
<1> DEFINE kept == RemoveAll(s, D)
<1>1. /\ r = [ent |-> r.ent, epochs |-> r.epochs, recvCount |-> r.recvCount]
      /\ r.ent = kept.ent /\ r.epochs = kept.epochs /\ r.recvCount = clock
  BY Zenon DEF PostSuccess
<1>2. D \in SUBSET DOMAIN s.ent
  BY Zenon DEF Aged
<1>3. /\ s.recvCount \in Nat
      /\ \A i \in DOMAIN s.ent : s.ent[i].age \in Nat /\ i \in Nat
  BY Zenon DEF StoreInv, StoreType, Entry
<1>4. DOMAIN s.ent \ D = {i \in DOMAIN s.ent : clock - s.ent[i].age < AgeLimit}
  BY <1>3, SkipAssumption DEF Aged
<1> HIDE DEF D
<1>5. /\ StoreInv(kept)
      /\ DOMAIN kept.ent = DOMAIN s.ent \ D
      /\ \A i \in DOMAIN s.ent \ D :
           kept.ent[i] = s.ent[i] /\ HeaderKeyOf(kept, i) = HeaderKeyOf(s, i)
  BY <1>2, RemoveAllInv, Zenon
<1> HIDE DEF r, kept
<1>6. StoreInv(r)
  <2>1. StoreType(r)
    BY <1>1, <1>3, <1>5, SMTT(60) DEF StoreInv, StoreType
  <2>2. RefsCount(r) /\ KeysDistinct(r)
    BY <1>1, <1>5, SMTT(60) DEF StoreInv, RefsCount, KeysDistinct, EntriesOf, Live
  <2>3. QED
    BY <2>1, <2>2, Zenon DEF StoreInv
<1>7. \A i \in DOMAIN r.ent : /\ i \in DOMAIN s.ent
                              /\ r.ent[i] = s.ent[i]
                              /\ HeaderKeyOf(r, i) = HeaderKeyOf(s, i)
                              /\ clock - s.ent[i].age < AgeLimit
  BY <1>1, <1>4, <1>5, ZenonT(60) DEF HeaderKeyOf
<1>8. AgesInOrder(r)
  BY <1>1, <1>3, <1>7 DEF AgesInOrder
<1>9. DOMAIN r.ent = {i \in DOMAIN s.ent : clock - s.ent[i].age < AgeLimit}
  BY <1>1, <1>4, <1>5, Zenon
<1>10. QED
  BY <1>1, <1>6, <1>7, <1>8, <1>9, Zenon DEF r

\* Storing a skipped key keeps the invariant of the store.
LEMMA StoreInsertInv ==
  ASSUME NEW s, StoreInv(s), AgesInOrder(s),
         NEW hk \in HeaderKey, NEW n \in MsgNum, NEW mk \in MessageKey
  PROVE  StoreInv(StoreInsert(s, hk, n, mk)) /\ AgesInOrder(StoreInsert(s, hk, n, mk))
<1> DEFINE m == MakeRoom(s)
<1> DEFINE k == NextStamp(m)
<1> DEFINE r == FileKey(m, hk, n, mk)
<1>1. /\ StoreInv(m) /\ Cardinality(DOMAIN m.ent) < MaxSkip
      /\ m.recvCount = s.recvCount
      /\ \A i \in DOMAIN m.ent : i \in DOMAIN s.ent /\ m.ent[i] = s.ent[i]
  BY MakeRoomInv, ZenonT(60)
<1> HIDE DEF m
<1>2. /\ StoreInv(r) /\ r.recvCount = m.recvCount
      /\ DOMAIN r.ent = {k} \cup DOMAIN m.ent
      /\ r.ent[k].age = m.recvCount
      /\ \A i \in DOMAIN m.ent : r.ent[i] = m.ent[i]
  BY <1>1, FileKeyInv
<1>3. k \in Nat /\ \A i \in DOMAIN m.ent : i < k /\ i \in Nat
  BY <1>1, NextStampFresh, Zenon DEF StoreInv, StoreType
<1>4. s.recvCount \in Nat /\ \A i \in DOMAIN s.ent : s.ent[i].age \in Nat
  BY Zenon DEF StoreInv, StoreType, Entry
<1> HIDE DEF r, k
<1>5. \A i \in DOMAIN r.ent : r.ent[i].age <= r.recvCount /\ r.recvCount - r.ent[i].age < AgeLimit
  BY <1>1, <1>2, <1>4, SkipAssumption DEF AgesInOrder
<1>6. ASSUME NEW i \in DOMAIN r.ent, NEW j \in DOMAIN r.ent, i < j
      PROVE  r.ent[i].age <= r.ent[j].age
  <2>1. CASE j = k
    <3>1. i \in DOMAIN m.ent
      BY <1>2, <1>3, <1>6, <2>1, SMTT(60)
    <3>2. QED
      BY <1>1, <1>2, <2>1, <3>1, Zenon DEF AgesInOrder
  <2>2. CASE j # k
    <3>1. j \in DOMAIN m.ent /\ i \in DOMAIN m.ent
      BY <1>2, <1>3, <1>6, <2>2, SMTT(60)
    <3>2. QED
      BY <1>1, <1>2, <1>6, <3>1, ZenonT(60) DEF AgesInOrder
  <2>3. QED
    BY <2>1, <2>2, Zenon
<1>7. AgesInOrder(r)
  BY <1>5, <1>6, Zenon DEF AgesInOrder
<1>8. QED
  BY <1>2, <1>7, Zenon DEF StoreInsert, r, m

\* Using a skipped key keeps the invariant of the store.
LEMMA StoreRemoveInv ==
  ASSUME NEW s, StoreInv(s), AgesInOrder(s), NEW i \in DOMAIN s.ent
  PROVE  StoreInv(StoreRemove(s, i)) /\ AgesInOrder(StoreRemove(s, i))
<1> DEFINE r == RemoveAll(s, {i})
<1>1. {i} \in SUBSET DOMAIN s.ent
  BY Zenon
<1>2. /\ StoreInv(r) /\ r.recvCount = s.recvCount
      /\ DOMAIN r.ent = DOMAIN s.ent \ {i}
      /\ \A j \in DOMAIN s.ent \ {i} : r.ent[j] = s.ent[j]
  BY <1>1, RemoveAllInv
<1> HIDE DEF r
<1>3. AgesInOrder(r)
  BY <1>2, Zenon DEF AgesInOrder
<1>4. QED
  BY <1>2, <1>3, Zenon DEF StoreRemove, r
------------------------------------------------------------------------------
\* The empty store satisfies the invariant.
LEMMA InitInv == Init => IInv
<1> SUFFICES ASSUME Init PROVE IInv
  BY Zenon
<1>1. /\ DOMAIN store.ent = {} /\ store.recvCount = 0
      /\ store.epochs = [e \in Slots |-> FreeSlot]
      /\ store = [ent |-> store.ent, epochs |-> store.epochs, recvCount |-> store.recvCount]
      /\ store.ent = [i \in {} |-> 0]
  BY Zenon DEF Init, EmptyStore
<1>2. IsFiniteSet({}) /\ Cardinality({}) = 0
  BY FS_EmptySet, Zenon
<1>3. StoreType(store)
  BY <1>1, <1>2, SkipAssumption DEF StoreType, FreeSlot
<1>4. RefsCount(store)
  <2>1. \A e \in Slots : EntriesOf(store, e) = {}
    BY <1>1, Zenon DEF EntriesOf
  <2>2. \A e \in Slots : store.epochs[e].refs = 0
    BY <1>1 DEF FreeSlot
  <2>3. \A e \in Slots : Cardinality(EntriesOf(store, e)) = 0
    BY <1>2, <2>1, Zenon
  <2>4. QED
    BY <2>2, <2>3, Zenon DEF RefsCount
<1>5. KeysDistinct(store)
  BY <1>1 DEF KeysDistinct, Live, FreeSlot
<1>6. AgesInOrder(store)
  BY <1>1, Zenon DEF AgesInOrder
<1>7. QED
  BY <1>3, <1>4, <1>5, <1>6, Zenon DEF IInv, StoreInv

\* Every operation keeps the invariant.
LEMMA NextInv == IInv /\ [Next]_store => IInv'
<1> SUFFICES ASSUME IInv, [Next]_store PROVE IInv'
  BY Zenon
<1>0. StoreInv(store) /\ AgesInOrder(store)
  BY Zenon DEF IInv
<1> SUFFICES StoreInv(store') /\ AgesInOrder(store')
  BY Zenon DEF IInv, StoreInv, StoreType, RefsCount, KeysDistinct, AgesInOrder, EntriesOf, Live
<1>1. ASSUME NEW hk \in HeaderKey, NEW n \in MsgNum, NEW mk \in MessageKey, Insert(hk, n, mk)
      PROVE  StoreInv(store') /\ AgesInOrder(store')
  BY <1>0, <1>1, StoreInsertInv, Zenon DEF Insert
<1>2. ASSUME NEW i \in DOMAIN store.ent, Remove(i)
      PROVE  StoreInv(store') /\ AgesInOrder(store')
  BY <1>0, <1>2, StoreRemoveInv, Zenon DEF Remove
<1>3. CASE Succeed
  BY <1>0, <1>3, PostSuccessInv, Zenon DEF Succeed
<1>4. CASE UNCHANGED store
  BY <1>0, <1>4, Zenon
<1>5. QED
  BY <1>1, <1>2, <1>3, <1>4, Zenon DEF Next

\* Every reachable store satisfies the inductive invariant.
THEOREM StoreInvariant == Spec => []IInv
<1>1. QED
  BY InitInv, NextInv, PTL DEF Spec

\* The store's shape is kept for every capacity: never more than MaxSkip
\* entries, each in a slot of the epoch table.
THEOREM TypeCorrect == Spec => []TypeOK
<1>1. IInv => TypeOK
  BY Zenon DEF IInv, StoreInv, TypeOK
<1>2. QED
  BY <1>1, StoreInvariant, PTL

\* Reference counts equal the number of live entries of the slot, so
\* epoch_unref zeroizes a header key exactly with its last entry.
THEOREM RefsExact == Spec => []RefsCountEntries
<1>1. IInv => RefsCountEntries
  BY Zenon DEF IInv, StoreInv, RefsCountEntries
<1>2. QED
  BY <1>1, StoreInvariant, PTL

\* Two live epochs never share a header key.
THEOREM EpochsDistinct == Spec => []EpochKeysDistinct
<1>1. IInv => EpochKeysDistinct
  BY Zenon DEF IInv, StoreInv, EpochKeysDistinct
<1>2. QED
  BY <1>1, StoreInvariant, PTL

\* The oldest entry is the first one, and none outlives the age limit.
THEOREM AgesCorrect == Spec => []AgesOrdered
<1>1. IInv => AgesOrdered
  BY Zenon DEF IInv, AgesOrdered
<1>2. QED
  BY <1>1, StoreInvariant, PTL

\* epoch_intern never runs out of slots, for every capacity: the claim of the
\* comment at dr_common.c:132 that its unchecked write relies on.
THEOREM InternInBounds == Spec => []SlotAlwaysFree
<1>1. IInv => SlotAlwaysFree
  <2> SUFFICES ASSUME IInv, NEW hk \in HeaderKey
               PROVE  EpochIntern(MakeRoom(store), hk) \in Slots
    BY Zenon DEF SlotAlwaysFree
  <2>1. StoreInv(MakeRoom(store)) /\ Cardinality(DOMAIN MakeRoom(store).ent) < MaxSkip
    BY MakeRoomInv, ZenonT(60) DEF IInv
  <2>2. QED
    BY <2>1, EpochInternSlot, Zenon
<1>2. QED
  BY <1>1, StoreInvariant, PTL
------------------------------------------------------------------------------
\* A slot's references fit in the table, since its entries do.
LEMMA RefsBounded ==
  ASSUME NEW s, StoreInv(s), NEW e \in Live(s)
  PROVE  e \in Slots /\ s.epochs[e].refs \in 1 .. MaxSkip
<1>1. /\ EntriesOf(s, e) \in SUBSET DOMAIN s.ent
      /\ IsFiniteSet(DOMAIN s.ent) /\ Cardinality(DOMAIN s.ent) <= MaxSkip
  BY Zenon DEF EntriesOf, StoreInv, StoreType
<1>2. Cardinality(EntriesOf(s, e)) <= Cardinality(DOMAIN s.ent)
  BY <1>1, FS_Subset, Zenon
<1>3. Cardinality(EntriesOf(s, e)) \in Nat /\ Cardinality(DOMAIN s.ent) \in Nat
  BY <1>1, FS_Subset, FS_CardinalityType, Zenon
<1>4. /\ e \in Slots /\ s.epochs[e].refs > 0
      /\ s.epochs[e].refs = Cardinality(EntriesOf(s, e))
  BY Zenon DEF Live, StoreInv, RefsCount
<1>5. QED
  BY <1>1, <1>2, <1>3, <1>4, SkipAssumption

\* The record of a store passes the range checks of dr_decode, and decoding it
\* gives the store back: the slots left out of it are zeroized ones.
LEMMA RecordOfStore ==
  ASSUME NEW s, StoreInv(s)
  PROVE  DecodeOk(EncodeStore(s)) /\ DecodeStore(EncodeStore(s)) = s
<1> DEFINE r == EncodeStore(s)
<1>1. /\ s = [ent |-> s.ent, epochs |-> s.epochs, recvCount |-> s.recvCount]
      /\ s.ent \in [DOMAIN s.ent -> Entry] /\ Cardinality(DOMAIN s.ent) <= MaxSkip
      /\ s.epochs \in [Slots -> [hk : HeaderKey \cup {NoKey}, refs : Nat]]
  BY Zenon DEF StoreInv, StoreType
<1>2. /\ r.ent = s.ent /\ r.recvCount = s.recvCount
      /\ r.live = [e \in Live(s) |-> s.epochs[e]]
  BY Zenon DEF EncodeStore, Restrict
<1> HIDE DEF r
<1>3. DecodeOk(r)
  <2>1. \A i \in DOMAIN r.ent : r.ent[i].epoch \in Slots
    BY <1>1, <1>2, Zenon DEF Entry
  <2>2. \A e \in DOMAIN r.live : e \in Slots /\ r.live[e].refs \in 1 .. MaxSkip
    BY <1>2, RefsBounded, Zenon
  <2>3. QED
    BY <1>1, <1>2, <2>1, <2>2, Zenon DEF DecodeOk
<1>4. ASSUME NEW e \in Slots
      PROVE  (IF e \in DOMAIN r.live THEN r.live[e] ELSE FreeSlot) = s.epochs[e]
  <2>1. CASE e \in Live(s)
    BY <1>2, <2>1, Zenon
  <2>2. CASE e \notin Live(s)
    <3>1. s.epochs[e] \in [hk : HeaderKey \cup {NoKey}, refs : Nat]
      BY <1>1, Zenon
    <3>2. s.epochs[e].refs = 0 /\ s.epochs[e].hk = NoKey
      BY <2>2, <3>1 DEF Live, StoreInv, KeysDistinct
    <3>3. s.epochs[e] = FreeSlot
      BY <3>1, <3>2, Zenon DEF FreeSlot
    <3>4. QED
      BY <1>2, <2>2, <3>3, Zenon
  <2>3. QED
    BY <2>1, <2>2, Zenon
<1>5. DecodeStore(r) = s
  <2>1. DecodeStore(r).epochs = s.epochs
    BY <1>1, <1>4, Zenon DEF DecodeStore
  <2>2. QED
    BY <1>1, <1>2, <2>1, Zenon DEF DecodeStore
<1>6. QED
  BY <1>3, <1>5, Zenon DEF r

\* A session saved and loaded again has the store it had (dr_encode, dr_decode).
THEOREM RecordsExact == Spec => []RecordExact
<1>1. IInv => RecordExact
  BY RecordOfStore, Zenon DEF IInv, RecordExact
<1>2. QED
  BY <1>1, StoreInvariant, PTL
------------------------------------------------------------------------------
\* Evicting from the table evicts from the queue its callers see.
LEMMA KeysOfRoom ==
  ASSUME NEW s, StoreInv(s)
  PROVE  KeysOf(MakeRoom(s)) =
           IF Cardinality(DOMAIN KeysOf(s)) = MaxSkip
           THEN Restrict(KeysOf(s), DOMAIN KeysOf(s) \ {Min(DOMAIN KeysOf(s))})
           ELSE KeysOf(s)
<1> DEFINE m == MakeRoom(s)
<1>1. /\ DOMAIN m.ent = IF Cardinality(DOMAIN s.ent) = MaxSkip
                        THEN DOMAIN s.ent \ {Min(DOMAIN s.ent)}
                        ELSE DOMAIN s.ent
      /\ \A i \in DOMAIN m.ent : /\ i \in DOMAIN s.ent /\ m.ent[i] = s.ent[i]
                                 /\ HeaderKeyOf(m, i) = HeaderKeyOf(s, i)
  BY MakeRoomInv, ZenonT(60)
<1> HIDE DEF m
<1>2. DOMAIN KeysOf(s) = DOMAIN s.ent /\ DOMAIN KeysOf(m) = DOMAIN m.ent
  BY Zenon DEF KeysOf
<1>3. KeysOf(m) = [i \in DOMAIN m.ent |-> KeysOf(s)[i]]
  BY <1>1, Zenon DEF KeysOf
<1>4. KeysOf(s) = [i \in DOMAIN s.ent |-> KeysOf(s)[i]]
  BY Zenon DEF KeysOf
<1>5. CASE Cardinality(DOMAIN s.ent) = MaxSkip
  BY <1>1, <1>2, <1>3, <1>5, Zenon DEF Restrict, m
<1>6. CASE Cardinality(DOMAIN s.ent) # MaxSkip
  BY <1>1, <1>2, <1>3, <1>4, <1>6, Zenon DEF m
<1>7. QED
  BY <1>5, <1>6, Zenon

\* Filing a key in the table files it in the queue its callers see.
LEMMA KeysOfFileKey ==
  ASSUME NEW s, StoreInv(s), Cardinality(DOMAIN s.ent) < MaxSkip,
         NEW hk \in HeaderKey, NEW n \in MsgNum, NEW mk \in MessageKey
  PROVE  KeysOf(FileKey(s, hk, n, mk)) =
           [i \in {NextStamp(s)} \cup DOMAIN KeysOf(s) |->
              IF i = NextStamp(s)
              THEN [hk |-> hk, n |-> n, age |-> s.recvCount, mk |-> mk]
              ELSE KeysOf(s)[i]]
<1> DEFINE r == FileKey(s, hk, n, mk)
<1> DEFINE k == NextStamp(s)
<1>1. /\ DOMAIN r.ent = {k} \cup DOMAIN s.ent
      /\ k \notin DOMAIN s.ent
      /\ r.ent[k].n = n /\ r.ent[k].age = s.recvCount /\ r.ent[k].mk = mk
      /\ HeaderKeyOf(r, k) = hk
      /\ \A i \in DOMAIN s.ent : /\ r.ent[i] = s.ent[i]
                                /\ HeaderKeyOf(r, i) = HeaderKeyOf(s, i)
  BY FileKeyInv, SMTT(60)
<1> HIDE DEF r, k
<1>2. KeysOf(r) = [i \in {k} \cup DOMAIN s.ent |->
                     IF i = k
                     THEN [hk |-> hk, n |-> n, age |-> s.recvCount, mk |-> mk]
                     ELSE KeysOf(s)[i]]
  BY <1>1, Zenon DEF KeysOf
<1>3. DOMAIN KeysOf(s) = DOMAIN s.ent
  BY Zenon DEF KeysOf
<1>4. QED
  BY <1>2, <1>3, Zenon DEF r, k

\* The library operators of the two modules are the same.
LEMMA SameOperators ==
  /\ \A S : Abstract!Cardinality(S) = Cardinality(S)
  /\ \A S : Abstract!Min(S) = Min(S) /\ Abstract!Max(S) = Max(S)
  /\ \A f, S : Abstract!Restrict(f, S) = Restrict(f, S)
<1>1. ASSUME NEW S PROVE Abstract!Cardinality(S) = Cardinality(S)
  BY Zenon DEF Abstract!Cardinality, Cardinality
<1>2. ASSUME NEW S PROVE Abstract!Min(S) = Min(S) /\ Abstract!Max(S) = Max(S)
  BY Zenon DEF Abstract!Min, Min, Abstract!Max, Max
<1>3. ASSUME NEW f, NEW S PROVE Abstract!Restrict(f, S) = Restrict(f, S)
  BY Zenon DEF Abstract!Restrict, Restrict
<1>4. QED
  BY <1>1, <1>2, <1>3, Zenon

\* Initial stores map to the empty queue.
LEMMA AbstractInit == Init => Abstract!Init
  BY DEF Init, Abstract!Init, EmptyStore, KeysOf

\* Every store operation maps to the queue operation of the same meaning.
LEMMA AbstractNext == IInv /\ [Next]_store => [Abstract!Next]_(Abstract!vars)
<1> SUFFICES ASSUME IInv, [Next]_store PROVE [Abstract!Next]_(Abstract!vars)
  BY Zenon
<1>0. StoreInv(store) /\ AgesInOrder(store) /\ store.recvCount \in Nat
  BY Zenon DEF IInv, StoreInv, StoreType
<1>d. DOMAIN KeysOf(store) = DOMAIN store.ent
  BY Zenon DEF KeysOf
<1>1. ASSUME NEW hk \in HeaderKey, NEW n \in MsgNum, NEW mk \in MessageKey, Insert(hk, n, mk)
      PROVE  Abstract!Add(hk, n, mk)
  <2> DEFINE m == MakeRoom(store)
  <2>1. store' = FileKey(m, hk, n, mk) /\ NextStamp(store) <= MaxStamp
    BY <1>1, Zenon DEF Insert, StoreInsert
  <2>2. StoreInv(m) /\ Cardinality(DOMAIN m.ent) < MaxSkip /\ m.recvCount = store.recvCount
    BY <1>0, MakeRoomInv, ZenonT(60)
  <2>3. KeysOf(m) = Abstract!Room
    BY <1>0, KeysOfRoom, SameOperators, Zenon DEF Abstract!Room
  <2> HIDE DEF m
  <2>4. KeysOf(store') = [i \in {NextStamp(m)} \cup DOMAIN KeysOf(m) |->
                            IF i = NextStamp(m)
                            THEN [hk |-> hk, n |-> n, age |-> store.recvCount, mk |-> mk]
                            ELSE KeysOf(m)[i]]
    BY <2>1, <2>2, KeysOfFileKey, SMTT(60)
  <2>5. NextStamp(m) = Max({0} \cup DOMAIN KeysOf(m)) + 1
    BY Zenon DEF NextStamp, KeysOf
  <2>6. store'.recvCount = store.recvCount
    BY <2>1, <2>2, FileKeyInv
  <2>7. Max({0} \cup DOMAIN KeysOf(store)) < MaxStamp
    <3>1. NextStamp(store) = Max({0} \cup DOMAIN store.ent) + 1
      BY Zenon DEF NextStamp
    <3>2. /\ {0} \cup DOMAIN store.ent \in SUBSET Nat
          /\ IsFiniteSet(DOMAIN store.ent \cup {0})
      BY <1>0, FS_AddElement DEF StoreInv, StoreType
    <3>3. {0} \cup DOMAIN store.ent = DOMAIN store.ent \cup {0}
      BY Zenon
    <3>4. Max({0} \cup DOMAIN store.ent) \in Nat
      BY <3>2, <3>3, MaxOfNaturals, Zenon
    <3>5. QED
      BY <1>d, <2>1, <3>1, <3>4, SpecAssumption
  <2>8. QED
    BY <2>3, <2>4, <2>5, <2>6, <2>7, SameOperators, Zenon DEF Abstract!Add
<1>2. ASSUME NEW i \in DOMAIN store.ent, Remove(i)
      PROVE  Abstract!Take(i)
  <2>1. store' = RemoveAll(store, {i}) /\ {i} \in SUBSET DOMAIN store.ent
    BY <1>2, Zenon DEF Remove, StoreRemove
  <2>2. /\ DOMAIN store'.ent = DOMAIN store.ent \ {i}
        /\ \A j \in DOMAIN store.ent \ {i} :
             store'.ent[j] = store.ent[j] /\ HeaderKeyOf(store', j) = HeaderKeyOf(store, j)
        /\ store'.recvCount = store.recvCount
    BY <1>0, <2>1, RemoveAllInv, SMTT(60)
  <2>3. KeysOf(store') = [j \in DOMAIN store.ent \ {i} |-> KeysOf(store)[j]]
    BY <2>2, Zenon DEF KeysOf
  <2>4. QED
    BY <1>d, <2>2, <2>3, SameOperators, Zenon DEF Abstract!Take, Restrict
<1>3. ASSUME Succeed PROVE Abstract!Tick
  <2>1. /\ store' = PostSuccess(store) /\ store.recvCount < MaxClock
    BY <1>3, Zenon DEF Succeed
  <2>2. /\ store'.recvCount = store.recvCount + 1
        /\ DOMAIN store'.ent =
             {i \in DOMAIN store.ent : (store.recvCount + 1) - store.ent[i].age < AgeLimit}
        /\ \A i \in DOMAIN store'.ent :
             store'.ent[i] = store.ent[i] /\ HeaderKeyOf(store', i) = HeaderKeyOf(store, i)
    BY <1>0, <2>1, PostSuccessInv, Zenon
  <2>3. KeysOf(store') = [i \in DOMAIN store'.ent |-> KeysOf(store)[i]]
    BY <2>2, Zenon DEF KeysOf
  <2>4. DOMAIN store'.ent =
          {i \in DOMAIN KeysOf(store) : store'.recvCount - KeysOf(store)[i].age < AgeLimit}
    BY <2>2, Zenon DEF KeysOf
  <2>5. QED
    BY <2>1, <2>2, <2>3, <2>4, SameOperators, Zenon DEF Abstract!Tick, Restrict
<1>4. ASSUME UNCHANGED store PROVE UNCHANGED Abstract!vars
  BY <1>4, Zenon DEF Abstract!vars, KeysOf, HeaderKeyOf
<1>5. QED
  BY <1>1, <1>2, <1>3, <1>4, <1>d, Zenon DEF Next, Abstract!Next

\* The store with its shared, reference-counted header keys behaves as a plain
\* bounded queue of keys in which each entry owns its header key.
THEOREM StoreRefinesQueue == Spec => ImplementsSkippedKeys
<1>1. QED
  BY StoreInvariant, AbstractInit, AbstractNext, PTL
     DEF Spec, ImplementsSkippedKeys, Abstract!Spec
==============================================================================
