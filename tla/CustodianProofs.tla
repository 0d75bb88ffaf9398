--------------------------- MODULE CustodianProofs ---------------------------
(***************************************************************************)
(* MemMatchesDisk, ReceiverResolvesHeld, HandlesKept, OneShotUnique and    *)
(* SpentNeverBack for every history length, batch size and number of       *)
(* slots; that a handle never names a key that is not held; and that the   *)
(* handles are exact as long as no more keys are held than there are       *)
(* slots.                                                                  *)
(***************************************************************************)
EXTENDS Custodian, FiniteLemmas

TypeOK ==
  /\ disk \in Blobs \cup {None} /\ mem \in Custodians \cup {None}
  /\ made \in 0..MaxKeys
  /\ exported \in Seq(1..made) /\ spent \in SUBSET (1..made)
  /\ dirty \in BOOLEAN

\* No two used places of the arrays hold the same key, no key was generated
\* after the first top ones, and there are no more keys than the arrays take.
MatOk(mat, top) ==
  /\ mat \in Materials
  /\ mat.spks # << >>
  /\ Len(mat.spks) <= SpkMax /\ Len(mat.saks) <= SakMax
  /\ Cardinality(Opks(mat)) <= OpkMax
  /\ IsInjective(mat.spks) /\ IsInjective(mat.saks)
  /\ \A i, j \in DOMAIN mat.opks : mat.opks[i] = mat.opks[j] /\ mat.opks[i] # None => i = j
  /\ Range(mat.spks) \cup Opks(mat) \cup Range(mat.saks) \subseteq 1..top

\* The slots name held keys only, each at most once.
SlotsOk(slots, held) ==
  /\ slots \in [Handles -> Names \cup {None}] /\ held \subseteq Names
  /\ \A h \in Handles : slots[h] # None => slots[h] \in held
  /\ \A g, h \in Handles : g # h /\ slots[g] # None => slots[g] # slots[h]

\* And they name all of them, on a condition.
Handled(fit, slots, held) ==
  SlotsOk(slots, held) /\ (fit => held \subseteq Range(slots))

\* Every held key of a custodian has a handle; there are no more than handles.
Complete(m) == Held(m.mat) \subseteq Range(m.slots)
Fits(m) == Cardinality(Held(m.mat)) <= MaxSlots

\* A change that loses no handle while there are enough.
Keeps(m, t) == Complete(m) /\ Fits(t) => Complete(t)

\* The receive context of a classical custodian is that of its material.
RecvOk(m) ==
  m.hybrid \/ m.recv = [spks |-> m.mat.spks, n |-> Len(m.mat.opks)]

CustOk(m, top) ==
  IF m.mat = None THEN m.slots = [h \in Handles |-> None]
  ELSE MatOk(m.mat, top) /\ SlotsOk(m.slots, Held(m.mat)) /\ RecvOk(m)

\* What may still be reserved was in no bundle, and what may still be resolved
\* was not consumed.
Unsent(mat) ==
  mat # None => /\ Range(exported) \cap Opks(mat) \subseteq mat.out
                /\ spent \cap Opks(mat) = {}

\* The inductive invariant.
IInv ==
  /\ TypeOK
  /\ mem = None => dirty = FALSE
  /\ mem # None => disk # None /\ CustOk(mem, made) /\ Unsent(mem.mat)
  /\ disk # None => Unsent(disk.mat) /\ (disk.mat # None => MatOk(disk.mat, made))
  /\ MemMatchesDisk
  /\ IsInjective(exported)
------------------------------------------------------------------------------
\* Pairing the keys of an array with their type does not make them more.
LEMMA NamesFinite ==
  ASSUME NEW S, IsFiniteSet(S), NEW type
  PROVE  /\ IsFiniteSet({<<type, k>> : k \in S})
         /\ Cardinality({<<type, k>> : k \in S}) <= Cardinality(S)
<1> DEFINE T == {<<type, k>> : k \in S}
           f == [k \in S |-> <<type, k>>]
<1>1. f \in Surjection(S, T)
  BY ZenonT(60) DEF Surjection
<1> HIDE DEF f
<1>2. QED
  BY <1>1, FS_Surjection, ZenonT(60)

\* An array holds no more keys than it is long.
LEMMA RangeFinite ==
  ASSUME NEW S, NEW s \in Seq(S)
  PROVE  IsFiniteSet(Range(s)) /\ Cardinality(Range(s)) <= Len(s)
<1>1. Len(s) \in Nat /\ DOMAIN s = 1 .. Len(s)
  OBVIOUS
<1>2. IsFiniteSet(DOMAIN s) /\ Cardinality(DOMAIN s) = Len(s)
  <2>1. 1 \in Int /\ Len(s) \in Int
    BY <1>1
  <2>2. /\ IsFiniteSet(1 .. Len(s))
        /\ Cardinality(1 .. Len(s)) = IF 1 > Len(s) THEN 0 ELSE Len(s) - 1 + 1
    BY <2>1, FS_Interval, Zenon
  <2>3. (IF 1 > Len(s) THEN 0 ELSE Len(s) - 1 + 1) = Len(s)
    BY <1>1
  <2>4. QED
    BY <1>1, <2>2, <2>3, Zenon
<1>3. s \in Surjection(DOMAIN s, Range(s))
  BY DEF Surjection, Range
<1>4. IsFiniteSet(Range(s)) /\ Cardinality(Range(s)) <= Cardinality(DOMAIN s)
  BY <1>2, <1>3, FS_Surjection, ZenonT(60)
<1>5. QED
  BY <1>2, <1>4, Zenon

\* The held keys fit a slot table of the size of the arrays.
LEMMA HeldFits ==
  ASSUME NEW mat, NEW top, MatOk(mat, top)
  PROVE  /\ IsFiniteSet(Held(mat)) /\ Held(mat) \subseteq Names
         /\ Cardinality(Held(mat)) <= SpkMax + SakMax + OpkMax
<1> DEFINE A == {<<"SPK", k>> : k \in Range(mat.spks)}
           B == {<<"OPK", k>> : k \in Opks(mat)}
           C == {<<"SAK", k>> : k \in Range(mat.saks)}
<1>1. /\ mat.spks \in Seq(Keys) /\ mat.saks \in Seq(Keys)
      /\ mat.opks \in Seq(Keys \cup {None})
  BY Zenon DEF MatOk, Materials
<1>2. SpkMax \in Nat /\ SakMax \in Nat /\ OpkMax \in Nat
  BY CustodianAssumption, Zenon
<1>3. IsFiniteSet(A) /\ Cardinality(A) \in Nat /\ Cardinality(A) <= SpkMax
  <2>1. IsFiniteSet(Range(mat.spks)) /\ Cardinality(Range(mat.spks)) <= Len(mat.spks)
    BY <1>1, RangeFinite, Zenon
  <2>2. IsFiniteSet(A) /\ Cardinality(A) <= Cardinality(Range(mat.spks))
    BY <2>1, NamesFinite, ZenonT(60)
  <2>3. Cardinality(A) \in Nat /\ Cardinality(Range(mat.spks)) \in Nat
    BY <2>1, <2>2, FS_CardinalityType, Zenon
  <2>4. Len(mat.spks) \in Nat /\ Len(mat.spks) <= SpkMax
    BY <1>1 DEF MatOk
  <2> HIDE DEF A
  <2>5. QED
    BY <1>2, <2>1, <2>2, <2>3, <2>4
<1>4. IsFiniteSet(C) /\ Cardinality(C) \in Nat /\ Cardinality(C) <= SakMax
  <2>1. IsFiniteSet(Range(mat.saks)) /\ Cardinality(Range(mat.saks)) <= Len(mat.saks)
    BY <1>1, RangeFinite, Zenon
  <2>2. IsFiniteSet(C) /\ Cardinality(C) <= Cardinality(Range(mat.saks))
    BY <2>1, NamesFinite, ZenonT(60)
  <2>3. Cardinality(C) \in Nat /\ Cardinality(Range(mat.saks)) \in Nat
    BY <2>1, <2>2, FS_CardinalityType, Zenon
  <2>4. Len(mat.saks) \in Nat /\ Len(mat.saks) <= SakMax
    BY <1>1 DEF MatOk
  <2> HIDE DEF C
  <2>5. QED
    BY <1>2, <2>1, <2>2, <2>3, <2>4
<1>5. IsFiniteSet(Opks(mat))
  <2>1. IsFiniteSet(Range(mat.opks))
    BY <1>1, RangeFinite, Zenon
  <2>2. QED
    BY <2>1, FS_Difference, ZenonT(60) DEF Opks
<1>6. IsFiniteSet(B) /\ Cardinality(B) \in Nat /\ Cardinality(B) <= OpkMax
  <2>1. IsFiniteSet(B) /\ Cardinality(B) <= Cardinality(Opks(mat))
    BY <1>5, NamesFinite, ZenonT(60)
  <2>2. Cardinality(B) \in Nat /\ Cardinality(Opks(mat)) \in Nat
    BY <1>5, <2>1, FS_CardinalityType, Zenon
  <2>3. Cardinality(Opks(mat)) <= OpkMax
    BY Zenon DEF MatOk
  <2> HIDE DEF B
  <2>4. QED
    BY <1>2, <2>1, <2>2, <2>3
<1>7. Held(mat) = (A \cup B) \cup C
  BY Zenon DEF Held
<1>8. A \cup B \cup C \subseteq Names
  BY <1>1 DEF Names, Opks, Range
<1> HIDE DEF A, B, C
<1>9. /\ IsFiniteSet(A \cup B) /\ Cardinality(A \cup B) \in Nat
      /\ Cardinality(A \cup B) <= SpkMax + OpkMax
  <2>1. IsFiniteSet(A \cap B) /\ Cardinality(A \cap B) \in Nat
    BY <1>3, FS_Intersection, FS_CardinalityType, ZenonT(60)
  <2>2. /\ IsFiniteSet(A \cup B)
        /\ Cardinality(A \cup B) = Cardinality(A) + Cardinality(B) - Cardinality(A \cap B)
    BY <1>3, <1>6, FS_Union, Zenon
  <2>3. Cardinality(A \cup B) \in Nat
    BY <2>2, FS_CardinalityType, Zenon
  <2>4. QED
    BY <1>2, <1>3, <1>6, <2>1, <2>2, <2>3
<1>10. /\ IsFiniteSet((A \cup B) \cup C)
       /\ Cardinality((A \cup B) \cup C) <= SpkMax + SakMax + OpkMax
  <2> DEFINE D == A \cup B
  <2> HIDE DEF D
  <2>1. IsFiniteSet(D) /\ Cardinality(D) \in Nat /\ Cardinality(D) <= SpkMax + OpkMax
    BY <1>9, Zenon DEF D
  <2>2. IsFiniteSet(D \cap C) /\ Cardinality(D \cap C) \in Nat
    BY <2>1, FS_Intersection, FS_CardinalityType, Zenon
  <2>3. /\ IsFiniteSet(D \cup C)
        /\ Cardinality(D \cup C) = Cardinality(D) + Cardinality(C) - Cardinality(D \cap C)
    BY <1>4, <2>1, FS_Union, Zenon
  <2>4. Cardinality(D \cup C) <= SpkMax + SakMax + OpkMax
    BY <1>2, <1>4, <2>1, <2>2, <2>3
  <2>5. QED
    BY <2>3, <2>4, Zenon DEF D
<1>11. QED
  BY <1>7, <1>8, <1>10, Zenon
------------------------------------------------------------------------------
\* The slots of a key that gets one.
LEMMA SlotRegisterOk ==
  ASSUME NEW fit, NEW slots, NEW H, Handled(fit, slots, H), NEW e \in Names, e \notin H,
         fit => IsFiniteSet(H) /\ Cardinality(H) < MaxSlots
  PROVE  Handled(fit, SlotRegister(slots, e), H \cup {e})
<1> DEFINE free == {h \in Handles : slots[h] = None}
<1>1. MaxSlots \in Nat /\ e # None
  BY CustodianAssumption, NoneAssumption, Zenon
<1>2. /\ slots \in [Handles -> Names \cup {None}] /\ H \subseteq Names
      /\ \A h \in Handles : slots[h] # None => slots[h] \in H
      /\ \A g, h \in Handles : g # h /\ slots[g] # None => slots[g] # slots[h]
      /\ fit => H \subseteq Range(slots)
  BY Zenon DEF Handled, SlotsOk
<1>3. CASE free = {}
  <2>1. SlotRegister(slots, e) = slots
    BY <1>3, Zenon DEF SlotRegister
  <2>2. ~ fit
    <3>1. SUFFICES ASSUME fit PROVE FALSE
      BY Zenon
    <3>2. IsFiniteSet(Handles) /\ Cardinality(Handles) = MaxSlots
      BY <1>1, FS_Interval DEF Handles
    <3>3. slots \in [Handles -> H]
      BY <1>2, <1>3, Zenon
    <3>4. IsFiniteSet(H) /\ Cardinality(H) < Cardinality(Handles)
      BY <3>1, <3>2, Zenon
    <3>5. \E g, h \in Handles : g # h /\ slots[g] = slots[h]
      BY <3>2, <3>3, <3>4, FS_PigeonHole, ZenonT(60)
    <3>6. QED
      BY <1>2, <1>3, <3>5, Zenon
  <2>3. QED
    BY <1>2, <2>1, <2>2, Zenon DEF Handled, SlotsOk
<1>4. CASE free # {}
  <2>1. Min(free) \in free
    BY <1>4, MinOfNaturals DEF Handles
  <2> DEFINE f == Min(free)
             t == [slots EXCEPT ![f] = e]
  <2>2. SlotRegister(slots, e) = t
    BY <1>4, Zenon DEF SlotRegister
  <2>3. f \in Handles /\ slots[f] = None
    BY <2>1, Zenon
  <2> HIDE DEF f, free
  <2>4. /\ t \in [Handles -> Names \cup {None}]
        /\ t[f] = e /\ \A h \in Handles : h # f => t[h] = slots[h]
    BY <1>2, <2>3, Zenon
  <2> HIDE DEF t
  <2>5. \A h \in Handles : t[h] # None => t[h] \in H \cup {e}
    BY <1>2, <2>4, Zenon
  <2>6. \A g, h \in Handles : g # h /\ t[g] # None => t[g] # t[h]
    BY <1>1, <1>2, <2>3, <2>4, ZenonT(60)
  <2>7. fit => H \cup {e} \subseteq Range(t)
    <3>1. ASSUME fit, NEW k \in H PROVE k \in Range(t)
      <4>1. PICK h \in Handles : slots[h] = k
        BY <1>2, <3>1, Zenon DEF Range
      <4>2. CASE h # f
        BY <2>4, <4>1, <4>2, Zenon DEF Range
      <4>3. CASE h = f
        <5>1. k = None
          BY <2>3, <4>1, <4>3, Zenon
        <5>2. QED
          BY <1>2, <5>1, NoneAssumption, Zenon
      <4>4. QED
        BY <4>2, <4>3, Zenon
    <3>2. e \in Range(t)
      BY <2>3, <2>4, Zenon DEF Range
    <3>3. QED
      BY <3>1, <3>2, Zenon
  <2>8. QED
    BY <2>2, <2>4, <2>5, <2>6, <2>7, Zenon DEF Handled, SlotsOk
<1>5. QED
  BY <1>3, <1>4, Zenon

\* The slots of a key that is freed.
LEMMA SlotFreeOk ==
  ASSUME NEW fit, NEW slots, NEW H, Handled(fit, slots, H), NEW e
  PROVE  Handled(fit, SlotFree(slots, e), H \ {e})
  BY Zenon DEF Handled, SlotsOk, SlotFree, Range

\* The rounds of RegisterAll.
IsRegistering(f, slots, entries, n) ==
  f = [i \in 0 .. n |-> IF i = 0 THEN slots
                        ELSE IF entries[i][2] = None THEN f[i - 1]
                        ELSE SlotRegister(f[i - 1], entries[i])]

(* The loop that registers every key is a function on its position.        *)
LEMMA RegisteringExists ==
  ASSUME NEW slots, NEW entries, NEW n \in Nat
  PROVE  \E f : IsRegistering(f, slots, entries, n)
<1> DEFINE S == {k \in Nat : \E f : IsRegistering(f, slots, entries, k)}
<1>1. 0 \in S
  <2> DEFINE f == [i \in 0 .. 0 |-> slots]
  <2>1. f = [i \in 0 .. 0 |-> IF i = 0 THEN slots
                              ELSE IF entries[i][2] = None THEN f[i - 1]
                              ELSE SlotRegister(f[i - 1], entries[i])]
    OBVIOUS
  <2>2. IsRegistering(f, slots, entries, 0)
    BY <2>1, Zenon DEF IsRegistering
  <2>3. QED
    BY <2>2, Zenon
<1>2. ASSUME NEW k \in Nat, k \in S PROVE k + 1 \in S
  <2>1. PICK f : IsRegistering(f, slots, entries, k)
    BY <1>2, Zenon
  <2> DEFINE new == IF entries[k + 1][2] = None THEN f[k]
                    ELSE SlotRegister(f[k], entries[k + 1])
             g == [i \in 0 .. k + 1 |-> IF i = k + 1 THEN new ELSE f[i]]
  <2>2. g[k + 1] = new /\ \A i \in 0 .. k : g[i] = f[i]
    OBVIOUS
  <2>3. \A i \in 0 .. k : f[i] = IF i = 0 THEN slots
                               ELSE IF entries[i][2] = None THEN f[i - 1]
                               ELSE SlotRegister(f[i - 1], entries[i])
    BY <2>1, Zenon DEF IsRegistering
  <2>4. \A i \in 0 .. k + 1 : g[i] = IF i = 0 THEN slots
                                   ELSE IF entries[i][2] = None THEN g[i - 1]
                                   ELSE SlotRegister(g[i - 1], entries[i])
    BY <2>2, <2>3
  <2>5. IsRegistering(g, slots, entries, k + 1)
    BY <2>4, Zenon DEF IsRegistering
  <2>6. QED
    BY <2>5
<1> HIDE DEF S
<1>3. n \in S
  BY <1>1, <1>2, NatSetInduction, Zenon
<1>4. QED
  BY <1>3, Zenon DEF S

\* The entries among the first n that name a key.
Named(entries, n) == {entries[i] : i \in {j \in 1 .. n : entries[j][2] # None}}

\* Registering the arrays of a custodian with an empty table.
LEMMA RegisterAllOk ==
  ASSUME NEW fit, NEW entries \in Seq({"SPK", "OPK", "SAK"} \X (Keys \cup {None})),
         \A i, j \in 1 .. Len(entries) :
           entries[i] = entries[j] /\ entries[i][2] # None => i = j,
         fit => /\ IsFiniteSet(Named(entries, Len(entries)))
                        /\ Cardinality(Named(entries, Len(entries))) <= MaxSlots
  PROVE  Handled(fit, RegisterAll([h \in Handles |-> None], entries),
                 Named(entries, Len(entries)))
<1> DEFINE n == Len(entries)
           empty == [h \in Handles |-> None]
           reg == CHOOSE f : IsRegistering(f, empty, entries, n)
           E(j) == Named(entries, j)
<1>1. /\ n \in Nat
      /\ \A i \in 1 .. n : entries[i][2] # None => entries[i] \in Names
  BY DEF Names
<1>2. RegisterAll(empty, entries) = reg[n]
  BY Zenon DEF RegisterAll, IsRegistering
<1>3. IsRegistering(reg, empty, entries, n)
  <2>1. \E f : IsRegistering(f, empty, entries, n)
    BY <1>1, RegisteringExists, ZenonT(60)
  <2>2. QED
    BY <2>1, Zenon
<1> HIDE DEF reg, n
<1> DEFINE T == {j \in Nat : j <= n => Handled(fit, reg[j], E(j))}
<1>4. 0 \in T
  <2>1. reg[0] = empty
    BY <1>1, <1>3 DEF IsRegistering
  <2>2. E(0) = {}
    BY DEF Named
  <2>3. Handled(fit, empty, {})
    BY Zenon DEF Handled, SlotsOk
  <2>4. QED
    BY <2>1, <2>2, <2>3, ZenonT(60)
<1>5. ASSUME NEW j \in Nat, j \in T PROVE j + 1 \in T
  <2>1. SUFFICES ASSUME j + 1 <= n PROVE Handled(fit, reg[j + 1], E(j + 1))
    OBVIOUS
  <2>2. Handled(fit, reg[j], E(j))
    BY <1>1, <1>5, <2>1
  <2>3. j + 1 \in 1 .. n /\ j + 1 \in 0 .. n /\ (j + 1) - 1 = j /\ j + 1 # 0
    BY <1>1, <2>1
  <2>4. reg[j + 1] = IF entries[j + 1][2] = None THEN reg[j]
                     ELSE SlotRegister(reg[j], entries[j + 1])
    BY <1>3, <2>3, ZenonT(60) DEF IsRegistering
  <2>5. CASE entries[j + 1][2] = None
    <3>1. E(j + 1) = E(j)
      BY <2>5 DEF Named
    <3>2. QED
      BY <2>2, <2>4, <2>5, <3>1, Zenon
  <2>6. CASE entries[j + 1][2] # None
    <3>1. E(j + 1) = E(j) \cup {entries[j + 1]}
      BY <2>6 DEF Named
    <3>2. entries[j + 1] \in Names /\ entries[j + 1] \notin E(j)
      BY <1>1, <2>1, <2>3, <2>6 DEF Named, n
    <3>3. fit => IsFiniteSet(E(j)) /\ Cardinality(E(j)) < MaxSlots
      <4>1. SUFFICES ASSUME fit
                     PROVE  IsFiniteSet(E(j)) /\ Cardinality(E(j)) < MaxSlots
        BY Zenon
      <4>2. IsFiniteSet(E(n)) /\ Cardinality(E(n)) <= MaxSlots
        BY <4>1, Zenon DEF n
      <4>3. E(j + 1) \subseteq E(n) /\ E(j) \subseteq E(n)
        BY <1>1, <2>1 DEF Named
      <4>4. IsFiniteSet(E(j)) /\ IsFiniteSet(E(j + 1))
            /\ Cardinality(E(j + 1)) <= Cardinality(E(n))
        BY <4>2, <4>3, FS_Subset, Zenon
      <4>5. Cardinality(E(j + 1)) = Cardinality(E(j)) + 1
        BY <3>1, <3>2, <4>4, FS_AddElement, Zenon
      <4>6. /\ Cardinality(E(j)) \in Nat /\ Cardinality(E(n)) \in Nat
            /\ MaxSlots \in Nat
        BY <4>2, <4>4, FS_CardinalityType, CustodianAssumption, Zenon
      <4>7. QED
        BY <4>2, <4>4, <4>5, <4>6
    <3>4. Handled(fit, SlotRegister(reg[j], entries[j + 1]), E(j) \cup {entries[j + 1]})
      BY <2>2, <3>2, <3>3, SlotRegisterOk, Zenon
    <3>5. QED
      BY <2>4, <2>6, <3>1, <3>4, ZenonT(60)
  <2>7. QED
    BY <2>5, <2>6, Zenon
<1> HIDE DEF T
<1>6. n \in T
  BY <1>1, <1>4, <1>5, NatSetInduction, Zenon
<1>7. Handled(fit, reg[n], E(n))
  BY <1>1, <1>6 DEF T
<1>8. QED
  BY <1>2, <1>7, Zenon DEF n
------------------------------------------------------------------------------
\* The arrays of a custodian, one after the other.
All(mat) == Entries("SPK", mat.spks) \o Entries("OPK", mat.opks)
              \o Entries("SAK", mat.saks)

\* An array's entries carry its keys in order, each with the array's type.
LEMMA EntriesOk ==
  ASSUME NEW type \in {"SPK", "OPK", "SAK"}, NEW s \in Seq(Keys \cup {None})
  PROVE  /\ Entries(type, s) \in Seq({"SPK", "OPK", "SAK"} \X (Keys \cup {None}))
         /\ Len(Entries(type, s)) = Len(s)
         /\ Len(s) \in Nat /\ \A i \in 1 .. Len(s) : Entries(type, s)[i] = <<type, s[i]>>
<1> DEFINE e == Entries(type, s)
           n == Len(s)
           T == {"SPK", "OPK", "SAK"}
           K == Keys \cup {None}
<1>1. Len(s) \in Nat /\ DOMAIN s = 1 .. Len(s) /\ \A i \in 1 .. Len(s) : s[i] \in K
  OBVIOUS
<1>2. e = [i \in 1 .. n |-> <<type, s[i]>>]
  BY <1>1, Zenon DEF Entries
<1>a. \A i \in 1 .. n : <<type, s[i]>> \in T \X K
  BY <1>1
<1>3. \A i \in 1 .. n : e[i] = <<type, s[i]>> /\ e[i] \in T \X K
  BY <1>2, <1>a, Zenon
<1>4. DOMAIN e = 1 .. n /\ e = [i \in 1 .. n |-> e[i]]
  BY <1>2, Zenon
<1> HIDE DEF e, n, T, K
<1>5. e \in Seq(T \X K) /\ Len(e) = n
  BY <1>1, <1>3, <1>4 DEF n
<1>6. QED
  BY <1>1, <1>3, <1>5, Zenon DEF e, n, T, K

(* Every key of the material has an entry in the list that is registered,  *)
(* and nothing else has.                                                   *)
LEMMA AllEntries ==
  ASSUME NEW mat \in Materials
  PROVE  LET a == Len(mat.spks)
             b == Len(mat.opks)
             c == Len(mat.saks)
         IN  /\ a \in Nat /\ b \in Nat /\ c \in Nat
             /\ All(mat) \in Seq({"SPK", "OPK", "SAK"} \X (Keys \cup {None}))
             /\ Len(All(mat)) = a + b + c
             /\ \A i \in 1 .. a : All(mat)[i] = <<"SPK", mat.spks[i]>>
             /\ \A i \in 1 .. b : All(mat)[a + i] = <<"OPK", mat.opks[i]>>
             /\ \A i \in 1 .. c : All(mat)[a + b + i] = <<"SAK", mat.saks[i]>>
<1> DEFINE S == {"SPK", "OPK", "SAK"} \X (Keys \cup {None})
           a == Len(mat.spks)
           b == Len(mat.opks)
           c == Len(mat.saks)
           A == Entries("SPK", mat.spks)
           B == Entries("OPK", mat.opks)
           C == Entries("SAK", mat.saks)
<1>1. /\ mat.spks \in Seq(Keys) /\ mat.saks \in Seq(Keys)
      /\ mat.opks \in Seq(Keys \cup {None})
  BY Zenon DEF Materials
<1>a. mat.spks \in Seq(Keys \cup {None}) /\ mat.saks \in Seq(Keys \cup {None})
  BY <1>1
<1>2. A \in Seq(S) /\ Len(A) = a /\ a \in Nat /\ \A i \in 1 .. a : A[i] = <<"SPK", mat.spks[i]>>
  BY <1>a, EntriesOk, Zenon
<1>3. B \in Seq(S) /\ Len(B) = b /\ b \in Nat /\ \A i \in 1 .. b : B[i] = <<"OPK", mat.opks[i]>>
  BY <1>1, EntriesOk, Zenon
<1>4. C \in Seq(S) /\ Len(C) = c /\ c \in Nat /\ \A i \in 1 .. c : C[i] = <<"SAK", mat.saks[i]>>
  BY <1>a, EntriesOk, Zenon
<1>5. All(mat) = (A \o B) \o C
  BY Zenon DEF All
<1> HIDE DEF A, B, C, S, a, b, c
<1> DEFINE D == A \o B
<1>6. /\ D \in Seq(S) /\ Len(D) = a + b
      /\ \A i \in 1 .. a : D[i] = A[i]
      /\ \A i \in 1 .. b : D[a + i] = B[i]
  <2>1. A \in Seq(S) /\ Len(A) = a /\ a \in Nat /\ B \in Seq(S) /\ Len(B) = b /\ b \in Nat
    BY <1>2, <1>3, Zenon
  <2>2. QED
    BY <2>1, SMTT(60)
<1>7. All(mat) = D \o C
  BY <1>5, Zenon
<1> HIDE DEF D
<1>8. /\ D \o C \in Seq(S) /\ Len(D \o C) = a + b + c
      /\ \A i \in 1 .. a + b : (D \o C)[i] = D[i]
      /\ \A i \in 1 .. c : (D \o C)[a + b + i] = C[i]
  <2> DEFINE d == a + b
  <2>1. d \in Nat /\ Len(D) = d /\ D \in Seq(S) /\ C \in Seq(S) /\ Len(C) = c /\ c \in Nat
    BY <1>2, <1>3, <1>4, <1>6
  <2> HIDE DEF d
  <2>2. /\ D \o C \in Seq(S) /\ Len(D \o C) = d + c
        /\ \A i \in 1 .. d : (D \o C)[i] = D[i]
        /\ \A i \in 1 .. c : (D \o C)[d + i] = C[i]
    BY <2>1, SMTT(60)
  <2>3. QED
    BY <2>2, ZenonT(60) DEF d
<1>9. /\ \A i \in 1 .. a : i \in 1 .. a + b
      /\ \A i \in 1 .. b : a + i \in 1 .. a + b
  BY <1>2, <1>3
<1>10. /\ \A i \in 1 .. a : All(mat)[i] = <<"SPK", mat.spks[i]>>
       /\ \A i \in 1 .. b : All(mat)[a + i] = <<"OPK", mat.opks[i]>>
       /\ \A i \in 1 .. c : All(mat)[a + b + i] = <<"SAK", mat.saks[i]>>
  <2>1. \A i \in 1 .. a : All(mat)[i] = A[i]
    BY <1>6, <1>7, <1>8, <1>9, Zenon
  <2>2. \A i \in 1 .. b : All(mat)[a + i] = B[i]
    BY <1>6, <1>7, <1>8, <1>9, Zenon
  <2>3. \A i \in 1 .. c : All(mat)[a + b + i] = C[i]
    BY <1>7, <1>8, ZenonT(60)
  <2>4. \A i \in 1 .. a : All(mat)[i] = <<"SPK", mat.spks[i]>>
    BY <1>2, <2>1, Zenon
  <2>5. \A i \in 1 .. b : All(mat)[a + i] = <<"OPK", mat.opks[i]>>
    BY <1>3, <2>2, Zenon
  <2>6. \A i \in 1 .. c : All(mat)[a + b + i] = <<"SAK", mat.saks[i]>>
    BY <1>4, <2>3, Zenon
  <2>7. QED
    BY <2>4, <2>5, <2>6, Zenon
<1>11. QED
  BY <1>2, <1>3, <1>4, <1>7, <1>8, <1>10, ZenonT(60) DEF S, a, b, c

\* A custodian between two changes: its material, and the slots for it.
Staged(m, top) ==
  /\ m \in Custodians /\ m.mat \in Materials
  /\ MatOk(m.mat, top) /\ SlotsOk(m.slots, Held(m.mat))

\* Loading a custodian's material gives every held key a handle.
LEMMA InstalledOk ==
  ASSUME NEW m \in Custodians, m.slots = [h \in Handles |-> None],
         NEW mat, NEW top, MatOk(mat, top)
  PROVE  /\ Staged(Installed(m, mat), top)
         /\ Installed(m, mat).mat = mat
         /\ Installed(m, mat).hybrid = m.hybrid
         /\ Installed(m, mat).wrap = m.wrap
         /\ Fits(Installed(m, mat)) => Complete(Installed(m, mat))
<1> DEFINE a == Len(mat.spks)
           b == Len(mat.opks)
           c == Len(mat.saks)
           n == Len(All(mat))
<1>1. /\ mat \in Materials
      /\ mat.spks \in Seq(Keys) /\ mat.saks \in Seq(Keys)
      /\ mat.opks \in Seq(Keys \cup {None})
  BY Zenon DEF MatOk, Materials
<1>2. /\ a \in Nat /\ b \in Nat /\ c \in Nat
      /\ All(mat) \in Seq({"SPK", "OPK", "SAK"} \X (Keys \cup {None}))
      /\ n = a + b + c
      /\ \A i \in 1 .. a : All(mat)[i] = <<"SPK", mat.spks[i]>>
      /\ \A i \in 1 .. b : All(mat)[a + i] = <<"OPK", mat.opks[i]>>
      /\ \A i \in 1 .. c : All(mat)[a + b + i] = <<"SAK", mat.saks[i]>>
  BY <1>1, AllEntries, ZenonT(60)
<1> HIDE DEF n, a, b, c
<1>3. \A i \in 1 .. n :
        \/ i \in 1 .. a
        \/ \E j \in 1 .. b : i = a + j
        \/ \E j \in 1 .. c : i = a + b + j
  <2>1. SUFFICES ASSUME NEW i \in 1 .. n
                 PROVE  \/ i \in 1 .. a
                        \/ \E j \in 1 .. b : i = a + j
                        \/ \E j \in 1 .. c : i = a + b + j
    BY Zenon
  <2>2. CASE i <= a
    BY <1>2, <2>2
  <2>3. CASE a < i /\ i <= a + b
    <3>1. i - a \in 1 .. b /\ i = a + (i - a)
      BY <1>2, <2>3
    <3>2. QED
      BY <3>1, Zenon
  <2>4. CASE a + b < i
    <3>1. i - a - b \in 1 .. c /\ i = a + b + (i - a - b)
      BY <1>2, <2>4
    <3>2. QED
      BY <3>1, Zenon
  <2>5. QED
    BY <1>2, <2>2, <2>3, <2>4, SMTT(60)
<1>4. /\ \A i \in 1 .. a : i \in 1 .. n
      /\ \A i \in 1 .. b : a + i \in 1 .. n
      /\ \A i \in 1 .. c : a + b + i \in 1 .. n
  BY <1>2
<1>5. /\ Range(mat.spks) = {mat.spks[i] : i \in 1 .. a}
      /\ Opks(mat) = {mat.opks[i] : i \in 1 .. b} \ {None}
      /\ Range(mat.saks) = {mat.saks[i] : i \in 1 .. c}
  BY <1>1 DEF Range, Opks, a, b, c
<1>6. /\ \A i \in 1 .. a : mat.spks[i] # None
      /\ \A i \in 1 .. c : mat.saks[i] # None
  BY <1>1, NoneAssumption DEF a, c
<1>7. Named(All(mat), n) = Held(mat)
  <2>1. ASSUME NEW e \in Named(All(mat), n) PROVE e \in Held(mat)
    <3>1. PICK i \in 1 .. n : e = All(mat)[i] /\ All(mat)[i][2] # None
      BY <2>1, Zenon DEF Named
    <3>2. CASE i \in 1 .. a
      <4>1. e = <<"SPK", mat.spks[i]>>
        BY <1>2, <3>1, <3>2, Zenon
      <4>2. mat.spks[i] \in Range(mat.spks)
        BY <1>5, <3>2, Zenon
      <4>3. QED
        BY <4>1, <4>2, Zenon DEF Held
    <3>3. CASE \E j \in 1 .. b : i = a + j
      <4>1. PICK j \in 1 .. b : e = <<"OPK", mat.opks[j]>>
        BY <1>2, <3>1, <3>3, ZenonT(60)
      <4>2. mat.opks[j] # None
        BY <3>1, <4>1
      <4>3. mat.opks[j] \in Opks(mat)
        BY <1>5, <4>2, Zenon
      <4>4. QED
        BY <4>1, <4>3, Zenon DEF Held
    <3>4. CASE \E j \in 1 .. c : i = a + b + j
      <4>1. PICK j \in 1 .. c : e = <<"SAK", mat.saks[j]>>
        BY <1>2, <3>1, <3>4, ZenonT(60)
      <4>2. QED
        BY <1>5, <4>1, ZenonT(60) DEF Held
    <3>5. QED
      BY <1>3, <3>2, <3>3, <3>4, Zenon
  <2>2. ASSUME NEW e \in Held(mat) PROVE e \in Named(All(mat), n)
    <3>1. \/ \E i \in 1 .. a : e = <<"SPK", mat.spks[i]>>
          \/ \E i \in 1 .. b : e = <<"OPK", mat.opks[i]>> /\ mat.opks[i] # None
          \/ \E i \in 1 .. c : e = <<"SAK", mat.saks[i]>>
      BY <1>5, <2>2 DEF Held
    <3>2. \E i \in 1 .. n : e = All(mat)[i] /\ All(mat)[i][2] # None
      <4>1. CASE \E i \in 1 .. a : e = <<"SPK", mat.spks[i]>>
        <5>1. PICK i \in 1 .. a : e = <<"SPK", mat.spks[i]>>
          BY <4>1, Zenon
        <5>2. i \in 1 .. n /\ All(mat)[i] = e /\ mat.spks[i] # None
          BY <1>2, <1>4, <1>6, <5>1, Zenon
        <5>3. e[2] # None
          BY <5>1, <5>2
        <5>4. QED
          BY <5>2, <5>3, Zenon
      <4>2. CASE \E i \in 1 .. b : e = <<"OPK", mat.opks[i]>> /\ mat.opks[i] # None
        <5>1. PICK i \in 1 .. b : e = <<"OPK", mat.opks[i]>> /\ mat.opks[i] # None
          BY <4>2, Zenon
        <5>2. a + i \in 1 .. n /\ All(mat)[a + i] = e
          BY <1>2, <1>4, <5>1, Zenon
        <5>3. e[2] # None
          BY <5>1, Zenon
        <5>4. QED
          BY <5>2, <5>3, Zenon
      <4>3. CASE \E i \in 1 .. c : e = <<"SAK", mat.saks[i]>>
        <5>1. PICK i \in 1 .. c : e = <<"SAK", mat.saks[i]>>
          BY <4>3, Zenon
        <5>2. a + b + i \in 1 .. n /\ All(mat)[a + b + i] = e /\ mat.saks[i] # None
          BY <1>2, <1>4, <1>6, <5>1, Zenon
        <5>3. e[2] # None
          BY <5>1, <5>2
        <5>4. QED
          BY <5>2, <5>3, Zenon
      <4>4. QED
        BY <3>1, <4>1, <4>2, <4>3, Zenon
    <3>3. QED
      BY <3>2, Zenon DEF Named
  <2>3. QED
    BY <2>1, <2>2, Zenon
<1>8. ASSUME NEW i \in 1 .. n, NEW j \in 1 .. n,
             All(mat)[i] = All(mat)[j], All(mat)[i][2] # None
      PROVE  i = j
  <2>1. /\ \A x, y \in 1 .. a : mat.spks[x] = mat.spks[y] => x = y
        /\ \A x, y \in 1 .. b : mat.opks[x] = mat.opks[y] /\ mat.opks[x] # None => x = y
        /\ \A x, y \in 1 .. c : mat.saks[x] = mat.saks[y] => x = y
    BY <1>1, SMTT(60) DEF MatOk, IsInjective, a, b, c
  <2>2. ASSUME NEW k \in 1 .. n
        PROVE  \/ k \in 1 .. a /\ All(mat)[k] = <<"SPK", mat.spks[k]>>
               \/ \E x \in 1 .. b : k = a + x /\ All(mat)[k] = <<"OPK", mat.opks[x]>>
               \/ \E x \in 1 .. c : k = a + b + x /\ All(mat)[k] = <<"SAK", mat.saks[x]>>
    <3>1. CASE k \in 1 .. a
      BY <1>2, <3>1, Zenon
    <3>2. CASE \E x \in 1 .. b : k = a + x
      BY <1>2, <3>2, Zenon
    <3>3. CASE \E x \in 1 .. c : k = a + b + x
      BY <1>2, <3>3, Zenon
    <3>4. QED
      BY <1>3, <3>1, <3>2, <3>3, Zenon
  <2>3. CASE i \in 1 .. a /\ All(mat)[i] = <<"SPK", mat.spks[i]>>
    <3>1. All(mat)[j][1] = "SPK"
      BY <1>8, <2>3
    <3>2. j \in 1 .. a /\ All(mat)[j] = <<"SPK", mat.spks[j]>>
      BY <2>2, <3>1
    <3>3. <<"SPK", mat.spks[i]>> = <<"SPK", mat.spks[j]>>
      BY <1>8, <2>3, <3>2, ZenonT(60)
    <3>4. QED
      BY <2>1, <2>3, <3>2, <3>3, Zenon
  <2>4. CASE \E x \in 1 .. b : i = a + x /\ All(mat)[i] = <<"OPK", mat.opks[x]>>
    <3>1. PICK x \in 1 .. b : i = a + x /\ All(mat)[i] = <<"OPK", mat.opks[x]>>
      BY <2>4, Zenon
    <3>2. PICK y \in 1 .. b : j = a + y /\ All(mat)[j] = <<"OPK", mat.opks[y]>>
      BY <1>8, <2>2, <3>1
    <3>3. mat.opks[x] = mat.opks[y] /\ mat.opks[x] # None
      BY <1>8, <3>1, <3>2
    <3>4. QED
      BY <2>1, <3>1, <3>2, <3>3, Zenon
  <2>5. CASE \E x \in 1 .. c : i = a + b + x /\ All(mat)[i] = <<"SAK", mat.saks[x]>>
    <3>1. PICK x \in 1 .. c : i = a + b + x /\ All(mat)[i] = <<"SAK", mat.saks[x]>>
      BY <2>5, Zenon
    <3>2. PICK y \in 1 .. c : j = a + b + y /\ All(mat)[j] = <<"SAK", mat.saks[y]>>
      BY <1>8, <2>2, <3>1
    <3>3. mat.saks[x] = mat.saks[y]
      BY <1>8, <3>1, <3>2
    <3>4. QED
      BY <2>1, <3>1, <3>2, <3>3, Zenon
  <2>6. QED
    BY <2>2, <2>3, <2>4, <2>5, Zenon
<1> DEFINE fit == Cardinality(Held(mat)) <= MaxSlots
<1>9. fit => IsFiniteSet(Held(mat)) /\ Cardinality(Held(mat)) <= MaxSlots
  BY HeldFits, Zenon
<1> HIDE DEF fit
<1>10. Handled(fit, RegisterAll([h \in Handles |-> None], All(mat)), Held(mat))
  BY <1>2, <1>7, <1>8, <1>9, RegisterAllOk, ZenonT(60) DEF n
<1>11. Installed(m, mat) = [m EXCEPT !.mat = mat, !.slots = RegisterAll(m.slots, All(mat))]
  BY Zenon DEF Installed, All
<1> DEFINE r == RegisterAll([h \in Handles |-> None], All(mat))
<1> HIDE DEF r
<1>12. r \in [Handles -> Names \cup {None}]
  BY <1>10, Zenon DEF Handled, SlotsOk, r
<1>13. Installed(m, mat) = [m EXCEPT !.mat = mat, !.slots = r]
  BY <1>11, Zenon DEF r
<1>14. /\ Installed(m, mat) \in Custodians /\ Installed(m, mat).mat = mat
       /\ Installed(m, mat).slots = r
       /\ Installed(m, mat).hybrid = m.hybrid /\ Installed(m, mat).wrap = m.wrap
  BY <1>1, <1>12, <1>13, ZenonT(60) DEF Custodians
<1>15. QED
  BY <1>1, <1>10, <1>14, Zenon DEF Handled, Staged, Fits, Complete, fit, r

\* Wiring the receive context.
LEMMA RewiredOk ==
  ASSUME NEW m, NEW top, Staged(m, top)
  PROVE  /\ Staged(Rewired(m), top) /\ CustOk(Rewired(m), top)
         /\ Rewired(m).mat = m.mat /\ Rewired(m).hybrid = m.hybrid
         /\ Rewired(m).wrap = m.wrap /\ Rewired(m).slots = m.slots
<1>1. m \in Custodians /\ m.mat \in Materials /\ m.mat # None
  BY NoneAssumption, Zenon DEF Staged
<1>2. CASE m.hybrid
  <2>1. Rewired(m) = m
    BY <1>2, Zenon DEF Rewired, NoRecv
  <2>2. QED
    BY <1>1, <1>2, <2>1, ZenonT(60) DEF Staged, CustOk, RecvOk
<1>3. CASE ~ m.hybrid
  <2> DEFINE r == [spks |-> m.mat.spks, n |-> Len(m.mat.opks)]
  <2>1. Rewired(m) = [m EXCEPT !.recv = r]
    BY <1>3, Zenon DEF Rewired, ReinitRecv
  <2>2. r \in [spks : Seq(Keys), n : Nat]
    BY <1>1 DEF Materials
  <2> HIDE DEF r
  <2>3. /\ Rewired(m) \in Custodians
        /\ Rewired(m).mat = m.mat /\ Rewired(m).hybrid = m.hybrid
        /\ Rewired(m).wrap = m.wrap /\ Rewired(m).slots = m.slots
        /\ Rewired(m).recv = r
    BY <1>1, <2>1, <2>2, Zenon DEF Custodians
  <2>4. RecvOk(Rewired(m))
    BY <2>3, Zenon DEF RecvOk, r
  <2>5. QED
    BY <1>1, <2>3, <2>4, Zenon DEF Staged, CustOk
<1>4. QED
  BY <1>2, <1>3, Zenon

\* Placing a new one-time prekey in the array.
LEMMA PlaceOpkOk ==
  ASSUME NEW opks \in Seq(Keys \cup {None}), NEW key \in Keys,
         key \notin Range(opks),
         \A i, j \in DOMAIN opks : opks[i] = opks[j] /\ opks[i] # None => i = j
  PROVE  LET new == PlaceOpk(opks, key)
         IN  /\ new \in Seq(Keys \cup {None})
             /\ Range(new) \ {None} = (Range(opks) \ {None}) \cup {key}
             /\ \A i, j \in DOMAIN new : new[i] = new[j] /\ new[i] # None => i = j
<1> DEFINE free == {i \in DOMAIN opks : opks[i] = None}
           new == PlaceOpk(opks, key)
<1>1. key # None /\ DOMAIN opks = 1 .. Len(opks) /\ Len(opks) \in Nat
  BY NoneAssumption
<1>2. CASE free = {}
  <2>1. new = Append(opks, key)
    BY <1>2, Zenon DEF PlaceOpk
  <2>2. /\ new \in Seq(Keys \cup {None}) /\ DOMAIN new = 1 .. Len(opks) + 1
        /\ new[Len(opks) + 1] = key
        /\ \A i \in 1 .. Len(opks) : new[i] = opks[i]
    BY <1>1, <2>1
  <2> HIDE DEF new
  <2>3. Range(new) = Range(opks) \cup {key}
    BY <1>1, <2>2 DEF Range
  <2>4. \A i, j \in DOMAIN new : new[i] = new[j] /\ new[i] # None => i = j
    BY <1>1, <2>2 DEF Range
  <2>5. QED
    BY <1>1, <2>2, <2>3, <2>4 DEF new
<1>3. CASE free # {}
  <2>1. Min(free) \in free
    BY <1>1, <1>3, MinOfNaturals, SMTT(60)
  <2> DEFINE f == Min(free)
  <2>2. new = [opks EXCEPT ![f] = key]
    BY <1>3, Zenon DEF PlaceOpk
  <2>3. f \in 1 .. Len(opks) /\ opks[f] = None
    BY <1>1, <2>1, Zenon
  <2> HIDE DEF f, free, new
  <2>4. /\ new \in Seq(Keys \cup {None}) /\ DOMAIN new = 1 .. Len(opks)
        /\ new[f] = key
        /\ \A i \in 1 .. Len(opks) : i # f => new[i] = opks[i]
    BY <1>1, <2>2, <2>3
  <2>5. Range(new) \ {None} = (Range(opks) \ {None}) \cup {key}
    BY <1>1, <2>3, <2>4 DEF Range
  <2>6. \A i, j \in DOMAIN new : new[i] = new[j] /\ new[i] # None => i = j
    BY <1>1, <2>3, <2>4, Zenon DEF Range
  <2>7. QED
    BY <2>4, <2>5, <2>6, Zenon DEF new
<1>4. QED
  BY <1>2, <1>3, Zenon

\* How a custodian differs after n new one-time prekeys.
Grown(m, t, top, n) ==
  /\ t.hybrid = m.hybrid /\ t.wrap = m.wrap
  /\ t.mat.spks = m.mat.spks /\ t.mat.saks = m.mat.saks /\ t.mat.out = m.mat.out
  /\ Opks(t.mat) = Opks(m.mat) \cup top + 1 .. top + n
  /\ Cardinality(Opks(t.mat)) = Cardinality(Opks(m.mat)) + n

\* One round of the loop of cust_replenish_opks.
LEMMA StageOpkOk ==
  ASSUME NEW m, NEW top \in Nat, Staged(m, top), top + 1 \in Keys,
         Cardinality(Opks(m.mat)) < OpkMax
  PROVE  /\ Staged(StageOpk(m, top + 1), top + 1)
         /\ Grown(m, StageOpk(m, top + 1), top, 1)
         /\ Keeps(m, StageOpk(m, top + 1))
         /\ Fits(StageOpk(m, top + 1)) => Fits(m)
<1> DEFINE key == top + 1
           p == PlaceOpk(m.mat.opks, key)
           r == SlotRegister(m.slots, <<"OPK", key>>)
           t == StageOpk(m, key)
<1>1. /\ m \in Custodians /\ m.mat \in Materials
      /\ MatOk(m.mat, top) /\ SlotsOk(m.slots, Held(m.mat))
  BY Zenon DEF Staged
<1>2. /\ m.mat.opks \in Seq(Keys \cup {None})
      /\ \A i, j \in DOMAIN m.mat.opks :
           m.mat.opks[i] = m.mat.opks[j] /\ m.mat.opks[i] # None => i = j
      /\ Range(m.mat.spks) \cup Opks(m.mat) \cup Range(m.mat.saks) \subseteq 1 .. top
  BY <1>1, Zenon DEF MatOk, Materials
<1>3. key \notin Range(m.mat.opks) /\ key \notin Opks(m.mat) /\ key # None
  <2>1. key # None /\ key \notin 1 .. top
    BY NoneAssumption, SMTT(60)
  <2>2. QED
    BY <1>2, <2>1, Zenon DEF Opks
<1>4. /\ p \in Seq(Keys \cup {None})
      /\ Range(p) \ {None} = Opks(m.mat) \cup {key}
      /\ \A i, j \in DOMAIN p : p[i] = p[j] /\ p[i] # None => i = j
  BY <1>2, <1>3, PlaceOpkOk, Zenon DEF Opks
<1>5. t = [m EXCEPT !.mat.opks = p, !.slots = r]
  BY Zenon DEF StageOpk
<1> HIDE DEF p, key, t
<1>6. /\ IsFiniteSet(Opks(m.mat))
      /\ Cardinality(Opks(m.mat) \cup {key}) = Cardinality(Opks(m.mat)) + 1
      /\ Cardinality(Opks(m.mat)) \in Nat
  <2>1. IsFiniteSet(Range(m.mat.opks))
    BY <1>2, RangeFinite, Zenon
  <2>2. IsFiniteSet(Opks(m.mat))
    BY <2>1, FS_Difference, ZenonT(60) DEF Opks
  <2>3. QED
    BY <1>3, <2>2, FS_AddElement, FS_CardinalityType, Zenon
<1> DEFINE mat == [m.mat EXCEPT !.opks = p]
<1>7. /\ mat \in Materials /\ mat.spks = m.mat.spks /\ mat.saks = m.mat.saks
      /\ mat.out = m.mat.out /\ mat.opks = p
  BY <1>1, <1>4, ZenonT(60) DEF Materials
<1>8. Opks(mat) = Opks(m.mat) \cup {key}
  BY <1>4, <1>7, Zenon DEF Opks
<1> HIDE DEF mat
<1>9. MatOk(mat, top + 1)
  <2>1. Cardinality(Opks(mat)) <= OpkMax
    BY <1>6, <1>8, CustodianAssumption
  <2>2. Range(mat.spks) \cup Opks(mat) \cup Range(mat.saks) \subseteq 1 .. top + 1
    BY <1>2, <1>7, <1>8 DEF key
  <2>3. \A i, j \in DOMAIN mat.opks : mat.opks[i] = mat.opks[j] /\ mat.opks[i] # None => i = j
    BY <1>4, <1>7, Zenon
  <2>4. QED
    BY <1>1, <1>7, <2>1, <2>2, <2>3, Zenon DEF MatOk
<1>10. Held(mat) = Held(m.mat) \cup {<<"OPK", key>>}
  BY <1>7, <1>8 DEF Held
<1> DEFINE fit == Complete(m) /\ Cardinality(Held(mat)) <= MaxSlots
<1>a. /\ <<"OPK", key>> \in Names /\ <<"OPK", key>> \notin Held(m.mat)
      /\ IsFiniteSet(Held(m.mat))
      /\ Cardinality(Held(mat)) = Cardinality(Held(m.mat)) + 1
      /\ Cardinality(Held(m.mat)) \in Nat
  <2>1. <<"OPK", key>> \in Names
    BY Zenon DEF Names, key
  <2>2. <<"OPK", key>> \notin Held(m.mat)
    BY <1>3 DEF Held
  <2>3. IsFiniteSet(Held(m.mat))
    BY <1>1, HeldFits, Zenon
  <2>4. Cardinality(Held(mat)) = Cardinality(Held(m.mat)) + 1
    BY <1>10, <2>2, <2>3, FS_AddElement, Zenon
  <2>5. QED
    BY <2>1, <2>2, <2>3, <2>4, FS_CardinalityType, Zenon
<1>b. /\ Cardinality(Held(mat)) <= MaxSlots => Cardinality(Held(m.mat)) <= MaxSlots
      /\ Cardinality(Held(mat)) <= MaxSlots => Cardinality(Held(m.mat)) < MaxSlots
  BY <1>a, CustodianAssumption
<1>11. Handled(fit, r, Held(mat))
  <2>1. fit => IsFiniteSet(Held(m.mat)) /\ Cardinality(Held(m.mat)) < MaxSlots
    BY <1>a, <1>b, Zenon
  <2>2. Handled(fit, m.slots, Held(m.mat))
    BY <1>1, Zenon DEF Handled, Complete
  <2> HIDE DEF fit
  <2>3. Handled(fit, r, Held(m.mat) \cup {<<"OPK", key>>})
    BY <1>a, <2>1, <2>2, SlotRegisterOk, Zenon
  <2>4. QED
    BY <1>10, <2>3, Zenon
<1>12. r \in [Handles -> Names \cup {None}]
  BY <1>11, Zenon DEF Handled, SlotsOk
<1> HIDE DEF r
<1>13. /\ t \in Custodians /\ t.mat = mat /\ t.slots = r
       /\ t.hybrid = m.hybrid /\ t.wrap = m.wrap
  <2>1. t = [m EXCEPT !.mat = mat, !.slots = r]
    BY <1>1, <1>5, Zenon DEF Custodians, mat
  <2>2. QED
    BY <1>1, <1>7, <1>12, <2>1, ZenonT(60) DEF Custodians
<1>14. Staged(t, top + 1)
  BY <1>7, <1>9, <1>11, <1>13, Zenon DEF Handled, Staged
<1>15. Grown(m, t, top, 1)
  <2>1. top + 1 .. top + 1 = {top + 1}
    OBVIOUS
  <2>2. QED
    BY <1>6, <1>7, <1>8, <1>13, <2>1, Zenon DEF Grown, key
<1>16. Keeps(m, t) /\ (Fits(t) => Fits(m))
  BY <1>b, <1>11, <1>13, Zenon DEF Handled, Keeps, Fits, Complete
<1>17. QED
  BY <1>14, <1>15, <1>16, Zenon DEF t, key

\* The rounds of Replenished.
IsStaging(f, m, n) ==
  f = [i \in 0 .. n |-> IF i = 0 THEN m ELSE StageOpk(f[i - 1], made + i)]

(* The loop that stages the one-time prekeys is a function on its count.   *)
LEMMA StagingExists ==
  ASSUME NEW m, NEW n \in Nat
  PROVE  \E f : IsStaging(f, m, n)
<1> DEFINE S == {k \in Nat : \E f : IsStaging(f, m, k)}
<1>1. 0 \in S
  <2> DEFINE f == [i \in 0 .. 0 |-> m]
  <2>1. f = [i \in 0 .. 0 |-> IF i = 0 THEN m ELSE StageOpk(f[i - 1], made + i)]
    OBVIOUS
  <2>2. IsStaging(f, m, 0)
    BY <2>1, Zenon DEF IsStaging
  <2>3. QED
    BY <2>2, Zenon
<1>2. ASSUME NEW k \in Nat, k \in S PROVE k + 1 \in S
  <2>1. PICK f : IsStaging(f, m, k)
    BY <1>2, Zenon
  <2> DEFINE g == [i \in 0 .. k + 1 |-> IF i = k + 1 THEN StageOpk(f[k], made + (k + 1)) ELSE f[i]]
  <2>2. \A i \in 0 .. k : g[i] = f[i]
    OBVIOUS
  <2>3. \A i \in 0 .. k + 1 : g[i] = IF i = 0 THEN m ELSE StageOpk(g[i - 1], made + i)
    BY <2>1, <2>2 DEF IsStaging
  <2>4. IsStaging(g, m, k + 1)
    BY <2>3, Zenon DEF IsStaging
  <2>5. QED
    BY <2>4
<1> HIDE DEF S
<1>3. n \in S
  BY <1>1, <1>2, NatSetInduction, Zenon
<1>4. QED
  BY <1>3, Zenon DEF S

\* cust_replenish_opks adds the keys it was asked for, and nothing else.
LEMMA ReplenishedOk ==
  ASSUME NEW m, made \in Nat, Staged(m, made), NEW n \in Nat,
         made + n <= MaxKeys, n <= Room(m)
  PROVE  /\ Staged(Replenished(m, n), made + n) /\ Grown(m, Replenished(m, n), made, n)
         /\ Keeps(m, Replenished(m, n))
<1> DEFINE staged == CHOOSE f : IsStaging(f, m, n)
           c == Cardinality(Opks(m.mat))
<1>1. Replenished(m, n) = staged[n]
  BY Zenon DEF Replenished, IsStaging
<1>2. IsStaging(staged, m, n)
  <2>1. \E f : IsStaging(f, m, n)
    BY StagingExists, Zenon
  <2>2. QED
    BY <2>1, Zenon
<1>3. c \in Nat /\ n + c <= OpkMax
  <2>1. IsFiniteSet(Range(m.mat.opks))
    BY RangeFinite, Zenon DEF Staged, Materials
  <2>2. IsFiniteSet(Opks(m.mat))
    BY <2>1, FS_Difference, ZenonT(60) DEF Opks
  <2>3. c \in Nat
    BY <2>2, FS_CardinalityType, Zenon
  <2>4. QED
    BY <2>3, CustodianAssumption DEF Room
<1> HIDE DEF staged, c
<1> DEFINE T == {j \in Nat : j <= n => /\ Staged(staged[j], made + j)
                                       /\ Grown(m, staged[j], made, j)
                                       /\ Keeps(m, staged[j])}
<1>4. 0 \in T
  <2>1. staged[0] = m
    BY <1>2 DEF IsStaging
  <2>2. made + 0 = made /\ made + 1 .. made + 0 = {}
    OBVIOUS
  <2>3. Cardinality(Opks(m.mat)) + 0 = Cardinality(Opks(m.mat))
    BY <1>3 DEF c
  <2>4. Grown(m, m, made, 0)
    BY <2>2, <2>3, Zenon DEF Grown
  <2>5. Keeps(m, m)
    BY Zenon DEF Keeps
  <2>6. QED
    BY <2>1, <2>2, <2>4, <2>5, Zenon
<1>5. ASSUME NEW j \in Nat, j \in T PROVE j + 1 \in T
  <2>1. SUFFICES ASSUME j + 1 <= n
                 PROVE  /\ Staged(staged[j + 1], made + (j + 1))
                        /\ Grown(m, staged[j + 1], made, j + 1)
                        /\ Keeps(m, staged[j + 1])
    OBVIOUS
  <2>2. Staged(staged[j], made + j) /\ Grown(m, staged[j], made, j) /\ Keeps(m, staged[j])
    BY <1>5, <2>1
  <2>3. staged[j + 1] = StageOpk(staged[j], (made + j) + 1)
    <3>1. staged[j + 1] = StageOpk(staged[(j + 1) - 1], made + (j + 1))
      BY <1>2, <2>1 DEF IsStaging
    <3>2. (j + 1) - 1 = j /\ made + (j + 1) = (made + j) + 1
      OBVIOUS
    <3>3. QED
      BY <3>1, <3>2, Zenon
  <2>4. made + j \in Nat /\ (made + j) + 1 \in Keys
    BY <2>1, CustodianAssumption DEF Keys
  <2>5. Cardinality(Opks(staged[j].mat)) = c + j
    BY <2>2, Zenon DEF Grown, c
  <2>6. Cardinality(Opks(staged[j].mat)) < OpkMax
    BY <1>3, <2>1, <2>5, CustodianAssumption
  <2>7. /\ Staged(StageOpk(staged[j], (made + j) + 1), (made + j) + 1)
        /\ Grown(staged[j], StageOpk(staged[j], (made + j) + 1), made + j, 1)
        /\ Keeps(staged[j], StageOpk(staged[j], (made + j) + 1))
        /\ Fits(StageOpk(staged[j], (made + j) + 1)) => Fits(staged[j])
    BY <2>2, <2>4, <2>6, StageOpkOk, Zenon
  <2>8. /\ (made + j) + 1 = made + (j + 1)
        /\ made + 1 .. made + (j + 1) = (made + 1 .. made + j) \cup ((made + j) + 1 .. (made + j) + 1)
        /\ (c + j) + 1 = c + (j + 1)
    BY <1>3, SMTT(60)
  <2>9. Grown(m, staged[j + 1], made, j + 1)
    BY <2>2, <2>3, <2>5, <2>7, <2>8, Zenon DEF Grown, c
  <2>10. Keeps(m, staged[j + 1])
    BY <2>2, <2>3, <2>7, Zenon DEF Keeps
  <2>11. QED
    BY <2>3, <2>7, <2>8, <2>9, <2>10, Zenon
<1> HIDE DEF T
<1>6. n \in T
  BY <1>4, <1>5, NatSetInduction, Zenon
<1>7. QED
  BY <1>1, <1>6 DEF T
------------------------------------------------------------------------------
\* A new first key in a history of a bounded length.
LEMMA PushedOk ==
  ASSUME NEW hist \in Seq(Keys), NEW key \in Keys, NEW max \in Nat \ {0},
         Len(hist) <= max, IsInjective(hist), key \notin Range(hist)
  PROVE  /\ Pushed(hist, key, max) \in Seq(Keys)
         /\ Pushed(hist, key, max) # << >>
         /\ Len(Pushed(hist, key, max)) <= max
         /\ IsInjective(Pushed(hist, key, max))
         /\ Range(Pushed(hist, key, max)) =
              (IF Len(hist) < max THEN Range(hist) ELSE Range(hist) \ {Evicted(hist)})
                \cup {key}
<1> DEFINE all == <<key>> \o hist
           n == Len(hist)
           p == Pushed(hist, key, max)
<1>1. n \in Nat /\ DOMAIN hist = 1 .. n
  BY SMTT(60)
<1>2. /\ all \in Seq(Keys) /\ Len(all) = n + 1 /\ all[1] = key
      /\ \A i \in 1 .. n : all[i + 1] = hist[i]
  OBVIOUS
<1> DEFINE l == Min({max, Len(all)})
<1>3. l = IF n < max THEN n + 1 ELSE max
  <2>1. l \in {max, Len(all)} /\ \A y \in {max, Len(all)} : l <= y
    <3>1. {max, Len(all)} \in SUBSET Nat /\ {max, Len(all)} # {}
      BY <1>1, <1>2
    <3>2. QED
      BY <3>1, MinOfNaturals, Zenon
  <2>2. QED
    BY <1>1, <1>2, <2>1
<1>4. p = SubSeq(all, 1, l)
  BY Zenon DEF Pushed
<1> HIDE DEF all, l, n
<1>5. l \in Nat /\ 1 <= l /\ l <= max /\ l <= n + 1
  BY <1>1, <1>3
<1>6. /\ p \in Seq(Keys) /\ Len(p) = l /\ \A i \in 1 .. l : p[i] = all[i]
  BY <1>2, <1>4, <1>5
<1> HIDE DEF p
<1>7. /\ p[1] = key
      /\ \A i \in 1 .. l - 1 : p[i + 1] = hist[i]
      /\ DOMAIN p = 1 .. l
  BY <1>1, <1>2, <1>5, <1>6
<1>8. \A i \in 2 .. l : i - 1 \in 1 .. l - 1 /\ p[i] = hist[i - 1] /\ i - 1 \in 1 .. n
  <2>1. SUFFICES ASSUME NEW i \in 2 .. l
                 PROVE  i - 1 \in 1 .. l - 1 /\ p[i] = hist[i - 1] /\ i - 1 \in 1 .. n
    BY Zenon
  <2>2. i - 1 \in 1 .. l - 1 /\ i = (i - 1) + 1 /\ i - 1 \in 1 .. n
    BY <1>1, <1>5
  <2>3. QED
    BY <1>7, <2>2, Zenon
<1>9. \A i \in 1 .. n : hist[i] # key
  BY <1>1, Zenon DEF Range, n
<1>10. IsInjective(p)
  <2>1. \A i \in 1 .. l : i = 1 \/ i \in 2 .. l
    BY <1>5
  <2>2. \A i \in 2 .. l : p[i] # p[1]
    BY <1>7, <1>8, <1>9
  <2>3. \A i, j \in 2 .. l : p[i] = p[j] => i - 1 = j - 1
    BY <1>1, <1>8, ZenonT(60) DEF IsInjective
  <2>4. \A i, j \in 2 .. l : p[i] = p[j] => i = j
    BY <1>5, <2>3
  <2>5. QED
    BY <1>7, <2>1, <2>2, <2>4, Zenon DEF IsInjective
<1>11. Range(p) = {hist[i] : i \in 1 .. l - 1} \cup {key}
  <2>1. ASSUME NEW k \in Range(p) PROVE k \in {hist[i] : i \in 1 .. l - 1} \cup {key}
    <3>1. PICK i \in 1 .. l : k = p[i]
      BY <1>7, <2>1, Zenon DEF Range
    <3>2. i = 1 \/ i \in 2 .. l
      BY <1>5
    <3>3. QED
      BY <1>7, <1>8, <3>1, <3>2, ZenonT(60)
  <2>2. ASSUME NEW i \in 1 .. l - 1 PROVE hist[i] \in Range(p)
    <3>1. i + 1 \in 1 .. l
      BY <1>5
    <3>2. QED
      BY <1>7, <3>1, Zenon DEF Range
  <2>3. key \in Range(p)
    BY <1>5, <1>7 DEF Range
  <2>4. QED
    BY <2>1, <2>2, <2>3, Zenon
<1>12. CASE n < max
  <2>1. l - 1 = n
    BY <1>1, <1>3, <1>12
  <2>2. Range(p) = Range(hist) \cup {key}
    BY <1>1, <1>11, <2>1, ZenonT(60) DEF Range
  <2>3. QED
    BY <1>5, <1>6, <1>7, <1>10, <1>12, <2>2 DEF p, n
<1>13. CASE ~ (n < max)
  <2>1. n = max /\ l - 1 = n - 1 /\ n \in 1 .. n
    BY <1>1, <1>3, <1>13
  <2>2. {hist[i] : i \in 1 .. n - 1} = Range(hist) \ {hist[n]}
    <3>1. \A i \in 1 .. n - 1 : i \in 1 .. n /\ hist[i] # hist[n]
      BY <1>1, <2>1 DEF IsInjective
    <3>2. \A i \in 1 .. n : i = n \/ i \in 1 .. n - 1
      BY <1>1
    <3>3. QED
      BY <1>1, <3>1, <3>2, Zenon DEF Range
  <2>3. Range(p) = (Range(hist) \ {Evicted(hist)}) \cup {key}
    BY <1>11, <2>1, <2>2, Zenon DEF Evicted, n
  <2>4. QED
    BY <1>5, <1>6, <1>7, <1>10, <1>13, <2>3, SMTT(60) DEF p, n
<1>14. QED
  BY <1>12, <1>13, Zenon

\* The slots after a rotation.
LEMMA RotatedOk ==
  ASSUME NEW fit, NEW slots, NEW H, Handled(fit, slots, H), NEW type, NEW hist, NEW max, NEW key,
         <<type, key>> \in Names, <<type, key>> \notin H,
         NEW new, new = (IF Len(hist) < max THEN H ELSE H \ {<<type, Evicted(hist)>>})
                          \cup {<<type, key>>},
         fit => IsFiniteSet(new) /\ Cardinality(new) <= MaxSlots
  PROVE  Handled(fit, Rotated(slots, type, hist, max, key), new)
<1> DEFINE D == IF Len(hist) < max THEN H ELSE H \ {<<type, Evicted(hist)>>}
           freed == IF Len(hist) < max THEN slots
                    ELSE SlotFree(slots, <<type, Evicted(hist)>>)
<1>1. Handled(fit, freed, D)
  BY SlotFreeOk, Zenon
<1>2. Rotated(slots, type, hist, max, key) = SlotRegister(freed, <<type, key>>)
  BY Zenon DEF Rotated
<1>3. new = D \cup {<<type, key>>} /\ <<type, key>> \notin D
  BY Zenon
<1> HIDE DEF D, freed
<1>4. fit => IsFiniteSet(D) /\ Cardinality(D) < MaxSlots
  <2>1. SUFFICES ASSUME fit PROVE IsFiniteSet(D) /\ Cardinality(D) < MaxSlots
    BY Zenon
  <2>2. IsFiniteSet(new) /\ Cardinality(new) <= MaxSlots
    BY <2>1, Zenon
  <2>3. D \in SUBSET new
    BY <1>3, Zenon
  <2>4. IsFiniteSet(D)
    BY <2>2, <2>3, FS_Subset, Zenon
  <2>5. Cardinality(new) = Cardinality(D) + 1
    BY <1>3, <2>4, FS_AddElement, ZenonT(60)
  <2>6. Cardinality(D) \in Nat /\ MaxSlots \in Nat
    BY <2>4, FS_CardinalityType, CustodianAssumption, Zenon
  <2>7. QED
    BY <2>2, <2>4, <2>5, <2>6
<1>5. Handled(fit, SlotRegister(freed, <<type, key>>), D \cup {<<type, key>>})
  BY <1>1, <1>3, <1>4, SlotRegisterOk, Zenon
<1>6. QED
  BY <1>2, <1>3, <1>5, ZenonT(60)

\* What a rotation, a consumption or a reservation leaves alone.
SameOpks(m, t) ==
  /\ t.hybrid = m.hybrid /\ t.wrap = m.wrap /\ t.recv = m.recv
  /\ t.mat.opks = m.mat.opks /\ t.mat.out = m.mat.out

\* The custodian with a new active signed prekey.
WithSpk(m, key) == [m EXCEPT !.mat.spks = Pushed(m.mat.spks, key, SpkMax)]
SpkRotated(m, key) ==
  [WithSpk(m, key) EXCEPT !.slots = Rotated(@, "SPK", m.mat.spks, SpkMax, key)]

(* Rotating the signed prekey keeps handles and material in agreement.     *)
LEMMA SpkRotatedOk ==
  ASSUME NEW m, NEW top \in Nat, Staged(m, top), top + 1 \in Keys
  PROVE  LET t == SpkRotated(m, top + 1)
         IN  /\ Staged(t, top + 1) /\ SameOpks(m, t)
             /\ Blob(WithSpk(m, top + 1)) = Blob(t) /\ Keeps(m, t)
<1> DEFINE key == top + 1
           p == Pushed(m.mat.spks, key, SpkMax)
           r == Rotated(m.slots, "SPK", m.mat.spks, SpkMax, key)
           t == SpkRotated(m, key)
<1>1. /\ m \in Custodians /\ m.mat \in Materials
      /\ MatOk(m.mat, top) /\ SlotsOk(m.slots, Held(m.mat))
  BY Zenon DEF Staged
<1>2. /\ m.mat.spks \in Seq(Keys) /\ Len(m.mat.spks) <= SpkMax /\ IsInjective(m.mat.spks)
      /\ Range(m.mat.spks) \cup Opks(m.mat) \cup Range(m.mat.saks) \subseteq 1 .. top
  BY <1>1, Zenon DEF MatOk, Materials
<1>3. key \notin Range(m.mat.spks)
  <2>1. key \notin 1 .. top
    BY SMTT(60)
  <2>2. QED
    BY <1>2, <2>1, Zenon
<1> DEFINE left == IF Len(m.mat.spks) < SpkMax THEN Range(m.mat.spks)
                   ELSE Range(m.mat.spks) \ {Evicted(m.mat.spks)}
<1>4. /\ p \in Seq(Keys) /\ p # << >> /\ Len(p) <= SpkMax /\ IsInjective(p)
      /\ Range(p) = left \cup {key}
  BY <1>2, <1>3, PushedOk, CustodianAssumption, Zenon
<1>5. t = [m EXCEPT !.mat = [m.mat EXCEPT !.spks = p], !.slots = r]
  BY <1>1, Zenon DEF SpkRotated, WithSpk, Custodians
<1>6. WithSpk(m, key) = [m EXCEPT !.mat = [m.mat EXCEPT !.spks = p]]
  BY <1>1, Zenon DEF WithSpk, Custodians
<1> DEFINE mat == [m.mat EXCEPT !.spks = p]
<1> HIDE DEF p, t, r, key
<1>7. /\ mat \in Materials /\ mat.spks = p /\ mat.saks = m.mat.saks
      /\ mat.out = m.mat.out /\ mat.opks = m.mat.opks
  BY <1>1, <1>4, ZenonT(60) DEF Materials
<1> HIDE DEF mat
<1>8. Opks(mat) = Opks(m.mat)
  BY <1>7, Zenon DEF Opks
<1>9. MatOk(mat, top + 1)
  <2>1. Range(mat.spks) \cup Opks(mat) \cup Range(mat.saks) \subseteq 1 .. top + 1
    BY <1>2, <1>4, <1>7, <1>8, SMTT(60) DEF key
  <2>2. QED
    BY <1>1, <1>4, <1>7, <1>8, <2>1, Zenon DEF MatOk
<1> DEFINE e == <<"SPK", key>>
           kept == IF Len(m.mat.spks) < SpkMax THEN Held(m.mat)
                   ELSE Held(m.mat) \ {<<"SPK", Evicted(m.mat.spks)>>}
<1>10. Held(mat) = kept \cup {e}
  BY <1>4, <1>7, <1>8, SMTT(60) DEF Held
<1>11. e \in Names /\ e \notin Held(m.mat)
  BY <1>3, SMTT(60) DEF Names, Held, key
<1> DEFINE fit == Complete(m) /\ Cardinality(Held(mat)) <= MaxSlots
<1>12. Handled(fit, r, Held(mat))
  <2>1. fit => IsFiniteSet(Held(mat)) /\ Cardinality(Held(mat)) <= MaxSlots
    BY <1>9, HeldFits, Zenon
  <2>2. Handled(fit, m.slots, Held(m.mat))
    BY <1>1, Zenon DEF Handled, Complete
  <2> HIDE DEF fit
  <2>3. QED
    BY <1>10, <1>11, <2>1, <2>2, RotatedOk, Zenon DEF r
<1>13. r \in [Handles -> Names \cup {None}]
  BY <1>12, Zenon DEF Handled, SlotsOk
<1>14. /\ t \in Custodians /\ t.mat = mat /\ t.slots = r
       /\ t.hybrid = m.hybrid /\ t.wrap = m.wrap /\ t.recv = m.recv
  <2>1. t = [m EXCEPT !.mat = mat, !.slots = r]
    BY <1>5, Zenon DEF mat
  <2>2. QED
    BY <1>1, <1>7, <1>13, <2>1, ZenonT(60) DEF Custodians
<1>15. Blob(WithSpk(m, key)) = Blob(t)
  <2>1. WithSpk(m, key) = [m EXCEPT !.mat = mat]
    BY <1>6, Zenon DEF mat
  <2>2. QED
    BY <1>1, <1>14, <2>1, Zenon DEF Custodians, Blob
<1>16. Staged(t, top + 1) /\ SameOpks(m, t)
  BY <1>7, <1>9, <1>12, <1>14, Zenon DEF Handled, Staged, SameOpks
<1>17. Keeps(m, t)
  BY <1>12, <1>14, Zenon DEF Handled, Keeps, Fits, Complete
<1>18. QED
  BY <1>15, <1>16, <1>17, Zenon DEF t, key

\* The custodian with a new active application key.
WithSak(m, key) == [m EXCEPT !.mat.saks = Pushed(m.mat.saks, key, SakMax)]
SakRotated(m, key) ==
  [WithSak(m, key) EXCEPT !.slots = Rotated(@, "SAK", m.mat.saks, SakMax, key)]

(* So does rotating the signing key.                                       *)
LEMMA SakRotatedOk ==
  ASSUME NEW m, NEW top \in Nat, Staged(m, top), top + 1 \in Keys
  PROVE  LET t == SakRotated(m, top + 1)
         IN  /\ Staged(t, top + 1) /\ SameOpks(m, t) /\ t.mat.spks = m.mat.spks
             /\ Blob(WithSak(m, top + 1)) = Blob(t) /\ Keeps(m, t)
<1> DEFINE key == top + 1
           p == Pushed(m.mat.saks, key, SakMax)
           r == Rotated(m.slots, "SAK", m.mat.saks, SakMax, key)
           t == SakRotated(m, key)
<1>1. /\ m \in Custodians /\ m.mat \in Materials
      /\ MatOk(m.mat, top) /\ SlotsOk(m.slots, Held(m.mat))
  BY Zenon DEF Staged
<1>2. /\ m.mat.saks \in Seq(Keys) /\ Len(m.mat.saks) <= SakMax /\ IsInjective(m.mat.saks)
      /\ Range(m.mat.spks) \cup Opks(m.mat) \cup Range(m.mat.saks) \subseteq 1 .. top
  BY <1>1, Zenon DEF MatOk, Materials
<1>3. key \notin Range(m.mat.saks)
  <2>1. key \notin 1 .. top
    OBVIOUS
  <2>2. QED
    BY <1>2, <2>1, Zenon
<1> DEFINE left == IF Len(m.mat.saks) < SakMax THEN Range(m.mat.saks)
                   ELSE Range(m.mat.saks) \ {Evicted(m.mat.saks)}
<1>4. /\ p \in Seq(Keys) /\ p # << >> /\ Len(p) <= SakMax /\ IsInjective(p)
      /\ Range(p) = left \cup {key}
  BY <1>2, <1>3, PushedOk, CustodianAssumption, Zenon
<1>5. t = [m EXCEPT !.mat = [m.mat EXCEPT !.saks = p], !.slots = r]
  BY <1>1, Zenon DEF SakRotated, WithSak, Custodians
<1>6. WithSak(m, key) = [m EXCEPT !.mat = [m.mat EXCEPT !.saks = p]]
  BY <1>1, Zenon DEF WithSak, Custodians
<1> DEFINE mat == [m.mat EXCEPT !.saks = p]
<1> HIDE DEF p, t, r, key
<1>7. /\ mat \in Materials /\ mat.saks = p /\ mat.spks = m.mat.spks
      /\ mat.out = m.mat.out /\ mat.opks = m.mat.opks
  BY <1>1, <1>4, ZenonT(60) DEF Materials
<1> HIDE DEF mat
<1>8. Opks(mat) = Opks(m.mat)
  BY <1>7, Zenon DEF Opks
<1>9. MatOk(mat, top + 1)
  <2>1. Range(mat.spks) \cup Opks(mat) \cup Range(mat.saks) \subseteq 1 .. top + 1
    BY <1>2, <1>4, <1>7, <1>8, SMTT(60) DEF key
  <2>2. QED
    BY <1>1, <1>4, <1>7, <1>8, <2>1, Zenon DEF MatOk
<1> DEFINE e == <<"SAK", key>>
           kept == IF Len(m.mat.saks) < SakMax THEN Held(m.mat)
                   ELSE Held(m.mat) \ {<<"SAK", Evicted(m.mat.saks)>>}
<1>10. Held(mat) = kept \cup {e}
  BY <1>4, <1>7, <1>8, SMTT(60) DEF Held
<1>11. e \in Names /\ e \notin Held(m.mat)
  BY <1>3, SMTT(60) DEF Names, Held, key
<1> DEFINE fit == Complete(m) /\ Cardinality(Held(mat)) <= MaxSlots
<1>12. Handled(fit, r, Held(mat))
  <2>1. fit => IsFiniteSet(Held(mat)) /\ Cardinality(Held(mat)) <= MaxSlots
    BY <1>9, HeldFits, Zenon
  <2>2. Handled(fit, m.slots, Held(m.mat))
    BY <1>1, Zenon DEF Handled, Complete
  <2> HIDE DEF fit
  <2>3. QED
    BY <1>10, <1>11, <2>1, <2>2, RotatedOk, Zenon DEF r
<1>13. r \in [Handles -> Names \cup {None}]
  BY <1>12, Zenon DEF Handled, SlotsOk
<1>14. /\ t \in Custodians /\ t.mat = mat /\ t.slots = r
       /\ t.hybrid = m.hybrid /\ t.wrap = m.wrap /\ t.recv = m.recv
  <2>1. t = [m EXCEPT !.mat = mat, !.slots = r]
    BY <1>5, Zenon DEF mat
  <2>2. QED
    BY <1>1, <1>7, <1>13, <2>1, ZenonT(60) DEF Custodians
<1>15. Blob(WithSak(m, key)) = Blob(t)
  <2>1. WithSak(m, key) = [m EXCEPT !.mat = mat]
    BY <1>6, Zenon DEF mat
  <2>2. QED
    BY <1>1, <1>14, <2>1, Zenon DEF Custodians, Blob
<1>16. Staged(t, top + 1) /\ SameOpks(m, t) /\ t.mat.spks = m.mat.spks
  BY <1>7, <1>9, <1>12, <1>14, Zenon DEF Handled, Staged, SameOpks
<1>17. Keeps(m, t)
  BY <1>12, <1>14, Zenon DEF Handled, Keeps, Fits, Complete
<1>18. QED
  BY <1>15, <1>16, <1>17, Zenon DEF t, key
------------------------------------------------------------------------------
\* The custodian without one of its one-time prekeys.
LEMMA DroppedOk ==
  ASSUME NEW m, NEW top, Staged(m, top), NEW key \in Opks(m.mat)
  PROVE  LET t == Dropped(m, key)
         IN  /\ Staged(t, top)
             /\ t.hybrid = m.hybrid /\ t.wrap = m.wrap /\ t.recv = m.recv
             /\ t.mat.spks = m.mat.spks /\ t.mat.saks = m.mat.saks
             /\ Len(t.mat.opks) = Len(m.mat.opks)
             /\ Opks(t.mat) = Opks(m.mat) \ {key} /\ t.mat.out = m.mat.out \ {key}
             /\ Keeps(m, t)
<1> DEFINE opks == m.mat.opks
           p == [i \in DOMAIN opks |-> IF opks[i] = key THEN None ELSE opks[i]]
           r == SlotFree(m.slots, <<"OPK", key>>)
           o == m.mat.out \ {key}
           t == Dropped(m, key)
<1>1. /\ m \in Custodians /\ m.mat \in Materials
      /\ MatOk(m.mat, top) /\ SlotsOk(m.slots, Held(m.mat))
  BY Zenon DEF Staged
<1>2. /\ opks \in Seq(Keys \cup {None})
      /\ \A i, j \in DOMAIN opks : opks[i] = opks[j] /\ opks[i] # None => i = j
      /\ Range(m.mat.spks) \cup Opks(m.mat) \cup Range(m.mat.saks) \subseteq 1 .. top
  BY <1>1, Zenon DEF MatOk, Materials
<1>3. Opks(m.mat) = Range(opks) \ {None}
  BY Zenon DEF Opks
<1>4. t = [m EXCEPT !.mat = [m.mat EXCEPT !.opks = p, !.out = o], !.slots = r]
  BY <1>1, ZenonT(60) DEF Dropped, Custodians
<1> HIDE DEF opks, t, r
<1>5. p \in Seq(Keys \cup {None}) /\ Len(p) = Len(opks) /\ DOMAIN p = DOMAIN opks
  BY <1>2
<1>6. Range(p) \ {None} = (Range(opks) \ {None}) \ {key}
  BY Zenon DEF Range
<1>7. \A i, j \in DOMAIN p : p[i] = p[j] /\ p[i] # None => i = j
  BY <1>2, Zenon
<1> HIDE DEF p
<1> DEFINE mat == [m.mat EXCEPT !.opks = p, !.out = o]
<1>8. /\ mat \in Materials /\ mat.spks = m.mat.spks /\ mat.saks = m.mat.saks
      /\ mat.out = o /\ mat.opks = p
  BY <1>1, <1>5, ZenonT(60) DEF Materials
<1> HIDE DEF mat
<1>9. Opks(mat) = Opks(m.mat) \ {key}
  BY <1>3, <1>6, <1>8, Zenon DEF Opks
<1>10. Cardinality(Opks(mat)) <= OpkMax
  <2>1. IsFiniteSet(Range(opks))
    BY <1>2, RangeFinite, Zenon
  <2>2. IsFiniteSet(Opks(m.mat))
    BY <1>3, <2>1, FS_Difference, ZenonT(60)
  <2>3. Opks(mat) \in SUBSET Opks(m.mat)
    BY <1>9, Zenon
  <2>4. IsFiniteSet(Opks(mat)) /\ Cardinality(Opks(mat)) <= Cardinality(Opks(m.mat))
    BY <2>2, <2>3, FS_Subset, Zenon
  <2>5. Cardinality(Opks(mat)) \in Nat /\ Cardinality(Opks(m.mat)) \in Nat
    BY <2>2, <2>4, FS_CardinalityType, Zenon
  <2>6. Cardinality(Opks(m.mat)) <= OpkMax
    BY <1>1, Zenon DEF MatOk
  <2>7. QED
    BY <2>4, <2>5, <2>6, CustodianAssumption, SMTT(60)
<1>11. MatOk(mat, top)
  <2>1. Range(mat.spks) \cup Opks(mat) \cup Range(mat.saks) \subseteq 1 .. top
    BY <1>2, <1>8, <1>9, Zenon
  <2>2. \A i, j \in DOMAIN mat.opks : mat.opks[i] = mat.opks[j] /\ mat.opks[i] # None => i = j
    BY <1>7, <1>8, Zenon
  <2>3. QED
    BY <1>1, <1>8, <1>10, <2>1, <2>2, Zenon DEF MatOk
<1>12. Held(mat) = Held(m.mat) \ {<<"OPK", key>>}
  BY <1>8, <1>9 DEF Held
<1>13. Handled(Complete(m), r, Held(mat))
  <2>1. Handled(Complete(m), m.slots, Held(m.mat))
    BY <1>1, Zenon DEF Handled, Complete
  <2> DEFINE e == <<"OPK", key>>
  <2> HIDE DEF e
  <2>2. Handled(Complete(m), SlotFree(m.slots, e), Held(m.mat) \ {e})
    BY <2>1, SlotFreeOk, Zenon
  <2>3. QED
    BY <1>12, <2>2, Zenon DEF e, r
<1>14. r \in [Handles -> Names \cup {None}]
  BY <1>13, Zenon DEF Handled, SlotsOk
<1>15. /\ t \in Custodians /\ t.mat = mat /\ t.slots = r
       /\ t.hybrid = m.hybrid /\ t.wrap = m.wrap /\ t.recv = m.recv
  <2>1. t = [m EXCEPT !.mat = mat, !.slots = r]
    BY <1>4, Zenon DEF mat
  <2>2. QED
    BY <1>1, <1>8, <1>14, <2>1, ZenonT(60) DEF Custodians
<1>16. Staged(t, top)
  BY <1>8, <1>11, <1>13, <1>15, Zenon DEF Handled, Staged
<1>17. Keeps(m, t)
  BY <1>13, <1>15, Zenon DEF Handled, Keeps, Complete
<1>18. QED
  BY <1>5, <1>8, <1>9, <1>15, <1>16, <1>17, Zenon DEF t, opks

\* A sequence without its element j.
Cut(s, j) == SubSeq(s, 1, j - 1) \o SubSeq(s, j + 1, Len(s))

\* The elements after the one cut out move up by one.
LEMMA CutOk ==
  ASSUME NEW s \in Seq(Keys), NEW j \in 1 .. Len(s)
  PROVE  /\ Cut(s, j) \in Seq(Keys) /\ Len(Cut(s, j)) = Len(s) - 1
         /\ \A i \in 1 .. Len(s) - 1 :
              Cut(s, j)[i] = IF i < j THEN s[i] ELSE s[i + 1]
<1> DEFINE n == Len(s)
           q == Cut(s, j)
<1>1. n \in Nat /\ n # 0 /\ DOMAIN s = 1 .. n
  OBVIOUS
<1>3. j \in 1 .. n
  BY Zenon
<1> HIDE DEF q, n
<1>5. q = SubSeq(s, 1, j - 1) \o SubSeq(s, j + 1, n)
  BY Zenon DEF Cut, q, n
<1>6. /\ SubSeq(s, 1, j - 1) \in Seq(Keys) /\ Len(SubSeq(s, 1, j - 1)) = j - 1
      /\ \A i \in 1 .. j - 1 : SubSeq(s, 1, j - 1)[i] = s[i]
  BY <1>1, <1>3 DEF n
<1>7. /\ SubSeq(s, j + 1, n) \in Seq(Keys) /\ Len(SubSeq(s, j + 1, n)) = n - j
      /\ \A i \in 1 .. n - j : SubSeq(s, j + 1, n)[i] = s[j + i]
  <2> DEFINE k == j + 1
  <2>1. k \in 1 .. n + 1 /\ n \in 0 .. Len(s) /\ Len(s) \in Nat
    BY <1>1, <1>3 DEF n
  <2>2. n - k + 1 = n - j /\ \A i \in 1 .. n - j : k + i - 1 = j + i
    BY <1>1, <1>3
  <2> HIDE DEF k
  <2>3. SubSeq(s, k, n) = [i \in 1 .. n - k + 1 |-> s[k + i - 1]]
    BY <2>1
  <2>4. n - k + 1 \in Nat /\ \A i \in 1 .. n - k + 1 : k + i - 1 \in 1 .. Len(s)
    BY <2>1
  <2>5. SubSeq(s, k, n) \in Seq(Keys) /\ Len(SubSeq(s, k, n)) = n - k + 1
    <3> DEFINE f == SubSeq(s, k, n)
               l == n - k + 1
    <3>1. l \in Nat /\ f = [i \in 1 .. l |-> f[i]] /\ \A i \in 1 .. l : f[i] = s[k + i - 1]
      BY <2>3, <2>4, Zenon
    <3> HIDE DEF f
    <3>2. \A i \in 1 .. l : f[i] \in Keys
      <4>1. \A x \in 1 .. Len(s) : s[x] \in Keys
        OBVIOUS
      <4>2. QED
        BY <2>4, <3>1, <4>1, Zenon
    <3> HIDE DEF l
    <3>3. f \in Seq(Keys) /\ Len(f) = l
      BY <3>1, <3>2
    <3>4. QED
      BY <3>3, Zenon DEF f, l
  <2>6. \A i \in 1 .. n - j : SubSeq(s, k, n)[i] = s[j + i]
    BY <2>2, <2>3, Zenon
  <2>7. QED
    BY <2>2, <2>5, <2>6, Zenon DEF k
<1>8. /\ q \in Seq(Keys) /\ Len(q) = n - 1 /\ DOMAIN q = 1 .. n - 1
      /\ \A i \in 1 .. n - 1 : q[i] = IF i < j THEN s[i] ELSE s[i + 1]
  <2> DEFINE A == SubSeq(s, 1, j - 1)
             B == SubSeq(s, j + 1, n)
  <2>1. q = A \o B
    BY <1>5, Zenon
  <2>2. A \in Seq(Keys) /\ Len(A) = j - 1 /\ \A i \in 1 .. j - 1 : A[i] = s[i]
    BY <1>6, Zenon
  <2>3. B \in Seq(Keys) /\ Len(B) = n - j /\ \A i \in 1 .. n - j : B[i] = s[j + i]
    BY <1>7, Zenon
  <2> HIDE DEF A, B
  <2>4. /\ q \in Seq(Keys) /\ Len(q) = (j - 1) + (n - j)
        /\ \A i \in 1 .. j - 1 : q[i] = A[i]
        /\ \A i \in 1 .. n - j : q[(j - 1) + i] = B[i]
    <3> DEFINE a == j - 1
               b == n - j
    <3>1. /\ a \in Nat /\ A \in Seq(Keys) /\ Len(A) = a
          /\ b \in Nat /\ B \in Seq(Keys) /\ Len(B) = b
      BY <1>1, <1>3, <2>2, <2>3
    <3> HIDE DEF a, b
    <3>2. /\ A \o B \in Seq(Keys) /\ Len(A \o B) = a + b
          /\ \A i \in 1 .. a : (A \o B)[i] = A[i]
          /\ \A i \in 1 .. b : (A \o B)[a + i] = B[i]
      <4>1. A \o B \in Seq(Keys) /\ Len(A \o B) = a + b
        BY <3>1
      <4>2. \A i \in 1 .. a : (A \o B)[i] = A[i]
        BY <3>1
      <4>3. ASSUME NEW i \in 1 .. b PROVE (A \o B)[a + i] = B[i]
        <5>1. a + i \in 1 .. Len(A) + Len(B) /\ ~ (a + i <= Len(A)) /\ (a + i) - Len(A) = i
          BY <3>1
        <5>2. QED
          BY <3>1, <5>1
      <4>4. QED
        BY <4>1, <4>2, <4>3, Zenon
    <3>3. /\ q \in Seq(Keys) /\ Len(q) = a + b
          /\ \A i \in 1 .. a : q[i] = A[i]
          /\ \A i \in 1 .. b : q[a + i] = B[i]
      BY <2>1, <3>2, ZenonT(60)
    <3>4. QED
      BY <3>3, Zenon DEF a, b
  <2>5. ASSUME NEW i \in 1 .. n - 1 PROVE q[i] = IF i < j THEN s[i] ELSE s[i + 1]
    <3>1. CASE i < j
      BY <1>1, <1>3, <2>2, <2>4, <3>1
    <3>2. CASE ~ (i < j)
      <4>1. /\ i - (j - 1) \in 1 .. n - j /\ (j - 1) + (i - (j - 1)) = i
            /\ j + (i - (j - 1)) = i + 1
        BY <1>1, <1>3, <3>2, SMTT(60)
      <4>2. q[i] = s[i + 1]
        BY <2>3, <2>4, <4>1, SMTT(60)
      <4>3. QED
        BY <3>2, <4>2, Zenon
    <3>3. QED
      BY <3>1, <3>2, Zenon
  <2>6. (j - 1) + (n - j) = n - 1 /\ n - 1 \in Nat
    BY <1>1, <1>3
  <2>7. QED
    BY <2>4, <2>5, <2>6
<1>9. QED
  BY <1>8, Zenon DEF q, n

\* The history without a key that is not its first.
LEMMA WithoutOk ==
  ASSUME NEW s \in Seq(Keys), IsInjective(s), NEW key \in Range(Tail(s)), s # << >>
  PROVE  /\ Without(s, key) \in Seq(Keys) /\ Without(s, key) # << >>
         /\ Len(Without(s, key)) <= Len(s)
         /\ IsInjective(Without(s, key))
         /\ Range(Without(s, key)) = Range(s) \ {key}
<1> DEFINE n == Len(s)
           at == {i \in 1 .. n : s[i] = key}
           j == Min(at)
           q == Without(s, key)
<1>1. n \in Nat /\ n # 0 /\ DOMAIN s = 1 .. n
  OBVIOUS
<1>2. \E i \in 2 .. n : s[i] = key
  <2>1. /\ Tail(s) \in Seq(Keys) /\ Len(Tail(s)) = n - 1
        /\ \A i \in 1 .. n - 1 : Tail(s)[i] = s[i + 1]
    BY <1>1
  <2>2. PICK i \in 1 .. n - 1 : Tail(s)[i] = key
    BY <2>1 DEF Range
  <2>3. i + 1 \in 2 .. n /\ s[i + 1] = key
    BY <1>1, <2>1, <2>2
  <2>4. QED
    BY <2>3, Zenon
<1>3. j \in 2 .. n /\ s[j] = key
  <2>1. at \in SUBSET Nat /\ at # {}
    BY <1>1, <1>2
  <2>2. j \in at
    BY <2>1, MinOfNaturals, ZenonT(60)
  <2>3. \A i \in at : i = j
    BY <1>1, <2>2, Zenon DEF IsInjective
  <2>4. \E i \in at : i \in 2 .. n
    BY <1>1, <1>2
  <2>5. QED
    BY <2>2, <2>3, <2>4, Zenon
<1>4. q = Cut(s, j)
  <2>1. at = {i \in DOMAIN s : s[i] = key}
    BY <1>1, Zenon
  <2>2. QED
    BY <2>1, Zenon DEF Without, Cut
<1> HIDE DEF j, q, n
<1>5. j \in 1 .. n
  BY <1>1, <1>3
<1>6. /\ q \in Seq(Keys) /\ Len(q) = n - 1
      /\ \A i \in 1 .. n - 1 : q[i] = IF i < j THEN s[i] ELSE s[i + 1]
  BY <1>4, <1>5, CutOk, Zenon DEF n
<1>7. n - 1 \in Nat
  BY <1>1
<1>8. /\ q \in Seq(Keys) /\ Len(q) = n - 1 /\ DOMAIN q = 1 .. n - 1
      /\ \A i \in 1 .. n - 1 : q[i] = IF i < j THEN s[i] ELSE s[i + 1]
  BY <1>6, <1>7
<1>9. \A x, y \in 1 .. n : s[x] = s[y] => x = y
  BY <1>1, Zenon DEF IsInjective
<1>10. IsInjective(q)
  <2>1. SUFFICES ASSUME NEW x \in 1 .. n - 1, NEW y \in 1 .. n - 1, q[x] = q[y]
                 PROVE  x = y
    BY <1>8, Zenon DEF IsInjective
  <2>2. x \in 1 .. n /\ y \in 1 .. n /\ x + 1 \in 1 .. n /\ y + 1 \in 1 .. n
    BY <1>1
  <2>3. QED
    BY <1>1, <1>3, <1>8, <1>9, <2>1, <2>2, SMTT(60)
<1>11. Range(q) = Range(s) \ {key}
  <2>1. ASSUME NEW k \in Range(q) PROVE k \in Range(s) /\ k # key
    <3>1. PICK i \in 1 .. n - 1 : k = q[i]
      BY <1>8, Zenon DEF Range
    <3>2. i \in 1 .. n /\ i + 1 \in 1 .. n
      BY <1>1
    <3>3. \E x \in 1 .. n : x # j /\ k = s[x]
      BY <1>1, <1>3, <1>8, <3>1, <3>2, SMTT(60)
    <3>4. QED
      BY <1>1, <1>3, <1>9, <3>3, SMTT(60) DEF Range
  <2>2. ASSUME NEW k \in Range(s), k # key PROVE k \in Range(q)
    <3>1. PICK x \in 1 .. n : k = s[x]
      BY <1>1, Zenon DEF Range
    <3>2. x # j
      BY <1>3, <2>2, <3>1, Zenon
    <3>3. CASE x < j
      <4>1. x \in 1 .. n - 1 /\ q[x] = k
        BY <1>1, <1>3, <1>8, <3>1, <3>3, SMTT(60)
      <4>2. QED
        BY <1>8, <4>1, Zenon DEF Range
    <3>4. CASE x > j
      <4>1. x - 1 \in 1 .. n - 1 /\ ~ (x - 1 < j) /\ (x - 1) + 1 = x
        BY <1>1, <1>3, <3>4
      <4>2. q[x - 1] = k
        BY <1>8, <3>1, <4>1, Zenon
      <4>3. QED
        BY <1>8, <4>1, <4>2, ZenonT(60) DEF Range
    <3>5. QED
      BY <1>1, <1>3, <3>2, <3>3, <3>4, SMTT(60)
  <2>3. QED
    BY <2>1, <2>2, Zenon
<1>12. q # << >> /\ Len(q) <= n
  BY <1>1, <1>3, <1>8, SMTT(60)
<1>13. QED
  BY <1>8, <1>10, <1>11, <1>12, Zenon DEF q, n

\* The custodian without a signed prekey that is not the active one.
SpkDeleted(m, h, key) ==
  [m EXCEPT !.mat.spks = Without(@, key), !.slots[h] = None]

(* And so does deleting a signed prekey by its handle.                     *)
LEMMA SpkDeletedOk ==
  ASSUME NEW m, NEW top, Staged(m, top), NEW h \in Handles, NEW key,
         m.slots[h] = <<"SPK", key>>, key \in Range(Tail(m.mat.spks))
  PROVE  /\ Staged(SpkDeleted(m, h, key), top) /\ SameOpks(m, SpkDeleted(m, h, key))
         /\ Keeps(m, SpkDeleted(m, h, key))
<1> DEFINE p == Without(m.mat.spks, key)
           r == SlotFree(m.slots, <<"SPK", key>>)
           t == SpkDeleted(m, h, key)
<1>1. /\ m \in Custodians /\ m.mat \in Materials
      /\ MatOk(m.mat, top) /\ SlotsOk(m.slots, Held(m.mat))
  BY Zenon DEF Staged
<1>2. /\ m.mat.spks \in Seq(Keys) /\ Len(m.mat.spks) <= SpkMax /\ IsInjective(m.mat.spks)
      /\ m.mat.spks # << >>
      /\ Range(m.mat.spks) \cup Opks(m.mat) \cup Range(m.mat.saks) \subseteq 1 .. top
  BY <1>1, Zenon DEF MatOk, Materials
<1>3. /\ p \in Seq(Keys) /\ p # << >> /\ Len(p) <= Len(m.mat.spks)
      /\ IsInjective(p) /\ Range(p) = Range(m.mat.spks) \ {key}
  BY <1>2, WithoutOk, Zenon
<1>4. Len(p) <= SpkMax
  BY <1>2, <1>3, CustodianAssumption, SMTT(60)
<1>5. [m.slots EXCEPT ![h] = None] = r
  <2>1. /\ m.slots \in [Handles -> Names \cup {None}]
        /\ m.slots[h] # None
        /\ \A g \in Handles : g # h => m.slots[g] # m.slots[h]
    <3>1. m.slots[h] # None
      <4>1. m.slots[h] \in Names \/ m.slots[h] = None
        BY <1>1, Zenon DEF SlotsOk
      <4>2. <<"SPK", key>> \in Names
        <5>1. m.mat.spks \in Seq(Keys) /\ Tail(m.mat.spks) \in Seq(Keys)
          BY <1>2
        <5>2. key \in Keys
          BY <5>1 DEF Range
        <5>3. QED
          BY <5>2, Zenon DEF Names
      <4>3. QED
        BY <4>2, NoneAssumption, Zenon
    <3>2. QED
      BY <1>1, <3>1, Zenon DEF SlotsOk
  <2>2. QED
    BY <2>1, Zenon DEF SlotFree
<1>6. t = [m EXCEPT !.mat = [m.mat EXCEPT !.spks = p], !.slots = [m.slots EXCEPT ![h] = None]]
  BY <1>1, Zenon DEF SpkDeleted, Custodians
<1> DEFINE mat == [m.mat EXCEPT !.spks = p]
<1> HIDE DEF p, t, r
<1>7. /\ mat \in Materials /\ mat.spks = p /\ mat.saks = m.mat.saks
      /\ mat.out = m.mat.out /\ mat.opks = m.mat.opks
  BY <1>1, <1>3, ZenonT(60) DEF Materials
<1> HIDE DEF mat
<1>8. Opks(mat) = Opks(m.mat)
  BY <1>7, Zenon DEF Opks
<1>9. MatOk(mat, top)
  <2>1. Range(mat.spks) \cup Opks(mat) \cup Range(mat.saks) \subseteq 1 .. top
    BY <1>2, <1>3, <1>7, <1>8, Zenon
  <2>2. QED
    BY <1>1, <1>3, <1>4, <1>7, <1>8, <2>1, Zenon DEF MatOk
<1>10. Held(mat) = Held(m.mat) \ {<<"SPK", key>>}
  BY <1>3, <1>7, <1>8, SMTT(60) DEF Held
<1>11. Handled(Complete(m), r, Held(mat))
  <2>1. Handled(Complete(m), m.slots, Held(m.mat))
    BY <1>1, Zenon DEF Handled, Complete
  <2> DEFINE e == <<"SPK", key>>
  <2> HIDE DEF e
  <2>2. Handled(Complete(m), SlotFree(m.slots, e), Held(m.mat) \ {e})
    BY <2>1, SlotFreeOk, Zenon
  <2>3. QED
    BY <1>10, <2>2, Zenon DEF e, r
<1>12. r \in [Handles -> Names \cup {None}]
  BY <1>11, Zenon DEF Handled, SlotsOk
<1>13. /\ t \in Custodians /\ t.mat = mat /\ t.slots = r
       /\ t.hybrid = m.hybrid /\ t.wrap = m.wrap /\ t.recv = m.recv
  <2>1. t = [m EXCEPT !.mat = mat, !.slots = r]
    BY <1>5, <1>6, ZenonT(60) DEF mat
  <2>2. QED
    BY <1>1, <1>7, <1>12, <2>1, ZenonT(60) DEF Custodians
<1>14. Keeps(m, t)
  BY <1>11, <1>13, Zenon DEF Handled, Keeps, Complete
<1>15. QED
  BY <1>7, <1>9, <1>11, <1>13, <1>14, Zenon DEF Handled, Staged, SameOpks, t
------------------------------------------------------------------------------
\* A custodian with an identity, between two calls.
LEMMA InvStaged ==
  ASSUME IInv, mem # None, mem.mat # None
  PROVE  /\ Staged(mem, made) /\ RecvOk(mem) /\ Unsent(mem.mat)
         /\ made \in Nat /\ made <= MaxKeys
<1>1. mem \in Custodians /\ CustOk(mem, made) /\ Unsent(mem.mat) /\ made \in 0..MaxKeys
  BY Zenon DEF IInv, TypeOK
<1>2. mem.mat \in Materials
  BY <1>1, Zenon DEF Custodians
<1>3. QED
  BY <1>1, <1>2, CustodianAssumption, SMTT(60) DEF CustOk, Staged

\* A sequence over a smaller set.
LEMMA SeqMonotone ==
  ASSUME NEW S, NEW T, S \subseteq T, NEW s \in Seq(S)
  PROVE  s \in Seq(T)
  BY SMTT(60)

\* A call that changes nothing but the number of keys generated.
LEMMA UndoneInv ==
  ASSUME IInv, disk' = disk, mem' = mem, dirty' = dirty, exported' = exported,
         spent' = spent, made' \in Nat, made <= made', made' <= MaxKeys
  PROVE  IInv'
<1>1. made \in 0..MaxKeys /\ MaxKeys \in Nat
  BY CustodianAssumption, Zenon DEF IInv, TypeOK
<1>2. 1..made \subseteq 1..made' /\ made' \in 0..MaxKeys
  BY <1>1, SMTT(60)
<1>3. TypeOK'
  <2>1. exported' \in Seq(1..made')
    <3>1. exported \in Seq(1..made)
      BY Zenon DEF IInv, TypeOK
    <3>2. QED
      BY <1>2, <3>1, SeqMonotone, ZenonT(60)
  <2>2. QED
    BY <1>2, <2>1, Zenon DEF IInv, TypeOK
<1>4. \A mat : MatOk(mat, made) => MatOk(mat, made')
  BY <1>2, Zenon DEF MatOk
<1>5. \A m : CustOk(m, made) => CustOk(m, made')
  BY <1>4, Zenon DEF CustOk
<1>6. \A mat : Unsent(mat) => Unsent(mat)'
  BY Zenon DEF Unsent
<1>7. MemMatchesDisk'
  BY Zenon DEF IInv, MemMatchesDisk
<1>8. QED
  BY <1>3, <1>4, <1>5, <1>6, <1>7, Zenon DEF IInv

\* A call whose change is written.
LEMMA WrittenInv ==
  ASSUME IInv, NEW t, disk' = Blob(t), mem' = t, dirty' = FALSE,
         made' \in 0..MaxKeys, Staged(t, made'), CustOk(t, made'),
         exported' \in Seq(1..made'), IsInjective(exported'),
         spent' \in SUBSET (1..made'),
         Range(exported') \cap Opks(t.mat) \subseteq t.mat.out,
         spent' \cap Opks(t.mat) = {}
  PROVE  IInv'
<1>1. /\ t \in Custodians /\ t.mat \in Materials /\ t # None /\ t.mat # None
      /\ MatOk(t.mat, made')
  BY NoneAssumption, Zenon DEF Staged
<1>2. Blob(t) \in Blobs /\ Blob(t) # None /\ Blob(t).mat = t.mat
  BY <1>1, NoneAssumption DEF Blob, Blobs, Custodians
<1>3. TypeOK'
  BY <1>1, <1>2, ZenonT(60) DEF TypeOK
<1>4. Unsent(t.mat)'
  BY Zenon DEF Unsent
<1>5. MemMatchesDisk'
  BY <1>2, Zenon DEF MemMatchesDisk
<1>6. QED
  BY <1>1, <1>2, <1>3, <1>4, <1>5, Zenon DEF IInv
------------------------------------------------------------------------------
(* A device without a custodian satisfies the invariant.                   *)
LEMMA InitInv == Init => IInv
<1> SUFFICES ASSUME Init PROVE IInv
  BY Zenon
<1>0. << >> \in Seq(1..made) /\ IsInjective(<< >>)
  BY DEF IsInjective
<1>1. exported \in Seq(1..made) /\ IsInjective(exported)
  <2>1. exported = << >>
    BY Zenon DEF Init
  <2>2. QED
    BY <1>0, <2>1, Zenon
<1>2. TypeOK
  <2>1. 0 \in 0..MaxKeys
    BY CustodianAssumption
  <2>2. /\ disk = None /\ mem = None /\ made = 0 /\ spent = {} /\ dirty = FALSE
    BY Zenon DEF Init
  <2>3. QED
    BY <1>1, <2>1, <2>2, Zenon DEF TypeOK
<1>3. QED
  BY <1>1, <1>2, Zenon DEF Init, IInv, MemMatchesDisk

\* A new custodian.
LEMMA NewOk ==
  ASSUME NEW cred \in Creds, NEW hybrid \in BOOLEAN
  PROVE  LET m == New(cred, hybrid)
         IN  /\ m \in Custodians /\ m # None /\ m.mat = None
             /\ m.wrap = cred /\ m.hybrid = hybrid
             /\ m.slots = [h \in Handles |-> None]
             /\ Blob(m) \in Blobs /\ Blob(m) # None /\ Blob(m).mat = None
<1> DEFINE m == New(cred, hybrid)
<1>1. /\ m \in Custodians /\ m.mat = None /\ m.wrap = cred /\ m.hybrid = hybrid
      /\ m.slots = [h \in Handles |-> None]
  BY Zenon DEF New, Custodians
<1>2. Blob(m) \in Blobs /\ Blob(m).mat = None
  BY <1>1, Zenon DEF Blob, Blobs
<1>3. QED
  BY <1>1, <1>2, NoneAssumption, Zenon

\* gy_custodian_create: nothing of an overwritten blob was exported from the new
\* one.
LEMMA CreateInv ==
  ASSUME IInv, NEW cred \in Creds, NEW hybrid \in BOOLEAN, Create(cred, hybrid)
  PROVE  IInv'
<1> DEFINE m == New(cred, hybrid)
<1>1. /\ disk' = Blob(m) /\ mem' = m /\ exported' = << >>
      /\ made' = made /\ spent' = spent /\ dirty' = dirty /\ mem = None
  BY Zenon DEF Create
<1>2. /\ m \in Custodians /\ m # None /\ m.mat = None
      /\ m.slots = [h \in Handles |-> None]
      /\ Blob(m) \in Blobs /\ Blob(m) # None /\ Blob(m).mat = None
  BY NewOk, ZenonT(60)
<1> HIDE DEF m
<1>3. dirty' = FALSE
  BY <1>1, Zenon DEF IInv
<1>4. exported' \in Seq(1..made') /\ IsInjective(exported')
  BY <1>1 DEF IsInjective
<1>5. TypeOK'
  BY <1>1, <1>2, <1>3, <1>4, Zenon DEF IInv, TypeOK
<1>6. MemMatchesDisk'
  BY <1>1, <1>2, <1>3, Zenon DEF MemMatchesDisk
<1>7. CustOk(m, made')
  BY <1>2, Zenon DEF CustOk
<1>8. Unsent(m.mat)' /\ Unsent(Blob(m).mat)'
  BY <1>2, Zenon DEF Unsent
<1>9. QED
  BY <1>1, <1>2, <1>3, <1>4, <1>5, <1>6, <1>7, <1>8, Zenon DEF IInv

\* gy_custodian_open loads what is sealed.
LEMMA OpenInv ==
  ASSUME IInv, Open
  PROVE  IInv'
<1> DEFINE m == New(disk.wrap, disk.hybrid)
<1>1. /\ mem = None /\ disk # None /\ disk' = disk /\ made' = made
      /\ exported' = exported /\ spent' = spent /\ dirty' = dirty
  BY Zenon DEF Open
<1>2. disk \in Blobs /\ disk.wrap \in Creds /\ disk.hybrid \in BOOLEAN
  BY <1>1, Zenon DEF IInv, TypeOK, Blobs
<1>3. /\ m \in Custodians /\ m # None /\ m.mat = None
      /\ m.hybrid = disk.hybrid /\ m.slots = [h \in Handles |-> None]
  BY <1>2, NewOk
<1>4. dirty' = FALSE /\ Unsent(disk.mat)
  BY <1>1, Zenon DEF IInv
<1>6. CASE disk.mat = None
  <2>1. mem' = m
    BY <1>6, Zenon DEF Open
  <2> HIDE DEF m
  <2>2. TypeOK'
    BY <1>1, <1>3, <1>4, <2>1, Zenon DEF IInv, TypeOK
  <2>3. MemMatchesDisk'
    BY <1>1, <1>3, <1>4, <1>6, <2>1, Zenon DEF MemMatchesDisk
  <2>4. CustOk(m, made')
    BY <1>3, Zenon DEF CustOk
  <2>5. mem'.mat = None /\ mem' # None /\ CustOk(mem', made')
    BY <1>3, <2>1, <2>4, Zenon
  <2>6. Unsent(mem.mat)' /\ Unsent(disk.mat)'
    BY <1>1, <1>6, <2>5, Zenon DEF Unsent
  <2>7. QED
    BY <1>1, <1>4, <1>6, <2>2, <2>3, <2>5, <2>6, Zenon DEF IInv
<1>7. CASE disk.mat # None
  <2> DEFINE t == Rewired(Installed(m, disk.mat))
  <2>1. MatOk(disk.mat, made)
    BY <1>1, <1>7, Zenon DEF IInv
  <2>2. /\ Staged(Installed(m, disk.mat), made)
        /\ Installed(m, disk.mat).mat = disk.mat
        /\ Installed(m, disk.mat).hybrid = disk.hybrid
    BY <1>3, <2>1, InstalledOk, ZenonT(60)
  <2>3. mem' = t
    <3>1. CASE disk.hybrid
      <4>1. mem' = LoadHybridIdmat(m, disk.mat)
        BY <1>7, <3>1, Zenon DEF Open
      <4>2. QED
        BY <2>2, <3>1, <4>1, Zenon DEF LoadHybridIdmat, Rewired
    <3>2. CASE ~ disk.hybrid
      <4>1. mem' = LoadIdmat(m, disk.mat)
        BY <1>7, <3>2, Zenon DEF Open
      <4>2. QED
        BY <2>2, <3>2, <4>1, Zenon DEF LoadIdmat, Rewired
    <3>3. QED
      BY <3>1, <3>2, Zenon
  <2>4. Staged(t, made) /\ CustOk(t, made) /\ t.mat = disk.mat
    BY <2>2, RewiredOk, Zenon
  <2> HIDE DEF t
  <2>5. t \in Custodians /\ t # None
    BY <2>4, NoneAssumption, Zenon DEF Staged
  <2>6. TypeOK'
    BY <1>1, <1>4, <2>3, <2>5, Zenon DEF IInv, TypeOK
  <2>7. MemMatchesDisk'
    BY <1>1, <1>4, <2>3, <2>4, Zenon DEF MemMatchesDisk
  <2>8. mem'.mat = disk.mat /\ mem' # None /\ CustOk(mem', made')
    BY <1>1, <2>3, <2>4, <2>5, Zenon
  <2>9. Unsent(mem.mat)' /\ Unsent(disk.mat)'
    BY <1>1, <1>4, <2>8, Zenon DEF Unsent
  <2>10. QED
    BY <1>1, <1>4, <2>1, <2>6, <2>7, <2>8, <2>9, Zenon DEF IInv
<1>8. QED
  BY <1>6, <1>7, Zenon

\* gy_custodian_close and gy_custodian_reset.
LEMMA CloseInv ==
  ASSUME IInv, Close \/ Reset
  PROVE  IInv'
<1>1. mem' = None /\ dirty' = FALSE /\ made' = made /\ spent' = spent
  BY Zenon DEF Close, Reset
<1>2. \/ disk' = disk /\ exported' = exported
      \/ disk' = None /\ exported' = << >>
  BY Zenon DEF Close, Reset
<1>3. << >> \in Seq(1..made) /\ IsInjective(<< >>)
  BY SMTT(60) DEF IsInjective
<1>4. TypeOK'
  BY <1>1, <1>2, <1>3, ZenonT(60) DEF IInv, TypeOK
<1>5. disk' = disk /\ exported' = exported /\ disk # None => Unsent(disk.mat)'
  BY <1>1, ZenonT(60) DEF IInv, Unsent
<1>6. QED
  BY <1>1, <1>2, <1>3, <1>4, <1>5, Zenon DEF IInv, MemMatchesDisk

\* gy_custodian_change_credential touches the wrap only.
LEMMA ChangeCredentialInv ==
  ASSUME IInv, NEW cred \in Creds, ChangeCredential(cred)
  PROVE  IInv'
<1>1. /\ mem # None /\ mem' = [mem EXCEPT !.wrap = cred]
      /\ disk' = [disk EXCEPT !.wrap = cred] \/ disk' = disk
      /\ made' = made /\ exported' = exported /\ spent' = spent /\ dirty' = dirty
  BY Zenon DEF ChangeCredential
<1>2. mem \in Custodians /\ disk # None /\ disk \in Blobs /\ CustOk(mem, made)
  BY <1>1, Zenon DEF IInv, TypeOK
<1>3. /\ mem' \in Custodians /\ mem'.mat = mem.mat /\ mem'.hybrid = mem.hybrid
      /\ mem'.slots = mem.slots /\ mem'.recv = mem.recv
  BY <1>1, <1>2, Zenon DEF Custodians
<1>4. disk' \in Blobs /\ disk'.mat = disk.mat
  BY <1>1, <1>2, Zenon DEF Blobs
<1>5. mem' # None /\ disk' # None
  BY <1>3, <1>4, NoneAssumption, Zenon
<1>6. CustOk(mem', made')
  BY <1>1, <1>2, <1>3, Zenon DEF CustOk, RecvOk
<1>7. Unsent(mem.mat)' /\ Unsent(disk.mat)'
  BY <1>1, <1>2, <1>3, <1>4, Zenon DEF IInv, Unsent
<1>8. TypeOK'
  BY <1>1, <1>3, <1>4, Zenon DEF IInv, TypeOK
<1>9. MemMatchesDisk'
  BY <1>1, <1>3, <1>4, Zenon DEF IInv, MemMatchesDisk
<1>10. QED
  BY <1>1, <1>2, <1>4, <1>5, <1>6, <1>7, <1>8, <1>9, Zenon DEF IInv

\* A rewired custodian is sealed as it was staged.
LEMMA RewiredBlob ==
  ASSUME NEW m, NEW top, Staged(m, top)
  PROVE  Blob(Rewired(m)) = Blob(m)
  BY RewiredOk, Zenon DEF Blob

\* The first keys of an identity.
LEMMA FirstMaterial ==
  ASSUME NEW top \in Nat, NEW n \in 0..OpkMax, top + n < MaxKeys
  PROVE  LET mat == Material(<<top + 1>>, [i \in 1..n |-> top + 1 + i])
         IN  MatOk(mat, top + n + 1) /\ Opks(mat) \cap 1..top = {}
<1> DEFINE spks == <<top + 1>>
           opks == [i \in 1..n |-> top + 1 + i]
           mat == Material(spks, opks)
<1>1. n \in Nat /\ n <= OpkMax /\ OpkMax \in Nat /\ MaxKeys \in Nat /\ 1 <= SpkMax /\ 0 <= SakMax
  BY CustodianAssumption
<1>2. top + 1 \in Keys /\ \A i \in 1..n : top + 1 + i \in Keys /\ top + 1 + i \in 1..top + n + 1
  BY <1>1, SMTT(60) DEF Keys
<1>3. /\ mat.spks = spks /\ mat.opks = opks /\ mat.out = {} /\ mat.saks = << >>
  BY Zenon DEF Material
<1>4. opks \in Seq(Keys \cup {None}) /\ DOMAIN opks = 1..n /\ Len(opks) = n
  BY <1>1, <1>2
<1>5. spks \in Seq(Keys) /\ Len(spks) = 1 /\ spks # << >> /\ IsInjective(spks)
  BY <1>2, SMTT(60) DEF IsInjective
<1>6. mat \in Materials
  BY <1>4, <1>5 DEF Material, Materials
<1>7. << >> \in Seq(Keys) /\ Len(<< >>) = 0 /\ IsInjective(<< >>) /\ Range(<< >>) = {}
  BY DEF IsInjective, Range
<1>8. \A i \in 1..n : opks[i] = top + 1 + i
  BY Zenon
<1> HIDE DEF mat, opks
<1>9. Opks(mat) = {top + 1 + i : i \in 1..n} \ {None}
  BY <1>3, <1>4, <1>8, ZenonT(60) DEF Opks, Range
<1>10. Opks(mat) \subseteq 1..top + n + 1 /\ Opks(mat) \cap 1..top = {}
  <2>1. \A i \in 1..n : top + 1 + i \notin 1..top
    OBVIOUS
  <2>2. QED
    BY <1>2, <1>9, <2>1, Zenon
<1>11. Cardinality(Opks(mat)) <= OpkMax
  <2>1. IsFiniteSet(Range(opks)) /\ Cardinality(Range(opks)) <= n
    BY <1>4, RangeFinite, Zenon
  <2>2. Opks(mat) \in SUBSET Range(opks)
    BY <1>3, Zenon DEF Opks
  <2>3. IsFiniteSet(Opks(mat)) /\ Cardinality(Opks(mat)) <= Cardinality(Range(opks))
    BY <2>1, <2>2, FS_Subset, Zenon
  <2>4. Cardinality(Opks(mat)) \in Nat /\ Cardinality(Range(opks)) \in Nat
    BY <2>1, <2>3, FS_CardinalityType, Zenon
  <2>5. QED
    BY <1>1, <2>1, <2>3, <2>4, SMTT(60)
<1>12. Range(spks) = {top + 1}
  BY DEF Range
<1>13. \A i, j \in DOMAIN mat.opks : mat.opks[i] = mat.opks[j] /\ mat.opks[i] # None => i = j
  BY <1>1, <1>3, <1>4, <1>8, SMTT(60)
<1>14. Range(mat.spks) \cup Opks(mat) \cup Range(mat.saks) \subseteq 1..top + n + 1
  BY <1>1, <1>3, <1>7, <1>10, <1>12, SMTT(60)
<1>15. MatOk(mat, top + n + 1)
  <2>1. mat.spks # << >> /\ IsInjective(mat.spks) /\ Len(mat.spks) <= SpkMax
    BY <1>1, <1>3, <1>5, Zenon
  <2>2. IsInjective(mat.saks) /\ Len(mat.saks) <= SakMax
    BY <1>1, <1>3, <1>7, Zenon
  <2>3. QED
    BY <1>6, <1>11, <1>13, <1>14, <2>1, <2>2, Zenon DEF MatOk
<1>16. QED
  BY <1>10, <1>15, Zenon DEF mat, opks

\* What was exported and spent is among the first keys.
LEMMA Numbered ==
  ASSUME IInv
  PROVE  /\ made \in Nat /\ made <= MaxKeys /\ MaxKeys \in Nat
         /\ exported \in Seq(1..made) /\ Range(exported) \subseteq 1..made
         /\ spent \subseteq 1..made /\ IsInjective(exported)
<1>1. exported \in Seq(1..made) /\ made \in 0..MaxKeys /\ spent \subseteq 1..made
      /\ IsInjective(exported)
  BY Zenon DEF IInv, TypeOK
<1>2. Range(exported) \subseteq 1..made
  BY <1>1 DEF Range
<1>3. QED
  BY <1>1, <1>2, CustodianAssumption, SMTT(60)

(* The first generation of prekeys, written or undone.                     *)
LEMMA FirstKeysInv ==
  ASSUME IInv, NEW n \in 0..OpkMax, mem # None, FirstKeys(n)
  PROVE  IInv'
<1> DEFINE mat == Material(<<made + 1>>, [i \in 1..n |-> made + 1 + i])
           m == Rewired(Installed(mem, mat))
<1>1. /\ made + n < MaxKeys /\ mem.mat = None
      /\ Persist(m, m, mem) /\ made' = made + n + 1
      /\ exported' = exported /\ spent' = spent
  BY Zenon DEF FirstKeys
<1>2. /\ made \in Nat /\ made <= MaxKeys /\ MaxKeys \in Nat
      /\ exported \in Seq(1..made) /\ Range(exported) \subseteq 1..made
      /\ spent \subseteq 1..made /\ IsInjective(exported)
  BY Numbered, Zenon
<1>3. mem \in Custodians /\ mem.slots = [h \in Handles |-> None]
  BY <1>1, Zenon DEF IInv, TypeOK, CustOk
<1>4. MatOk(mat, made + n + 1) /\ Opks(mat) \cap 1..made = {}
  BY <1>1, <1>2, FirstMaterial, ZenonT(60)
<1> HIDE DEF mat
<1>5. Staged(Installed(mem, mat), made + n + 1) /\ Installed(mem, mat).mat = mat
  BY <1>3, <1>4, InstalledOk, ZenonT(60)
<1>6. Staged(m, made + n + 1) /\ CustOk(m, made + n + 1) /\ m.mat = mat
  BY <1>5, RewiredOk, Zenon
<1> HIDE DEF m
<1>7. /\ made' \in Nat /\ made <= made' /\ made' <= MaxKeys /\ made' \in 0..MaxKeys
      /\ 1..made \subseteq 1..made'
  BY <1>1, <1>2, SMTT(60)
<1>8. exported' \in Seq(1..made') /\ IsInjective(exported') /\ spent' \in SUBSET (1..made')
  <2>1. exported \in Seq(1..made')
    BY <1>2, <1>7, SeqMonotone, ZenonT(60)
  <2>2. QED
    BY <1>1, <1>2, <1>7, <2>1, Zenon
<1>9. CASE disk' = Blob(m) /\ mem' = m /\ dirty' = FALSE
  <2>1. Range(exported') \cap Opks(m.mat) \subseteq m.mat.out /\ spent' \cap Opks(m.mat) = {}
    BY <1>1, <1>2, <1>4, <1>6, ZenonT(60)
  <2>2. Staged(m, made') /\ CustOk(m, made')
    BY <1>1, <1>6, Zenon
  <2>3. QED
    BY <1>7, <1>8, <1>9, <2>1, <2>2, WrittenInv, ZenonT(60)
<1>10. CASE mem' = mem /\ disk' = disk /\ dirty' = dirty
  BY <1>1, <1>7, <1>10, UndoneInv, Zenon
<1>11. QED
  BY <1>1, <1>9, <1>10, ZenonT(60) DEF Persist

\* A rotation: the one-time prekeys stay what they were.
LEMMA RotationInv ==
  ASSUME IInv, mem # None, mem.mat # None, NEW m, NEW t, NEW f,
         made < MaxKeys, made' = made + 1, exported' = exported, spent' = spent,
         Staged(t, made + 1), SameOpks(mem, t), Blob(m) = Blob(t),
         Staged(f, made + 1), CustOk(f, made + 1), f.mat = t.mat, Blob(f) = Blob(t),
         Persist(m, f, mem)
  PROVE  IInv'
<1>1. /\ made \in Nat /\ made <= MaxKeys /\ MaxKeys \in Nat
      /\ exported \in Seq(1..made) /\ spent \subseteq 1..made /\ IsInjective(exported)
  BY Numbered, Zenon
<1>2. Unsent(mem.mat)
  BY InvStaged, Zenon
<1>3. /\ made' \in Nat /\ made <= made' /\ made' <= MaxKeys /\ made' \in 0..MaxKeys
      /\ 1..made \subseteq 1..made'
  BY <1>1, SMTT(60)
<1>4. exported' \in Seq(1..made') /\ IsInjective(exported') /\ spent' \in SUBSET (1..made')
  <2>1. exported \in Seq(1..made')
    BY <1>1, <1>3, SeqMonotone, ZenonT(60)
  <2>2. QED
    BY <1>1, <1>3, <2>1, Zenon
<1>5. CASE disk' = Blob(m) /\ mem' = f /\ dirty' = FALSE
  <2>1. Opks(f.mat) = Opks(mem.mat) /\ f.mat.out = mem.mat.out
    BY Zenon DEF SameOpks, Opks
  <2>2. Range(exported') \cap Opks(f.mat) \subseteq f.mat.out /\ spent' \cap Opks(f.mat) = {}
    BY <1>2, <2>1, Zenon DEF Unsent
  <2>3. Staged(f, made') /\ CustOk(f, made') /\ disk' = Blob(f)
    BY <1>5, Zenon
  <2>4. QED
    BY <1>3, <1>4, <1>5, <2>2, <2>3, WrittenInv, ZenonT(60)
<1>6. CASE mem' = mem /\ disk' = disk /\ dirty' = dirty
  BY <1>3, <1>6, UndoneInv, Zenon
<1>7. QED
  BY <1>5, <1>6, ZenonT(60) DEF Persist

\* gy_custodian_rotate_signed_prekey.
LEMMA PushSpkInv ==
  ASSUME IInv, mem # None, mem.mat # None, PushSpk
  PROVE  IInv'
<1> DEFINE m == WithSpk(mem, made + 1)
           t == SpkRotated(mem, made + 1)
           f == Rewired(t)
<1>1. Staged(mem, made) /\ made \in Nat /\ made < MaxKeys /\ made + 1 \in Keys
  <2>1. Staged(mem, made) /\ made \in Nat /\ made < MaxKeys
    BY InvStaged, Zenon DEF PushSpk
  <2>2. QED
    BY <2>1, CustodianAssumption DEF Keys
<1>2. /\ Persist(m, f, mem) /\ made' = made + 1 /\ exported' = exported /\ spent' = spent
  BY Zenon DEF PushSpk, WithSpk, SpkRotated
<1>3. Staged(t, made + 1) /\ SameOpks(mem, t) /\ Blob(m) = Blob(t)
  BY <1>1, SpkRotatedOk, Zenon
<1> HIDE DEF m, t
<1>4. Staged(f, made + 1) /\ CustOk(f, made + 1) /\ f.mat = t.mat /\ Blob(f) = Blob(t)
  BY <1>3, RewiredOk, RewiredBlob, Zenon
<1> HIDE DEF f
<1>5. QED
  BY <1>1, <1>2, <1>3, <1>4, RotationInv, Zenon

\* gy_custodian_generate_appkey and gy_custodian_rotate_appkey, which do not
\* touch the receive context.
LEMMA PushSakInv ==
  ASSUME IInv, mem # None, mem.mat # None, PushSak
  PROVE  IInv'
<1> DEFINE m == WithSak(mem, made + 1)
           t == SakRotated(mem, made + 1)
<1>1. Staged(mem, made) /\ made \in Nat /\ made < MaxKeys /\ made + 1 \in Keys /\ RecvOk(mem)
  <2>1. Staged(mem, made) /\ made \in Nat /\ made < MaxKeys /\ RecvOk(mem)
    BY InvStaged, Zenon DEF PushSak
  <2>2. QED
    BY <2>1, CustodianAssumption DEF Keys
<1>2. /\ Persist(m, t, mem) /\ made' = made + 1 /\ exported' = exported /\ spent' = spent
  BY Zenon DEF PushSak, WithSak, SakRotated
<1>3. /\ Staged(t, made + 1) /\ SameOpks(mem, t) /\ Blob(m) = Blob(t)
      /\ t.mat.spks = mem.mat.spks
  BY <1>1, SakRotatedOk, Zenon
<1> HIDE DEF m, t
<1>4. CustOk(t, made + 1)
  <2>1. RecvOk(t)
    BY <1>1, <1>3, Zenon DEF SameOpks, RecvOk
  <2>2. QED
    BY <1>3, <2>1, NoneAssumption, Zenon DEF Staged, CustOk
<1>5. QED
  BY <1>1, <1>2, <1>3, <1>4, RotationInv, Zenon

\* cust_replenish_opks: the keys it adds were neither exported nor consumed.
LEMMA GrownUnsent ==
  ASSUME IInv, Unsent(mem.mat), mem.mat # None, NEW t, NEW n \in Nat, Grown(mem, t, made, n)
  PROVE  Range(exported) \cap Opks(t.mat) \subseteq t.mat.out /\ spent \cap Opks(t.mat) = {}
<1>1. /\ made \in Nat /\ Range(exported) \subseteq 1..made /\ spent \subseteq 1..made
  BY Numbered, Zenon
<1>2. made + 1 .. made + n \cap 1..made = {}
  BY <1>1
<1>3. QED
  BY <1>1, <1>2, Zenon DEF Unsent, Grown

(* Replenishing the pool, written or undone.                               *)
LEMMA ReplenishInv ==
  ASSUME IInv, mem # None, mem.mat # None, NEW n \in 1..OpkMax, Replenish(n)
  PROVE  IInv'
<1> DEFINE m == Replenished(mem, n)
           f == Rewired(m)
<1>1. /\ Staged(mem, made) /\ Unsent(mem.mat) /\ made \in Nat
  BY InvStaged, Zenon
<1>2. /\ made + n <= MaxKeys /\ n <= Room(mem) /\ Persist(m, f, mem)
      /\ made' = made + n /\ exported' = exported /\ spent' = spent
  BY Zenon DEF Replenish
<1>3. n \in Nat
  BY SMTT(60)
<1>4. Staged(m, made + n) /\ Grown(mem, m, made, n)
  BY <1>1, <1>2, <1>3, ReplenishedOk, Zenon
<1> HIDE DEF m
<1>5. Staged(f, made + n) /\ CustOk(f, made + n) /\ f.mat = m.mat /\ Blob(f) = Blob(m)
  BY <1>4, RewiredOk, RewiredBlob, Zenon
<1> HIDE DEF f
<1>6. Range(exported) \cap Opks(m.mat) \subseteq m.mat.out /\ spent \cap Opks(m.mat) = {}
  BY <1>1, <1>3, <1>4, GrownUnsent, Zenon
<1>7. /\ exported \in Seq(1..made) /\ spent \subseteq 1..made /\ IsInjective(exported)
      /\ MaxKeys \in Nat
  BY Numbered, Zenon
<1>8. /\ made' \in Nat /\ made <= made' /\ made' <= MaxKeys /\ made' \in 0..MaxKeys
      /\ 1..made \subseteq 1..made'
  BY <1>1, <1>2, <1>3, <1>7, SMTT(60)
<1>9. exported' \in Seq(1..made') /\ IsInjective(exported') /\ spent' \in SUBSET (1..made')
  <2>1. exported \in Seq(1..made')
    BY <1>7, <1>8, SeqMonotone, ZenonT(60)
  <2>2. QED
    BY <1>2, <1>7, <1>8, <2>1, Zenon
<1>10. CASE disk' = Blob(m) /\ mem' = f /\ dirty' = FALSE
  <2>1. Range(exported') \cap Opks(f.mat) \subseteq f.mat.out /\ spent' \cap Opks(f.mat) = {}
    BY <1>2, <1>5, <1>6, Zenon
  <2>2. Staged(f, made') /\ CustOk(f, made') /\ disk' = Blob(f)
    BY <1>2, <1>5, <1>10, Zenon
  <2>3. QED
    BY <1>8, <1>9, <1>10, <2>1, <2>2, WrittenInv, ZenonT(60)
<1>11. CASE mem' = mem /\ disk' = disk /\ dirty' = dirty
  BY <1>2, <1>8, <1>11, UndoneInv, Zenon
<1>12. QED
  BY <1>2, <1>10, <1>11, ZenonT(60) DEF Persist

\* A reservation.
LEMMA ReservedOk ==
  ASSUME NEW m, NEW top, Staged(m, top), CustOk(m, top), NEW key \in Keys
  PROVE  LET t == Reserved(m, key)
         IN  /\ Staged(t, top) /\ CustOk(t, top)
             /\ Opks(t.mat) = Opks(m.mat) /\ t.mat.out = m.mat.out \cup {key}
             /\ Held(t.mat) = Held(m.mat) /\ t.slots = m.slots
<1> DEFINE t == Reserved(m, key)
           o == m.mat.out \cup {key}
           mat == [m.mat EXCEPT !.out = o]
<1>1. /\ m \in Custodians /\ m.mat \in Materials /\ m.mat # None
      /\ MatOk(m.mat, top) /\ SlotsOk(m.slots, Held(m.mat))
  BY NoneAssumption, Zenon DEF Staged
<1>2. t = [m EXCEPT !.mat = mat]
  BY <1>1, Zenon DEF Reserved, Custodians
<1>3. /\ mat \in Materials /\ mat.spks = m.mat.spks /\ mat.saks = m.mat.saks
      /\ mat.opks = m.mat.opks /\ mat.out = o
  BY <1>1, Zenon DEF Materials
<1> HIDE DEF mat, t, o
<1>4. /\ t \in Custodians /\ t.mat = mat /\ t.slots = m.slots
      /\ t.hybrid = m.hybrid /\ t.recv = m.recv
  BY <1>1, <1>2, <1>3, Zenon DEF Custodians
<1>5. Opks(mat) = Opks(m.mat)
  BY <1>3, Zenon DEF Opks
<1>6. MatOk(mat, top)
  BY <1>1, <1>3, <1>5, ZenonT(60) DEF MatOk
<1>7. Held(mat) = Held(m.mat)
  BY <1>3, <1>5, Zenon DEF Held
<1>8. RecvOk(t)
  BY <1>1, <1>3, <1>4, Zenon DEF CustOk, RecvOk
<1>9. Staged(t, top)
  BY <1>1, <1>3, <1>4, <1>6, <1>7, Zenon DEF Staged
<1>10. CustOk(t, top)
  BY <1>3, <1>8, <1>9, <1>4, NoneAssumption, Zenon DEF Staged, CustOk
<1>11. QED
  BY <1>3, <1>4, <1>5, <1>7, <1>9, <1>10, Zenon DEF t, o

\* A bundle leaves with a key that was in none before.
LEMMA ExportInv ==
  ASSUME IInv, NEW base, NEW key \in Keys, Export(base, key), spent' = spent,
         made' \in 0..MaxKeys, made <= made', Staged(base, made'), CustOk(base, made'),
         Range(exported) \cap Opks(base.mat) \subseteq base.mat.out,
         spent \cap Opks(base.mat) = {},
         key \notin Range(exported), key <= made'
  PROVE  IInv'
<1> DEFINE t == Reserved(base, key)
<1>1. /\ disk' = Blob(t) /\ mem' = t /\ dirty' = FALSE /\ exported' = Append(exported, key)
  BY Zenon DEF Export
<1>2. /\ Staged(t, made') /\ CustOk(t, made')
      /\ Opks(t.mat) = Opks(base.mat) /\ t.mat.out = base.mat.out \cup {key}
  BY ReservedOk, Zenon
<1> HIDE DEF t
<1>3. /\ exported \in Seq(1..made) /\ spent \subseteq 1..made /\ IsInjective(exported)
      /\ MaxKeys \in Nat /\ made \in Nat
  BY Numbered, Zenon
<1>4. 1..made \subseteq 1..made' /\ key \in 1..made'
  BY <1>3 DEF Keys
<1>5. exported \in Seq(1..made')
  BY <1>3, <1>4, SeqMonotone, ZenonT(60)
<1>6. /\ exported' \in Seq(1..made') /\ Range(exported') = Range(exported) \cup {key}
      /\ IsInjective(exported')
  <2> DEFINE n == Len(exported)
  <2>1. n \in Nat /\ DOMAIN exported = 1..n
    BY <1>5, SMTT(60)
  <2>2. /\ exported' \in Seq(1..made') /\ DOMAIN exported' = 1..n + 1
        /\ exported'[n + 1] = key /\ \A i \in 1..n : exported'[i] = exported[i]
    BY <1>1, <1>4, <1>5, SMTT(60)
  <2> HIDE DEF n
  <2>3. \A i \in 1..n + 1 : i = n + 1 \/ i \in 1..n
    BY <2>1, SMTT(60)
  <2>4. n + 1 \in 1..n + 1 /\ 1..n \subseteq 1..n + 1
    BY <2>1, SMTT(60)
  <2>5. Range(exported') = Range(exported) \cup {key}
    BY <2>1, <2>2, <2>3, <2>4, ZenonT(60) DEF Range
  <2>6. \A i \in 1..n : exported[i] # key
    BY <2>1, Zenon DEF Range
  <2>7. IsInjective(exported')
    BY <1>3, <2>1, <2>2, <2>3, <2>6, ZenonT(60) DEF IsInjective
  <2>8. QED
    BY <2>2, <2>5, <2>7, Zenon
<1>7. Range(exported') \cap Opks(t.mat) \subseteq t.mat.out /\ spent' \cap Opks(t.mat) = {}
  BY <1>2, <1>6, Zenon
<1>8. spent' \in SUBSET (1..made')
  BY <1>3, <1>4, Zenon
<1>9. QED
  BY <1>1, <1>2, <1>6, <1>7, <1>8, WrittenInv, ZenonT(60)

\* gy_custodian_publish_bundle.
LEMMA OneShotInv ==
  ASSUME IInv, mem # None, mem.mat # None, OneShot
  PROVE  IInv'
<1>1. /\ Staged(mem, made) /\ CustOk(mem, made) /\ Unsent(mem.mat) /\ made \in Nat
      /\ made \in 0..MaxKeys
  <2>1. made \in 0..MaxKeys /\ CustOk(mem, made)
    BY Zenon DEF IInv, TypeOK
  <2>2. QED
    BY <2>1, InvStaged, Zenon
<1>2. /\ exported \in Seq(1..made) /\ Range(exported) \subseteq 1..made
      /\ spent \subseteq 1..made /\ IsInjective(exported) /\ MaxKeys \in Nat
  BY Numbered, Zenon
<1>3. mem.mat \in Materials /\ mem.mat.opks \in Seq(Keys \cup {None}) /\ MatOk(mem.mat, made)
  BY <1>1, Zenon DEF Staged, Materials
<1>4. CASE /\ Reservable(mem.mat) # {}
           /\ Export(mem, mem.mat.opks[Min(Reservable(mem.mat))])
           /\ made' = made /\ spent' = spent
  <2> DEFINE i == Min(Reservable(mem.mat))
             key == mem.mat.opks[i]
  <2>1. i \in Reservable(mem.mat)
    <3>1. Reservable(mem.mat) \in SUBSET Nat
      BY <1>3, SMTT(60) DEF Reservable
    <3>2. QED
      BY <1>4, <3>1, MinOfNaturals, Zenon
  <2>2. i \in DOMAIN mem.mat.opks /\ key \notin mem.mat.out /\ key # None
    BY <2>1, ZenonT(60) DEF Reservable
  <2>3. key \in Keys /\ key \in Opks(mem.mat)
    BY <1>3, <2>2, SMTT(60) DEF Opks, Range
  <2>4. key \notin Range(exported)
    BY <1>1, <2>2, <2>3, Zenon DEF Unsent
  <2>5. key \in 1..made
    BY <1>3, <2>3, Zenon DEF MatOk
  <2>6. key <= made' /\ made' \in 0..MaxKeys /\ made <= made'
    BY <1>1, <1>4, <2>5, SMTT(60)
  <2>7. /\ Range(exported) \cap Opks(mem.mat) \subseteq mem.mat.out
        /\ spent \cap Opks(mem.mat) = {}
    BY <1>1, Zenon DEF Unsent
  <2>8. Export(mem, key)
    BY <1>4, Zenon
  <2> HIDE DEF key
  <2>9. QED
    BY <1>1, <1>4, <2>3, <2>4, <2>6, <2>7, <2>8, ExportInv, Zenon
<1> DEFINE minted == Rewired(Replenished(mem, 1))
<1>5. CASE /\ Room(mem) > 0 /\ made < MaxKeys
           /\ \/ Export(minted, made + 1)
              \/ /\ disk' = Blob(minted) /\ mem' = minted /\ dirty' = FALSE
                 /\ exported' = exported
           /\ made' = made + 1 /\ spent' = spent
  <2>1. 1 <= Room(mem) /\ made + 1 <= MaxKeys
    <3>1. IsFiniteSet(Range(mem.mat.opks))
      BY <1>3, RangeFinite, Zenon
    <3>2. IsFiniteSet(Opks(mem.mat))
      BY <3>1, FS_Difference, ZenonT(60) DEF Opks
    <3>3. Cardinality(Opks(mem.mat)) \in Nat
      BY <3>2, FS_CardinalityType, Zenon
    <3>4. QED
      BY <1>1, <1>2, <1>5, <3>3, CustodianAssumption, SMTT(60) DEF Room
  <2>2. Staged(Replenished(mem, 1), made + 1) /\ Grown(mem, Replenished(mem, 1), made, 1)
    BY <1>1, <2>1, ReplenishedOk, Zenon
  <2>3. /\ Range(exported) \cap Opks(Replenished(mem, 1).mat) \subseteq Replenished(mem, 1).mat.out
        /\ spent \cap Opks(Replenished(mem, 1).mat) = {}
    BY <1>1, <2>2, GrownUnsent, Zenon
  <2>4. /\ Staged(minted, made + 1) /\ CustOk(minted, made + 1)
        /\ minted.mat = Replenished(mem, 1).mat
    BY <2>2, RewiredOk, Zenon
  <2> HIDE DEF minted
  <2>5. /\ Range(exported) \cap Opks(minted.mat) \subseteq minted.mat.out
        /\ spent \cap Opks(minted.mat) = {}
    BY <2>3, <2>4, Zenon
  <2>6. /\ made' \in 0..MaxKeys /\ made <= made' /\ 1..made \subseteq 1..made'
        /\ made + 1 <= made' /\ made + 1 \in Keys /\ made + 1 \notin 1..made
    BY <1>1, <1>2, <1>5, <2>1, SMTT(60) DEF Keys
  <2>7. Staged(minted, made') /\ CustOk(minted, made') /\ made + 1 \notin Range(exported)
    BY <1>2, <1>5, <2>4, <2>6, Zenon
  <2>8. CASE Export(minted, made + 1)
    BY <1>5, <2>5, <2>6, <2>7, <2>8, ExportInv, Zenon
  <2>9. CASE /\ disk' = Blob(minted) /\ mem' = minted /\ dirty' = FALSE
             /\ exported' = exported
    <3>1. exported \in Seq(1..made')
      BY <1>2, <2>6, SeqMonotone, ZenonT(60)
    <3>2. /\ exported' \in Seq(1..made') /\ IsInjective(exported')
          /\ spent' \in SUBSET (1..made')
      BY <1>2, <1>5, <2>6, <2>9, <3>1, Zenon
    <3>3. /\ Range(exported') \cap Opks(minted.mat) \subseteq minted.mat.out
          /\ spent' \cap Opks(minted.mat) = {}
      BY <1>5, <2>5, <2>9, Zenon
    <3>4. QED
      BY <2>6, <2>7, <2>9, <3>2, <3>3, WrittenInv, ZenonT(60)
  <2>10. QED
    BY <1>5, <2>8, <2>9, ZenonT(60)
<1>6. QED
  BY <1>4, <1>5, ZenonT(60) DEF OneShot

\* gy_receive finds exactly the one-time prekeys that are held.
LEMMA ResolvesHeld ==
  ASSUME NEW m, NEW top, Staged(m, top), RecvOk(m)
  PROVE  Resolvable(m) = Opks(m.mat)
<1>1. m.mat.opks \in Seq(Keys \cup {None})
  BY Zenon DEF Staged, Materials
<1>2. (IF m.hybrid THEN Len(m.mat.opks) ELSE m.recv.n) = Len(m.mat.opks)
  BY DEF RecvOk
<1>3. QED
  BY <1>1, <1>2, SMTT(60) DEF Resolvable, Opks, Range

\* tr_consume_opk, written or not.
LEMMA ConsumeOpkInv ==
  ASSUME IInv, NEW key, ConsumeOpk(key)
  PROVE  IInv'
<1> DEFINE t == Dropped(mem, key)
<1>1. /\ mem # None /\ mem.mat # None /\ key \in Resolvable(mem) /\ mem' = t
      /\ made' = made /\ exported' = exported
  BY Zenon DEF ConsumeOpk
<1>2. /\ Staged(mem, made) /\ RecvOk(mem) /\ Unsent(mem.mat) /\ made \in Nat
      /\ made \in 0..MaxKeys
  <2>1. made \in 0..MaxKeys
    BY Zenon DEF IInv, TypeOK
  <2>2. QED
    BY <1>1, <2>1, InvStaged, Zenon
<1>3. key \in Opks(mem.mat) /\ key \in 1..made
  BY <1>1, <1>2, ResolvesHeld, ZenonT(60) DEF Staged, MatOk
<1>4. /\ Staged(t, made)
      /\ t.hybrid = mem.hybrid /\ t.wrap = mem.wrap /\ t.recv = mem.recv
      /\ t.mat.spks = mem.mat.spks /\ t.mat.saks = mem.mat.saks
      /\ Len(t.mat.opks) = Len(mem.mat.opks)
      /\ Opks(t.mat) = Opks(mem.mat) \ {key} /\ t.mat.out = mem.mat.out \ {key}
  BY <1>2, <1>3, DroppedOk, ZenonT(60)
<1> HIDE DEF t
<1>5. t \in Custodians /\ t # None /\ t.mat # None /\ CustOk(t, made)
  <2>1. RecvOk(t)
    BY <1>2, <1>4, ZenonT(60) DEF RecvOk
  <2>2. QED
    BY <1>4, <2>1, NoneAssumption, Zenon DEF Staged, CustOk
<1>6. /\ exported \in Seq(1..made) /\ spent \subseteq 1..made /\ IsInjective(exported)
  BY Numbered, Zenon
<1>7. CASE disk' = Blob(mem') /\ dirty' = FALSE /\ spent' = spent \cup {key}
  <2>1. Range(exported') \cap Opks(t.mat) \subseteq t.mat.out
    BY <1>1, <1>2, <1>4, Zenon DEF Unsent
  <2>2. spent' \cap Opks(t.mat) = {}
    BY <1>1, <1>2, <1>4, <1>7, ZenonT(60) DEF Unsent
  <2>3. /\ Staged(t, made') /\ CustOk(t, made') /\ made' \in 0..MaxKeys
        /\ exported' \in Seq(1..made') /\ IsInjective(exported')
        /\ spent' \in SUBSET (1..made')
    BY <1>1, <1>2, <1>3, <1>4, <1>5, <1>6, <1>7, Zenon
  <2>4. disk' = Blob(t)
    BY <1>1, <1>7, Zenon
  <2>5. QED
    BY <1>1, <1>7, <2>1, <2>2, <2>3, <2>4, WrittenInv, ZenonT(60)
<1>8. CASE dirty' = TRUE /\ disk' = disk /\ spent' = spent
  <2>a. TypeOK
    BY ZenonT(60) DEF IInv
  <2>1. TypeOK'
    BY <1>1, <1>5, <1>8, <2>a, ZenonT(60) DEF TypeOK
  <2>2. disk # None /\ Unsent(disk.mat)
    BY <1>1, Zenon DEF IInv
  <2>3. Unsent(mem.mat)' /\ Unsent(disk.mat)'
    <3>1. /\ Range(exported) \cap Opks(t.mat) \subseteq t.mat.out
          /\ spent \cap Opks(t.mat) = {}
      BY <1>1, <1>2, <1>4, Zenon DEF Unsent
    <3>2. QED
      BY <1>1, <1>8, <2>2, <3>1, Zenon DEF Unsent
  <2>4. MemMatchesDisk'
    <3>1. /\ mem.mat.spks = disk.mat.spks /\ mem.mat.saks = disk.mat.saks
          /\ Opks(mem.mat) \subseteq Opks(disk.mat)
      BY <1>1, Zenon DEF IInv, MemMatchesDisk
    <3>2. /\ t.mat.spks = disk.mat.spks /\ t.mat.saks = disk.mat.saks
          /\ Opks(t.mat) \subseteq Opks(disk.mat)
      BY <1>4, <3>1, Zenon
    <3>3. QED
      BY <1>1, <1>8, <3>2, Zenon DEF MemMatchesDisk, Opks
  <2>5. mem' # None /\ CustOk(mem', made')
    BY <1>1, <1>5, Zenon
  <2>6. QED
    BY <1>1, <1>6, <1>8, <2>1, <2>2, <2>3, <2>4, <2>5, ZenonT(60) DEF IInv
<1>9. QED
  BY <1>7, <1>8, ZenonT(60) DEF ConsumeOpk

\* gy_custodian_delete_prekey.
LEMMA DeleteInv ==
  ASSUME IInv, mem # None, mem.mat # None, NEW h \in Handles, Delete(h)
  PROVE  IInv'
<1> DEFINE key == mem.slots[h][2]
           m == IF mem.slots[h][1] = "OPK" THEN Dropped(mem, key) ELSE SpkDeleted(mem, h, key)
           f == Rewired(m)
<1>1. /\ mem.slots[h] # None /\ Deletable(mem.mat, mem.slots[h])
      /\ disk' = Blob(m) /\ mem' = f /\ dirty' = FALSE
      /\ made' = made /\ exported' = exported /\ spent' = spent
  BY Zenon DEF Delete, SpkDeleted
<1>2. /\ key = mem.slots[h][2] /\ f = Rewired(m)
      /\ mem.slots[h][1] = "OPK" => m = Dropped(mem, key)
      /\ mem.slots[h][1] # "OPK" => m = SpkDeleted(mem, h, key)
  BY Zenon
<1> HIDE DEF key, m, f
<1>3. Staged(mem, made) /\ Unsent(mem.mat) /\ made \in 0..MaxKeys /\ mem.slots[h] \in Names
  <2>1. made \in 0..MaxKeys
    BY ZenonT(60) DEF IInv, TypeOK
  <2>2. Staged(mem, made) /\ Unsent(mem.mat)
    BY <2>1, InvStaged, Zenon
  <2>3. QED
    BY <1>1, <2>1, <2>2, ZenonT(60) DEF Staged, SlotsOk
<1>4. /\ Staged(m, made)
      /\ Opks(m.mat) \subseteq Opks(mem.mat)
      /\ mem.mat.out \cap Opks(m.mat) \subseteq m.mat.out
  <2>1. CASE mem.slots[h][1] = "OPK"
    <3>1. key \in Opks(mem.mat)
      BY <1>1, <1>2, <2>1, ZenonT(60) DEF Deletable
    <3>2. /\ Staged(Dropped(mem, key), made)
          /\ Opks(Dropped(mem, key).mat) = Opks(mem.mat) \ {key}
          /\ Dropped(mem, key).mat.out = mem.mat.out \ {key}
      BY <1>3, <3>1, DroppedOk, ZenonT(60)
    <3>3. QED
      BY <1>2, <2>1, <3>2, ZenonT(60)
  <2>2. CASE mem.slots[h][1] # "OPK"
    <3>1. mem.slots[h][1] = "SPK" /\ key \in Range(Tail(mem.mat.spks))
      BY <1>1, <1>2, <2>2, ZenonT(60) DEF Deletable
    <3>2. mem.slots[h] = <<"SPK", key>>
      BY <1>2, <1>3, <3>1, SMTT(60) DEF Names
    <3>3. Staged(SpkDeleted(mem, h, key), made) /\ SameOpks(mem, SpkDeleted(mem, h, key))
      BY <1>3, <3>1, <3>2, SpkDeletedOk, ZenonT(60)
    <3>4. QED
      BY <1>2, <2>2, <3>3, ZenonT(60) DEF SameOpks, Opks
  <2>3. QED
    BY <2>1, <2>2, ZenonT(60)
<1>5. Staged(f, made) /\ CustOk(f, made) /\ f.mat = m.mat /\ Blob(f) = Blob(m)
  BY <1>2, <1>4, RewiredOk, RewiredBlob, ZenonT(60)
<1>6. /\ exported \in Seq(1..made) /\ spent \subseteq 1..made /\ IsInjective(exported)
  BY Numbered, Zenon
<1>7. Range(exported') \cap Opks(f.mat) \subseteq f.mat.out /\ spent' \cap Opks(f.mat) = {}
  BY <1>1, <1>3, <1>4, <1>5, Zenon DEF Unsent
<1>8. /\ Staged(f, made') /\ CustOk(f, made') /\ made' \in 0..MaxKeys
      /\ exported' \in Seq(1..made') /\ IsInjective(exported')
      /\ spent' \in SUBSET (1..made') /\ disk' = Blob(f)
  BY <1>1, <1>3, <1>5, <1>6, Zenon
<1>9. QED
  BY <1>1, <1>7, <1>8, WrittenInv, ZenonT(60)
------------------------------------------------------------------------------
\* Every call preserves the invariant.
LEMMA NextInv == IInv /\ [Next]_vars => IInv'
<1> SUFFICES ASSUME IInv, [Next]_vars PROVE IInv'
  BY Zenon
<1>1. CASE UNCHANGED vars
  <2>1. made' \in Nat /\ made <= made' /\ made' <= MaxKeys
    BY <1>1, Numbered, SMTT(60) DEF vars
  <2>2. QED
    BY <1>1, <2>1, UndoneInv, Zenon DEF vars
<1>2. ASSUME NEW cred \in Creds, NEW hybrid \in BOOLEAN, Create(cred, hybrid) PROVE IInv'
  BY <1>2, CreateInv, Zenon
<1>3. CASE Open
  BY <1>3, OpenInv, Zenon
<1>4. CASE Close \/ Reset
  BY <1>4, CloseInv, Zenon
<1>5. ASSUME NEW cred \in Creds, ChangeCredential(cred) PROVE IInv'
  BY <1>5, ChangeCredentialInv, Zenon
<1>6. ASSUME NEW n \in 0..OpkMax, GenerateIdentity(n) \/ GenHybridIdentity(n) PROVE IInv'
  BY <1>6, FirstKeysInv, Zenon DEF GenerateIdentity, GenHybridIdentity, Unlocked
<1>7. CASE RotateSignedPrekey \/ RotateHybridSpk
  BY <1>7, PushSpkInv, Zenon DEF RotateSignedPrekey, RotateHybridSpk, HaveIdentity, Unlocked
<1>8. CASE \/ GenerateAppkey \/ GenerateHybridAppkey
           \/ RotateAppkey \/ RotateHybridAppkey
  BY <1>8, PushSakInv, Zenon DEF GenerateAppkey, GenerateHybridAppkey, RotateAppkey,
                          RotateHybridAppkey, HaveIdentity, Unlocked
<1>9. ASSUME NEW n \in 1..OpkMax, GenerateOnetimePrekeys(n) \/ ReplenishHybridOpks(n)
      PROVE  IInv'
  BY <1>9, ReplenishInv, Zenon DEF GenerateOnetimePrekeys, ReplenishHybridOpks, HaveIdentity, Unlocked
<1>10. CASE PublishBundle \/ PublishHybridBundle
  BY <1>10, OneShotInv, Zenon DEF PublishBundle, PublishHybridBundle, HaveIdentity, Unlocked
<1>11. ASSUME NEW key \in Keys, ConsumeOpk(key) PROVE IInv'
  BY <1>11, ConsumeOpkInv, Zenon
<1>12. ASSUME NEW h \in Handles, DeletePrekey(h) \/ DeleteHybridPrekey(h) PROVE IInv'
  BY <1>12, DeleteInv, Zenon DEF DeletePrekey, DeleteHybridPrekey, HaveIdentity, Unlocked
<1>13. QED
  BY <1>1, <1>2, <1>3, <1>4, <1>5, <1>6, <1>7, <1>8, <1>9, <1>10, <1>11, <1>12, Zenon DEF Next

\* The inductive invariant of the custodian, whatever the sizes of its arrays
\* and of its slot table.
THEOREM CustodianInvariant == Spec => []IInv
  BY InitInv, NextInv, PTL DEF Spec

\* "publish-facing state never diverges": after any calls, failed writes and
\* restarts, an unlocked custodian holds what its blob holds, but for a one-time
\* prekey that tr_consume_opk has wiped and could not write.
THEOREM RestartSafe == Spec => []MemMatchesDisk
<1>1. IInv => MemMatchesDisk
  BY Zenon DEF IInv
<1>2. QED
  BY <1>1, CustodianInvariant, PTL

\* cust_reinit_recv is called wherever it must be: gy_receive resolves exactly
\* the keys the custodian publishes.
THEOREM ReceiverExact == Spec => []ReceiverResolvesHeld
<1>1. IInv => ReceiverResolvesHeld
  <2>1. SUFFICES ASSUME IInv, mem # None, mem.mat # None
                 PROVE  /\ Resolvable(mem) = Opks(mem.mat)
                        /\ mem.hybrid \/ mem.recv.spks = mem.mat.spks
    BY Zenon DEF ReceiverResolvesHeld
  <2>2. Staged(mem, made) /\ RecvOk(mem)
    BY <2>1, InvStaged, Zenon
  <2>3. Resolvable(mem) = Opks(mem.mat)
    BY <2>2, ResolvesHeld, Zenon
  <2>4. QED
    BY <2>2, <2>3, SMTT(60) DEF RecvOk
<1>2. QED
  BY <1>1, CustodianInvariant, PTL

\* No two one-shot bundles of gy_custodian_publish_bundle carry the same one-time
\* prekey.
THEOREM BundlesDistinct == Spec => []OneShotUnique
<1>1. IInv => OneShotUnique
  BY Zenon DEF IInv, OneShotUnique
<1>2. QED
  BY <1>1, CustodianInvariant, PTL

\* A one-time prekey that tr_consume_opk reported consumed is in no later
\* custodian or blob.
THEOREM SpentStaysSpent == Spec => []SpentNeverBack
<1>1. IInv => SpentNeverBack
  <2>1. SUFFICES ASSUME IInv, NEW s \in {disk, mem} \ {None}, s.mat # None
                 PROVE  spent \cap Opks(s.mat) = {}
    BY Zenon DEF SpentNeverBack
  <2>2. Unsent(s.mat)
    BY <2>1, Zenon DEF IInv
  <2>3. QED
    BY <2>1, <2>2, Zenon DEF Unsent
<1>2. QED
  BY <1>1, CustodianInvariant, PTL

\* cust_slot_register and gy_custodian_slot_free never leave a handle of a key
\* that was rotated out, consumed or deleted.
THEOREM HandlesNameHeld == Spec => []HandlesSound
<1>1. IInv => HandlesSound
  <2>1. SUFFICES ASSUME IInv, mem # None, mem.mat # None
                 PROVE  /\ Range(mem.slots) \ {None} \subseteq Held(mem.mat)
                        /\ \A g, h \in Handles : g # h /\ mem.slots[g] # None
                                                 => mem.slots[g] # mem.slots[h]
    BY Zenon DEF HandlesSound
  <2>2. SlotsOk(mem.slots, Held(mem.mat))
    BY <2>1, InvStaged, Zenon DEF Staged
  <2>3. QED
    BY <2>2, Zenon DEF SlotsOk, Range
<1>2. QED
  BY <1>1, CustodianInvariant, PTL

------------------------------------------------------------------------------
\* A step that leaves every held key its handle, unless more keys are held after
\* it than there are slots.
Retains ==
  /\ mem # None /\ mem.mat # None => Complete(mem)
  /\ mem' # None /\ mem'.mat # None /\ Fits(mem')
  => Complete(mem')

\* The handles are exact when none is missing.
LEMMA ExactWhenComplete ==
  ASSUME IInv
  PROVE  HandlesExact <=> (mem # None /\ mem.mat # None => Complete(mem))
<1>1. CASE mem # None /\ mem.mat # None
  <2>1. SlotsOk(mem.slots, Held(mem.mat))
    BY <1>1, InvStaged, Zenon DEF Staged
  <2>2. None \notin Held(mem.mat)
    BY <2>1, NoneAssumption, Zenon DEF SlotsOk
  <2>3. Range(mem.slots) \ {None} \subseteq Held(mem.mat)
    BY <2>1, Zenon DEF SlotsOk, Range
  <2>4. \A g, h \in Handles : g # h /\ mem.slots[g] # None => mem.slots[g] # mem.slots[h]
    BY <2>1, Zenon DEF SlotsOk
  <2>5. QED
    BY <1>1, <2>2, <2>3, <2>4, Zenon DEF HandlesExact, HandlesSound, HeldKeyHasHandle, Complete
<1>2. CASE mem = None \/ mem.mat = None
  BY <1>2, Zenon DEF HandlesExact, HandlesSound, HeldKeyHasHandle
<1>3. QED
  BY <1>1, <1>2, Zenon

\* The handles do not depend on the receive context.
LEMMA RewiredKeeps ==
  ASSUME NEW m, NEW t, NEW top, Staged(t, top), Keeps(m, t)
  PROVE  Keeps(m, Rewired(t))
<1>1. Rewired(t).mat = t.mat /\ Rewired(t).slots = t.slots
  BY RewiredOk, Zenon
<1>2. QED
  BY <1>1, Zenon DEF Keeps, Fits, Complete

\* The same of the first handles.
LEMMA InstalledComplete ==
  ASSUME NEW m \in Custodians, m.slots = [h \in Handles |-> None], NEW top \in Nat,
         NEW mat, MatOk(mat, top), Fits(Rewired(Installed(m, mat)))
  PROVE  Complete(Rewired(Installed(m, mat)))
<1> DEFINE t == Installed(m, mat)
<1>1. Staged(t, top) /\ (Fits(t) => Complete(t))
  BY InstalledOk, ZenonT(60)
<1> HIDE DEF t
<1>2. Rewired(t).mat = t.mat /\ Rewired(t).slots = t.slots
  BY <1>1, RewiredOk, Zenon
<1>3. Complete(Rewired(t))
  <2>1. Fits(Rewired(t))
    BY Zenon DEF t
  <2>2. QED
    BY <1>1, <1>2, <2>1, Zenon DEF Fits, Complete
<1>4. QED
  BY <1>3, Zenon DEF t

\* gy_custodian_open gives every sealed key a handle.
LEMMA OpenRetains ==
  ASSUME IInv, Open
  PROVE  Retains
<1> DEFINE m == New(disk.wrap, disk.hybrid)
           t == Rewired(Installed(m, disk.mat))
<1>1. mem = None /\ disk # None
  BY Zenon DEF Open
<1>2. /\ m \in Custodians /\ m.mat = None /\ m.hybrid = disk.hybrid
      /\ m.slots = [h \in Handles |-> None]
  <2>1. disk.wrap \in Creds /\ disk.hybrid \in BOOLEAN
    BY <1>1, Zenon DEF IInv, TypeOK, Blobs
  <2>2. QED
    BY <2>1, NewOk
<1>3. CASE disk.mat = None
  <2>1. mem' = m
    BY <1>3, Zenon DEF Open
  <2>2. QED
    BY <1>2, <2>1, Zenon DEF Retains
<1>4. CASE disk.mat # None
  <2>1. MatOk(disk.mat, made) /\ made \in Nat
    <3>1. made \in Nat
      BY Numbered, Zenon
    <3>2. QED
      BY <1>1, <1>4, <3>1, Zenon DEF IInv
  <2>2. Installed(m, disk.mat).hybrid = disk.hybrid
    BY <1>2, <2>1, InstalledOk, ZenonT(60)
  <2>3. mem' = t
    <3>1. CASE disk.hybrid
      <4>1. mem' = LoadHybridIdmat(m, disk.mat)
        BY <1>4, <3>1, Zenon DEF Open
      <4>2. QED
        BY <2>2, <3>1, <4>1, Zenon DEF LoadHybridIdmat, Rewired
    <3>2. CASE ~ disk.hybrid
      <4>1. mem' = LoadIdmat(m, disk.mat)
        BY <1>4, <3>2, Zenon DEF Open
      <4>2. QED
        BY <2>2, <3>2, <4>1, Zenon DEF LoadIdmat, Rewired
    <3>3. QED
      BY <3>1, <3>2, Zenon
  <2> HIDE DEF m
  <2>4. Fits(t) => Complete(t)
    BY <1>2, <2>1, InstalledComplete, Zenon
  <2>5. QED
    BY <2>3, <2>4, Zenon DEF Retains
<1>5. QED
  BY <1>3, <1>4, Zenon

\* So does the first generation of prekeys.
LEMMA FirstKeysRetains ==
  ASSUME IInv, NEW n \in 0..OpkMax, mem # None, FirstKeys(n)
  PROVE  Retains
<1> DEFINE mat == Material(<<made + 1>>, [i \in 1..n |-> made + 1 + i])
           m == Rewired(Installed(mem, mat))
<1>1. made + n < MaxKeys /\ mem.mat = None /\ Persist(m, m, mem)
  BY Zenon DEF FirstKeys
<1>2. made \in Nat /\ made + n + 1 \in Nat
  <2>1. made \in Nat
    BY Numbered, Zenon
  <2>2. QED
    BY <2>1, CustodianAssumption
<1>3. mem \in Custodians /\ mem.slots = [h \in Handles |-> None]
  BY <1>1, Zenon DEF IInv, TypeOK, CustOk
<1>4. MatOk(mat, made + n + 1)
  BY <1>1, <1>2, FirstMaterial, ZenonT(60)
<1> HIDE DEF mat
<1>5. Fits(m) => Complete(m)
  BY <1>2, <1>3, <1>4, InstalledComplete, Zenon
<1> HIDE DEF m
<1>6. mem' = m \/ mem' = mem
  BY <1>1, Zenon DEF Persist
<1>7. QED
  BY <1>1, <1>5, <1>6, Zenon DEF Retains

\* A rotated signed prekey frees the slot of the one it evicts.
LEMMA PushSpkRetains ==
  ASSUME IInv, mem # None, mem.mat # None, PushSpk
  PROVE  Retains
<1> DEFINE m == WithSpk(mem, made + 1)
           t == SpkRotated(mem, made + 1)
<1>1. Staged(mem, made) /\ made \in Nat /\ made < MaxKeys /\ made + 1 \in Keys
  <2>1. Staged(mem, made) /\ made \in Nat /\ made < MaxKeys
    BY InvStaged, Zenon DEF PushSpk
  <2>2. QED
    BY <2>1, CustodianAssumption DEF Keys
<1>2. Persist(m, Rewired(t), mem)
  BY Zenon DEF PushSpk, WithSpk, SpkRotated
<1>3. Staged(t, made + 1) /\ Keeps(mem, t)
  BY <1>1, SpkRotatedOk, Zenon
<1> HIDE DEF m, t
<1>4. Keeps(mem, Rewired(t))
  BY <1>3, RewiredKeeps, Zenon
<1>5. mem' = Rewired(t) \/ mem' = mem
  BY <1>2, Zenon DEF Persist
<1>6. QED
  BY <1>4, <1>5, Zenon DEF Retains, Keeps

\* And so does a rotated application key.
LEMMA PushSakRetains ==
  ASSUME IInv, mem # None, mem.mat # None, PushSak
  PROVE  Retains
<1> DEFINE m == WithSak(mem, made + 1)
           t == SakRotated(mem, made + 1)
<1>1. Staged(mem, made) /\ made \in Nat /\ made < MaxKeys /\ made + 1 \in Keys
  <2>1. Staged(mem, made) /\ made \in Nat /\ made < MaxKeys
    BY InvStaged, Zenon DEF PushSak
  <2>2. QED
    BY <2>1, CustodianAssumption DEF Keys
<1>2. Persist(m, t, mem)
  BY Zenon DEF PushSak, WithSak, SakRotated
<1>3. Keeps(mem, t)
  BY <1>1, SakRotatedOk, Zenon
<1> HIDE DEF m, t
<1>4. mem' = t \/ mem' = mem
  BY <1>2, Zenon DEF Persist
<1>5. QED
  BY <1>3, <1>4, Zenon DEF Retains, Keeps

\* Every one-time prekey of a batch gets a slot while there is one.
LEMMA ReplenishRetains ==
  ASSUME IInv, mem # None, mem.mat # None, NEW n \in 1..OpkMax, Replenish(n)
  PROVE  Retains
<1> DEFINE m == Replenished(mem, n)
<1>1. /\ Staged(mem, made) /\ made \in Nat
  BY InvStaged, Zenon
<1>2. made + n <= MaxKeys /\ n <= Room(mem) /\ Persist(m, Rewired(m), mem)
  BY Zenon DEF Replenish
<1>3. n \in Nat
  BY SMTT(60)
<1>4. Staged(m, made + n) /\ Keeps(mem, m)
  BY <1>1, <1>2, <1>3, ReplenishedOk, Zenon
<1> HIDE DEF m
<1>5. Keeps(mem, Rewired(m))
  BY <1>4, RewiredKeeps, Zenon
<1>6. mem' = Rewired(m) \/ mem' = mem
  BY <1>2, Zenon DEF Persist
<1>7. QED
  BY <1>5, <1>6, Zenon DEF Retains, Keeps

\* A one-shot bundle takes no slot but that of the key it may mint.
LEMMA OneShotRetains ==
  ASSUME IInv, mem # None, mem.mat # None, OneShot
  PROVE  Retains
<1>1. Staged(mem, made) /\ CustOk(mem, made) /\ made \in Nat /\ made <= MaxKeys
  <2>1. CustOk(mem, made)
    BY Zenon DEF IInv, TypeOK
  <2>2. QED
    BY <2>1, InvStaged, Zenon
<1>2. ASSUME NEW base, NEW top, NEW key \in Keys, Staged(base, top), CustOk(base, top),
             Keeps(mem, base), Export(base, key)
      PROVE  Retains
  <2>1. /\ Held(Reserved(base, key).mat) = Held(base.mat)
        /\ Reserved(base, key).slots = base.slots
    BY <1>2, ReservedOk, Zenon
  <2>2. mem' = Reserved(base, key)
    BY <1>2, Zenon DEF Export
  <2>3. QED
    BY <1>2, <2>1, <2>2, Zenon DEF Retains, Keeps, Fits, Complete
<1>3. CASE /\ Reservable(mem.mat) # {}
           /\ Export(mem, mem.mat.opks[Min(Reservable(mem.mat))])
  <2>1. mem.mat.opks \in Seq(Keys \cup {None})
    BY <1>1, Zenon DEF Staged, Materials
  <2>2. Reservable(mem.mat) \in SUBSET Nat
    BY <2>1, SMTT(60) DEF Reservable
  <2>3. Min(Reservable(mem.mat)) \in Reservable(mem.mat)
    BY <1>3, <2>2, MinOfNaturals, Zenon
  <2>4. mem.mat.opks[Min(Reservable(mem.mat))] \in Keys
    <3> DEFINE i == Min(Reservable(mem.mat))
    <3> HIDE DEF i
    <3>1. i \in DOMAIN mem.mat.opks /\ mem.mat.opks[i] # None
      BY <2>3, ZenonT(60) DEF Reservable, i
    <3>2. mem.mat.opks[i] \in Keys
      BY <2>1, <3>1, SMTT(60)
    <3>3. QED
      BY <3>2, Zenon DEF i
  <2>5. Keeps(mem, mem)
    BY Zenon DEF Keeps
  <2>6. QED
    BY <1>1, <1>2, <1>3, <2>4, <2>5, Zenon
<1> DEFINE minted == Rewired(Replenished(mem, 1))
<1>4. CASE /\ Room(mem) > 0 /\ made < MaxKeys
           /\ Export(minted, made + 1) \/ mem' = minted
  <2>1. 1 <= Room(mem) /\ made + 1 <= MaxKeys /\ made + 1 \in Keys
    <3>1. mem.mat.opks \in Seq(Keys \cup {None})
      BY <1>1, Zenon DEF Staged, Materials
    <3>2. IsFiniteSet(Opks(mem.mat))
      BY <3>1, RangeFinite, FS_Difference, ZenonT(60) DEF Opks
    <3>3. Cardinality(Opks(mem.mat)) \in Nat
      BY <3>2, FS_CardinalityType, Zenon
    <3>4. QED
      BY <1>1, <1>4, <3>3, CustodianAssumption, SMTT(60) DEF Room, Keys
  <2>2. Staged(Replenished(mem, 1), made + 1) /\ Keeps(mem, Replenished(mem, 1))
    BY <1>1, <2>1, ReplenishedOk, Zenon
  <2>3. /\ Staged(minted, made + 1) /\ CustOk(minted, made + 1)
        /\ Keeps(mem, minted)
    <3>1. Staged(minted, made + 1) /\ CustOk(minted, made + 1)
      BY <2>2, RewiredOk, Zenon
    <3>2. Keeps(mem, minted)
      BY <2>2, RewiredKeeps, Zenon
    <3>3. QED
      BY <3>1, <3>2, Zenon
  <2> HIDE DEF minted
  <2>4. CASE Export(minted, made + 1)
    BY <1>2, <2>1, <2>3, <2>4, Zenon
  <2>5. CASE mem' = minted
    BY <2>3, <2>5, Zenon DEF Retains, Keeps
  <2>6. QED
    BY <1>4, <2>4, <2>5, Zenon
<1>5. QED
  BY <1>3, <1>4, ZenonT(60) DEF OneShot

\* A consumption frees the slot of the key it wipes only.
LEMMA ConsumeOpkRetains ==
  ASSUME IInv, NEW key, ConsumeOpk(key)
  PROVE  Retains
<1>1. mem # None /\ mem.mat # None /\ key \in Resolvable(mem) /\ mem' = Dropped(mem, key)
  BY Zenon DEF ConsumeOpk
<1>2. Staged(mem, made) /\ RecvOk(mem)
  BY <1>1, InvStaged, Zenon
<1>3. key \in Opks(mem.mat)
  BY <1>1, <1>2, ResolvesHeld, Zenon
<1>4. Keeps(mem, Dropped(mem, key))
  BY <1>2, <1>3, DroppedOk, ZenonT(60)
<1>5. QED
  BY <1>1, <1>4, Zenon DEF Retains, Keeps

\* And a deletion the slot it is called with.
LEMMA DeleteRetains ==
  ASSUME IInv, mem # None, mem.mat # None, NEW h \in Handles, Delete(h)
  PROVE  Retains
<1> DEFINE key == mem.slots[h][2]
           m == IF mem.slots[h][1] = "OPK" THEN Dropped(mem, key) ELSE SpkDeleted(mem, h, key)
<1>1. /\ mem.slots[h] # None /\ Deletable(mem.mat, mem.slots[h]) /\ mem' = Rewired(m)
  BY Zenon DEF Delete, SpkDeleted
<1>2. /\ key = mem.slots[h][2]
      /\ mem.slots[h][1] = "OPK" => m = Dropped(mem, key)
      /\ mem.slots[h][1] # "OPK" => m = SpkDeleted(mem, h, key)
  BY Zenon
<1> HIDE DEF key, m
<1>3. Staged(mem, made) /\ mem.slots[h] \in Names
  <2>1. Staged(mem, made)
    BY InvStaged, Zenon
  <2>2. QED
    BY <1>1, <2>1, ZenonT(60) DEF Staged, SlotsOk
<1>4. Staged(m, made) /\ Keeps(mem, m)
  <2>1. CASE mem.slots[h][1] = "OPK"
    <3>1. key \in Opks(mem.mat)
      BY <1>1, <1>2, <2>1, ZenonT(60) DEF Deletable
    <3>2. Staged(Dropped(mem, key), made) /\ Keeps(mem, Dropped(mem, key))
      BY <1>3, <3>1, DroppedOk, ZenonT(60)
    <3>3. QED
      BY <1>2, <2>1, <3>2, ZenonT(60)
  <2>2. CASE mem.slots[h][1] # "OPK"
    <3>1. mem.slots[h][1] = "SPK" /\ key \in Range(Tail(mem.mat.spks))
      BY <1>1, <1>2, <2>2, ZenonT(60) DEF Deletable
    <3>2. mem.slots[h] = <<"SPK", key>>
      BY <1>2, <1>3, <3>1, SMTT(60) DEF Names
    <3>3. Staged(SpkDeleted(mem, h, key), made) /\ Keeps(mem, SpkDeleted(mem, h, key))
      BY <1>3, <3>1, <3>2, SpkDeletedOk, ZenonT(60)
    <3>4. QED
      BY <1>2, <2>2, <3>3, ZenonT(60)
  <2>3. QED
    BY <2>1, <2>2, ZenonT(60)
<1>5. Keeps(mem, Rewired(m))
  BY <1>4, RewiredKeeps, Zenon
<1>6. QED
  BY <1>1, <1>5, Zenon DEF Retains, Keeps

\* Every call leaves the handles of what fits.
LEMMA NextRetains ==
  ASSUME IInv, [Next]_vars
  PROVE  Retains
<1>1. CASE UNCHANGED vars
  BY <1>1, Zenon DEF vars, Retains
<1>2. ASSUME NEW cred \in Creds, NEW hybrid \in BOOLEAN, Create(cred, hybrid) PROVE Retains
  <2>1. mem' = New(cred, hybrid)
    BY <1>2, Zenon DEF Create
  <2>2. QED
    BY <2>1, Zenon DEF New, Retains
<1>3. CASE Open
  BY <1>3, OpenRetains, Zenon
<1>4. CASE Close \/ Reset
  BY <1>4, Zenon DEF Close, Reset, Retains
<1>5. ASSUME NEW cred \in Creds, ChangeCredential(cred) PROVE Retains
  <2>1. mem # None /\ mem' = [mem EXCEPT !.wrap = cred] /\ mem \in Custodians
    BY <1>5, Zenon DEF ChangeCredential, IInv, TypeOK
  <2>2. mem'.mat = mem.mat /\ mem'.slots = mem.slots
    BY <2>1, Zenon DEF Custodians
  <2>3. QED
    BY <2>1, <2>2, Zenon DEF Retains, Complete
<1>6. ASSUME NEW n \in 0..OpkMax, GenerateIdentity(n) \/ GenHybridIdentity(n) PROVE Retains
  BY <1>6, FirstKeysRetains, Zenon DEF GenerateIdentity, GenHybridIdentity, Unlocked
<1>7. CASE RotateSignedPrekey \/ RotateHybridSpk
  BY <1>7, PushSpkRetains, Zenon DEF RotateSignedPrekey, RotateHybridSpk, HaveIdentity, Unlocked
<1>8. CASE \/ GenerateAppkey \/ GenerateHybridAppkey
           \/ RotateAppkey \/ RotateHybridAppkey
  BY <1>8, PushSakRetains, Zenon DEF GenerateAppkey, GenerateHybridAppkey, RotateAppkey,
                          RotateHybridAppkey, HaveIdentity, Unlocked
<1>9. ASSUME NEW n \in 1..OpkMax, GenerateOnetimePrekeys(n) \/ ReplenishHybridOpks(n)
      PROVE  Retains
  BY <1>9, ReplenishRetains, Zenon DEF GenerateOnetimePrekeys, ReplenishHybridOpks, HaveIdentity, Unlocked
<1>10. CASE PublishBundle \/ PublishHybridBundle
  BY <1>10, OneShotRetains, Zenon DEF PublishBundle, PublishHybridBundle, HaveIdentity, Unlocked
<1>11. ASSUME NEW key \in Keys, ConsumeOpk(key) PROVE Retains
  BY <1>11, ConsumeOpkRetains, Zenon
<1>12. ASSUME NEW h \in Handles, DeletePrekey(h) \/ DeleteHybridPrekey(h) PROVE Retains
  BY <1>12, DeleteRetains, Zenon DEF DeletePrekey, DeleteHybridPrekey, HaveIdentity, Unlocked
<1>13. QED
  BY <1>1, <1>2, <1>3, <1>4, <1>5, <1>6, <1>7, <1>8, <1>9, <1>10, <1>11, <1>12, Zenon DEF Next

\* The step of HandlesKept.
LEMMA StepKeepsHandles ==
  ASSUME IInv, IInv', [Next]_vars
  PROVE  HandlesSound' /\ (HandlesExact /\ FitsSlots' => HandlesExact')
<1>1. HandlesSound'
  <2>1. CASE mem' # None /\ mem'.mat # None
    <3>1. SlotsOk(mem'.slots, Held(mem'.mat))
      BY <2>1, Zenon DEF IInv, CustOk
    <3>2. Range(mem'.slots) \ {None} \subseteq Held(mem'.mat)
      BY <3>1, Zenon DEF SlotsOk, Range
    <3>3. \A g, h \in Handles : g # h /\ mem'.slots[g] # None => mem'.slots[g] # mem'.slots[h]
      BY <3>1, Zenon DEF SlotsOk
    <3>4. QED
      BY <3>2, <3>3, Zenon DEF HandlesSound
  <2>2. QED
    BY <2>1, Zenon DEF HandlesSound
<1>2. ASSUME HandlesExact, FitsSlots' PROVE HandlesExact'
  <2>1. mem # None /\ mem.mat # None => Complete(mem)
    BY <1>2, ExactWhenComplete, Zenon
  <2>2. mem' # None /\ mem'.mat # None => Fits(mem')
    BY <1>2, Zenon DEF FitsSlots, Fits
  <2>3. mem' # None /\ mem'.mat # None => Complete(mem')
    BY <2>1, <2>2, NextRetains, Zenon DEF Retains
  <2>4. QED
    BY <1>1, <2>3, Zenon DEF HandlesExact, HeldKeyHasHandle, Complete
<1>3. QED
  BY <1>1, <1>2, Zenon

\* Whatever the number of slots, no call leaves a stale handle, and none takes
\* the handle of a held key away unless it ends with more keys than slots.
THEOREM HandlesStay == Spec => HandlesKept
<1>1. IInv /\ IInv' /\ [Next]_vars
        => [HandlesSound' /\ (HandlesExact /\ FitsSlots' => HandlesExact')]_vars
  BY StepKeepsHandles, Zenon
<1>2. QED
  BY <1>1, CustodianInvariant, PTL DEF Spec, HandlesKept

\* As long as no more keys are held than cust_slot_register has slots for,
\* gy_custodian_find_prekey has a handle for every one of them.
THEOREM HandlesComplete == Spec /\ []FitsSlots => []HandlesExact
<1>1. Init => HandlesExact
  BY Zenon DEF Init, HandlesExact, HandlesSound, HeldKeyHasHandle
<1>2. IInv /\ IInv' /\ [Next]_vars /\ HandlesExact /\ FitsSlots' => HandlesExact'
  BY StepKeepsHandles, Zenon
<1>3. QED
  BY <1>1, <1>2, CustodianInvariant, PTL DEF Spec
==============================================================================
