------------------------------ MODULE SkipStore ------------------------------
(***************************************************************************)
(* The skipped-message-key store of src/ratchet/dr_common.c, as operators  *)
(* on a store value s.  Both ratchet engines keep one such store and edit  *)
(* it either in place or on a staged copy, so the operations are functions *)
(* from stores to stores.                                                  *)
(*                                                                         *)
(* s.ent        the live entries ent[0 .. count), keyed by the order of    *)
(*              their insertion instead of by their array position: the    *)
(*              array is kept compacted, oldest first, so position order   *)
(*              is insertion order and compaction moves no key here;       *)
(* s.epochs     the epoch table, one header key shared by every entry that *)
(*              was skipped on the same receiving chain;                   *)
(* s.recvCount  successful decryptions so far, the ageing clock.           *)
(***************************************************************************)
EXTENDS Integers, FiniteSets, FiniteSetsExt, Functions

CONSTANTS
  MaxSkip,   \* GY_MAX_SKIP: entries, and slots of the epoch table
  AgeLimit,  \* GY_SKIP_AGE_LIMIT
  NoKey      \* a zeroized key

ASSUME SkipAssumption == MaxSkip \in Nat \ {0} /\ AgeLimit \in Nat \ {0}

Slots == 0 .. MaxSkip - 1

FreeSlot == [hk |-> NoKey, refs |-> 0]

EmptyStore == [ent       |-> [i \in {} |-> 0],
               epochs    |-> [e \in Slots |-> FreeSlot],
               recvCount |-> 0]

Live(s) == {e \in Slots : s.epochs[e].refs > 0}

EntriesOf(s, e) == {i \in DOMAIN s.ent : s.ent[i].epoch = e}

\* The header key an entry is filed under.
HeaderKeyOf(s, i) == s.epochs[s.ent[i].epoch].hk

\* Faulty variants: references are not decremented; never released; the
\* header key of a released slot stays.
EpochUnrefSticky(slot, drops) == IF drops > 0 /\ drops >= slot.refs THEN FreeSlot ELSE slot
EpochUnrefNever(slot, drops) == slot
EpochUnrefKeepsKey(slot, drops) ==
  IF drops > slot.refs THEN slot ELSE [hk |-> slot.hk, refs |-> slot.refs - drops]

\* One epoch_unref per dropped entry of the slot: the slot is zeroized when
\* its last reference goes.
EpochUnref(slot, drops) ==
  IF slot.refs = 0 \/ drops = 0 THEN slot
  ELSE IF drops >= slot.refs THEN FreeSlot
  ELSE [hk |-> slot.hk, refs |-> slot.refs - drops]

\* gy_drc_store_remove for every entry of D, in any order.
RemoveAll(s, D) ==
  [ent       |-> Restrict(s.ent, DOMAIN s.ent \ D),
   epochs    |-> [e \in Slots |->
                    EpochUnref(s.epochs[e], Cardinality(EntriesOf(s, e) \cap D))],
   recvCount |-> s.recvCount]

StoreRemove(s, i) == RemoveAll(s, {i})

\* Faulty variant: a slot in use is taken.
EpochInternFirstSlot(s, hk) == 0

\* The live slot that holds hk, else the lowest free slot; MaxSkip, which is
\* no slot, when there is neither.
EpochIntern(s, hk) ==
  LET held == {e \in Live(s) : s.epochs[e].hk = hk}
      free == Slots \ Live(s)
  IN  IF held # {} THEN Min(held)
      ELSE IF free # {} THEN Min(free) ELSE MaxSkip

\* The store in which store_insert looks for a slot: at capacity the oldest
\* entry has just been evicted.
MakeRoom(s) ==
  IF Cardinality(DOMAIN s.ent) = MaxSkip
  THEN StoreRemove(s, Min(DOMAIN s.ent))
  ELSE s

NextStamp(s) == Max({0} \cup DOMAIN s.ent) + 1

\* The part of store_insert after the eviction.
FileKey(s, hk, n, mk) ==
  LET e == EpochIntern(s, hk)
      k == NextStamp(s)
  IN  [ent       |-> [i \in {k} \cup DOMAIN s.ent |->
                        IF i = k
                        THEN [epoch |-> e, n |-> n, age |-> s.recvCount, mk |-> mk]
                        ELSE s.ent[i]],
       epochs    |-> [f \in Slots |->
                        IF f = e
                        THEN [hk |-> hk, refs |-> s.epochs[e].refs + 1]
                        ELSE s.epochs[f]],
       recvCount |-> s.recvCount]

StoreInsert(s, hk, n, mk) == FileKey(MakeRoom(s), hk, n, mk)

Aged(s, clock) == {i \in DOMAIN s.ent : clock - s.ent[i].age >= AgeLimit}

\* On a successful decryption: advance the clock, drop what is too old.
PostSuccess(s) ==
  LET clock == s.recvCount + 1
      kept  == RemoveAll(s, Aged(s, clock))
  IN  [ent |-> kept.ent, epochs |-> kept.epochs, recvCount |-> clock]

\* The store in a session record: the entries in order, the slots in use.
EncodeStore(s) == [ent       |-> s.ent,
                   live      |-> Restrict(s.epochs, Live(s)),
                   recvCount |-> s.recvCount]

\* The checks of dr_decode, and the store it fills in, zeroized before.
DecodeOk(r) ==
  /\ Cardinality(DOMAIN r.ent) <= MaxSkip
  /\ \A i \in DOMAIN r.ent : r.ent[i].epoch \in Slots
  /\ \A e \in DOMAIN r.live : e \in Slots /\ r.live[e].refs \in 1 .. MaxSkip

DecodeStore(r) ==
  [ent       |-> r.ent,
   epochs    |-> [e \in Slots |-> IF e \in DOMAIN r.live THEN r.live[e] ELSE FreeSlot],
   recvCount |-> r.recvCount]
------------------------------------------------------------------------------
\* Each live entry holds exactly one reference on its epoch slot.
RefsCount(s) == \A e \in Slots : s.epochs[e].refs = Cardinality(EntriesOf(s, e))

\* A slot is zeroized exactly when it has no entry, and no two live slots
\* hold the same header key.
KeysDistinct(s) ==
  /\ \A e \in Slots : s.epochs[e].refs = 0 <=> s.epochs[e].hk = NoKey
  /\ \A e, f \in Live(s) : s.epochs[e].hk = s.epochs[f].hk => e = f

\* Insertion order is age order, and nothing is older than the limit.
AgesInOrder(s) ==
  /\ \A i, j \in DOMAIN s.ent : i < j => s.ent[i].age <= s.ent[j].age
  /\ \A i \in DOMAIN s.ent : /\ s.ent[i].age <= s.recvCount
                              /\ s.recvCount - s.ent[i].age < AgeLimit
==============================================================================
