---------------------------- MODULE SkipStoreSpec ----------------------------
(***************************************************************************)
(* The skipped-key store as a component of its own: one store and the      *)
(* three operations the ratchet engines run on it, in any order and with   *)
(* any arguments.                                                          *)
(***************************************************************************)
EXTENDS SkipStore

CONSTANTS HeaderKey, MsgNum, MessageKey,
          MaxClock,  \* bound on recvCount, a uint64_t in the code
          MaxStamp   \* bound on the insertion order that keys the entries

ASSUME SpecAssumption == /\ NoKey \notin HeaderKey
                         /\ MsgNum \subseteq Nat
                         /\ MaxClock \in Nat
                         /\ MaxStamp \in Nat

VARIABLE store

Init == store = EmptyStore

\* store_insert, as gy_drc_skip_forward calls it.
Insert(hk, n, mk) == /\ NextStamp(store) <= MaxStamp
                     /\ store' = StoreInsert(store, hk, n, mk)

\* gy_drc_store_remove, as a decryption with a skipped key calls it.
Remove(i) == store' = StoreRemove(store, i)

\* gy_drc_store_post_success.
Succeed == /\ store.recvCount < MaxClock
           /\ store' = PostSuccess(store)

Next == \/ \E hk \in HeaderKey, n \in MsgNum, mk \in MessageKey : Insert(hk, n, mk)
        \/ \E i \in DOMAIN store.ent : Remove(i)
        \/ Succeed

Spec == Init /\ [][Next]_store
------------------------------------------------------------------------------
Entry == [epoch : Slots, n : MsgNum, age : Nat, mk : MessageKey]

StoreType(s) ==
  /\ s = [ent |-> s.ent, epochs |-> s.epochs, recvCount |-> s.recvCount]
  /\ s.ent \in [DOMAIN s.ent -> Entry]
  /\ DOMAIN s.ent \subseteq Nat \ {0}
  /\ IsFiniteSet(DOMAIN s.ent)
  /\ Cardinality(DOMAIN s.ent) <= MaxSkip
  /\ s.epochs \in [Slots -> [hk : HeaderKey \cup {NoKey}, refs : Nat]]
  /\ s.recvCount \in Nat

\* The store's shape: at most MaxSkip entries, every epoch a slot of the table.
TypeOK == StoreType(store)

\* Each live entry holds exactly one reference on its epoch slot, whatever mix
\* of insertions, evictions, uses and ageing came before (dr_common.h:63-66).
RefsCountEntries == RefsCount(store)

\* "Two live epochs never share an hk", and a header key is zeroized the
\* moment its last entry is gone (dr_common.h:50-54).
EpochKeysDistinct == KeysDistinct(store)

\* Entries lie oldest first, so evicting the first one evicts the oldest, and
\* no entry outlives the age limit (dr_common.h:28-32, 61-63).
AgesOrdered == AgesInOrder(store)

\* epoch_intern always finds a slot when store_insert calls it, so its
\* unchecked write to epochs[free_slot] stays in the table (dr_common.c:132).
SlotAlwaysFree ==
  \A hk \in HeaderKey : EpochIntern(MakeRoom(store), hk) \in Slots

\* A session saved and loaded again has the store it had: no reachable store is
\* refused by the range checks of dr_decode, and what dr_encode leaves out, the
\* slots with no reference, holds nothing (session.c:217-241, 318-352).
RecordExact == LET r == EncodeStore(store) IN DecodeOk(r) /\ DecodeStore(r) = store

\* The store as its callers see it: every entry with the header key of its slot.
KeysOf(s) == [i \in DOMAIN s.ent |->
                [hk  |-> HeaderKeyOf(s, i), n  |-> s.ent[i].n,
                 age |-> s.ent[i].age,      mk |-> s.ent[i].mk]]

Abstract == INSTANCE SkippedKeys WITH keys <- KeysOf(store), clock <- store.recvCount

\* The table of shared header keys is invisible: an entry answers, for as long
\* as it lives, to the header key it was inserted with, and to no other.
ImplementsSkippedKeys == Abstract!Spec
==============================================================================
