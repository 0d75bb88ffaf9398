----------------------------- MODULE Custodian ------------------------------
(***************************************************************************)
(* The custodian of src/proto/custodian.c: one identity's signed prekeys,  *)
(* one-time prekeys and application keys, live in an unlocked custodian    *)
(* and sealed behind its header in the application's identity blob.        *)
(*                                                                         *)
(* A call changes the live state, writes the whole blob, and undoes the    *)
(* change if the write fails.  The process may stop between any two calls. *)
(* Keys are numbered in the order of their generation; a key and its id    *)
(* are the same thing (gy_opk_generate avoids ids already held).  The      *)
(* hybrid suites keep the same material in larger types, and receive from  *)
(* it directly instead of through the receive context.                     *)
(***************************************************************************)
EXTENDS Naturals, Sequences, FiniteSetsExt, Functions

CONSTANTS
  None,
  Creds,      \* credentials
  SpkMax,     \* GY_CUSTODIAN_SPK_HISTORY_MAX
  SakMax,     \* GY_CUSTODIAN_SAK_HISTORY_MAX
  OpkMax,     \* GY_OPK_BATCH_MAX
  MaxSlots,   \* GY_CUSTODIAN_MAX_SLOTS
  MaxKeys     \* bound: keys generated

ASSUME CustodianAssumption ==
  {SpkMax, SakMax, OpkMax, MaxSlots, MaxKeys} \subseteq Nat \ {0}

VARIABLES
  disk,      \* the identity blob: credential of the wrap, suite, material
  mem,       \* the unlocked custodian, or None
  made,      \* the number of keys generated
  exported,  \* the one-time prekeys of the one-shot bundles, in order
  spent,     \* the one-time prekeys whose consumption returned success
  gone,      \* those consumed, in memory at least, or deleted
  dirty      \* whether a consumption is not yet in the blob

vars == <<disk, mem, made, exported, spent, gone, dirty>>

Keys == 1..MaxKeys
Handles == 1..MaxSlots

\* struct gy_cust_idmat.  An entry of opks is a key or None; out are the
\* one-time prekeys marked consumed, that is reserved for a one-shot bundle.
Material(spks, opks) ==
  [spks |-> spks, opks |-> opks, out |-> {}, saks |-> << >>]

Materials ==
  [spks : Seq(Keys), opks : Seq(Keys \cup {None}), out : SUBSET Keys, saks : Seq(Keys)]

Opks(mat) == Range(mat.opks) \ {None}

\* What a slot names, the identity blob, and an unlocked custodian.
Names == {"SPK", "OPK", "SAK"} \X Keys

Blobs == [wrap : Creds, hybrid : BOOLEAN, mat : Materials \cup {None}]

Custodians ==
  [wrap : Creds, hybrid : BOOLEAN, mat : Materials \cup {None},
   slots : [Handles -> Names \cup {None}],
   recv : [spks : Seq(Keys), n : Nat] \cup {None}]

ASSUME NoneAssumption ==
  /\ None \notin Keys /\ None \notin Names /\ None \notin Materials
  /\ None \notin Blobs /\ None \notin Custodians

\* A locked, newly created custodian.
New(cred, hybrid) ==
  [wrap |-> cred, hybrid |-> hybrid, mat |-> None,
   slots |-> [h \in Handles |-> None], recv |-> None]

Init ==
  /\ disk = None /\ mem = None
  /\ made = 0
  /\ exported = << >> /\ spent = {} /\ gone = {}
  /\ dirty = FALSE
------------------------------------------------------------------------------
\* cust_slot_register: the first free slot, if there is one.
SlotRegister(slots, entry) ==
  LET free == {h \in Handles : slots[h] = None}
  IN  IF free = {} THEN slots ELSE [slots EXCEPT ![Min(free)] = entry]

\* cust_slot_find and gy_custodian_slot_free.
SlotFree(slots, entry) ==
  [h \in Handles |-> IF slots[h] = entry THEN None ELSE slots[h]]

Entries(type, keys) == [i \in DOMAIN keys |-> <<type, keys[i]>>]

\* A rewiring that refreshes the signed prekeys only.
ReinitRecvStaleCount(m) ==
  [m EXCEPT !.recv = [spks |-> m.mat.spks,
                      n |-> IF @ = None THEN Len(m.mat.opks) ELSE @.n]]

\* cust_rebuild_spk_view and cust_reinit_recv: the receive context takes a copy
\* of the signed prekeys and the length of the live one-time prekey array.
ReinitRecv(m) ==
  [m EXCEPT !.recv = [spks |-> m.mat.spks, n |-> Len(m.mat.opks)]]

\* cust_wire_hybrid_ctxs: a hybrid custodian's receive context holds no keys;
\* gy_receive is handed the live arrays.
NoRecv(m) == m

Rewired(m) == IF m.hybrid THEN NoRecv(m) ELSE ReinitRecv(m)

\* The loops that register the keys of the arrays, in array order; an unused
\* place of an array gets no slot.
RegisterAll(slots, entries) ==
  LET reg[i \in 0 .. Len(entries)] ==
        IF i = 0 THEN slots
        ELSE IF entries[i][2] = None THEN reg[i - 1]
        ELSE SlotRegister(reg[i - 1], entries[i])
  IN  reg[Len(entries)]

\* A custodian with its material and a handle for each key.
Installed(m, mat) ==
  [m EXCEPT !.mat = mat,
            !.slots = RegisterAll(@, Entries("SPK", mat.spks)
                                       \o Entries("OPK", mat.opks)
                                       \o Entries("SAK", mat.saks))]

\* cust_load_idmat and cust_load_hybrid_idmat.
LoadIdmat(m, mat) == ReinitRecv(Installed(m, mat))
LoadHybridIdmat(m, mat) == NoRecv(Installed(m, mat))

\* cust_persist_header with the sealed material: the header carries the wrap
\* the custodian holds.
Blob(m) == [wrap |-> m.wrap, hybrid |-> m.hybrid, mat |-> m.mat]

\* A failed write that is not followed by an undo.
PersistNoUndo(changed, finished, undone) ==
  \/ /\ disk' = Blob(changed) /\ mem' = finished /\ dirty' = FALSE
  \/ /\ mem' = changed /\ UNCHANGED <<disk, dirty>>

\* cust_seal_and_persist_idmat on a changed custodian: written, it stays
\* changed as finished; not written, it is as undone.
Persist(changed, finished, undone) ==
  \/ /\ disk' = Blob(changed) /\ mem' = finished /\ dirty' = FALSE
  \/ /\ mem' = undone /\ UNCHANGED <<disk, dirty>>
------------------------------------------------------------------------------
\* gy_custodian_create, which overwrites a blob that is already there.
Create(cred, hybrid) ==
  /\ mem = None
  /\ disk' = Blob(New(cred, hybrid)) /\ mem' = New(cred, hybrid)
  /\ exported' = << >>
  /\ UNCHANGED <<made, spent, gone, dirty>>

\* gy_custodian_open with the credential of the stored wrap.
Open ==
  /\ mem = None /\ disk # None
  /\ LET m == New(disk.wrap, disk.hybrid)
     IN  mem' = CASE disk.mat = None -> m
                  [] disk.mat # None /\ disk.hybrid -> LoadHybridIdmat(m, disk.mat)
                  [] OTHER -> LoadIdmat(m, disk.mat)
  /\ UNCHANGED <<disk, made, exported, spent, gone, dirty>>

\* gy_custodian_close, or the process stopping.
Close ==
  /\ mem # None
  /\ mem' = None /\ dirty' = FALSE
  /\ UNCHANGED <<disk, made, exported, spent, gone>>

\* gy_custodian_reset: the custodian is freed whether or not the empty blob is
\* written.
Reset ==
  /\ mem # None
  /\ mem' = None /\ dirty' = FALSE
  /\ \/ disk' = None /\ exported' = << >>
     \/ UNCHANGED <<disk, exported>>
  /\ UNCHANGED <<made, spent, gone>>

\* gy_custodian_change_credential: the blob's material is carried over as it is
\* stored.
ChangeCredential(cred) ==
  /\ mem # None
  /\ mem' = [mem EXCEPT !.wrap = cred]
  /\ \/ disk' = [disk EXCEPT !.wrap = cred]
     \/ UNCHANGED disk
  /\ UNCHANGED <<made, exported, spent, gone, dirty>>
------------------------------------------------------------------------------
\* The calls below need an unlocked custodian of their suite; all but the first
\* need its identity too.
Unlocked(hybrid) == mem # None /\ mem.hybrid = hybrid
HaveIdentity(hybrid) == Unlocked(hybrid) /\ mem.mat # None

\* A first signed prekey and n one-time prekeys, installed once written.
FirstKeys(n) ==
  /\ made + n < MaxKeys
  /\ mem.mat = None
  /\ LET mat == Material(<<made + 1>>, [i \in 1..n |-> made + 1 + i])
         m == Rewired(Installed(mem, mat))
     IN  Persist(m, m, mem)
  /\ made' = made + n + 1
  /\ UNCHANGED <<exported, spent, gone>>

\* gy_custodian_generate_identity and cust_gen_hybrid_identity.
GenerateIdentity(n) == Unlocked(FALSE) /\ FirstKeys(n)
GenHybridIdentity(n) == Unlocked(TRUE) /\ FirstKeys(n)

\* The history with a new first key, and the key that falls off a full one.
Pushed(hist, key, max) ==
  LET all == <<key>> \o hist IN SubSeq(all, 1, Min({max, Len(all)}))
Evicted(hist) == hist[Len(hist)]

\* A rotation that leaves the evicted key's slot registered.
RotatedKeepsSlot(slots, type, hist, max, key) == SlotRegister(slots, <<type, key>>)

\* The slots after a rotation: the evicted key's is freed before the new key
\* takes one.
Rotated(slots, type, hist, max, key) ==
  LET freed == IF Len(hist) < max THEN slots
               ELSE SlotFree(slots, <<type, Evicted(hist)>>)
  IN  SlotRegister(freed, <<type, key>>)

\* A new active signed prekey.
PushSpk ==
  /\ made < MaxKeys
  /\ LET spks == mem.mat.spks
         m == [mem EXCEPT !.mat.spks = Pushed(spks, made + 1, SpkMax)]
     IN  Persist(m, Rewired([m EXCEPT !.slots =
                      Rotated(@, "SPK", spks, SpkMax, made + 1)]), mem)
  /\ made' = made + 1
  /\ UNCHANGED <<exported, spent, gone>>

\* gy_custodian_rotate_signed_prekey and cust_rotate_hybrid_spk.
RotateSignedPrekey == HaveIdentity(FALSE) /\ PushSpk
RotateHybridSpk == HaveIdentity(TRUE) /\ PushSpk

\* A new active application key.
PushSak ==
  /\ made < MaxKeys
  /\ LET saks == mem.mat.saks
         m == [mem EXCEPT !.mat.saks = Pushed(saks, made + 1, SakMax)]
     IN  Persist(m, [m EXCEPT !.slots =
                       Rotated(@, "SAK", saks, SakMax, made + 1)], mem)
  /\ made' = made + 1
  /\ UNCHANGED <<exported, spent, gone>>

\* gy_custodian_generate_appkey, gy_custodian_rotate_appkey and their hybrid
\* forms: the first application key is generated, a later one rotates it out.
GenerateAppkey == HaveIdentity(FALSE) /\ mem.mat.saks = << >> /\ PushSak
GenerateHybridAppkey == HaveIdentity(TRUE) /\ mem.mat.saks = << >> /\ PushSak
RotateAppkey == HaveIdentity(FALSE) /\ mem.mat.saks # << >> /\ PushSak
RotateHybridAppkey == HaveIdentity(TRUE) /\ mem.mat.saks # << >> /\ PushSak
------------------------------------------------------------------------------
\* A one-time prekey goes to the first free place of the array.
PlaceOpk(opks, key) ==
  LET free == {i \in DOMAIN opks : opks[i] = None}
  IN  IF free = {} THEN Append(opks, key) ELSE [opks EXCEPT ![Min(free)] = key]

\* One round of the loop of cust_replenish_opks.
StageOpk(m, key) ==
  [m EXCEPT !.mat.opks = PlaceOpk(@, key),
            !.slots = SlotRegister(@, <<"OPK", key>>)]

\* cust_replenish_opks before its write: n new keys placed and registered.
Replenished(m, n) ==
  LET staged[i \in 0..n] ==
        IF i = 0 THEN m ELSE StageOpk(staged[i - 1], made + i)
  IN  staged[n]

Room(m) == OpkMax - Cardinality(Opks(m.mat))

\* cust_replenish_opks and cust_replenish_hybrid_opks.
Replenish(n) ==
  /\ made + n <= MaxKeys
  /\ n <= Room(mem)
  /\ LET m == Replenished(mem, n) IN Persist(m, Rewired(m), mem)
  /\ made' = made + n
  /\ UNCHANGED <<exported, spent, gone>>

\* gy_custodian_generate_onetime_prekeys on either suite.
GenerateOnetimePrekeys(n) == HaveIdentity(FALSE) /\ Replenish(n)
ReplenishHybridOpks(n) == HaveIdentity(TRUE) /\ Replenish(n)

\* cust_first_reservable_opk's candidates.
Reservable(mat) ==
  {i \in DOMAIN mat.opks : mat.opks[i] \notin mat.out \cup {None}}

\* A reservation that is not recorded.
ReservedNot(m, key) == m

\* The custodian with a one-time prekey reserved.
Reserved(m, key) == [m EXCEPT !.mat.out = @ \cup {key}]

\* A reservation written before the bundle leaves, or taken back.
Export(base, key) ==
  LET m == Reserved(base, key)
  IN  /\ disk' = Blob(m) /\ mem' = m /\ dirty' = FALSE
      /\ exported' = Append(exported, key)

\* A one-shot bundle takes the first key to spare.  With none to spare one is
\* minted and written first, and stays if only the reservation fails.
OneShot ==
  /\ \/ /\ Reservable(mem.mat) # {}
        /\ Export(mem, mem.mat.opks[Min(Reservable(mem.mat))])
        /\ UNCHANGED made
     \/ /\ Reservable(mem.mat) = {} /\ Room(mem) > 0 /\ made < MaxKeys
        /\ LET minted == Rewired(Replenished(mem, 1))
           IN  \/ Export(minted, made + 1)
               \/ /\ disk' = Blob(minted) /\ mem' = minted /\ dirty' = FALSE
                  /\ UNCHANGED exported
        /\ made' = made + 1
  /\ UNCHANGED <<spent, gone>>

\* gy_custodian_publish_bundle and cust_publish_hybrid_bundle.
PublishBundle == HaveIdentity(FALSE) /\ OneShot
PublishHybridBundle == HaveIdentity(TRUE) /\ OneShot

\* The custodian without a one-time prekey, and with its slot free.
Dropped(m, key) ==
  [m EXCEPT !.mat.opks = [i \in DOMAIN @ |-> IF @[i] = key THEN None ELSE @[i]],
            !.mat.out = @ \ {key},
            !.slots = SlotFree(@, <<"OPK", key>>)]

\* The one-time prekeys gy_receive finds: the context's length of the live
\* array, or a hybrid custodian's own.
Resolvable(m) ==
  LET n == IF m.hybrid THEN Len(m.mat.opks) ELSE m.recv.n
  IN  {m.mat.opks[i] : i \in 1..n} \ {None}

\* A consumption that is not written.
ConsumeOpkUnsaved(key) ==
  /\ mem # None
  /\ mem.mat # None
  /\ key \in Resolvable(mem)
  /\ mem' = Dropped(mem, key) /\ dirty' = TRUE
  /\ spent' = spent \cup {key} /\ gone' = gone \cup {key}
  /\ UNCHANGED <<disk, made, exported>>

\* tr_consume_opk, the last step of receiving an initial message: the key is
\* wiped from memory for good, whether or not that can be written.
ConsumeOpk(key) ==
  /\ mem # None
  /\ mem.mat # None
  /\ key \in Resolvable(mem)
  /\ mem' = Dropped(mem, key)
  /\ \/ disk' = Blob(mem') /\ dirty' = FALSE /\ spent' = spent \cup {key}
     \/ dirty' = TRUE /\ UNCHANGED <<disk, spent>>
  /\ gone' = gone \cup {key}
  /\ UNCHANGED <<made, exported>>

\* A one-time prekey, or a signed prekey that is not the active one.
Deletable(mat, entry) ==
  \/ entry[1] = "OPK" /\ entry[2] \in Opks(mat)
  \/ entry[1] = "SPK" /\ entry[2] \in Range(Tail(mat.spks))

\* A history without key, the older ones moved up.
Without(hist, key) ==
  LET i == Min({j \in DOMAIN hist : hist[j] = key})
  IN  SubSeq(hist, 1, i - 1) \o SubSeq(hist, i + 1, Len(hist))

\* The key a handle names is deleted once that is written.
Delete(h) ==
  /\ mem.slots[h] # None /\ Deletable(mem.mat, mem.slots[h])
  /\ LET key == mem.slots[h][2]
         m == IF mem.slots[h][1] = "OPK" THEN Dropped(mem, key)
              ELSE [mem EXCEPT !.mat.spks = Without(@, key), !.slots[h] = None]
     IN  /\ disk' = Blob(m) /\ mem' = Rewired(m) /\ dirty' = FALSE
         /\ gone' = gone \cup {key}
  /\ UNCHANGED <<made, exported, spent>>

\* gy_custodian_delete_prekey and cust_delete_hybrid_prekey.
DeletePrekey(h) == HaveIdentity(FALSE) /\ Delete(h)
DeleteHybridPrekey(h) == HaveIdentity(TRUE) /\ Delete(h)
------------------------------------------------------------------------------
Next ==
  \/ \E cred \in Creds, hybrid \in BOOLEAN : Create(cred, hybrid)
  \/ Open
  \/ Close
  \/ Reset
  \/ \E cred \in Creds : ChangeCredential(cred)
  \/ \E n \in 0..OpkMax : GenerateIdentity(n) \/ GenHybridIdentity(n)
  \/ RotateSignedPrekey \/ RotateHybridSpk
  \/ GenerateAppkey \/ GenerateHybridAppkey
  \/ RotateAppkey \/ RotateHybridAppkey
  \/ \E n \in 1..OpkMax : GenerateOnetimePrekeys(n) \/ ReplenishHybridOpks(n)
  \/ PublishBundle \/ PublishHybridBundle
  \/ \E key \in Keys : ConsumeOpk(key)
  \/ \E h \in Handles : DeletePrekey(h) \/ DeleteHybridPrekey(h)

Spec == Init /\ [][Next]_vars
------------------------------------------------------------------------------
\* "publish-facing state never diverges": whatever writes failed before, an
\* unlocked custodian holds what its blob holds, so that a restart changes
\* nothing, except for a one-time prekey consumed but still sealed.
MemMatchesDisk ==
  mem # None =>
    IF dirty
    THEN /\ mem.mat.spks = disk.mat.spks /\ mem.mat.saks = disk.mat.saks
         /\ Opks(mem.mat) \subseteq Opks(disk.mat)
    ELSE mem.mat = disk.mat

\* The context of gy_receive resolves exactly the signed prekeys and one-time
\* prekeys the custodian publishes.
ReceiverResolvesHeld ==
  mem # None /\ mem.mat # None =>
    /\ Resolvable(mem) = Opks(mem.mat)
    /\ mem.hybrid \/ mem.recv.spks = mem.mat.spks

Held(mat) ==
  UNION {{<<"SPK", k>> : k \in Range(mat.spks)}, {<<"OPK", k>> : k \in Opks(mat)},
         {<<"SAK", k>> : k \in Range(mat.saks)}}

\* gy_custodian_find_prekey has a handle for every key that is held.
HeldKeyHasHandle ==
  mem # None /\ mem.mat # None => Held(mem.mat) \subseteq Range(mem.slots)

\* A handle names a held key, and no other handle names it.
HandlesSound ==
  mem # None /\ mem.mat # None =>
    /\ Range(mem.slots) \ {None} \subseteq Held(mem.mat)
    /\ \A g, h \in Handles : g # h /\ mem.slots[g] # None => mem.slots[g] # mem.slots[h]

\* The handles name the held keys, each key once.
HandlesExact == HandlesSound /\ HeldKeyHasHandle

\* No more keys are held than cust_slot_register has slots for.
FitsSlots == mem # None /\ mem.mat # None => Cardinality(Held(mem.mat)) <= MaxSlots

\* No call leaves a handle of a key that was rotated out, consumed or deleted,
\* and none takes a held key's handle away unless it ends with more keys than
\* slots: a rotation at a full table reuses the slot it frees, and a failed
\* write gives back the one it took.
HandlesKept ==
  [][HandlesSound' /\ (HandlesExact /\ FitsSlots' => HandlesExact')]_vars

\* No two one-shot bundles carry the same one-time prekey, across failed writes
\* and restarts.
OneShotUnique == IsInjective(exported)

\* A one-time prekey whose consumption was reported done is in no later state,
\* not after a restart either.
SpentNeverBack ==
  \A s \in {disk, mem} \ {None} : s.mat # None => spent \cap Opks(s.mat) = {}
==============================================================================
