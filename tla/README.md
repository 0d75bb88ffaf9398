# A TLA+ model of libtalos_geryon

The library implements a Signal-style messaging stack in C: key agreement,
Double Ratchet sessions (classical and hybrid with ML-KEM), Sesame session
management over a transactional record store, a custodian for long-term keys,
a private group system with anonymous credentials (`group/`) and a post-quantum
one (`qspgs/`).  This directory models its stateful parts and its formats,
model-checks them with TLC and proves with TLAPS, for every size of the instance,
what the skipped-key store, both ratchets, the custodian and both group systems
promise.  Paths below are relative to the repository's `src/` unless they start
with `examples/` or `include/`.

## 1. The system

| part | source | modules |
|---|---|---|
| skipped-key store | `ratchet/dr_common.c` | SkipStore, SkipStoreSpec, SkippedKeys, SkipStoreProofs |
| double ratchet | `ratchet/double_ratchet.c` | DrCommon, DoubleRatchet, Ratchet, RatchetProofs |
| hybrid double ratchet | `ratchet/hybrid_double_ratchet.c` | HybridRatchet, Ratchet, RatchetProofs |
| staging store | `session/store.c` | StagedOp |
| Sesame records, lifecycle, send, receive | `session/session.c`, `lifecycle.c`, `send.c`, `recv.c` | SessionOps |
| public session API | `proto/api.c` | Endpoint, MCEndpoint, Converge, MCConverge |
| custodian | `proto/custodian.c` | Custodian, MCCustodian, CustodianProofs |
| handshakes, prekeys | `kex/x3dh.c`, `kex/prekeys.c` | Kex, Wire |
| wire formats and record codecs | `*_wire.c`, `envelope.c`, `header.c`, `session.c` | Codec, WireFormats, Wire |
| private groups | `group/`, `examples/group_coordinator.c` | GroupCrypto, GroupState, GroupServer, Group, MCGroup, GroupProofs |
| post-quantum groups | `qspgs/`, `examples/qsgroup_coordinator.c` | QspgsCrypto, QspgsOps, QspgsFetch, QspgsServer, Qspgs, MCQspgs, QspgsHistory, QspgsLemmas, QspgsSteps, QspgsProofs |
| messaging demo | `examples/coordinator.c`, `client.c`, `demo_driver.c` | MsgRelay, MsgDemo |

How they interact.  The custodian hands its keys to the send and receive
contexts.  A send transaction (`gy_send_open` .. `gy_commit`) stages record
changes while the application fetches bundles, then commits them as a series of
store callbacks; a receive stages and commits within one call.  Both run the
ratchet on a session record, and the ratchet runs the skipped-key store.  The
group systems keep sealed records through the same kind of callbacks; their
servers hold no keys of the members and decide by comparing.  The library has no
threads: concurrency comes from the network, from two sides of a session, from
calls inside an open transaction, from several clients of one server, from store
callbacks that fail and from a process that stops between two of them.

What is hard here, and what the properties are about:

* messages lost, reordered, duplicated or damaged while both sides turn the
  ratchet; the bounded store of skipped keys with shared header keys;
* a commit that is a sequence of callbacks, cut short anywhere;
* both sides initiating at once;
* bounded lists: sessions, stages, prekey histories, handles;
* every custodian write undone by hand when it fails, and one-time prekeys that
  must be neither handed out twice, nor lost, nor restored;
* a group key that is staged, submitted, answered or not, committed or rolled
  back, while another admin edits the same version;
* credential answers that arrive after a later request;
* signatures and handshakes over objects that are decoded, checked in pieces by
  different functions and encoded again.

`PROJECT.json` lists each hazard with its line and the properties that cover it.

## 2. The modules

```
SkippedKeys <--refines-- SkipStoreSpec -- SkipStoreProofs
                              |
                          SkipStore
                              |
            DrCommon -- DoubleRatchet -- HybridRatchet -- Ratchet -- RatchetProofs

StagedOp -- SessionOps -+- Endpoint -- MCEndpoint
                        +- Converge -- MCConverge
Custodian -+- MCCustodian
           +- CustodianProofs
Codec -- WireFormats -- Kex -- Wire
GroupCrypto -- GroupState -- GroupServer -- Group -+- MCGroup
                                                   +- GroupProofs
QspgsCrypto -+- QspgsOps -- QspgsFetch -+          +- MCQspgs
             +- QspgsServer ------------+- Qspgs --+- QspgsLemmas -- QspgsSteps -- QspgsProofs
QspgsHistory <--refines-- Qspgs
MsgRelay -- MsgDemo
```

The proof modules share `FiniteLemmas`.

**SkipStore** has the operators of `dr_common.c` on one store: interning a
header key in the epoch table, counting references, evicting the oldest entry,
ageing, and the store's part of a session record.  Entries are keyed by
insertion order instead of array position: the code keeps its array in that
order.  **SkipStoreSpec** runs them as a state machine; **SkippedKeys** is what
the store promises, a plain bounded queue of (header key, number, message key)
with no sharing.

**DrCommon** is the symbolic key schedule: a chain key is the root key and a
position, so that keys are equal exactly when they were derived alike.
**DoubleRatchet** has `gy_dr_encrypt` and `gy_dr_decrypt` of two sides;
`Decrypt` has the code's three ends: with a skipped key, with the chain (perhaps
after a ratchet step), or rejected with the state as it was.  **HybridRatchet**
adds the ML-KEM ratchet with its refresh interval and the confirmation of the
initiator's identity key; decapsulation never fails and yields another secret
for another key, as in the code.  **Ratchet** puts either engine on a network in
which a message once sent may arrive at any time, any number of times, intact or
damaged, or never.

**StagedOp** is `store.c`: staging with read-your-writes, the capacity of each
staging area, and the callback order of the commit, each of which may fail.  A
one-time prekey is live, wiped in memory but still in the sealed blob (its
consumption failed at the seal), or gone; opening the custodian again makes a
wiped one live, and the next blob sealed lets it go.  **SessionOps** has the
bodies of `lifecycle.c`, `send.c` and `recv.c`, classical and hybrid, as
functions from what they load to the list of staging calls they make, in the
code's order, and the result they return; a failure half way leaves the earlier
calls staged, as in the code.  A session is its base key and the numbers already
received on it: the ratchet below accepts each message once, which `Ratchet`
checks.  **Endpoint** is one custodian's API against one peer user's devices;
with faults, any callback of a commit fails, the process stops after a receive
has committed and before the application has the plaintext (`ReceiveCut`), or
between two calls (`Reopen`);
**Converge** is two custodians that talk to each other.

**Custodian** is `custodian.c`: the live material and the identity blob, the
handle table, and the receive context's copies.  Keys are numbered as they are
generated.  Every call that writes the blob either succeeds, or fails and undoes
its change; a write that fails is taken to have changed nothing.  The classical
and the hybrid functions are separate actions over shared bodies that differ in
whether the receive context is rewired.

**Codec** encodes and decodes sequences of units, a unit standing for one
fixed-width field; **WireFormats** gives the layout of every object as the
encoder and the decoder check it, the two sets apart where the code's checks
differ.  **Kex** validates bundles and runs both sides of X3DH on decoded
objects; keys are numbers, a key id is an injective function of the encoded key,
a secret is the sequence of what went into it, and the negotiated flag has its
two fields with scaled widths.  **Wire** encodes an object, lets a store or a
server damage it, and decodes it; bundles are assembled from parts of several
users, Alice answers those she accepts, and her message is damaged or mixed with
others' on its way to Bob.

**GroupCrypto** has credentials, proofs and ciphertexts as terms.
**GroupState** is the client facade over its records: each call maps a store to
a return code, an object and a store, given which of its writes fail and the size
of the caller's buffer.  **GroupServer** is the server facade and the roster the
example coordinator keeps.  **Group** lets an application make these calls in any
order, with posts and answers that stay in the network.

**QspgsOps** and **QspgsFetch** are the client: edits, appendix lines,
invitations, join links, the checks of a fetched version and consolidation.
**QspgsServer** has the server's checks.  **Qspgs** runs several clients against
the server the example coordinator builds on them, with lost answers, a commit
of the staged key that stops half way, restarts and stale answers.
**QspgsHistory** is what a group promises: one line of versions, each made by an
admin of the one before, with a fresh key whenever somebody is dropped.

**MsgRelay** is the relay process, **MsgDemo** the two scripted clients with the
reinstallation and the restart the driver performs.

## 3. The runs

| run | instance | what it shows |
|---|---|---|
| `skip_store` | capacity 3, age limit 2, four header keys | exact reference counts, a free slot whenever one is needed, a saved store loads as it was; the store refines the queue |
| `ratchet` | a classical session and hybrid ones with intervals 1 and 2, room for two skipped keys, age limit 3, eight messages | no replay, no key used twice, no key kept from which an accepted message could be opened, what fits the store stays receivable, both sides agree on the confirmation |
| `endpoint` | two devices and two sessions, and one device with three sessions, without faults; one device, both suites, with any callback failing and reopening | records consistent, each message accepted once, a redelivered initial message usable while no callback fails; a prekey wiped only for a session then stored, a message returned only with its prekey spent, and once; pinned keys never revert |
| `converge` | two custodians, three base keys, three messages each, loss | crossing initiations converge, nothing is refused, both get a session, "confirmed" is borne out by the peer |
| `custodian` | 5 keys, two credentials, histories of 2 and 1, pool of 2, four handles (one key more overflows them), all writes failing at will | memory, blob and receive context agree; one-time prekeys exported once, held until used, never restored; no call leaves a handle without its key, nor a held key without its handle unless the keys outnumber the table |
| `wire` | 33 formats, lists of up to two entries, one edit per leg | what is encoded is decoded, decoding is strict (two exceptions, see 4), signatures over re-encoded objects pin every field, a handshake is refused or leaves both sides with one session |
| `group` | one custodian and another account, or one custodian that asks twice; two profile keys, failing writes, late and repeated messages, short buffers | credentials held verify, the roster is readable and vouched for, presentations are accepted, a group's key goes last |
| `qspgs` | a standing group of three and a newcomer, ten scenarios that also fix who knows whom | the head stays readable for who signed it and unreadable for who was dropped (unless listed again or while the join link is open), lines seen are not lost, staged keys are resolved, members catch up, the versions refine one linear history |
| `msg_demo` | the demo's scripts, with and without a process killed and waits that time out | no one-time prekey issued twice, the scripts succeed, everybody ends |
| `endpoint_retry` | one device, failing callbacks | violation, see 4 |
| `custodian_slots` | fewer handles than keys | violation, see 4 |
| `qspgs_settle` | an invitation, its answer, a consolidation | violation, see 4 |

Scenarios.  `Endpoint`, `Group` and `Qspgs` carry a record in their state that says which
calls, users and faults a behaviour has.  One run thus explores several
instances, each with the operations whose interplay is at stake, where all
operations at once would be out of reach.  The scenarios are in `MCEndpoint`,
`MCGroup` and `MCQspgs`; the theorems on `Group` and `Qspgs` hold for every
scenario, also for one with all operations and all users.

Why the bounds are enough.  Each bound is the smallest that makes its case
happen with something to spare: a store of 3 has a first, a middle and a last
entry; eight messages allow two full turns of the ratchet with messages of the
old chain outstanding; three sessions overflow one active and one inactive
place; five keys allow a signed prekey to be pushed out of a history of two while
one-time prekeys are exported, consumed, and generated into the place of another;
two versions beyond the standing one let both admins edit, lose, and edit again;
two profile keys and two blind requests let an answer belong to a request that
was overwritten.  The code's limits (1000 skipped keys, 40 inactive sessions, 32
devices, 100 one-time prekeys) enter the code only through comparisons the models
keep.  In `Kex` a field of 2^16 values has 4 and the longest interval 100 is 2,
so that both ends and one value beyond each occur.  `MaxSent`, `MaxTotal`,
`MaxClock`, `MaxStamp`, `MaxN`, `MaxIk`, `MaxSends`, `MaxKeys`, `MaxNow`,
`MaxNet`, `MaxEdits`, the number of requests in a `Group` scenario and the `max`
fields of a `Qspgs` scenario cut unbounded histories.  Devices and base keys are interchangeable in `MCEndpoint`,
credentials in `MCCustodian`, profile keys in `MCGroup` (symmetry); runs with a liveness property use none.
Deadlock checking is off where a bounded exchange really ends.

Fairness.

* `converge` (`BothGetSession`): a message on its way is eventually received or
  lost.  The application passes each delivered message to `gy_receive`, which
  always returns; the property promises nothing once a message was lost, since
  the library does not resend.  Nobody is assumed to send.
* `qspgs` (`StagedResolved`, `MembersCatchUp`): a request under way goes on: the
  server answers what it received, the client acts on the answer or asks again
  (`include/geryon_qspgs.h` demands that the caller resolve an edit), and keys on
  their way arrive.  Nobody has to edit, to fetch or to stay up.
  `MembersCatchUp` is stated for one rotating admin: with two, an older key may
  overwrite a newer one (section 4).
* `msg_demo` (`EveryoneEnds`): processes that can run do run, and a wait for an
  answer ends after the demo's ten seconds.

Mutants.  Each property is also checked to fail when one definition is replaced
by a faulty variant of the code it models; the variants stand before their
originals and are marked as such.

## 4. Where code and documents differ

With a run that shows it:

* **`endpoint_retry`**: the commit stores the device record that lists a new
  session before the session.  Cut short there, the store sends the redelivered
  initial message to a session that does not exist, for good; `session/store.h:209`
  calls the state "replay-safe".
* **`custodian_slots`**: 48 handles serve up to 108 keys, registration failures
  are dropped, and `gy_custodian_find_prekey` reports a held key as not held
  (`include/geryon.h:528`).
* **`qspgs_settle`**: decrypting a pending member entry clears the key of its
  invitation (`qspgs/qspgs_ops.c:698`), so no queued acceptance opens and
  consolidation settles nobody, against `include/geryon_qspgs.h:845`.

Read off the code while modelling, without a run of their own.  Sessions:

* `gy_receive` inside an open send transaction commits a session record that
  `gy_commit` then overwrites with an older one, and a message already returned
  is accepted again (`proto/api.c:342`; `docs/decisions/x3dh.md:33`); the same
  holds for `accept_identity` inside an open transaction.  `endpoint` checks
  `AcceptedOnce` without such calls;
* an initiation that fails on the bundle's signature leaves the bundle's
  identity staged (`session/send.c:335`), where `docs/decisions/sesame.md:228`
  says a send error discards all changes;
* a skipped key is aged out after `GY_SKIP_AGE_LIMIT - 1` later decryptions
  (`ratchet/dr_common.c:182`, against `dr_common.h:30`): the decryption that
  stores it ticks the clock too;
* after a failed consumption and a deleted session record, the one-time prekey
  makes the session again and its messages are accepted anew (`store.h:24`);
* an `accept_identity` interrupted between its stores and its deletions leaves
  sessions no record lists, and purging does not find them (`store.h:26`);
* expired sessions are still activated (`sesame.md:168`);
* session ids have four bytes and the full base key is not compared
  (`sesame.md:377`); every run takes ids to be distinct;
* a lost initial message is not sent again by later sends
  (`double_ratchet.md:169`);
* `gy_pq_pending` follows the active session, so it may go back from confirmed
  to pending;
* nothing marks a device stale, so a full index of 32 devices refuses for good;
* a one-time prekey consumption that fails, before or after the key was wiped in
  memory, makes `gy_receive` fail after the session was stored; the message is
  then a used one and its plaintext is not returned again;
* a failed `change_credential` leaves the new wrap in memory, and the next write
  of anything stores it;
* a freed handle is reused, so a stale one names another key
  (`include/geryon.h:537`);
* `gy_bundle_parse` takes any non-zero byte for the presence of a one-time
  prekey, so a bundle has several encodings; `StrictDecode` leaves it out;
* `dr_decode` puts each header key at the slot its entry names, in any order and
  over an earlier one (`session/session.c:339`), and `dr_encode` writes the slots
  in order: a record whose slots do not ascend is loaded and saved as another one.
  `StrictDecode` asks of such a record only that the saved one is loaded alike;
* opening a custodian restores neither the expiry policy nor the clock
  (`proto/custodian.c:898`): the application sets them again;
* `examples/client.c:1442` describes a session rule the library does not have.

Private groups:

* a size query (a null buffer) is not free of effects: `update_profile_key`,
  `profile_key_commit`, `pk_credential_request` and `delete_member` have written
  their records before they look at the buffer (`group/group_facade_client.c:848`,
  `group_state.c:661`; `include/geryon_group.h:41`), and so has a call that fails
  for a short one;
* forgetting a group leaves credentials of other members
  (documented, `group_state.h:142`) and perhaps a blinding state; an answer that
  arrives afterwards creates records again;
* `update_profile_key` removes a credential just issued;
* expired day credentials stay in the store (D-GRP-7);
* an invitation downgrades the coordinator's entry of a full member.

Post-quantum groups:

* the server looks the signer of a new core up by its index in that core in the
  list of the version before (`qspgs/qspgs_server.c:152`): when a removal has
  shifted the admin's index, a legitimate edit is refused
  (`include/geryon_qsgroups_server.h:187`);
* the secret of a join link is stored, or deleted, before the server has seen the
  edit (`qspgs_facade_client.c:2134`, `3949`; `include/geryon_qspgs.h:700`);
* `install_group_key` overwrites the key held without comparing versions, and
  `create` overwrites it before the server accepted;
* a request the server gets to only after its client asked, heard no and rolled
  back leaves a head nobody can read.  In `Qspgs` a request that is lost is never
  served, and `HeadReadable` is checked on that assumption;
* consolidation and revocation may fail for their buffers after the new key was
  staged;
* the last admin can demote itself or leave; `set_admin` on oneself is accepted
  by the server and then refused by every fetch; on a pending entry it is lost at
  the next rotation;
* a rotation needs the acquaintance of all members, and an account registered
  anew makes the fetch of those not acquainted fail;
* the coordinator clears the appendix with every accepted core
  (`examples/qsgroup_coordinator.c:476`, against its comment at 133) and does not
  compare the version a line names; a fetch of the same version may show fewer
  lines than before;
* neither client nor server asks whether a user is listed already: one that is
  invited, added or joins again (a join sent again after a lost answer, say) is
  listed twice.

## 5. What is proved

Eight modules hold theorems.  Each component's theorems rest on one inductive
invariant, called `IInv` in its module, with one lemma per operation that the
operation preserves it.  Nothing is assumed of the constants but the named
`ASSUME`s of the specifications, which TLC evaluates in the runs.

| module | theorem | property of a run | for every |
|---|---|---|---|
| SkipStoreProofs | `RefsExact`, `InternInBounds`, `RecordsExact` | `RefsCountEntries`, `SlotAlwaysFree`, `RecordExact` | capacity, age limit, set of keys |
| | `StoreRefinesQueue` | `ImplementsSkippedKeys` | |
| | `TypeCorrect`, `EpochsDistinct`, `AgesCorrect` | | |
| RatchetProofs | `NeverReplayed`, `ForwardSecret`, `KeysUsedOnce` | `NoReplay`, `ForwardSecrecy`, `KeysNeverReused` | capacity, age limit, refresh interval, number of messages |
| | `ConfirmationSound` | `ConfirmationAgreed` | |
| CustodianProofs | `RestartSafe`, `ReceiverExact`, `BundlesDistinct`, `SpentStaysSpent` | `MemMatchesDisk`, `ReceiverResolvesHeld`, `OneShotUnique`, `SpentNeverBack` | length of the histories, size of the pool and of the handle table, number of keys |
| | `HandlesStay` | `HandlesKept` | |
| | `HandlesNameHeld`, `HandlesComplete` | | |
| GroupProofs | `CredentialsSound`, `RosterGood`, `PresentationsGood`, `MasterKeyGoesLast` | `CredentialsVerify`, `RosterSound`, `PresentationsAccepted`, `MasterKeyLast` | set of custodians, accounts and profile keys, length of a day, roster size, scenario |
| QspgsProofs | `RemovedCannotReadHolds` | `RemovedCannotRead` | set of users, standing group, mix of operations, number of versions and keys |
| | `HistoryImplemented` | `ImplementsHistory` | |

`FiniteLemmas` has the facts on finite sets, minima, maxima and sequences the
others share.

**The skipped-key store** (`SkipAssumption`, `SpecAssumption`).  That
`epoch_intern` always finds a free slot follows from there being no more live
slots than entries, which needs every reference count to equal the number of
entries of its slot.  That an entry keeps its header key until it goes needs the
converse as well: a slot is reused only when its count is 0, hence when no entry
names it.  And the counts stay exact only if a key is interned in the one slot
that already holds it, which is the distinctness of live header keys.  So `IInv`
is type, counts, distinctness and age order.  The refinement maps an entry to its
key with the header key of its slot; `KeysOfRoom` and `KeysOfFileKey` say what
the two halves of an insertion do to that image.  `RecordsExact` uses the
counts twice: a count within the range loading accepts, and a slot left out of the
record because nothing refers to it being a zeroized one.

**The ratchets** (`PartyAssumption`, `IdentityAssumption`).  `NoReplay` is not
inductive: it says nothing of the keys still to come.  `IInv` says of each side
that its receiving chain is past every key it used or stored, that no key is
stored twice or both stored and used, that its sending chain is of its newest
root and past everything it sent, and that its roots have odd or even length as
it is the initiator or the responder.  A ratchet step makes a longer root, so a
new chain collides with nothing older; this orders the chains without knowing how
often the sides turned.  `KeysNeverReused` needs in addition that a sender's
header key is derived from the root two steps before.  For a hybrid session
`PqOk` ties the stage of the confirmation to the lengths of both sides' roots,
which is what lets a side draw conclusions on the other.

**The custodian** (`CustodianAssumption`, `NoneAssumption`).  `IInv` says of the
live material and of the blob that no two places of the arrays hold one key
(`MatOk`), that handles name held keys, each at most once (`SlotsOk`), that the
receive context is that of the material (`RecvOk`), and that what may still be
reserved or resolved was neither exported nor spent (`Unsent`); the last holds of
both copies, since a restart makes the blob the live one.  The loops that
register handles and that replenish the pool are shown by induction on their
position.  `HandlesStay` is about single steps, of tables of any size, the
code's included: a step from a table with a handle for every held key ends in
such a table or with more keys than slots (`Keeps`).  Each
operation has a lemma for that, and where it registers a key the free slot is
found by counting: the handles in use name different held keys, so there are fewer
of them than keys.  `HandlesComplete` follows for behaviours in which the keys
always fit (`FitsSlots`).  The code's limits (108 keys, 48 handles) do not
ensure that, which is the finding of `custodian_slots`; `HandlesNameHeld` needs
no such hypothesis.

**Private groups** (`ScenarioAssumption`, `ClockAssumption`, `NoneAssumption`,
`DayAssumption`).  `IInv` traces every object back: a stored credential is the
server's tag over attributes somebody asked it to vouch for, a request is the one
its sender's profile key gives, a post shows a tag over such attributes though
perhaps not the ones presented, and every used entry of the roster shows a key
vouched for.  It holds whichever answers come late or twice, because the client
checks an answer against the one request whose blinding state it still has.  `MasterKeyLast` is an action property: the removal loop takes the
records in the code's order, by induction over the list of names.  That a
presentation is accepted on its day needs the rounding of the clock to whole
days for any length of a day.

**Post-quantum groups** (`ScenarioAssumption`, `StandingAssumption`).  The server
compares version numbers, admin bits and hashes and cannot see keys, so the
history is linear only because of what an honest request may be.  `IInv` says of
every request under way (`AskedOk`) that it was built from a stored version by an
admin of that version, under the key that version has or under a fresh one; that
a fresh key is in no other store, no mail and no version until the server accepts
the request (`Secret`); and that a request marked accepted is in the history.  Of
every user it says that the keys held are those of versions that list the user, or
whose link was open (`HoldsOk`), and that a key is staged only while its request
is under way or lost.  `QspgsLemmas` shows what each edit, fetch and consolidation
does to members, admins and keys; `QspgsSteps` that the steps of the server and of
waiting, answering and fetching clients preserve `IInv`; `QspgsProofs` does the
edits and the appendix lines and draws the conclusions.  `HistoryImplemented`
maps each core to its members, admins, key and signer: accepting a request is
`Publish`, every other step a stutter.

Only model-checked, and why:

* `StagedResolved`, `MembersCatchUp`, `BothGetSession` and `EveryoneEnds` are
  liveness properties, out of the prover's reach, as is `ENABLED`;
* `HeadReadable` and `SeenLinesKept` hold in the scenarios of `MCQspgs` and not
  for all operations at once: `install_group_key` and `create` overwrite the key
  held (section 4), and what a fetch makes of the same lines depends on the
  group's flags and on the acquaintances the client has at that time;
* `StillReceivable` counts the keys that a delivery would skip over a chain the
  network has yet to deliver; it needs the converse of the ratchet's invariant,
  that every key a receiver does not hold is ahead of it, evicted or used;
* `RoundTrip`, `StrictDecode`, `SignedExact` and `HandshakeExact`: the codecs are
  recursive over their data, and no installed prover does induction over data;
* the properties of `endpoint`, `converge` and `msg_demo`: of the session layer
  and the demo nothing is proved.

## 6. What is not modelled, and why

* Cryptography (`core/`, `ratchet/he.c`, the algebra of `group/`): a key equals
  another exactly when it was derived alike, a sealed thing opens under its own
  key, a signature or proof verifies when it was made for that statement.  Hashes
  do not collide.
* The keystore and the sealed store: encryption of single records, without state
  of their own; `Custodian` has the rewrapping.
* Guarded memory and zeroization: no observable state.
* Argument checks that return before anything is read; the sizes of buffers,
  except in the private group facade, where they decide what has been written.
* Fingerprints, signing, and the read-only queries of the custodian.
* Of the post-quantum groups, the leave token, the export of the long-term user
  key, and the deletion of a group or a user.
* Of the demos, the mailboxes and the barrier of the group demo, the script of
  the post-quantum group demo, and the in-process refresh of the hybrid ratchet.
  The relay remembers at most 128 prekeys it handed out
  (`examples/coordinator.c:196`); the demo's scripts never get there, so what
  happens beyond is not checked.
* Stale marks of devices: no code sets them.
