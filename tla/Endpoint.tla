------------------------------ MODULE Endpoint ------------------------------
(***************************************************************************)
(* One custodian's public send, receive and lifecycle calls (src/proto/    *)
(* api.c over src/session/) against one peer user's devices.               *)
(*                                                                         *)
(* gy_send_open .. gy_commit spans a network round trip, so other calls    *)
(* may come between; every other call runs to its end.  A commit is a      *)
(* sequence of store callbacks any of which may fail, or be the last       *)
(* before a power loss.  The network delivers what the peer sent in any    *)
(* order, any number of times, or never.                                   *)
(***************************************************************************)
EXTENDS SessionOps, Bags

CONSTANTS
  Devices,     \* the peer's devices
  Bases,       \* base keys, and the session ids hashed from them
  MaxN,        \* bound: messages the peer sends on a session
  MaxIk,       \* bound: identity keys a peer device goes through
  Scenarios    \* what may happen, see Scenario

\* hybrid: whether the custodian's suite is a hybrid one; devices, bases: those
\* in use; noOpk: the bases whose initial message carries no one-time prekey;
\* faults: store callbacks may fail; overlap: calls come inside an open send
\* transaction; bad: bundles with a bad signature are fetched.
Scenario == [hybrid : BOOLEAN, devices : SUBSET Devices, bases : SUBSET Bases,
             noOpk : SUBSET Bases, faults : BOOLEAN, overlap : BOOLEAN, bad : BOOLEAN]

ASSUME EndpointAssumption ==
  /\ SidOf \in [Bases -> Bases]
  /\ Scenarios \subseteq Scenario

VARIABLES
  sc,        \* the scenario
  db,        \* the store's records
  op,        \* gy_send_ctx.op
  open,      \* gy_custodian.send_open
  peerIk,    \* peerIk[d]: the identity key device d has now
  made,      \* made[b]: the handshake with base key b, or None
  net,       \* the messages the peer sent
  accepted   \* the bag of messages gy_receive returned, counted up to two

vars == <<sc, db, op, open, peerIk, made, net, accepted>>

Keys == {User} \cup {Device(d) : d \in Devices}
          \cup {Session(s) : s \in Bases} \cup {Opk(s) : s \in Bases}

Init ==
  /\ sc \in Scenarios
  /\ db = [key \in Keys |-> IF key[1] = "opk" THEN "live" ELSE None]
  /\ op = EmptyOp
  /\ open = FALSE
  /\ peerIk = [d \in Devices |-> 1]
  /\ made = [b \in Bases |-> None]
  /\ net = {}
  /\ accepted = EmptyBag

\* The identity of a device that has been set up n times.
Identity(n) == IF sc.hybrid THEN <<n, n, n>> ELSE n

\* The numbers of callbacks a commit may get through: all, unless one fails.
Reached(calls) == IF sc.faults THEN 0..Len(calls) ELSE {Len(calls)}

\* The store after a commit that gets through some of its callbacks.
Written(calls) == \E k \in Reached(calls) : db' \in Outcomes(db, calls, k)
------------------------------------------------------------------------------
\* gy_send_open.
SendOpen ==
  /\ ~open
  /\ open' = TRUE /\ op' = EmptyOp
  /\ UNCHANGED <<sc, db, peerIk, made, net, accepted>>

\* gy_initiate, gy_reinitiate with a bundle of the device's current identity.
Initiate(d, b, valid) ==
  /\ open /\ made[b] = None
  /\ LET ik == Identity(peerIk[d])
         r == IF sc.hybrid THEN SendInitiateHybrid(op, db, d, ik, valid, b)
                        ELSE SendInitiate(op, db, d, ik, valid, b)
         staged == Stage(op, r.steps)
         done == r.rc = "OK" /\ staged.ok
     IN  /\ op' = staged.op
         /\ made' = IF done THEN [made EXCEPT ![b] =
                                    [dev |-> d, ik |-> peerIk[d], by |-> "us"]]
                            ELSE made
  /\ UNCHANGED <<sc, db, open, peerIk, net, accepted>>

\* gy_encrypt.
Encrypt(d) ==
  /\ open
  /\ LET r == SendEncrypt(op, db, d)
     IN  r.rc = "OK" /\ op' = Stage(op, r.steps).op
  /\ UNCHANGED <<sc, db, open, peerIk, made, net, accepted>>

\* gy_commit.
Commit ==
  /\ open
  /\ Written(Calls(op))
  /\ open' = FALSE /\ op' = EmptyOp
  /\ UNCHANGED <<sc, peerIk, made, net, accepted>>

\* gy_rollback.
Rollback ==
  /\ open
  /\ open' = FALSE /\ op' = EmptyOp
  /\ UNCHANGED <<sc, db, peerIk, made, net, accepted>>
------------------------------------------------------------------------------
\* The calls that stage and commit in one go on the receive context's stage.
MayCall == sc.overlap \/ ~open

ReceiveOf(m) == IF sc.hybrid THEN HybridRecv(db, m) ELSE Recv(db, m)

\* gy_receive.
Receive(m) ==
  /\ MayCall
  /\ LET r == ReceiveOf(m)
         staged == Stage(EmptyOp, r.steps)
         calls == Calls(staged.op)
     IN  /\ r.rc = "OK" /\ staged.ok
         /\ \E k \in Reached(calls) :
              /\ db' \in Outcomes(db, calls, k)
              /\ accepted' = IF k = Len(calls) /\ CopiesIn(m, accepted) < 2
                               THEN accepted (+) SetToBag({m}) ELSE accepted
  /\ UNCHANGED <<sc, op, open, peerIk, made, net>>

\* gy_receive in a process that stops after the last callback, before the
\* application has the message.
ReceiveCut(m) ==
  /\ sc.faults /\ MayCall
  /\ LET r == ReceiveOf(m)
         staged == Stage(EmptyOp, r.steps)
     IN  /\ r.rc = "OK" /\ staged.ok
         /\ db' = Reopened(Apply(db, Calls(staged.op)))
  /\ open' = FALSE /\ op' = EmptyOp
  /\ UNCHANGED <<sc, peerIk, made, net, accepted>>

\* The process stops between two calls and the custodian is opened again.
Reopen ==
  /\ db' = Reopened(db)
  /\ open' = FALSE /\ op' = EmptyOp
  /\ UNCHANGED <<sc, peerIk, made, net, accepted>>

\* gy_accept_identity with the device's current bundle.
AcceptIdentity(d) ==
  /\ MayCall
  /\ LET ik == Identity(peerIk[d])
         r == IF sc.hybrid THEN HybridAcceptKeyChange(EmptyOp, db, d, ik)
                        ELSE AcceptKeyChange(EmptyOp, db, d, ik)
         staged == Stage(EmptyOp, r.steps)
     IN  r.rc = "OK" /\ staged.ok /\ Written(Calls(staged.op))
  /\ UNCHANGED <<sc, op, open, peerIk, made, net, accepted>>

\* gy_purge_device.
PurgeDevice(d) ==
  /\ MayCall
  /\ LET staged == Stage(EmptyOp, DeleteDevice(EmptyOp, db, d).steps)
     IN  staged.ok /\ Written(Calls(staged.op))
  /\ UNCHANGED <<sc, op, open, peerIk, made, net, accepted>>

\* gy_purge_user.
PurgeUser ==
  /\ MayCall
  /\ Written(DeleteUser(db))
  /\ UNCHANGED <<sc, op, open, peerIk, made, net, accepted>>
------------------------------------------------------------------------------
SentOn(b) == {m \in net : m.base = b}

\* The peer's device d starts a session with us.
PeerInitiate(d, b) ==
  /\ made[b] = None
  /\ made' = [made EXCEPT ![b] = [dev |-> d, ik |-> peerIk[d], by |-> "peer"]]
  /\ net' = net \cup {[type |-> "INIT", from |-> d, ik |-> Identity(peerIk[d]),
                       base |-> b, n |-> 1, opk |-> b \notin sc.noOpk,
                       conf |-> FALSE]}
  /\ UNCHANGED <<sc, db, op, open, peerIk, accepted>>

\* The peer sends the next message on a session it holds.  On one it started it
\* does so before any answer of ours has reached it.
PeerSend(b) ==
  /\ made[b] # None /\ made[b].ik = peerIk[made[b].dev]
  /\ Cardinality(SentOn(b)) < MaxN
  /\ net' = net \cup {[type |-> "DR", from |-> made[b].dev, ik |-> Identity(made[b].ik),
                       base |-> b, n |-> Cardinality(SentOn(b)) + 1,
                       opk |-> FALSE, conf |-> FALSE]}
  /\ UNCHANGED <<sc, db, op, open, peerIk, made, accepted>>

\* The peer's device is set up anew: another identity key, no sessions.
PeerReset(d) ==
  /\ peerIk[d] < MaxIk
  /\ peerIk' = [peerIk EXCEPT ![d] = @ + 1]
  /\ UNCHANGED <<sc, db, op, open, made, net, accepted>>

Next ==
  \/ SendOpen
  \/ \E d \in sc.devices, b \in sc.bases, valid \in {TRUE, ~sc.bad} :
       Initiate(d, b, valid)
  \/ \E d \in sc.devices : Encrypt(d)
  \/ Commit
  \/ Rollback
  \/ \E m \in net : Receive(m)
  \/ \E m \in net : ReceiveCut(m)
  \/ Reopen
  \/ \E d \in sc.devices : AcceptIdentity(d)
  \/ \E d \in sc.devices : PurgeDevice(d)
  \/ PurgeUser
  \/ \E d \in sc.devices, b \in sc.bases : PeerInitiate(d, b)
  \/ \E b \in sc.bases : PeerSend(b)
  \/ \E d \in sc.devices : PeerReset(d)

Spec == Init /\ [][Next]_vars
------------------------------------------------------------------------------
Index == IF db[User] = None THEN {} ELSE Range(db[User])
Stored(s) == db[Session(s)] # None
HasBase(b) == \E s \in Bases : Stored(s) /\ db[Session(s)].base = b
Known(d) == db[Device(d)] # None
IdsOf(d) == IF Known(d) THEN Ids(db[Device(d)]) ELSE {}

\* A stored session is one its device record lists, so that gy_receive finds it
\* for the messages the peer sends on it.
StoredIsListed == \A s \in Bases : Stored(s) => \E d \in Devices : s \in IdsOf(d)

\* The records refer to each other exactly: the user record indexes the devices
\* that have a record, their lists name each stored session once, name no other,
\* and stay within the inactive bound, as long as no store callback fails.
RecordsConsistent == ~sc.faults =>
  /\ Index = {d \in Devices : Known(d)}
  /\ StoredIsListed
  /\ \A d \in Devices : \A s \in IdsOf(d) : Stored(s)
  /\ \A d, e \in Devices : d # e => IdsOf(d) \cap IdsOf(e) = {}
  /\ \A d \in Devices : Known(d) =>
       LET dev == db[Device(d)]
       IN  /\ Len(dev.inactive) <= MaxInactive
           /\ Cardinality(Ids(dev)) =
                Len(dev.inactive) + (IF dev.active = None THEN 0 ELSE 1)

\* gy_receive hands a message to the application at most once, whatever is
\* redelivered, evicted or purged in between: message keys are deleted, base keys
\* deduplicated and one-time prekeys consumed.  (A session without a one-time
\* prekey is only as durable as its record.)  Said where no callback fails.
AcceptedOnce == ~sc.faults =>
  \A m \in BagToSet(accepted) :
    m.base \notin sc.noOpk => CopiesIn(m, accepted) = 1

\* Even where store callbacks fail and the process stops, a step takes a one-time
\* prekey out of use only if the session it made is stored after it (consumption
\* is the commit's last callback), and hands the initial message that names it to
\* the application at most once ever, with the key gone from the blob as well (a
\* failed seal fails the receive): opening the custodian cannot bring it back.
OpkSpentOnReceipt ==
  [][/\ \A s \in Bases : db[Opk(s)] = "live" /\ db'[Opk(s)] # "live" => HasBase(s)'
     /\ \A m \in net : m.type = "INIT" /\ m.opk =>
          CopiesIn(m, accepted') <= 1
            /\ (CopiesIn(m, accepted') = 1 => db'[Opk(m.base)] = None)]_vars

\* The identity key pinned for a device never goes back to one it replaced:
\* replacing it takes an acceptance, and no later call undoes that.
PinnedKeyNeverReverts ==
  [][\A d \in Devices :
       Known(d) /\ db'[Device(d)] # None =>
         \A n, o \in 1..MaxIk :
           db[Device(d)].ik = Identity(o) /\ db'[Device(d)].ik = Identity(n) => n >= o]_vars

\* An initial message whose base key no stored session was made from, and whose
\* one-time prekey is live, can be received (or is reported as a key change or a full
\* index): no earlier failure makes it undecryptable.
RetryPossible ==
  \A m \in net :
    m.type = "INIT" /\ ~HasBase(m.base) /\ db[Opk(m.base)] = "live" =>
      ReceiveOf(m).rc # "VERIFY"

\* The same as long as no store callback fails: nothing that is evicted, purged,
\* deduplicated or replaced makes a message undecryptable that was not received.
RetryWhenCalm == ~sc.faults => RetryPossible
==============================================================================
