----------------------------- MODULE SessionOps -----------------------------
(***************************************************************************)
(* The Sesame operations of src/session/{session,lifecycle,send,recv}.c on *)
(* the records one custodian keeps of one peer user.                       *)
(*                                                                         *)
(*   user record     the sequence of its device ids                        *)
(*   device record   its identity key, active session, inactive sessions   *)
(*   session record  base: the base key (IK_A, EK_A) it was made from;     *)
(*                   got: the peer's messages it has decrypted (numbers);  *)
(*                   nsend, nrecv: the expiry counters; pq: how far the    *)
(*                   peer's post-quantum identity is confirmed, "none" in  *)
(*                   a classical session                                   *)
(*                                                                         *)
(* An identity is a key, in a hybrid suite three: <<curve, kem, dsa>>.     *)
(*                                                                         *)
(* What the ratchet inside a session accepts is the DoubleRatchet module's *)
(* subject; here a session decrypts each message of its own once.  An      *)
(* operation is its result code and the staging calls it makes, in order.  *)
(***************************************************************************)
EXTENDS StagedOp

CONSTANTS
  MaxInactive,  \* GY_SESSION_INACTIVE_MAX
  MaxDevices,   \* GY_DEVICE_MAX
  MaxSend,      \* gy_expiry_cfg: max_send
  MaxRecv,      \* gy_expiry_cfg: max_recv
  SidOf         \* SidOf[b]: the 4-byte session id hashed from base key b

Ok(steps) == [rc |-> "OK", steps |-> steps]
Err(rc) == [rc |-> rc, steps |-> << >>]

NewDevice(ik) == [ik |-> ik, active |-> None, inactive |-> << >>]
\* A session we start has sent its initial message, one the peer starts has
\* received it.
OurSession(b) == [base |-> b, got |-> {}, nsend |-> 1, nrecv |-> 0, pq |-> "none"]
PeerSession(b, n) == [base |-> b, got |-> {n}, nsend |-> 0, nrecv |-> 1, pq |-> "none"]
\* The first frame of a hybrid session makes its responder send a confirmation.
OurHybridSession(b) == [OurSession(b) EXCEPT !.pq = "classical"]
PeerHybridSession(b, n) == [PeerSession(b, n) EXCEPT !.pq = "confirm_sent"]

\* The session ids of a device record (device_has_id, session_position).
Ids(dev) == ({dev.active} \ {None}) \cup Range(dev.inactive)

\* gy_session_expired.
Expired(s) == s.nsend >= MaxSend \/ s.nrecv >= MaxRecv
------------------------------------------------------------------------------
\* A push that drops the tail without reporting it.
PushHeadUnreported(dev) ==
  IF dev.active = None THEN [inactive |-> dev.inactive, evicted |-> {}]
  ELSE [inactive |-> SubSeq(<<dev.active>> \o dev.inactive, 1,
                            Min({MaxInactive, Len(dev.inactive) + 1})),
        evicted |-> {}]

\* inactive_push_head: the active session becomes the first inactive one; at
\* capacity the last is evicted.
PushHead(dev) ==
  LET all == <<dev.active>> \o dev.inactive
  IN  IF dev.active = None THEN [inactive |-> dev.inactive, evicted |-> {}]
      ELSE IF Len(all) > MaxInactive
             THEN [inactive |-> Front(all), evicted |-> {Last(all)}]
             ELSE [inactive |-> all, evicted |-> {}]

\* gy_device_session_insert inside gy_device_insert_session.
InsertSession(d, dev, sid) ==
  LET pushed == PushHead(dev)
  IN  SetToSeq({Delete(Session(e)) : e \in pushed.evicted})
        \o <<Put(Device(d), [dev EXCEPT !.active = sid,
                                        !.inactive = pushed.inactive])>>

\* An activation that only stores the record back.
ActivateSessionNot(d, dev, sid) == Put(Device(d), dev)

\* gy_device_session_activate inside gy_device_activate_session.
ActivateSession(d, dev, sid) ==
  LET rest == SelectSeq(dev.inactive, LAMBDA i : i # sid)
      pushed == PushHead([dev EXCEPT !.inactive = rest])
  IN  Put(Device(d), [dev EXCEPT !.active = sid, !.inactive = pushed.inactive])
------------------------------------------------------------------------------
\* Trusting whatever identity key the peer presents.
ConditionalUpdateAnyKey(op, db, d, ik) ==
  LET old == Load(op, db, Device(d))
      dev == IF old = None THEN NewDevice(ik) ELSE [old EXCEPT !.ik = ik]
      usr == Load(op, db, User)
      index == IF usr = None THEN << >> ELSE usr
  IN  Ok(<<Put(Device(d), dev),
           Put(User, IF d \in Range(index) THEN index ELSE Append(index, d))>>)

\* The records of device d, whose identity is `same` as before if it had one.
\* No code of the library marks a device stale, so a full index has no device
\* to evict.
UpdateRecords(op, db, d, dev, same) ==
  LET usr == Load(op, db, User)
      index == IF usr = None THEN << >> ELSE usr
      known == d \in Range(index)
  IN  IF ~same THEN Err("KEY_CHANGED")
      ELSE IF ~known /\ Len(index) >= MaxDevices THEN Err("STATE")
      ELSE Ok(<<Put(Device(d), dev),
                Put(User, IF known THEN index ELSE Append(index, d))>>)

\* gy_conditional_update.
ConditionalUpdate(op, db, d, ik) ==
  LET old == Load(op, db, Device(d))
      dev == IF old = None THEN NewDevice(ik) ELSE old
  IN  UpdateRecords(op, db, d, dev, dev.ik = ik)

\* Every component counts.
HybridIkEqual(dev, ik) == \A i \in 1..3 : dev.ik[i] = ik[i]

\* gy_hybrid_conditional_update.
HybridConditionalUpdate(op, db, d, ik) ==
  LET old == Load(op, db, Device(d))
      dev == IF old = None THEN NewDevice(ik) ELSE old
  IN  UpdateRecords(op, db, d, dev, HybridIkEqual(dev, ik))

\* The deletions of a device record's sessions, active first.
DeleteSessions(dev) ==
  LET ids == (IF dev.active = None THEN << >> ELSE <<dev.active>>) \o dev.inactive
  IN  [i \in DOMAIN ids |-> Delete(Session(ids[i]))]

\* gy_accept_key_change.
AcceptKeyChange(op, db, d, ik) ==
  LET dev == Load(op, db, Device(d))
  IN  IF dev = None THEN Err("STATE")
      ELSE Ok(DeleteSessions(dev) \o <<Put(Device(d), NewDevice(ik))>>)

\* gy_hybrid_accept_key_change.
HybridAcceptKeyChange(op, db, d, ik) == AcceptKeyChange(op, db, d, ik)

\* defer_delete_device_inner.
DeferDeleteDevice(op, db, d) ==
  LET dev == Load(op, db, Device(d))
  IN  IF dev = None THEN << >>
      ELSE DeleteSessions(dev) \o <<Delete(Device(d))>>

\* gy_delete_device.
DeleteDevice(op, db, d) ==
  LET usr == Load(op, db, User)
      rest == SelectSeq(usr, LAMBDA e : e # d)
  IN  Ok(DeferDeleteDevice(op, db, d)
           \o (IF usr = None \/ d \notin Range(usr) THEN << >>
               ELSE <<Put(User, rest)>>))

\* gy_delete_user: one transaction per device of the index and one for the user
\* record, each only of deferred deletions.
DeleteUser(db) ==
  LET usr == db[User]
  IN  IF usr = None THEN << >>
      ELSE FoldLeft(LAMBDA acc, d : acc \o DeferDeleteDevice(EmptyOp, db, d),
                    << >>, usr)
             \o <<Delete(User)>>
------------------------------------------------------------------------------
\* classify_device: what gy_prepare reports for a device.
Classify(op, db, d) ==
  LET dev == Load(op, db, Device(d))
      s == Load(op, db, Session(dev.active))
  IN  IF dev = None THEN "NEEDS_BUNDLE"
      ELSE IF dev.active = None THEN "NEEDS_BUNDLE"
      ELSE IF s = None THEN "NEEDS_BUNDLE"
      ELSE IF Expired(s) THEN "STALE"
      ELSE "MESSAGE"

\* gy_send_encrypt on the device's active session.
SendEncrypt(op, db, d) ==
  LET sid == Load(op, db, Device(d)).active
      s == Load(op, db, Session(sid))
  IN  CASE Classify(op, db, d) = "NEEDS_BUNDLE" -> Err("STATE")
        [] Classify(op, db, d) = "STALE"        -> Err("EXPIRED")
        [] OTHER -> Ok(<<Put(Session(sid), [s EXCEPT !.nsend = @ + 1])>>)

\* finish_initiate: the session is staged, then inserted; a collision of session
\* ids is found after the first.
FinishInitiate(d, upd, s, sid) ==
  LET dev == upd.steps[1].val
      put == upd.steps \o <<Put(Session(sid), s)>>
  IN  IF sid \in Ids(dev) THEN [rc |-> "STATE", steps |-> put]
      ELSE Ok(put \o InsertSession(d, dev, sid))

\* send_initiate_core with a bundle of identity ik and a fresh base key.  A bad
\* bundle signature is found after the conditional update.
SendInitiate(op, db, d, ik, valid, b) ==
  LET upd == ConditionalUpdate(op, db, d, ik)
  IN  IF upd.rc # "OK" THEN upd
      ELSE IF ~valid THEN [upd EXCEPT !.rc = "VERIFY"]
      ELSE FinishInitiate(d, upd, OurSession(b), SidOf[b])

\* gy_send_initiate_hybrid.
SendInitiateHybrid(op, db, d, ik, valid, b) ==
  LET upd == HybridConditionalUpdate(op, db, d, ik)
  IN  IF upd.rc # "OK" THEN upd
      ELSE IF ~valid THEN [upd EXCEPT !.rc = "VERIFY"]
      ELSE FinishInitiate(d, upd, OurHybridSession(b), SidOf[b])
------------------------------------------------------------------------------
\* Any message of the session taken for the peer's confirmation.
PqAfterAny(s, m) == IF s.pq = "none" THEN "none" ELSE "confirmed"

\* What a decrypted message says of the peer's identity (HybridRatchet): to the
\* one who started the session any does, to the other one sent (conf) after the
\* confirmation was opened.
PqAfter(s, m) ==
  CASE s.pq = "classical" -> "confirmed"
    [] s.pq = "confirm_sent" /\ m.conf -> "confirmed"
    [] OTHER -> s.pq

\* A receive that forgets to record the message as decrypted.
TrySessionForgetful(db, d, dev, sid, m) ==
  LET s == db[Session(sid)]
  IN  IF s = None THEN Err("VERIFY")
      ELSE IF s.base # m.base \/ m.n \in s.got THEN Err("VERIFY")
      ELSE Ok(<<Put(Session(sid), [s EXCEPT !.nrecv = @ + 1])>>
                \o (IF sid = dev.active THEN << >>
                    ELSE <<ActivateSession(d, dev, sid)>>))

\* try_session: a listed session whose record is missing, whose keys are not
\* the message's, or whose key for it is gone, rejects it.
TrySession(db, d, dev, sid, m) ==
  LET s == db[Session(sid)]
  IN  IF s = None THEN Err("VERIFY")
      ELSE IF s.base # m.base \/ m.n \in s.got THEN Err("VERIFY")
      ELSE Ok(<<Put(Session(sid), [s EXCEPT !.got = @ \cup {m.n}, !.nrecv = @ + 1,
                                            !.pq = PqAfter(s, m)])>>
                \o (IF sid = dev.active THEN << >>
                    ELSE <<ActivateSession(d, dev, sid)>>))

\* recv_dr: a header opens under the keys of its own session only, so of the
\* listed sessions that one is found.
RecvDr(db, m) ==
  LET dev == db[Device(m.from)]
  IN  IF dev = None THEN Err("VERIFY")
      ELSE IF SidOf[m.base] \notin Ids(dev) THEN Err("VERIFY")
      ELSE TrySession(db, m.from, dev, SidOf[m.base], m)

\* A dedupe that goes by the sender's identity alone.
KnownBaseByDevice(db, m) == db[Device(m.from)] # None

\* recv_init's base-key dedupe.
KnownBase(db, m) ==
  LET dev == db[Device(m.from)]
  IN  IF dev = None THEN FALSE ELSE SidOf[m.base] \in Ids(dev)

\* recv_init: the one-time prekey goes last.
ConsumeOpk(m) == IF m.opk THEN <<Delete(Opk(m.base))>> ELSE << >>

\* A fresh base key: with the sender recorded, answer the handshake, decrypt
\* the first frame, insert the session and consume the one-time prekey.
Answer(db, m, upd, s) ==
  IF upd.rc # "OK" THEN upd
  ELSE IF m.opk /\ db[Opk(m.base)] # "live" THEN Err("VERIFY")
  ELSE Ok(upd.steps
            \o <<Put(Session(SidOf[m.base]), s)>>
            \o InsertSession(m.from, upd.steps[1].val, SidOf[m.base])
            \o ConsumeOpk(m))

\* recv_init: a known base key routes to its session.
RecvInit(db, m) ==
  IF KnownBase(db, m)
  THEN TrySession(db, m.from, db[Device(m.from)], SidOf[m.base], m)
  ELSE Answer(db, m, ConditionalUpdate(EmptyOp, db, m.from, m.ik),
              PeerSession(m.base, m.n))

\* hybrid_recv_init.
HybridRecvInit(db, m) ==
  IF KnownBase(db, m)
  THEN TrySession(db, m.from, db[Device(m.from)], SidOf[m.base], m)
  ELSE Answer(db, m, HybridConditionalUpdate(EmptyOp, db, m.from, m.ik),
              PeerHybridSession(m.base, m.n))

\* recv_process, gy_hybrid_recv.
Recv(db, m) == IF m.type = "INIT" THEN RecvInit(db, m) ELSE RecvDr(db, m)
HybridRecv(db, m) == IF m.type = "INIT" THEN HybridRecvInit(db, m) ELSE RecvDr(db, m)

\* gy_device_pq_state.
DevicePqState(db, d) ==
  LET dev == db[Device(d)]
      s == IF dev = None THEN None
           ELSE IF dev.active = None THEN None ELSE db[Session(dev.active)]
  IN  [found |-> s # None, confirmed |-> IF s = None THEN FALSE ELSE s.pq = "confirmed"]
==============================================================================
