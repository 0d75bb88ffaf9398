----------------------------- MODULE GroupProofs -----------------------------
(***************************************************************************)
(* Proofs about Group: for any number of custodians, accounts, profile     *)
(* keys, requests and messages, any length of a day and any size of the    *)
(* roster.                                                                 *)
(***************************************************************************)
EXTENDS Group, FiniteLemmas, TLAPS

Uids == Accounts \cup Others

-----------------------------------------------------------------------------
(* The invariant.                                                          *)

\* What custodian c may hold under name k, V being the attributes the server
\* was asked to vouch for.
RecordOk(V, c, k, v) ==
  /\ k = ServerParams => v = ServerExportPublic(ServerKey)
  /\ k = MasterKey(G) => v = [key |-> Key, ver |-> NewestFormat]
  /\ k = AuthCred(G) =>
        /\ v.date \in Nat /\ DayAligned(v.date)
        /\ \E uid \in Accounts :
              v = [tag |-> Mac(SecretA(ServerKey), AttrAuth(uid, v.date)), date |-> v.date]
  /\ k = PkCred(G, Uid[c]) => \E x \in V : x.uid = Uid[c] /\ v = Mac(SecretP(ServerKey), x)
  /\ k = OwnPk(G) => v \in ProfileKeys
  /\ k = BlindState(G) => v.y = v.req.yy

StoreOk(V, c, s) ==
  /\ ServerParams \in DOMAIN s
  /\ \A k \in DOMAIN s : RecordOk(V, c, k, s[k])

\* A request is the one its sender's profile key gives.
RequestOk(m) ==
  \E uid \in Accounts, pk \in ProfileKeys :
     m = [uid |-> uid, commit |-> PkCommit(uid, pk), req |-> PkRequest(uid, pk, m.req.yy)]

\* A presentation carries a tag over attributes that were asked for, though not
\* always over the ones presented.
PostOk(V, m) ==
  /\ m.rpc = "add" =>
        \E uid \in Accounts, pk \in ProfileKeys, x \in V :
           m.body = PkPresent(Key, uid, pk, Mac(SecretP(ServerKey), x))
  /\ m.rpc \in {"invite", "delete"} => \E uid \in Uids : m.body = UidEncrypt(Key, uid)

Shown(V, e) ==
  \E uid \in Uids :
     /\ e.ct = UidEncrypt(Key, uid)
     /\ e.pkct = None \/ \E pk \in ProfileKeys : /\ e.pkct = PkEncrypt(Key, uid, pk)
                                                 /\ AttrProfile(uid, pk) \in V

\* The entries in use name distinct members, and each shows a key vouched for.
RosterOk(V, r) ==
  /\ Len(r) \in Nat /\ DOMAIN r = 1 .. Len(r) /\ r \in Seq(Range(r))
  /\ \A i \in DOMAIN r : r[i].used \in BOOLEAN /\ r[i] = [ct |-> r[i].ct, pkct |-> r[i].pkct, used |-> r[i].used]
  /\ \A i \in DOMAIN r : r[i].used => Shown(V, r[i])
  /\ \A i, j \in DOMAIN r : r[i].used /\ r[j].used /\ r[i].ct = r[j].ct => i = j

IInv ==
  /\ sc \in Scenarios /\ now \in Nat
  /\ server = ServerKey /\ blob = ServerSeal(ServerKey, "cred")
  /\ pub = GroupPublicDerive(Key)
  /\ DOMAIN st = Clients
  /\ \A c \in Clients : StoreOk(Vouched, c, st[c])
  /\ \A m \in reqs : RequestOk(m)
  /\ \A m \in net : PostOk(Vouched, m)
  /\ RosterOk(Vouched, roster)
-----------------------------------------------------------------------------
(* Records.                                                                *)

\* The names of a custodian's records are distinct.
LEMMA NamesDistinct ==
  ASSUME NEW g, NEW h, NEW u
  PROVE  /\ ServerParams \notin {MasterKey(g), AuthCred(g), PkCred(g, u), OwnPk(g), BlindState(g)}
         /\ MasterKey(g) \notin {AuthCred(h), PkCred(h, u), OwnPk(h), BlindState(h)}
         /\ AuthCred(g) \notin {PkCred(h, u), OwnPk(h), BlindState(h)}
         /\ PkCred(g, u) \notin {OwnPk(h), BlindState(h)}
         /\ OwnPk(g) # BlindState(h)
  BY Zenon DEF ServerParams, MasterKey, AuthCred, PkCred, OwnPk, BlindState

\* More requests vouch for more.
LEMMA RecordGrows ==
  ASSUME NEW V, NEW W, V \subseteq W, NEW c, NEW k, NEW v, RecordOk(V, c, k, v)
  PROVE  RecordOk(W, c, k, v)
  BY Zenon DEF RecordOk

\* What a store may hold it may still hold when more was asked for,
LEMMA StoreGrows ==
  ASSUME NEW V, NEW W, V \subseteq W, NEW c, NEW s, StoreOk(V, c, s)
  PROVE  StoreOk(W, c, s)
  BY RecordGrows, Zenon DEF StoreOk

\* and so with what was posted
LEMMA PostGrows ==
  ASSUME NEW V, NEW W, V \subseteq W, NEW m, PostOk(V, m)
  PROVE  PostOk(W, m)
  BY Zenon DEF PostOk

\* and with what the roster shows.
LEMMA RosterGrows ==
  ASSUME NEW V, NEW W, V \subseteq W, NEW r, RosterOk(V, r)
  PROVE  RosterOk(W, r)
<1>1. ASSUME NEW e, Shown(V, e) PROVE Shown(W, e)
  BY <1>1, ZenonT(60) DEF Shown
<1>2. QED
  BY <1>1, ZenonT(60) DEF RosterOk

\* What a call may do to a store: keep it sound, and take the master key only
\* from under nothing.
KeyLast(s, t) ==
  MasterKey(G) \in DOMAIN s \ DOMAIN t => {AuthCred(G), OwnPk(G)} \cap DOMAIN t = {}

Sound(V, c, s, t) == StoreOk(V, c, t) /\ KeyLast(s, t)

\* A call that is refused leaves the store as it was.
LEMMA SoundSame ==
  ASSUME NEW V, NEW c, NEW s, StoreOk(V, c, s)
  PROVE  Sound(V, c, s, s)
  BY Zenon DEF Sound, KeyLast

\* Writing a record that is allowed.
LEMMA StoreRecSound ==
  ASSUME NEW V, NEW c, NEW s, StoreOk(V, c, s), NEW k, NEW v, RecordOk(V, c, k, v)
  PROVE  Sound(V, c, s, StoreRec(s, k, v))
<1> DEFINE t == StoreRec(s, k, v)
<1>1. /\ DOMAIN t = DOMAIN s \cup {k}
      /\ \A x \in DOMAIN t : t[x] = IF x = k THEN v ELSE s[x]
  BY Zenon DEF StoreRec
<1> HIDE DEF t
<1>2. StoreOk(V, c, t)
  BY <1>1, Zenon DEF StoreOk
<1>3. QED
  BY <1>1, <1>2, Zenon DEF Sound, KeyLast, t

\* Removing any records but the server's parameters and the master key.
LEMMA RemoveUnlessSound ==
  ASSUME NEW V, NEW c, NEW s, NEW b, NEW t, Sound(V, c, s, t), NEW k,
         k \notin {ServerParams, MasterKey(G)}
  PROVE  Sound(V, c, s, RemoveUnless(b, t, k))
<1> DEFINE u == RemoveRec(t, k)
<1>1. DOMAIN u = DOMAIN t \ {k} /\ \A x \in DOMAIN u : u[x] = t[x]
  BY Zenon DEF RemoveRec
<1> HIDE DEF u
<1>2. Sound(V, c, s, u)
  BY <1>1, Zenon DEF Sound, StoreOk, KeyLast
<1>3. QED
  BY <1>2, Zenon DEF RemoveUnless, u

-----------------------------------------------------------------------------
(* The calls.                                                              *)

\* The founder's envelope carries the group's key and format; so the only
\* envelopes there are carry that key.
LEMMA FoundedStore ==
  /\ DOMAIN Founded = {ServerParams, MasterKey(G)}
  /\ Founded[ServerParams] = ServerExportPublic(ServerKey)
  /\ Founded[MasterKey(G)] = [key |-> Key, ver |-> NewestFormat]
  /\ DOMAIN Installed = {ServerParams}
  /\ Installed[ServerParams] = ServerExportPublic(ServerKey)
<1>1. /\ DOMAIN Installed = {ServerParams}
      /\ Installed[ServerParams] = ServerExportPublic(ServerKey)
  BY DEF Installed, InstallServerParams, Result, StoreRec
<1>2. Founded = StoreRec(Installed, MasterKey(G), [key |-> Key, ver |-> NewestFormat])
  BY Zenon DEF Founded, GroupCreate, DeriveAndStoreMaster, Result, G
<1>3. QED
  BY <1>1, <1>2, NamesDistinct, Zenon DEF StoreRec

\* Every envelope carries the key of the one group.
LEMMA EnvelopeKey ==
  ASSUME NEW env \in Envelopes
  PROVE  env.gmk = Key
<1> DEFINE r == LoadRec(Founded, MasterKey(G))
<1>1. r # None /\ r.key = Key /\ r.ver = NewestFormat
  <2>1. r = [key |-> Key, ver |-> NewestFormat]
    BY FoundedStore, Zenon DEF LoadRec
  <2>2. r # None
    BY <2>1, NoneAssumption, ZenonT(60)
  <2>3. QED
    BY <2>1, <2>2
<1> HIDE DEF r
<1>2. ExportKeyEnvelope(Founded, G, "enough").out = KeyEnvelope(Key, NewestFormat)
  BY <1>1, Zenon DEF ExportKeyEnvelope, Emit, Result, r
<1>3. QED
  BY <1>2 DEF Envelopes, KeyEnvelope

\* An envelope of another format is filed under another name.
LEMMA InstallSound ==
  ASSUME NEW V, NEW c, NEW s, StoreOk(V, c, s), NEW env \in Envelopes, NEW bad
  PROVE  Sound(V, c, s, InstallMasterKey(s, env, bad).st)
<1> DEFINE k == MasterKey(GroupId(Key, env.envver))
           v == [key |-> Key, ver |-> env.envver]
<1>1. RecordOk(V, c, k, v)
  <2>1. k = MasterKey(G) => env.envver = NewestFormat
    BY Zenon DEF MasterKey, G, GroupId
  <2>2. QED
    BY <2>1, NamesDistinct, Zenon DEF RecordOk
<1>2. InstallMasterKey(s, env, bad).st \in {s, StoreRec(s, k, v)}
  BY EnvelopeKey, Zenon DEF InstallMasterKey, DeriveAndStoreMaster, Refuse, Result
<1> HIDE DEF k, v
<1>3. QED
  BY <1>1, <1>2, SoundSame, StoreRecSound, ZenonT(60)

\* Removals stop at the first that fails, and the master key is third.
LEMMA ForgetSound ==
  ASSUME NEW V, NEW c, NEW s, StoreOk(V, c, s), NEW bad
  PROVE  Sound(V, c, s, Forget(s, G, bad).st)
<1> DEFINE gone == {DeleteOrder(G)[i] : i \in Removed(bad)}
           t == [k \in DOMAIN s \ gone |-> s[k]]
<1>1. /\ DeleteOrder(G)[1] = AuthCred(G) /\ DeleteOrder(G)[2] = OwnPk(G)
      /\ DeleteOrder(G)[3] = MasterKey(G)
  BY Zenon DEF DeleteOrder
<1>2. /\ Removed(bad) \subseteq {1, 2, 3}
      /\ 3 \in Removed(bad) => Removed(bad) = {1, 2, 3}
  BY DEF Removed
<1>3. /\ gone \subseteq {AuthCred(G), OwnPk(G), MasterKey(G)}
      /\ MasterKey(G) \in gone => AuthCred(G) \in gone /\ OwnPk(G) \in gone
  BY <1>1, <1>2, NamesDistinct, Zenon
<1>4. DOMAIN t = DOMAIN s \ gone /\ \A x \in DOMAIN t : t[x] = s[x]
  BY Zenon
<1>5. Forget(s, G, bad).st = RemoveUnless(4 \in bad, t, BlindState(G))
  BY Zenon DEF Forget, DeleteStored, Result
<1> HIDE DEF gone, t
<1>6. Sound(V, c, s, t)
  BY <1>3, <1>4, NamesDistinct, Zenon DEF Sound, StoreOk, KeyLast
<1>7. QED
  BY <1>5, <1>6, RemoveUnlessSound, NamesDistinct, Zenon

\* An answer of the server is stored only for the account and the day it is for.
LEMMA ReceiveAuthSound ==
  ASSUME NEW V, NEW c, NEW s, StoreOk(V, c, s), NEW uid \in Accounts, NEW of \in Accounts,
         NEW date \in 0 .. MaxNow, NEW on \in 0 .. MaxNow, NEW bad,
         ServerIssueAuth(ServerKey, of, on).rc = "OK"
  PROVE  Sound(V, c, s, ReceiveAuthCredential(s, G, uid, date,
                                              ServerIssueAuth(ServerKey, of, on).out, bad).st)
<1> DEFINE resp == ServerIssueAuth(ServerKey, of, on).out
           v == [tag |-> resp.tag, date |-> date]
<1>1. resp = AuthIssue(ServerKey, of, on)
  BY Zenon DEF ServerIssueAuth, Refuse, Result
<1>2. /\ resp.tag = Mac(SecretA(ServerKey), AttrAuth(of, on))
      /\ resp.pi.stmt.attrs = AttrAuth(of, on)
  BY <1>1 DEF AuthIssue, ConjProve, PiI
<1>3. ASSUME NEW pp, AuthVerify(pp, uid, date, resp)
      PROVE  DayAligned(date) /\ uid = of /\ date = on
  <2>1. DayAligned(date) /\ resp.pi.stmt = PiI(pp, AttrAuth(uid, date), resp.tag)
    BY <1>3, Zenon DEF AuthVerify, ConjVerify
  <2>2. AttrAuth(uid, date) = AttrAuth(of, on)
    BY <1>2, <2>1 DEF PiI
  <2>3. QED
    BY <2>1, <2>2, Zenon DEF AttrAuth
<1>4. ASSUME NEW pp, AuthVerify(pp, uid, date, resp)
      PROVE  RecordOk(V, c, AuthCred(G), v)
  <2>1. v = [tag |-> Mac(SecretA(ServerKey), AttrAuth(of, date)), date |-> date]
    BY <1>2, <1>3, <1>4, Zenon
  <2>2. v.date = date /\ date \in Nat
    <3>1. v.date = date
      BY Zenon
    <3>2. date \in Nat
      BY ClockAssumption
    <3>3. QED
      BY <3>1, <3>2, Zenon
  <2> HIDE DEF v, resp
  <2>3. QED
    BY <2>1, <2>2, <1>3, <1>4, NamesDistinct, Zenon DEF RecordOk
<1>5. \/ ReceiveAuthCredential(s, G, uid, date, resp, bad).st = s
      \/ /\ \E pp : AuthVerify(pp, uid, date, resp)
         /\ ReceiveAuthCredential(s, G, uid, date, resp, bad).st = StoreRec(s, AuthCred(G), v)
  BY Zenon DEF ReceiveAuthCredential, Refuse, Result
<1> HIDE DEF resp, v
<1>6. QED
  BY <1>4, <1>5, SoundSame, StoreRecSound, ZenonT(60) DEF resp

\* A commitment stores one of the profile keys.
LEMMA CommitSound ==
  ASSUME NEW V, NEW c, NEW s, StoreOk(V, c, s), NEW uid, NEW pk \in ProfileKeys, NEW cap, NEW bad
  PROVE  Sound(V, c, s, ProfileKeyCommit(s, G, uid, pk, cap, bad).st)
<1>1. RecordOk(V, c, OwnPk(G), pk)
  BY NamesDistinct, Zenon DEF RecordOk
<1>2. ProfileKeyCommit(s, G, uid, pk, cap, bad).st \in {s, StoreRec(s, OwnPk(G), pk)}
  BY Zenon DEF ProfileKeyCommit, Refuse, Emit, Result
<1>3. QED
  BY <1>1, <1>2, SoundSame, StoreRecSound, ZenonT(60)

\* The blinding state names the request it was made for.
LEMMA RequestSound ==
  ASSUME NEW V, NEW c, NEW s, StoreOk(V, c, s), NEW uid, NEW pk, NEW y, NEW cap, NEW bad
  PROVE  /\ Sound(V, c, s, PkCredentialRequest(s, G, uid, pk, y, cap, bad).st)
         /\ PkCredentialRequest(s, G, uid, pk, y, cap, bad).out \in {None, PkRequest(uid, pk, y)}
<1> DEFINE v == [req |-> PkRequest(uid, pk, y), y |-> y]
<1>1. v.y = y /\ v.req.yy = y
  BY Zenon DEF PkRequest
<1>2. /\ PkCredentialRequest(s, G, uid, pk, y, cap, bad).st \in {s, StoreRec(s, BlindState(G), v)}
      /\ PkCredentialRequest(s, G, uid, pk, y, cap, bad).out \in {None, PkRequest(uid, pk, y)}
  BY Zenon DEF PkCredentialRequest, Refuse, Emit, Result
<1> HIDE DEF v
<1>3. RecordOk(V, c, BlindState(G), v)
  BY <1>1, NamesDistinct, Zenon DEF RecordOk
<1>4. QED
  BY <1>2, <1>3, SoundSame, StoreRecSound, ZenonT(60)

\* A custodian takes an answer only for the request it has outstanding, which
\* is the one the server vouched for.
LEMMA FinishSound ==
  ASSUME NEW V, NEW c, NEW s, StoreOk(V, c, s), NEW m, NEW bad,
         [uid |-> m.uid, blind |-> m.req.blind] \in V,
         ServerBlindIssuePk(ServerKey, m.uid, m.commit, m.req).rc = "OK"
  PROVE  Sound(V, c, s,
               PkCredentialFinish(s, G, Uid[c],
                  ServerBlindIssuePk(ServerKey, m.uid, m.commit, m.req).out, bad).st)
<1> DEFINE resp == ServerBlindIssuePk(ServerKey, m.uid, m.commit, m.req).out
           b == s[BlindState(G)]
           v == PkUnblind(b.y, resp)
           x == [uid |-> m.uid, blind |-> m.req.blind]
           fin == PkCredentialFinish(s, G, Uid[c], resp, bad).st
<1>1. resp = PkBlindIssue(ServerKey, m.uid, m.req)
  BY Zenon DEF ServerBlindIssuePk, Refuse, Result
<1>2. /\ resp.s.yy = m.req.yy /\ resp.s.tag = Mac(SecretP(ServerKey), x)
      /\ resp.pi.stmt.req = m.req /\ resp.pi.stmt.m = AttrsUid(m.uid)
  BY <1>1, SMTT(60) DEF PkBlindIssue, ConjProve, PiBI
<1>3. \/ fin = s
      \/ /\ BlindState(G) \in DOMAIN s
         /\ FinishVerifies(s, G, Uid[c], resp)
         /\ fin = RemoveUnless(2 \in bad, StoreRec(s, PkCred(G, Uid[c]), v), BlindState(G))
  <2>1. BlindState(G) \in DOMAIN s \/ LoadRec(s, BlindState(G)) = None
    BY Zenon DEF LoadRec
  <2>2. QED
    BY <2>1, Zenon DEF PkCredentialFinish, Refuse, Result
<1>4. CASE fin = s
  BY <1>4, SoundSame, Zenon DEF fin, resp
<1>5. CASE /\ BlindState(G) \in DOMAIN s
           /\ FinishVerifies(s, G, Uid[c], resp)
           /\ fin = RemoveUnless(2 \in bad, StoreRec(s, PkCred(G, Uid[c]), v), BlindState(G))
  <2>1. LoadRec(s, BlindState(G)) = b /\ b.y = b.req.yy
    BY <1>5, Zenon DEF LoadRec, StoreOk, RecordOk
  <2>2. resp.pi.stmt = PiBI(LoadRec(s, ServerParams).p, AttrsUid(Uid[c]), b.req, resp.s)
    BY <1>5, <2>1, Zenon DEF FinishVerifies, PkReceiveVerify, ConjVerify
  <2>3. b.req = m.req /\ Uid[c] = m.uid
    <3>1. b.req = m.req /\ AttrsUid(Uid[c]) = AttrsUid(m.uid)
      BY <1>2, <2>2, SMTT(60) DEF PiBI
    <3>2. QED
      BY <3>1, Zenon DEF AttrsUid
  <2>4. v = Mac(SecretP(ServerKey), x)
    BY <1>2, <2>1, <2>3, Zenon DEF PkUnblind
  <2>5. x.uid = Uid[c] /\ x \in V
    BY <2>3, Zenon
  <2> HIDE DEF v, x, fin, resp
  <2>6. RecordOk(V, c, PkCred(G, Uid[c]), v)
    BY <2>4, <2>5, NamesDistinct, Zenon DEF RecordOk
  <2>7. Sound(V, c, s, StoreRec(s, PkCred(G, Uid[c]), v))
    BY <2>6, StoreRecSound, Zenon
  <2>8. BlindState(G) \notin {ServerParams, MasterKey(G)}
    BY NamesDistinct, Zenon
  <2>9. Sound(V, c, s, fin)
    BY <1>5, <2>7, <2>8, RemoveUnlessSound, Zenon
  <2>10. QED
    BY <2>9, Zenon DEF fin, resp
<1>6. QED
  BY <1>3, <1>4, <1>5, Zenon

\* Whoever can load the group holds its key.
LEMMA LoadedKey ==
  ASSUME NEW V, NEW c, NEW s, StoreOk(V, c, s), GroupLoad(s, G) = "OK"
  PROVE  MasterKey(G) \in DOMAIN s /\ GroupSecret(s, G) = Key
<1>1. MasterKey(G) \in DOMAIN s
  BY Zenon DEF GroupLoad, LoadRec
<1>2. s[MasterKey(G)] = [key |-> Key, ver |-> NewestFormat]
  BY <1>1, Zenon DEF StoreOk, RecordOk
<1>3. QED
  BY <1>1, <1>2 DEF GroupSecret

\* What may be posted after a call.
Posts(V, r, name) == \A m \in Posted(r, name) : PostOk(V, m)

\* A member presents its own credential under the group's key.
LEMMA AddSound ==
  ASSUME NEW V, NEW c \in Clients, NEW s, StoreOk(V, c, s), NEW cap, OwnPk(G) \in DOMAIN s
  PROVE  LET r == AddMember(s, G, Uid[c], LoadRec(s, OwnPk(G)), cap)
         IN  Sound(V, c, s, r.st) /\ Posts(V, r, "add")
<1> DEFINE pk == LoadRec(s, OwnPk(G))
           cred == LoadRec(s, PkCred(G, Uid[c]))
           r == AddMember(s, G, Uid[c], pk, cap)
<1>1. pk \in ProfileKeys
  BY Zenon DEF LoadRec, StoreOk, RecordOk
<1>2. /\ r.st = s
      /\ \/ r.out = None
         \/ /\ GroupLoad(s, G) = "OK" /\ PkCred(G, Uid[c]) \in DOMAIN s
            /\ r.out = PkPresent(GroupSecret(s, G), Uid[c], pk, cred)
  <2>1. PkCred(G, Uid[c]) \in DOMAIN s \/ cred = None
    BY Zenon DEF LoadRec
  <2>2. LoadForPresentation(s, G) = "OK" => GroupLoad(s, G) = "OK"
    BY Zenon DEF LoadForPresentation
  <2> HIDE DEF pk, cred
  <2>3. QED
    BY <2>1, <2>2, Zenon DEF AddMember, Refuse, Emit, Result, cred
<1>3. Posts(V, r, "add")
  <2> SUFFICES ASSUME r.out # None PROVE PostOk(V, [rpc |-> "add", body |-> r.out])
    BY Zenon DEF Posts, Posted
  <2>1. PICK x \in V : cred = Mac(SecretP(ServerKey), x)
    BY <1>2, Zenon DEF LoadRec, StoreOk, RecordOk
  <2>2. r.out = PkPresent(Key, Uid[c], pk, Mac(SecretP(ServerKey), x))
    BY <1>2, <2>1, LoadedKey, Zenon
  <2>3. Uid[c] \in Accounts
    BY Zenon DEF Accounts
  <2> HIDE DEF r, pk
  <2>4. QED
    BY <1>1, <2>2, <2>3, Zenon DEF PostOk
<1>4. QED
  BY <1>2, <1>3, SoundSame, Zenon

\* A ciphertext of an account is in order on its way to the server.
LEMMA CiphertextPosts ==
  ASSUME NEW V, NEW r, NEW name \in {"invite", "delete"}, NEW uid \in Uids,
         r.out \in {None, UidEncrypt(Key, uid)}
  PROVE  Posts(V, r, name)
<1> SUFFICES ASSUME r.out # None PROVE PostOk(V, [rpc |-> name, body |-> r.out])
  BY Zenon DEF Posts, Posted
<1>1. r.out = UidEncrypt(Key, uid)
  BY Zenon
<1>2. QED
  BY <1>1, Zenon DEF PostOk

\* An invitation is a ciphertext and changes no record.
LEMMA InviteSound ==
  ASSUME NEW V, NEW c, NEW s, StoreOk(V, c, s), NEW uid \in Uids, NEW cap
  PROVE  LET r == AddInvitedMember(s, G, uid, cap)
         IN  Sound(V, c, s, r.st) /\ Posts(V, r, "invite")
<1> DEFINE r == AddInvitedMember(s, G, uid, cap)
<1>1. /\ r.st = s
      /\ r.out # None => GroupLoad(s, G) = "OK" /\ r.out = UidEncrypt(GroupSecret(s, G), uid)
  BY Zenon DEF AddInvitedMember, Refuse, Emit, Result
<1> HIDE DEF r
<1>2. r.out \in {None, UidEncrypt(Key, uid)}
  BY <1>1, LoadedKey, Zenon
<1>3. QED
  BY <1>1, <1>2, SoundSame, CiphertextPosts, Zenon DEF r

\* A removal is a ciphertext and may drop the credential of the removed.
LEMMA DeleteSound ==
  ASSUME NEW V, NEW c, NEW s, StoreOk(V, c, s), NEW uid \in Uids, NEW cap, NEW bad
  PROVE  LET r == DeleteMember(s, G, uid, cap, bad)
         IN  Sound(V, c, s, r.st) /\ Posts(V, r, "delete")
<1> DEFINE r == DeleteMember(s, G, uid, cap, bad)
<1>1. /\ r.st \in {s, RemoveUnless(1 \in bad, s, PkCred(G, uid))}
      /\ r.out # None => GroupLoad(s, G) = "OK" /\ r.out = UidEncrypt(GroupSecret(s, G), uid)
  BY Zenon DEF DeleteMember, Refuse, Emit, Result
<1> HIDE DEF r
<1>2. r.out \in {None, UidEncrypt(Key, uid)}
  BY <1>1, LoadedKey, Zenon
<1>3. Sound(V, c, s, RemoveUnless(1 \in bad, s, PkCred(G, uid)))
  BY SoundSame, RemoveUnlessSound, NamesDistinct, Zenon
<1>4. QED
  BY <1>1, <1>2, <1>3, SoundSame, CiphertextPosts, Zenon DEF r

\* An update presents the old credential, then stores the new key.
LEMMA UpdateSound ==
  ASSUME NEW V, NEW c \in Clients, NEW s, StoreOk(V, c, s), NEW pk \in ProfileKeys, NEW cap, NEW bad
  PROVE  LET r == UpdateProfileKey(s, G, Uid[c], pk, cap, bad)
         IN  Sound(V, c, s, r.st) /\ Posts(V, r, "add")
<1> DEFINE cred == LoadRec(s, PkCred(G, Uid[c]))
           r == UpdateProfileKey(s, G, Uid[c], pk, cap, bad)
           t == RemoveUnless(2 \in bad, StoreRec(s, OwnPk(G), pk), PkCred(G, Uid[c]))
<1>1. /\ r.st \in {s, t}
      /\ \/ r.out = None
         \/ /\ GroupLoad(s, G) = "OK" /\ PkCred(G, Uid[c]) \in DOMAIN s
            /\ r.out = PkPresent(GroupSecret(s, G), Uid[c], pk, cred)
  <2>1. PkCred(G, Uid[c]) \in DOMAIN s \/ cred = None
    BY Zenon DEF LoadRec
  <2>2. LoadForPresentation(s, G) = "OK" => GroupLoad(s, G) = "OK"
    BY Zenon DEF LoadForPresentation
  <2> HIDE DEF cred, t
  <2>3. QED
    BY <2>1, <2>2, Zenon DEF UpdateProfileKey, UpdateStored, Refuse, Emit, Result, cred, t
<1>2. Sound(V, c, s, t)
  <2>1. RecordOk(V, c, OwnPk(G), pk)
    BY NamesDistinct, Zenon DEF RecordOk
  <2>2. Sound(V, c, s, StoreRec(s, OwnPk(G), pk))
    BY <2>1, StoreRecSound, Zenon
  <2>3. PkCred(G, Uid[c]) \notin {ServerParams, MasterKey(G)}
    BY NamesDistinct, Zenon
  <2>4. QED
    BY <2>2, <2>3, RemoveUnlessSound, Zenon
<1>3. Posts(V, r, "add")
  <2> SUFFICES ASSUME r.out # None PROVE PostOk(V, [rpc |-> "add", body |-> r.out])
    BY Zenon DEF Posts, Posted
  <2>1. PICK x \in V : cred = Mac(SecretP(ServerKey), x)
    BY <1>1, Zenon DEF LoadRec, StoreOk, RecordOk
  <2>2. r.out = PkPresent(Key, Uid[c], pk, Mac(SecretP(ServerKey), x))
    BY <1>1, <2>1, LoadedKey, Zenon
  <2>3. Uid[c] \in Accounts
    BY Zenon DEF Accounts
  <2> HIDE DEF r
  <2>4. QED
    BY <2>2, <2>3, Zenon DEF PostOk
<1>4. QED
  BY <1>1, <1>2, <1>3, SoundSame, Zenon

-----------------------------------------------------------------------------
(* The roster.                                                             *)

\* The slot roster_find and the free-slot search give is the only one of its
\* member.
LEMMA SlotOf ==
  ASSUME NEW V, NEW r, RosterOk(V, r), NEW ct, RosterSlot(r, ct) # 0
  PROVE  LET i == RosterSlot(r, ct)
         IN  /\ i \in DOMAIN r \/ i = Len(r) + 1
             /\ \A j \in DOMAIN r : j # i /\ r[j].used => r[j].ct # ct
<1> DEFINE found == RosterFind(r, ct)
           free == {i \in DOMAIN r : ~r[i].used}
<1>1. Len(r) \in Nat /\ DOMAIN r = 1 .. Len(r)
  BY Zenon DEF RosterOk
<1>2. found \in SUBSET Nat /\ free \in SUBSET Nat
  BY <1>1 DEF RosterFind
<1>3. found # {} => Min(found) \in found
  BY <1>2, MinOfNaturals, Zenon
<1>4. free # {} => Min(free) \in free
  BY <1>2, MinOfNaturals, Zenon
<1>5. CASE found # {}
  BY <1>3, <1>5, ZenonT(60) DEF RosterSlot, RosterOk, RosterFind
<1>6. CASE found = {}
  <2>1. \A j \in DOMAIN r : r[j].used => r[j].ct # ct
    BY <1>6, Zenon DEF RosterFind
  <2>2. RosterSlot(r, ct) \in DOMAIN r \/ RosterSlot(r, ct) = Len(r) + 1
    BY <1>4, <1>6, Zenon DEF RosterSlot
  <2>3. QED
    BY <2>1, <2>2, Zenon
<1>7. QED
  BY <1>5, <1>6, Zenon

\* Writing an entry to the slot of its member keeps the roster sound.
LEMMA PutRoster ==
  ASSUME NEW V, NEW r, RosterOk(V, r), NEW ct, NEW pkct, RosterSlot(r, ct) # 0,
         Shown(V, Entry(ct, pkct))
  PROVE  RosterOk(V, RosterPut(r, RosterSlot(r, ct), Entry(ct, pkct)))
<1> DEFINE i == RosterSlot(r, ct)
           e == Entry(ct, pkct)
           q == RosterPut(r, i, e)
<1>1. /\ e.used = TRUE /\ e.ct = ct /\ e = [ct |-> e.ct, pkct |-> e.pkct, used |-> e.used]
  BY Zenon DEF Entry
<1>2. /\ Len(r) \in Nat /\ DOMAIN r = 1 .. Len(r) /\ r \in Seq(Range(r))
  BY Zenon DEF RosterOk
<1>3. /\ i \in DOMAIN r \/ i = Len(r) + 1
      /\ \A j \in DOMAIN r : j # i /\ r[j].used => r[j].ct # ct
  BY SlotOf, Zenon
<1> HIDE DEF e, i
<1>4. /\ q \in Seq(Range(r) \cup {e})
      /\ Len(q) \in Nat /\ DOMAIN q = 1 .. Len(q)
      /\ DOMAIN q = DOMAIN r \cup {i}
      /\ \A j \in DOMAIN q : q[j] = IF j = i THEN e ELSE r[j]
  <2>1. r \in Seq(Range(r) \cup {e})
    BY <1>2
  <2>2. CASE i \in DOMAIN r
    BY <1>2, <2>1, <2>2 DEF RosterPut
  <2>3. CASE i = Len(r) + 1
    BY <1>2, <2>1, <2>3, SMTT(60) DEF RosterPut
  <2>4. QED
    BY <1>3, <2>2, <2>3, Zenon
<1> HIDE DEF q
<1>5. q \in Seq(Range(q))
  BY <1>4 DEF Range
<1>6. \A j \in DOMAIN q : /\ q[j].used \in BOOLEAN
                         /\ q[j] = [ct |-> q[j].ct, pkct |-> q[j].pkct, used |-> q[j].used]
  BY <1>1, <1>4, ZenonT(60) DEF RosterOk
<1>7. \A j \in DOMAIN q : q[j].used => Shown(V, q[j])
  BY <1>4, ZenonT(60) DEF RosterOk, e
<1>8. \A j, k \in DOMAIN q : q[j].used /\ q[k].used /\ q[j].ct = q[k].ct => j = k
  <2>1. \A j, k \in DOMAIN r : r[j].used /\ r[k].used /\ r[j].ct = r[k].ct => j = k
    BY Zenon DEF RosterOk
  <2>2. QED
    BY <1>1, <1>3, <1>4, <2>1, ZenonT(60)
<1>9. RosterOk(V, q)
  BY <1>4, <1>5, <1>6, <1>7, <1>8, ZenonT(60) DEF RosterOk
<1>10. QED
  BY <1>9, Zenon DEF q, i, e

\* A function on 1 .. n is a sequence.
LEMMA FunctionIsSequence ==
  ASSUME NEW n \in Nat, NEW S, NEW f \in [1 .. n -> S]
  PROVE  f \in Seq(S) /\ Len(f) = n
  OBVIOUS

\* Dropping a member leaves the other entries as they were.
LEMMA DeleteRoster ==
  ASSUME NEW V, NEW r, RosterOk(V, r), NEW ct
  PROVE  RosterOk(V, RpcDeleteMember(r, ct).out)
<1> DEFINE q == RpcDeleteMember(r, ct).out
<1>1. /\ Len(r) \in Nat /\ DOMAIN r = 1 .. Len(r)
      /\ \A i \in DOMAIN r : r[i] = [ct |-> r[i].ct, pkct |-> r[i].pkct, used |-> r[i].used]
  BY Zenon DEF RosterOk
<1>2. q = [i \in 1 .. Len(r) |-> IF i \in RosterFind(r, ct)
                                 THEN [r[i] EXCEPT !.used = FALSE] ELSE r[i]]
  BY <1>1, Zenon DEF RpcDeleteMember, Result
<1>3. q \in Seq(Range(q)) /\ Len(q) = Len(r) /\ DOMAIN q = DOMAIN r
  <2>1. DOMAIN q = 1 .. Len(r)
    BY <1>2, Zenon
  <2> HIDE DEF q
  <2>2. q \in [1 .. Len(r) -> Range(q)]
    BY <1>2, <2>1, ZenonT(60) DEF Range
  <2>3. QED
    BY <1>1, <2>1, <2>2, FunctionIsSequence, Zenon
<1>4. ASSUME NEW i \in DOMAIN r
      PROVE  \/ q[i] = r[i]
             \/ q[i] = [ct |-> r[i].ct, pkct |-> r[i].pkct, used |-> FALSE]
  <2>1. q[i] = IF i \in RosterFind(r, ct) THEN [r[i] EXCEPT !.used = FALSE] ELSE r[i]
    BY <1>1, <1>2, Zenon
  <2>2. r[i] = [ct |-> r[i].ct, pkct |-> r[i].pkct, used |-> r[i].used]
    BY <1>1, Zenon
  <2> HIDE DEF q
  <2>3. QED
    BY <2>1, <2>2, ZenonT(60)
<1> HIDE DEF q
<1>5. ASSUME NEW i \in DOMAIN r
      PROVE  /\ q[i].ct = r[i].ct /\ (q[i].used => r[i].used /\ q[i] = r[i])
             /\ q[i].used \in BOOLEAN
             /\ q[i] = [ct |-> q[i].ct, pkct |-> q[i].pkct, used |-> q[i].used]
  <2>1. r[i].used \in BOOLEAN
    BY Zenon DEF RosterOk
  <2>2. CASE q[i] = r[i]
    BY <1>1, <2>1, <2>2, ZenonT(60)
  <2>3. CASE q[i] = [ct |-> r[i].ct, pkct |-> r[i].pkct, used |-> FALSE]
    BY <2>3
  <2>4. QED
    BY <1>4, <2>2, <2>3, Zenon
<1>6. /\ \A i \in DOMAIN q : q[i].used => Shown(V, q[i])
      /\ \A i, j \in DOMAIN q : q[i].used /\ q[j].used /\ q[i].ct = q[j].ct => i = j
  BY <1>3, <1>5, ZenonT(60) DEF RosterOk
<1>7. /\ Len(q) \in Nat /\ DOMAIN q = 1 .. Len(q)
  BY <1>1, <1>3, Zenon
<1>8. RosterOk(V, q)
  BY <1>3, <1>5, <1>6, <1>7, ZenonT(60) DEF RosterOk
<1>9. QED
  BY <1>8, Zenon DEF q

\* An invited member is shown without a profile key.
LEMMA InviteRoster ==
  ASSUME NEW V, NEW r, RosterOk(V, r), NEW uid \in Uids
  PROVE  RosterOk(V, RpcAddInvited(r, UidEncrypt(Key, uid)).out)
<1> DEFINE ct == UidEncrypt(Key, uid)
<1>1. Shown(V, Entry(ct, None))
  BY Zenon DEF Shown, Entry
<1>2. RpcAddInvited(r, ct).out = IF RosterSlot(r, ct) = 0 THEN r
                                 ELSE RosterPut(r, RosterSlot(r, ct), Entry(ct, None))
  BY Zenon DEF RpcAddInvited, Result
<1> HIDE DEF ct
<1>3. RosterOk(V, RpcAddInvited(r, ct).out)
  BY <1>1, <1>2, PutRoster, Zenon
<1>4. QED
  BY <1>3, Zenon DEF ct

\* The server's check accepts a presentation only when its tag is over the
\* account and the key presented.
LEMMA PresentedVouched ==
  ASSUME NEW uid, NEW pk, NEW x,
         PkPresentVerify(ServerKey, GroupPublicDerive(Key),
                         PkPresent(Key, uid, pk, Mac(SecretP(ServerKey), x)))
  PROVE  x = AttrProfile(uid, pk)
<1> DEFINE tag == Mac(SecretP(ServerKey), x)
           pres == PkPresent(Key, uid, pk, tag)
           z == MacVerify(SecretP(ServerKey), AttrProfile(uid, pk), tag)
<1>1. /\ pres.pkcom.uid = uid /\ pres.pkcom.pk = pk /\ pres.pkcom.tag = tag
      /\ pres.pi.stmt.z = TRUE
  BY Zenon DEF PkPresent, ConjProve, PiP
<1>2. PkPresentVerify(ServerKey, GroupPublicDerive(Key), pres) =>
        pres.pi.stmt = PiP(z, GroupPublicDerive(Key), pres.pkcom, pres.ct, pres.pkct)
  <2> HIDE DEF pres, tag
  <2>1. QED
    BY <1>1, ZenonT(60) DEF PkPresentVerify, ConjVerify
<1> HIDE DEF pres
<1>3. z = TRUE
  <2>1. PiP(z, GroupPublicDerive(Key), pres.pkcom, pres.ct, pres.pkct).z = z
    BY ZenonT(60) DEF PiP
  <2>2. QED
    BY <1>1, <1>2, <2>1, ZenonT(60) DEF pres
<1>4. tag = Mac(SecretP(ServerKey), AttrProfile(uid, pk))
  BY <1>3, Zenon DEF MacVerify
<1>5. QED
  BY <1>4, Zenon DEF Mac

\* An accepted presentation shows what the server vouched for; a refused one
\* changes nothing.
LEMMA AddRoster ==
  ASSUME NEW V, NEW r, RosterOk(V, r), NEW uid \in Accounts, NEW pk \in ProfileKeys, NEW x \in V
  PROVE  RosterOk(V, RpcAddMember(ServerKey, GroupPublicDerive(Key), r,
                                  PkPresent(Key, uid, pk, Mac(SecretP(ServerKey), x))).out)
<1> DEFINE p == GroupPublicDerive(Key)
           pres == PkPresent(Key, uid, pk, Mac(SecretP(ServerKey), x))
           v == ServerVerifyPk(ServerKey, p, pres)
           ct == UidEncrypt(Key, uid)
           pkct == PkEncrypt(Key, uid, pk)
           out == RpcAddMember(ServerKey, p, r, pres).out
<1>1. pres.ct = ct /\ pres.pkct = pkct
  BY Zenon DEF PkPresent
<1>2. \/ v.rc = "VERIFY"
      \/ PkPresentVerify(ServerKey, p, pres) /\ v.out.ct = ct /\ v.out.pkct = pkct
  <2> HIDE DEF pres, ct, pkct
  <2>1. QED
    BY <1>1, Zenon DEF ServerVerifyPk, Refuse, Result
<1>3. \/ out = r
      \/ /\ v.rc # "VERIFY" /\ RosterSlot(r, ct) # 0
         /\ out = RosterPut(r, RosterSlot(r, ct), Entry(v.out.ct, v.out.pkct))
  <2> HIDE DEF pres, ct, pkct, v, p
  <2>1. QED
    BY <1>1, Zenon DEF RpcAddMember, Result, v
<1>4. CASE PkPresentVerify(ServerKey, p, pres)
  <2>1. x = AttrProfile(uid, pk)
    BY <1>4, PresentedVouched, Zenon
  <2>2. uid \in Uids
    BY Zenon DEF Uids
  <2>3. Shown(V, Entry(ct, pkct))
    BY <2>1, <2>2, Zenon DEF Shown, Entry
  <2> HIDE DEF ct, pkct, v
  <2>4. out = r \/ (RosterSlot(r, ct) # 0 /\ out = RosterPut(r, RosterSlot(r, ct), Entry(ct, pkct)))
    BY <1>2, <1>3, Zenon
  <2> HIDE DEF out
  <2>5. RosterOk(V, out)
    BY <2>3, <2>4, PutRoster, Zenon
  <2>6. QED
    BY <2>5, Zenon DEF out
<1>5. CASE ~PkPresentVerify(ServerKey, p, pres)
  <2>1. out = r
    BY <1>2, <1>3, <1>5, Zenon
  <2>2. QED
    BY <2>1, Zenon
<1>6. QED
  BY <1>4, <1>5, Zenon

-----------------------------------------------------------------------------
(* The steps.                                                              *)

KeysKept == \A c \in Clients : KeyLast(st[c], st'[c])

\* A call that keeps its store sound and posts what is in order keeps the
\* invariant.
LEMMA CalledInv ==
  ASSUME IInv, NEW c \in Clients, NEW r, NEW m, Called(c, r, m),
         Sound(Vouched, c, st[c], r.st), \A x \in m : PostOk(Vouched, x)
  PROVE  IInv' /\ KeysKept
<1>1. /\ st' = [st EXCEPT ![c] = r.st] /\ net' = net \cup m
      /\ sc' = sc /\ server' = server /\ blob' = blob /\ pub' = pub /\ roster' = roster
      /\ reqs' = reqs /\ now' = now
  BY Zenon DEF Called, Send
<1>2. Vouched' = Vouched
  BY <1>1, Zenon DEF Vouched
<1>3. /\ DOMAIN st' = Clients
      /\ \A d \in Clients : st'[d] = IF d = c THEN r.st ELSE st[d]
  BY <1>1, Zenon DEF IInv
<1>4. \A d \in Clients : StoreOk(Vouched', d, st'[d]) /\ KeyLast(st[d], st'[d])
  BY <1>2, <1>3, Zenon DEF IInv, Sound, KeyLast
<1>5. QED
  BY <1>1, <1>2, <1>3, <1>4, Zenon DEF IInv, KeysKept

\* A request adds to what is vouched for and takes nothing away.
LEMMA RequestInv ==
  ASSUME IInv, NEW c \in Clients, NEW pk \in ProfileKeys, NEW cap, NEW bad, Request(c, pk, cap, bad)
  PROVE  IInv' /\ KeysKept
<1> DEFINE r == PkCredentialRequest(st[c], G, Uid[c], pk, nreq + 1, cap, bad)
           n == [uid |-> Uid[c], commit |-> PkCommit(Uid[c], pk), req |-> r.out]
<1>1. /\ st' = [st EXCEPT ![c] = r.st]
      /\ reqs' = IF r.out = None THEN reqs ELSE reqs \cup {n}
      /\ sc' = sc /\ server' = server /\ blob' = blob /\ pub' = pub /\ roster' = roster
      /\ net' = net /\ now' = now
  BY Zenon DEF Request
<1>2. Sound(Vouched, c, st[c], r.st) /\ r.out \in {None, PkRequest(Uid[c], pk, nreq + 1)}
  BY RequestSound, ZenonT(60) DEF IInv
<1>3. r.out # None => RequestOk(n)
  <2> SUFFICES ASSUME r.out # None PROVE RequestOk(n)
    BY Zenon
  <2>1. r.out = PkRequest(Uid[c], pk, nreq + 1) /\ r.out.yy = nreq + 1
    <3>1. r.out = PkRequest(Uid[c], pk, nreq + 1)
      BY <1>2, ZenonT(60)
    <3>2. PkRequest(Uid[c], pk, nreq + 1).yy = nreq + 1
      BY Zenon DEF PkRequest
    <3>3. QED
      BY <3>1, <3>2, ZenonT(60)
  <2>2. n.req.yy = nreq + 1
    BY <2>1, Zenon
  <2>3. Uid[c] \in Accounts
    BY Zenon DEF Accounts
  <2> HIDE DEF r
  <2>4. n = [uid |-> Uid[c], commit |-> PkCommit(Uid[c], pk), req |-> PkRequest(Uid[c], pk, n.req.yy)]
    BY <2>1, <2>2, Zenon
  <2> HIDE DEF n
  <2>5. QED
    BY <2>3, <2>4, Zenon DEF RequestOk
<1> HIDE DEF r, n
<1>4. Vouched \subseteq Vouched'
  BY <1>1, Zenon DEF Vouched
<1>5. /\ DOMAIN st' = Clients
      /\ \A d \in Clients : st'[d] = IF d = c THEN r.st ELSE st[d]
  BY <1>1, Zenon DEF IInv
<1>6. \A d \in Clients : StoreOk(Vouched, d, st'[d]) /\ KeyLast(st[d], st'[d])
  BY <1>2, <1>5, ZenonT(60) DEF IInv, Sound, KeyLast
<1>7. \A d \in Clients : StoreOk(Vouched', d, st'[d])
  BY <1>4, <1>6, StoreGrows, ZenonT(60)
<1>8. \A m \in net' : PostOk(Vouched', m)
  BY <1>1, <1>4, PostGrows, Zenon DEF IInv
<1>9. RosterOk(Vouched', roster')
  BY <1>1, <1>4, RosterGrows, Zenon DEF IInv
<1>10. \A m \in reqs' : RequestOk(m)
  BY <1>1, <1>3, Zenon DEF IInv
<1>11. QED
  BY <1>1, <1>5, <1>6, <1>7, <1>8, <1>9, <1>10, Zenon DEF IInv, KeysKept

\* Every call of a custodian,
LEMMA ClientInv ==
  ASSUME IInv, NEW c \in Clients, ClientCall(c)
  PROVE  IInv' /\ KeysKept
<1>1. StoreOk(Vouched, c, st[c]) /\ server = ServerKey
  BY Zenon DEF IInv
<1>2. Accounts \cup sc.others \subseteq Uids
  BY ScenarioAssumption, Zenon DEF IInv, Scenario, Uids
<1>3. ASSUME NEW uid \in Accounts, NEW of \in Accounts, NEW date \in 0 .. MaxNow, NEW on \in 0 .. MaxNow,
             ReceiveAuth(c, uid, date, of, on, {})
      PROVE  IInv' /\ KeysKept
  <2>1. /\ ServerIssueAuth(ServerKey, of, on).rc = "OK"
        /\ Called(c, ReceiveAuthCredential(st[c], G, uid, date,
                                           ServerIssueAuth(ServerKey, of, on).out, {}), {})
    BY <1>1, <1>3, Zenon DEF ReceiveAuth
  <2>2. QED
    BY <1>1, <2>1, ReceiveAuthSound, CalledInv, SMTT(60)
<1>4. ASSUME NEW env \in Envelopes, NEW bad, InstallEnvelope(c, env, bad) PROVE IInv' /\ KeysKept
  BY <1>1, <1>4, InstallSound, CalledInv, SMTT(60) DEF InstallEnvelope
<1>5. ASSUME NEW pk \in ProfileKeys, NEW cap, NEW bad, Commit(c, pk, cap, bad) PROVE IInv' /\ KeysKept
  BY <1>1, <1>5, CommitSound, CalledInv DEF Commit
<1>6. ASSUME NEW pk \in ProfileKeys, NEW cap, NEW bad, Request(c, pk, cap, bad) PROVE IInv' /\ KeysKept
  BY <1>6, RequestInv, Zenon
<1>7. ASSUME NEW uid \in Uids, NEW cap, NEW bad, Delete(c, uid, cap, bad) PROVE IInv' /\ KeysKept
  BY <1>1, <1>7, DeleteSound, CalledInv, SMTT(60) DEF Delete, Posts
<1>8. ASSUME NEW m \in reqs, NEW bad, Finish(c, m, bad) PROVE IInv' /\ KeysKept
  <2>1. [uid |-> m.uid, blind |-> m.req.blind] \in Vouched
    BY Zenon DEF Vouched
  <2>2. /\ ServerBlindIssuePk(ServerKey, m.uid, m.commit, m.req).rc = "OK"
        /\ Called(c, PkCredentialFinish(st[c], G, Uid[c],
                        ServerBlindIssuePk(ServerKey, m.uid, m.commit, m.req).out, bad), {})
    BY <1>1, <1>8, ZenonT(60) DEF Finish
  <2> DEFINE r == PkCredentialFinish(st[c], G, Uid[c],
                        ServerBlindIssuePk(ServerKey, m.uid, m.commit, m.req).out, bad)
  <2>3. Sound(Vouched, c, st[c], r.st)
    BY <1>1, <2>1, <2>2, FinishSound, ZenonT(60)
  <2>4. Called(c, r, {})
    BY <2>2, ZenonT(60)
  <2> HIDE DEF r
  <2>5. \A x \in {} : PostOk(Vouched, x)
    BY Zenon
  <2>6. QED
    BY <2>3, <2>4, <2>5, CalledInv, SMTT(60)
<1>9. ASSUME NEW pk \in ProfileKeys, NEW cap, NEW bad, Update(c, pk, cap, bad) PROVE IInv' /\ KeysKept
  BY <1>1, <1>9, UpdateSound, CalledInv, ZenonT(60) DEF Update, Posts
<1>10. ASSUME NEW bad, ForgetGroup(c, bad) PROVE IInv' /\ KeysKept
  BY <1>1, <1>10, ForgetSound, CalledInv, SMTT(60) DEF ForgetGroup
<1>11. ASSUME NEW cap, Add(c, cap) PROVE IInv' /\ KeysKept
  BY <1>1, <1>11, AddSound, CalledInv, ZenonT(60) DEF Add, Posts
<1>12. ASSUME NEW uid \in Uids, NEW cap, Invite(c, uid, cap) PROVE IInv' /\ KeysKept
  BY <1>1, <1>12, InviteSound, CalledInv, Zenon DEF Invite, Posts
<1>13. QED
  BY <1>2, <1>3, <1>4, <1>5, <1>6, <1>7, <1>8, <1>9, <1>10, <1>11, <1>12, ZenonT(60) DEF ClientCall

\* every step of the server,
LEMMA ServerInv ==
  ASSUME IInv, ServerStep
  PROVE  IInv' /\ st' = st
<1>1. server = ServerKey /\ pub = GroupPublicDerive(Key) /\ RosterOk(Vouched, roster)
  BY Zenon DEF IInv
<1>2. ASSUME Served, pub' = pub, RosterOk(Vouched, roster') PROVE IInv' /\ st' = st
  <2>1. Vouched' = Vouched
    BY <1>2, Zenon DEF Served, Vouched
  <2>2. QED
    BY <1>2, <2>1, Zenon DEF Served, IInv
<1>3. ASSUME NEW pres \in Of("add"), HandleAdd(pres) PROVE IInv' /\ st' = st
  <2>1. PICK uid \in Accounts, pk \in ProfileKeys, x \in Vouched :
           pres = PkPresent(Key, uid, pk, Mac(SecretP(ServerKey), x))
    BY ZenonT(60) DEF Of, IInv, PostOk
  <2>2. RosterOk(Vouched, roster')
    BY <1>1, <1>3, <2>1, AddRoster, Zenon DEF HandleAdd
  <2>3. QED
    BY <1>2, <1>3, <2>2, Zenon DEF HandleAdd
<1>4. ASSUME NEW ct \in Of("invite"), HandleInvite(ct) PROVE IInv' /\ st' = st
  <2>1. PICK uid \in Uids : ct = UidEncrypt(Key, uid)
    BY Zenon DEF Of, IInv, PostOk
  <2>2. RosterOk(Vouched, roster')
    BY <1>1, <1>4, <2>1, InviteRoster, Zenon DEF HandleInvite
  <2>3. QED
    BY <1>2, <1>4, <2>2, Zenon DEF HandleInvite
<1>5. ASSUME NEW ct \in Of("delete"), HandleDelete(ct) PROVE IInv' /\ st' = st
  <2>1. RosterOk(Vouched, roster')
    BY <1>1, <1>5, DeleteRoster, Zenon DEF HandleDelete
  <2>2. QED
    BY <1>2, <1>5, <2>1, Zenon DEF HandleDelete
<1>6. CASE ServerRestart
  <2>1. server' = ServerKey
    <3>1. blob # None
      BY NoneAssumption, ZenonT(60) DEF IInv
    <3>2. blob.under = "cred" /\ blob.sealed = ServerKey
      BY Zenon DEF IInv, ServerSeal
    <3>3. QED
      BY <1>6, <3>1, <3>2, Zenon DEF ServerRestart, ServerOpen, Result
  <2>2. Vouched' = Vouched
    BY <1>6, Zenon DEF ServerRestart, Vouched
  <2>3. QED
    BY <1>6, <2>1, <2>2, Zenon DEF ServerRestart, IInv
<1>7. QED
  BY <1>3, <1>4, <1>5, <1>6, Zenon DEF ServerStep

\* the initial state,
LEMMA InitInv ==
  ASSUME Init
  PROVE  IInv
<1>1. ASSUME NEW V, NEW c PROVE StoreOk(V, c, Installed) /\ StoreOk(V, c, Founded)
  BY FoundedStore, NamesDistinct, ZenonT(60) DEF StoreOk, RecordOk
<1>2. PICK f \in Clients : st = [c \in Clients |-> IF c = f THEN Founded ELSE Installed]
  BY Zenon DEF Init
<1>3. DOMAIN st = Clients /\ \A c \in Clients : st[c] \in {Founded, Installed}
  BY <1>2, Zenon
<1>4. \A c \in Clients : StoreOk(Vouched, c, st[c])
  BY <1>1, <1>3, Zenon
<1>5. pub = GroupPublicDerive(Key)
  <2> DEFINE r == LoadRec(Founded, MasterKey(G))
  <2>1. r = Founded[MasterKey(G)] /\ r # None
    <3>1. r = Founded[MasterKey(G)]
      BY FoundedStore, Zenon DEF LoadRec
    <3>2. QED
      BY <3>1, FoundedStore, NoneAssumption, ZenonT(60)
  <2>2. r.key = Key /\ r.ver = NewestFormat
    BY <2>1, FoundedStore, SMTT(60)
  <2> HIDE DEF r
  <2>3. GroupLoad(Founded, G) = "OK" /\ GroupSecret(Founded, G) = Key
    BY <2>1, <2>2, Zenon DEF GroupLoad, GroupSecret, G, r
  <2>4. QED
    BY <2>3, Zenon DEF Init, ExportGroupPublicParams, Emit, Result
<1>6. RosterOk(Vouched, roster)
  BY DEF Init, RosterOk, Range
<1>7. now \in Nat
  BY DayAssumption DEF Init
<1>8. QED
  BY <1>3, <1>4, <1>5, <1>6, <1>7, Zenon DEF Init, IInv

\* and hence every step.
LEMMA StepInv ==
  ASSUME IInv, [Next]_vars
  PROVE  IInv' /\ KeysKept
<1>1. ASSUME st' = st PROVE KeysKept
  BY <1>1, Zenon DEF KeysKept, KeyLast
<1>2. ASSUME NEW c \in Clients, ClientCall(c) PROVE IInv' /\ KeysKept
  BY <1>2, ClientInv, Zenon
<1>3. CASE ServerStep
  BY <1>1, <1>3, ServerInv, Zenon
<1>4. CASE Tick
  <2>1. Vouched' = Vouched /\ now' \in Nat
    BY <1>4, SMTT(60) DEF Tick, Vouched, IInv
  <2>2. QED
    BY <1>1, <1>4, <2>1, Zenon DEF Tick, IInv
<1>5. ASSUME NEW m \in net, Lose(m) PROVE IInv' /\ KeysKept
  <2>1. Vouched' = Vouched
    BY <1>5, Zenon DEF Lose, Vouched
  <2>2. QED
    BY <1>1, <1>5, <2>1, Zenon DEF Lose, IInv
<1>6. CASE UNCHANGED vars
  <2>1. Vouched' = Vouched
    BY <1>6, Zenon DEF vars, Vouched
  <2>2. QED
    BY <1>1, <1>6, <2>1, Zenon DEF vars, IInv
<1>7. QED
  BY <1>2, <1>3, <1>4, <1>5, <1>6, Zenon DEF Next

-----------------------------------------------------------------------------
(* The calendar.                                                           *)

\* A day-aligned time is the start of exactly the DaySecs ticks after it.
LEMMA DayOf ==
  ASSUME NEW t \in Nat, NEW d \in Nat, DayAligned(d)
  PROVE  (t \div DaySecs) * DaySecs = d <=> t \in d .. d + DaySecs - 1
<1> DEFINE q == t \div DaySecs
           p == d \div DaySecs
<1>1. DaySecs \in Nat /\ DaySecs > 0
  BY DayAssumption
<1>2. /\ q \in Int /\ q * DaySecs <= t /\ t < q * DaySecs + DaySecs
  BY <1>1
<1>3. p \in Int /\ p * DaySecs = d
  BY <1>1 DEF DayAligned
<1> HIDE DEF q, p
<1>4. ASSUME q < p PROVE q * DaySecs + DaySecs <= p * DaySecs
  <2>1. (p - q) * DaySecs >= DaySecs
    BY <1>1, <1>2, <1>3, <1>4, SMTT(60)
  <2>2. QED
    BY <1>1, <1>2, <1>3, <2>1
<1>5. ASSUME p < q PROVE p * DaySecs + DaySecs <= q * DaySecs
  BY <1>1, <1>2, <1>3, <1>5, SMTT(60)
<1>6. ASSUME t \in d .. d + DaySecs - 1 PROVE q * DaySecs = d
  BY <1>1, <1>2, <1>3, <1>4, <1>5, <1>6, SMTT(60)
<1>7. QED
  BY <1>1, <1>2, <1>6 DEF q

-----------------------------------------------------------------------------
(* The roster as it is read.                                               *)

\* The entries in use among the first n, as handle_rpc collects them.
IsList(f, r, n) ==
  f = [i \in 0 .. n |-> IF i = 0 THEN << >>
                        ELSE IF r[i].used THEN Append(f[i - 1], r[i]) ELSE f[i - 1]]

\* The loop of handle_rpc over the roster is well defined.
LEMMA ListExists ==
  ASSUME NEW r, NEW n \in Nat
  PROVE  \E f : IsList(f, r, n)
<1> DEFINE S == {k \in Nat : \E f : IsList(f, r, k)}
<1>1. 0 \in S
  <2> DEFINE f == [i \in 0 .. 0 |-> << >>]
  <2>1. IsList(f, r, 0)
    BY DEF IsList
  <2>2. QED
    BY <2>1, Zenon
<1>2. ASSUME NEW k \in Nat, k \in S PROVE k + 1 \in S
  <2>1. PICK f : IsList(f, r, k)
    BY <1>2, Zenon
  <2>2. DOMAIN f = 0 .. k /\ \A i \in 0 .. k :
           f[i] = IF i = 0 THEN << >> ELSE IF r[i].used THEN Append(f[i - 1], r[i]) ELSE f[i - 1]
    BY <2>1, ZenonT(60) DEF IsList
  <2> DEFINE e == IF r[k + 1].used THEN Append(f[k], r[k + 1]) ELSE f[k]
             g == [i \in 0 .. k + 1 |-> IF i = k + 1 THEN e ELSE f[i]]
             h == [i \in 0 .. k + 1 |-> IF i = 0 THEN << >>
                                        ELSE IF r[i].used THEN Append(g[i - 1], r[i]) ELSE g[i - 1]]
  <2>3. ASSUME NEW i \in 0 .. k + 1
        PROVE  g[i] = IF i = 0 THEN << >> ELSE IF r[i].used THEN Append(g[i - 1], r[i]) ELSE g[i - 1]
    <3>1. CASE i = k + 1
      <4>1. g[i] = e /\ i # 0 /\ i - 1 = k /\ g[i - 1] = f[k]
        BY <3>1
      <4> HIDE DEF g
      <4>2. QED
        BY <3>1, <4>1, Zenon
    <3>2. CASE i # k + 1
      <4>1. i \in 0 .. k /\ g[i] = f[i] /\ (i # 0 => g[i - 1] = f[i - 1])
        BY <3>2
      <4> HIDE DEF g
      <4>2. QED
        BY <2>2, <4>1, Zenon
    <3>3. QED
      BY <3>1, <3>2, Zenon
  <2>4. g = h
    <3>1. \A i \in 0 .. k + 1 : g[i] = h[i]
      <4> HIDE DEF g
      <4>1. QED
        BY <2>3, Zenon
    <3> HIDE DEF e
    <3>2. QED
      BY <3>1, Zenon
  <2> HIDE DEF g
  <2>5. IsList(g, r, k + 1)
    BY <2>4, ZenonT(60) DEF IsList
  <2>6. QED
    BY <2>5
<1> HIDE DEF S
<1>3. n \in S
  BY <1>1, <1>2, NatSetInduction, Zenon
<1>4. QED
  BY <1>3, Zenon DEF S

\* The list holds entries in use, none twice.
Lists(list, r, n) ==
  /\ list \in Seq(Range(r))
  /\ \A j \in DOMAIN list : \E i \in 1 .. n : r[i].used /\ list[j] = r[i]
  /\ \A j, k \in DOMAIN list : list[j].ct = list[k].ct => j = k

\* One more entry looked at.
LEMMA ListsGrows ==
  ASSUME NEW V, NEW r, RosterOk(V, r), NEW n \in Nat, n + 1 <= Len(r), NEW list, Lists(list, r, n)
  PROVE  /\ Lists(list, r, n + 1)
         /\ r[n + 1].used => Lists(Append(list, r[n + 1]), r, n + 1)
<1>1. /\ list \in Seq(Range(r))
      /\ \A j \in DOMAIN list : \E i \in 1 .. n : r[i].used /\ list[j] = r[i]
      /\ \A j, k \in DOMAIN list : list[j].ct = list[k].ct => j = k
  BY Zenon DEF Lists
<1>2. /\ Len(r) \in Nat /\ DOMAIN r = 1 .. Len(r)
      /\ \A i, j \in DOMAIN r : r[i].used /\ r[j].used /\ r[i].ct = r[j].ct => i = j
  BY Zenon DEF RosterOk
<1>3. \A i \in 1 .. n : i \in 1 .. n + 1 /\ i \in DOMAIN r /\ i # n + 1
  BY <1>2
<1>4. n + 1 \in DOMAIN r /\ n + 1 \in 1 .. n + 1
  BY <1>2
<1>5. Lists(list, r, n + 1)
  BY <1>1, <1>3, ZenonT(60) DEF Lists
<1>6. ASSUME r[n + 1].used PROVE Lists(Append(list, r[n + 1]), r, n + 1)
  <2> DEFINE e == r[n + 1]
             q == Append(list, e)
             z == Len(list) + 1
  <2>1. e \in Range(r)
    BY <1>4, Zenon DEF Range
  <2> HIDE DEF e
  <2>2. /\ q \in Seq(Range(r)) /\ DOMAIN q = DOMAIN list \cup {z} /\ z \notin DOMAIN list
        /\ q[z] = e /\ \A j \in DOMAIN list : q[j] = list[j]
    BY <1>1, <2>1
  <2> HIDE DEF q, z
  <2>3. \A j \in DOMAIN list : list[j].ct # e.ct
    BY <1>1, <1>2, <1>3, <1>4, <1>6, ZenonT(60) DEF e
  <2>4. \A j \in DOMAIN q : \E i \in 1 .. n + 1 : r[i].used /\ q[j] = r[i]
    BY <1>1, <1>3, <1>4, <1>6, <2>2, ZenonT(60) DEF e
  <2>5. \A j, k \in DOMAIN q : q[j].ct = q[k].ct => j = k
    BY <1>1, <2>2, <2>3, ZenonT(60)
  <2>6. Lists(q, r, n + 1)
    BY <2>2, <2>4, <2>5, Zenon DEF Lists
  <2>7. QED
    BY <2>6, Zenon DEF q, e
<1>7. QED
  BY <1>5, <1>6, Zenon

\* The whole list.
LEMMA FetchLists ==
  ASSUME NEW V, NEW r, RosterOk(V, r)
  PROVE  Lists(RpcFetchMembers(r), r, Len(r))
<1> DEFINE n == Len(r)
           f == CHOOSE g : IsList(g, r, n)
<1>1. n \in Nat
  BY Zenon DEF RosterOk
<1>2. RpcFetchMembers(r) = f[n]
  BY Zenon DEF RpcFetchMembers, IsList
<1> HIDE DEF n
<1>3. IsList(f, r, n)
  BY <1>1, ListExists, ZenonT(60)
<1> HIDE DEF f
<1>4. \A i \in 0 .. n :
         f[i] = IF i = 0 THEN << >> ELSE IF r[i].used THEN Append(f[i - 1], r[i]) ELSE f[i - 1]
  BY <1>3, ZenonT(60) DEF IsList
<1> DEFINE S == {i \in Nat : i <= n => Lists(f[i], r, i)}
<1>5. 0 \in S
  <2>1. f[0] = << >>
    BY <1>1, <1>4
  <2>2. Lists(<< >>, r, 0)
    BY SMTT(60) DEF Lists
  <2>3. QED
    BY <2>1, <2>2, Zenon
<1>6. ASSUME NEW i \in Nat, i \in S PROVE i + 1 \in S
  <2> SUFFICES ASSUME i + 1 <= n PROVE Lists(f[i + 1], r, i + 1)
    BY <1>1
  <2>1. Lists(f[i], r, i)
    BY <1>1, <1>6, SMTT(60)
  <2>2. f[i + 1] = IF r[i + 1].used THEN Append(f[i], r[i + 1]) ELSE f[i]
    BY <1>1, <1>4
  <2>3. QED
    BY <2>1, <2>2, ListsGrows, Zenon DEF n
<1> HIDE DEF S
<1>7. n \in S
  BY <1>1, <1>5, <1>6, NatSetInduction, ZenonT(60)
<1>8. QED
  BY <1>1, <1>2, <1>7, SMTT(60) DEF S, n

\* An entry that shows a vouched-for key opens under the group's key, to that
\* member and key.
LEMMA ShownOpens ==
  ASSUME NEW V, NEW e, Shown(V, e)
  PROVE  /\ MemberOpens(Key, e)
         /\ DecryptMember(Key, e).pk # None =>
               AttrProfile(DecryptMember(Key, e).uid, DecryptMember(Key, e).pk) \in V
<1>1. PICK uid \in Uids :
         /\ e.ct = UidEncrypt(Key, uid)
         /\ e.pkct = None \/ \E pk \in ProfileKeys : /\ e.pkct = PkEncrypt(Key, uid, pk)
                                                     /\ AttrProfile(uid, pk) \in V
  BY Zenon DEF Shown
<1>2. uid # None /\ None \notin ProfileKeys
  BY NoneAssumption, ZenonT(60) DEF Uids, Accounts
<1>3. UidDecrypt(Key, e.ct) = uid
  BY <1>1, SMTT(60) DEF UidDecrypt, UidEncrypt
<1>4. CASE e.pkct = None
  BY <1>2, <1>3, <1>4, ZenonT(60) DEF MemberOpens, DecryptMember
<1>5. ASSUME NEW pk \in ProfileKeys, e.pkct = PkEncrypt(Key, uid, pk), AttrProfile(uid, pk) \in V
      PROVE  /\ MemberOpens(Key, e)
             /\ DecryptMember(Key, e).pk # None =>
                   AttrProfile(DecryptMember(Key, e).uid, DecryptMember(Key, e).pk) \in V
  <2>1. PkDecrypt(Key, uid, e.pkct) = pk
    BY <1>5, SMTT(60) DEF PkDecrypt, PkEncrypt
  <2>2. MemberOpens(Key, e)
    BY <1>2, <1>3, <2>1, Zenon DEF MemberOpens
  <2>3. DecryptMember(Key, e).uid = uid /\ DecryptMember(Key, e).pk \in {None, pk}
    BY <1>3, <2>1, Zenon DEF DecryptMember
  <2>4. QED
    BY <1>5, <2>2, <2>3, ZenonT(60)
<1>6. QED
  BY <1>1, <1>4, <1>5, Zenon

-----------------------------------------------------------------------------
(* The theorems.                                                           *)

\* Everything a custodian stores, sends and is shown goes back to a request its
\* owner made, through every interleaving, failed write and restart.
THEOREM GroupInvariant == Spec => []IInv
<1>1. Init => IInv
  BY InitInv, Zenon
<1>2. IInv /\ [Next]_vars => IInv'
  BY StepInv, Zenon
<1>3. QED
  BY <1>1, <1>2, PTL DEF Spec

\* Every credential gy_custodian_group_receive_auth_credential and
\* gy_custodian_group_pk_credential_finish store is one the server's key
\* verifies, however answers are delayed, repeated or overtaken.
THEOREM CredentialsSound == Spec => []CredentialsVerify
<1>1. ASSUME IInv PROVE CredentialsVerify
  <2> SUFFICES ASSUME NEW c \in Clients PROVE HeldVerify(c)
    BY Zenon DEF CredentialsVerify
  <2> DEFINE s == st[c]
  <2>1. \A k \in DOMAIN s : RecordOk(Vouched, c, k, s[k])
    BY <1>1, Zenon DEF IInv, StoreOk
  <2>2. ASSUME AuthCred(G) \in DOMAIN s
        PROVE  \E uid \in Accounts :
                  MacVerify(SecretA(ServerKey), AttrAuth(uid, s[AuthCred(G)].date), s[AuthCred(G)].tag)
    <3> DEFINE v == s[AuthCred(G)]
    <3>1. PICK uid \in Accounts :
             v = [tag |-> Mac(SecretA(ServerKey), AttrAuth(uid, v.date)), date |-> v.date]
      BY <2>1, <2>2, ZenonT(60) DEF RecordOk
    <3> HIDE DEF v
    <3>2. v.tag = Mac(SecretA(ServerKey), AttrAuth(uid, v.date))
      BY <3>1, SMTT(60)
    <3>3. QED
      BY <3>2, Zenon DEF MacVerify, v
  <2>3. ASSUME PkCred(G, Uid[c]) \in DOMAIN s
        PROVE  \E x \in Vouched : x.uid = Uid[c] /\ MacVerify(SecretP(ServerKey), x, s[PkCred(G, Uid[c])])
    BY <2>1, <2>3, ZenonT(60) DEF RecordOk, MacVerify
  <2>4. QED
    BY <2>2, <2>3, ZenonT(60) DEF HeldVerify
<1>2. QED
  BY <1>1, GroupInvariant, PTL

\* gy_group_delete_stored removes the master key after what depends on it, and
\* nothing else removes it, whichever write fails.
THEOREM MasterKeyGoesLast == Spec => MasterKeyLast
<1>1. IInv /\ [Next]_vars =>
        [\A c \in Clients : MasterKey(G) \in DOMAIN st[c] \ DOMAIN st'[c] =>
              {AuthCred(G), OwnPk(G)} \cap DOMAIN st'[c] = {}]_st
  BY StepInv, Zenon DEF KeysKept, KeyLast
<1>2. QED
  BY <1>1, GroupInvariant, PTL DEF Spec, MasterKeyLast

\* gy_custodian_group_auth_present answers on the credential's day only, and
\* gy_group_server_verify_auth accepts what it answers.
THEOREM PresentationsGood == Spec => []PresentationsAccepted
<1>1. ASSUME IInv PROVE PresentationsAccepted
  <2> SUFFICES ASSUME NEW c \in Clients
               PROVE  LET r == AuthPresentCall(st[c], G, Uid[c], TRUE, now, "enough")
                          cred == LoadRec(st[c], AuthCred(G))
                      IN  /\ r.rc = "OK" /\ pub # None /\ cred.tag.attrs.uid = Uid[c] =>
                                /\ RpcVerifyAuth(server, pub, r.out) = "REPLY"
                                /\ now \in r.out.date .. r.out.date + DaySecs - 1
                          /\ r.rc = "EXPIRED" => now \notin cred.date .. cred.date + DaySecs - 1
    BY ZenonT(60) DEF PresentationsAccepted
  <2> DEFINE s == st[c]
             r == AuthPresentCall(s, G, Uid[c], TRUE, now, "enough")
             cred == LoadRec(s, AuthCred(G))
             pres == AuthPresent(GroupSecret(s, G), Uid[c], cred.date, cred.tag)
  <2>1. StoreOk(Vouched, c, s) /\ server = ServerKey /\ pub = GroupPublicDerive(Key) /\ now \in Nat
    BY <1>1, Zenon DEF IInv
  <2>2. \/ r.rc \notin {"OK", "EXPIRED"}
        \/ /\ GroupLoad(s, G) = "OK" /\ AuthCred(G) \in DOMAIN s
           /\ \/ r.rc = "EXPIRED" /\ ~AuthCredValid(cred, now)
              \/ r.rc = "OK" /\ AuthCredValid(cred, now) /\ r.out = pres
    <3>1. AuthCred(G) \in DOMAIN s \/ cred = None
      BY Zenon DEF LoadRec
    <3>2. GroupLoad(s, G) \in {"NOT_FOUND", "VERIFY", "OK"}
      BY Zenon DEF GroupLoad
    <3>3. \/ LoadForPresentation(s, G) = "OK" /\ GroupLoad(s, G) = "OK"
          \/ LoadForPresentation(s, G) \in {"NOT_FOUND", "VERIFY", "STATE"}
      BY <3>2, Zenon DEF LoadForPresentation
    <3> HIDE DEF s, cred, pres
    <3>4. QED
      BY <3>1, <3>3, ZenonT(60) DEF AuthPresentCall, AuthAsMember, Refuse, Emit, Result, cred, pres
  <2> HIDE DEF r
  <2>3. ASSUME r.rc \in {"OK", "EXPIRED"}
        PROVE  /\ cred.date \in Nat /\ DayAligned(cred.date)
               /\ \E uid \in Accounts : cred.tag = Mac(SecretA(ServerKey), AttrAuth(uid, cred.date))
    <3>1. cred = s[AuthCred(G)] /\ RecordOk(Vouched, c, AuthCred(G), cred)
      <4>1. AuthCred(G) \in DOMAIN s
        BY <2>2, <2>3, ZenonT(60)
      <4>2. cred = s[AuthCred(G)]
        BY <4>1, ZenonT(60) DEF LoadRec
      <4>3. QED
        BY <2>1, <4>1, <4>2, ZenonT(60) DEF StoreOk
    <3> HIDE DEF cred
    <3>2. PICK uid \in Accounts :
             cred = [tag |-> Mac(SecretA(ServerKey), AttrAuth(uid, cred.date)), date |-> cred.date]
      BY <3>1, ZenonT(60) DEF RecordOk
    <3>3. cred.tag = Mac(SecretA(ServerKey), AttrAuth(uid, cred.date))
      BY <3>2
    <3>4. cred.date \in Nat /\ DayAligned(cred.date)
      BY <3>1, ZenonT(60) DEF RecordOk
    <3>5. QED
      BY <3>3, <3>4, Zenon
  <2> HIDE DEF cred
  <2>4. ASSUME r.rc = "EXPIRED" PROVE now \notin cred.date .. cred.date + DaySecs - 1
    <3>1. ~AuthCredValid(cred, now)
      BY <2>2, <2>4, ZenonT(60)
    <3>2. QED
      BY <2>1, <2>3, <2>4, <3>1, DayOf, Zenon DEF AuthCredValid
  <2>5. ASSUME r.rc = "OK", cred.tag.attrs.uid = Uid[c]
        PROVE  /\ RpcVerifyAuth(server, pub, r.out) = "REPLY" \/ pub = None
               /\ now \in r.out.date .. r.out.date + DaySecs - 1
    <3>1. /\ r.out = pres /\ AuthCredValid(cred, now) /\ GroupSecret(s, G) = Key
      BY <2>1, <2>2, <2>5, LoadedKey, ZenonT(60)
    <3>2. cred.tag = Mac(SecretA(ServerKey), AttrAuth(Uid[c], cred.date))
      <4>1. PICK uid \in Accounts : cred.tag = Mac(SecretA(ServerKey), AttrAuth(uid, cred.date))
        BY <2>3, <2>5, ZenonT(60)
      <4>2. cred.tag.attrs.uid = uid
        BY <4>1, SMTT(60) DEF Mac, AttrAuth
      <4>3. QED
        BY <2>5, <4>1, <4>2, ZenonT(60)
    <3>3. now \in cred.date .. cred.date + DaySecs - 1
      BY <2>1, <2>3, <2>5, <3>1, DayOf, ZenonT(60) DEF AuthCredValid
    <3>4. /\ pres.date = cred.date
          /\ pres.com.uid = Uid[c] /\ pres.com.tag = cred.tag
          /\ pres.pi.holds = TRUE
          /\ pres.pi.stmt = PiA(TRUE, GroupPublicDerive(Key), pres.com, pres.ct)
      BY <3>1, ZenonT(60) DEF AuthPresent, ConjProve
    <3> HIDE DEF pres
    <3>5. AuthPresentVerify(ServerKey, GroupPublicDerive(Key), pres)
      <4>1. MacVerify(SecretA(ServerKey), AttrAuth(pres.com.uid, pres.date), pres.com.tag) = TRUE
        BY <3>2, <3>4, Zenon DEF MacVerify
      <4>2. QED
        BY <3>4, <4>1, ZenonT(60) DEF AuthPresentVerify, ConjVerify
    <3>6. RpcVerifyAuth(server, pub, pres) = "REPLY" \/ pub = None
      BY <2>1, <3>5, Zenon DEF RpcVerifyAuth, ServerVerifyAuth, Result
    <3>7. QED
      BY <3>1, <3>3, <3>4, <3>6, ZenonT(60)
  <2>6. QED
    BY <2>4, <2>5, ZenonT(60) DEF r, cred
<1>2. QED
  BY <1>1, GroupInvariant, PTL

\* Whatever reaches handle_rpc, and in whatever order, it lists a member once,
\* under ciphertexts every holder of the group key opens, with a profile key the
\* server vouched for.
THEOREM RosterGood == Spec => []RosterSound
<1>1. ASSUME IInv PROVE RosterSound
  <2> DEFINE list == RpcFetchMembers(roster)
  <2>1. Lists(list, roster, Len(roster)) /\ RosterOk(Vouched, roster)
    BY <1>1, FetchLists, Zenon DEF IInv
  <2>2. Len(roster) \in Nat /\ DOMAIN roster = 1 .. Len(roster)
    BY <2>1, Zenon DEF RosterOk
  <2> HIDE DEF list
  <2>3. \A i \in DOMAIN list : Shown(Vouched, list[i])
    BY <2>1, <2>2, ZenonT(60) DEF Lists, RosterOk
  <2>4. ASSUME NEW c \in Clients, GroupLoad(st[c], G) = "OK"
        PROVE  LET r == FetchMembers(st[c], G, list)
               IN  /\ r.rc = "OK"
                   /\ \A i \in DOMAIN list :
                         r.out[i].pk # None => AttrProfile(r.out[i].uid, r.out[i].pk) \in Vouched
    <3> DEFINE r == FetchMembers(st[c], G, list)
    <3>1. GroupSecret(st[c], G) = Key
      BY <1>1, <2>4, LoadedKey, Zenon DEF IInv
    <3>2. \A i \in DOMAIN list : MemberOpens(Key, list[i])
      BY <2>3, ShownOpens, Zenon
    <3>3. r = Result("OK", [i \in DOMAIN list |-> DecryptMember(Key, list[i])], st[c])
      BY <2>4, <3>1, <3>2, Zenon DEF FetchMembers
    <3>4. r.rc = "OK" /\ r.out = [i \in DOMAIN list |-> DecryptMember(Key, list[i])]
      BY <3>3, SMTT(60) DEF Result
    <3> HIDE DEF r
    <3>5. \A i \in DOMAIN list : r.out[i] = DecryptMember(Key, list[i])
      BY <3>4, Zenon
    <3>6. \A i \in DOMAIN list :
             r.out[i].pk # None => AttrProfile(r.out[i].uid, r.out[i].pk) \in Vouched
      BY <2>3, <3>5, ShownOpens, ZenonT(60)
    <3>7. QED
      BY <3>4, <3>6, ZenonT(60) DEF r
  <2>5. QED
    BY <2>1, <2>4, ZenonT(60) DEF RosterSound, Lists, list
<1>2. QED
  BY <1>1, GroupInvariant, PTL
=============================================================================
