------------------------------- MODULE Group -------------------------------
(***************************************************************************)
(* Custodians of a private group and their server.  Applications make the  *)
(* calls of GroupState in any order, on stores whose writes may fail and   *)
(* with buffers that may be absent or too small; the server answers the    *)
(* calls of GroupServer and may be restarted; what is sent stays in net,   *)
(* so that it is delivered late, out of order, more than once or never.    *)
(***************************************************************************)
EXTENDS GroupServer

CONSTANTS
    Clients,        \* custodians
    Uid,            \* the account of each custodian
    Others,         \* further accounts
    ProfileKeys,
    Key,            \* the group's master key
    NewerFormats,   \* formats only newer builds know
    MaxNow,         \* bound on the clock
    Scenarios,      \* who is named and how much is asked, see Scenario
    MaxNet,         \* bound on the messages in net
    Faults,         \* store writes may fail
    Sizes           \* the buffers callers pass, a subset of Caps

(* others: the further accounts named in invitations and removals; reqs: a *)
(* bound on blind requests.                                                *)
Scenario == [others : SUBSET Others, reqs : Nat]

ServerKey == "s"
G == GroupId(Key, NewestFormat)

ASSUME ScenarioAssumption == Scenarios \subseteq Scenario
ASSUME ClockAssumption == MaxNow \in Nat
ASSUME NoneAssumption ==
    /\ None \notin ProfileKeys \cup Others \cup {Uid[c] : c \in Clients}
    /\ None \notin {[key |-> Key, ver |-> NewestFormat], ServerSeal(ServerKey, "cred")}

VARIABLES
    sc,             \* the scenario
    st,             \* the sealed store of each custodian
    server,         \* the server's key in memory
    blob,           \* the sealed copy of that key
    pub,            \* the registered group public parameters
    roster,
    reqs,           \* blind requests on their way to the server
    net,            \* presentations and ciphertexts posted to the server
    now,
    nreq            \* number of blind requests made

vars == <<sc, st, server, blob, pub, roster, reqs, net, now, nreq>>

(* The writes of one call with n of them that fail: none, one, or all from *)
(* one on (the process stopped there).                                     *)
Bads(n) ==
    IF Faults THEN {{}} \cup {{i} : i \in 1 .. n} \cup {i .. n : i \in 1 .. n} ELSE {{}}

(* A call whose write fails returns before it looks at its buffer. *)
SizesFor(bad) == IF bad = {} THEN Sizes ELSE {"enough"}

(* The group has been made by one of the custodians and registered. *)
Installed == InstallServerParams(<< >>, ServerExportPublic(ServerKey), {}).st
Founded == GroupCreate(Installed, Key, {}).st

(* The envelope the founder exported, and those of newer builds. *)
Envelopes == {ExportKeyEnvelope(Founded, G, "enough").out} \cup
             {KeyEnvelope(Key, v) : v \in NewerFormats}

Init ==
    /\ sc \in Scenarios
    /\ \E f \in Clients : st = [c \in Clients |-> IF c = f THEN Founded ELSE Installed]
    /\ server = ServerKey /\ blob = ServerSeal(ServerKey, "cred")
    /\ pub = ExportGroupPublicParams(Founded, G, "enough").out
    /\ roster = << >> /\ now = DaySecs - 1 /\ nreq = 0
    /\ reqs = {} /\ net = {}

-----------------------------------------------------------------------------
(* One call of custodian c with result r, after which the messages m are   *)
(* on their way.                                                           *)

Send(m) == /\ Cardinality(net \cup m) <= MaxNet
           /\ net' = net \cup m

(* A call that changes nothing, such as one that is refused, is no step. *)
Called(c, r, m) ==
    /\ <<r.st, net \cup m>> # <<st[c], net>>
    /\ st' = [st EXCEPT ![c] = r.st]
    /\ Send(m)
    /\ UNCHANGED <<sc, server, blob, pub, roster, reqs, now, nreq>>

Posted(r, name) == IF r.out = None THEN {} ELSE {[rpc |-> name, body |-> r.out]}

-----------------------------------------------------------------------------
(* The custodian's calls.                                                  *)

InstallEnvelope(c, env, bad) == Called(c, InstallMasterKey(st[c], env, bad), {})

ForgetGroup(c, bad) == Called(c, Forget(st[c], G, bad), {})

(* The server answers whoever asks, for any account and day, and keeps     *)
(* nothing: any answer it could have given may arrive, at any time.        *)
ReceiveAuth(c, uid, date, of, on, bad) ==
    LET r == ServerIssueAuth(server, of, on)
    IN  /\ r.rc = "OK"
        /\ Called(c, ReceiveAuthCredential(st[c], G, uid, date, r.out, bad), {})

Commit(c, pk, cap, bad) ==
    Called(c, ProfileKeyCommit(st[c], G, Uid[c], pk, cap, bad), {})

(* The commitment and the request go to the server together. *)
Request(c, pk, cap, bad) ==
    LET r == PkCredentialRequest(st[c], G, Uid[c], pk, nreq + 1, cap, bad)
    IN  /\ nreq < sc.reqs
        /\ nreq' = nreq + 1
        /\ st' = [st EXCEPT ![c] = r.st]
        /\ reqs' = IF r.out = None THEN reqs
                   ELSE reqs \cup {[uid |-> Uid[c], commit |-> PkCommit(Uid[c], pk), req |-> r.out]}
        /\ UNCHANGED <<sc, server, blob, pub, roster, net, now>>

(* The server answers request m, which it may have got before, and the     *)
(* answer arrives at a custodian.                                          *)
Finish(c, m, bad) ==
    LET i == ServerBlindIssuePk(server, m.uid, m.commit, m.req)
    IN  /\ i.rc = "OK"
        /\ Called(c, PkCredentialFinish(st[c], G, Uid[c], i.out, bad), {})

(* The member adds itself, with the key it last committed to. *)
Add(c, cap) ==
    LET r == AddMember(st[c], G, Uid[c], LoadRec(st[c], OwnPk(G)), cap)
    IN  /\ OwnPk(G) \in DOMAIN st[c]
        /\ Called(c, r, Posted(r, "add"))

Invite(c, uid, cap) ==
    LET r == AddInvitedMember(st[c], G, uid, cap) IN Called(c, r, Posted(r, "invite"))

Update(c, pk, cap, bad) ==
    LET r == UpdateProfileKey(st[c], G, Uid[c], pk, cap, bad) IN Called(c, r, Posted(r, "add"))

Delete(c, uid, cap, bad) ==
    LET r == DeleteMember(st[c], G, uid, cap, bad) IN Called(c, r, Posted(r, "delete"))

-----------------------------------------------------------------------------
(* The server.                                                             *)

Served == UNCHANGED <<sc, st, server, blob, reqs, net, now, nreq>>

HandleAdd(pres) ==
    /\ Served
    /\ roster' = RpcAddMember(server, pub, roster, pres).out
    /\ UNCHANGED pub

HandleInvite(ct) ==
    /\ Served
    /\ roster' = RpcAddInvited(roster, ct).out
    /\ UNCHANGED pub

HandleDelete(ct) ==
    /\ Served
    /\ roster' = RpcDeleteMember(roster, ct).out
    /\ UNCHANGED pub

ServerRestart ==
    /\ server' = ServerOpen(blob, "cred").out
    /\ UNCHANGED <<sc, st, blob, pub, roster, reqs, net, now, nreq>>

Lose(m) ==
    /\ net' = net \ {m}
    /\ UNCHANGED <<sc, st, server, blob, pub, roster, reqs, now, nreq>>

Tick ==
    /\ now < MaxNow
    /\ now' = now + 1
    /\ UNCHANGED <<sc, st, server, blob, pub, roster, reqs, net, nreq>>

-----------------------------------------------------------------------------
Of(name) == {m.body : m \in {x \in net : x.rpc = name}}
Accounts == {Uid[c] : c \in Clients}

ClientCall(c) ==
    \/ \E uid, of \in Accounts, date, on \in 0 .. MaxNow : ReceiveAuth(c, uid, date, of, on, {})
    \/ \E bad \in Bads(1) :
          \/ \E env \in Envelopes : InstallEnvelope(c, env, bad)
          \/ \E pk \in ProfileKeys, cap \in SizesFor(bad) :
                Commit(c, pk, cap, bad) \/ Request(c, pk, cap, bad)
          \/ \E uid \in Accounts \cup sc.others, cap \in SizesFor(bad) : Delete(c, uid, cap, bad)
    \/ \E bad \in Bads(2) :
          \/ \E m \in reqs : Finish(c, m, bad)
          \/ \E pk \in ProfileKeys, cap \in SizesFor(bad) : Update(c, pk, cap, bad)
    \/ \E bad \in Bads(4) : ForgetGroup(c, bad)
    \/ \E cap \in Sizes :
          \/ Add(c, cap)
          \/ \E uid \in Accounts \cup sc.others : Invite(c, uid, cap)

ServerStep ==
    \/ \E pres \in Of("add") : HandleAdd(pres)
    \/ \E ct \in Of("invite") : HandleInvite(ct)
    \/ \E ct \in Of("delete") : HandleDelete(ct)
    \/ ServerRestart

Next == (\E c \in Clients : ClientCall(c)) \/ ServerStep \/ Tick \/ (\E m \in net : Lose(m))

Spec == Init /\ [][Next]_vars

-----------------------------------------------------------------------------
(* Properties.                                                             *)

(* The profile attributes the server was asked to issue credentials over. *)
Vouched == {[uid |-> m.uid, blind |-> m.req.blind] : m \in reqs}

HeldVerify(c) ==
    /\ AuthCred(G) \in DOMAIN st[c] =>
          \E uid \in Accounts : MacVerify(SecretA(ServerKey), AttrAuth(uid, st[c][AuthCred(G)].date),
                                          st[c][AuthCred(G)].tag)
    /\ PkCred(G, Uid[c]) \in DOMAIN st[c] =>
          \E a \in Vouched : /\ a.uid = Uid[c]
                             /\ MacVerify(SecretP(ServerKey), a, st[c][PkCred(G, Uid[c])])

(* Whatever the order, delay or repetition of the server's answers, every  *)
(* credential in a store is one the server's key verifies: an answer to a  *)
(* request that a later request has overwritten is never stored            *)
(* (gy_custodian_group_pk_credential_finish,                               *)
(* gy_custodian_group_receive_auth_credential).                            *)
CredentialsVerify == \A c \in Clients : HeldVerify(c)

(* The roster lists an account at most once, every custodian that holds    *)
(* the group key can read all of it, and the profile key it shows for a    *)
(* full member is one the server issued that member a credential over:     *)
(* late, repeated and superseded presentations included (handle_rpc,        *)
(* gy_group_server_verify_pk, gy_custodian_group_fetch_members).           *)
RosterSound ==
    LET list == RpcFetchMembers(roster)
    IN  /\ \A i, j \in DOMAIN list : list[i].ct = list[j].ct => i = j
        /\ \A c \in Clients : GroupLoad(st[c], G) = "OK" =>
              LET r == FetchMembers(st[c], G, list)
              IN  /\ r.rc = "OK"
                  /\ \A i \in DOMAIN list :
                        r.out[i].pk # None => AttrProfile(r.out[i].uid, r.out[i].pk) \in Vouched

(* A member that holds the group's key presents its credential on the day  *)
(* it was issued for and on no other, and the server accepts what it shows *)
(* for the group registered, also after a restart                          *)
(* (gy_custodian_group_auth_present, gy_group_server_verify_auth).         *)
PresentationsAccepted ==
    \A c \in Clients :
        LET r == AuthPresentCall(st[c], G, Uid[c], TRUE, now, "enough")
            cred == LoadRec(st[c], AuthCred(G))
        IN  /\ r.rc = "OK" /\ pub # None /\ cred.tag.attrs.uid = Uid[c] =>
                  /\ RpcVerifyAuth(server, pub, r.out) = "REPLY"
                  /\ now \in r.out.date .. r.out.date + DaySecs - 1
            /\ r.rc = "EXPIRED" => now \notin cred.date .. cred.date + DaySecs - 1

(* The master key of a group leaves a store only after the credential and  *)
(* the profile key that depend on it, whichever removal fails and wherever *)
(* the process stops (gy_group_delete_stored, group_state.c:304-312).      *)
MasterKeyLast ==
    [][\A c \in Clients :
          MasterKey(G) \in DOMAIN st[c] \ DOMAIN st'[c] =>
              {AuthCred(G), OwnPk(G)} \cap DOMAIN st'[c] = {}]_st
=============================================================================
