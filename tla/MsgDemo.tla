------------------------------- MODULE MsgDemo -------------------------------
(***************************************************************************)
(* The messaging demo (examples/client.c, demo_driver.c): alice and bob    *)
(* run their scripts against the relay of MsgRelay, each in a process of   *)
(* its own.  A client sends a request and waits for the answer; a client   *)
(* whose step fails, or who waits too long, says goodbye and exits.  bob   *)
(* reinstalls once and is restarted once from its sealed store.            *)
(*                                                                         *)
(* A custodian is what its library keeps: identity, prekeys, the peer's    *)
(* pinned identity and the sessions, of which one is active.  A bundle is  *)
(* usable while the identity, the signed prekey and the one-time prekey it *)
(* names are held (Endpoint and Custodian model the library itself).       *)
(***************************************************************************)
EXTENDS MsgRelay

CONSTANTS NOpks, Replenishment,   \* CLIENT_N_OPKS, CLIENT_REPLENISH
          Rounds,                 \* CLIENT_LIFECYCLE_ROUNDS
          ExpMaxSend              \* EXP_MAX_SEND

VARIABLES hybrid,   \* whether the suite is a hybrid one
          cust,     \* the custodian of each client
          todo,     \* the steps each client still has to take
          wait,     \* whether it waits for an answer
          exit,     \* "running", or how it ended
          faults    \* whether a process may be killed or slow, or has been

client == <<hybrid, cust, todo, wait, exit, faults>>
vars == <<relay, client>>

-----------------------------------------------------------------------------
(* Steps of a script.                                                      *)

Publish(kind) == [op |-> "publish", kind |-> kind]
FetchIt(what) == [op |-> "fetch", what |-> what]
Say(text) == [op |-> "say", text |-> text]
Initiate(from, text) == [op |-> "initiate", from |-> from, text |-> text, new |-> FALSE]
Reinitiate(from) == [op |-> "initiate", from |-> from, text |-> "lc", new |-> TRUE]
(* Hear one message for the identity as, its text among texts; more of     *)
(* them follow.                                                            *)
Hear(as, texts, more) == [op |-> "hear", as |-> as, texts |-> texts, more |-> more]
Auth(key) == [op |-> "auth", key |-> key]
Do(what) == [op |-> "do", what |-> what]

PublishDirectory == << Publish("reg"), Publish("batch") >>

VerifyIdentity == << Publish("fp"), FetchIt("identity"), Do("compare") >>

RunOneshot(u) ==
    IF u = "alice" THEN << Publish("oneshot"), Hear("os", {"os-hello"}, 0) >>
    ELSE << FetchIt("oneshot"), Initiate("oneshot", "os-hello") >>

RunInitiator ==
    << Say("a-one"), Hear("main", {"b-one"}, 0), Say("a-two"),
       Say("d1"), Say("d2"), Say("d3"), Say("d4") >>

RunResponder ==
    << Hear("main", {"a-one"}, 0), Say("b-one"), Do("pending"),
       Hear("main", {"a-two"}, 0), Do("confirmed"),
       Hear("main", {"d1", "d2", "d3", "d4"}, 3) >>

(* The last round uses a bundle fetched before the first. *)
RunInitiatorLifecycle ==
    << FetchIt("bundle"), Do("reserve") >>
      \o FlattenSeq([r \in 1 .. Rounds |->
            IF r = Rounds THEN << Reinitiate("reserved"), Hear("main", {"ok"}, 0) >>
            ELSE << FetchIt("bundle"), Reinitiate("bundle"), Hear("main", {"ok"}, 0) >>])

(* Rounds are counted from 0 in the code. *)
RunResponderLifecycle ==
    FlattenSeq([r \in 1 .. Rounds |->
        << Hear("main", {"lc"}, 0) >>
          \o (CASE r = 2 -> << Do("replenish"), Publish("batch") >>
                [] r = 4 -> << Do("rotatespk"), Publish("reg") >>
                [] OTHER -> << >>)
          \o << Say("ok") >>])

RunNoopk(u) ==
    IF u = "alice" THEN << Publish("noopk"), Hear("no", {"noopk-hi"}, 0) >>
    ELSE << FetchIt("noopk"), Initiate("noopk", "noopk-hi") >>

RunSakAuth ==
    << Do("newsak"), Publish("cert"), Auth("active"), Auth("forged"),
       Do("newsak"), Publish("cert"), Publish("prior"),
       Auth("active"), Auth("prior"), Auth("forged") >>

RunPeerRemoval(u) ==
    IF u = "alice"
    THEN << Do("purge"), Do("nosession"), Say("readd-dev"), Hear("main", {"ack-dev"}, 0),
            Do("purge"), Do("nosession"), Say("readd-usr"), Hear("main", {"ack-usr"}, 0) >>
    ELSE LET re == {"readd-dev", "readd-usr"}
         IN  << Hear("main", re, 0), Say("ack-dev"), Hear("main", re, 0), Say("ack-usr") >>

(* Two custodians inside alice's process; n counts the messages sent. *)
RunExpiration(u) == IF u = "alice" THEN << [op |-> "expire", n |-> 1, round |-> 0] >> ELSE << >>

(* bob's notice is a raw frame, alice takes it as it is. *)
RekeyResponder ==
    << Do("reinstall") >> \o PublishDirectory
      \o << Publish("fp"), [op |-> "notice"], Hear("main", {"resumed"}, 0) >>

RekeyInitiator ==
    << Hear("raw", {"notice"}, 0), FetchIt("bundle"), Do("keychanged"),
       FetchIt("identity"), Do("acceptidentity"), Initiate("bundle", "resumed") >>

RunRestartInitiator == << Say("post-restart"), Hear("main", {"resumed"}, 0) >>

ClientRun(u) ==
    PublishDirectory \o VerifyIdentity \o RunOneshot(u)
      \o (IF u = "alice" THEN RunInitiator \o RunInitiatorLifecycle
                         ELSE RunResponder \o RunResponderLifecycle)
      \o RunNoopk(u) \o RunSakAuth \o RunPeerRemoval(u) \o RunExpiration(u)
      \o (IF u = "alice" THEN RekeyInitiator \o RunRestartInitiator
                         ELSE RekeyResponder \o << [op |-> "restart"], [op |-> "newcred"] >>)

ClientResume ==
    << Do("reopen"), Hear("main", {"post-restart"}, 0), Say("resumed") >>

-----------------------------------------------------------------------------
(* Custodians.  An identity is <<user, number>>; os and no are the         *)
(* throwaway identities of the one-shot and the no-OPK scenarios.          *)

FreshOpks(from, n) == [i \in 1 .. n |-> from + i]

NewCustodian(u, gen, nopk) ==
    [id |-> <<u, gen>>, spks |-> {1}, opks |-> FreshOpks(nopk, NOpks),
     nopk |-> nopk + NOpks, pin |-> None, act |-> None, ids |-> {}, heard |-> {},
     said |-> {}, pq |-> {}, seq |-> 0, sak |-> 0, hold |-> [k \in {} |-> None],
     cred |-> "old", resumed |-> FALSE]

IdOf(c, as) == IF as = "main" THEN c.id ELSE <<c.id[1], as>>

Init ==
    /\ RelayInit
    /\ hybrid \in BOOLEAN
    /\ cust = [u \in Clients |-> NewCustodian(u, 1, 0)]
    /\ todo = [u \in Clients |-> ClientRun(u)]
    /\ wait = [u \in Clients |-> FALSE]
    /\ exit = [u \in Clients |-> "running"]
    /\ faults \in {"never", "may"}

-----------------------------------------------------------------------------
(* How a step ends.                                                        *)

Step(u) == Head(todo[u])

Ready(u, op) ==
    exit[u] = "running" /\ ~wait[u] /\ todo[u] # << >> /\ Step(u).op = op

Wired == coord \in {"serving", "restarting"}

(* The process ends after its last words, and its pipe is closed. *)
Ends(u, how, words) ==
    /\ exit' = [exit EXCEPT ![u] = how]
    /\ todo' = [todo EXCEPT ![u] = << >>]
    /\ wait' = [wait EXCEPT ![u] = FALSE]
    /\ up' = [up EXCEPT ![u] = @ \o words \o << [type |-> "eof"] >>]
    /\ live' = live \ {u}

(* client_run says goodbye whatever happened, client_resume if all went    *)
(* well.                                                                   *)
Leave(u, how) ==
    Ends(u, how, IF how = "ok" \/ ~cust[u].resumed THEN << [type |-> "goodbye"] >> ELSE << >>)

(* On with custodian c and the steps next. *)
Go(u, c, next) ==
    /\ cust' = [cust EXCEPT ![u] = c]
    /\ todo' = [todo EXCEPT ![u] = next]
    /\ UNCHANGED <<exit, live>>

Local(u, ok, c) ==
    IF ok THEN Go(u, c, Tail(todo[u])) /\ UNCHANGED <<up, wait>>
    ELSE Leave(u, "failed") /\ UNCHANGED cust

(* A frame that asks for no answer, and one that does. *)
Post(u, frame, c) ==
    /\ Wired
    /\ up' = [up EXCEPT ![u] = Append(@, frame)]
    /\ Go(u, c, Tail(todo[u])) /\ UNCHANGED wait

Request(u, frame) ==
    /\ Wired
    /\ up' = [up EXCEPT ![u] = Append(@, frame)]
    /\ wait' = [wait EXCEPT ![u] = TRUE]
    /\ UNCHANGED <<cust, todo, exit, live>>

Elsewhere == UNCHANGED <<dir, used, issued, pend, box, gone, coord, hybrid, faults>>
Relayed == UNCHANGED down /\ Elsewhere

-----------------------------------------------------------------------------
(* Publishing and asking.                                                  *)

(* The one-shot bundle carries a one-time prekey of its own pool. *)
Published(u, kind) ==
    LET c == cust[u]
    IN  CASE kind = "reg" -> [ik |-> c.id, spk |-> Max(c.spks)]
          [] kind = "batch" -> c.opks
          [] kind = "fp" -> c.id
          [] kind = "oneshot" -> [ik |-> IdOf(c, "os"), spk |-> 1, opk |-> "os"]
          [] kind = "noopk" -> [ik |-> IdOf(c, "no"), spk |-> 1]
          [] kind = "cert" -> c.sak
          [] kind = "prior" -> c.sak - 1

DoPublish(u) ==
    /\ Ready(u, "publish")
    /\ Post(u, [type |-> "publish", kind |-> Step(u).kind,
                val |-> Published(u, Step(u).kind)], cust[u])
    /\ Relayed

DoFetch(u) ==
    /\ Ready(u, "fetch")
    /\ Request(u, [type |-> "fetch", what |-> Step(u).what])
    /\ Relayed

DoAuth(u) ==
    /\ Ready(u, "auth")
    /\ Request(u, [type |-> "auth",
                   key |-> CASE Step(u).key = "active" -> cust[u].sak
                             [] Step(u).key = "prior" -> cust[u].sak - 1
                             [] Step(u).key = "forged" -> 0])
    /\ Relayed

DoHear(u) == Ready(u, "hear") /\ Request(u, [type |-> "recv"]) /\ Relayed

GotFetched(u) ==
    /\ wait[u] /\ Step(u).op = "fetch" /\ down[u] # << >>
    /\ LET what == Step(u).what
           val == Head(down[u]).val
       IN  Go(u, [cust[u] EXCEPT !.hold = [k \in DOMAIN @ \cup {what} |->
                                             IF k = what THEN val ELSE @[k]]],
              Tail(todo[u]))
    /\ wait' = [wait EXCEPT ![u] = FALSE]
    /\ down' = [down EXCEPT ![u] = Tail(@)]
    /\ UNCHANGED up /\ Elsewhere

GotVerdict(u) ==
    /\ wait[u] /\ Step(u).op = "auth" /\ down[u] # << >>
    /\ IF Head(down[u]).val = (Step(u).key # "forged")
       THEN /\ Go(u, cust[u], Tail(todo[u])) /\ UNCHANGED up
            /\ wait' = [wait EXCEPT ![u] = FALSE]
       ELSE Leave(u, "failed") /\ UNCHANGED cust
    /\ down' = [down EXCEPT ![u] = Tail(@)]
    /\ Elsewhere

-----------------------------------------------------------------------------
(* Sending.                                                                *)

Message(c, sid, bundle, text) ==
    [type |-> "send",
     val |-> [seq |-> c.seq, sid |-> sid, bundle |-> bundle, ik |-> c.id,
              post |-> sid \in c.heard, text |-> text]]

(* Without a session a bundle is fetched first. *)
MsgSend(u) ==
    LET c == cust[u]
    IN  /\ Ready(u, "say")
        /\ IF c.act = None
           THEN /\ todo' = [todo EXCEPT ![u] = << FetchIt("bundle"),
                              Initiate("bundle", Step(u).text) >> \o Tail(@)]
                /\ UNCHANGED <<up, cust, wait, exit, live>>
           ELSE Post(u, Message(c, c.act, None, Step(u).text),
                     [c EXCEPT !.seq = @ + 1, !.said = @ \cup {c.act}])
        /\ Relayed

(* From a bundle of the peer's own identity; a changed one is accepted and *)
(* the bundle fetched again, once, except where a session is forced anew.  *)
MsgInitiate(u) ==
    LET c == cust[u]
        s == Step(u)
        b == c.hold[s.from]
        own == s.from \in {"bundle", "reserved"}
        sid == <<u, c.seq>>
    IN  /\ Ready(u, "initiate")
        /\ CASE own /\ c.pin \notin {None, b.ik} /\ ~s.new ->
                  Go(u, [c EXCEPT !.pin = b.ik, !.act = None, !.ids = {}],
                     << FetchIt("bundle"), [s EXCEPT !.new = TRUE] >> \o Tail(todo[u]))
                  /\ UNCHANGED <<up, wait>>
             [] own /\ c.pin \notin {None, b.ik} /\ s.new ->
                  Leave(u, "failed") /\ UNCHANGED cust
             [] own /\ c.pin \in {None, b.ik} ->
                  Post(u, Message(c, sid, b, s.text),
                       [c EXCEPT !.seq = @ + 1, !.pin = b.ik, !.act = sid,
                                 !.ids = @ \cup {sid}, !.said = @ \cup {sid}])
             [] ~own -> Post(u, Message(c, sid, b, s.text), [c EXCEPT !.seq = @ + 1])
        /\ Relayed

SendNotice(u) ==
    LET c == cust[u]
    IN  /\ Ready(u, "notice")
        /\ Post(u, Message(c, None, None, "notice"), [c EXCEPT !.seq = @ + 1])
        /\ Relayed

-----------------------------------------------------------------------------
(* Receiving.                                                              *)

(* An initial message opens while the keys its bundle names are held. *)
Opens(c, as, m) ==
    CASE as = "raw" -> TRUE
      [] as # "raw" /\ m.bundle # None ->
            /\ m.bundle.ik = IdOf(c, as)
            /\ as = "main" => /\ m.bundle.spk \in c.spks
                              /\ m.bundle.opk \in Range(c.opks) \cup {None}
                              /\ c.pin \in {None, m.ik}
      [] as # "raw" /\ m.bundle = None -> m.sid \in c.ids

Received(c, as, m) ==
    IF as # "main" THEN c
    ELSE [c EXCEPT !.act = m.sid, !.ids = @ \cup {m.sid}, !.pin = m.ik,
                   !.heard = @ \cup {m.sid},
                   !.pq = IF m.post /\ m.sid \in c.said THEN @ \cup {m.sid} ELSE @,
                   !.opks = IF m.bundle = None THEN @
                            ELSE SelectSeq(@, LAMBDA k : k # m.bundle.opk)]

MsgReceive(u) ==
    /\ wait[u] /\ Step(u).op = "hear" /\ down[u] # << >>
    /\ LET m == Head(down[u]).val
           s == Step(u)
           more == [s EXCEPT !.texts = @ \ {m.text}, !.more = @ - 1]
       IN  IF Opens(cust[u], s.as, m) /\ m.text \in s.texts
           THEN /\ Go(u, Received(cust[u], s.as, m),
                      (IF s.more = 0 THEN << >> ELSE << more >>) \o Tail(todo[u]))
                /\ wait' = [wait EXCEPT ![u] = FALSE] /\ UNCHANGED up
           ELSE Leave(u, "failed") /\ UNCHANGED cust
    /\ down' = [down EXCEPT ![u] = Tail(@)]
    /\ Elsewhere

-----------------------------------------------------------------------------
(* Steps inside one process.                                               *)

(* The fingerprint derived from the registration against the one shown. *)
SameFingerprint(i) == i.fp = i.reg.ik

ObservePqState(c, want) ==
    hybrid => (c.act # None /\ (c.act \in c.pq) = (want = "confirmed"))

(* Mutant: only the newest signed prekey is kept. *)
RotateSignedPrekeyDrops(c) == [c EXCEPT !.spks = {Max(@) + 1}]

RotateSignedPrekey(c) == [c EXCEPT !.spks = @ \cup {Max(@) + 1}]

Replenish(c) ==
    [c EXCEPT !.opks = @ \o FreshOpks(c.nopk, Replenishment), !.nopk = @ + Replenishment]

(* Everything is wiped; the process goes on counting its messages. *)
Reinstall(u) ==
    [NewCustodian(u, cust[u].id[2] + 1, cust[u].nopk) EXCEPT !.seq = cust[u].seq]

(* The new key must be the one whose fingerprint bob published. *)
AcceptIdentity(c) == [c EXCEPT !.pin = c.hold["bundle"].ik, !.act = None, !.ids = {}]

DoLocally(u) ==
    LET c == cust[u]
        what == Step(u).what
    IN  /\ Ready(u, "do")
        /\ CASE what = "compare" -> Local(u, SameFingerprint(c.hold["identity"]), c)
             [] what \in {"pending", "confirmed"} -> Local(u, ObservePqState(c, what), c)
             [] what = "reserve" ->
                  Local(u, TRUE, [c EXCEPT !.hold = [k \in DOMAIN @ \cup {"reserved"} |->
                                       IF k = "reserved" THEN @["bundle"] ELSE @[k]]])
             [] what = "replenish" ->
                  Local(u, Len(Replenish(c).opks) > Len(c.opks), Replenish(c))
             [] what = "rotatespk" -> Local(u, TRUE, RotateSignedPrekey(c))
             [] what = "newsak" -> Local(u, TRUE, [c EXCEPT !.sak = @ + 1])
             [] what = "purge" -> Local(u, TRUE, [c EXCEPT !.pin = None, !.act = None,
                                                           !.ids = {}])
             [] what = "nosession" -> Local(u, c.act = None, c)
             [] what = "reinstall" -> Local(u, TRUE, Reinstall(u))
             [] what = "keychanged" ->
                  Local(u, c.pin \notin {None, c.hold["bundle"].ik}, c)
             [] what = "acceptidentity" ->
                  Local(u, c.hold["identity"].fp = c.hold["bundle"].ik, AcceptIdentity(c))
             [] what = "reopen" -> Local(u, c.cred = "new", c)
        /\ Relayed

(* Messages until the session has expired, at most three rounds later. *)
ExpireOne(u) ==
    LET s == Step(u)
    IN  /\ Ready(u, "expire")
        /\ IF s.n < ExpMaxSend /\ s.round < ExpMaxSend + 3
           THEN /\ Go(u, cust[u], << [s EXCEPT !.n = @ + 1, !.round = @ + 1] >> \o Tail(todo[u]))
                /\ UNCHANGED <<up, wait>>
           ELSE Local(u, s.n >= ExpMaxSend, cust[u])
        /\ Relayed

-----------------------------------------------------------------------------
(* The end of a process.                                                   *)

(* bob hands over before it changes the credential of its store; then it   *)
(* exits without a goodbye.                                                *)
HandOver(u) ==
    /\ Ready(u, "restart")
    /\ Post(u, [type |-> "restart"], cust[u])
    /\ Relayed

ChangeCredential(u) ==
    /\ Ready(u, "newcred")
    /\ Ends(u, "restart", << >>)
    /\ cust' = [cust EXCEPT ![u].cred = "new"]
    /\ Relayed

(* The driver waits for the old process and starts the new one. *)
Refork ==
    /\ coord = "restarting" /\ exit["bob"] # "running"
    /\ RewireBob
    /\ exit' = [exit EXCEPT !["bob"] = "running"]
    /\ todo' = [todo EXCEPT !["bob"] = ClientResume]
    /\ cust' = [cust EXCEPT !["bob"].seq = 0, !["bob"].resumed = TRUE]
    /\ UNCHANGED <<wait, hybrid, faults>>

Finish(u) ==
    /\ exit[u] = "running" /\ todo[u] = << >> /\ Wired
    /\ Leave(u, "ok")
    /\ UNCHANGED cust /\ Relayed

(* The relay has ended: what is written is lost, what is read is its end. *)
FindBroken(u) ==
    /\ ~Wired /\ exit[u] = "running" /\ (wait[u] => down[u] = << >>)
    /\ todo[u] # << >> => Step(u).op \notin {"do", "expire", "newcred"}
    /\ Leave(u, "failed")
    /\ UNCHANGED cust /\ Relayed

(* The answer does not come in time: the peer or the relay is slow, or the *)
(* peer has failed.                                                        *)
GiveUp(u) ==
    /\ wait[u] /\ exit[u] = "running" /\ down[u] = << >>
    /\ \E w \in Clients : faults # "never" \/ exit[w] = "failed"
    /\ Leave(u, "failed")
    /\ faults' = "happened"
    /\ UNCHANGED <<cust, down, dir, used, issued, pend, box, gone, coord, hybrid>>

(* The process is killed. *)
Killed(u) ==
    /\ faults = "may" /\ exit[u] = "running"
    /\ faults' = "happened"
    /\ Ends(u, "failed", << >>)
    /\ UNCHANGED <<cust, down, dir, used, issued, pend, box, gone, coord, hybrid>>

Relaying == (\E u \in Clients : HandleFrame(u)) /\ UNCHANGED client

Running(u) ==
    \/ DoPublish(u) \/ DoFetch(u) \/ DoAuth(u) \/ DoHear(u) \/ GotFetched(u)
    \/ GotVerdict(u) \/ MsgSend(u) \/ MsgInitiate(u) \/ SendNotice(u)
    \/ MsgReceive(u) \/ DoLocally(u) \/ ExpireOne(u) \/ HandOver(u)
    \/ ChangeCredential(u) \/ Finish(u) \/ FindBroken(u) \/ GiveUp(u)

Next ==
    \/ Relaying \/ (AllGone /\ UNCHANGED client) \/ Refork
    \/ \E u \in Clients : Running(u) \/ Killed(u)

(* Processes that can run do run, and a wait without an answer ends after  *)
(* ten seconds.                                                            *)
Spec ==
    /\ Init /\ [][Next]_vars
    /\ WF_vars(Relaying) /\ WF_vars(AllGone /\ UNCHANGED client) /\ WF_vars(Refork)
    /\ \A u \in Clients : WF_vars(Running(u))

-----------------------------------------------------------------------------
(* Properties.                                                             *)

(* No one-time prekey is ever handed out in two bundles, however often its *)
(* owner publishes its batch anew (pick_opk, PUBLISH_OPK_BATCH).           *)
OpkIssuedOnce == \A u \in Clients : IsInjective(issued[u])

(* Without a fault no step of either script fails and the relay never runs *)
(* out of room, in whatever order the two processes run: every fetch is    *)
(* answered with material still usable when it is used, every message is   *)
(* the expected one, and the bundle reserved before the rotation works     *)
(* after it.                                                               *)
ScriptSucceeds ==
    faults # "happened" => coord # "error" /\ \A u \in Clients : exit[u] # "failed"

(* With or without a fault all processes end, the relay among them: nobody *)
(* waits for ever on a parked fetch or an empty mailbox.                   *)
EveryoneEnds ==
    <>(coord \in {"done", "error"} /\ \A u \in Clients : exit[u] \in {"ok", "failed"})
==============================================================================
