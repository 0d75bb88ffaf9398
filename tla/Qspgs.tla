------------------------------- MODULE Qspgs -------------------------------
(***************************************************************************)
(* A post-quantum private group: clients that edit it, a server that       *)
(* checks and stores it, answers that get lost, processes that stop.       *)
(* The client operations are those of qspgs_facade_client.c over the local *)
(* store of qspgs_store.c; the server is the one examples/                 *)
(* qsgroup_coordinator.c builds on the checks of the library.              *)
(*                                                                         *)
(* A client edits the version it fetched last.  An edit that rotates the   *)
(* group key stages the new key first; the answer of the server decides    *)
(* whether the staged key is committed or rolled back.  A client that      *)
(* never hears the answer asks for the version with the staged key's token *)
(* and commits if the server knows it.                                     *)
(***************************************************************************)
EXTENDS QspgsFetch, QspgsServer

CONSTANTS Users,       \* the people
          Standing,    \* the members of a group that already exists, in order
          Scenarios    \* the uses of the library that are explored

(* A scenario is a record: ops, the operations and faults that occur;      *)
(* movers, the users who act (the others only receive keys); authors, the  *)
(* movers who write appendix lines; standing, whether the group already    *)
(* exists; acquainted, who knows whom; start and flags, the settings       *)
(* at first and those chosen later; solo, whether a single admin rotates   *)
(* and nothing is lost; and the bounds maxv, maxk, maxl, maxep of          *)
(* versions, secrets, lines of one appendix and epochs.                    *)
Flags == {"attr", "add", "adm"}

ScenarioRecord ==
    [ops : SUBSET STRING, movers : SUBSET Users, authors : SUBSET Users,
     standing : BOOLEAN, acquainted : SUBSET (Users \X Users), start : SUBSET Flags,
     flags : SUBSET SUBSET Flags, solo : BOOLEAN,
     maxv : Nat, maxk : Nat, maxl : Nat, maxep : Nat]

ASSUME ScenarioAssumption == Scenarios \subseteq ScenarioRecord

ASSUME StandingAssumption == Standing \in Seq(Users) /\ Standing # << >>

VARIABLES sc,       \* the scenario, see above
          hist,     \* server: every core it accepted; the last is served
          logs,     \* server: the lines appended to each of them
          queue,    \* server: answered invitations
          ep,       \* server: the epoch each user's account record attests
          store,    \* clients: what each keeps on disk
          view,     \* clients: version and number of lines fetched last
          sub,      \* clients: the request that is under way
          mail,     \* group keys on their way to each user, in order
          inv,      \* invitations sent: <<inviter, invitee, key>>
          links,    \* link secrets handed out
          nk        \* the next fresh secret

server == <<hist, logs, queue>>
vars == <<sc, hist, logs, queue, ep, store, view, sub, mail, inv, links, nk>>

Idle == [st |-> "idle"]
NoView == [v |-> 0, n |-> 0]
Head0 == hist[Len(hist)]
Uids(core) == {core.mem[i].uid : i \in DOMAIN core.mem}
Admins(core) == {core.mem[i].uid : i \in {k \in DOMAIN core.mem : core.mem[k].admn}}
Present(core) == {core.mem[i].uid : i \in {k \in DOMAIN core.mem : ~core.mem[k].pend}}

-----------------------------------------------------------------------------
(* Initial states: no group yet, or one whose founder added the others and *)
(* made the last of them an admin.                                         *)

StoreOf(acq, gk) == [gk |-> gk, pend |-> NoKey, jls |-> NoKey, acq |-> acq]

Acquainted(u, who) == [w \in Users |-> IF w # u /\ <<u, w>> \in who THEN 1 ELSE 0]

(* Version v, when the first n stand in the list: a genesis with the       *)
(* others appended.                                                        *)
StandingCore(v, n, admins) ==
    LET mem == [i \in 1 .. n |-> MemberBuild(Standing[i], 1, i \in admins)]
    IN  [Genesis(Standing[1], 1, 1, sc.start) EXCEPT
            !.vmaj = v, !.mem = mem, !.vk = VkLst(mem, 1)]

StandingCores ==
    LET n == Len(Standing)
    IN  [v \in 1 .. n + 1 |-> IF v <= n THEN StandingCore(v, v, {1})
                                        ELSE StandingCore(v, n, {1, n})]

Init ==
    /\ sc \in Scenarios
    /\ hist = IF sc.standing THEN StandingCores ELSE << >>
    /\ logs = [i \in DOMAIN hist |-> << >>]
    /\ queue = {} /\ links = {} /\ inv = {}
    /\ ep = [u \in Users |-> 1]
    /\ LET in == IF sc.standing THEN Range(Standing) ELSE {}
       IN  /\ store = [u \in Users |-> StoreOf(Acquainted(u, sc.acquainted),
                                               IF u \in in THEN 1 ELSE NoKey)]
           /\ view = [u \in Users |-> IF u \in in THEN [v |-> Len(hist), n |-> 0]
                                                  ELSE NoView]
    /\ sub = [u \in Users |-> Idle]
    /\ mail = [u \in Users |-> << >>]
    /\ nk = 2

-----------------------------------------------------------------------------
(* What a client has: its copy of the group and the account records.       *)

Cur(u) == hist[view[u].v]
SeenLines(u) == SubSeq(logs[view[u].v], 1, view[u].n)
Accts == ep

Prior(u) ==
    IF view[u] = NoView THEN [v |-> 0, n |-> 0, lvmin |-> 0, admins |-> {}]
    ELSE LET r == EffectiveRoster(u, store[u], Cur(u), SeenLines(u), queue, Accts)
         IN  [v |-> view[u].v, n |-> view[u].n, lvmin |-> Cur(u).lvmin,
              admins |-> {r[i].uid : i \in {k \in DOMAIN r : r[k].admn}}]

Does(u, op) ==
    /\ op \in sc.ops /\ u \in sc.movers /\ sub[u] = Idle /\ view[u] # NoView

MayEdit(u, op) ==
    Does(u, op) /\ view[u].v < sc.maxv /\ EditBegin(u, store[u], Cur(u))

MayRotate(u, op) ==
    MayEdit(u, op) /\ CanStage(store[u]) /\ nk <= sc.maxk

(* The request: the core, the version it extends, the kind of change and   *)
(* the pseudonym key of the sender.  rot says a key is staged for it, tell *)
(* whom to send the key once it is accepted, drop which queue entries the  *)
(* edit used up, inv and link the invitation and the link it hands out.    *)
Ask(u, op, core) ==
    [st |-> "sent", op |-> op, core |-> core, ext |-> Cur(u).vmaj,
     vkr |-> SelfVkr(u, store[u]), rot |-> FALSE, tell |-> {},
     drop |-> {}, inv |-> {}, link |-> {}]

(* Mutant: the new key goes to the members of the old version. *)
AskRotatedTellsOld(u, core) ==
    [Ask(u, "replace", core) EXCEPT
        !.vkr = SelfVkr(u, GroupKeyStage(store[u], core.gk)),
        !.rot = TRUE, !.tell = Present(Cur(u)) \ {u}]

(* Mutant: nobody is told the new key. *)
AskRotatedUntold(u, core) ==
    [Ask(u, "replace", core) EXCEPT
        !.vkr = SelfVkr(u, GroupKeyStage(store[u], core.gk)), !.rot = TRUE]

AskRotated(u, core) ==
    [Ask(u, "replace", core) EXCEPT
        !.vkr = SelfVkr(u, GroupKeyStage(store[u], core.gk)),
        !.rot = TRUE, !.tell = Present(core) \ {u}]

Send(u, r) == sub' = [sub EXCEPT ![u] = r]

EditKeeps == UNCHANGED <<sc, hist, logs, queue, ep, view, mail, inv, links>>

-----------------------------------------------------------------------------
(* Registration and acquaintance.                                          *)

(* A new account record, for the next epoch of the user key. *)
Register(u) ==
    /\ "refresh" \in sc.ops /\ u \in sc.movers /\ ep[u] < sc.maxep
    /\ ep' = [ep EXCEPT ![u] = @ + 1]
    /\ UNCHANGED <<sc, hist, logs, queue, store, view, sub, mail, inv, links, nk>>

(* The user key handed over is checked against the account record. *)
AcceptAcquaintance(u, w) ==
    /\ "acquaint" \in sc.ops /\ u \in sc.movers /\ u # w /\ store[u].acq[w] # ep[w]
    /\ store' = [store EXCEPT ![u] = AcquaintanceStore(@, w, ep[w])]
    /\ UNCHANGED <<sc, hist, logs, queue, ep, view, sub, mail, inv, links, nk>>

-----------------------------------------------------------------------------
(* Edits.                                                                  *)

(* The founder's key goes straight to the current slot. *)
Create(u) ==
    /\ "create" \in sc.ops /\ u \in sc.movers /\ sub[u] = Idle /\ store[u].gk = NoKey /\ nk <= sc.maxk
    /\ store' = [store EXCEPT ![u] = GroupKeyStore(@, nk)]
    /\ nk' = nk + 1
    /\ LET core == Genesis(u, ep[u], nk, sc.start)
       IN  sub' = [sub EXCEPT ![u] =
                    [st |-> "sent", op |-> "create", core |-> core, ext |-> 0,
                     vkr |-> SelfVkr(u, store'[u]), rot |-> FALSE, tell |-> {},
                     drop |-> {}, inv |-> {}, link |-> {}]]
    /\ EditKeeps

DoAddMember(u, w) ==
    /\ MayEdit(u, "add")
    /\ store[u].acq[w] # 0
    /\ Send(u, [Ask(u, "append", AddMember(u, store[u], Cur(u), w))
                  EXCEPT !.tell = {w}])
    /\ EditKeeps /\ UNCHANGED <<store, nk>>

DoSetAdmin(u, w, b) ==
    /\ MayEdit(u, "setadmin")
    /\ w \in Uids(Cur(u))
    /\ Send(u, Ask(u, "unchanged", SetAdmin(u, Cur(u), w, b)))
    /\ EditKeeps /\ UNCHANGED <<store, nk>>

DoChangeSettings(u, flags, attr) ==
    /\ MayEdit(u, "settings")
    /\ Send(u, Ask(u, "unchanged", ChangeSettings(u, Cur(u), flags, attr)))
    /\ EditKeeps /\ UNCHANGED <<store, nk>>

Rotating(u, gone, drop) ==
    /\ CanRebuild(u, store[u], Cur(u), gone)
    /\ Send(u, [AskRotated(u, RebuildAndEmit(u, store[u], Cur(u), nk, gone))
                  EXCEPT !.drop = drop])
    /\ store' = [store EXCEPT ![u] = GroupKeyStage(@, nk)]
    /\ nk' = nk + 1
    /\ EditKeeps

DoRemoveMember(u, w) ==
    /\ MayRotate(u, "remove")
    /\ w # u /\ w \in Uids(Cur(u))
    /\ Rotating(u, w, {})

Nobody == "nobody"

DoRotateGroupKey(u) ==
    /\ MayRotate(u, "rotate")
    /\ Rotating(u, Nobody, {})

(* The invitation key is handed out with the accepted invitation. *)
DoInvite(u, w) ==
    /\ MayEdit(u, "invite") /\ nk <= sc.maxk
    /\ Send(u, [Ask(u, "append", Invite(u, Cur(u), w, nk))
                  EXCEPT !.inv = {<<u, w, nk>>}])
    /\ nk' = nk + 1
    /\ EditKeeps /\ UNCHANGED store

(* The invitee answers with its current user key, sealed to the key it was *)
(* sent; the server queues the answer.                                     *)
AcceptInvitation(i) ==
    /\ LET q == InviteSeal(i[3], i[2], ep[i[2]])
       IN  q \notin queue /\ queue' = queue \cup {q}
    /\ UNCHANGED <<sc, hist, logs, ep, store, view, sub, mail, inv, links, nk>>

(* The inviter opens the answer with the invitation key it kept and fills  *)
(* in the entry.                                                           *)
DoCompleteInvitation(u, q) ==
    /\ MayEdit(u, "complete")
    /\ \E i \in inv : i[1] = u /\ InviteOpens(i[3], q) /\ i[2] = q.pt.uid
    /\ InviteVerify(q)
    /\ LET i == IndexOf(Cur(u).mem, q.pt.uid) IN i # 0 /\ Cur(u).mem[i].pend
    /\ Send(u, [Ask(u, "unchanged", CompleteInvitation(u, Cur(u), q.pt.uid, q.pt.uk))
                  EXCEPT !.tell = {q.pt.uid}])
    /\ EditKeeps /\ UNCHANGED <<store, nk>>

(* Mutant: the pending entry is dropped under the same key. *)
DoRevokeInvitationSameKey(u, w) ==
    /\ MayEdit(u, "revoke") /\ w # u
    /\ \E i \in DOMAIN Cur(u).mem : Cur(u).mem[i].uid = w /\ Cur(u).mem[i].pend
    /\ LET mem == Cur(u).mem
           left == Kept(mem, {i \in DOMAIN mem : mem[i].uid # w \/ ~mem[i].pend})
       IN  Send(u, Ask(u, "replace",
                       [EmitEdited(u, Cur(u)) EXCEPT
                          !.mem = left, !.vk = VkLst(left, Cur(u).gk),
                          !.signer = IndexOf(left, u)]))
    /\ EditKeeps /\ UNCHANGED <<store, nk>>

(* The pending entry is dropped and the key rotated; the answer to scrub   *)
(* is the one sealed to the key the entry itself holds.                    *)
DoRevokeInvitation(u, w) ==
    /\ MayRotate(u, "revoke")
    /\ w # u
    /\ LET mem == Cur(u).mem
           invited == {i \in PlacesOf(mem, w) : mem[i].pend}
       IN  /\ invited # {}
           /\ Rotating(u, w, {q \in queue : /\ InviteOpens(mem[Min(invited)].key, q)
                                            /\ q.pt.uid = w})

(* The secret is stored (or deleted) before the server has seen the edit.  *)
DoToggleJoinLink(u) ==
    /\ MayEdit(u, "link") /\ nk <= sc.maxk
    /\ LET secret == IF Cur(u).link = NoLink THEN nk ELSE NoKey
       IN  /\ Send(u, [Ask(u, "unchanged", ToggleJoinLink(u, Cur(u), secret))
                         EXCEPT !.link = {secret} \ {NoKey}])
           /\ store' = [store EXCEPT ![u] = JoinlinkStore(@, secret)]
    /\ nk' = nk + 1
    /\ EditKeeps

DoConsolidate(u, approved) ==
    LET s == store[u]
        lines == SeenLines(u)
        rot == LeaveFolded(u, s, Cur(u), lines, Accts, approved)
        k == IF rot THEN nk ELSE Cur(u).gk
        core == Consolidate(u, s, Cur(u), lines, queue, Accts, approved, k)
        ask == IF rot THEN AskRotated(u, core) ELSE Ask(u, "replace", core)
    IN  /\ MayEdit(u, "consolidate")
        /\ CanConsolidate(u, s, Cur(u), lines, queue, Accts, approved)
        /\ rot => CanStage(s) /\ nk <= sc.maxk
        /\ Send(u, [ask EXCEPT !.drop = ConsumedEntries(u, s, Cur(u), lines, queue,
                                                         Accts, approved)])
        /\ IF rot THEN nk' = nk + 1 /\ store' = [store EXCEPT ![u] = GroupKeyStage(@, nk)]
                  ELSE UNCHANGED <<nk, store>>
        /\ EditKeeps

-----------------------------------------------------------------------------
(* Appendix lines, written by any member.                                  *)

LineOf(u, kind, uid, val) ==
    [kind |-> kind, idx |-> IndexOf(Cur(u).mem, u), vmaj |-> Cur(u).vmaj,
     by |-> ApxLineSign(u, Cur(u).gk), uid |-> uid, val |-> val]

AskLine(l, vkr) ==
    [st |-> "sent", op |-> "line", core |-> l, ext |-> 0, vkr |-> vkr,
     rot |-> FALSE, tell |-> {}, drop |-> {}, inv |-> {}, link |-> {}]

MayAppend(u, op) ==
    /\ Does(u, op) /\ u \in sc.authors /\ Len(logs[Len(logs)]) < sc.maxl
    /\ OpenCurrent(u, store[u], Cur(u))
    /\ u \in Uids(Cur(u))

AppendixLeave(u) ==
    /\ MayAppend(u, "leave")
    /\ Send(u, AskLine(LineOf(u, "leave", u, 0), SelfVkr(u, store[u])))
    /\ EditKeeps /\ UNCHANGED <<store, nk>>

(* The user key of the epoch the account record attests. *)
AppendixRefresh(u) ==
    /\ MayAppend(u, "refresh") /\ ep[u] > 1
    /\ Send(u, AskLine(LineOf(u, "refresh", u, ep[u]), SelfVkr(u, store[u])))
    /\ EditKeeps /\ UNCHANGED <<store, nk>>

AppendixModAttr(u, attr) ==
    /\ MayAppend(u, "modattr")
    /\ Send(u, AskLine(LineOf(u, "modattr", u, attr), SelfVkr(u, store[u])))
    /\ EditKeeps /\ UNCHANGED <<store, nk>>

AppendixAddUser(u, w) ==
    /\ MayAppend(u, "adduser")
    /\ store[u].acq[w] # 0
    /\ Send(u, AskLine(LineOf(u, "adduser", w, store[u].acq[w]), SelfVkr(u, store[u])))
    /\ EditKeeps /\ UNCHANGED <<store, nk>>

(* Somebody who was given the link opens the slot of the head, checks the  *)
(* signature under the key found there, keeps the key and asks to join.    *)
JoinViaLink(w, secret) ==
    /\ "join" \in sc.ops /\ w \in sc.movers /\ sub[w] = Idle
    /\ hist # << >> /\ Len(logs[Len(logs)]) < sc.maxl
    /\ Head0.link # NoLink /\ JoinlinkOpens(secret, Head0.link)
    /\ Head0.link.gk = Head0.gk /\ CoreResolveVerify(Head0)
    /\ store' = [store EXCEPT ![w] = GroupKeyStore(@, Head0.link.gk)]
    /\ Send(w, AskLine([kind |-> "join", idx |-> Len(Head0.mem) + 1,
                        vmaj |-> Head0.vmaj, by |-> ApxLineSign(w, Head0.gk),
                        uid |-> w, val |-> ep[w]], SelfVkr(w, store'[w])))
    /\ EditKeeps /\ UNCHANGED nk

-----------------------------------------------------------------------------
(* The server.                                                             *)

CoreAccepted(r) ==
    IF r.op = "create" THEN hist = << >> /\ CreateCheck(r.core, r.vkr)
    ELSE /\ hist # << >>
         /\ VersionCheck(Head0.vmaj, r.ext, r.core.vmaj)
         /\ CoreCheck(r.op, Head0, r.core, r.vkr)

LineAccepted(r) ==
    ApxCheck(Head0.vk, r.core, r.vkr) /\ AppendixTakes(logs[Len(logs)], r.core)

Answered(u, ok) ==
    sub' = [sub EXCEPT ![u].st = IF ok THEN "accepted" ELSE "refused"]

(* A new core starts with an empty appendix. *)
ServeCore(u) ==
    /\ sub[u].st = "sent" /\ sub[u].op # "line"
    /\ LET ok == CoreAccepted(sub[u])
       IN  /\ Answered(u, ok)
           /\ hist' = IF ok THEN Append(hist, sub[u].core) ELSE hist
           /\ logs' = IF ok THEN Append(logs, << >>) ELSE logs
           /\ queue' = IF ok THEN queue \ sub[u].drop ELSE queue
    /\ UNCHANGED <<sc, ep, store, view, mail, inv, links, nk>>

ServeLine(u) ==
    /\ sub[u].st = "sent" /\ sub[u].op = "line"
    /\ LET ok == LineAccepted(sub[u])
       IN  /\ Answered(u, ok)
           /\ logs' = IF ok THEN [logs EXCEPT ![Len(logs)] = Append(@, sub[u].core)]
                            ELSE logs
    /\ UNCHANGED <<sc, hist, queue, ep, store, view, mail, inv, links, nk>>

Serve(u) == ServeCore(u) \/ ServeLine(u)

-----------------------------------------------------------------------------
(* The answer.                                                             *)

Commit(u) == store' = [store EXCEPT ![u] = GroupKeyCommit(@)]
Rollback(u) == store' = [store EXCEPT ![u] = GroupKeyRollback(@)]

Telling(gk, who) == IF who = {} THEN Idle ELSE [st |-> "tell", gk |-> gk, tell |-> who]

(* The key a newcomer is told is the one the sender holds. *)
HearAccepted(u) ==
    LET r == sub[u]
    IN  /\ r.st = "accepted"
        /\ IF r.rot THEN Commit(u) ELSE UNCHANGED store
        /\ view' = IF r.op = "line" THEN view
                   ELSE [view EXCEPT ![u] = [v |-> r.core.vmaj, n |-> 0]]
        /\ sub' = [sub EXCEPT ![u] = Telling(ExportGroupKey(store[u]), r.tell)]
        /\ inv' = inv \cup r.inv
        /\ links' = links \cup r.link
        /\ UNCHANGED <<sc, hist, logs, queue, ep, mail, nk>>

(* Mutant: a refused edit leaves its key staged. *)
HearRefusedKeeps(u) ==
    /\ sub[u].st = "refused"
    /\ sub' = [sub EXCEPT ![u] = Idle]
    /\ UNCHANGED <<sc, hist, logs, queue, ep, store, view, mail, inv, links, nk>>

HearRefused(u) ==
    /\ sub[u].st = "refused"
    /\ IF sub[u].rot THEN Rollback(u) ELSE UNCHANGED store
    /\ sub' = [sub EXCEPT ![u] = Idle]
    /\ UNCHANGED <<sc, hist, logs, queue, ep, view, mail, inv, links, nk>>

(* The commit stores the key but fails to remove the staged one. *)
CommitHalf(u) ==
    /\ "faults" \in sc.ops /\ sub[u].st = "accepted" /\ sub[u].rot
    /\ store' = [store EXCEPT ![u] = GroupKeyStore(@, @.pend)]
    /\ sub' = [sub EXCEPT ![u] = [st |-> "lost"]]
    /\ UNCHANGED <<sc, hist, logs, queue, ep, view, mail, inv, links, nk>>

(* The request or its answer is lost; the client knows only that. *)
Lose(u) ==
    /\ "faults" \in sc.ops /\ sub[u].st \in {"sent", "accepted", "refused"}
    /\ sub' = [sub EXCEPT ![u] = [st |-> "lost"]]
    /\ UNCHANGED <<sc, hist, logs, queue, ep, store, view, mail, inv, links, nk>>

(* The process stops and starts again: what it has not put on disk is gone. *)
Crash(u) ==
    /\ "faults" \in sc.ops /\ u \in sc.movers /\ sub[u].st # "sent"
    /\ sub' = [sub EXCEPT ![u] = IF store[u].pend = NoKey THEN Idle ELSE [st |-> "lost"]]
    /\ view' = [view EXCEPT ![u] = NoView]
    /\ UNCHANGED <<sc, hist, logs, queue, ep, store, mail, inv, links, nk>>

(* Mutant: the client rolls back without asking. *)
ProbeRollsBack(u) ==
    /\ sub[u].st = "lost"
    /\ Rollback(u)
    /\ sub' = [sub EXCEPT ![u] = Idle]
    /\ UNCHANGED <<sc, hist, logs, queue, ep, view, mail, inv, links, nk>>

(* With a key still staged the client asks for the group with its token:   *)
(* the server serves it if and only if it stored the edit.                 *)
Probe(u) ==
    /\ sub[u].st = "lost"
    /\ LET staged == store[u].pend # NoKey
           stored == staged /\ FetchCheck(DeriveFet(Head0.gk), FetchToken(store[u]))
       IN  /\ CASE stored -> Commit(u)
                [] staged /\ ~stored -> Rollback(u)
                [] OTHER -> UNCHANGED store
           /\ sub' = [sub EXCEPT ![u] =
                        IF stored THEN Telling(Head0.gk, Present(Head0) \ {u}) ELSE Idle]
    /\ UNCHANGED <<sc, hist, logs, queue, ep, view, mail, inv, links, nk>>

-----------------------------------------------------------------------------
(* The group key travels to one member at a time.                          *)

Tell(u, w) ==
    /\ sub[u].st = "tell" /\ w \in sub[u].tell
    /\ mail' = [mail EXCEPT ![w] = Append(@, sub[u].gk)]
    /\ sub' = [sub EXCEPT ![u] = Telling(sub[u].gk, sub[u].tell \ {w})]
    /\ UNCHANGED <<sc, hist, logs, queue, ep, store, view, inv, links, nk>>

(* The key that arrives replaces the one held, whichever is newer. *)
Install(w) ==
    /\ mail[w] # << >> /\ sub[w].st \in {"idle", "tell"}
    /\ store' = [store EXCEPT ![w] = GroupKeyStore(@, Head(mail[w]))]
    /\ mail' = [mail EXCEPT ![w] = Tail(@)]
    /\ UNCHANGED <<sc, hist, logs, queue, ep, view, sub, inv, links, nk>>

-----------------------------------------------------------------------------
(* Fetch.  A server that serves stale data may answer with any version and *)
(* any of its appendices.                                                  *)

Fetch(u, v, n) ==
    /\ u \in sc.movers /\ sub[u] = Idle
    /\ "stale" \notin sc.ops => v = Len(hist) /\ n = Len(logs[v])
    /\ FetchCheck(DeriveFet(hist[v].gk), FetchToken(store[u]))
    /\ FetchOk(u, store[u], hist[v], SubSeq(logs[v], 1, n), queue, Prior(u), Accts)
    /\ view' = [view EXCEPT ![u] = [v |-> v, n |-> n]]
    /\ UNCHANGED <<sc, hist, logs, queue, ep, store, sub, mail, inv, links, nk>>

(* The application keeps no earlier view. *)
Forget(u) ==
    /\ "forget" \in sc.ops /\ u \in sc.movers /\ sub[u] = Idle
    /\ view' = [view EXCEPT ![u] = NoView]
    /\ UNCHANGED <<sc, hist, logs, queue, ep, store, sub, mail, inv, links, nk>>

-----------------------------------------------------------------------------
Edit(u) ==
    \/ Create(u) \/ DoRotateGroupKey(u) \/ DoToggleJoinLink(u)
    \/ \E w \in Users : DoAddMember(u, w) \/ DoRemoveMember(u, w) \/ DoInvite(u, w)
                           \/ DoRevokeInvitation(u, w)
    \/ \E w \in Users, b \in BOOLEAN : DoSetAdmin(u, w, b)
    \/ \E q \in queue : DoCompleteInvitation(u, q)
    \/ \E f \in sc.flags : DoChangeSettings(u, f, 0)
    \/ \E approved \in SUBSET (1 .. view[u].n) : DoConsolidate(u, approved)

Line(u) ==
    \/ AppendixLeave(u) \/ AppendixRefresh(u) \/ AppendixModAttr(u, 1)
    \/ \E w \in Users : AppendixAddUser(u, w)
    \/ \E k \in links : JoinViaLink(u, k)

Answer(u) ==
    \/ HearAccepted(u) \/ HearRefused(u) \/ CommitHalf(u) \/ Lose(u) \/ Crash(u)
    \/ Probe(u)

Next ==
    \/ \E u \in Users : Edit(u) \/ Line(u) \/ Serve(u) \/ Answer(u)
                           \/ Register(u) \/ Install(u) \/ Forget(u)
    \/ \E u, w \in Users : AcceptAcquaintance(u, w) \/ Tell(u, w)
    \/ \E i \in inv : AcceptInvitation(i)
    \/ \E u \in Users, v \in DOMAIN hist : \E n \in 0 .. Len(logs[v]) : Fetch(u, v, n)

(* A request under way goes on: the server answers what it received, the   *)
(* client acts on the answer or asks again ("the caller MUST resolve the   *)
(* edit") and tells the members; and keys on their way arrive.  Nobody has *)
(* to edit, to fetch or to stay up.                                        *)
GoesOn(u) ==
    \/ Serve(u) \/ HearAccepted(u) \/ HearRefused(u) \/ Probe(u)
    \/ \E w \in Users : Tell(u, w)

Fairness == \A u \in Users : WF_sub(GoesOn(u)) /\ WF_mail(Install(u))

Spec == Init /\ [][Next]_vars /\ Fairness

-----------------------------------------------------------------------------
(* Properties.                                                             *)

Holds(u, k) == store[u].gk = k \/ store[u].pend = k \/ k \in Range(mail[u])

(* Whoever signed the served version can open it: the key is in its store, *)
(* as the current or as the staged one, through refusals, lost answers,    *)
(* half-done commits and restarts (qspgs_group_key_stage, _commit,         *)
(* _rollback).  Otherwise nobody could ever read or edit the group again.  *)
HeadReadable ==
    hist # << >> => LET u == Head0.by[1]
                    IN  store[u].gk = Head0.gk \/ store[u].pend = Head0.gk

(* A member an edit dropped never gets hold of the key that edit was       *)
(* sealed under, unless a version under that key lists them again or its   *)
(* join link is open (Present(core) in AskRotated, founder_redeliver).     *)
RemovedCannotRead ==
    \A i \in 2 .. Len(hist) :
        \A u \in Uids(hist[i - 1]) \ Uids(hist[i]) :
            Holds(u, hist[i].gk) =>
                \E j \in i .. Len(hist) :
                    /\ hist[j].gk = hist[i].gk
                    /\ u \in Uids(hist[j]) \/ hist[j].link # NoLink

(* What a fetch with the earlier view at hand accepts: never an older      *)
(* version and never a version further ahead than the next; and when lines *)
(* of the appendix had been seen, the next version has exactly the members *)
(* those lines led to (the lineage check of fetch).                        *)
SeenLinesKept ==
    [][\A u \in Users :
          (sub'[u] = sub[u] /\ view[u] # NoView /\ view'[u] # NoView) =>
            \/ view'[u].v = view[u].v
            \/ /\ view'[u].v = view[u].v + 1
               /\ view[u].n > 0 =>
                    LET r == EffectiveRoster(u, store[u], Cur(u), SeenLines(u), queue, Accts)
                    IN  Uids(hist[view'[u].v]) = {r[i].uid : i \in DOMAIN r}]_vars

(* A staged key never stays unresolved: the next rotating edit would be    *)
(* refused with GY_ERR_STATE for ever.                                     *)
StagedResolved ==
    \A u \in Users : (store[u].pend # NoKey) ~> (store[u].pend = NoKey)

Behind(u) == hist # << >> /\ u \in Present(Head0) /\ store[u].gk # Head0.gk

(* With one admin who rotates, every member of the served version ends up  *)
(* with its key, or is no longer a member.                                 *)
MembersCatchUp == \A u \in Users : (sc.solo /\ Behind(u)) ~> ~Behind(u)

(* The versions the server stores are one linear history. *)
History == INSTANCE QspgsHistory WITH
    vers <- [i \in DOMAIN hist |->
                [mem |-> Uids(hist[i]), adm |-> Admins(hist[i]),
                 key |-> hist[i].gk, by |-> hist[i].by[1]]]

(* Every stored version continues the one before it, as QspgsHistory says. *)
ImplementsHistory == History!Spec

-----------------------------------------------------------------------------
(* What the documentation says and the code does not do.                   *)

(* geryon_qspgs.h: a pending member whose acceptance is in the queue and   *)
(* verifies is settled by consolidation.                                   *)
AcceptanceSettles ==
    [][\A u \in Users :
          (sub[u] = Idle /\ sub'[u] # Idle /\ sub'[u].st = "sent" /\ sub'[u].op = "replace"
             /\ ~sub'[u].rot) =>
            \A i \in DOMAIN Cur(u).mem :
                LET m == Cur(u).mem[i]
                IN  m.pend /\ InviteSeal(m.key, m.uid, ep[m.uid]) \in queue
                      => m.uid \in Present(sub'[u].core)]_vars
=============================================================================
