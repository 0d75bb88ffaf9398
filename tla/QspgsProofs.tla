---------------------------- MODULE QspgsProofs -----------------------------
(***************************************************************************)
(* Proofs about Qspgs, for any users, any standing group and any           *)
(* scenarios.  The versions a server stores are one linear history, and a  *)
(* member an edit dropped does not get hold of the key of that edit.       *)
(*                                                                         *)
(* QspgsSteps has the inductive invariant and the steps of the server;     *)
(* here are the edits and lines that clients send, the initial states and  *)
(* what follows.                                                           *)
(***************************************************************************)
EXTENDS QspgsSteps

(* Edits and lines.                                                        *)

(* What a client that may edit has at hand. *)
Ready(u) ==
    /\ TypeOK /\ hist # << >> /\ sub[u] = Idle
    /\ view[u].v \in DOMAIN hist /\ Cur(u) \in Cores /\ Cur(u).vmaj = view[u].v
    /\ store[u] \in Stores /\ store[u].pend = NoKey
    /\ store[u].gk = Cur(u).gk /\ Cur(u).gk \in Nat /\ Cur(u).gk # NoKey

(* A client with a view, whose key opens it. *)
LEMMA OpensReady ==
  ASSUME IInv, NEW u \in Users, sub[u] = Idle, view[u] # NoView, OpenCurrent(u, store[u], Cur(u))
  PROVE  Ready(u)
<1>1. TypeOK /\ Linear /\ UserOk(u) /\ view[u] \in Views
  BY Zenon DEF IInv, TypeOK
<1>2. hist \in Seq(Cores) /\ Len(hist) \in Nat /\ DOMAIN hist = 1 .. Len(hist)
  BY <1>1 DEF TypeOK
<1>3. view[u].v # 0
  <2>1. view[u] = [v |-> view[u].v, n |-> view[u].n]
    BY <1>1, Zenon DEF Views
  <2>2. view[u].v = 0 => view[u].n = 0
    BY <1>1, Zenon DEF UserOk, ViewOk
  <2>3. QED
    BY <2>1, <2>2, Zenon DEF NoView
<1>4. view[u].v \in DOMAIN hist
  BY <1>1, <1>2, <1>3, SMTT(60) DEF UserOk, ViewOk
<1>5. hist # << >> /\ Cur(u) \in Cores /\ Cur(u) = hist[view[u].v]
  BY <1>2, <1>4, SMTT(60) DEF Cur
<1>6. Cur(u).vmaj = view[u].v /\ Cur(u).gk \in 1 .. nk - 1 /\ nk \in Nat
  BY <1>1, <1>4, <1>5, Zenon DEF Linear, TypeOK
<1>7. Cur(u).gk \in Nat /\ Cur(u).gk # NoKey
  BY <1>6 DEF NoKey
<1>8. store[u].pend = NoKey /\ store[u] \in Stores
  BY IdleOk, Zenon
<1>9. store[u].gk = Cur(u).gk
  BY <1>8, Zenon DEF OpenCurrent, FieldOpens, GroupKeyLoad
<1>10. QED
  BY <1>1, <1>4, <1>5, <1>6, <1>7, <1>8, <1>9, Zenon DEF Ready

(* ... and who is an admin of it. *)
LEMMA EditReady ==
  ASSUME IInv, NEW u \in Users, NEW op, MayEdit(u, op)
  PROVE  Ready(u) /\ u \in Admins(Cur(u)) /\ u \in Uids(Cur(u))
<1>1. Ready(u)
  BY OpensReady, ZenonT(60) DEF MayEdit, Does, EditBegin
<1>2. Cur(u) \in Cores
  BY <1>1, Zenon DEF Ready
<1> DEFINE c == Cur(u)
<1>3. SelfAdminIndex(u, c) # 0
  BY Zenon DEF MayEdit, EditBegin
<1> HIDE DEF c
<1>4. IndexOf(c.mem, u) # 0 /\ c.mem[IndexOf(c.mem, u)].admn
  BY <1>3, Zenon DEF SelfAdminIndex
<1>5. Len(c.mem) \in Nat /\ DOMAIN c.mem = 1 .. Len(c.mem)
  BY <1>2, CoreMem, ZenonT(60) DEF c
<1>6. IndexOf(c.mem, u) \in DOMAIN c.mem /\ c.mem[IndexOf(c.mem, u)].uid = u
  BY <1>4, <1>5, IndexFound, ZenonT(60)
<1>7. u \in Admins(c) /\ u \in Uids(c)
  BY <1>4, <1>6, Zenon DEF Admins, Uids
<1>8. QED
  BY <1>1, <1>7, Zenon DEF c

Asks(r, u, op, c, tell) ==
    /\ r \in CoreRequests /\ r.st = "sent" /\ r.op = op /\ r.core = c
    /\ r.ext = Cur(u).vmaj /\ ~r.rot /\ r.tell = tell

(* The request of an edit that keeps the key, with what goes with it. *)
LEMMA AskShape ==
  ASSUME NEW u \in Users, Ready(u), NEW c \in Cores,
         NEW op \in Ops, op # "line"
  PROVE  /\ Asks(Ask(u, op, c), u, op, c, {})
         /\ \A x \in SUBSET Users : Asks([Ask(u, op, c) EXCEPT !.tell = x], u, op, c, x)
         /\ \A x \in SUBSET Answers : Asks([Ask(u, op, c) EXCEPT !.drop = x], u, op, c, {})
         /\ \A x \in SUBSET Invites : Asks([Ask(u, op, c) EXCEPT !.inv = x], u, op, c, {})
         /\ \A x \in SUBSET Nat : Asks([Ask(u, op, c) EXCEPT !.link = x], u, op, c, {})
<1> DEFINE a == Ask(u, op, c)
<1>1. SelfVkr(u, store[u]) \in Pseudonyms /\ Cur(u).vmaj \in Nat
  BY Zenon DEF Ready, SelfVkr, VkPsdn, GroupKeyLoad, Pseudonyms, Cores
<1>2. a \in Request(Cores)
  BY <1>1, Zenon DEF Ask, Request, Steps
<1>3. /\ a.st = "sent" /\ a.op = op /\ a.core = c /\ a.ext = Cur(u).vmaj /\ ~a.rot /\ a.tell = {}
  BY Zenon DEF Ask
<1> HIDE DEF a
<1>4. a \in CoreRequests
  BY <1>2, <1>3, Zenon DEF CoreRequests
<1>5. Asks(a, u, op, c, {})
  BY <1>3, <1>4, Zenon DEF Asks
<1>6. ASSUME NEW x \in SUBSET Users PROVE Asks([a EXCEPT !.tell = x], u, op, c, x)
  <2>1. [a EXCEPT !.tell = x] \in Request(Cores)
    BY <1>2, Zenon DEF Request
  <2>2. QED
    BY <1>2, <1>3, <2>1, Zenon DEF Asks, Request, CoreRequests
<1>7. ASSUME NEW x \in SUBSET Answers PROVE Asks([a EXCEPT !.drop = x], u, op, c, {})
  <2>1. [a EXCEPT !.drop = x] \in Request(Cores)
    BY <1>2, Zenon DEF Request
  <2>2. QED
    BY <1>2, <1>3, <2>1, Zenon DEF Asks, Request, CoreRequests
<1>8. ASSUME NEW x \in SUBSET Invites PROVE Asks([a EXCEPT !.inv = x], u, op, c, {})
  <2>1. [a EXCEPT !.inv = x] \in Request(Cores)
    BY <1>2, Zenon DEF Request
  <2>2. QED
    BY <1>2, <1>3, <2>1, Zenon DEF Asks, Request, CoreRequests
<1>9. ASSUME NEW x \in SUBSET Nat PROVE Asks([a EXCEPT !.link = x], u, op, c, {})
  <2>1. [a EXCEPT !.link = x] \in Request(Cores)
    BY <1>2, Zenon DEF Request
  <2>2. QED
    BY <1>2, <1>3, <2>1, Zenon DEF Asks, Request, CoreRequests
<1>10. QED
  BY <1>5, <1>6, <1>7, <1>8, <1>9, Zenon DEF a

(* An edit that keeps the key. *)
LEMMA PlainSend ==
  ASSUME IInv, NEW u \in Users, Ready(u), u \in Admins(Cur(u)), u \in Uids(Cur(u)),
         NEW c, Carries(c, Cur(u), u), NEW op, op # "line", op # "create",
         NEW tell, tell \subseteq Uids(c), NEW r, Asks(r, u, op, c, tell),
         NEW s \in Stores, s.gk = store[u].gk, s.pend = store[u].pend,
         sub' = [sub EXCEPT ![u] = r],
         store' = [store EXCEPT ![u] = s], nk' \in {nk, nk + 1}, EditKeeps
  PROVE  IInv'
<1>1. /\ Cur(u) \in Cores /\ Cur(u).vmaj = view[u].v /\ view[u].v \in DOMAIN hist
      /\ Cur(u) = hist[view[u].v] /\ store[u].gk = Cur(u).gk /\ store[u].pend = NoKey
      /\ Cur(u).gk \in Nat /\ Cur(u).gk # NoKey /\ TypeOK
  BY Zenon DEF Ready, Cur
<1>2. c \in Cores /\ c.vmaj = Cur(u).vmaj + 1 /\ c.gk = Cur(u).gk /\ c.by[1] = u /\ Uids(Cur(u)) \subseteq Uids(c)
  BY Zenon DEF Carries
<1>3. /\ r \in CoreRequests /\ r.st = "sent" /\ r.op = op /\ r.core = c
      /\ r.ext = Cur(u).vmaj /\ ~r.rot /\ r.tell = tell
  BY Zenon DEF Asks
<1>4. Extends(u, r)
  BY <1>1, <1>2, <1>3, SMTT(60) DEF Extends
<1>5. GroupKeyLoad(s) = Cur(u).gk
  BY <1>1, Zenon DEF GroupKeyLoad
<1>6. Built(u, r, s) /\ ~Fresh(r)
  BY <1>1, <1>2, <1>3, <1>4, <1>5, Zenon DEF Built, Fresh
<1>7. GoodKey(u, s.gk) /\ GoodKey(u, s.pend)
  BY Zenon DEF GoodKey, Holds
<1>8. MaySend(u, r, s)
  BY <1>1, <1>3, <1>6, <1>7, Zenon DEF MaySend
<1>9. QED
  BY <1>8, SendOk, ZenonT(60)

(* An edit under a fresh key, which is staged first. *)
LEMMA RotatedSend ==
  ASSUME IInv, NEW u \in Users, Ready(u), u \in Admins(Cur(u)),
         NEW c \in Cores, c.vmaj = Cur(u).vmaj + 1, c.gk = nk, c.by[1] = u, u \in Uids(c),
         NEW drop \in SUBSET Answers,
         sub' = [sub EXCEPT ![u] = [AskRotated(u, c) EXCEPT !.drop = drop]],
         store' = [store EXCEPT ![u] = GroupKeyStage(store[u], nk)], nk' = nk + 1, EditKeeps
  PROVE  IInv'
<1> DEFINE s == GroupKeyStage(store[u], nk)
           tell == Present(c) \ {u}
           vkr == SelfVkr(u, GroupKeyStage(store[u], c.gk))
           r == [AskRotated(u, c) EXCEPT !.drop = drop]
<1>1. /\ Cur(u) \in Cores /\ Cur(u).vmaj = view[u].v /\ view[u].v \in DOMAIN hist
      /\ Cur(u) = hist[view[u].v] /\ store[u] \in Stores /\ hist # << >> /\ TypeOK
      /\ nk \in Nat /\ nk >= 2
  BY Zenon DEF Ready, Cur, TypeOK
<1>2. Cur(u).vmaj \in Nat /\ tell \subseteq Uids(c) /\ Uids(c) \subseteq Users
  <2>1. Cur(u).vmaj \in Nat
    BY <1>1, Zenon DEF Cores
  <2>2. tell \subseteq Uids(c) /\ Uids(c) \subseteq Users
    BY CoreMem, ZenonT(60) DEF Present, Uids
  <2>3. QED
    BY <2>1, <2>2, Zenon
<1>3. s \in Stores /\ s.gk = store[u].gk /\ s.pend = nk /\ nk # NoKey
  BY <1>1, SMTT(60) DEF GroupKeyStage, Stores, NoKey
<1>4. GroupKeyLoad(s) = nk
  BY <1>3, Zenon DEF GroupKeyLoad
<1>5. vkr \in Pseudonyms
  BY <1>1, <1>4, Zenon DEF SelfVkr, VkPsdn, Pseudonyms
<1>6. SelfVkr(u, store[u]) \in Pseudonyms
  BY <1>1, Zenon DEF SelfVkr, VkPsdn, Pseudonyms, GroupKeyLoad, Stores
<1>7. r \in CoreRequests
  <2>1. Ask(u, "replace", c) \in Request(Cores)
    BY <1>2, <1>6, Zenon DEF Ask, Request, Steps, Ops
  <2>2. AskRotated(u, c) = [Ask(u, "replace", c) EXCEPT !.vkr = vkr, !.rot = TRUE, !.tell = tell]
    BY Zenon DEF AskRotated
  <2>3. Ask(u, "replace", c).op = "replace"
    BY Zenon DEF Ask
  <2> HIDE DEF vkr, tell
  <2>4. tell \in SUBSET Users
    BY <1>2, Zenon
  <2>5. r \in Request(Cores)
    BY <1>5, <2>1, <2>2, <2>4, ZenonT(60) DEF Request
  <2>6. r.op = "replace"
    BY <2>1, <2>2, <2>3, Zenon DEF Request
  <2>7. QED
    BY <2>5, <2>6, ZenonT(60) DEF CoreRequests
<1>8. /\ r.st = "sent" /\ r.op = "replace" /\ r.core = c /\ r.ext = Cur(u).vmaj /\ r.rot
      /\ r.tell = tell
  BY Zenon DEF AskRotated, Ask
<1> HIDE DEF s, tell, vkr, r
<1>9. Extends(u, r)
  BY <1>1, <1>8, Zenon DEF Extends
<1>10. Built(u, r, s)
  BY <1>2, <1>3, <1>4, <1>8, <1>9, Zenon DEF Built
<1>11. GoodKey(u, s.gk) /\ GoodKey(u, s.pend)
  BY <1>3, Zenon DEF GoodKey, Holds
<1>12. MaySend(u, r, s)
  BY <1>1, <1>3, <1>7, <1>8, <1>10, <1>11, Zenon DEF MaySend
<1>13. sub' = [sub EXCEPT ![u] = r] /\ store' = [store EXCEPT ![u] = s]
  BY Zenon DEF r, s
<1>14. QED
  BY <1>12, <1>13, SendOk, ZenonT(60)

(* The founder of a group draws a key of its own. *)
LEMMA CreateOk ==
  ASSUME IInv, NEW u \in Users, Create(u)
  PROVE  IInv'
<1> DEFINE s == GroupKeyStore(store[u], nk)
           c == Genesis(u, ep[u], nk, sc.start)
           vkr == SelfVkr(u, s)
           r == [st |-> "sent", op |-> "create", core |-> c, ext |-> 0, vkr |-> vkr,
                 rot |-> FALSE, tell |-> {}, drop |-> {}, inv |-> {}, link |-> {}]
<1>1. /\ TypeOK /\ sub[u] = Idle /\ nk \in Nat /\ nk >= 2 /\ ep[u] \in Nat /\ sc \in ScenarioRecord
      /\ store \in [Users -> Stores]
  BY Zenon DEF IInv, TypeOK, Create
<1>2. sc.start \in Settings
  BY <1>1, Zenon DEF ScenarioRecord, Settings
<1>3. store[u].pend = NoKey /\ store[u] \in Stores
  BY <1>1, IdleOk, Zenon
<1>4. s \in Stores /\ s.gk = nk /\ s.pend = NoKey /\ nk # NoKey
  BY <1>1, <1>3, SMTT(60) DEF GroupKeyStore, Stores, NoKey
<1>5. GroupKeyLoad(s) = nk
  BY <1>4, Zenon DEF GroupKeyLoad
<1>6. vkr \in Pseudonyms
  BY <1>1, <1>5, Zenon DEF SelfVkr, VkPsdn, Pseudonyms
<1>7. /\ c \in Cores /\ c.vmaj = 1 /\ c.gk = nk /\ c.by = <<u, nk>>
      /\ Uids(c) = {u} /\ Admins(c) = {u}
  <2>1. IsGenesis(c, u, nk)
    BY <1>1, <1>2, GenesisOk, ZenonT(60)
  <2>2. QED
    BY <2>1, Zenon DEF IsGenesis
<1>8. store' = [store EXCEPT ![u] = s] /\ sub' = [sub EXCEPT ![u] = r]
  <2>1. store' = [store EXCEPT ![u] = s]
    BY Zenon DEF Create
  <2>2. store'[u] = s
    BY <1>1, <2>1, Zenon
  <2>3. sub' = [sub EXCEPT ![u] =
                    [st |-> "sent", op |-> "create", core |-> c, ext |-> 0,
                     vkr |-> SelfVkr(u, store'[u]), rot |-> FALSE, tell |-> {},
                     drop |-> {}, inv |-> {}, link |-> {}]]
    BY Zenon DEF Create
  <2> HIDE DEF c, s
  <2>4. QED
    BY <2>1, <2>2, <2>3, Zenon
<1> HIDE DEF s, c, vkr
<1>9. r \in CoreRequests
  BY <1>6, <1>7, Zenon DEF CoreRequests, Request, Ops, Steps
<1>10. /\ r.st = "sent" /\ r.op = "create" /\ r.core = c /\ ~r.rot
       /\ r.tell = {}
  BY Zenon
<1> HIDE DEF r
<1>11. Founds(u, r)
  BY <1>7, <1>10, Zenon DEF Founds
<1>12. Built(u, r, s)
  BY <1>4, <1>5, <1>7, <1>10, <1>11, SMTT(60) DEF Built
<1>13. nk' = nk + 1 /\ EditKeeps
  BY Zenon DEF Create
<1>14. GoodKey(u, s.gk) /\ GoodKey(u, s.pend)
  BY <1>4, <1>13, Zenon DEF GoodKey
<1>15. MaySend(u, r, s)
  BY <1>4, <1>7, <1>9, <1>10, <1>12, <1>13, <1>14, Zenon DEF MaySend
<1>16. QED
  BY <1>8, <1>13, <1>15, SendOk, ZenonT(60)

(* An edit that rotates stages a key that no version has used              *)
(* (rebuild_and_emit).                                                     *)
LEMMA RotatingOk ==
  ASSUME IInv, NEW u \in Users, Ready(u), u \in Admins(Cur(u)),
         NEW gone, NEW drop \in SUBSET Answers, Rotating(u, gone, drop)
  PROVE  IInv'
<1> DEFINE c == RebuildAndEmit(u, store[u], Cur(u), nk, gone)
<1>1. Cur(u) \in Cores /\ store[u] \in Stores /\ nk \in Nat /\ CanRebuild(u, store[u], Cur(u), gone)
  BY Zenon DEF Ready, TypeOK, Rotating
<1>2. c \in Cores /\ c.vmaj = Cur(u).vmaj + 1 /\ c.gk = nk /\ c.by = <<u, nk>> /\ u \in Uids(c)
  BY <1>1, RebuildAndEmitOk, ZenonT(60)
<1>3. /\ sub' = [sub EXCEPT ![u] = [AskRotated(u, c) EXCEPT !.drop = drop]]
      /\ store' = [store EXCEPT ![u] = GroupKeyStage(store[u], nk)] /\ nk' = nk + 1 /\ EditKeeps
  BY Zenon DEF Rotating, Send
<1> HIDE DEF c
<1>4. c.by[1] = u
  BY <1>2
<1>5. QED
  BY <1>2, <1>3, <1>4, RotatedSend, ZenonT(60)

(* Adding a member keeps the key, which the newcomer is to be told. *)
LEMMA AddMemberOk ==
  ASSUME IInv, NEW u \in Users, NEW w \in Users, DoAddMember(u, w)
  PROVE  IInv'
<1> DEFINE c == AddMember(u, store[u], Cur(u), w)
           m == MemberBuild(w, store[u].acq[w], FALSE)
<1>1. Ready(u) /\ u \in Admins(Cur(u)) /\ u \in Uids(Cur(u)) /\ Cur(u) \in Cores /\ store[u] \in Stores
  BY EditReady, Zenon DEF DoAddMember, Ready
<1>2. m \in Members /\ m.uid = w
  BY <1>1, Zenon DEF MemberBuild, Members, Stores
<1>3. Carries(c, Cur(u), u) /\ w \in Uids(c)
  <2> DEFINE core == Cur(u)
  <2>1. c = Appended(u, core, m)
    BY Zenon DEF AddMember
  <2> HIDE DEF c, m, core
  <2>2. Carries(Appended(u, core, m), core, u) /\ m.uid \in Uids(Appended(u, core, m))
    BY <1>1, <1>2, AppendedOk, ZenonT(60) DEF core
  <2>3. QED
    BY <1>2, <2>1, <2>2, Zenon DEF core
<1> HIDE DEF c
<1>4. c \in Cores /\ "append" \in Ops /\ "append" # "line" /\ "append" # "create" /\ {w} \in SUBSET Users
  BY <1>3, Zenon DEF Carries, Ops
<1>5. Asks([Ask(u, "append", c) EXCEPT !.tell = {w}], u, "append", c, {w})
  BY <1>1, <1>4, AskShape, ZenonT(60)
<1>6. /\ sub' = [sub EXCEPT ![u] = [Ask(u, "append", c) EXCEPT !.tell = {w}]]
      /\ store' = [store EXCEPT ![u] = store[u]] /\ nk' = nk /\ EditKeeps
  BY SameStore, Zenon DEF DoAddMember, Send, c
<1>7. {w} \subseteq Uids(c)
  BY <1>3, Zenon
<1>8. QED
  BY <1>1, <1>3, <1>4, <1>5, <1>6, <1>7, PlainSend, ZenonT(60)

(* Changing the admin bit of a member keeps the key. *)
LEMMA SetAdminStepOk ==
  ASSUME IInv, NEW u \in Users, NEW w \in Users, NEW b \in BOOLEAN, DoSetAdmin(u, w, b)
  PROVE  IInv'
<1> DEFINE c == SetAdmin(u, Cur(u), w, b)
<1>1. Ready(u) /\ u \in Admins(Cur(u)) /\ u \in Uids(Cur(u)) /\ Cur(u) \in Cores /\ store[u] \in Stores
  BY EditReady, Zenon DEF DoSetAdmin, Ready
<1>2. w \in Uids(Cur(u))
  BY Zenon DEF DoSetAdmin
<1>3. Carries(c, Cur(u), u)
  BY <1>1, <1>2, SetAdminOk, ZenonT(60)
<1> HIDE DEF c
<1>4. c \in Cores /\ "unchanged" \in Ops /\ "unchanged" # "line" /\ "unchanged" # "create" /\ {} \subseteq Uids(c)
  BY <1>3, Zenon DEF Carries, Ops
<1>5. Asks(Ask(u, "unchanged", c), u, "unchanged", c, {})
  BY <1>1, <1>4, AskShape, ZenonT(60)
<1>6. /\ sub' = [sub EXCEPT ![u] = Ask(u, "unchanged", c)]
      /\ store' = [store EXCEPT ![u] = store[u]] /\ nk' = nk /\ EditKeeps
  BY SameStore, Zenon DEF DoSetAdmin, Send, c
<1>7. QED
  BY <1>1, <1>3, <1>4, <1>5, <1>6, PlainSend, ZenonT(60)

(* Changing the settings keeps the key. *)
LEMMA ChangeSettingsStepOk ==
  ASSUME IInv, NEW u \in Users, NEW f \in sc.flags, DoChangeSettings(u, f, 0)
  PROVE  IInv'
<1> DEFINE c == ChangeSettings(u, Cur(u), f, 0)
<1>1. Ready(u) /\ u \in Admins(Cur(u)) /\ u \in Uids(Cur(u)) /\ Cur(u) \in Cores /\ store[u] \in Stores
  BY EditReady, Zenon DEF DoChangeSettings, Ready
<1>2. f \in Settings /\ 0 \in Nat
  BY Zenon DEF IInv, TypeOK, ScenarioRecord, Settings
<1>3. Carries(c, Cur(u), u)
  BY <1>1, <1>2, ChangeSettingsOk, ZenonT(60)
<1> HIDE DEF c
<1>4. c \in Cores /\ "unchanged" \in Ops /\ "unchanged" # "line" /\ "unchanged" # "create" /\ {} \subseteq Uids(c)
  BY <1>3, Zenon DEF Carries, Ops
<1>5. Asks(Ask(u, "unchanged", c), u, "unchanged", c, {})
  BY <1>1, <1>4, AskShape, ZenonT(60)
<1>6. /\ sub' = [sub EXCEPT ![u] = Ask(u, "unchanged", c)]
      /\ store' = [store EXCEPT ![u] = store[u]] /\ nk' = nk /\ EditKeeps
  BY SameStore, Zenon DEF DoChangeSettings, Send, c
<1>7. QED
  BY <1>1, <1>3, <1>4, <1>5, <1>6, PlainSend, ZenonT(60)

(* An invitation lists the invitee, under a key of the invitation. *)
LEMMA InviteStepOk ==
  ASSUME IInv, NEW u \in Users, NEW w \in Users, DoInvite(u, w)
  PROVE  IInv'
<1> DEFINE c == Invite(u, Cur(u), w, nk)
           m == MemberBuildPending(w, nk)
           i == {<<u, w, nk>>}
<1>1. /\ Ready(u) /\ u \in Admins(Cur(u)) /\ u \in Uids(Cur(u)) /\ Cur(u) \in Cores
      /\ store[u] \in Stores /\ nk \in Nat
  BY EditReady, Zenon DEF DoInvite, Ready, TypeOK
<1>2. m \in Members /\ i \in SUBSET Invites
  BY <1>1 DEF MemberBuildPending, Members, Invites
<1>3. Carries(c, Cur(u), u)
  <2> DEFINE core == Cur(u)
  <2>1. c = Appended(u, core, m)
    BY Zenon DEF Invite
  <2> HIDE DEF c, m, core
  <2>2. Carries(Appended(u, core, m), core, u)
    BY <1>1, <1>2, AppendedOk, ZenonT(60) DEF core
  <2>3. QED
    BY <2>1, <2>2, Zenon DEF core
<1>6. /\ sub' = [sub EXCEPT ![u] = [Ask(u, "append", c) EXCEPT !.inv = i]]
      /\ store' = [store EXCEPT ![u] = store[u]] /\ nk' = nk + 1 /\ EditKeeps
  BY SameStore, Zenon DEF DoInvite, Send
<1> HIDE DEF c, i
<1>4. c \in Cores /\ "append" \in Ops /\ "append" # "line" /\ "append" # "create" /\ {} \subseteq Uids(c)
  BY <1>3, Zenon DEF Carries, Ops
<1>5. Asks([Ask(u, "append", c) EXCEPT !.inv = i], u, "append", c, {})
  BY <1>1, <1>2, <1>4, AskShape, ZenonT(60)
<1>7. QED
  BY <1>1, <1>3, <1>4, <1>5, <1>6, PlainSend, ZenonT(60)

(* Completing an invitation tells the invitee the group key. *)
LEMMA CompleteStepOk ==
  ASSUME IInv, NEW u \in Users, NEW q \in queue, DoCompleteInvitation(u, q)
  PROVE  IInv'
<1> DEFINE w == q.pt.uid
           c == CompleteInvitation(u, Cur(u), w, q.pt.uk)
<1>1. Ready(u) /\ u \in Admins(Cur(u)) /\ u \in Uids(Cur(u)) /\ Cur(u) \in Cores /\ store[u] \in Stores
  BY EditReady, Zenon DEF DoCompleteInvitation, Ready
<1>2. q.pt.uk \in Nat /\ w \in Users
  <2>1. q \in Answers
    BY Zenon DEF IInv, TypeOK
  <2>2. QED
    BY <2>1, Zenon DEF Answers
<1>3. w \in Uids(Cur(u))
  <2> DEFINE core == Cur(u)
  <2>1. IndexOf(core.mem, w) # 0
    BY Zenon DEF DoCompleteInvitation
  <2> HIDE DEF core, w
  <2>2. Len(core.mem) \in Nat /\ DOMAIN core.mem = 1 .. Len(core.mem)
    BY <1>1, CoreMem, ZenonT(60) DEF core
  <2>3. IndexOf(core.mem, w) \in DOMAIN core.mem /\ core.mem[IndexOf(core.mem, w)].uid = w
    BY <2>1, <2>2, IndexFound, ZenonT(60)
  <2>4. QED
    BY <2>3, Zenon DEF Uids, core
<1>4. Carries(c, Cur(u), u)
  BY <1>1, <1>2, <1>3, CompleteOk, ZenonT(60)
<1>5. /\ sub' = [sub EXCEPT ![u] = [Ask(u, "unchanged", c) EXCEPT !.tell = {w}]]
      /\ store' = [store EXCEPT ![u] = store[u]] /\ nk' = nk /\ EditKeeps
  BY SameStore, Zenon DEF DoCompleteInvitation, Send
<1> HIDE DEF c, w
<1>6. /\ c \in Cores /\ "unchanged" \in Ops /\ "unchanged" # "line" /\ "unchanged" # "create"
      /\ {w} \subseteq Uids(c) /\ {w} \in SUBSET Users
  BY <1>2, <1>3, <1>4, Zenon DEF Carries, Ops
<1>7. Asks([Ask(u, "unchanged", c) EXCEPT !.tell = {w}], u, "unchanged", c, {w})
  BY <1>1, <1>6, AskShape, ZenonT(60)
<1>8. QED
  BY <1>1, <1>4, <1>5, <1>6, <1>7, PlainSend, ZenonT(60)

(* Opening or closing the link keeps the group key. *)
LEMMA ToggleJoinLinkStepOk ==
  ASSUME IInv, NEW u \in Users, DoToggleJoinLink(u)
  PROVE  IInv'
<1> DEFINE secret == IF Cur(u).link = NoLink THEN nk ELSE NoKey
           c == ToggleJoinLink(u, Cur(u), secret)
           l == {secret} \ {NoKey}
           s == JoinlinkStore(store[u], secret)
<1>1. /\ Ready(u) /\ u \in Admins(Cur(u)) /\ u \in Uids(Cur(u)) /\ Cur(u) \in Cores
      /\ store[u] \in Stores /\ nk \in Nat
  BY EditReady, Zenon DEF DoToggleJoinLink, Ready, TypeOK
<1>2. secret \in Nat
  BY <1>1, Zenon DEF NoKey
<1>3. /\ sub' = [sub EXCEPT ![u] = [Ask(u, "unchanged", c) EXCEPT !.link = l]]
      /\ store' = [store EXCEPT ![u] = s] /\ nk' = nk + 1 /\ EditKeeps
  BY Zenon DEF DoToggleJoinLink, Send
<1> HIDE DEF secret
<1>4. l \in SUBSET Nat /\ s \in Stores /\ s.gk = store[u].gk /\ s.pend = store[u].pend
  BY <1>1, <1>2, Zenon DEF JoinlinkStore, Stores
<1>5. Carries(c, Cur(u), u)
  BY <1>1, <1>2, ToggleJoinLinkOk, ZenonT(60)
<1> HIDE DEF c, l, s
<1>6. c \in Cores /\ "unchanged" \in Ops /\ "unchanged" # "line" /\ "unchanged" # "create" /\ {} \subseteq Uids(c)
  BY <1>5, Zenon DEF Carries, Ops
<1>7. Asks([Ask(u, "unchanged", c) EXCEPT !.link = l], u, "unchanged", c, {})
  BY <1>1, <1>4, <1>6, AskShape, ZenonT(60)
<1>8. QED
  BY <1>1, <1>3, <1>4, <1>5, <1>6, <1>7, PlainSend, ZenonT(60)

(* The edits that rotate. *)
LEMMA RotationsOk ==
  ASSUME IInv, NEW u \in Users,
         \/ DoRotateGroupKey(u)
         \/ \E w \in Users : DoRemoveMember(u, w) \/ DoRevokeInvitation(u, w)
  PROVE  IInv'
<1>1. \A gone : \A drop \in SUBSET Answers :
          (\E op : MayEdit(u, op)) /\ Rotating(u, gone, drop) => IInv'
  BY EditReady, RotatingOk, ZenonT(60)
<1>2. CASE DoRotateGroupKey(u)
  BY <1>1, <1>2, {} \in SUBSET Answers, ZenonT(60) DEF DoRotateGroupKey, MayRotate
<1>3. ASSUME NEW w \in Users, DoRemoveMember(u, w) PROVE IInv'
  BY <1>1, <1>3, {} \in SUBSET Answers, ZenonT(60) DEF DoRemoveMember, MayRotate
<1>4. ASSUME NEW w \in Users, DoRevokeInvitation(u, w) PROVE IInv'
  <2> DEFINE mem == Cur(u).mem
             invited == {i \in PlacesOf(mem, w) : mem[i].pend}
             drop == {q \in queue : /\ InviteOpens(mem[Min(invited)].key, q)
                                    /\ q.pt.uid = w}
  <2>1. MayEdit(u, "revoke") /\ Rotating(u, w, drop)
    BY <1>4, Zenon DEF DoRevokeInvitation, MayRotate
  <2>2. drop \in SUBSET Answers
    BY Zenon DEF IInv, TypeOK
  <2> HIDE DEF drop
  <2>3. QED
    BY <1>1, <2>1, <2>2, ZenonT(60)
<1>5. QED
  BY <1>2, <1>3, <1>4, Zenon

(* The queue entries a consolidation uses up are entries of the queue. *)
LEMMA ConsumedOk ==
  ASSUME NEW u, NEW s, NEW core, NEW lines, NEW qs \in SUBSET Answers, NEW accts, NEW approved
  PROVE  ConsumedEntries(u, s, core, lines, qs, accts, approved) \in SUBSET Answers
<1> DEFINE work == FoldLines(Decrypted(core), lines, LinesFolded(u, s, core, lines, accts, approved))
           P == {k \in DOMAIN work : /\ work[k].pend /\ ~work[k].gone
                                     /\ SettleOne(work[k], qs, accts) # {}}
           One(i) == CHOOSE q \in SettleOne(work[i], qs, accts) : TRUE
<1>1. ConsumedEntries(u, s, core, lines, qs, accts, approved) = {One(i) : i \in P}
  BY ZenonT(60) DEF ConsumedEntries
<1>2. ASSUME NEW i \in P PROVE One(i) \in Answers
  <2> DEFINE S == SettleOne(work[i], qs, accts)
  <2>1. S # {}
    BY <1>2, ZenonT(60)
  <2>2. S \subseteq qs
    BY ZenonT(60) DEF SettleOne
  <2> HIDE DEF S
  <2>3. (CHOOSE q \in S : TRUE) \in S
    BY <2>1, ZenonT(60)
  <2>4. One(i) = CHOOSE q \in S : TRUE
    BY Zenon DEF S
  <2> HIDE DEF One
  <2>5. QED
    BY <2>2, <2>3, <2>4, Zenon
<1> HIDE DEF P, One
<1>3. {One(i) : i \in P} \in SUBSET Answers
  BY <1>2, ZenonT(60)
<1>4. QED
  BY <1>1, <1>3, Zenon

(* A consolidation rotates if and only if it folds a leave. *)
LEMMA ConsolidateStepOk ==
  ASSUME IInv, NEW u \in Users, NEW approved, DoConsolidate(u, approved)
  PROVE  IInv'
<1> DEFINE s == store[u]
           lines == SeenLines(u)
           rot == LeaveFolded(u, s, Cur(u), lines, Accts, approved)
           k == IF rot THEN nk ELSE Cur(u).gk
           c == Consolidate(u, s, Cur(u), lines, queue, Accts, approved, k)
           d == ConsumedEntries(u, s, Cur(u), lines, queue, Accts, approved)
<1>1. /\ Ready(u) /\ u \in Admins(Cur(u)) /\ u \in Uids(Cur(u)) /\ Cur(u) \in Cores
      /\ s \in Stores /\ nk \in Nat /\ queue \in SUBSET Answers /\ Cur(u).gk \in Nat
  BY EditReady, ZenonT(60) DEF DoConsolidate, Ready, TypeOK
<1>2. lines \in Seq(Lines)
  <2>1. /\ logs \in Seq(Seq(Lines)) /\ Len(logs) = Len(hist) /\ hist \in Seq(Cores)
        /\ view[u] \in Views /\ view[u].v \in DOMAIN hist
    BY <1>1, Zenon DEF Ready, TypeOK
  <2>2. view[u].v # 0 /\ view[u].v \in DOMAIN logs
    BY <2>1, SMTT(60)
  <2>3. view[u].n <= Len(logs[view[u].v]) /\ view[u].n \in Nat
    BY <2>1, <2>2, Zenon DEF IInv, UserOk, ViewOk, Views
  <2> DEFINE l == logs[view[u].v]
             n == view[u].n
  <2>4. l \in Seq(Lines) /\ n \in Nat /\ n <= Len(l)
    BY <2>1, <2>2, <2>3, SMTT(60)
  <2> HIDE DEF l, n
  <2>5. SubSeq(l, 1, n) \in Seq(Lines)
    BY <2>4, SMTT(60)
  <2>6. QED
    BY <2>5, Zenon DEF SeenLines, l, n
<1>3. k \in Nat
  BY <1>1, Zenon
<1>4. Consolidated(c, Cur(u), u, k, ~rot)
  <2>1. CanConsolidate(u, s, Cur(u), lines, queue, Accts, approved)
    BY ZenonT(60) DEF DoConsolidate
  <2> HIDE DEF k
  <2>2. QED
    BY <1>1, <1>2, <1>3, <2>1, ConsolidateOk, ZenonT(60)
<1>5. d \in SUBSET Answers
  BY <1>1, ConsumedOk, ZenonT(60)
<1>6. /\ sub' = [sub EXCEPT ![u] =
                    [IF rot THEN AskRotated(u, c) ELSE Ask(u, "replace", c) EXCEPT !.drop = d]]
      /\ IF rot THEN nk' = nk + 1 /\ store' = [store EXCEPT ![u] = GroupKeyStage(store[u], nk)]
                ELSE nk' = nk /\ store' = store
      /\ EditKeeps
  BY ZenonT(60) DEF DoConsolidate, Send
<1> HIDE DEF d, c, rot, s, lines
<1>7. CASE rot
  <2>1. k = nk
    BY <1>7, Zenon
  <2>2. /\ c \in Cores /\ c.vmaj = Cur(u).vmaj + 1 /\ c.gk = nk /\ c.by[1] = u /\ u \in Uids(c)
    BY <1>4, <2>1, SMTT(60) DEF Consolidated
  <2>3. /\ sub' = [sub EXCEPT ![u] = [AskRotated(u, c) EXCEPT !.drop = d]]
        /\ store' = [store EXCEPT ![u] = GroupKeyStage(store[u], nk)] /\ nk' = nk + 1 /\ EditKeeps
    BY <1>6, <1>7, Zenon
  <2>4. QED
    BY <1>1, <1>5, <2>2, <2>3, RotatedSend, ZenonT(60)
<1>8. CASE ~rot
  <2>1. k = Cur(u).gk
    BY <1>8, Zenon
  <2>2. Carries(c, Cur(u), u)
    BY <1>4, <1>8, <2>1, SMTT(60) DEF Consolidated, Carries
  <2>3. /\ c \in Cores /\ "replace" \in Ops /\ "replace" # "line" /\ "replace" # "create"
        /\ {} \subseteq Uids(c)
    BY <2>2, Zenon DEF Carries, Ops
  <2>4. Asks([Ask(u, "replace", c) EXCEPT !.drop = d], u, "replace", c, {})
    BY <1>1, <1>5, <2>3, AskShape, ZenonT(60)
  <2>5. /\ sub' = [sub EXCEPT ![u] = [Ask(u, "replace", c) EXCEPT !.drop = d]]
        /\ store' = [store EXCEPT ![u] = store[u]] /\ nk' = nk /\ EditKeeps
    BY <1>6, <1>8, SameStore, Zenon
  <2>6. store[u] \in Stores
    BY <1>1, Zenon DEF s
  <2>7. QED
    BY <1>1, <2>2, <2>3, <2>4, <2>5, <2>6, PlainSend, ZenonT(60)
<1>9. QED
  BY <1>7, <1>8, Zenon

(* The request for an appendix line. *)
LEMMA AskLineShape ==
  ASSUME NEW l \in Lines, NEW vkr \in Pseudonyms
  PROVE  AskLine(l, vkr) \in LineRequests /\ AskLine(l, vkr).st = "sent" /\ AskLine(l, vkr).op = "line"
<1>1. AskLine(l, vkr) \in Request(Lines)
  BY Zenon DEF AskLine, Request, Steps, Ops
<1>2. /\ AskLine(l, vkr).st = "sent" /\ AskLine(l, vkr).op = "line"
      /\ ~AskLine(l, vkr).rot /\ AskLine(l, vkr).tell = {}
  BY Zenon DEF AskLine
<1>3. QED
  BY <1>1, <1>2, Zenon DEF LineRequests

(* A member that sends a line keeps its keys. *)
LEMMA LineSend ==
  ASSUME IInv, NEW u \in Users, NEW op, MayAppend(u, op),
         NEW kind \in Kinds, NEW uid \in Users, NEW val \in Nat,
         Send(u, AskLine(LineOf(u, kind, uid, val), SelfVkr(u, store[u]))),
         EditKeeps, store' = store, nk' = nk
  PROVE  IInv'
<1> DEFINE l == LineOf(u, kind, uid, val)
           vkr == SelfVkr(u, store[u])
           r == AskLine(l, vkr)
           s == store[u]
<1>1. Ready(u) /\ Cur(u) \in Cores /\ store[u] \in Stores /\ store[u].pend = NoKey
  BY OpensReady, ZenonT(60) DEF MayAppend, Does, Ready
<1>2. IndexOf(Cur(u).mem, u) \in Nat
  BY <1>1, CoreMem, IndexFound, ZenonT(60)
<1>3. Cur(u).vmaj \in Nat /\ ApxLineSign(u, Cur(u).gk) \in Pseudonyms
  BY <1>1, Zenon DEF Cores, ApxLineSign, VkPsdn, Pseudonyms
<1>4. l \in Lines
  BY <1>2, <1>3, Zenon DEF LineOf, Lines
<1>5. vkr \in Pseudonyms
  BY <1>1, Zenon DEF SelfVkr, VkPsdn, Pseudonyms, GroupKeyLoad, Stores
<1>6. sub' = [sub EXCEPT ![u] = r] /\ store' = [store EXCEPT ![u] = s]
  BY SameStore, Zenon DEF Send
<1> HIDE DEF l, vkr
<1>7. r \in LineRequests /\ r.st = "sent" /\ r.op = "line"
  BY <1>4, <1>5, AskLineShape, ZenonT(60)
<1> HIDE DEF r
<1>8. GoodKey(u, s.gk) /\ GoodKey(u, s.pend)
  BY Zenon DEF GoodKey, Holds
<1>9. MaySend(u, r, s)
  BY <1>1, <1>7, <1>8, Zenon DEF MaySend
<1>10. QED
  BY <1>6, <1>9, SendOk, ZenonT(60)

(* Whoever joins through a link keeps the key of a version whose link is open. *)
LEMMA JoinViaLinkOk ==
  ASSUME IInv, NEW w \in Users, NEW secret, JoinViaLink(w, secret)
  PROVE  IInv'
<1> DEFINE s == GroupKeyStore(store[w], Head0.link.gk)
           l == [kind |-> "join", idx |-> Len(Head0.mem) + 1,
                 vmaj |-> Head0.vmaj, by |-> ApxLineSign(w, Head0.gk), uid |-> w, val |-> ep[w]]
           vkr == SelfVkr(w, s)
           r == AskLine(l, vkr)
<1>1. /\ TypeOK /\ sub[w] = Idle /\ hist # << >> /\ store \in [Users -> Stores]
      /\ Head0.link # NoLink /\ Head0.link.gk = Head0.gk /\ ep[w] \in Nat
  BY Zenon DEF IInv, TypeOK, JoinViaLink
<1>2. Len(hist) \in DOMAIN hist /\ Head0 = hist[Len(hist)] /\ Head0 \in Cores
  BY <1>1, SMTT(60) DEF TypeOK, Head0
<1>3. store[w].pend = NoKey /\ store[w] \in Stores
  BY <1>1, IdleOk, Zenon
<1>4. Head0.gk \in Nat /\ Head0.vmaj \in Nat
  BY <1>2, Zenon DEF Cores
<1>5. Len(Head0.mem) + 1 \in Nat
  BY <1>2, CoreMem, SMTT(60)
<1>6. s \in Stores /\ s.gk = Head0.gk /\ s.pend = NoKey
  BY <1>1, <1>3, <1>4, ZenonT(60) DEF GroupKeyStore, Stores
<1>7. l \in Lines
  BY <1>1, <1>4, <1>5, Zenon DEF Lines, Kinds, ApxLineSign, VkPsdn, Pseudonyms
<1>8. store' = [store EXCEPT ![w] = s] /\ sub' = [sub EXCEPT ![w] = r] /\ nk' = nk /\ EditKeeps
  <2>1. store' = [store EXCEPT ![w] = s]
    BY Zenon DEF JoinViaLink
  <2>2. store'[w] = s
    BY <1>1, <2>1, Zenon
  <2>3. sub' = [sub EXCEPT ![w] = AskLine(l, SelfVkr(w, store'[w]))] /\ nk' = nk /\ EditKeeps
    BY Zenon DEF JoinViaLink, Send
  <2> HIDE DEF l, s
  <2>4. QED
    BY <2>1, <2>2, <2>3, Zenon
<1> HIDE DEF s, l
<1>9. vkr \in Pseudonyms
  BY <1>6, Zenon DEF SelfVkr, VkPsdn, Pseudonyms, GroupKeyLoad, Stores
<1> HIDE DEF vkr
<1>10. r \in LineRequests /\ r.st = "sent" /\ r.op = "line"
  BY <1>7, <1>9, AskLineShape, ZenonT(60)
<1> HIDE DEF r
<1>11. Head0.gk \in KeysUsed /\ Entitled(w, Head0.gk)
  BY <1>1, <1>2, Zenon DEF KeysUsed, Entitled
<1>12. GoodKey(w, s.gk) /\ GoodKey(w, s.pend)
  BY <1>6, <1>11, Zenon DEF GoodKey
<1>13. MaySend(w, r, s)
  BY <1>6, <1>10, <1>12, Zenon DEF MaySend
<1>14. QED
  BY <1>8, <1>13, SendOk, ZenonT(60)

(* Every kind of line a client writes. *)
LEMMA LineStepOk ==
  ASSUME IInv, NEW u \in Users, Line(u)
  PROVE  IInv'
<1>1. ep[u] \in Nat /\ store[u].acq \in [Users -> Nat] /\ Kinds # {} /\ 0 \in Nat /\ 1 \in Nat
  BY Zenon DEF IInv, TypeOK, Stores, Kinds
<1>2. {"leave", "refresh", "modattr", "adduser"} \subseteq Kinds
  BY Zenon DEF Kinds
<1>3. CASE AppendixLeave(u)
  BY <1>1, <1>2, <1>3, LineSend, ZenonT(60) DEF AppendixLeave
<1>4. CASE AppendixRefresh(u)
  BY <1>1, <1>2, <1>4, LineSend, ZenonT(60) DEF AppendixRefresh
<1>5. CASE AppendixModAttr(u, 1)
  BY <1>1, <1>2, <1>5, LineSend, ZenonT(60) DEF AppendixModAttr
<1>6. ASSUME NEW w \in Users, AppendixAddUser(u, w) PROVE IInv'
  <2>1. store[u].acq[w] \in Nat
    BY <1>1, Zenon
  <2>2. QED
    BY <1>2, <1>6, <2>1, LineSend, ZenonT(60) DEF AppendixAddUser
<1>7. ASSUME NEW k \in links, JoinViaLink(u, k) PROVE IInv'
  BY <1>7, JoinViaLinkOk, ZenonT(60)
<1>8. QED
  BY <1>3, <1>4, <1>5, <1>6, <1>7, Zenon DEF Line

-----------------------------------------------------------------------------
(* The invariant holds.                                                    *)

(* The edits of a client. *)
LEMMA EditOk ==
  ASSUME IInv, NEW u \in Users, Edit(u)
  PROVE  IInv'
<1>1. CASE Create(u)
  BY <1>1, CreateOk, Zenon
<1>2. CASE DoToggleJoinLink(u)
  BY <1>2, ToggleJoinLinkStepOk, Zenon
<1>3. CASE DoRotateGroupKey(u)
  BY <1>3, RotationsOk, Zenon
<1>4. ASSUME NEW w \in Users, DoAddMember(u, w) PROVE IInv'
  BY <1>4, AddMemberOk, Zenon
<1>5. ASSUME NEW w \in Users, DoRemoveMember(u, w) \/ DoRevokeInvitation(u, w) PROVE IInv'
  BY <1>5, RotationsOk, Zenon
<1>6. ASSUME NEW w \in Users, DoInvite(u, w) PROVE IInv'
  BY <1>6, InviteStepOk, Zenon
<1>7. ASSUME NEW w \in Users, NEW b \in BOOLEAN, DoSetAdmin(u, w, b) PROVE IInv'
  BY <1>7, SetAdminStepOk, Zenon
<1>8. ASSUME NEW q \in queue, DoCompleteInvitation(u, q) PROVE IInv'
  BY <1>8, CompleteStepOk, Zenon
<1>9. ASSUME NEW f \in sc.flags, DoChangeSettings(u, f, 0) PROVE IInv'
  BY <1>9, ChangeSettingsStepOk, Zenon
<1>10. ASSUME NEW approved, DoConsolidate(u, approved) PROVE IInv'
  BY <1>10, ConsolidateStepOk, Zenon
<1>11. QED
  BY <1>1, <1>2, <1>3, <1>4, <1>5, <1>6, <1>7, <1>8, <1>9, <1>10, ZenonT(60) DEF Edit

(* What a client does with an answer, or without one. *)
LEMMA AnswerOk ==
  ASSUME IInv, NEW u \in Users, Answer(u)
  PROVE  IInv'
<1>1. CASE HearAccepted(u)
  BY <1>1, HearAcceptedOk, Zenon
<1>2. CASE HearRefused(u)
  BY <1>2, HearRefusedOk, Zenon
<1>3. CASE CommitHalf(u)
  BY <1>3, CommitHalfOk, Zenon
<1>4. CASE Lose(u)
  BY <1>4, LoseOk, Zenon
<1>5. CASE Crash(u)
  BY <1>5, CrashOk, Zenon
<1>6. CASE Probe(u)
  BY <1>6, ProbeOk, Zenon
<1>7. QED
  BY <1>1, <1>2, <1>3, <1>4, <1>5, <1>6, Zenon DEF Answer

(* Every step keeps the invariant. *)
LEMMA NextOk ==
  ASSUME IInv, Next
  PROVE  IInv'
<1>1. ASSUME NEW u \in Users, Edit(u) PROVE IInv'
  BY <1>1, EditOk, Zenon
<1>2. ASSUME NEW u \in Users, Line(u) PROVE IInv'
  BY <1>2, LineStepOk, Zenon
<1>3. ASSUME NEW u \in Users, Serve(u) PROVE IInv'
  BY <1>3, ServeOk, Zenon
<1>4. ASSUME NEW u \in Users, Answer(u) PROVE IInv'
  BY <1>4, AnswerOk, Zenon
<1>5. ASSUME NEW u \in Users, Register(u) PROVE IInv'
  BY <1>5, RegisterOk, Zenon
<1>6. ASSUME NEW u \in Users, Install(u) PROVE IInv'
  BY <1>6, InstallOk, Zenon
<1>7. ASSUME NEW u \in Users, Forget(u) PROVE IInv'
  BY <1>7, ForgetOk, Zenon
<1>8. ASSUME NEW u \in Users, NEW w \in Users, AcceptAcquaintance(u, w) PROVE IInv'
  BY <1>8, AcceptAcquaintanceOk, Zenon
<1>9. ASSUME NEW u \in Users, NEW w \in Users, Tell(u, w) PROVE IInv'
  BY <1>9, TellOk, Zenon
<1>10. ASSUME NEW i \in inv, AcceptInvitation(i) PROVE IInv'
  BY <1>10, AcceptInvitationOk, Zenon
<1>11. ASSUME NEW u \in Users, NEW v \in DOMAIN hist, NEW n \in 0 .. Len(logs[v]), Fetch(u, v, n)
       PROVE  IInv'
  BY <1>11, FetchStepOk, Zenon
<1>12. QED
  BY <1>1, <1>2, <1>3, <1>4, <1>5, <1>6, <1>7, <1>8, <1>9, <1>10, <1>11, ZenonT(60) DEF Next

(* A step that changes nothing keeps it. *)
LEMMA StutterOk ==
  ASSUME IInv, UNCHANGED vars
  PROVE  IInv'
<1>1. /\ sc' = sc /\ hist' = hist /\ logs' = logs /\ queue' = queue /\ ep' = ep /\ store' = store
      /\ view' = view /\ sub' = sub /\ mail' = mail /\ inv' = inv /\ links' = links /\ nk' = nk
  BY Zenon DEF vars
<1>2. TypeOK'
  BY <1>1, Zenon DEF IInv, TypeOK
<1>3. Linear'
  <2>1. \A i : Uids(hist[i])' = Uids(hist[i]) /\ Admins(hist[i])' = Admins(hist[i])
    BY <1>1, ZenonT(60) DEF Uids, Admins
  <2>2. QED
    BY <1>1, <2>1, ZenonT(60) DEF IInv, Linear, Follows
<1>4. CASE Users = {}
  BY <1>2, <1>3, <1>4, ZenonT(60) DEF IInv
<1>5. ASSUME NEW u \in Users PROVE IInv'
  BY <1>1, <1>2, AsideOk, ZenonT(60)
<1>6. QED
  BY <1>4, <1>5, Zenon

(* A version of the group that already exists. *)
StandsAs(c, v, n, admins) ==
    /\ c \in Cores /\ c.vmaj = v /\ c.gk = 1 /\ c.by[1] = Standing[1] /\ c.link = NoLink
    /\ Uids(c) = {Standing[i] : i \in 1 .. n}
    /\ Admins(c) = {Standing[i] : i \in (1 .. n) \cap admins}

(* What such a version lists, and who signed it. *)
LEMMA StandingCoreOk ==
  ASSUME sc.start \in Settings, NEW v \in Nat, NEW n \in 1 .. Len(Standing),
         NEW admins
  PROVE  StandsAs(StandingCore(v, n, admins), v, n, admins)
<1> DEFINE mem == [i \in 1 .. n |-> MemberBuild(Standing[i], 1, i \in admins)]
           g == Genesis(Standing[1], 1, 1, sc.start)
           c == StandingCore(v, n, admins)
           g1 == [g EXCEPT !.vmaj = v]
           g2 == [g1 EXCEPT !.mem = mem]
<1>1. /\ Len(Standing) \in Nat /\ n \in Nat /\ 1 \in 1 .. n
      /\ \A i \in 1 .. n : i \in DOMAIN Standing /\ Standing[i] \in Users
  BY StandingAssumption, SMTT(60)
<1>2. \A i \in 1 .. n : /\ MemberBuild(Standing[i], 1, i \in admins) \in Members
                        /\ MemberBuild(Standing[i], 1, i \in admins).uid = Standing[i]
                        /\ MemberBuild(Standing[i], 1, i \in admins).admn <=> i \in admins
  <2>1. \A w \in Users : \A b \in BOOLEAN : /\ MemberBuild(w, 1, b) \in Members
                                            /\ MemberBuild(w, 1, b).uid = w
                                            /\ MemberBuild(w, 1, b).admn = b
    BY Zenon DEF MemberBuild, Members
  <2>2. ASSUME NEW i PROVE (i \in admins) \in BOOLEAN
    OBVIOUS
  <2>3. QED
    BY <1>1, <2>1, <2>2, ZenonT(60)
<1>3. /\ mem \in MemberLists /\ DOMAIN mem = 1 .. n
      /\ \A i \in 1 .. n : mem[i].uid = Standing[i] /\ (mem[i].admn <=> i \in admins)
  <2>1. \A S : \A f \in [1 .. n -> S] : f \in Seq(S)
    BY <1>1, SMTT(60)
  <2>2. mem \in [1 .. n -> Members]
    BY <1>2, ZenonT(60)
  <2>3. mem \in MemberLists
    BY <2>1, <2>2, ZenonT(60) DEF MemberLists
  <2>4. QED
    BY <1>2, <2>3, ZenonT(60)
<1> HIDE DEF mem
<1>4. VkLst(mem, 1) \in HashLists
  <2>1. \A i \in 1 .. n : AttributeHash(mem[i].uid, 1) \in Hashes
    BY <1>1, <1>3, Zenon DEF AttributeHash, VkpsdnHash, VkPsdn, Hashes
  <2>2. VkLst(mem, 1) \in [1 .. n -> Hashes]
    BY <1>3, <2>1, ZenonT(60) DEF VkLst
  <2>3. QED
    BY <1>1, <2>2, SMTT(60) DEF HashLists
<1>5. g \in Cores /\ g.gk = 1 /\ g.by = <<Standing[1], 1>> /\ g.link = NoLink
  <2>1. IsGenesis(g, Standing[1], 1)
    BY <1>1, GenesisOk, 1 \in Nat, ZenonT(60)
  <2>2. g.link = NoLink
    BY Zenon DEF Genesis
  <2>3. QED
    BY <2>1, <2>2, Zenon DEF IsGenesis
<1>6. c = [g2 EXCEPT !.vk = VkLst(mem, 1)]
  <2>1. c = [g EXCEPT !.vmaj = v, !.mem = mem, !.vk = VkLst(mem, 1)]
    BY Zenon DEF StandingCore, mem
  <2> HIDE DEF g, c
  <2>2. QED
    BY <1>5, <2>1, Zenon DEF Cores
<1> HIDE DEF g, c
<1>7. g1 \in Cores /\ g1.gk = 1 /\ g1.by = <<Standing[1], 1>> /\ g1.link = NoLink /\ g1.vmaj = v
  BY <1>5, CoreWith, ZenonT(60) DEF Cores
<1> HIDE DEF g1
<1>8. /\ g2 \in Cores /\ g2.gk = 1 /\ g2.by = <<Standing[1], 1>> /\ g2.link = NoLink /\ g2.vmaj = v
      /\ g2.mem = mem
  BY <1>3, <1>7, CoreWith, ZenonT(60) DEF Cores
<1> HIDE DEF g2
<1>9. /\ c \in Cores /\ c.gk = 1 /\ c.by = <<Standing[1], 1>> /\ c.link = NoLink /\ c.vmaj = v
      /\ c.mem = mem
  BY <1>4, <1>6, <1>8, CoreWith, SMTT(60) DEF Cores
<1>10. Uids(c) = {Standing[i] : i \in 1 .. n}
  BY <1>3, <1>9, SMTT(60) DEF Uids
<1>11. Admins(c) = {Standing[i] : i \in (1 .. n) \cap admins}
  <2>1. {k \in DOMAIN mem : mem[k].admn} = (1 .. n) \cap admins
    BY <1>3, ZenonT(60)
  <2>2. Admins(c) = {mem[i].uid : i \in (1 .. n) \cap admins}
    BY <1>9, <2>1, ZenonT(60) DEF Admins
  <2>3. \A i \in (1 .. n) \cap admins : mem[i].uid = Standing[i]
    BY <1>3, Zenon
  <2>4. QED
    BY <2>2, <2>3, ZenonT(60)
<1>12. c.by[1] = Standing[1]
  BY <1>9
<1>13. QED
  BY <1>9, <1>10, <1>11, <1>12, Zenon DEF StandsAs, c

(* The versions of the group that already exists: each was made by the     *)
(* founder, under one key, and drops nobody.                               *)
StandsSo(h) ==
    /\ h \in Seq(Cores) /\ Len(h) = Len(Standing) + 1 /\ DOMAIN h = 1 .. Len(Standing) + 1
    /\ \A i \in DOMAIN h : /\ h[i].vmaj = i /\ h[i].gk = 1 /\ h[i].by[1] = Standing[1]
                           /\ Standing[1] \in Admins(h[i])
    /\ Uids(h[1]) = {Standing[1]} /\ Admins(h[1]) = {Standing[1]}
    /\ \A i \in DOMAIN h : i > 1 => Uids(h[i - 1]) \subseteq Uids(h[i])
    /\ Uids(h[Len(h)]) = Range(Standing)

(* They are a line of versions. *)
LEMMA StandingCoresOk ==
  ASSUME sc.start \in Settings
  PROVE  StandsSo(StandingCores)
<1> DEFINE N == Len(Standing)
           h == StandingCores
           who(n) == {Standing[i] : i \in 1 .. n}
<1>1. N \in Nat /\ N >= 1 /\ DOMAIN Standing = 1 .. N
  BY StandingAssumption
<1> HIDE DEF N
<1>2. h = [v \in 1 .. N + 1 |-> IF v <= N THEN StandingCore(v, v, {1})
                                         ELSE StandingCore(v, N, {1, N})]
  BY Zenon DEF StandingCores, N
<1> HIDE DEF h
<1>3. ASSUME NEW v \in 1 .. N PROVE h[v] = StandingCore(v, v, {1}) /\ StandsAs(h[v], v, v, {1})
  <2>1. v \in 1 .. N + 1 /\ v <= N /\ v \in Nat /\ v \in 1 .. Len(Standing)
    BY <1>1, SMTT(60) DEF N
  <2>2. h[v] = StandingCore(v, v, {1})
    BY <1>2, <2>1, Zenon
  <2>3. QED
    BY <2>1, <2>2, StandingCoreOk, ZenonT(60)
<1>4. StandsAs(h[N + 1], N + 1, N, {1, N})
  <2>1. N + 1 \in 1 .. N + 1 /\ ~(N + 1 <= N) /\ N + 1 \in Nat /\ N \in 1 .. Len(Standing)
    BY <1>1, SMTT(60) DEF N
  <2>2. h[N + 1] = StandingCore(N + 1, N, {1, N})
    BY <1>2, <2>1, Zenon
  <2>3. QED
    BY <2>1, <2>2, StandingCoreOk, ZenonT(60)
<1>5. DOMAIN h = 1 .. N + 1
  BY <1>2, ZenonT(60)
<1>6. ASSUME NEW i \in 1 .. N + 1
      PROVE  /\ h[i] \in Cores /\ h[i].vmaj = i /\ h[i].gk = 1 /\ h[i].by[1] = Standing[1]
             /\ Standing[1] \in Admins(h[i]) /\ Uids(h[i]) = who(IF i <= N THEN i ELSE N)
  <2>1. CASE i <= N
    <3>1. i \in 1 .. N /\ 1 \in (1 .. i) \cap {1}
      BY <1>1, <2>1, SMTT(60)
    <3>2. StandsAs(h[i], i, i, {1})
      BY <1>3, <3>1, ZenonT(60)
    <3>3. QED
      BY <2>1, <3>1, <3>2, Zenon DEF StandsAs
  <2>2. CASE ~(i <= N)
    <3>1. i = N + 1 /\ 1 \in (1 .. N) \cap {1, N}
      BY <1>1, <2>2, SMTT(60)
    <3>2. QED
      BY <1>4, <2>2, <3>1, Zenon DEF StandsAs
  <2>3. QED
    BY <2>1, <2>2, Zenon
<1>7. h \in Seq(Cores) /\ Len(h) = N + 1
  <2>1. h \in [1 .. N + 1 -> Cores]
    BY <1>2, <1>5, <1>6, ZenonT(60)
  <2>2. QED
    BY <1>1, <2>1, SMTT(60)
<1>8. Uids(h[1]) = {Standing[1]} /\ Admins(h[1]) = {Standing[1]}
  <2>1. 1 \in 1 .. N /\ 1 .. 1 = {1} /\ (1 .. 1) \cap {1} = {1}
    BY <1>1, SMTT(60)
  <2>2. StandsAs(h[1], 1, 1, {1})
    BY <1>3, <2>1, ZenonT(60)
  <2>3. QED
    BY <2>1, <2>2, ZenonT(60) DEF StandsAs
<1>9. ASSUME NEW i \in 1 .. N + 1, i > 1 PROVE Uids(h[i - 1]) \subseteq Uids(h[i])
  <2>1. i - 1 \in 1 .. N + 1 /\ i - 1 <= N
    BY <1>1, <1>9, SMTT(60)
  <2>2. Uids(h[i - 1]) = who(i - 1) /\ Uids(h[i]) = who(IF i <= N THEN i ELSE N)
    BY <1>6, <2>1, ZenonT(60)
  <2>3. 1 .. (i - 1) \subseteq 1 .. (IF i <= N THEN i ELSE N)
    BY <1>1, <1>9, SMTT(60)
  <2>4. QED
    BY <2>2, <2>3, Zenon
<1>10. Uids(h[N + 1]) = Range(Standing)
  <2>1. Uids(h[N + 1]) = who(N)
    BY <1>4, Zenon DEF StandsAs
  <2>2. who(N) = Range(Standing)
    BY <1>1, ZenonT(60) DEF Range
  <2>3. QED
    BY <2>1, <2>2, Zenon
<1>11. QED
  BY <1>5, <1>6, <1>7, <1>8, <1>9, <1>10, Zenon DEF StandsSo, N, h

(* It holds at first. *)
LEMMA InitOk ==
  ASSUME Init
  PROVE  IInv
<1> DEFINE in == IF sc.standing THEN Range(Standing) ELSE {}
<1>1. sc \in ScenarioRecord
  BY ScenarioAssumption, Zenon DEF Init
<1>2. sc.start \in Settings
  BY <1>1, Zenon DEF ScenarioRecord, Settings
<1>3. /\ hist = IF sc.standing THEN StandingCores ELSE << >>
      /\ logs = [i \in DOMAIN hist |-> << >>]
      /\ queue = {} /\ links = {} /\ inv = {} /\ nk = 2
      /\ ep = [u \in Users |-> 1]
      /\ store = [u \in Users |-> StoreOf(Acquainted(u, sc.acquainted),
                                          IF u \in in THEN 1 ELSE NoKey)]
      /\ view = [u \in Users |-> IF u \in in THEN [v |-> Len(hist), n |-> 0] ELSE NoView]
      /\ sub = [u \in Users |-> Idle]
      /\ mail = [u \in Users |-> << >>]
  BY ZenonT(60) DEF Init
<1>4. \/ StandsSo(hist) /\ in = Range(Standing)
      \/ hist = << >> /\ in = {}
  BY <1>2, <1>3, StandingCoresOk, Zenon
<1> HIDE DEF in
<1>5. hist \in Seq(Cores) /\ Len(hist) \in Nat /\ DOMAIN hist = 1 .. Len(hist)
  <2>1. CASE StandsSo(hist)
    BY <2>1, SMTT(60) DEF StandsSo
  <2>2. CASE hist = << >>
    BY <2>2, SMTT(60)
  <2>3. QED
    BY <1>4, <2>1, <2>2, Zenon
<1>6. Linear
  <2>1. CASE StandsSo(hist)
    <3>1. \A i \in DOMAIN hist : /\ hist[i].vmaj = i /\ hist[i].gk = 1 /\ 1 \in 1 .. nk - 1
                                 /\ i - 1 = 0 \/ i - 1 \in DOMAIN hist
      BY <1>3, <1>5, <2>1, SMTT(60) DEF StandsSo
    <3>2. ASSUME NEW i \in DOMAIN hist, i > 1 PROVE Follows(i)
      <4>1. i - 1 \in DOMAIN hist
        BY <1>5, <3>2, SMTT(60)
      <4>2. /\ hist[i].gk = hist[i - 1].gk /\ hist[i].by[1] = Standing[1]
            /\ Standing[1] \in Admins(hist[i - 1]) /\ Uids(hist[i - 1]) \subseteq Uids(hist[i])
        BY <2>1, <3>2, <4>1, ZenonT(60) DEF StandsSo
      <4>3. QED
        BY <4>2, ZenonT(60) DEF Follows
    <3>3. 1 \in DOMAIN hist /\ Uids(hist[1]) = {Standing[1]} /\ Admins(hist[1]) = {Standing[1]}
      BY <2>1, StandingAssumption, SMTT(60) DEF StandsSo
    <3>4. hist[1].by[1] = Standing[1]
      BY <2>1, <3>3, ZenonT(60) DEF StandsSo
    <3>5. QED
      BY <3>1, <3>2, <3>3, <3>4, ZenonT(60) DEF Linear
  <2>2. CASE hist = << >>
    BY <2>2, SMTT(60) DEF Linear
  <2>3. QED
    BY <1>4, <2>1, <2>2, Zenon
<1>7. logs \in Seq(Seq(Lines)) /\ Len(logs) = Len(hist) /\ \A i \in DOMAIN hist : logs[i] = << >>
  <2>1. << >> \in Seq(Lines)
    OBVIOUS
  <2>2. logs \in [1 .. Len(hist) -> Seq(Lines)] /\ \A i \in DOMAIN hist : logs[i] = << >>
    BY <1>3, <1>5, <2>1, ZenonT(60)
  <2>3. QED
    BY <1>5, <2>2, SMTT(60)
<1>8. ASSUME NEW u \in Users
      PROVE  /\ store[u] \in Stores /\ store[u].gk = (IF u \in in THEN 1 ELSE NoKey)
             /\ store[u].pend = NoKey
             /\ view[u] \in Views /\ view[u].n = 0 /\ view[u].v \in {0, Len(hist)}
             /\ sub[u] = Idle /\ mail[u] = << >>
  <2> DEFINE a == Acquainted(u, sc.acquainted)
             k == IF u \in in THEN 1 ELSE NoKey
  <2>1. a \in [Users -> Nat]
    BY Zenon DEF Acquainted
  <2>2. k \in Nat
    BY Zenon DEF NoKey
  <2>3. store[u] = StoreOf(a, k)
    BY <1>3, ZenonT(60)
  <2> HIDE DEF a
  <2>4. store[u] \in Stores /\ store[u].gk = k /\ store[u].pend = NoKey
    BY <2>1, <2>2, <2>3, SMTT(60) DEF StoreOf, Stores, NoKey
  <2>5. view[u] = [v |-> Len(hist), n |-> 0] \/ view[u] = NoView
    BY <1>3, Zenon
  <2>6. view[u] \in Views /\ view[u].n = 0 /\ view[u].v \in {0, Len(hist)}
    BY <1>5, <2>5, SMTT(60) DEF NoView, Views
  <2>7. sub[u] = Idle /\ mail[u] = << >>
    BY <1>3, Zenon
  <2>8. QED
    BY <2>4, <2>6, <2>7, Zenon
<1>9. TypeOK
  <2>1. ep \in [Users -> Nat]
    BY <1>3, Zenon
  <2>2. store \in [Users -> Stores]
    BY <1>3, <1>8, ZenonT(60)
  <2>3. view \in [Users -> Views]
    BY <1>3, <1>8, ZenonT(60)
  <2>4. sub \in [Users -> Subs]
    BY <1>3, Zenon DEF Subs
  <2>5. mail \in [Users -> Seq(Nat)]
    BY <1>3, SMTT(60)
  <2>6. QED
    BY <1>1, <1>3, <1>5, <1>7, <2>1, <2>2, <2>3, <2>4, <2>5, SMTT(60) DEF TypeOK
<1>10. ASSUME NEW u \in Users PROVE UserOk(u)
  <2>1. ViewOk(u)
    <3>1. view[u].v # 0 => view[u].v \in DOMAIN hist
      BY <1>5, <1>8, SMTT(60)
    <3>2. view[u].v # 0 => Len(logs[view[u].v]) = 0
      BY <1>7, <3>1, SMTT(60)
    <3>3. QED
      BY <1>5, <1>8, <3>2, SMTT(60) DEF ViewOk
  <2>2. HoldsOk(u)
    <3>1. \A k : Holds(u, k) => k = NoKey \/ (k = 1 /\ u \in in)
      <4>1. Range(mail[u]) = {}
        BY <1>8, SMTT(60) DEF Range
      <4>2. /\ store[u].gk = NoKey \/ (store[u].gk = 1 /\ u \in in)
            /\ store[u].pend = NoKey
        BY <1>8, Zenon
      <4>3. QED
        BY <4>1, <4>2, ZenonT(60) DEF Holds
    <3>2. \A k \in Nat : Holds(u, k) => k < nk
      BY <1>3, <3>1, SMTT(60) DEF NoKey
    <3>3. ASSUME NEW k \in KeysUsed, Holds(u, k) PROVE Entitled(u, k)
      <4>1. StandsSo(hist) /\ in = Range(Standing)
        BY <1>4, <3>3, SMTT(60) DEF KeysUsed
      <4>2. k = 1
        <5>1. \A i \in DOMAIN hist : hist[i].gk = 1
          BY <4>1, ZenonT(60) DEF StandsSo
        <5>2. QED
          BY <3>3, <5>1, ZenonT(60) DEF KeysUsed
      <4>3. u \in in
        BY <3>1, <3>3, <4>2, 1 # 0, Zenon DEF NoKey
      <4>4. Len(hist) \in DOMAIN hist /\ hist[Len(hist)].gk = 1 /\ u \in Uids(hist[Len(hist)])
        <5>1. Len(hist) = Len(Standing) + 1 /\ u \in Uids(hist[Len(hist)])
          BY <4>1, <4>3, ZenonT(60) DEF StandsSo
        <5>2. Len(hist) \in DOMAIN hist
          BY <1>5, <5>1, StandingAssumption, SMTT(60)
        <5>3. QED
          BY <4>1, <5>1, <5>2, ZenonT(60) DEF StandsSo
      <4>5. QED
        BY <4>2, <4>4, ZenonT(60) DEF Entitled
    <3>4. Range(mail[u]) \subseteq KeysUsed
      BY <1>8, SMTT(60) DEF Range
    <3>5. QED
      BY <3>2, <3>3, <3>4, Zenon DEF HoldsOk
  <2>3. StagedOk(u) /\ ~Asked(u) /\ sub[u].st # "tell"
    BY <1>8, SMTT(60) DEF StagedOk, Asked, Steps, Idle
  <2>4. QED
    BY <2>1, <2>2, <2>3, Zenon DEF UserOk
<1>11. QED
  BY <1>6, <1>9, <1>10, Zenon DEF IInv

(* The invariant is one: of every reachable state, for every use of the    *)
(* library, AskedOk says what a request that is under way may be and       *)
(* HoldsOk who has which key.                                              *)
THEOREM GroupHistoryInvariant == Spec => []IInv
<1>1. Init => IInv
  BY InitOk, Zenon
<1>2. IInv /\ [Next]_vars => IInv'
  BY NextOk, StutterOk, Zenon
<1>3. QED
  BY <1>1, <1>2, PTL DEF Spec

-----------------------------------------------------------------------------
(* What follows.                                                           *)

(* Nobody outside a version holds its key, unless a later version under    *)
(* the same key lists them or has its link open: an edit that drops        *)
(* somebody draws a key no version before it used (rebuild_and_emit,       *)
(* group_consolidate), and the key is sent to the members of the new       *)
(* version only.                                                           *)
THEOREM RemovedCannotReadHolds == Spec => []RemovedCannotRead
<1>1. ASSUME IInv PROVE RemovedCannotRead
  <2>1. SUFFICES ASSUME NEW i \in 2 .. Len(hist), NEW u \in Uids(hist[i - 1]) \ Uids(hist[i]),
                        Holds(u, hist[i].gk)
                 PROVE  \E j \in i .. Len(hist) :
                            /\ hist[j].gk = hist[i].gk
                            /\ u \in Uids(hist[j]) \/ hist[j].link # NoLink
    BY ZenonT(60) DEF RemovedCannotRead
  <2>2. hist \in Seq(Cores) /\ Len(hist) \in Nat /\ DOMAIN hist = 1 .. Len(hist)
    BY <1>1, SMTT(60) DEF IInv, TypeOK
  <2>3. i \in DOMAIN hist /\ i > 1 /\ i - 1 \in DOMAIN hist /\ i \in Nat
    BY <2>1, <2>2, SMTT(60)
  <2>4. u \in Users
    <3>1. hist[i - 1] \in Cores
      BY <2>2, <2>3, SMTT(60)
    <3>2. QED
      BY <3>1, CoreMem, ZenonT(60) DEF Uids
  <2>5. Follows(i)
    BY <1>1, <2>3, ZenonT(60) DEF IInv, Linear
  <2>6. \A j \in 1 .. i - 1 : hist[j].gk # hist[i].gk
    BY <2>1, <2>5, ZenonT(60) DEF Follows
  <2>7. hist[i].gk \in KeysUsed
    BY <2>3, Zenon DEF KeysUsed
  <2>8. Entitled(u, hist[i].gk)
    BY <1>1, <2>1, <2>4, <2>7, ZenonT(60) DEF IInv, UserOk, HoldsOk
  <2>9. PICK j \in DOMAIN hist : /\ hist[j].gk = hist[i].gk
                                 /\ u \in Uids(hist[j]) \/ hist[j].link # NoLink
    BY <2>8, ZenonT(60) DEF Entitled
  <2>10. j \in i .. Len(hist)
    <3>1. j \notin 1 .. i - 1
      BY <2>6, <2>9, ZenonT(60)
    <3>2. QED
      BY <2>2, <2>3, <3>1, SMTT(60)
  <2>11. QED
    BY <2>9, <2>10, ZenonT(60)
<1>2. IInv => RemovedCannotRead
  BY <1>1, Zenon
<1>3. QED
  BY <1>2, GroupHistoryInvariant, PTL

(* The refinement mapping of Qspgs, version by version. *)
Ver(c) == [mem |-> Uids(c), adm |-> Admins(c), key |-> c.gk, by |-> c.by[1]]
VersOf(h) == [i \in DOMAIN h |-> Ver(h[i])]

(* Version n + 1 of h follows the versions before it. *)
FollowsIn(h, n) ==
    /\ n = 0 => /\ Uids(h[n + 1]) = {h[n + 1].by[1]}
                /\ Admins(h[n + 1]) = {h[n + 1].by[1]}
    /\ n > 0 => /\ \/ Uids(h[n]) \subseteq Uids(h[n + 1])
                   \/ \A j \in 1 .. n : h[j].gk # h[n + 1].gk
                /\ \/ h[n + 1].gk = h[n].gk
                   \/ \A j \in 1 .. n : h[j].gk # h[n + 1].gk
                /\ h[n + 1].by[1] \in Admins(h[n])

(* It is then one that QspgsHistory allows. *)
LEMMA ContinuesOk ==
  ASSUME NEW h, NEW n \in Nat, FollowsIn(h, n), NEW line, line = [j \in 1 .. n |-> Ver(h[j])]
  PROVE  History!Continues(line, Ver(h[n + 1]))
<1> DEFINE v == Ver(h[n + 1])
           S == {Ver(h[j]) : j \in 1 .. n}
<1>1. line \in [1 .. n -> S] /\ DOMAIN line = 1 .. n /\ \A j \in 1 .. n : line[j] = Ver(h[j])
  BY ZenonT(60)
<1> HIDE DEF S
<1>2. line \in Seq(S) /\ Len(line) = n /\ (line = << >> <=> n = 0)
  BY <1>1, SMTT(60)
<1>3. v.mem = Uids(h[n + 1]) /\ v.adm = Admins(h[n + 1]) /\ v.key = h[n + 1].gk /\ v.by = h[n + 1].by[1]
  BY Zenon DEF Ver
<1>4. \A j \in 1 .. n : /\ line[j].mem = Uids(h[j]) /\ line[j].adm = Admins(h[j])
                        /\ line[j].key = h[j].gk
  BY <1>1, Zenon DEF Ver
<1> HIDE DEF v
<1>5. CASE n = 0
  BY <1>2, <1>3, <1>5, Zenon DEF FollowsIn, History!Continues, v
<1>6. CASE n # 0
  <2>1. n > 0 /\ n \in 1 .. n /\ line # << >>
    BY <1>2, <1>6, SMTT(60)
  <2>2. History!KeysOf(line) = {h[j].gk : j \in 1 .. n}
    <3>1. History!KeysOf(line) = {line[j].key : j \in 1 .. n}
      BY <1>1, ZenonT(60) DEF History!KeysOf
    <3>2. QED
      BY <1>4, <3>1, SMTT(60)
  <2>3. (\A j \in 1 .. n : h[j].gk # h[n + 1].gk) => v.key \notin History!KeysOf(line)
    BY <1>3, <2>2, Zenon
  <2>4. line[Len(line)].mem = Uids(h[n]) /\ line[Len(line)].adm = Admins(h[n]) /\ line[Len(line)].key = h[n].gk
    BY <1>2, <1>4, <2>1, Zenon
  <2>5. /\ v.by \in line[Len(line)].adm
        /\ line[Len(line)].mem \subseteq v.mem \/ v.key \notin History!KeysOf(line)
        /\ v.key = line[Len(line)].key \/ v.key \notin History!KeysOf(line)
    BY <1>3, <2>1, <2>3, <2>4, ZenonT(60) DEF FollowsIn
  <2>6. QED
    BY <2>1, <2>5, ZenonT(60) DEF History!Continues, v
<1>7. QED
  BY <1>5, <1>6, Zenon

(* The server's versions do, each. *)
EachFollows == \A n \in Nat : n + 1 \in DOMAIN hist => FollowsIn(hist, n)

(* It follows from the invariant. *)
LEMMA HistoryFollows == IInv => EachFollows
<1> SUFFICES ASSUME IInv, NEW n \in Nat, n + 1 \in DOMAIN hist PROVE FollowsIn(hist, n)
  BY Zenon DEF EachFollows
<1>1. (n + 1) - 1 = n /\ (n = 0 => n + 1 = 1) /\ (n > 0 => n + 1 > 1)
  OBVIOUS
<1>2. n = 0 => /\ Uids(hist[n + 1]) = {hist[n + 1].by[1]}
               /\ Admins(hist[n + 1]) = {hist[n + 1].by[1]}
  BY <1>1, ZenonT(60) DEF IInv, Linear
<1>3. n > 0 => Follows(n + 1)
  BY <1>1, ZenonT(60) DEF IInv, Linear
<1>4. QED
  BY <1>1, <1>2, <1>3, Zenon DEF Follows, FollowsIn

(* The server only ever appends to the line of versions. *)
LEMMA HistoryGrows ==
  ASSUME IInv, [Next]_vars
  PROVE  hist' = hist \/ \E c : hist' = Append(hist, c)
<1>1. CASE UNCHANGED vars
  BY <1>1, Zenon DEF vars
<1>2. ASSUME NEW u \in Users, Edit(u) PROVE hist' = hist
  BY <1>2, ZenonT(60) DEF Edit, Create, DoRotateGroupKey, DoToggleJoinLink, DoAddMember, DoRemoveMember,
              DoInvite, DoRevokeInvitation, DoSetAdmin, DoCompleteInvitation, DoChangeSettings,
              DoConsolidate, Rotating, EditKeeps
<1>3. ASSUME NEW u \in Users, Line(u) PROVE hist' = hist
  BY <1>3, ZenonT(60) DEF Line, AppendixLeave, AppendixRefresh, AppendixModAttr, AppendixAddUser,
              JoinViaLink, EditKeeps
<1>4. ASSUME NEW u \in Users, Serve(u) PROVE hist' = hist \/ hist' = Append(hist, sub[u].core)
  BY <1>4, ZenonT(60) DEF Serve, ServeCore, ServeLine
<1>5. ASSUME NEW u \in Users, Answer(u) PROVE hist' = hist
  BY <1>5, Zenon DEF Answer, HearAccepted, HearRefused, CommitHalf, Lose, Crash, Probe
<1>6. ASSUME NEW u \in Users, Register(u) \/ Install(u) \/ Forget(u) PROVE hist' = hist
  BY <1>6, Zenon DEF Register, Install, Forget
<1>7. ASSUME NEW u \in Users, NEW w \in Users, AcceptAcquaintance(u, w) \/ Tell(u, w)
      PROVE  hist' = hist
  BY <1>7, Zenon DEF AcceptAcquaintance, Tell
<1>8. ASSUME NEW i \in inv, AcceptInvitation(i) PROVE hist' = hist
  BY <1>8, Zenon DEF AcceptInvitation
<1>9. ASSUME NEW u \in Users, NEW v \in DOMAIN hist, NEW n \in 0 .. Len(logs[v]), Fetch(u, v, n)
      PROVE  hist' = hist
  BY <1>9, Zenon DEF Fetch
<1>10. QED
  BY <1>1, <1>2, <1>3, <1>4, <1>5, <1>6, <1>7, <1>8, <1>9, ZenonT(60) DEF Next

(* The versions the server has at first are a line of versions. *)
LEMMA RefinesInit == IInv => History!Init
<1> SUFFICES ASSUME IInv PROVE History!Init
  BY Zenon
<1> DEFINE vs == VersOf(hist)
           N == Len(hist)
           S == {Ver(hist[i]) : i \in 1 .. N}
<1>1. N \in Nat /\ DOMAIN hist = 1 .. N
  BY DEF IInv, TypeOK
<1>2. EachFollows
  BY HistoryFollows, Zenon
<1>3. vs = [i \in DOMAIN hist |->
                [mem |-> Uids(hist[i]), adm |-> Admins(hist[i]),
                 key |-> hist[i].gk, by |-> hist[i].by[1]]]
  BY Zenon DEF VersOf, Ver
<1>4. vs = [i \in 1 .. N |-> Ver(hist[i])]
  BY <1>1, Zenon DEF VersOf
<1> HIDE DEF N
<1>5. vs \in [1 .. N -> S]
  BY <1>4, ZenonT(60)
<1> HIDE DEF vs, S
<1>6. vs \in Seq(S) /\ Len(vs) = N /\ DOMAIN vs = 1 .. N
  BY <1>1, <1>5, SMTT(60)
<1>7. ASSUME NEW i \in DOMAIN vs PROVE History!Continues(SubSeq(vs, 1, i - 1), vs[i])
  <2> DEFINE n == i - 1
             line == SubSeq(vs, 1, i - 1)
  <2>1. n \in Nat /\ n + 1 = i /\ n <= N
    BY <1>1, <1>6, <1>7, SMTT(60)
  <2>2. FollowsIn(hist, n)
    BY <1>1, <1>2, <1>6, <2>1, Zenon DEF EachFollows
  <2>3. line = [j \in 1 .. n |-> vs[j]]
    BY <1>6, <2>1, SMTT(60)
  <2> HIDE DEF n, line
  <2>4. \A j \in 1 .. n : vs[j] = Ver(hist[j])
    <3>1. \A j \in 1 .. n : j \in 1 .. N
      BY <1>1, <2>1, SMTT(60)
    <3>2. QED
      BY <1>4, <3>1, ZenonT(60)
  <2>5. line = [j \in 1 .. n |-> Ver(hist[j])]
    BY <2>3, <2>4, ZenonT(60)
  <2>6. History!Continues(line, Ver(hist[n + 1]))
    BY <2>1, <2>2, <2>5, ContinuesOk, ZenonT(60)
  <2>7. vs[i] = Ver(hist[n + 1])
    BY <1>4, <1>6, <2>1, ZenonT(60)
  <2>8. QED
    BY <2>6, <2>7, Zenon DEF line
<1>8. QED
  BY <1>3, <1>7, ZenonT(60) DEF History!Init

(* A step of the server publishes one more version, every other step none. *)
LEMMA RefinesStep ==
  ASSUME IInv, IInv', [Next]_vars
  PROVE  [History!Publish]_([i \in DOMAIN hist |->
                [mem |-> Uids(hist[i]), adm |-> Admins(hist[i]),
                 key |-> hist[i].gk, by |-> hist[i].by[1]]])
<1> DEFINE vs == VersOf(hist)
           N == Len(hist)
<1>1. /\ N \in Nat /\ DOMAIN hist = 1 .. N
      /\ Len(hist') \in Nat /\ DOMAIN hist' = 1 .. Len(hist') /\ hist \in Seq(Cores)
  BY SMTT(60) DEF IInv, TypeOK
<1>2. /\ [i \in DOMAIN hist |->
                [mem |-> Uids(hist[i]), adm |-> Admins(hist[i]),
                 key |-> hist[i].gk, by |-> hist[i].by[1]]] = VersOf(hist)
      /\ [i \in DOMAIN hist |->
                [mem |-> Uids(hist[i]), adm |-> Admins(hist[i]),
                 key |-> hist[i].gk, by |-> hist[i].by[1]]]' = VersOf(hist')
  BY Zenon DEF VersOf, Ver, Uids, Admins
<1>3. CASE hist' = hist
  BY <1>2, <1>3, Zenon
<1>4. ASSUME NEW c, hist' = Append(hist, c) PROVE History!Publish
  <2> DEFINE h == hist'
             ws == VersOf(h)
             S == {Ver(h[i]) : i \in 1 .. N + 1}
  <2>1. Len(h) = N + 1 /\ DOMAIN h = 1 .. N + 1 /\ \A i \in 1 .. N : h[i] = hist[i]
    BY <1>1, <1>4, SMTT(60)
  <2>2. FollowsIn(h, N)
    <3>1. EachFollows'
      BY HistoryFollows, PTL
    <3>2. N + 1 \in DOMAIN h
      BY <1>1, <2>1, SMTT(60)
    <3>3. QED
      BY <1>1, <3>1, <3>2, ZenonT(60) DEF EachFollows, FollowsIn, Uids, Admins
  <2> HIDE DEF h
  <2>3. vs = [i \in 1 .. N |-> Ver(h[i])] /\ ws = [i \in 1 .. N + 1 |-> Ver(h[i])]
    BY <1>1, <2>1, ZenonT(60) DEF VersOf
  <2> HIDE DEF vs, ws, N
  <2>4. vs \in [1 .. N -> S] /\ ws \in [1 .. N + 1 -> S]
    BY <1>1, <2>3, SMTT(60)
  <2> HIDE DEF S
  <2>5. vs \in Seq(S) /\ ws \in Seq(S) /\ Len(vs) = N /\ Len(ws) = N + 1
    BY <1>1, <2>4, SMTT(60)
  <2>6. SubSeq(ws, 1, N) = vs
    BY <1>1, <2>3, <2>5, SMTT(60)
  <2>7. ws[N + 1] = Ver(h[N + 1])
    BY <1>1, <2>3, SMTT(60)
  <2>8. History!Continues(vs, ws[N + 1])
    BY <1>1, <2>2, <2>3, <2>7, ContinuesOk, ZenonT(60)
  <2>9. Len(ws) = Len(vs) + 1 /\ SubSeq(ws, 1, Len(vs)) = vs /\ History!Continues(vs, ws[Len(ws)])
    BY <2>5, <2>6, <2>8, Zenon
  <2>10. QED
    BY <1>2, <2>9, ZenonT(60) DEF History!Publish, vs, ws, h
<1>5. QED
  BY <1>3, <1>4, HistoryGrows, Zenon

(* The group server keeps one line of versions, as QspgsHistory says,      *)
(* however many admins edit at once and whatever answers are lost: the     *)
(* checks of gy_qsgroups_server_version_check and _core_check admit        *)
(* nothing that was not built from the head by an admin of the head.       *)
THEOREM HistoryImplemented == Spec => ImplementsHistory
<1>1. IInv /\ IInv' /\ [Next]_vars =>
        [History!Publish]_([i \in DOMAIN hist |->
                [mem |-> Uids(hist[i]), adm |-> Admins(hist[i]),
                 key |-> hist[i].gk, by |-> hist[i].by[1]]])
  BY RefinesStep, Zenon
<1>2. QED
  BY <1>1, RefinesInit, GroupHistoryInvariant, PTL DEF Spec, ImplementsHistory, History!Spec
=============================================================================
