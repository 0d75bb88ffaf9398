----------------------------- MODULE QspgsSteps -----------------------------
(***************************************************************************)
(* The inductive invariant of Qspgs, and the steps of the server and of    *)
(* clients that wait, answer, fetch and pass keys on: each keeps it.       *)
(*                                                                         *)
(* The invariant says what a request that is under way may be (AskedOk):   *)
(* the server compares version numbers, admin bits and hashes, and a       *)
(* request it accepts was built from the head by an admin of the head,     *)
(* under its key or under a key that nobody else holds and no version has  *)
(* used.                                                                   *)
(***************************************************************************)
EXTENDS QspgsLemmas

TypeOK ==
    /\ sc \in ScenarioRecord
    /\ hist \in Seq(Cores)
    /\ logs \in Seq(Seq(Lines)) /\ Len(logs) = Len(hist)
    /\ queue \subseteq Answers
    /\ ep \in [Users -> Nat]
    /\ store \in [Users -> Stores]
    /\ view \in [Users -> Views]
    /\ sub \in [Users -> Subs]
    /\ mail \in [Users -> Seq(Nat)]
    /\ inv \subseteq Invites
    /\ links \subseteq Nat
    /\ nk \in Nat /\ nk >= 2

-----------------------------------------------------------------------------
(* The inductive invariant.                                                *)

KeysUsed == {hist[i].gk : i \in DOMAIN hist}

(* Version i follows the one before it. *)
Follows(i) ==
    /\ \/ Uids(hist[i - 1]) \subseteq Uids(hist[i])
       \/ \A j \in 1 .. i - 1 : hist[j].gk # hist[i].gk
    /\ \/ hist[i].gk = hist[i - 1].gk
       \/ \A j \in 1 .. i - 1 : hist[j].gk # hist[i].gk
    /\ hist[i].by[1] \in Admins(hist[i - 1])

Linear ==
    \A i \in DOMAIN hist :
        /\ hist[i].vmaj = i /\ hist[i].gk \in 1 .. nk - 1
        /\ i = 1 => /\ Uids(hist[i]) = {hist[i].by[1]}
                    /\ Admins(hist[i]) = {hist[i].by[1]}
        /\ i > 1 => Follows(i)

(* A view is of a stored version. *)
ViewOk(u) ==
    /\ view[u].v \in 0 .. Len(hist)
    /\ view[u].v = 0 => view[u].n = 0
    /\ view[u].v # 0 => view[u].n <= Len(logs[view[u].v])

(* Who may hold the key of a version: who is listed under it, and anybody  *)
(* while its link is open.                                                 *)
Entitled(u, k) ==
    \E j \in DOMAIN hist :
        hist[j].gk = k /\ (u \in Uids(hist[j]) \/ hist[j].link # NoLink)

HoldsOk(u) ==
    /\ \A k \in Nat : Holds(u, k) => k < nk
    /\ \A k \in KeysUsed : Holds(u, k) => Entitled(u, k)
    /\ Range(mail[u]) \subseteq KeysUsed

(* A request for a core: signed by the client under the key it would load, *)
(* listing the client and whoever will be told the key; the version it     *)
(* extends is stored and has the client as an admin.                       *)
Asked(u) == sub[u].st \in Steps /\ sub[u].op # "line"

Fresh(r) == r.rot \/ r.op = "create"

Founds(u, r) ==
    ~r.rot /\ r.core.vmaj = 1 /\ Uids(r.core) = {u} /\ Admins(r.core) = {u}

Extends(u, r) ==
    /\ r.ext \in DOMAIN hist /\ r.core.vmaj = r.ext + 1
    /\ u \in Admins(hist[r.ext])
    /\ ~r.rot => /\ r.core.gk = hist[r.ext].gk
                 /\ Uids(hist[r.ext]) \subseteq Uids(r.core)

Built(u, r, s) ==
    /\ r.core.by[1] = u /\ u \in Uids(r.core) /\ r.tell \subseteq Uids(r.core)
    /\ r.core.gk = GroupKeyLoad(s) /\ r.core.gk # NoKey
    /\ r.rot => r.core.gk = s.pend
    /\ IF r.op = "create" THEN Founds(u, r) ELSE Extends(u, r)

(* Nobody but u has the key, and no version was sealed under it. *)
Secret(u, k) == k \notin KeysUsed /\ \A w \in Users : Holds(w, k) => w = u

AskedOk(u) ==
    /\ Built(u, sub[u], store[u])
    /\ sub[u].st = "sent" /\ Fresh(sub[u]) => Secret(u, sub[u].core.gk)
    /\ sub[u].st = "accepted" => /\ sub[u].core.vmaj \in DOMAIN hist
                                 /\ hist[sub[u].core.vmaj] = sub[u].core

(* A key is staged only while its request is under way or lost. *)
StagedOk(u) ==
    store[u].pend # NoKey => /\ hist # << >>
                             /\ \/ sub[u].st = "lost"
                                \/ sub[u].st \in Steps /\ sub[u].rot

TellingOk(u) ==
    /\ sub[u].gk \in KeysUsed
    /\ \A w \in sub[u].tell : Entitled(w, sub[u].gk)

UserOk(u) ==
    /\ ViewOk(u) /\ HoldsOk(u) /\ StagedOk(u)
    /\ Asked(u) => AskedOk(u)
    /\ sub[u].st = "tell" => TellingOk(u)

IInv == TypeOK /\ Linear /\ \A u \in Users : UserOk(u)

-----------------------------------------------------------------------------
(* Steps.  What a step of user u leaves to the others: the history only    *)
(* grows, the others keep what they have, and a key somebody gets hold of  *)
(* is fresh and u's, or one they are entitled to.                          *)

Grows ==
    /\ \A i \in DOMAIN hist : i \in DOMAIN hist' /\ hist'[i] = hist[i]
    /\ \A i \in DOMAIN hist : Len(logs[i]) <= Len(logs'[i])
    /\ nk <= nk'

Moves(u) ==
    /\ Grows
    /\ \A w \in Users \ {u} : sub'[w] = sub[w] /\ store'[w] = store[w] /\ view'[w] = view[w]
    /\ \A w \in Users : \A k \in Nat :
          Holds(w, k)' => \/ Holds(w, k)
                          \/ k = NoKey
                          \/ k \in KeysUsed' /\ Entitled(w, k)'
                          \/ w = u /\ k = nk /\ nk' = nk + 1
    /\ \A w \in Users : Range(mail'[w]) \subseteq Range(mail[w]) \cup KeysUsed'
    /\ \A k \in KeysUsed' \ KeysUsed : Entitled(u, k)' /\ \A w \in Users : Holds(w, k) => w = u

(* Keys stay used, and whoever was entitled to one stays entitled. *)
LEMMA GrowsKeeps ==
  ASSUME Grows
  PROVE  /\ KeysUsed \subseteq KeysUsed'
         /\ \A w, k : Entitled(w, k) => Entitled(w, k)'
<1>1. KeysUsed \subseteq KeysUsed'
  BY ZenonT(60) DEF Grows, KeysUsed
<1>2. ASSUME NEW w, NEW k, Entitled(w, k) PROVE Entitled(w, k)'
  <2>1. PICK j \in DOMAIN hist : hist[j].gk = k /\ (w \in Uids(hist[j]) \/ hist[j].link # NoLink)
    BY <1>2, Zenon DEF Entitled
  <2>2. j \in DOMAIN hist' /\ hist'[j] = hist[j]
    BY Zenon DEF Grows
  <2>3. hist'[j].gk = k /\ (w \in Uids(hist'[j]) \/ hist'[j].link # NoLink)
    BY <2>1, <2>2, Zenon
  <2>4. QED
    BY <2>2, <2>3, ZenonT(60) DEF Entitled, Uids
<1>3. QED
  BY <1>1, <1>2, Zenon

(* No version is sealed under the zero key or under one not drawn yet. *)
KeysDrawn == \A k \in KeysUsed : k \in Nat /\ k # NoKey /\ k < nk

(* A linear history uses only keys that were drawn. *)
LEMMA UsedKeys == TypeOK /\ Linear => KeysDrawn
<1> SUFFICES ASSUME TypeOK, Linear PROVE KeysDrawn
  BY Zenon
<1>1. ASSUME NEW i \in DOMAIN hist PROVE hist[i].gk \in 1 .. nk - 1
  BY Zenon DEF Linear
<1>2. nk \in Nat
  BY Zenon DEF TypeOK
<1>3. \A x \in 1 .. nk - 1 : x \in Nat /\ x # 0 /\ x < nk
  BY <1>2
<1>4. QED
  BY <1>1, <1>3, ZenonT(60) DEF KeysDrawn, KeysUsed, NoKey

(* After the step everybody still holds only what they are entitled to. *)
LEMMA HoldsStep ==
  ASSUME IInv, TypeOK', Linear', NEW u \in Users, Moves(u), NEW w \in Users
  PROVE  HoldsOk(w)'
<1>1. HoldsOk(w) /\ nk \in Nat /\ nk' \in Nat /\ nk >= 2 /\ nk <= nk'
  BY Zenon DEF IInv, UserOk, TypeOK, Moves, Grows
<1>2. \A k \in KeysUsed' : k \in Nat /\ k # NoKey /\ k < nk'
  <2>1. KeysDrawn'
    BY UsedKeys, PTL
  <2>2. QED
    BY <2>1, Zenon DEF KeysDrawn
<1>3. KeysUsed \subseteq KeysUsed' /\ \A x, k : Entitled(x, k) => Entitled(x, k)'
  BY GrowsKeeps, Zenon DEF Moves
<1>4. ASSUME NEW k \in Nat, Holds(w, k)' PROVE k < nk'
  <2>1. Holds(w, k) \/ k = NoKey \/ k \in KeysUsed' \/ (k = nk /\ nk' = nk + 1)
    BY <1>4, ZenonT(60) DEF Moves
  <2>2. Holds(w, k) => k < nk
    BY <1>1, Zenon DEF HoldsOk
  <2>3. QED
    BY <1>1, <1>2, <2>1, <2>2, SMTT(60) DEF NoKey
<1>5. ASSUME NEW k \in KeysUsed', Holds(w, k)' PROVE Entitled(w, k)'
  <2>1. Holds(w, k) \/ Entitled(w, k)' \/ (k = nk /\ nk' = nk + 1 /\ w = u)
    BY <1>2, <1>5, ZenonT(60) DEF Moves
  <2>2. CASE k \in KeysUsed
    <3>1. k # nk
      BY <1>1, <2>2, UsedKeys, SMTT(60) DEF IInv, KeysDrawn
    <3>2. Holds(w, k) => Entitled(w, k)
      BY <1>1, <2>2, Zenon DEF HoldsOk
    <3>3. QED
      BY <1>3, <2>1, <3>1, <3>2, Zenon
  <2>3. CASE k \notin KeysUsed
    <3>1. Entitled(u, k)' /\ (Holds(w, k) => w = u)
      BY <2>3, Zenon DEF Moves
    <3>2. QED
      BY <2>1, <3>1, Zenon
  <2>4. QED
    BY <2>2, <2>3, Zenon
<1>6. Range(mail'[w]) \subseteq KeysUsed'
  BY <1>1, <1>3, ZenonT(60) DEF Moves, HoldsOk
<1>7. QED
  BY <1>4, <1>5, <1>6, ZenonT(60) DEF HoldsOk

(* What u keeps while another user moves. *)
LEMMA BystanderOk ==
  ASSUME IInv, TypeOK', Linear', NEW u \in Users, Moves(u), NEW w \in Users, w # u
  PROVE  UserOk(w)'
<1>1. UserOk(w) /\ TypeOK /\ sub'[w] = sub[w] /\ store'[w] = store[w] /\ view'[w] = view[w]
  BY Zenon DEF IInv, Moves
<1>2. HoldsOk(w)'
  BY HoldsStep, Zenon
<1>3. KeysUsed \subseteq KeysUsed' /\ \A x, k : Entitled(x, k) => Entitled(x, k)'
  BY GrowsKeeps, Zenon DEF Moves
<1>4. \A i \in DOMAIN hist : i \in DOMAIN hist' /\ hist'[i] = hist[i]
  BY Zenon DEF Moves, Grows
<1>5. DOMAIN hist = 1 .. Len(hist) /\ DOMAIN hist' = 1 .. Len(hist') /\ Len(hist) \in Nat /\ Len(hist') \in Nat
  BY DEF TypeOK
<1>6. Len(hist) <= Len(hist')
  BY <1>4, <1>5, SMTT(60)
<1>7. ViewOk(w)'
  <2>1. view[w].v \in Nat /\ view[w].n \in Nat
    BY <1>1, Zenon DEF TypeOK, Views
  <2>2. view[w].v # 0 => Len(logs[view[w].v]) <= Len(logs'[view[w].v])
    BY <1>1, <1>5 DEF ViewOk, UserOk, Moves, Grows
  <2>3. view[w].v # 0 => Len(logs[view[w].v]) \in Nat /\ Len(logs'[view[w].v]) \in Nat
    <3>1. view[w].v # 0 => view[w].v \in 1 .. Len(hist) /\ view[w].v \in 1 .. Len(hist')
      BY <1>1, <1>5, <1>6, <2>1, SMTT(60) DEF ViewOk, UserOk
    <3>2. \A i \in 1 .. Len(hist) : logs[i] \in Seq(Lines)
      BY SMTT(60) DEF IInv, TypeOK
    <3>3. \A i \in 1 .. Len(hist') : logs'[i] \in Seq(Lines)
      BY DEF TypeOK
    <3>4. QED
      BY <3>1, <3>2, <3>3, SMTT(60)
  <2>4. QED
    BY <1>1, <1>5, <1>6, <2>1, <2>2, <2>3, SMTT(60) DEF ViewOk, UserOk
<1>8. StagedOk(w)'
  <2>1. hist # << >> => hist' # << >>
    BY <1>5, <1>6, SMTT(60)
  <2>2. QED
    BY <1>1, <2>1, ZenonT(60) DEF UserOk, StagedOk
<1>9. ASSUME Asked(w)' PROVE AskedOk(w)'
  <2> DEFINE r == sub[w]
  <2>1. Asked(w)
    BY <1>1, <1>9, Zenon DEF Asked
  <2>2. Built(w, r, store[w]) /\ (r.st = "sent" /\ Fresh(r) => Secret(w, r.core.gk))
        /\ (r.st = "accepted" => r.core.vmaj \in DOMAIN hist /\ hist[r.core.vmaj] = r.core)
    BY <1>1, <2>1, Zenon DEF UserOk, AskedOk
  <2>3. Founds(w, r) => Founds(w, r)'
    BY <1>1, ZenonT(60) DEF Founds, Uids, Admins
  <2>4. ASSUME Extends(w, r) PROVE Extends(w, r)'
    <3>1. r.ext \in DOMAIN hist' /\ hist'[r.ext] = hist[r.ext] /\ sub'[w] = r
      BY <1>1, <1>4, <2>4, Zenon DEF Extends
    <3>2. /\ Uids(hist[r.ext])' = Uids(hist[r.ext]) /\ Admins(hist[r.ext])' = Admins(hist[r.ext])
          /\ Uids(r.core)' = Uids(r.core)
      BY <3>1, ZenonT(60) DEF Uids, Admins
    <3>3. QED
      BY <2>4, <3>1, <3>2, ZenonT(60) DEF Extends
  <2>5. Built(w, r, store[w]) => Built(w, r, store[w])'
    BY <1>1, <2>3, <2>4, ZenonT(60) DEF Built, Uids
  <2>6. (r.st = "accepted" => r.core.vmaj \in DOMAIN hist' /\ hist'[r.core.vmaj] = r.core)
    BY <1>4, <2>2, Zenon
  <2>7. ASSUME r.st = "sent" /\ Fresh(r) PROVE Secret(w, r.core.gk)'
    <3> DEFINE k == r.core.gk
    <3>1. Secret(w, k) /\ k # NoKey /\ k = GroupKeyLoad(store[w])
      BY <2>2, <2>7, Zenon DEF Built
    <3>2. Holds(w, k) /\ k \in Nat
      BY <1>1, <3>1, ZenonT(60) DEF Holds, GroupKeyLoad, TypeOK, Stores
    <3>3. k < nk /\ nk \in Nat
      BY <1>1, <3>2, Zenon DEF UserOk, HoldsOk, TypeOK
    <3>4. k \notin KeysUsed'
      BY <3>1, <3>2, Zenon DEF Secret, Moves
    <3>5. ASSUME NEW x \in Users, Holds(x, k)' PROVE x = w
      <4>1. Holds(x, k) \/ k = nk
        BY <3>1, <3>2, <3>4, <3>5, ZenonT(60) DEF Moves
      <4>2. QED
        BY <3>1, <3>3, <4>1, SMTT(60) DEF Secret
    <3>6. QED
      BY <1>1, <3>4, <3>5, Zenon DEF Secret
  <2>8. QED
    BY <1>1, <2>2, <2>5, <2>6, <2>7, ZenonT(60) DEF AskedOk, Fresh
<1>10. ASSUME sub'[w].st = "tell" PROVE TellingOk(w)'
  <2>1. TellingOk(w)
    BY <1>1, <1>10, Zenon DEF UserOk
  <2>2. QED
    BY <1>1, <1>3, <2>1, ZenonT(60) DEF TellingOk
<1>11. QED
  BY <1>2, <1>7, <1>8, <1>9, <1>10, Zenon DEF UserOk

(* What is left to show of a step of u: the part of u itself. *)
OwnOk(u) ==
    /\ ViewOk(u) /\ StagedOk(u)
    /\ Asked(u) => AskedOk(u)
    /\ sub[u].st = "tell" => TellingOk(u)

(* What a step of u leaves alone for the others keeps their part of the    *)
(* invariant.                                                              *)
LEMMA StepOk ==
  ASSUME IInv, TypeOK', Linear', NEW u \in Users, Moves(u), OwnOk(u)'
  PROVE  IInv'
<1>1. ASSUME NEW w \in Users PROVE UserOk(w)'
  <2>1. CASE w = u
    <3>1. HoldsOk(u)'
      BY HoldsStep, Zenon
    <3>2. QED
      BY <2>1, <3>1, ZenonT(60) DEF UserOk, OwnOk
  <2>2. CASE w # u
    BY <2>2, BystanderOk, ZenonT(60)
  <2>3. QED
    BY <2>1, <2>2, Zenon
<1>2. QED
  BY <1>1, Zenon DEF IInv

(* A key u may come by without the server. *)
GoodKey(u, k) ==
    \/ Holds(u, k)
    \/ k = NoKey
    \/ k \in KeysUsed /\ Entitled(u, k)
    \/ k = nk /\ nk' = nk + 1

(* The keys of the history and who is entitled to them. *)
LEMMA SameHistory ==
  ASSUME hist' = hist
  PROVE  KeysUsed' = KeysUsed /\ \A w, k : Entitled(w, k)' <=> Entitled(w, k)
<1>1. KeysUsed' = KeysUsed
  BY Zenon DEF KeysUsed
<1>2. ASSUME NEW w, NEW k PROVE Entitled(w, k)' <=> Entitled(w, k)
  BY Zenon DEF Entitled
<1>3. QED
  BY <1>1, <1>2, Zenon

(* A step that makes no new version at the server. *)
LinesAdded == \A i \in DOMAIN hist : Len(logs[i]) <= Len(logs'[i])

Quiet(u) ==
    /\ hist' = hist /\ nk' \in {nk, nk + 1}
    /\ logs' = logs \/ LinesAdded
    /\ \A w \in Users \ {u} : sub'[w] = sub[w] /\ store'[w] = store[w] /\ view'[w] = view[w]
    /\ GoodKey(u, store'[u].gk) /\ GoodKey(u, store'[u].pend)
    /\ \A w \in Users : \A k \in Range(mail'[w]) :
          k \in Range(mail[w]) \/ (k \in KeysUsed /\ Entitled(w, k))

(* Without a new version the history stays linear; every key u gains is    *)
(* one it may have.                                                        *)
LEMMA QuietOk ==
  ASSUME IInv, TypeOK', NEW u \in Users, Quiet(u), OwnOk(u)'
  PROVE  IInv'
<1>1. hist' = hist /\ (logs' = logs \/ LinesAdded) /\ nk \in Nat /\ nk' \in Nat /\ nk <= nk'
  BY DEF IInv, TypeOK, Quiet
<1>2. KeysUsed' = KeysUsed /\ \A w, k : Entitled(w, k)' <=> Entitled(w, k)
  BY <1>1, SameHistory, Zenon
<1>3. Linear'
  <2>1. Linear
    BY Zenon DEF IInv
  <2>2. ASSUME NEW i \in DOMAIN hist
        PROVE  /\ hist[i].gk \in 1 .. nk' - 1 /\ hist[i].vmaj = i
               /\ i = 1 => /\ Uids(hist[i]) = {hist[i].by[1]}
                           /\ Admins(hist[i]) = {hist[i].by[1]}
               /\ i > 1 => Follows(i)
    BY <1>1, <2>1 DEF Linear
  <2>3. \A i : Uids(hist[i])' = Uids(hist[i]) /\ Admins(hist[i])' = Admins(hist[i])
    BY <1>1, Zenon DEF Uids, Admins
  <2>4. \A i : Follows(i)' <=> Follows(i)
    BY <1>1 DEF Follows, Uids, Admins
  <2>5. QED
    BY <1>1, <2>2, <2>3, <2>4, ZenonT(60) DEF Linear
<1>4. Grows
  <2>1. \A i \in DOMAIN hist : Len(logs[i]) \in Nat
    BY SMTT(60) DEF IInv, TypeOK
  <2>2. QED
    BY <1>1, <2>1 DEF Grows, LinesAdded
<1>5. ASSUME NEW w \in Users, NEW k \in Nat, Holds(w, k)'
      PROVE  \/ Holds(w, k)
             \/ k = NoKey
             \/ k \in KeysUsed' /\ Entitled(w, k)'
             \/ w = u /\ k = nk /\ nk' = nk + 1
  <2>1. CASE k \in Range(mail'[w])
    BY <1>2, <2>1, ZenonT(60) DEF Quiet, Holds
  <2>2. CASE store'[w].gk = k \/ store'[w].pend = k
    <3>1. CASE w = u
      BY <1>2, <2>2, <3>1, ZenonT(60) DEF Quiet, GoodKey
    <3>2. CASE w # u
      BY <2>2, <3>2, Zenon DEF Quiet, Holds
    <3>3. QED
      BY <3>1, <3>2, Zenon
  <2>3. QED
    BY <1>5, <2>1, <2>2, Zenon DEF Holds
<1>6. \A w \in Users : Range(mail'[w]) \subseteq Range(mail[w]) \cup KeysUsed'
  BY <1>2, ZenonT(60) DEF Quiet
<1>7. \A w \in Users \ {u} : sub'[w] = sub[w] /\ store'[w] = store[w] /\ view'[w] = view[w]
  BY Zenon DEF Quiet
<1>8. Moves(u)
  BY <1>2, <1>4, <1>5, <1>6, <1>7, ZenonT(60) DEF Moves
<1>9. QED
  BY <1>3, <1>8, StepOk, Zenon

(* A request a client may send, when s is its store afterwards. *)
MaySend(u, r, s) ==
    /\ r \in CoreRequests \cup LineRequests /\ r.st = "sent"
    /\ s \in Stores /\ GoodKey(u, s.gk) /\ GoodKey(u, s.pend)
    /\ s.pend # NoKey => r.rot /\ hist # << >>
    /\ r.op # "line" => /\ Built(u, r, s)
                        /\ Fresh(r) => r.core.gk = nk /\ nk' = nk + 1

(* Sending a request a client may send (Send and EditKeeps of the edits    *)
(* and the lines).                                                         *)
LEMMA SendOk ==
  ASSUME IInv, NEW u \in Users, NEW r, NEW s, MaySend(u, r, s),
         sub' = [sub EXCEPT ![u] = r], store' = [store EXCEPT ![u] = s],
         nk' \in {nk, nk + 1}, EditKeeps
  PROVE  IInv'
<1>1. TypeOK /\ UserOk(u)
  BY Zenon DEF IInv
<1>2. sub'[u] = r /\ store'[u] = s /\ \A w \in Users \ {u} : sub'[w] = sub[w] /\ store'[w] = store[w]
  BY <1>1, Zenon DEF TypeOK
<1>3. TypeOK'
  <2>1. r \in Subs /\ s \in Stores
    BY Zenon DEF MaySend, Subs
  <2>2. sub' \in [Users -> Subs] /\ store' \in [Users -> Stores]
    BY <1>1, <2>1, Zenon DEF TypeOK
  <2>3. nk' \in Nat /\ nk' >= 2
    BY <1>1 DEF TypeOK
  <2>4. QED
    BY <1>1, <2>2, <2>3, Zenon DEF TypeOK, EditKeeps
<1>4. Quiet(u)
  <2>1. UNCHANGED <<hist, logs, view, mail>>
    BY Zenon DEF EditKeeps
  <2>2. GoodKey(u, store'[u].gk) /\ GoodKey(u, store'[u].pend)
    BY <1>2, ZenonT(60) DEF MaySend
  <2>3. QED
    BY <1>2, <2>1, <2>2, ZenonT(60) DEF Quiet
<1>5. ViewOk(u)'
  BY <1>1, Zenon DEF UserOk, ViewOk, EditKeeps
<1>6. StagedOk(u)'
  BY <1>2, Zenon DEF StagedOk, MaySend, EditKeeps, Steps
<1>7. sub'[u].st # "tell"
  BY <1>2, Zenon DEF MaySend
<1>8. ASSUME Asked(u)' PROVE AskedOk(u)'
  <2>1. r.op # "line"
    BY <1>2, <1>8, Zenon DEF Asked
  <2>2. Built(u, r, s) /\ (Fresh(r) => r.core.gk = nk /\ nk' = nk + 1) /\ r.st = "sent"
    BY <2>1, Zenon DEF MaySend
  <2>3. hist' = hist
    BY Zenon DEF EditKeeps
  <2>4. Built(u, sub[u], store[u])'
    <3>1. Built(u, r, s)' <=> Built(u, r, s)
      BY <2>3, ZenonT(60) DEF Built, Founds, Extends, Uids, Admins
    <3>2. Built(u, sub[u], store[u])' <=> Built(u, r, s)'
      BY <1>2, ZenonT(60) DEF Built, Founds, Extends
    <3>3. QED
      BY <2>2, <3>1, <3>2, Zenon
  <2>5. ASSUME Fresh(r)
        PROVE  /\ nk \notin KeysUsed'
               /\ \A w \in Users : store'[w].gk = nk \/ store'[w].pend = nk \/ nk \in Range(mail'[w])
                                   => w = u
    <3>1. nk' = nk + 1 /\ nk \in Nat
      BY <1>1, <2>2, <2>5, Zenon DEF TypeOK
    <3>2. \A k \in KeysUsed : k < nk
      BY UsedKeys, Zenon DEF IInv, KeysDrawn
    <3>3. nk \notin KeysUsed
      BY <3>1, <3>2, SMTT(60)
    <3>4. ASSUME NEW w \in Users, w # u PROVE ~(store'[w].gk = nk \/ store'[w].pend = nk \/ nk \in Range(mail'[w]))
      <4>1. store'[w] = store[w] /\ mail'[w] = mail[w]
        BY <1>2, <3>4, Zenon DEF EditKeeps
      <4>2. Holds(w, nk) => nk < nk
        BY <3>1, <3>4, Zenon DEF IInv, UserOk, HoldsOk
      <4>3. QED
        BY <3>1, <4>1, <4>2, SMTT(60) DEF Holds
    <3>5. KeysUsed' = KeysUsed
      BY <2>3, Zenon DEF KeysUsed
    <3>6. QED
      BY <3>3, <3>4, <3>5, ZenonT(60)
  <2>6. Fresh(sub[u])' => Fresh(r)
    BY <1>2, Zenon DEF Fresh
  <2>7. ASSUME Fresh(r) PROVE Secret(u, sub[u].core.gk)'
    <3>1. sub'[u].core.gk = nk
      BY <1>2, <2>2, <2>7, Zenon
    <3>2. QED
      BY <2>5, <2>7, <3>1, ZenonT(60) DEF Secret, Holds
  <2>8. QED
    BY <1>2, <2>2, <2>4, <2>6, <2>7, Zenon DEF AskedOk
<1>9. QED
  BY <1>3, <1>4, <1>5, <1>6, <1>7, <1>8, QuietOk, Zenon DEF OwnOk

-----------------------------------------------------------------------------
(* Answers, fetches and keys on their way.                                 *)

(* What u is left with when a request is over. *)
Settles(u, x, s) ==
    /\ x \in Tellings \cup {Idle, [st |-> "lost"]} /\ s \in Stores
    /\ s.gk \in {store[u].gk, store[u].pend, NoKey}
    /\ s.pend \in {store[u].pend, NoKey}
    /\ s.pend # NoKey => x.st = "lost"
    /\ x.st = "tell" => x.gk \in KeysUsed /\ \A w \in x.tell : Entitled(w, x.gk)

(* A client whose request is over, and who keeps no key it may not have. *)
LEMMA SettleOk ==
  ASSUME IInv, NEW u \in Users, NEW x, NEW s, Settles(u, x, s),
         sub' = [sub EXCEPT ![u] = x], store' = [store EXCEPT ![u] = s],
         NEW v \in Views, view' = [view EXCEPT ![u] = v] \/ (view' = view /\ v = view[u]),
         v.v \in 0 .. Len(hist), v.v = 0 => v.n = 0, v.v # 0 => v.n <= Len(logs[v.v]),
         inv' \subseteq Invites, links' \subseteq Nat,
         UNCHANGED <<sc, hist, logs, queue, ep, mail, nk>>
  PROVE  IInv'
<1>1. TypeOK /\ UserOk(u)
  BY Zenon DEF IInv
<1>2. /\ sub'[u] = x /\ store'[u] = s /\ view'[u] = v
      /\ \A w \in Users \ {u} : sub'[w] = sub[w] /\ store'[w] = store[w] /\ view'[w] = view[w]
  BY <1>1, Zenon DEF TypeOK
<1>3. TypeOK'
  <2>1. x \in Subs /\ s \in Stores
    BY Zenon DEF Settles, Subs
  <2>2. sub' \in [Users -> Subs] /\ store' \in [Users -> Stores] /\ view' \in [Users -> Views]
    BY <1>1, <2>1, ZenonT(60) DEF TypeOK
  <2>3. QED
    BY <1>1, <2>2, Zenon DEF TypeOK
<1>4. Quiet(u)
  <2>1. Holds(u, store[u].gk) /\ Holds(u, store[u].pend)
    BY Zenon DEF Holds
  <2>2. GoodKey(u, s.gk) /\ GoodKey(u, s.pend)
    BY <2>1, Zenon DEF Settles, GoodKey
  <2>3. GoodKey(u, store'[u].gk) /\ GoodKey(u, store'[u].pend)
    BY <1>2, <2>2, ZenonT(60)
  <2>4. QED
    BY <1>2, <2>3, ZenonT(60) DEF Quiet
<1>5. ViewOk(u)'
  BY <1>2, Zenon DEF ViewOk
<1>6. StagedOk(u)'
  <2>1. s.pend # NoKey => hist # << >> /\ x.st = "lost"
    BY <1>1, Zenon DEF Settles, UserOk, StagedOk
  <2>2. QED
    BY <1>2, <2>1, Zenon DEF StagedOk
<1>7. ~Asked(u)'
  BY <1>2, SMTT(60) DEF Settles, Asked, Tellings, Idle, Steps
<1>8. sub'[u].st = "tell" => TellingOk(u)'
  <2>1. KeysUsed' = KeysUsed /\ \A w, k : Entitled(w, k)' <=> Entitled(w, k)
    BY SameHistory, Zenon
  <2>2. SUFFICES ASSUME x.st = "tell" PROVE TellingOk(u)'
    BY <1>2, Zenon
  <2>3. x.gk \in KeysUsed /\ \A w \in x.tell : Entitled(w, x.gk)
    BY <2>2, Zenon DEF Settles
  <2>4. \A w \in x.tell : Entitled(w, x.gk)'
    BY <2>1, <2>3, Zenon
  <2>5. sub'[u].tell = x.tell /\ sub'[u].gk = x.gk
    BY <1>2, ZenonT(60)
  <2>6. ASSUME NEW w \in sub'[u].tell PROVE Entitled(w, sub[u].gk)'
    BY <2>4, <2>5, SMTT(60) DEF Entitled
  <2>7. sub'[u].gk \in KeysUsed'
    BY <2>1, <2>3, <2>5, SMTT(60)
  <2>8. QED
    BY <2>6, <2>7, ZenonT(60) DEF TellingOk
<1>9. QED
  BY <1>3, <1>4, <1>5, <1>6, <1>7, <1>8, QuietOk, Zenon DEF OwnOk

(* The same when the view stays. *)
LEMMA SettleKeepsView ==
  ASSUME IInv, NEW u \in Users, NEW x, NEW s, Settles(u, x, s),
         sub' = [sub EXCEPT ![u] = x], store' = [store EXCEPT ![u] = s],
         UNCHANGED <<sc, hist, logs, queue, ep, view, mail, inv, links, nk>>
  PROVE  IInv'
<1>1. view[u] \in Views /\ inv \subseteq Invites /\ links \subseteq Nat /\ ViewOk(u)
  BY Zenon DEF IInv, TypeOK, UserOk
<1>2. /\ view[u].v \in 0 .. Len(hist)
      /\ view[u].v = 0 => view[u].n = 0
      /\ view[u].v # 0 => view[u].n <= Len(logs[view[u].v])
  BY <1>1, Zenon DEF ViewOk
<1>3. QED
  BY <1>1, <1>2, SettleOk, ZenonT(60)

Tells(x, gk, who) ==
    x \in Tellings \cup {Idle} /\ (x.st = "tell" => x.gk = gk /\ x.tell = who)

(* Who a telling goes to. *)
LEMMA TellingShape ==
  ASSUME NEW gk \in Nat, NEW who \in SUBSET Users
  PROVE  Tells(Telling(gk, who), gk, who)
  BY Zenon DEF Telling, Tellings, Idle, Tells

(* A request over: what its sender has staged. *)
LEMMA StagedThen ==
  ASSUME IInv, NEW u \in Users
  PROVE  /\ store[u] \in Stores /\ store[u].gk \in Nat /\ store[u].pend \in Nat
         /\ store[u].pend # NoKey => sub[u].st = "lost" \/ (sub[u].st \in Steps /\ sub[u].rot)
         /\ sub[u] \in Subs
  BY Zenon DEF IInv, TypeOK, UserOk, StagedOk, Stores

(* An accepted edit: the staged key is committed and the newcomers are     *)
(* told it.                                                                *)
LEMMA HearAcceptedOk ==
  ASSUME IInv, NEW u \in Users, HearAccepted(u)
  PROVE  IInv'
<1> DEFINE r == sub[u]
           x == Telling(ExportGroupKey(store[u]), r.tell)
           s == IF r.rot THEN GroupKeyCommit(store[u]) ELSE store[u]
           v == IF r.op = "line" THEN view[u] ELSE [v |-> r.core.vmaj, n |-> 0]
<1>1. /\ store[u] \in Stores /\ store[u].gk \in Nat /\ store[u].pend \in Nat /\ r \in Subs
      /\ r.st = "accepted"
      /\ store[u].pend # NoKey => r.rot
  BY StagedThen, Zenon DEF HearAccepted
<1>2. r \in CoreRequests \cup LineRequests
  BY <1>1 DEF Subs, Tellings, Idle
<1>3. /\ r.tell \in SUBSET Users /\ r.inv \in SUBSET Invites /\ r.link \in SUBSET Nat
      /\ r.rot \in BOOLEAN
  BY <1>2, Zenon DEF CoreRequests, LineRequests, Request
<1>4. ExportGroupKey(store[u]) \in Nat
  BY <1>1, Zenon DEF ExportGroupKey, GroupKeyLoad
<1>5. /\ x \in Tellings \cup {Idle}
      /\ x.st = "tell" => x.gk = ExportGroupKey(store[u]) /\ x.tell = r.tell
  <2>1. Tells(Telling(ExportGroupKey(store[u]), r.tell), ExportGroupKey(store[u]), r.tell)
    BY <1>3, <1>4, TellingShape, ZenonT(60)
  <2>2. QED
    BY <2>1, Zenon DEF Tells
<1>6. s \in Stores /\ s.pend = NoKey /\ s.gk \in {store[u].gk, store[u].pend}
  BY <1>1, ZenonT(60) DEF GroupKeyCommit, Stores, NoKey
<1>7. ASSUME r.op # "line"
      PROVE  /\ Built(u, r, store[u])
             /\ r.core.vmaj \in DOMAIN hist /\ hist[r.core.vmaj] = r.core
  BY <1>1, <1>7, Zenon DEF IInv, UserOk, Asked, AskedOk, Steps
<1>8. ASSUME x.st = "tell" PROVE x.gk \in KeysUsed /\ \A w \in x.tell : Entitled(w, x.gk)
  <2>1. r.op # "line"
    <3>1. r.op = "line" => r.tell = {}
      BY <1>2, Zenon DEF CoreRequests, LineRequests
    <3>2. r.tell = {} => x = Idle
      BY Zenon DEF Telling
    <3>3. QED
      BY <1>8, <3>1, <3>2, SMTT(60) DEF Idle
  <2>2. x.gk = r.core.gk /\ x.tell = r.tell /\ r.tell \subseteq Uids(r.core)
    BY <1>5, <1>7, <1>8, <2>1, Zenon DEF Built, ExportGroupKey
  <2> HIDE DEF x
  <2>3. QED
    BY <1>7, <2>1, <2>2, ZenonT(60) DEF KeysUsed, Entitled
<1>9. Settles(u, x, s)
  <2> HIDE DEF x, s
  <2>1. x.st \in {"tell", "idle"}
    BY <1>5, SMTT(60) DEF Tellings, Idle
  <2>2. QED
    BY <1>5, <1>6, <1>8, <2>1, ZenonT(60) DEF Settles
<1>10. /\ v \in Views /\ v.v \in 0 .. Len(hist)
       /\ v.v = 0 => v.n = 0
       /\ v.v # 0 => v.n <= Len(logs[v.v])
  <2>1. /\ view[u] \in Views /\ ViewOk(u) /\ DOMAIN hist = 1 .. Len(hist) /\ Len(hist) \in Nat
        /\ \A i \in DOMAIN hist : Len(logs[i]) \in Nat
    BY SMTT(60) DEF IInv, TypeOK, UserOk
  <2>2. CASE r.op = "line"
    BY <2>1, <2>2, Zenon DEF ViewOk
  <2>3. CASE r.op # "line"
    BY <1>7, <2>1, <2>3, SMTT(60) DEF Views
  <2>4. QED
    BY <2>2, <2>3, Zenon
<1>11. /\ sub' = [sub EXCEPT ![u] = x] /\ store' = [store EXCEPT ![u] = s]
       /\ inv' \subseteq Invites /\ links' \subseteq Nat
       /\ view' = [view EXCEPT ![u] = v] \/ (view' = view /\ v = view[u])
       /\ UNCHANGED <<sc, hist, logs, queue, ep, mail, nk>>
  <2>1. store' = [store EXCEPT ![u] = s]
    <3>1. store \in [Users -> Stores]
      BY Zenon DEF IInv, TypeOK
    <3>2. CASE r.rot
      BY <3>2, Zenon DEF HearAccepted, Commit
    <3>3. CASE ~r.rot
      <4>1. store' = store
        BY <3>3, Zenon DEF HearAccepted
      <4>2. QED
        BY <3>1, <3>3, <4>1, Zenon
    <3>4. QED
      BY <3>2, <3>3, Zenon
  <2>2. inv \subseteq Invites /\ links \subseteq Nat
    BY Zenon DEF IInv, TypeOK
  <2>3. QED
    BY <1>3, <2>1, <2>2, ZenonT(60) DEF HearAccepted
<1> HIDE DEF x, s, v
<1>12. QED
  BY <1>9, <1>10, <1>11, SettleOk, ZenonT(60)

(* A refused edit: the staged key is rolled back                           *)
(* (qspgs_group_key_rollback).                                             *)
LEMMA HearRefusedOk ==
  ASSUME IInv, NEW u \in Users, HearRefused(u)
  PROVE  IInv'
<1> DEFINE s == IF sub[u].rot THEN GroupKeyRollback(store[u]) ELSE store[u]
<1>1. /\ store[u] \in Stores /\ sub[u].st = "refused" /\ store \in [Users -> Stores]
      /\ store[u].pend # NoKey => sub[u].rot
  BY StagedThen, Zenon DEF HearRefused, IInv, TypeOK
<1>2. s \in Stores /\ s.gk = store[u].gk /\ s.pend = NoKey
  BY <1>1, Zenon DEF GroupKeyRollback, Stores, NoKey
<1>3. store' = [store EXCEPT ![u] = s]
  BY <1>1, Zenon DEF HearRefused, Rollback
<1> HIDE DEF s
<1>4. Settles(u, Idle, s)
  BY <1>2, Zenon DEF Settles, Idle
<1>5. QED
  BY <1>3, <1>4, SettleKeepsView, ZenonT(60) DEF HearRefused

(* A commit that stops half-way leaves the same key in both slots. *)
LEMMA CommitHalfOk ==
  ASSUME IInv, NEW u \in Users, CommitHalf(u)
  PROVE  IInv'
<1> DEFINE s == GroupKeyStore(store[u], store[u].pend)
           x == [st |-> "lost"]
<1>1. store[u] \in Stores /\ store[u].pend \in Nat
  BY StagedThen, Zenon
<1>2. s \in Stores /\ s.gk = store[u].pend /\ s.pend = store[u].pend
  BY <1>1, Zenon DEF GroupKeyStore, Stores
<1>3. sub' = [sub EXCEPT ![u] = x] /\ store' = [store EXCEPT ![u] = s]
  BY Zenon DEF CommitHalf
<1>4. x.st = "lost" /\ x \in {[st |-> "lost"]}
  BY Zenon
<1> HIDE DEF s
<1>5. Settles(u, x, s)
  BY <1>2, <1>4, Zenon DEF Settles
<1> HIDE DEF x
<1>6. QED
  BY <1>3, <1>5, SettleKeepsView, ZenonT(60) DEF CommitHalf

(* A store that a step leaves alone. *)
LEMMA SameStore ==
  ASSUME IInv, NEW u \in Users, store' = store
  PROVE  store' = [store EXCEPT ![u] = store[u]]
  BY Zenon DEF IInv, TypeOK

(* A lost answer changes nothing a client holds. *)
LEMMA LoseOk ==
  ASSUME IInv, NEW u \in Users, Lose(u)
  PROVE  IInv'
<1> DEFINE x == [st |-> "lost"]
<1>1. store[u] \in Stores /\ x.st = "lost"
  BY StagedThen, Zenon
<1>2. Settles(u, x, store[u])
  BY <1>1, Zenon DEF Settles
<1>3. sub' = [sub EXCEPT ![u] = x] /\ store' = [store EXCEPT ![u] = store[u]]
  BY SameStore, Zenon DEF Lose
<1> HIDE DEF x
<1>4. QED
  BY <1>2, <1>3, SettleKeepsView, ZenonT(60) DEF Lose

(* A restart keeps what is on disk and forgets the view and the answer. *)
LEMMA CrashOk ==
  ASSUME IInv, NEW u \in Users, Crash(u)
  PROVE  IInv'
<1> DEFINE x == IF store[u].pend = NoKey THEN Idle ELSE [st |-> "lost"]
<1>1. /\ store[u] \in Stores /\ x \in {Idle, [st |-> "lost"]}
      /\ store[u].pend # NoKey => x.st = "lost"
      /\ x.st # "tell"
  BY StagedThen, Zenon DEF Idle
<1>2. /\ sub' = [sub EXCEPT ![u] = x] /\ store' = [store EXCEPT ![u] = store[u]]
      /\ view' = [view EXCEPT ![u] = NoView]
  BY SameStore, Zenon DEF Crash
<1> HIDE DEF x
<1>3. Settles(u, x, store[u])
  BY <1>1, Zenon DEF Settles
<1>4. /\ NoView \in Views /\ NoView.v \in 0 .. Len(hist)
      /\ NoView.v = 0 /\ NoView.n = 0
      /\ inv \subseteq Invites /\ links \subseteq Nat
  BY DEF NoView, Views, IInv, TypeOK
<1>5. QED
  BY <1>2, <1>3, <1>4, SettleOk, ZenonT(60) DEF Crash

(* Asking with the staged token: who is served commits and tells, who is   *)
(* not rolls back.                                                         *)
LEMMA ProbeOk ==
  ASSUME IInv, NEW u \in Users, Probe(u)
  PROVE  IInv'
<1> DEFINE staged == store[u].pend # NoKey
           stored == staged /\ FetchCheck(DeriveFet(Head0.gk), FetchToken(store[u]))
           x == IF stored THEN Telling(Head0.gk, Present(Head0) \ {u}) ELSE Idle
           s == IF stored THEN GroupKeyCommit(store[u])
                ELSE IF staged THEN GroupKeyRollback(store[u]) ELSE store[u]
<1>1. store[u] \in Stores /\ store \in [Users -> Stores]
  BY Zenon DEF IInv, TypeOK
<1>2. s \in Stores /\ s.pend = NoKey /\ s.gk \in {store[u].gk, store[u].pend}
  BY <1>1, ZenonT(60) DEF GroupKeyCommit, GroupKeyRollback, Stores, NoKey
<1>3. sub' = [sub EXCEPT ![u] = x]
  BY Zenon DEF Probe
<1>4. store' = [store EXCEPT ![u] = s]
  <2>1. CASE stored
    BY <2>1, Zenon DEF Probe, Commit
  <2>2. CASE staged /\ ~stored
    BY <2>2, Zenon DEF Probe, Rollback
  <2>3. CASE ~staged
    BY <1>1, <2>3, Zenon DEF Probe
  <2>4. QED
    BY <2>1, <2>2, <2>3, Zenon
<1>5. ASSUME stored
      PROVE  /\ x \in Tellings \cup {Idle}
             /\ x.st = "tell" => x.gk \in KeysUsed /\ \A w \in x.tell : Entitled(w, x.gk)
  <2>1. hist # << >> /\ hist \in Seq(Cores)
    BY <1>5, Zenon DEF IInv, UserOk, StagedOk, TypeOK
  <2>2. Len(hist) \in DOMAIN hist /\ Head0 = hist[Len(hist)] /\ Head0 \in Cores
    BY <2>1 DEF Head0
  <2>3. Present(Head0) \subseteq Uids(Head0) /\ Uids(Head0) \subseteq Users /\ Head0.gk \in Nat
    BY <2>2, CoreMem, ZenonT(60) DEF Present, Uids
  <2>4. Present(Head0) \ {u} \in SUBSET Users
    BY <2>3, Zenon
  <2>5. x = Telling(Head0.gk, Present(Head0) \ {u})
    BY <1>5, Zenon
  <2>6. /\ x \in Tellings \cup {Idle}
        /\ x.st = "tell" => x.gk = Head0.gk /\ x.tell = Present(Head0) \ {u}
    <3>1. Tells(Telling(Head0.gk, Present(Head0) \ {u}), Head0.gk, Present(Head0) \ {u})
      BY <2>3, <2>4, TellingShape, ZenonT(60)
    <3>2. QED
      BY <2>5, <3>1, Zenon DEF Tells
  <2> HIDE DEF x, stored
  <2>7. Head0.gk \in KeysUsed /\ \A w \in Uids(Head0) : Entitled(w, Head0.gk)
    BY <2>2, Zenon DEF KeysUsed, Entitled
  <2>8. QED
    BY <2>3, <2>6, <2>7, Zenon
<1>6. ~stored => x = Idle
  BY Zenon
<1> HIDE DEF x, s, stored
<1>7. Settles(u, x, s)
  BY <1>2, <1>5, <1>6, SMTT(60) DEF Settles, Idle, Tellings
<1>8. QED
  BY <1>3, <1>4, <1>7, SettleKeepsView, ZenonT(60) DEF Probe

(* A client between requests has nothing staged. *)
LEMMA IdleOk ==
  ASSUME IInv, NEW u \in Users, sub[u] = Idle
  PROVE  store[u].pend = NoKey /\ store[u] \in Stores /\ Settles(u, Idle, store[u])
<1>1. store[u].pend = NoKey /\ store[u] \in Stores
  BY StagedThen DEF Idle, Steps
<1>2. QED
  BY <1>1, Zenon DEF Settles, Idle

(* A fetch moves the view to a stored version. *)
LEMMA FetchStepOk ==
  ASSUME IInv, NEW u \in Users, NEW v \in DOMAIN hist, NEW n \in 0 .. Len(logs[v]),
         Fetch(u, v, n)
  PROVE  IInv'
<1> DEFINE w == [v |-> v, n |-> n]
<1>1. /\ TypeOK /\ sub[u] = Idle /\ sub' = sub /\ store' = store
      /\ view' = [view EXCEPT ![u] = w]
      /\ UNCHANGED <<sc, hist, logs, queue, ep, mail, nk, inv, links>>
  BY Zenon DEF IInv, Fetch
<1>2. Settles(u, Idle, store[u])
  BY <1>1, IdleOk, Zenon
<1>3. sub' = [sub EXCEPT ![u] = Idle] /\ store' = [store EXCEPT ![u] = store[u]]
  BY <1>1, Zenon DEF TypeOK
<1>4. Len(hist) \in Nat /\ v \in 1 .. Len(hist) /\ Len(logs[v]) \in Nat
  BY <1>1, SMTT(60) DEF TypeOK
<1>5. w \in Views /\ w.v \in 0 .. Len(hist) /\ w.v # 0 /\ w.n <= Len(logs[w.v])
  BY <1>4, SMTT(60) DEF Views
<1>6. inv' \subseteq Invites /\ links' \subseteq Nat
  BY <1>1, Zenon DEF TypeOK
<1> HIDE DEF w
<1>7. QED
  BY <1>1, <1>2, <1>3, <1>5, <1>6, SettleOk, ZenonT(60)

(* An application that drops its view. *)
LEMMA ForgetOk ==
  ASSUME IInv, NEW u \in Users, Forget(u)
  PROVE  IInv'
<1>1. /\ TypeOK /\ sub[u] = Idle /\ sub' = sub /\ store' = store
      /\ view' = [view EXCEPT ![u] = NoView]
      /\ UNCHANGED <<sc, hist, logs, queue, ep, mail, nk, inv, links>>
  BY Zenon DEF IInv, Forget
<1>2. Settles(u, Idle, store[u])
  BY <1>1, IdleOk, Zenon
<1>3. sub' = [sub EXCEPT ![u] = Idle] /\ store' = [store EXCEPT ![u] = store[u]]
  BY <1>1, Zenon DEF TypeOK
<1>4. /\ NoView \in Views /\ NoView.v \in 0 .. Len(hist)
      /\ NoView.v = 0 /\ NoView.n = 0
      /\ inv' \subseteq Invites /\ links' \subseteq Nat
  BY <1>1, SMTT(60) DEF NoView, Views, TypeOK
<1>5. QED
  BY <1>1, <1>2, <1>3, <1>4, SettleOk, ZenonT(60)

(* Steps that only touch account records, acquaintances and the queue. *)
LEMMA AsideOk ==
  ASSUME IInv, TypeOK', NEW u \in Users,
         \A w \in Users \ {u} : store'[w] = store[w],
         store'[u].gk = store[u].gk, store'[u].pend = store[u].pend,
         UNCHANGED <<hist, logs, view, sub, mail, nk>>
  PROVE  IInv'
<1>1. UserOk(u)
  BY Zenon DEF IInv
<1>2. Quiet(u)
  <2>1. GoodKey(u, store[u].gk) /\ GoodKey(u, store[u].pend)
    BY Zenon DEF GoodKey, Holds
  <2>2. GoodKey(u, store'[u].gk) /\ GoodKey(u, store'[u].pend)
    BY <2>1, ZenonT(60)
  <2>3. QED
    BY <2>2, ZenonT(60) DEF Quiet
<1>3. ViewOk(u)' /\ StagedOk(u)'
  BY <1>1, Zenon DEF UserOk, ViewOk, StagedOk
<1>4. KeysUsed' = KeysUsed /\ \A w, k : Entitled(w, k)' <=> Entitled(w, k)
  BY SameHistory, Zenon
<1>5. sub'[u].st = "tell" => TellingOk(u)'
  BY <1>1, <1>4, ZenonT(60) DEF UserOk, TellingOk
<1>6. ASSUME Asked(u)' PROVE AskedOk(u)'
  <2>1. AskedOk(u)
    BY <1>1, <1>6, Zenon DEF UserOk, Asked
  <2>2. Founds(u, sub[u])' <=> Founds(u, sub[u])
    BY SMTT(60) DEF Founds, Uids, Admins
  <2>3. Extends(u, sub[u])' <=> Extends(u, sub[u])
    BY SMTT(60) DEF Extends, Uids, Admins
  <2>4. GroupKeyLoad(store[u])' = GroupKeyLoad(store[u])
    BY Zenon DEF GroupKeyLoad
  <2>5. Uids(sub[u].core)' = Uids(sub[u].core)
    BY Zenon DEF Uids
  <2>6. Built(u, sub[u], store[u])'
    BY <2>1, <2>2, <2>3, <2>4, <2>5, ZenonT(60) DEF AskedOk, Built
  <2>7. Secret(u, sub[u].core.gk)' <=> Secret(u, sub[u].core.gk)
    <3>1. \A w \in Users : store'[w].gk = store[w].gk /\ store'[w].pend = store[w].pend
      BY Zenon
    <3>2. QED
      BY <1>4, <3>1, ZenonT(60) DEF Secret, Holds
  <2>8. QED
    BY <2>1, <2>6, <2>7, Zenon DEF AskedOk, Fresh
<1>7. QED
  BY <1>2, <1>3, <1>5, <1>6, QuietOk, Zenon DEF OwnOk

(* A new account record touches no key and no version. *)
LEMMA RegisterOk ==
  ASSUME IInv, NEW u \in Users, Register(u)
  PROVE  IInv'
<1>1. TypeOK'
  BY DEF IInv, TypeOK, Register
<1>2. QED
  BY <1>1, AsideOk, ZenonT(60) DEF Register

(* An acquaintance touches no group key. *)
LEMMA AcceptAcquaintanceOk ==
  ASSUME IInv, NEW u \in Users, NEW w \in Users, AcceptAcquaintance(u, w)
  PROVE  IInv'
<1> DEFINE s == AcquaintanceStore(store[u], w, ep[w])
<1>1. store[u] \in Stores /\ ep[w] \in Nat /\ store \in [Users -> Stores] /\ TypeOK
  BY Zenon DEF IInv, TypeOK
<1>2. s \in Stores /\ s.gk = store[u].gk /\ s.pend = store[u].pend
  BY <1>1, ZenonT(60) DEF AcquaintanceStore, Stores
<1>3. store' = [store EXCEPT ![u] = s]
  BY Zenon DEF AcceptAcquaintance
<1> HIDE DEF s
<1>4. store' \in [Users -> Stores] /\ store'[u] = s /\ \A x \in Users \ {u} : store'[x] = store[x]
  BY <1>1, <1>2, <1>3, Zenon
<1>5. TypeOK'
  BY <1>1, <1>4, Zenon DEF TypeOK, AcceptAcquaintance
<1>6. QED
  BY <1>2, <1>4, <1>5, AsideOk, ZenonT(60) DEF AcceptAcquaintance

(* An answered invitation only enters the queue. *)
LEMMA AcceptInvitationOk ==
  ASSUME IInv, NEW i \in inv, AcceptInvitation(i)
  PROVE  IInv'
<1>1. TypeOK
  BY Zenon DEF IInv
<1>2. i[1] \in Users /\ i[2] \in Users /\ i[3] \in Nat /\ ep[i[2]] \in Nat
  BY <1>1, Zenon DEF TypeOK, Invites
<1>3. InviteSeal(i[3], i[2], ep[i[2]]) \in Answers
  BY <1>2, Zenon DEF InviteSeal, JoinSeal, JoinDerive, PersSign, Answers
<1>4. TypeOK'
  BY <1>1, <1>3, Zenon DEF TypeOK, AcceptInvitation
<1>5. QED
  BY <1>2, <1>4, AsideOk, ZenonT(60) DEF AcceptInvitation

(* Mail is read in order. *)
LEMMA MailOk ==
  ASSUME NEW m \in Seq(Nat)
  PROVE  /\ \A k \in Nat : Append(m, k) \in Seq(Nat) /\ Range(Append(m, k)) \subseteq Range(m) \cup {k}
         /\ m # << >> => /\ Tail(m) \in Seq(Nat) /\ Range(Tail(m)) \subseteq Range(m)
                         /\ Head(m) \in Nat /\ Head(m) \in Range(m)
<1>1. ASSUME NEW k \in Nat
      PROVE  Append(m, k) \in Seq(Nat) /\ Range(Append(m, k)) \subseteq Range(m) \cup {k}
  <2>1. /\ Append(m, k) \in Seq(Nat) /\ DOMAIN Append(m, k) = 1 .. Len(m) + 1
        /\ DOMAIN m = 1 .. Len(m) /\ Len(m) \in Nat
        /\ \A i \in 1 .. Len(m) : Append(m, k)[i] = m[i]
        /\ Append(m, k)[Len(m) + 1] = k
    OBVIOUS
  <2>2. QED
    BY <2>1, SMTT(60) DEF Range
<1>2. ASSUME m # << >>
      PROVE  /\ Tail(m) \in Seq(Nat) /\ Range(Tail(m)) \subseteq Range(m)
             /\ Head(m) \in Nat /\ Head(m) \in Range(m)
  <2>1. /\ Tail(m) \in Seq(Nat) /\ DOMAIN Tail(m) = 1 .. Len(m) - 1
        /\ DOMAIN m = 1 .. Len(m) /\ Len(m) \in Nat /\ Len(m) >= 1
        /\ \A i \in 1 .. Len(m) - 1 : Tail(m)[i] = m[i + 1]
        /\ Head(m) = m[1] /\ Head(m) \in Nat
    BY <1>2, SMTT(60)
  <2>2. ASSUME NEW i \in 1 .. Len(m) - 1 PROVE i + 1 \in DOMAIN m
    BY <2>1, SMTT(60)
  <2>3. 1 \in DOMAIN m
    BY <2>1, SMTT(60)
  <2>4. ASSUME NEW i \in DOMAIN Tail(m) PROVE \E j \in DOMAIN m : m[j] = Tail(m)[i]
    BY <2>1, <2>2, Zenon
  <2>5. Range(Tail(m)) \subseteq Range(m)
    BY <2>4, ZenonT(60) DEF Range
  <2>6. QED
    BY <2>1, <2>3, <2>5, Zenon DEF Range
<1>3. QED
  BY <1>1, <1>2, Zenon

(* A key that is sent goes to somebody entitled to it. *)
LEMMA TellOk ==
  ASSUME IInv, NEW u \in Users, NEW w \in Users, Tell(u, w)
  PROVE  IInv'
<1> DEFINE g == sub[u].gk
           x == Telling(g, sub[u].tell \ {w})
           m == Append(mail[w], g)
<1>1. /\ TypeOK /\ UserOk(u) /\ sub[u] \in Subs /\ sub[u].st = "tell" /\ mail[w] \in Seq(Nat)
      /\ w \in sub[u].tell
  BY Zenon DEF IInv, TypeOK, Tell
<1>2. g \in Nat /\ sub[u].tell \in SUBSET Users
  BY <1>1, SMTT(60) DEF Subs, CoreRequests, LineRequests, Request, Tellings, Idle, Steps
<1>3. g \in KeysUsed /\ \A y \in sub[u].tell : Entitled(y, g)
  BY <1>1, Zenon DEF UserOk, TellingOk
<1>4. Tells(x, g, sub[u].tell \ {w})
  BY <1>2, TellingShape, sub[u].tell \ {w} \in SUBSET Users, ZenonT(60)
<1>5. m \in Seq(Nat) /\ Range(m) \subseteq Range(mail[w]) \cup {g}
  BY <1>1, <1>2, MailOk, Zenon
<1>6. sub' = [sub EXCEPT ![u] = x] /\ mail' = [mail EXCEPT ![w] = m]
  BY Zenon DEF Tell
<1>14. UNCHANGED <<sc, hist, logs, queue, ep, store, view, inv, links, nk>>
  BY Zenon DEF Tell
<1> HIDE DEF x, m
<1>7. /\ x \in Subs /\ x.st \in {"tell", "idle"}
      /\ x.st = "tell" => x.gk = g /\ x.tell = sub[u].tell \ {w}
  BY <1>4, SMTT(60) DEF Tells, Subs, Tellings, Idle
<1>8. /\ sub' \in [Users -> Subs] /\ mail' \in [Users -> Seq(Nat)]
      /\ sub'[u] = x /\ mail'[w] = m /\ \A y \in Users \ {u} : sub'[y] = sub[y]
      /\ \A y \in Users \ {w} : mail'[y] = mail[y]
  BY <1>1, <1>5, <1>6, <1>7, Zenon DEF TypeOK
<1>9. TypeOK'
  BY <1>1, <1>8, <1>14, Zenon DEF TypeOK
<1>10. Quiet(u)
  <2>1. GoodKey(u, store[u].gk) /\ GoodKey(u, store[u].pend)
    BY Zenon DEF GoodKey, Holds
  <2>2. store'[u].gk = store[u].gk /\ store'[u].pend = store[u].pend
    BY <1>14, Zenon
  <2>3. GoodKey(u, store'[u].gk) /\ GoodKey(u, store'[u].pend)
    BY <2>1, <2>2, ZenonT(60)
  <2>4. \A y \in Users : \A k \in Range(mail'[y]) :
            k \in Range(mail[y]) \/ (k \in KeysUsed /\ Entitled(y, k))
    BY <1>1, <1>3, <1>5, <1>8, ZenonT(60)
  <2>5. QED
    BY <1>8, <1>14, <2>3, <2>4, ZenonT(60) DEF Quiet
<1>11. ViewOk(u)' /\ StagedOk(u)' /\ ~Asked(u)'
  <2>1. store[u].pend = NoKey
    BY <1>1, StagedThen, Zenon DEF Steps
  <2>2. QED
    BY <1>1, <1>7, <1>8, <1>14, <2>1, ZenonT(60) DEF UserOk, ViewOk, StagedOk, Asked, Steps
<1>12. sub'[u].st = "tell" => TellingOk(u)'
  <2>1. KeysUsed' = KeysUsed /\ \A y, k : Entitled(y, k)' <=> Entitled(y, k)
    BY <1>14, SameHistory, Zenon
  <2>2. SUFFICES ASSUME x.st = "tell" PROVE TellingOk(u)'
    BY <1>8, Zenon
  <2>3. sub'[u].gk = sub[u].gk /\ sub'[u].tell \subseteq sub[u].tell
    BY <1>7, <1>8, <2>2, Zenon
  <2> HIDE DEF g
  <2>4. QED
    BY <1>3, <2>1, <2>3, ZenonT(60) DEF TellingOk, g
<1>13. QED
  BY <1>9, <1>10, <1>11, <1>12, QuietOk, Zenon DEF OwnOk

(* A key that arrives replaces the one held, and its holder is entitled to *)
(* it.                                                                     *)
LEMMA InstallOk ==
  ASSUME IInv, NEW u \in Users, Install(u)
  PROVE  IInv'
<1> DEFINE k == Head(mail[u])
           s == GroupKeyStore(store[u], k)
           m == Tail(mail[u])
<1>1. /\ TypeOK /\ UserOk(u) /\ mail[u] \in Seq(Nat) /\ mail[u] # << >> /\ store[u] \in Stores
      /\ sub[u].st \in {"idle", "tell"} /\ store[u].pend = NoKey
      /\ UNCHANGED <<sc, hist, logs, queue, ep, view, sub, inv, links, nk>>
  BY StagedThen, ZenonT(60) DEF IInv, TypeOK, Install, Steps
<1>2. k \in Nat /\ k \in Range(mail[u]) /\ m \in Seq(Nat) /\ Range(m) \subseteq Range(mail[u])
  BY <1>1, MailOk, ZenonT(60)
<1>3. store' = [store EXCEPT ![u] = s] /\ mail' = [mail EXCEPT ![u] = m]
  BY Zenon DEF Install
<1> HIDE DEF k, m
<1>4. s \in Stores /\ s.gk = k /\ s.pend = NoKey
  BY <1>1, <1>2, ZenonT(60) DEF GroupKeyStore, Stores
<1> HIDE DEF s
<1>5. /\ store' \in [Users -> Stores] /\ mail' \in [Users -> Seq(Nat)]
      /\ store'[u] = s /\ mail'[u] = m
      /\ \A y \in Users \ {u} : store'[y] = store[y] /\ mail'[y] = mail[y]
  BY <1>1, <1>2, <1>3, <1>4, Zenon DEF TypeOK
<1>6. TypeOK'
  BY <1>1, <1>5, Zenon DEF TypeOK
<1>7. Quiet(u)
  <2>1. GoodKey(u, store'[u].gk) /\ GoodKey(u, store'[u].pend)
    BY <1>2, <1>4, <1>5, Zenon DEF GoodKey, Holds
  <2>2. \A y \in Users : \A j \in Range(mail'[y]) : j \in Range(mail[y])
    BY <1>2, <1>5, Zenon
  <2>3. QED
    BY <1>1, <1>5, <2>1, <2>2, ZenonT(60) DEF Quiet
<1>8. ViewOk(u)' /\ StagedOk(u)' /\ ~Asked(u)'
  BY <1>1, <1>4, <1>5, Zenon DEF UserOk, ViewOk, StagedOk, Asked, Steps
<1>9. sub'[u].st = "tell" => TellingOk(u)'
  <2>1. KeysUsed' = KeysUsed /\ \A y, j : Entitled(y, j)' <=> Entitled(y, j)
    BY <1>1, SameHistory, Zenon
  <2>2. SUFFICES ASSUME sub[u].st = "tell" PROVE TellingOk(u)'
    BY <1>1, Zenon
  <2>3. TellingOk(u) /\ sub' = sub
    BY <1>1, <2>2, Zenon DEF UserOk
  <2>4. QED
    BY <2>1, <2>3, ZenonT(60) DEF TellingOk
<1>10. QED
  BY <1>6, <1>7, <1>8, <1>9, QuietOk, Zenon DEF OwnOk

-----------------------------------------------------------------------------
(* The server.                                                             *)

(* The request with the answer filled in. *)
LEMMA AnsweredOk ==
  ASSUME IInv, NEW u \in Users, NEW ok, sub[u].st = "sent", Answered(u, ok)
  PROVE  LET r == sub[u]
             x == [r EXCEPT !.st = IF ok THEN "accepted" ELSE "refused"]
         IN  /\ r \in CoreRequests \cup LineRequests
             /\ x \in CoreRequests \cup LineRequests
             /\ x.st = IF ok THEN "accepted" ELSE "refused"
             /\ x.op = r.op /\ x.core = r.core /\ x.ext = r.ext /\ x.rot = r.rot /\ x.tell = r.tell
             /\ sub' \in [Users -> Subs] /\ sub'[u] = x
             /\ \A w \in Users \ {u} : sub'[w] = sub[w]
<1> DEFINE r == sub[u]
           x == [r EXCEPT !.st = IF ok THEN "accepted" ELSE "refused"]
<1>1. sub \in [Users -> Subs] /\ r \in Subs
  BY Zenon DEF IInv, TypeOK
<1>2. r \in CoreRequests \cup LineRequests
  BY <1>1, SMTT(60) DEF Subs, Tellings, Idle
<1>3. \A T : r \in Request(T) => x \in Request(T)
  BY Zenon DEF Request, Steps
<1>4. /\ x.st = IF ok THEN "accepted" ELSE "refused"
      /\ x.op = r.op /\ x.core = r.core /\ x.ext = r.ext /\ x.rot = r.rot /\ x.tell = r.tell
  <2>1. \A T : r \in Request(T) => DOMAIN r = {"st", "op", "core", "ext", "vkr", "rot", "tell", "drop", "inv", "link"}
    BY Zenon DEF Request
  <2>2. DOMAIN r = {"st", "op", "core", "ext", "vkr", "rot", "tell", "drop", "inv", "link"}
    BY <1>2, <2>1, Zenon DEF CoreRequests, LineRequests
  <2>3. QED
    BY <2>2, Zenon
<1>5. sub' = [sub EXCEPT ![u] = x]
  BY Zenon DEF Answered
<1> HIDE DEF x
<1>6. x \in CoreRequests \cup LineRequests
  BY <1>2, <1>3, <1>4, Zenon DEF CoreRequests, LineRequests
<1>7. x \in Subs
  BY <1>6, Zenon DEF Subs
<1>8. sub' \in [Users -> Subs] /\ sub'[u] = x /\ \A w \in Users \ {u} : sub'[w] = sub[w]
  BY <1>1, <1>5, <1>7, Zenon
<1>9. QED
  BY <1>2, <1>4, <1>6, <1>8, Zenon DEF x

(* The server appends a line to the appendix of the head, or refuses it. *)
LEMMA ServeLineOk ==
  ASSUME IInv, NEW u \in Users, ServeLine(u)
  PROVE  IInv'
<1> DEFINE ok == LineAccepted(sub[u])
           l == sub[u].core
<1>1. /\ TypeOK /\ UserOk(u) /\ sub[u].st = "sent" /\ sub[u].op = "line" /\ Answered(u, ok)
      /\ UNCHANGED <<sc, hist, queue, ep, store, view, mail, inv, links, nk>>
      /\ logs' = logs \/ logs' = [logs EXCEPT ![Len(logs)] = Append(logs[Len(logs)], l)]
  BY Zenon DEF IInv, ServeLine
<1> HIDE DEF ok
<1>2. /\ sub[u] \in CoreRequests \cup LineRequests
      /\ sub'[u].st \in {"accepted", "refused"} /\ sub'[u].op = "line"
      /\ sub' \in [Users -> Subs] /\ \A w \in Users \ {u} : sub'[w] = sub[w]
  BY <1>1, AnsweredOk, ZenonT(60)
<1>3. l \in Lines /\ ~sub[u].rot
  BY <1>1, <1>2, ZenonT(60) DEF CoreRequests, LineRequests, Request
<1>4. logs' \in Seq(Seq(Lines)) /\ Len(logs') = Len(logs) /\ LinesAdded
  <2> DEFINE S == Seq(Lines)
             n == Len(logs)
  <2>1. logs \in Seq(S) /\ Len(logs) = Len(hist) /\ DOMAIN hist = 1 .. n /\ DOMAIN logs = 1 .. n /\ n \in Nat
    BY <1>1, SMTT(60) DEF TypeOK
  <2>2. \A i \in 1 .. n : logs[i] \in S /\ Len(logs[i]) \in Nat
    BY <2>1, SMTT(60)
  <2>3. CASE logs' = logs
    BY <2>1, <2>2, <2>3, SMTT(60) DEF LinesAdded
  <2>4. CASE logs' = [logs EXCEPT ![n] = Append(logs[n], l)]
    <3>1. n \in 1 .. n => /\ Append(logs[n], l) \in S
                          /\ Len(Append(logs[n], l)) = Len(logs[n]) + 1
      BY <1>3, <2>2, SMTT(60)
    <3> HIDE DEF S
    <3>2. logs' \in [1 .. n -> S]
      BY <2>1, <2>2, <2>4, <3>1, ZenonT(60)
    <3>3. logs' \in Seq(S) /\ Len(logs') = n
      BY <2>1, <3>2, SMTT(60)
    <3>4. ASSUME NEW i \in 1 .. n PROVE Len(logs[i]) <= Len(logs'[i])
      <4>1. CASE i = n
        <5>1. logs'[i] = Append(logs[n], l)
          BY <2>1, <2>4, <4>1, Zenon
        <5>2. QED
          BY <2>2, <3>1, <4>1, <5>1, SMTT(60)
      <4>2. CASE i # n
        <5>1. logs'[i] = logs[i]
          BY <2>1, <2>4, <4>2, ZenonT(60)
        <5>2. QED
          BY <2>2, <5>1, SMTT(60)
      <4>3. QED
        BY <4>1, <4>2, Zenon
    <3>5. LinesAdded
      BY <2>1, <3>4, Zenon DEF LinesAdded
    <3>6. QED
      BY <3>3, <3>5, ZenonT(60) DEF S
  <2>5. QED
    BY <1>1, <2>3, <2>4, Zenon
<1>5. TypeOK'
  BY <1>1, <1>2, <1>4, Zenon DEF TypeOK
<1>6. Quiet(u)
  <2>1. GoodKey(u, store[u].gk) /\ GoodKey(u, store[u].pend)
    BY Zenon DEF GoodKey, Holds
  <2>2. store'[u].gk = store[u].gk /\ store'[u].pend = store[u].pend
    BY <1>1, ZenonT(60)
  <2>3. GoodKey(u, store'[u].gk) /\ GoodKey(u, store'[u].pend)
    BY <2>1, <2>2, ZenonT(60)
  <2>4. hist' = hist /\ store' = store /\ view' = view /\ mail' = mail /\ nk' = nk
    BY <1>1, Zenon
  <2>5. QED
    BY <1>2, <1>4, <2>3, <2>4, ZenonT(60) DEF Quiet
<1>7. StagedOk(u)' /\ ~Asked(u)' /\ sub'[u].st # "tell"
  <2>1. store[u].pend = NoKey
    BY <1>1, <1>3, StagedThen, Zenon DEF Steps
  <2>2. store' = store
    BY <1>1, ZenonT(60)
  <2>3. StagedOk(u)'
    BY <2>1, <2>2, ZenonT(60) DEF StagedOk
  <2>4. QED
    BY <1>2, <2>3, Zenon DEF Asked
<1>8. ViewOk(u)'
  <2>1. ViewOk(u) /\ view'[u] = view[u] /\ hist' = hist /\ view[u] \in Views
    BY <1>1, Zenon DEF UserOk, TypeOK
  <2>2. view[u].v # 0 => Len(logs[view[u].v]) \in Nat /\ Len(logs'[view[u].v]) \in Nat
                         /\ Len(logs[view[u].v]) <= Len(logs'[view[u].v])
    <3>1. DOMAIN hist = 1 .. Len(hist) /\ Len(hist) \in Nat /\ view[u].v \in Nat
      BY <1>1, <2>1, SMTT(60) DEF TypeOK, Views
    <3>2. view[u].v # 0 => view[u].v \in DOMAIN hist
      BY <2>1, <3>1, SMTT(60) DEF ViewOk
    <3>3. \A i \in DOMAIN hist : Len(logs[i]) \in Nat /\ Len(logs'[i]) \in Nat
      BY <1>1, <1>4, SMTT(60) DEF TypeOK
    <3>4. QED
      BY <1>4, <3>2, <3>3, Zenon DEF LinesAdded
  <2>3. QED
    BY <2>1, <2>2, SMTT(60) DEF ViewOk, Views
<1>9. QED
  BY <1>5, <1>6, <1>7, <1>8, QuietOk, Zenon DEF OwnOk

(* What the answer leaves of a request for a core. *)
LEMMA BuiltAnswered ==
  ASSUME NEW u, NEW r, NEW x, NEW s, Built(u, r, s),
         x.op = r.op, x.core = r.core, x.ext = r.ext, x.rot = r.rot, x.tell = r.tell
  PROVE  Built(u, x, s)
<1>1. Founds(u, r) => Founds(u, x)
  BY Zenon DEF Founds
<1>2. Extends(u, r) => Extends(u, x)
  BY Zenon DEF Extends
<1>3. QED
  BY <1>1, <1>2, Zenon DEF Built

(* And it stays so built while the history grows. *)
LEMMA BuiltStays ==
  ASSUME NEW u, NEW y, NEW s, Built(u, y, s), sub'[u] = y, store'[u] = s,
         \A i \in DOMAIN hist : i \in DOMAIN hist' /\ hist'[i] = hist[i]
  PROVE  Built(u, sub[u], store[u])'
<1>a. /\ Uids(sub[u].core)' = Uids(y.core) /\ Admins(sub[u].core)' = Admins(y.core)
      /\ GroupKeyLoad(store[u])' = GroupKeyLoad(s)
  BY Zenon DEF Uids, Admins, GroupKeyLoad
<1>1. Founds(u, y) => Founds(u, sub[u])'
  BY <1>a, Zenon DEF Founds
<1>2. ASSUME Extends(u, y) PROVE Extends(u, sub[u])'
  <2>1. y.ext \in DOMAIN hist' /\ hist'[y.ext] = hist[y.ext]
    BY <1>2, Zenon DEF Extends
  <2>2. /\ Uids(hist[sub[u].ext])' = Uids(hist[y.ext])
        /\ Admins(hist[sub[u].ext])' = Admins(hist[y.ext])
        /\ Uids(sub[u].core)' = Uids(y.core)
    BY <2>1, ZenonT(60) DEF Uids, Admins
  <2>3. QED
    BY <1>2, <2>1, <2>2, ZenonT(60) DEF Extends
<1>3. QED
  BY <1>a, <1>1, <1>2, Zenon DEF Built

(* A core the server refuses changes no version. *)
LEMMA RefusedOk ==
  ASSUME IInv, NEW u \in Users, ServeCore(u), ~CoreAccepted(sub[u])
  PROVE  IInv'
<1> DEFINE x == [sub[u] EXCEPT !.st = "refused"]
<1>1. /\ TypeOK /\ UserOk(u) /\ sub[u].st = "sent" /\ sub[u].op # "line"
      /\ UNCHANGED <<sc, hist, logs, queue, ep, store, view, mail, inv, links, nk>>
  BY Zenon DEF IInv, ServeCore
<1>2. Answered(u, FALSE)
  BY Zenon DEF ServeCore, Answered
<1>3. /\ sub' \in [Users -> Subs] /\ sub'[u] = x /\ \A w \in Users \ {u} : sub'[w] = sub[w]
      /\ x.op = sub[u].op /\ x.core = sub[u].core /\ x.ext = sub[u].ext /\ x.rot = sub[u].rot
      /\ x.tell = sub[u].tell /\ x.st = "refused"
  BY <1>1, <1>2, AnsweredOk, ZenonT(60)
<1> HIDE DEF x
<1>4. TypeOK'
  BY <1>1, <1>3, Zenon DEF TypeOK
<1>5. Quiet(u)
  <2>1. GoodKey(u, store[u].gk) /\ GoodKey(u, store[u].pend)
    BY Zenon DEF GoodKey, Holds
  <2>2. store'[u].gk = store[u].gk /\ store'[u].pend = store[u].pend
    BY <1>1, Zenon
  <2>3. GoodKey(u, store'[u].gk) /\ GoodKey(u, store'[u].pend)
    BY <2>1, <2>2, ZenonT(60)
  <2>4. hist' = hist /\ logs' = logs /\ store' = store /\ view' = view /\ mail' = mail /\ nk' = nk
    BY <1>1, Zenon
  <2>5. QED
    BY <1>3, <2>3, <2>4, ZenonT(60) DEF Quiet
<1>6. ViewOk(u)' /\ StagedOk(u)'
  <2>1. hist' = hist /\ logs' = logs /\ store' = store /\ view' = view
    BY <1>1, ZenonT(60)
  <2>2. ViewOk(u) /\ StagedOk(u)
    BY <1>1, ZenonT(60) DEF UserOk
  <2>3. ViewOk(u)'
    BY <2>1, <2>2, Zenon DEF ViewOk
  <2>4. sub[u].st \in Steps => sub'[u].st \in Steps /\ sub'[u].rot = sub[u].rot
    BY <1>3, Zenon DEF Steps
  <2>5. sub[u].st # "lost"
    BY <1>1, Zenon
  <2>6. QED
    BY <2>1, <2>2, <2>3, <2>4, <2>5, ZenonT(60) DEF StagedOk
<1>7. AskedOk(u)'
  <2>1. Built(u, sub[u], store[u])
    BY <1>1, ZenonT(60) DEF UserOk, Asked, AskedOk, Steps
  <2>2. Built(u, x, store[u])
    BY <1>3, <2>1, BuiltAnswered, ZenonT(60)
  <2>3. hist' = hist /\ store' = store
    BY <1>1, ZenonT(60)
  <2>a. \A i \in DOMAIN hist : i \in DOMAIN hist' /\ hist'[i] = hist[i]
    BY <2>3, ZenonT(60)
  <2>b. sub'[u] = x /\ store'[u] = store[u]
    BY <1>3, <2>3, ZenonT(60)
  <2>4. Built(u, sub[u], store[u])'
    BY <2>2, <2>a, <2>b, BuiltStays, ZenonT(60)
  <2>5. QED
    BY <1>3, <2>4, ZenonT(60) DEF AskedOk
<1>8. QED
  BY <1>3, <1>4, <1>5, <1>6, <1>7, QuietOk, Zenon DEF OwnOk

(* What the server has when it accepts a core: it extends the head. *)
LEMMA AcceptedCore ==
  ASSUME IInv, NEW u \in Users, sub[u].st = "sent", sub[u].op # "line", CoreAccepted(sub[u])
  PROVE  LET r == sub[u]
             c == r.core
             n == Len(hist)
         IN  /\ Built(u, r, store[u])
             /\ Fresh(r) => Secret(u, c.gk)
             /\ c \in Cores /\ c.vmaj = n + 1 /\ c.gk \in 1 .. nk - 1
             /\ c.by[1] = u /\ u \in Uids(c)
             /\ n = 0 => Uids(c) = {u} /\ Admins(c) = {u}
             /\ n # 0 => u \in Admins(hist[n])
             /\ n # 0 /\ ~Fresh(r) => c.gk = hist[n].gk /\ Uids(hist[n]) \subseteq Uids(c)
             /\ ~Fresh(r) => c.gk \in KeysUsed
<1> DEFINE r == sub[u]
           c == r.core
           n == Len(hist)
<1>1. TypeOK /\ Linear /\ UserOk(u) /\ r \in Subs /\ r.st = "sent" /\ r.op # "line"
  BY Zenon DEF IInv, TypeOK
<1>2. r \in CoreRequests
  BY <1>1, SMTT(60) DEF Subs, LineRequests, Tellings, Idle
<1>3. c \in Cores
  BY <1>2, Zenon DEF CoreRequests, Request
<1>4. Built(u, r, store[u]) /\ (Fresh(r) => Secret(u, c.gk))
  BY <1>1, Zenon DEF UserOk, Asked, AskedOk, Steps
<1>5. c.gk \in 1 .. nk - 1
  <2>1. c.gk = GroupKeyLoad(store[u]) /\ c.gk # NoKey /\ c.gk \in Nat /\ nk \in Nat
    BY <1>1, <1>3, <1>4, ZenonT(60) DEF Built, Cores, TypeOK
  <2>2. Holds(u, c.gk)
    BY <2>1, Zenon DEF Holds, GroupKeyLoad
  <2>3. c.gk < nk
    BY <1>1, <2>1, <2>2, ZenonT(60) DEF UserOk, HoldsOk
  <2> HIDE DEF c
  <2>4. QED
    BY <2>1, <2>3, SMTT(60) DEF NoKey
<1>6. hist \in Seq(Cores) /\ n \in Nat /\ DOMAIN hist = 1 .. n /\ (n = 0 <=> hist = << >>)
  BY <1>1, SMTT(60) DEF TypeOK
<1>7. CASE r.op = "create"
  <2>1. n = 0 /\ Founds(u, r) /\ Fresh(r)
    BY <1>4, <1>6, <1>7, ZenonT(60) DEF CoreAccepted, Built, Fresh
  <2>2. c.vmaj = n + 1 /\ Uids(c) = {u} /\ Admins(c) = {u}
    BY <2>1, SMTT(60) DEF Founds
  <2>3. QED
    BY <1>3, <1>4, <1>5, <2>1, <2>2, ZenonT(60) DEF Built
<1>8. CASE r.op # "create"
  <2>1. hist # << >> /\ r.ext = Head0.vmaj /\ Extends(u, r)
    BY <1>4, <1>8, ZenonT(60) DEF CoreAccepted, VersionCheck, Built
  <2>2. n \in DOMAIN hist /\ n # 0
    BY <1>6, <2>1, SMTT(60)
  <2>3. r.ext = n
    BY <1>1, <2>1, <2>2, Zenon DEF Linear, Head0
  <2>4. /\ c.vmaj = n + 1 /\ u \in Admins(hist[n])
        /\ ~Fresh(r) => c.gk = hist[n].gk /\ Uids(hist[n]) \subseteq Uids(c)
    BY <2>1, <2>3, Zenon DEF Extends, Fresh
  <2>5. ~Fresh(r) => c.gk \in KeysUsed
    BY <2>2, <2>4, Zenon DEF KeysUsed
  <2>6. QED
    BY <1>3, <1>4, <1>5, <2>2, <2>4, <2>5, ZenonT(60) DEF Built
<1>9. QED
  BY <1>7, <1>8, ZenonT(60)

(* A core the server accepts extends the line of versions and the          *)
(* entitlement to its key.                                                 *)
LEMMA AcceptedOk ==
  ASSUME IInv, NEW u \in Users, ServeCore(u), CoreAccepted(sub[u])
  PROVE  IInv'
<1> DEFINE r == sub[u]
           c == r.core
           n == Len(hist)
           x == [r EXCEPT !.st = "accepted"]
<1>1. /\ TypeOK /\ Linear /\ UserOk(u) /\ r.st = "sent" /\ r.op # "line"
      /\ hist' = Append(hist, c) /\ logs' = Append(logs, << >>) /\ queue' = queue \ r.drop
      /\ UNCHANGED <<sc, ep, store, view, mail, inv, links, nk>>
  BY Zenon DEF IInv, ServeCore
<1>2. Answered(u, TRUE)
  BY Zenon DEF ServeCore, Answered
<1>3. /\ sub' \in [Users -> Subs] /\ sub'[u] = x /\ \A w \in Users \ {u} : sub'[w] = sub[w]
      /\ x.op = r.op /\ x.core = c /\ x.ext = r.ext /\ x.rot = r.rot
      /\ x.tell = r.tell /\ x.st = "accepted"
  BY <1>1, <1>2, AnsweredOk, ZenonT(60)
<1>4. /\ Built(u, r, store[u])
      /\ Fresh(r) => Secret(u, c.gk)
      /\ c \in Cores /\ c.vmaj = n + 1 /\ c.gk \in 1 .. nk - 1
      /\ c.by[1] = u /\ u \in Uids(c)
      /\ n = 0 => Uids(c) = {u} /\ Admins(c) = {u}
      /\ n # 0 => u \in Admins(hist[n])
      /\ n # 0 /\ ~Fresh(r) => c.gk = hist[n].gk /\ Uids(hist[n]) \subseteq Uids(c)
      /\ ~Fresh(r) => c.gk \in KeysUsed
  BY <1>1, AcceptedCore, ZenonT(60)
<1>5. \E k : k = c
  BY Zenon
<1>6. PICK k : k = c
  BY <1>5, Zenon
<1> HIDE DEF x, c
<1>7. /\ hist \in Seq(Cores) /\ n \in Nat /\ DOMAIN hist = 1 .. n
      /\ DOMAIN hist' = 1 .. n + 1 /\ Len(hist') = n + 1 /\ hist' \in Seq(Cores)
      /\ hist'[n + 1] = k /\ \A i \in 1 .. n : hist'[i] = hist[i]
  <2>1. hist \in Seq(Cores) /\ hist' = Append(hist, k) /\ k \in Cores
    BY <1>1, <1>4, <1>6, ZenonT(60) DEF TypeOK
  <2>2. QED
    BY <2>1, SMTT(60)
<1>8. /\ logs' \in Seq(Seq(Lines)) /\ Len(logs') = n + 1
      /\ \A i \in 1 .. n : logs'[i] = logs[i] /\ Len(logs[i]) \in Nat
  <2>1. logs \in Seq(Seq(Lines)) /\ Len(logs) = n
    BY <1>1, ZenonT(60) DEF TypeOK
  <2>2. << >> \in Seq(Lines)
    OBVIOUS
  <2>3. \A i \in 1 .. n : Len(logs[i]) \in Nat
    BY <2>1, SMTT(60)
  <2>4. logs' = Append(logs, << >>) /\ n \in Nat
    BY <1>1, <1>7, ZenonT(60)
  <2> HIDE DEF n
  <2>5. logs' \in Seq(Seq(Lines)) /\ Len(logs') = n + 1 /\ \A i \in 1 .. n : logs'[i] = logs[i]
    BY <2>1, <2>2, <2>4, SMTT(60)
  <2>6. QED
    BY <2>3, <2>5, Zenon
<1>9. TypeOK'
  <2>1. queue' \subseteq Answers
    BY <1>1, Zenon DEF TypeOK
  <2>2. QED
    BY <1>1, <1>3, <1>7, <1>8, <2>1, ZenonT(60) DEF TypeOK
<1>10. Grows
  BY <1>1, <1>7, <1>8, SMTT(60) DEF Grows, TypeOK
<1>11. KeysUsed' \subseteq KeysUsed \cup {k.gk}
  BY <1>7, SMTT(60) DEF KeysUsed
<1>12. ASSUME Fresh(r) PROVE \A i \in 1 .. n : hist[i].gk # k.gk
  BY <1>4, <1>6, <1>7, <1>12, ZenonT(60) DEF Secret, KeysUsed
<1>13. Linear'
  <2>1. ASSUME NEW i \in 1 .. n
        PROVE  /\ hist'[i].vmaj = i /\ hist'[i].gk \in 1 .. nk' - 1
               /\ i = 1 => /\ Uids(hist'[i]) = {hist'[i].by[1]}
                           /\ Admins(hist'[i]) = {hist'[i].by[1]}
               /\ i > 1 => Follows(i)'
    <3>1. /\ hist[i].vmaj = i /\ hist[i].gk \in 1 .. nk - 1
          /\ i = 1 => /\ Uids(hist[i]) = {hist[i].by[1]}
                      /\ Admins(hist[i]) = {hist[i].by[1]}
          /\ i > 1 => Follows(i)
      BY <1>1, <1>7, Zenon DEF Linear
    <3>2. hist'[i] = hist[i] /\ nk' = nk
      BY <1>1, <1>7, Zenon
    <3>3. ASSUME i > 1, Follows(i) PROVE Follows(i)'
      <4>1. i - 1 \in 1 .. n /\ \A j \in 1 .. i - 1 : j \in 1 .. n
        BY <1>7, <3>3, SMTT(60)
      <4>2. hist'[i - 1] = hist[i - 1] /\ \A j \in 1 .. i - 1 : hist'[j] = hist[j]
        BY <1>7, <4>1, Zenon
      <4>3. /\ Uids(hist[i])' = Uids(hist[i]) /\ Uids(hist[i - 1])' = Uids(hist[i - 1])
            /\ Admins(hist[i - 1])' = Admins(hist[i - 1])
        BY <3>2, <4>2, ZenonT(60) DEF Uids, Admins
      <4>4. QED
        BY <3>2, <3>3, <4>2, <4>3, ZenonT(60) DEF Follows
    <3>4. QED
      BY <3>1, <3>2, <3>3, Zenon
  <2>2. /\ k.vmaj = n + 1 /\ k.gk \in 1 .. nk' - 1 /\ hist'[n + 1] = k
        /\ n + 1 = 1 => Uids(k) = {k.by[1]} /\ Admins(k) = {k.by[1]}
    <3>1. nk' = nk
      BY <1>1, Zenon
    <3>2. /\ k.vmaj = n + 1 /\ k.gk \in 1 .. nk - 1
          /\ n = 0 => Uids(k) = {k.by[1]} /\ Admins(k) = {k.by[1]}
      BY <1>4, <1>6, ZenonT(60)
    <3>3. n + 1 = 1 => n = 0
      BY <1>7, SMTT(60)
    <3>4. QED
      BY <1>7, <3>1, <3>2, <3>3, ZenonT(60)
  <2>3. ASSUME NEW i, i = n + 1, i > 1 PROVE Follows(i)'
    <3>1. i - 1 = n /\ n # 0 /\ hist'[n] = hist[n] /\ hist'[i] = k
          /\ \A j \in 1 .. n : hist'[j] = hist[j]
      BY <1>7, <2>3, SMTT(60)
    <3>2. k.by[1] \in Admins(hist[n])
      BY <1>4, <1>6, <3>1, Zenon
    <3>3. CASE Fresh(r)
      <4>1. \A j \in 1 .. i - 1 : hist'[j].gk # hist'[i].gk
        BY <1>12, <3>1, <3>3, Zenon
      <4>2. Admins(hist[i - 1])' = Admins(hist[n])
        BY <3>1, ZenonT(60) DEF Admins
      <4>3. QED
        BY <3>1, <3>2, <4>1, <4>2, ZenonT(60) DEF Follows
    <3>4. CASE ~Fresh(r)
      <4>1. k.gk = hist[n].gk /\ Uids(hist[n]) \subseteq Uids(k)
        BY <1>4, <1>6, <3>1, <3>4, ZenonT(60)
      <4>2. /\ Uids(hist[i])' = Uids(k) /\ Uids(hist[i - 1])' = Uids(hist[n])
            /\ Admins(hist[i - 1])' = Admins(hist[n])
        BY <3>1, ZenonT(60) DEF Uids, Admins
      <4>3. QED
        BY <3>1, <3>2, <4>1, <4>2, Zenon DEF Follows
    <3>5. QED
      BY <3>3, <3>4, Zenon
  <2>4. ASSUME NEW i \in DOMAIN hist'
        PROVE  /\ hist'[i].vmaj = i /\ hist'[i].gk \in 1 .. nk' - 1
               /\ i = 1 => /\ Uids(hist'[i]) = {hist'[i].by[1]}
                           /\ Admins(hist'[i]) = {hist'[i].by[1]}
               /\ i > 1 => Follows(i)'
    <3>1. i \in 1 .. n \/ i = n + 1
      BY <1>7
    <3>2. QED
      BY <2>1, <2>2, <2>3, <3>1, ZenonT(60)
  <2>5. QED
    BY <2>4, Zenon DEF Linear, Uids, Admins
<1>14. Moves(u)
  <2>1. \A w \in Users \ {u} : sub'[w] = sub[w] /\ store'[w] = store[w] /\ view'[w] = view[w]
    BY <1>1, <1>3, ZenonT(60)
  <2>2. \A w \in Users : \A j \in Nat : Holds(w, j)' => Holds(w, j)
    BY <1>1, ZenonT(60) DEF Holds
  <2>3. \A w \in Users : Range(mail'[w]) \subseteq Range(mail[w]) \cup KeysUsed'
    BY <1>1, ZenonT(60)
  <2>4. ASSUME NEW j \in KeysUsed' \ KeysUsed
        PROVE  Entitled(u, j)' /\ \A w \in Users : Holds(w, j) => w = u
    <3>1. j = k.gk /\ Fresh(r)
      BY <1>4, <1>6, <1>11, <2>4, Zenon
    <3>2. Secret(u, j)
      BY <1>4, <1>6, <3>1, Zenon
    <3>3. n + 1 \in DOMAIN hist' /\ hist'[n + 1] = k /\ u \in Uids(k)
      BY <1>4, <1>6, <1>7, SMTT(60)
    <3>4. \E i \in DOMAIN hist' : hist'[i].gk = j /\ u \in Uids(hist'[i])
      BY <3>1, <3>3, Zenon
    <3>5. Entitled(u, j)'
      BY <3>4, ZenonT(60) DEF Entitled, Uids
    <3>6. QED
      BY <3>2, <3>5, Zenon DEF Secret
  <2>5. QED
    BY <1>10, <2>1, <2>2, <2>3, <2>4, ZenonT(60) DEF Moves
<1>15. ViewOk(u)' /\ StagedOk(u)'
  <2>a. ViewOk(u) /\ StagedOk(u) /\ view' = view /\ store' = store
    BY <1>1, ZenonT(60) DEF UserOk
  <2>b. view[u] \in Views
    BY <1>1, ZenonT(60) DEF TypeOK
  <2>1. /\ ViewOk(u) /\ StagedOk(u) /\ view' = view /\ store' = store /\ view[u] \in Views
    BY <2>a, <2>b, Zenon
  <2>2. view[u].v \in 0 .. n /\ (view[u].v # 0 => view[u].v \in 1 .. n)
    BY <1>7, <2>1, SMTT(60) DEF ViewOk, Views
  <2>3. ViewOk(u)'
    <3>1. view' = view /\ n \in Nat /\ Len(hist') = n + 1
      BY <1>1, <1>7, ZenonT(60)
    <3>2. view[u].v # 0 => logs'[view[u].v] = logs[view[u].v]
      BY <1>8, <2>2, ZenonT(60)
    <3>3. view[u].v \in 0 .. n + 1
      BY <2>2, <3>1, SMTT(60)
    <3>4. QED
      BY <2>1, <3>1, <3>2, <3>3, ZenonT(60) DEF ViewOk
  <2>4. hist' # << >>
    BY <1>7, SMTT(60)
  <2>5. StagedOk(u)'
    BY <1>1, <1>3, <2>1, <2>4, Zenon DEF StagedOk, Steps
  <2>6. QED
    BY <2>3, <2>5, Zenon
<1>16. AskedOk(u)'
  <2>1. Built(u, x, store[u])
    BY <1>3, <1>4, BuiltAnswered, ZenonT(60) DEF c
  <2>2. store'[u] = store[u] /\ \A i \in DOMAIN hist : i \in DOMAIN hist' /\ hist'[i] = hist[i]
    BY <1>1, <1>10, Zenon DEF Grows
  <2>3. Built(u, sub[u], store[u])'
    BY <1>3, <2>1, <2>2, BuiltStays, Zenon
  <2>4. sub'[u].core = k /\ k.vmaj = n + 1 /\ sub'[u].st = "accepted"
    BY <1>3, <1>4, <1>6, ZenonT(60)
  <2>5. sub'[u].core.vmaj \in DOMAIN hist' /\ hist'[sub'[u].core.vmaj] = sub'[u].core
    BY <1>7, <2>4, SMTT(60)
  <2>6. QED
    BY <2>3, <2>4, <2>5, Zenon DEF AskedOk
<1>17. QED
  BY <1>3, <1>9, <1>13, <1>14, <1>15, <1>16, StepOk, Zenon DEF OwnOk

(* Every answer of the server keeps the invariant. *)
LEMMA ServeOk ==
  ASSUME IInv, NEW u \in Users, Serve(u)
  PROVE  IInv'
  BY ServeLineOk, AcceptedOk, RefusedOk, Zenon DEF Serve
=============================================================================
