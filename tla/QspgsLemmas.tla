---------------------------- MODULE QspgsLemmas -----------------------------
(***************************************************************************)
(* The types of what the clients and the server of Qspgs keep, and what    *)
(* each edit of a core returns: a core again, one version on, signed by    *)
(* the editor, listing whom it should.  Nothing here is about steps.       *)
(***************************************************************************)
EXTENDS Qspgs, FiniteLemmas, TLAPS

(* The types of what clients and server keep. *)
Members == [uid : Users, admn : BOOLEAN, pend : BOOLEAN, key : Nat]
Hashes == {"hash"} \X (Users \X Nat)
Slots == [key : {"joinlink"} \X Nat, gk : Nat]
MemberLists == Seq(Members)
HashLists == Seq(Hashes)
Pseudonyms == Users \X Nat
Settings == SUBSET Flags
Ops == {"create", "append", "unchanged", "replace", "line"}
Kinds == {"join", "adduser", "leave", "refresh", "modattr"}
Cores == [vmaj : Nat, lvmin : Nat, gk : Nat, mem : MemberLists, vk : HashLists,
          link : Slots, flags : Settings, attr : Nat, signer : Nat, by : Pseudonyms]
Lines == [kind : Kinds, idx : Nat, vmaj : Nat, by : Pseudonyms, uid : Users,
          val : Nat]
Answers == [to : {"join"} \X Nat, pt : [uid : Users, uk : Nat, sig : Users \X Nat]]
Invites == Users \X Users \X Nat
Stores == [gk : Nat, pend : Nat, jls : Nat, acq : [Users -> Nat]]
Views == [v : Nat, n : Nat]
Steps == {"sent", "accepted", "refused"}
Request(what) ==
    [st : Steps, op : Ops, core : what, ext : Nat, vkr : Pseudonyms,
     rot : BOOLEAN, tell : SUBSET Users, drop : SUBSET Answers,
     inv : SUBSET Invites, link : SUBSET Nat]
CoreRequests == {r \in Request(Cores) : r.op # "line"}
LineRequests == {r \in Request(Lines) : r.op = "line" /\ ~r.rot /\ r.tell = {}}
Tellings == [st : {"tell"}, gk : Nat, tell : SUBSET Users]
Subs == CoreRequests \cup LineRequests \cup Tellings \cup {Idle, [st |-> "lost"]}

-----------------------------------------------------------------------------
(* What the helpers on sequences return.                                   *)

(* upto[i] of Kept(seq, at), for the places up to n. *)
IsKeeping(f, seq, at, n) ==
    f = [i \in 0 .. n |-> IF i = 0 THEN << >>
                          ELSE IF i \in at THEN Append(f[i - 1], seq[i]) ELSE f[i - 1]]

(* There is such a function. *)
LEMMA KeepingExists ==
  ASSUME NEW seq, NEW at, NEW n \in Nat
  PROVE  \E f : IsKeeping(f, seq, at, n)
<1> DEFINE S == {k \in Nat : \E f : IsKeeping(f, seq, at, k)}
<1>1. 0 \in S
  <2> DEFINE f == [i \in 0 .. 0 |-> << >>]
  <2>1. f = [i \in 0 .. 0 |-> IF i = 0 THEN << >>
                             ELSE IF i \in at THEN Append(f[i - 1], seq[i]) ELSE f[i - 1]]
    OBVIOUS
  <2>2. IsKeeping(f, seq, at, 0)
    BY <2>1, Zenon DEF IsKeeping
  <2>3. QED
    BY <2>2, Zenon
<1>2. ASSUME NEW k \in Nat, k \in S PROVE k + 1 \in S
  <2>1. PICK f : IsKeeping(f, seq, at, k)
    BY <1>2, Zenon
  <2> DEFINE new == IF k + 1 \in at THEN Append(f[k], seq[k + 1]) ELSE f[k]
             g == [i \in 0 .. k + 1 |-> IF i = k + 1 THEN new ELSE f[i]]
  <2>2. g[k + 1] = new /\ \A i \in 0 .. k : g[i] = f[i]
    OBVIOUS
  <2>3. \A i \in 0 .. k : f[i] = IF i = 0 THEN << >>
                               ELSE IF i \in at THEN Append(f[i - 1], seq[i]) ELSE f[i - 1]
    BY <2>1, ZenonT(60) DEF IsKeeping
  <2>4. \A i \in 0 .. k + 1 : g[i] = IF i = 0 THEN << >>
                                   ELSE IF i \in at THEN Append(g[i - 1], seq[i]) ELSE g[i - 1]
    BY <2>2, <2>3
  <2>5. IsKeeping(g, seq, at, k + 1)
    BY <2>4, Zenon DEF IsKeeping
  <2>6. QED
    BY <2>5
<1> HIDE DEF S
<1>3. n \in S
  BY <1>1, <1>2, NatSetInduction, Zenon
<1>4. QED
  BY <1>3, Zenon DEF S

IsKept(left, seq, at, T) ==
    /\ left \in Seq(T)
    /\ \A i \in DOMAIN seq : i \in at => \E k \in DOMAIN left : left[k] = seq[i]
    /\ \A k \in DOMAIN left : \E i \in DOMAIN seq : i \in at /\ left[k] = seq[i]

(* Kept returns what stands at the places, and nothing else. *)
LEMMA KeptOk ==
  ASSUME NEW T, NEW seq \in Seq(T), NEW at
  PROVE  IsKept(Kept(seq, at), seq, at, T)
<1> DEFINE N == Len(seq)
           f == CHOOSE g : IsKeeping(g, seq, at, N)
<1>1. N \in Nat /\ DOMAIN seq = 1 .. N /\ \A i \in 1 .. N : seq[i] \in T
  OBVIOUS
<1> HIDE DEF N
<1>2. Kept(seq, at) = f[N]
  BY Zenon DEF Kept, IsKeeping, N
<1>3. IsKeeping(f, seq, at, N)
  BY <1>1, KeepingExists, ZenonT(60)
<1> HIDE DEF f
<1>4. f[0] = << >>
  BY <1>1, <1>3 DEF IsKeeping
<1>5. ASSUME NEW i \in 1 .. N
      PROVE  f[i] = IF i \in at THEN Append(f[i - 1], seq[i]) ELSE f[i - 1]
  <2>1. i \in 0 .. N /\ i # 0
    BY <1>1
  <2>2. QED
    BY <1>3, <2>1, ZenonT(60) DEF IsKeeping
<1> DEFINE Ok(n) == /\ f[n] \in Seq(T)
                    /\ \A i \in 1 .. n : i \in at => \E k \in DOMAIN f[n] : f[n][k] = seq[i]
                    /\ \A k \in DOMAIN f[n] : \E i \in 1 .. n : i \in at /\ f[n][k] = seq[i]
           S == {n \in Nat : n <= N => Ok(n)}
<1>6. 0 \in S
  <2>1. << >> \in Seq(T) /\ DOMAIN << >> = {} /\ 1 .. 0 = {}
    OBVIOUS
  <2>2. Ok(0)
    BY <1>4, <2>1, Zenon
  <2>3. QED
    BY <2>2, Zenon
<1>7. ASSUME NEW n \in Nat, n \in S PROVE n + 1 \in S
  <2>1. SUFFICES ASSUME n + 1 <= N PROVE Ok(n + 1)
    OBVIOUS
  <2>2. Ok(n) /\ n + 1 \in 1 .. N /\ (n + 1) - 1 = n /\ seq[n + 1] \in T
    BY <1>1, <1>7, <2>1, SMTT(60)
  <2>3. CASE n + 1 \notin at
    <3>1. f[n + 1] = f[n]
      BY <1>5, <2>2, <2>3, Zenon
    <3>2. QED
      BY <2>2, <2>3, <3>1
  <2>4. CASE n + 1 \in at
    <3> DEFINE x == f[n]
               y == f[n + 1]
    <3>1. x \in Seq(T) /\ y = Append(x, seq[n + 1])
      BY <1>5, <2>2, <2>4, ZenonT(60)
    <3> HIDE DEF x, y
    <3>2. /\ y \in Seq(T) /\ Len(y) = Len(x) + 1 /\ Len(x) \in Nat
          /\ y[Len(x) + 1] = seq[n + 1] /\ \A k \in 1 .. Len(x) : y[k] = x[k]
      BY <2>2, <3>1
    <3>3. DOMAIN x = 1 .. Len(x) /\ DOMAIN y = 1 .. Len(x) + 1
      BY <3>1, <3>2
    <3>4. ASSUME NEW i \in 1 .. n + 1, i \in at PROVE \E k \in DOMAIN y : y[k] = seq[i]
      <4>1. CASE i = n + 1
        BY <3>2, <3>3, <4>1
      <4>2. CASE i # n + 1
        <5>1. \E k \in DOMAIN x : x[k] = seq[i]
          BY <2>2, <3>4, <4>2 DEF x
        <5>2. QED
          BY <3>2, <3>3, <5>1
      <4>3. QED
        BY <4>1, <4>2, Zenon
    <3>5. ASSUME NEW k \in DOMAIN y PROVE \E i \in 1 .. n + 1 : i \in at /\ y[k] = seq[i]
      <4>1. CASE k = Len(x) + 1
        BY <2>4, <3>2, <4>1
      <4>2. CASE k # Len(x) + 1
        <5>0. k \in DOMAIN x
          BY <3>2, <3>3, <4>2
        <5>1. \E i \in 1 .. n : i \in at /\ x[k] = seq[i]
          BY <2>2, <5>0, ZenonT(60) DEF x
        <5>2. QED
          BY <3>2, <3>3, <4>2, <5>1, SMTT(60)
      <4>3. QED
        BY <4>1, <4>2, Zenon
    <3>6. QED
      BY <3>2, <3>4, <3>5, Zenon DEF y
  <2>5. QED
    BY <2>3, <2>4, Zenon
<1> HIDE DEF S
<1>8. N \in S
  BY <1>1, <1>6, <1>7, NatSetInduction, Zenon
<1>9. Ok(N)
  BY <1>1, <1>8, SMTT(60) DEF S
<1>10. QED
  BY <1>1, <1>2, <1>9, ZenonT(60) DEF IsKept

(* The first and the last place of a member are places of that member. *)
LEMMA IndexFound ==
  ASSUME NEW mem, NEW n \in Nat, DOMAIN mem = 1 .. n, NEW u
  PROVE  /\ IndexOf(mem, u) # 0 => /\ IndexOf(mem, u) \in DOMAIN mem
                                   /\ mem[IndexOf(mem, u)].uid = u
         /\ IndexOf(mem, u) # 0 <=> (\E i \in DOMAIN mem : mem[i].uid = u)
         /\ LastIndexOf(mem, u) # 0 <=> (\E i \in DOMAIN mem : mem[i].uid = u)
         /\ IndexOf(mem, u) \in Nat /\ LastIndexOf(mem, u) \in Nat
<1> DEFINE P == PlacesOf(mem, u)
<1>1. P \in SUBSET Nat /\ P \subseteq 1 .. n
  BY DEF PlacesOf
<1>5. P # {} <=> \E i \in DOMAIN mem : mem[i].uid = u
  BY ZenonT(60) DEF PlacesOf
<1>2. CASE P = {}
  BY <1>5, <1>2, Zenon DEF IndexOf, LastIndexOf
<1>3. CASE P # {}
  <2>1. IsFiniteSet(P)
    BY <1>1, FS_Interval, FS_Subset, 0 \in Int, 1 \in Int, n \in Int, ZenonT(60)
  <2>2. Min(P) \in P /\ Max(P) \in P
    BY <1>1, <1>3, <2>1, MinOfNaturals, MaxOfNaturals, ZenonT(60)
  <2>3. IndexOf(mem, u) = Min(P) /\ LastIndexOf(mem, u) = Max(P)
    BY <1>3, Zenon DEF IndexOf, LastIndexOf
  <2>4. \A i \in P : i \in 1 .. n /\ i # 0 /\ mem[i].uid = u
    BY <1>1 DEF PlacesOf
  <2>5. QED
    BY <1>5, <1>3, <2>2, <2>3, <2>4, SMTT(60)
<1>4. QED
  BY <1>2, <1>3, Zenon

-----------------------------------------------------------------------------
(* The edits of a core.  c carries core forward one version: under the     *)
(* same key, signed by u, without dropping anybody.                        *)

Carries(c, core, u) ==
    /\ c \in Cores
    /\ c.vmaj = core.vmaj + 1 /\ c.gk = core.gk /\ c.by[1] = u
    /\ Uids(core) \subseteq Uids(c)

(* A core with one field replaced is a core. *)
LEMMA CoreWith ==
  ASSUME NEW core \in Cores
  PROVE  /\ \A x \in Nat : [core EXCEPT !.vmaj = x] \in Cores
         /\ \A x \in Nat : [core EXCEPT !.lvmin = x] \in Cores
         /\ \A x \in Nat : [core EXCEPT !.gk = x] \in Cores
         /\ \A x \in MemberLists : [core EXCEPT !.mem = x] \in Cores
         /\ \A x \in HashLists : [core EXCEPT !.vk = x] \in Cores
         /\ \A x \in Slots : [core EXCEPT !.link = x] \in Cores
         /\ \A x \in Settings : [core EXCEPT !.flags = x] \in Cores
         /\ \A x \in Nat : [core EXCEPT !.attr = x] \in Cores
         /\ \A x \in Nat : [core EXCEPT !.signer = x] \in Cores
         /\ \A x \in Pseudonyms : [core EXCEPT !.by = x] \in Cores
<1>1. \A x \in Nat : [core EXCEPT !.vmaj = x] \in Cores
  BY Zenon DEF Cores
<1>2. \A x \in Nat : [core EXCEPT !.lvmin = x] \in Cores
  BY Zenon DEF Cores
<1>3. \A x \in Nat : [core EXCEPT !.gk = x] \in Cores
  BY Zenon DEF Cores
<1>4. \A x \in MemberLists : [core EXCEPT !.mem = x] \in Cores
  BY Zenon DEF Cores
<1>5. \A x \in HashLists : [core EXCEPT !.vk = x] \in Cores
  BY Zenon DEF Cores
<1>6. \A x \in Slots : [core EXCEPT !.link = x] \in Cores
  BY Zenon DEF Cores
<1>7. \A x \in Settings : [core EXCEPT !.flags = x] \in Cores
  BY Zenon DEF Cores
<1>8. \A x \in Nat : [core EXCEPT !.attr = x] \in Cores
  BY Zenon DEF Cores
<1>9. \A x \in Nat : [core EXCEPT !.signer = x] \in Cores
  BY Zenon DEF Cores
<1>10. \A x \in Pseudonyms : [core EXCEPT !.by = x] \in Cores
  BY Zenon DEF Cores
<1>11. QED
  BY <1>1, <1>2, <1>3, <1>4, <1>5, <1>6, <1>7, <1>8, <1>9, <1>10, ZenonT(60)

(* A core in the hands of a client has its members in a sequence. *)
LEMMA CoreMem ==
  ASSUME NEW core \in Cores
  PROVE  /\ core.vmaj \in Nat /\ core.gk \in Nat /\ core.link \in Slots
         /\ core.mem \in Seq(Members) /\ core.vk \in Seq(Hashes)
         /\ Len(core.mem) \in Nat /\ DOMAIN core.mem = 1 .. Len(core.mem)
         /\ \A i \in DOMAIN core.mem : core.mem[i] \in Members /\ core.mem[i].uid \in Users
<1>1. /\ core.vmaj \in Nat /\ core.gk \in Nat /\ core.link \in Slots
      /\ core.mem \in Seq(Members) /\ core.vk \in Seq(Hashes)
  BY Zenon DEF Cores, MemberLists, HashLists
<1>2. \A m \in Members : m.uid \in Users
  BY Zenon DEF Members
<1>3. QED
  BY <1>1, <1>2

(* emit_edited: the same members, one version on, signed by the editor. *)
LEMMA EmitEditedOk ==
  ASSUME NEW core \in Cores, NEW u \in Users
  PROVE  LET c == EmitEdited(u, core)
         IN  /\ c \in Cores
             /\ c.vmaj = core.vmaj + 1 /\ c.gk = core.gk /\ c.by = <<u, core.gk>>
             /\ c.mem = core.mem /\ c.vk = core.vk /\ c.link = core.link
<1>1. IndexOf(core.mem, u) \in Nat
  BY CoreMem, IndexFound, ZenonT(60)
<1>2. core.vmaj + 1 \in Nat /\ 0 \in Nat /\ CoreSign(u, core.gk) \in Pseudonyms
  BY CoreMem DEF CoreSign, VkPsdn, Pseudonyms
<1>3. EmitEdited(u, core) \in Cores
  BY <1>1, <1>2, CoreWith, ZenonT(60) DEF EmitEdited
<1>4. QED
  BY <1>3, Zenon DEF EmitEdited, Cores, CoreSign, VkPsdn

(* Appending a member. *)
LEMMA AppendedOk ==
  ASSUME NEW core \in Cores, NEW u \in Users, NEW m \in Members
  PROVE  Carries(Appended(u, core, m), core, u) /\ m.uid \in Uids(Appended(u, core, m))
<1> DEFINE e == EmitEdited(u, core)
           c == Appended(u, core, m)
           h == AttributeHash(m.uid, core.gk)
<1>1. /\ e \in Cores
      /\ e.vmaj = core.vmaj + 1 /\ e.gk = core.gk /\ e.by = <<u, core.gk>>
      /\ e.mem = core.mem
  BY EmitEditedOk, Zenon
<1>2. c = [e EXCEPT !.mem = Append(@, m), !.vk = Append(@, h)]
  BY Zenon DEF Appended
<1>3. m.uid \in Users
  BY Zenon DEF Members
<1>4. h \in Hashes
  BY <1>3, CoreMem, Zenon DEF AttributeHash, VkpsdnHash, VkPsdn, Hashes
<1> HIDE DEF e, h, c
<1>9. Append(e.mem, m) \in MemberLists /\ Append(e.vk, h) \in HashLists
  BY <1>1, <1>4, CoreMem DEF MemberLists, HashLists
<1>10. c \in Cores
  BY <1>1, <1>2, <1>9, CoreWith, ZenonT(60)
<1>5. /\ c.vmaj = e.vmaj /\ c.gk = e.gk /\ c.by = e.by
      /\ c.mem = Append(e.mem, m)
  BY <1>1, <1>2, Zenon DEF Cores
<1>6. /\ DOMAIN core.mem = 1 .. Len(core.mem) /\ Len(core.mem) \in Nat
      /\ DOMAIN c.mem = 1 .. Len(core.mem) + 1
      /\ \A i \in 1 .. Len(core.mem) : c.mem[i] = core.mem[i]
      /\ c.mem[Len(core.mem) + 1] = m
  BY <1>1, <1>5, CoreMem, SMTT(60)
<1>7. Uids(core) \subseteq Uids(c) /\ m.uid \in Uids(c)
  BY <1>6, SMTT(60) DEF Uids
<1>8. QED
  BY <1>1, <1>5, <1>7, <1>10, SMTT(60) DEF Carries, c

(* Replacing the entry of a member by one of the same user. *)
LEMMA EntryOk ==
  ASSUME NEW core \in Cores, NEW u \in Users, NEW i \in DOMAIN core.mem,
         NEW m \in Members, m.uid = core.mem[i].uid,
         NEW c, c = [EmitEdited(u, core) EXCEPT !.mem[i] = m]
  PROVE  Carries(c, core, u)
<1> DEFINE e == EmitEdited(u, core)
<1>1. /\ e \in Cores
      /\ e.vmaj = core.vmaj + 1 /\ e.gk = core.gk /\ e.by = <<u, core.gk>>
      /\ e.mem = core.mem
  BY EmitEditedOk, Zenon
<1> HIDE DEF e
<1>2. [e.mem EXCEPT ![i] = m] \in MemberLists
  BY <1>1, CoreMem DEF MemberLists
<1>7. c \in Cores
  BY <1>1, <1>2, CoreWith, ZenonT(60) DEF e
<1>3. /\ c.vmaj = e.vmaj /\ c.gk = e.gk /\ c.by = e.by
      /\ c.mem = [core.mem EXCEPT ![i] = m]
  BY <1>1, <1>2, Zenon DEF Cores, e
<1>4. DOMAIN c.mem = DOMAIN core.mem /\ \A k \in DOMAIN core.mem : c.mem[k].uid = core.mem[k].uid
  BY <1>3, ZenonT(60)
<1>5. Uids(core) \subseteq Uids(c)
  BY <1>4, Zenon DEF Uids
<1>6. QED
  BY <1>1, <1>3, <1>5, <1>7 DEF Carries

(* set_admin. *)
LEMMA SetAdminOk ==
  ASSUME NEW core \in Cores, NEW u \in Users, NEW w \in Uids(core), NEW b \in BOOLEAN
  PROVE  Carries(SetAdmin(u, core, w, b), core, u)
<1> DEFINE i == IndexOf(core.mem, w)
           e == EmitEdited(u, core)
<1>1. i \in DOMAIN core.mem /\ core.mem[i] \in Members
  BY CoreMem, IndexFound, ZenonT(60) DEF Uids
<1>2. e.mem = core.mem /\ e \in Cores
  BY EmitEditedOk, Zenon
<1> HIDE DEF e, i
<1> DEFINE m == [core.mem[i] EXCEPT !.admn = b]
<1>3. m \in Members /\ m.uid = core.mem[i].uid
  BY <1>1, Zenon DEF Members
<1>4. SetAdmin(u, core, w, b) = [e EXCEPT !.mem[i] = m]
  BY <1>1, <1>2, Zenon DEF SetAdmin, e, i
<1>5. QED
  BY <1>1, <1>3, <1>4, EntryOk, ZenonT(60) DEF e

(* complete_invitation. *)
LEMMA CompleteOk ==
  ASSUME NEW core \in Cores, NEW u \in Users, NEW w \in Uids(core), NEW uk \in Nat
  PROVE  Carries(CompleteInvitation(u, core, w, uk), core, u)
<1> DEFINE i == IndexOf(core.mem, w)
           e == EmitEdited(u, core)
<1>1. i \in DOMAIN core.mem /\ core.mem[i] \in Members
  BY CoreMem, IndexFound, ZenonT(60) DEF Uids
<1>2. e.mem = core.mem /\ e \in Cores
  BY EmitEditedOk, Zenon
<1> HIDE DEF e, i
<1> DEFINE m == [core.mem[i] EXCEPT !.pend = FALSE, !.key = uk]
<1>3. m \in Members /\ m.uid = core.mem[i].uid
  BY <1>1, ZenonT(60) DEF Members
<1>4. CompleteInvitation(u, core, w, uk) = [e EXCEPT !.mem[i] = m]
  BY <1>1, <1>2, ZenonT(60) DEF CompleteInvitation, e, i
<1>5. QED
  BY <1>1, <1>3, <1>4, EntryOk, ZenonT(60) DEF e

(* change_settings and toggle_join_link leave the members alone. *)
LEMMA ChangeSettingsOk ==
  ASSUME NEW core \in Cores, NEW u \in Users, NEW flags \in Settings, NEW attr \in Nat
  PROVE  Carries(ChangeSettings(u, core, flags, attr), core, u)
<1> DEFINE e == EmitEdited(u, core)
           c == ChangeSettings(u, core, flags, attr)
<1>1. /\ e \in Cores
      /\ e.vmaj = core.vmaj + 1 /\ e.gk = core.gk /\ e.by = <<u, core.gk>>
      /\ e.mem = core.mem
  BY EmitEditedOk, Zenon
<1>2. c = [e EXCEPT !.flags = flags, !.attr = attr]
  BY Zenon DEF ChangeSettings
<1>3. flags \in Settings
  BY Zenon DEF Settings
<1> HIDE DEF e, c
<1>4. c \in Cores
  BY <1>1, <1>2, <1>3, CoreWith, ZenonT(60)
<1>5. c.vmaj = e.vmaj /\ c.gk = e.gk /\ c.by = e.by /\ c.mem = e.mem
  BY <1>1, <1>2, Zenon DEF Cores
<1>6. QED
  BY <1>1, <1>4, <1>5, SMTT(60) DEF Carries, Uids, c

(* Opening or closing the join link carries the core forward. *)
LEMMA ToggleJoinLinkOk ==
  ASSUME NEW core \in Cores, NEW u \in Users, NEW secret \in Nat
  PROVE  Carries(ToggleJoinLink(u, core, secret), core, u)
<1> DEFINE e == EmitEdited(u, core)
           c == ToggleJoinLink(u, core, secret)
           slot == IF core.link = NoLink THEN JoinlinkSeal(secret, core.gk) ELSE NoLink
<1>1. /\ e \in Cores
      /\ e.vmaj = core.vmaj + 1 /\ e.gk = core.gk /\ e.by = <<u, core.gk>>
      /\ e.mem = core.mem
  BY EmitEditedOk, Zenon
<1>2. c = [e EXCEPT !.link = slot]
  BY Zenon DEF ToggleJoinLink
<1>3. slot \in Slots
  BY CoreMem, Zenon DEF Slots, NoLink, JoinlinkSeal, JoinlinkKey, NoKey
<1> HIDE DEF e, c, slot
<1>4. c \in Cores
  BY <1>1, <1>2, <1>3, CoreWith, ZenonT(60)
<1>5. c.vmaj = e.vmaj /\ c.gk = e.gk /\ c.by = e.by /\ c.mem = e.mem
  BY <1>1, <1>2, Zenon DEF Cores
<1>6. QED
  BY <1>1, <1>4, <1>5, SMTT(60) DEF Carries, Uids, c

IsGenesis(c, u, gk) ==
    /\ c \in Cores /\ c.vmaj = 1 /\ c.gk = gk /\ c.by = <<u, gk>>
    /\ Uids(c) = {u} /\ Admins(c) = {u}

(* The first version lists its founder, an admin. *)
LEMMA GenesisOk ==
  ASSUME NEW u \in Users, NEW uk \in Nat, NEW gk \in Nat, NEW flags \in Settings
  PROVE  IsGenesis(Genesis(u, uk, gk, flags), u, gk)
<1> DEFINE c == Genesis(u, uk, gk, flags)
           m == MemberBuild(u, uk, TRUE)
<1>1. m \in Members /\ m.uid = u /\ m.admn
  BY Zenon DEF MemberBuild, Members
<1>2. AttributeHash(u, gk) \in Hashes
  BY Zenon DEF AttributeHash, VkpsdnHash, VkPsdn, Hashes
<1>3. NoLink \in Slots /\ CoreSign(u, gk) \in Pseudonyms /\ flags \in Settings
  BY Zenon DEF Slots, NoLink, JoinlinkSeal, JoinlinkKey, NoKey, CoreSign, VkPsdn, Pseudonyms, Settings
<1>10. \A S : \A x \in S : << x >> \in Seq(S)
  OBVIOUS
<1>4. << m >> \in MemberLists /\ << AttributeHash(u, gk) >> \in HashLists
  BY <1>1, <1>2, <1>10, ZenonT(60) DEF MemberLists, HashLists
<1>5. c \in Cores
  BY <1>3, <1>4, Zenon DEF Genesis, Cores
<1>6. c.vmaj = 1 /\ c.gk = gk /\ c.by = <<u, gk>> /\ c.mem = << m >>
  BY ZenonT(60) DEF Genesis, CoreSign, VkPsdn
<1> HIDE DEF m, c
<1>7. DOMAIN c.mem = {1} /\ c.mem[1] = m
  BY <1>6
<1>8. Uids(c) = {u} /\ Admins(c) = {u}
  BY <1>1, <1>7, Zenon DEF Uids, Admins
<1>9. QED
  BY <1>5, <1>6, <1>8, Zenon DEF c, IsGenesis

(* A new list of members, with their hashes, under any key. *)
Relisted(core, u, gk, mem, n, attr, link) ==
    [core EXCEPT !.vmaj = @ + 1, !.lvmin = n, !.gk = gk, !.mem = mem,
                 !.vk = VkLst(mem, gk), !.attr = attr, !.link = link,
                 !.signer = LastIndexOf(mem, u), !.by = CoreSign(u, gk)]

Relists(c, core, u, gk, mem) ==
    /\ c \in Cores /\ c.vmaj = core.vmaj + 1 /\ c.gk = gk /\ c.by = <<u, gk>>
    /\ c.mem = mem

(* It is a core again. *)
LEMMA RelistedOk ==
  ASSUME NEW core \in Cores, NEW u \in Users, NEW gk \in Nat, NEW mem \in Seq(Members),
         NEW n \in Nat, NEW attr \in Nat, NEW link \in Slots
  PROVE  Relists(Relisted(core, u, gk, mem, n, attr, link), core, u, gk, mem)
<1>1. /\ Len(mem) \in Nat /\ DOMAIN mem = 1 .. Len(mem)
      /\ \A i \in DOMAIN mem : mem[i].uid \in Users
  <2>1. \A m \in Members : m.uid \in Users
    BY Zenon DEF Members
  <2>2. QED
    BY <2>1
<1>2. LastIndexOf(mem, u) \in Nat
  BY <1>1, IndexFound, ZenonT(60)
<1>3. \A i \in DOMAIN mem : AttributeHash(mem[i].uid, gk) \in Hashes
  BY <1>1, Zenon DEF AttributeHash, VkpsdnHash, VkPsdn, Hashes
<1>4. VkLst(mem, gk) \in HashLists /\ mem \in MemberLists
  BY <1>1, <1>3 DEF VkLst, HashLists, MemberLists
<1>5. core.vmaj + 1 \in Nat /\ CoreSign(u, gk) \in Pseudonyms
  BY CoreMem DEF CoreSign, VkPsdn, Pseudonyms
<1>6. Relisted(core, u, gk, mem, n, attr, link) \in Cores
  BY <1>2, <1>4, <1>5, CoreWith, ZenonT(60) DEF Relisted
<1>7. QED
  BY <1>6, ZenonT(60) DEF Cores, CoreSign, VkPsdn, Relisted, Relists

(* Rotation: whoever is kept keeps their user id, and the editor is kept. *)
LEMMA RebuildAndEmitOk ==
  ASSUME NEW core \in Cores, NEW u \in Users, NEW s \in Stores, NEW gk \in Nat, NEW gone,
         CanRebuild(u, s, core, gone)
  PROVE  LET c == RebuildAndEmit(u, s, core, gk, gone)
         IN  /\ c \in Cores /\ c.vmaj = core.vmaj + 1 /\ c.gk = gk /\ c.by = <<u, gk>>
             /\ u \in Uids(c)
<1> DEFINE left == SurvivorsOf(core, gone)
           mem == Rebuild(left)
           c == RebuildAndEmit(u, s, core, gk, gone)
           link == ResealLink(s, core, gk)
<1>1. left \in Seq(Members)
  BY CoreMem, KeptOk, ZenonT(60) DEF SurvivorsOf, IsKept
<1>2. /\ Len(left) \in Nat /\ DOMAIN left = 1 .. Len(left)
      /\ \A i \in DOMAIN left : left[i] \in Members
  BY <1>1
<1>3. IndexOf(left, u) # 0
  BY Zenon DEF CanRebuild
<1> HIDE DEF left
<1>4. PICK i \in DOMAIN left : left[i].uid = u
  BY <1>2, <1>3, IndexFound, ZenonT(60)
<1>5. \A m \in Members : Rebuilt(m) \in Members /\ Rebuilt(m).uid = m.uid
  BY ZenonT(60) DEF Members, Rebuilt, MemberDecrypt, MemberBuild, MemberBuildPending, NoKey
<1>6. mem \in Seq(Members) /\ DOMAIN mem = DOMAIN left /\ mem[i].uid = u
  BY <1>2, <1>4, <1>5, SMTT(60) DEF Rebuild
<1>7. link \in Slots
  BY Zenon DEF ResealLink, Slots, NoLink, JoinlinkSeal, JoinlinkKey, NoKey, Stores
<1>8. c = [core EXCEPT !.vmaj = @ + 1, !.lvmin = 0, !.gk = gk, !.mem = mem,
                       !.vk = VkLst(mem, gk), !.link = link,
                       !.signer = LastIndexOf(mem, u), !.by = CoreSign(u, gk)]
  BY Zenon DEF RebuildAndEmit, left
<1>9. core.attr \in Nat
  BY Zenon DEF Cores
<1> HIDE DEF mem, link, c
<1>10. c = Relisted(core, u, gk, mem, 0, core.attr, link)
  BY <1>8, ZenonT(60) DEF Cores, Relisted
<1>11. /\ c \in Cores /\ c.vmaj = core.vmaj + 1 /\ c.gk = gk /\ c.by = <<u, gk>>
       /\ c.mem = mem
  <2>1. mem \in Seq(Members) /\ 0 \in Nat
    BY <1>6, Zenon
  <2>2. Relists(Relisted(core, u, gk, mem, 0, core.attr, link), core, u, gk, mem)
    BY <1>7, <1>9, <2>1, RelistedOk, ZenonT(60)
  <2>3. QED
    BY <1>10, <2>2, Zenon DEF Relists
<1>12. u \in Uids(c)
  BY <1>4, <1>6, <1>11, Zenon DEF Uids
<1>13. QED
  BY <1>11, <1>12, Zenon DEF c

(* The entries a fold works on. *)
Works == [uid : Users, admn : BOOLEAN, pend : BOOLEAN, p0 : BOOLEAN, gone : BOOLEAN,
          key : Nat]

(* The last of some lines. *)
LEMMA LastLine ==
  ASSUME NEW lines \in Seq(Lines), NEW r, r \subseteq DOMAIN lines, r # {}
  PROVE  lines[Max(r)].val \in Nat
<1>1. r \in SUBSET Nat /\ r \subseteq 1 .. Len(lines) /\ Len(lines) \in Nat
  OBVIOUS
<1>2. IsFiniteSet(r)
  BY <1>1, FS_Interval, FS_Subset, 1 \in Int, Len(lines) \in Int, ZenonT(60)
<1>3. Max(r) \in DOMAIN lines
  BY <1>1, <1>2, MaxOfNaturals, ZenonT(60)
<1>4. lines[Max(r)] \in Lines
  BY <1>3
<1>5. QED
  BY <1>4, Zenon DEF Lines

(* A member with its lines folded in is still that member, and gone only   *)
(* if a leave of its own is among the lines.                               *)
LEMMA FoldMemberOk ==
  ASSUME NEW lines \in Seq(Lines), NEW ok \in SUBSET DOMAIN lines, NEW m \in Members, NEW i
  PROVE  /\ FoldMember(m, i, lines, ok) \in Works
         /\ FoldMember(m, i, lines, ok).uid = m.uid
         /\ FoldMember(m, i, lines, ok).gone => LinesBy(lines, ok, "leave", i) # {}
<1> DEFINE r == LinesBy(lines, ok, "refresh", i)
           key == IF r = {} THEN m.key ELSE lines[Max(r)].val
<1>1. r \subseteq DOMAIN lines
  BY Zenon DEF LinesBy
<1>2. m.key \in Nat /\ m.uid \in Users /\ m.admn \in BOOLEAN /\ m.pend \in BOOLEAN
  BY Zenon DEF Members
<1> HIDE DEF r
<1>3. key \in Nat
  BY <1>1, <1>2, LastLine, ZenonT(60)
<1>4. FoldMember(m, i, lines, ok) =
        [uid |-> m.uid, admn |-> m.admn, pend |-> m.pend, p0 |-> m.pend,
         gone |-> LinesBy(lines, ok, "leave", i) # {}, key |-> key]
  BY Zenon DEF FoldMember, r
<1> HIDE DEF key
<1> DEFINE gone == LinesBy(lines, ok, "leave", i) # {}
           w == FoldMember(m, i, lines, ok)
<1>5. gone \in BOOLEAN
  BY Zenon
<1>6. w.uid = m.uid /\ w.gone = gone
  BY <1>4
<1>7. w \in Works
  <2> HIDE DEF gone, w
  <2>1. w = [uid |-> m.uid, admn |-> m.admn, pend |-> m.pend, p0 |-> m.pend,
             gone |-> gone, key |-> key]
    BY <1>4, Zenon DEF gone, w
  <2>2. QED
    BY <1>2, <1>3, <1>5, <2>1, Zenon DEF Works
<1>8. QED
  BY <1>6, <1>7, ZenonT(60)

(* The newcomers are entries of their own. *)
LEMMA NewcomersOk ==
  ASSUME NEW lines \in Seq(Lines), NEW ok
  PROVE  Newcomers(lines, ok) \in Seq(Works)
<1> DEFINE new == Kept(lines, {j \in ok : lines[j].kind \in {"join", "adduser"}})
           W(k) == [uid |-> new[k].uid, admn |-> FALSE, pend |-> FALSE,
                    p0 |-> FALSE, gone |-> FALSE, key |-> new[k].val]
<1>1. new \in Seq(Lines)
  BY KeptOk, ZenonT(60) DEF IsKept
<1>2. Newcomers(lines, ok) = [k \in DOMAIN new |-> W(k)]
  BY Zenon DEF Newcomers
<1> HIDE DEF new
<1>3. \A k \in DOMAIN new : new[k].uid \in Users /\ new[k].val \in Nat
  <2>1. \A l \in Lines : l.uid \in Users /\ l.val \in Nat
    BY Zenon DEF Lines
  <2>2. QED
    BY <1>1, <2>1
<1>4. \A k \in DOMAIN new : W(k) \in Works
  BY <1>3, Zenon DEF Works
<1> HIDE DEF W
<1>5. QED
  BY <1>1, <1>2, <1>4, SMTT(60)

(* What is folded has the members of the core in front, in their places. *)
LEMMA FoldLinesOk ==
  ASSUME NEW core \in Cores, NEW lines \in Seq(Lines), NEW ok \in SUBSET DOMAIN lines
  PROVE  LET work == FoldLines(Decrypted(core), lines, ok)
         IN  /\ work \in Seq(Works)
             /\ \A i \in DOMAIN core.mem :
                   /\ i \in DOMAIN work /\ work[i].uid = core.mem[i].uid
                   /\ work[i].gone => LinesBy(lines, ok, "leave", i) # {}
<1> DEFINE dec == Decrypted(core)
           front == [i \in DOMAIN dec |-> FoldMember(dec[i], i, lines, ok)]
           new == Newcomers(lines, ok)
           n == Len(core.mem)
<1>1. n \in Nat /\ DOMAIN core.mem = 1 .. n /\ \A i \in 1 .. n : core.mem[i] \in Members
  BY CoreMem, ZenonT(60)
<1>2. \A m \in Members : MemberDecrypt(m) \in Members /\ MemberDecrypt(m).uid = m.uid
  BY Zenon DEF MemberDecrypt, Members, NoKey
<1> HIDE DEF n
<1>3. /\ DOMAIN dec = 1 .. n
      /\ \A i \in 1 .. n : dec[i] \in Members /\ dec[i].uid = core.mem[i].uid
  BY <1>1, <1>2, Zenon DEF Decrypted
<1> HIDE DEF dec
<1>4. ASSUME NEW i \in 1 .. n
      PROVE  /\ front[i] \in Works /\ front[i].uid = core.mem[i].uid
             /\ front[i].gone => LinesBy(lines, ok, "leave", i) # {}
  <2>1. front[i] = FoldMember(dec[i], i, lines, ok)
    BY <1>3, Zenon
  <2>2. QED
    BY <1>3, <2>1, FoldMemberOk, SMTT(60)
<1>5. front \in [1 .. n -> Works]
  BY <1>3, <1>4, Zenon
<1> HIDE DEF front
<1>6. front \in Seq(Works) /\ Len(front) = n
  BY <1>1, <1>5
<1>7. new \in Seq(Works)
  BY NewcomersOk, Zenon
<1>8. FoldLines(Decrypted(core), lines, ok) = front \o new
  BY Zenon DEF FoldLines, front, new, dec
<1> HIDE DEF new
<1>9. /\ front \o new \in Seq(Works)
      /\ \A i \in 1 .. n : i \in DOMAIN (front \o new) /\ (front \o new)[i] = front[i]
  BY <1>1, <1>6, <1>7, SMTT(60)
<1>10. QED
  BY <1>1, <1>4, <1>8, <1>9, Zenon

(* Settling an entry leaves its user and whether it is gone. *)
LEMMA SettledOk ==
  ASSUME NEW w \in Works, NEW qs \in SUBSET Answers, NEW accts
  PROVE  /\ Settled(w, qs, accts) \in Works
         /\ Settled(w, qs, accts).uid = w.uid /\ Settled(w, qs, accts).gone = w.gone
<1> DEFINE S == SettleOne(w, qs, accts)
           q == CHOOSE x \in S : TRUE
<1>1. S \subseteq Answers
  BY Zenon DEF SettleOne
<1>2. S # {} => q \in S
  BY Zenon
<1>3. \A x \in Answers : x.pt.uk \in Nat
  BY Zenon DEF Answers
<1> HIDE DEF S, q
<1>4. S # {} => q.pt.uk \in Nat
  BY <1>1, <1>2, <1>3, Zenon
<1>5. Settled(w, qs, accts) = IF w.pend /\ ~w.gone /\ S # {}
                              THEN [w EXCEPT !.pend = FALSE, !.key = q.pt.uk] ELSE w
  BY Zenon DEF Settled, S, q
<1>6. QED
  BY <1>4, <1>5, ZenonT(60) DEF Works

WorkOk(work, core, keeps) ==
    /\ work \in Seq(Works)
    /\ keeps => \A i \in DOMAIN core.mem :
                  \E k \in DOMAIN work : work[k].uid = core.mem[i].uid

(* The entries a consolidation keeps: entries of the core and newcomers;   *)
(* nobody of the core is missing unless a leave was folded.                *)
LEMMA ConsolidateWorkOk ==
  ASSUME NEW core \in Cores, NEW lines \in Seq(Lines), NEW qs \in SUBSET Answers,
         NEW u, NEW s, NEW accts, NEW approved
  PROVE  WorkOk(ConsolidateWork(u, s, core, lines, qs, accts, approved), core,
                ~LeaveFolded(u, s, core, lines, accts, approved))
<1> DEFINE ok == LinesFolded(u, s, core, lines, accts, approved)
           folded == FoldLines(Decrypted(core), lines, ok)
           all == [i \in DOMAIN folded |-> Settled(folded[i], qs, accts)]
           at == {i \in DOMAIN all : ~all[i].gone}
           work == ConsolidateWork(u, s, core, lines, qs, accts, approved)
<1>1. ok \in SUBSET DOMAIN lines
  BY Zenon DEF LinesFolded
<1>2. work = Kept(all, at)
  BY Zenon DEF ConsolidateWork, Staying
<1> HIDE DEF ok
<1>3. /\ folded \in Seq(Works)
      /\ \A i \in DOMAIN core.mem : /\ i \in DOMAIN folded /\ folded[i].uid = core.mem[i].uid
                                    /\ folded[i].gone => LinesBy(lines, ok, "leave", i) # {}
  BY <1>1, FoldLinesOk, Zenon
<1> HIDE DEF folded
<1>4. /\ Len(folded) \in Nat /\ DOMAIN folded = 1 .. Len(folded)
      /\ \A i \in DOMAIN folded : folded[i] \in Works
  BY <1>3
<1>5. ASSUME NEW i \in DOMAIN folded
      PROVE  /\ all[i] \in Works
             /\ all[i].uid = folded[i].uid /\ all[i].gone = folded[i].gone
  <2>1. all[i] = Settled(folded[i], qs, accts)
    BY Zenon
  <2>2. folded[i] \in Works
    BY <1>4, Zenon
  <2>3. QED
    BY <2>1, <2>2, SettledOk, ZenonT(60)
<1>6. all \in [1 .. Len(folded) -> Works] /\ DOMAIN all = DOMAIN folded
  BY <1>4, <1>5, Zenon
<1> HIDE DEF all, at
<1>7. all \in Seq(Works)
  BY <1>4, <1>6
<1>8. IsKept(Kept(all, at), all, at, Works)
  BY <1>7, KeptOk, ZenonT(60)
<1>9. ASSUME ~LeaveFolded(u, s, core, lines, accts, approved), NEW i \in DOMAIN core.mem
      PROVE  \E k \in DOMAIN work : work[k].uid = core.mem[i].uid
  <2>1. LinesBy(lines, ok, "leave", i) = {}
    BY <1>9, Zenon DEF LeaveFolded, LinesBy, ok
  <2>2. ~folded[i].gone /\ i \in DOMAIN folded /\ folded[i].uid = core.mem[i].uid
    BY <1>3, <2>1, Zenon
  <2>3. i \in DOMAIN all /\ i \in at /\ all[i].uid = core.mem[i].uid
    BY <1>5, <1>6, <2>2, Zenon DEF at
  <2>4. PICK k \in DOMAIN Kept(all, at) : Kept(all, at)[k] = all[i]
    BY <1>8, <2>3, Zenon DEF IsKept
  <2>5. QED
    BY <1>2, <2>3, <2>4, Zenon
<1> HIDE DEF work
<1>10. QED
  BY <1>2, <1>8, <1>9, Zenon DEF work, WorkOk, IsKept

(* consolidate. *)
Consolidated(c, core, u, gk, keeps) ==
    /\ c \in Cores /\ c.vmaj = core.vmaj + 1 /\ c.gk = gk /\ c.by = <<u, gk>>
    /\ u \in Uids(c)
    /\ keeps => Uids(core) \subseteq Uids(c)

(* The consolidated core lists the editor, and everybody unless a leave    *)
(* was folded.                                                             *)
LEMMA ConsolidateOk ==
  ASSUME NEW core \in Cores, NEW u \in Users, NEW s \in Stores, NEW lines \in Seq(Lines),
         NEW qs \in SUBSET Answers, NEW accts, NEW approved, NEW gk \in Nat,
         CanConsolidate(u, s, core, lines, qs, accts, approved)
  PROVE  Consolidated(Consolidate(u, s, core, lines, qs, accts, approved, gk), core, u, gk,
                      ~LeaveFolded(u, s, core, lines, accts, approved))
<1> DEFINE work == ConsolidateWork(u, s, core, lines, qs, accts, approved)
           mem == [i \in DOMAIN work |-> ConsolidateMember(work[i])]
           attr == FoldAttr(core, lines, LinesFolded(u, s, core, lines, accts, approved))
           link == IF gk = core.gk THEN core.link ELSE ResealLink(s, core, gk)
           c == Consolidate(u, s, core, lines, qs, accts, approved, gk)
           leave == LeaveFolded(u, s, core, lines, accts, approved)
<1>1. WorkOk(work, core, ~leave)
  BY ConsolidateWorkOk, ZenonT(60)
<1>2. LastIndexOf(work, u) # 0
  BY Zenon DEF CanConsolidate
<1>3. c = [core EXCEPT !.vmaj = @ + 1, !.lvmin = Len(lines), !.gk = gk, !.mem = mem,
                       !.vk = VkLst(mem, gk), !.attr = attr, !.link = link,
                       !.signer = LastIndexOf(mem, u), !.by = CoreSign(u, gk)]
  BY Zenon DEF Consolidate
<1>4. attr \in Nat
  <2> DEFINE mods == {j \in LinesFolded(u, s, core, lines, accts, approved) :
                        lines[j].kind = "modattr"}
  <2>1. mods \subseteq DOMAIN lines
    BY Zenon DEF LinesFolded
  <2>2. attr = IF mods = {} THEN core.attr ELSE lines[Max(mods)].val
    BY Zenon DEF FoldAttr
  <2>3. core.attr \in Nat
    BY Zenon DEF Cores
  <2> HIDE DEF mods, attr
  <2>4. QED
    BY <2>1, <2>2, <2>3, LastLine, ZenonT(60)
<1>5. link \in Slots
  BY CoreMem, Zenon DEF ResealLink, Slots, NoLink, JoinlinkSeal, JoinlinkKey, NoKey, Stores
<1> HIDE DEF work, attr, link, leave
<1>6. /\ Len(work) \in Nat /\ DOMAIN work = 1 .. Len(work)
      /\ \A i \in DOMAIN work : work[i] \in Works
  BY <1>1, SMTT(60) DEF WorkOk
<1>7. \A w \in Works : ConsolidateMember(w) \in Members /\ ConsolidateMember(w).uid = w.uid
  BY Zenon DEF Works, Members, ConsolidateMember, MemberBuild, MemberBuildPending
<1>8. /\ mem \in [1 .. Len(work) -> Members] /\ DOMAIN mem = DOMAIN work
      /\ \A i \in DOMAIN work : mem[i].uid = work[i].uid
  BY <1>6, <1>7, ZenonT(60)
<1> HIDE DEF mem
<1>9. mem \in Seq(Members)
  BY <1>6, <1>8
<1>10. PICK i \in DOMAIN work : work[i].uid = u
  BY <1>2, <1>6, IndexFound, ZenonT(60)
<1>11. c = Relisted(core, u, gk, mem, Len(lines), attr, link)
  BY <1>3, Zenon DEF Relisted
<1>12. Relists(Relisted(core, u, gk, mem, Len(lines), attr, link), core, u, gk, mem)
  <2>1. Len(lines) \in Nat
    BY SMTT(60)
  <2>2. QED
    BY <1>4, <1>5, <1>9, <2>1, RelistedOk, ZenonT(60)
<1> HIDE DEF c
<1>13. /\ c \in Cores /\ c.vmaj = core.vmaj + 1 /\ c.gk = gk /\ c.by = <<u, gk>>
       /\ c.mem = mem
  BY <1>11, <1>12, Zenon DEF Relists
<1>14. u \in Uids(c)
  BY <1>8, <1>10, <1>13, Zenon DEF Uids
<1>15. ASSUME ~leave, NEW w \in Uids(core) PROVE w \in Uids(c)
  <2>1. PICK j \in DOMAIN core.mem : core.mem[j].uid = w
    BY <1>15, ZenonT(60) DEF Uids
  <2>2. PICK k \in DOMAIN work : work[k].uid = w
    BY <1>1, <1>15, <2>1, ZenonT(60) DEF WorkOk
  <2>3. k \in DOMAIN c.mem /\ c.mem[k].uid = w
    BY <1>8, <1>13, <2>2, ZenonT(60)
  <2>4. QED
    BY <2>3, ZenonT(60) DEF Uids
<1>16. Consolidated(c, core, u, gk, ~leave)
  BY <1>13, <1>14, <1>15, ZenonT(60) DEF Consolidated
<1>17. QED
  BY <1>16, ZenonT(60) DEF c, leave
=============================================================================
