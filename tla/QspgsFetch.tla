----------------------------- MODULE QspgsFetch -----------------------------
(***************************************************************************)
(* Reading a version of a group: the lines members appended to a core, the *)
(* queue of answered invitations, the checks a client makes before it      *)
(* believes what a server sent, and the consolidation of all of it into    *)
(* the next core (src/qspgs/qspgs_facade_client.c).                        *)
(*                                                                         *)
(* A line is [kind, idx, vmaj, by, uid, val]: its kind, its author's index *)
(* and pseudonym, the version it names, and the newcomer and user key (or  *)
(* the attribute) it carries.  The invite queue is a set of sealed answers *)
(* (InviteSeal).                                                           *)
(***************************************************************************)
EXTENDS QspgsOps

-----------------------------------------------------------------------------
(* Appendix lines.                                                         *)

JoinLineOk(u, s, core, l, accts) ==
    /\ core.link # NoLink
    /\ ResolveVkb(u, s, accts, l.uid)
    /\ ApxLineVerify(l, VkPsdn(l.uid, core.gk))

MemberLineOk(u, s, core, l, accts) ==
    /\ l.idx \in DOMAIN core.mem
    /\ ResolveVkb(u, s, accts, core.mem[l.idx].uid)
    /\ ApxLineVerify(l, VkPsdn(core.mem[l.idx].uid, core.gk))
    /\ HashCheck(core.vk[l.idx], l.by)
    /\ l.kind = "modattr" => "attr" \in core.flags
    /\ l.kind = "adduser" => "add" \in core.flags

CheckApxLine(u, s, core, l, accts) ==
    /\ l.vmaj = core.vmaj
    /\ IF l.kind = "join" THEN JoinLineOk(u, s, core, l, accts)
                          ELSE MemberLineOk(u, s, core, l, accts)

ApxHeaderOk(core, lines) == lines # << >> => lines[1].vmaj = core.vmaj

(* The lines numbered ok applied to a decrypted roster: newcomers at the   *)
(* end, the last refresh of each member, leavers marked.  p0 remembers who *)
(* was pending in the core.                                                *)
Newcomers(lines, ok) ==
    LET new == Kept(lines, {j \in ok : lines[j].kind \in {"join", "adduser"}})
    IN  [k \in DOMAIN new |-> [uid |-> new[k].uid, admn |-> FALSE, pend |-> FALSE,
                               p0 |-> FALSE, gone |-> FALSE, key |-> new[k].val]]

LinesBy(lines, ok, kind, i) ==
    {j \in ok : lines[j].kind = kind /\ lines[j].idx = i}

FoldMember(m, i, lines, ok) ==
    LET r == LinesBy(lines, ok, "refresh", i)
    IN  [uid |-> m.uid, admn |-> m.admn, pend |-> m.pend, p0 |-> m.pend,
         gone |-> LinesBy(lines, ok, "leave", i) # {},
         key |-> IF r = {} THEN m.key ELSE lines[Max(r)].val]

FoldLines(mem, lines, ok) ==
    [i \in DOMAIN mem |-> FoldMember(mem[i], i, lines, ok)] \o Newcomers(lines, ok)

FoldAttr(core, lines, ok) ==
    LET mods == {j \in ok : lines[j].kind = "modattr"}
    IN  IF mods = {} THEN core.attr ELSE lines[Max(mods)].val

-----------------------------------------------------------------------------
(* Settling: an answered invitation of this member is an entry that opens  *)
(* under the key of its own entry and that the invitee signed.             *)

SettleOne(w, queue, accts) ==
    {q \in queue : /\ InviteOpens(w.key, q) /\ q.pt.uid = w.uid
                   /\ w.uid \in DOMAIN accts /\ InviteVerify(q)}

Settled(w, queue, accts) ==
    LET qs == SettleOne(w, queue, accts)
    IN  IF w.pend /\ ~w.gone /\ qs # {}
        THEN [w EXCEPT !.pend = FALSE, !.key = (CHOOSE q \in qs : TRUE).pt.uk]
        ELSE w

Decrypted(core) == [i \in DOMAIN core.mem |-> MemberDecrypt(core.mem[i])]

-----------------------------------------------------------------------------
(* Fetch.                                                                  *)

(* With the flag adm a join waits for an admin's approval. *)
LinesSeen(u, s, core, lines, accts) ==
    {j \in DOMAIN lines : /\ CheckApxLine(u, s, core, lines[j], accts)
                          /\ ~(lines[j].kind = "join" /\ "adm" \in core.flags)}

FetchWork(u, s, core, lines, queue, accts) ==
    LET work == FoldLines(Decrypted(core), lines, LinesSeen(u, s, core, lines, accts))
    IN  [i \in DOMAIN work |-> Settled(work[i], queue, accts)]

Staying(work) == Kept(work, {i \in DOMAIN work : ~work[i].gone})

EffectiveRoster(u, s, core, lines, queue, accts) ==
    Staying(FetchWork(u, s, core, lines, queue, accts))

CheckUserKey(u, s, uid, uk, accts) ==
    uid # u => uk \in {s.acq[uid]} \cup {accts[w] : w \in {uid} \cap DOMAIN accts}

CheckVkLst(u, s, core, accts) ==
    /\ DOMAIN core.vk = DOMAIN core.mem
    /\ \A i \in DOMAIN core.mem :
          /\ ResolveVkb(u, s, accts, core.mem[i].uid)
          /\ core.vk[i] = AttributeHash(core.mem[i].uid, core.gk)

(* Mutant: the count of folded lines is not compared. *)
LineageAnyFold(core, prior) ==
    prior.v # 0 => /\ core.vmaj \in prior.v .. prior.v + 1
                   /\ core.vmaj = prior.v => core.lvmin >= prior.lvmin

(* What a version may be after the one last seen: the same or the next     *)
(* major; the next must have folded exactly the lines seen, and be signed  *)
(* by an admin of the roster seen.                                         *)
Lineage(core, prior) ==
    prior.v # 0 =>
       /\ core.vmaj \in prior.v .. prior.v + 1
       /\ core.vmaj = prior.v => core.lvmin >= prior.lvmin
       /\ core.vmaj = prior.v + 1 =>
             /\ core.lvmin = prior.n
             /\ core.mem[core.signer].uid \in prior.admins

FetchOk(u, s, core, lines, queue, prior, accts) ==
    /\ ApxHeaderOk(core, lines)
    /\ core.signer \in DOMAIN core.mem
    /\ FieldOpens(GroupKeyLoad(s), core)
    /\ ResolveVkb(u, s, accts, core.mem[core.signer].uid)
    /\ CoreResolveVerify(core)
    /\ core.mem[core.signer].admn
    /\ Lineage(core, prior)
    /\ CheckVkLst(u, s, core, accts)
    /\ LET r == EffectiveRoster(u, s, core, lines, queue, accts)
       IN  \A i \in DOMAIN r : ~r[i].p0 => CheckUserKey(u, s, r[i].uid, r[i].key, accts)

-----------------------------------------------------------------------------
(* Consolidation.                                                          *)

(* With the flag adm only the joins the admin approved are folded. *)
LinesFolded(u, s, core, lines, accts, approved) ==
    {j \in DOMAIN lines :
        /\ CheckApxLine(u, s, core, lines[j], accts)
        /\ lines[j].kind = "join" /\ "adm" \in core.flags => j \in approved}

LeaveFolded(u, s, core, lines, accts, approved) ==
    \E j \in LinesFolded(u, s, core, lines, accts, approved) :
        lines[j].kind = "leave" /\ lines[j].idx \in DOMAIN core.mem

ConsolidateWork(u, s, core, lines, queue, accts, approved) ==
    LET work == FoldLines(Decrypted(core), lines,
                          LinesFolded(u, s, core, lines, accts, approved))
    IN  Staying([i \in DOMAIN work |-> Settled(work[i], queue, accts)])

CanConsolidate(u, s, core, lines, queue, accts, approved) ==
    /\ EditBegin(u, s, core)
    /\ ApxHeaderOk(core, lines)
    /\ \A i \in DOMAIN core.mem : ResolveVkb(u, s, accts, core.mem[i].uid)
    /\ \A j \in LinesFolded(u, s, core, lines, accts, approved) :
          lines[j].kind \in {"join", "adduser"} => ResolveVkb(u, s, accts, lines[j].uid)
    /\ LastIndexOf(ConsolidateWork(u, s, core, lines, queue, accts, approved), u) # 0

ConsolidateMember(w) ==
    IF w.pend THEN MemberBuildPending(w.uid, w.key) ELSE MemberBuild(w.uid, w.key, w.admn)

(* gk is the current key when no leave was folded and a fresh one when one *)
(* was.                                                                    *)
Consolidate(u, s, core, lines, queue, accts, approved, gk) ==
    LET work == ConsolidateWork(u, s, core, lines, queue, accts, approved)
        mem == [i \in DOMAIN work |-> ConsolidateMember(work[i])]
    IN  [core EXCEPT !.vmaj = @ + 1, !.lvmin = Len(lines), !.gk = gk,
                     !.mem = mem, !.vk = VkLst(mem, gk),
                     !.attr = FoldAttr(core, lines,
                                 LinesFolded(u, s, core, lines, accts, approved)),
                     !.link = IF gk = core.gk THEN @ ELSE ResealLink(s, core, gk),
                     !.signer = LastIndexOf(mem, u), !.by = CoreSign(u, gk)]

(* The entries of the queue that settled somebody: the client hands back  *)
(* the queue without them.                                                 *)
ConsumedEntries(u, s, core, lines, queue, accts, approved) ==
    LET work == FoldLines(Decrypted(core), lines,
                          LinesFolded(u, s, core, lines, accts, approved))
    IN  {CHOOSE q \in SettleOne(work[i], queue, accts) : TRUE :
            i \in {k \in DOMAIN work : /\ work[k].pend /\ ~work[k].gone
                                       /\ SettleOne(work[k], queue, accts) # {}}}
=============================================================================
