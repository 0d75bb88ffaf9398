------------------------------ MODULE MsgRelay ------------------------------
(***************************************************************************)
(* The relay of the messaging demo (examples/coordinator.c): a directory   *)
(* of published keys and a mailbox for each of two clients, served over    *)
(* one pair of pipes per client.  The relay holds no key.  A fetch of what *)
(* has not been published yet is parked, as is a receive with nothing to   *)
(* deliver.  The mailbox of one client is delivered in a scheduled order   *)
(* that swaps two messages.                                                *)
(*                                                                         *)
(* A frame is a record with a type; EOF stands for the closed pipe.        *)
(***************************************************************************)
EXTENDS Integers, FiniteSets, Sequences, SequencesExt

CONSTANTS MailboxMax,    \* COORD_MAILBOX_MAX
          None,          \* nothing there
          ConsumedMax,   \* COORD_MAX_CONSUMED
          SwapAt         \* the cursor positions of COORD_REORDER_SEED

VARIABLES up, down,      \* the pipes to and from the relay
          dir,           \* what each client published, by kind
          used,          \* one-time prekeys of each client already handed out
          issued,        \* the same, in the order they were handed out
          pend,          \* the parked fetch of each client
          box,           \* mailboxes: mail, base, phase, parked
          gone,          \* the clients that departed
          live,          \* the clients whose process runs
          coord          \* what the relay is doing

relay == <<up, down, dir, used, issued, pend, box, gone, live, coord>>

Clients == {"alice", "bob"}
Peer(u) == CHOOSE w \in Clients : w # u

Kinds == {"reg", "batch", "fp", "oneshot", "noopk", "cert", "prior"}
EmptyBox == [mail |-> << >>, base |-> 0, phase |-> 0, parked |-> FALSE]

(* Only the mailbox of bob is reordered. *)
Reordered(u) == u = "bob"

RelayInit ==
    /\ up = [u \in Clients |-> << >>] /\ down = [u \in Clients |-> << >>]
    /\ dir = [u \in Clients |-> [k \in Kinds |-> None]]
    /\ used = [u \in Clients |-> {}] /\ issued = [u \in Clients |-> << >>]
    /\ pend = [u \in Clients |-> None]
    /\ box = [u \in Clients |-> EmptyBox]
    /\ gone = {} /\ live = Clients /\ coord = "serving"

(* A frame for u; one for a process that has ended stops the relay. *)
Put(u, frame) ==
    IF u \in live THEN down' = [down EXCEPT ![u] = Append(@, frame)] /\ UNCHANGED coord
    ELSE coord' = "error" /\ UNCHANGED down

-----------------------------------------------------------------------------
(* Fetches.                                                                *)

(* The first key of the published batch that was not handed out before. *)
PickOpk(d, out) ==
    LET left == SelectSeq(d["batch"], LAMBDA k : k \notin out)
    IN  IF left = << >> THEN None ELSE Head(left)

TargetReady(d) == d["reg"] # None /\ d["batch"] # None
IdentityReady(d) == d["reg"] # None /\ d["fp"] # None
OneshotReady(d) == d["oneshot"] # None
NoopkReady(d) == d["noopk"] # None

FetchReady(d, what) ==
    CASE what = "bundle" -> TargetReady(d)
      [] what = "identity" -> IdentityReady(d)
      [] what = "oneshot" -> OneshotReady(d)
      [] what = "noopk" -> NoopkReady(d)

Bundle(reg, opk) == [ik |-> reg.ik, spk |-> reg.spk, opk |-> opk]

AnswerFetch(d, opk) == [type |-> "bundle", val |-> Bundle(d["reg"], opk)]
AnswerIdentity(d) == [type |-> "identity", val |-> [fp |-> d["fp"], reg |-> d["reg"]]]
AnswerOneshot(d) == [type |-> "oneshot", val |-> d["oneshot"]]
AnswerNoopk(d) == [type |-> "noopk", val |-> Bundle(d["noopk"], None)]

Reply(d, what, opk) ==
    CASE what = "bundle" -> AnswerFetch(d, opk)
      [] what = "identity" -> AnswerIdentity(d)
      [] what = "oneshot" -> AnswerOneshot(d)
      [] what = "noopk" -> AnswerNoopk(d)

OpkFor(d, what, out) ==
    IF what = "bundle" /\ TargetReady(d) THEN PickOpk(d, out) ELSE None

(* A bundle takes a one-time prekey with it, as long as there is one. *)
Issue(t, what, opk) ==
    IF what = "bundle" /\ opk # None
    THEN /\ used' = IF Cardinality(used[t]) < ConsumedMax
                    THEN [used EXCEPT ![t] = @ \cup {opk}] ELSE used
         /\ issued' = [issued EXCEPT ![t] = Append(@, opk)]
    ELSE UNCHANGED <<used, issued>>

HandleFetch(u, f) ==
    LET t == Peer(u)
        opk == OpkFor(dir[t], f.what, used[t])
    IN  /\ f.type = "fetch"
        /\ IF FetchReady(dir[t], f.what)
           THEN Put(u, Reply(dir[t], f.what, opk)) /\ Issue(t, f.what, opk) /\ UNCHANGED pend
           ELSE /\ pend' = [pend EXCEPT ![u] = f.what]
                /\ UNCHANGED <<down, coord, used, issued>>
        /\ UNCHANGED <<dir, box, gone>>

-----------------------------------------------------------------------------
(* Publication.  A new batch adds keys: those handed out stay handed out.  *)
(* A fetch the peer has parked is answered once what it asks for is there; *)
(* nobody fetches a certificate.                                           *)

(* Mutant: a new batch starts the tracking anew. *)
HandlePublishResets(u, f) ==
    /\ f.type = "publish"
    /\ dir' = [dir EXCEPT ![u][f.kind] = f.val]
    /\ used' = IF f.kind = "batch" THEN [used EXCEPT ![u] = {}] ELSE used
    /\ LET w == Peer(u)
       IN  IF pend[w] # None /\ FetchReady(dir'[u], pend[w])
           THEN Put(w, Reply(dir'[u], pend[w], None)) /\ pend' = [pend EXCEPT ![w] = None]
           ELSE UNCHANGED <<down, coord, pend>>
    /\ UNCHANGED <<issued, box, gone>>

ServicePending(w, d) ==
    LET opk == OpkFor(d, pend[w], used[Peer(w)])
    IN  IF pend[w] # None /\ FetchReady(d, pend[w])
        THEN /\ Put(w, Reply(d, pend[w], opk))
             /\ pend' = [pend EXCEPT ![w] = None]
             /\ Issue(Peer(w), pend[w], opk)
        ELSE UNCHANGED <<down, coord, pend, used, issued>>

HandlePublish(u, f) ==
    /\ f.type = "publish"
    /\ dir' = [dir EXCEPT ![u][f.kind] = f.val]
    /\ IF f.kind \in {"cert", "prior"} THEN UNCHANGED <<down, coord, pend, used, issued>>
       ELSE ServicePending(Peer(u), dir'[u])
    /\ UNCHANGED <<box, gone>>

-----------------------------------------------------------------------------
(* Mailboxes.                                                              *)

Swap(u, base) == Reordered(u) /\ (base % 32) \in SwapAt

PeekWant(u, b) == IF Swap(u, b.base) /\ b.phase = 0 THEN b.base + 1 ELSE b.base

AdvanceCursor(u, b) ==
    CASE ~Swap(u, b.base) -> [b EXCEPT !.base = @ + 1]
      [] Swap(u, b.base) /\ b.phase = 0 -> [b EXCEPT !.phase = 1]
      [] Swap(u, b.base) /\ b.phase = 1 -> [b EXCEPT !.base = @ + 2, !.phase = 0]

(* The place of the message to deliver next, 0 if it is not there. *)
NextMail(u, b) ==
    IF Reordered(u) THEN SelectInSeq(b.mail, LAMBDA m : m.seq = PeekWant(u, b))
    ELSE IF b.mail = << >> THEN 0 ELSE 1

Delivered(u, b, i) ==
    LET rest == [b EXCEPT !.mail = RemoveAt(@, i), !.parked = FALSE]
    IN  IF Reordered(u) THEN AdvanceCursor(u, rest) ELSE rest

(* Deliver to u from its box b, or leave the receive parked. *)
DeliverNext(u, b) ==
    LET i == NextMail(u, b)
    IN  IF i = 0 THEN /\ box' = [box EXCEPT ![u] = [b EXCEPT !.parked = TRUE]]
                      /\ UNCHANGED <<down, coord>>
        ELSE /\ Put(u, [type |-> "deliver", val |-> b.mail[i]])
             /\ box' = [box EXCEPT ![u] = Delivered(u, b, i)]

HandleRecv(u, f) ==
    /\ f.type = "recv"
    /\ DeliverNext(u, box[u])
    /\ UNCHANGED <<dir, used, issued, pend, gone>>

(* A full mailbox stops the relay. *)
HandleSend(u, f) ==
    LET w == Peer(u)
        b == [box[w] EXCEPT !.mail = Append(@, f.val)]
    IN  /\ f.type = "send"
        /\ CASE Len(box[w].mail) >= MailboxMax ->
                    coord' = "error" /\ UNCHANGED <<box, down>>
             [] Len(box[w].mail) < MailboxMax /\ b.parked ->
                    DeliverNext(w, b)
             [] OTHER -> box' = [box EXCEPT ![w] = b] /\ UNCHANGED <<down, coord>>
        /\ UNCHANGED <<dir, used, issued, pend, gone>>

-----------------------------------------------------------------------------
(* Signed requests: the key must be the active one or the prior one.       *)

VerifyAuthRequest(d, key) ==
    /\ d["reg"] # None /\ d["cert"] # None
    /\ key \in {d["cert"], d["prior"]} \ {None}

HandleAuth(u, f) ==
    /\ f.type = "auth"
    /\ Put(u, [type |-> "verdict", val |-> VerifyAuthRequest(dir[u], f.key)])
    /\ UNCHANGED <<dir, used, issued, pend, box, gone>>

-----------------------------------------------------------------------------
(* Departure, and the restart of one client with everything kept.          *)

(* Mutant: the end of a pipe goes unnoticed. *)
HandleDepartureGoodbyeOnly(u, f) ==
    /\ f.type \in {"goodbye", "eof"}
    /\ gone' = IF f.type = "goodbye" THEN gone \cup {u} ELSE gone
    /\ UNCHANGED <<down, dir, used, issued, pend, box, coord>>

HandleDeparture(u, f) ==
    /\ f.type \in {"goodbye", "eof"}
    /\ gone' = gone \cup {u}
    /\ UNCHANGED <<down, dir, used, issued, pend, box, coord>>

HandleRestart(u, f) ==
    /\ f.type = "restart"
    /\ coord' = "restarting"
    /\ UNCHANGED <<down, dir, used, issued, pend, box, gone>>

(* The relay reads one frame at a time from the clients that are there. *)
HandleFrame(u) ==
    /\ coord = "serving" /\ u \notin gone /\ up[u] # << >>
    /\ LET f == Head(up[u])
       IN  \/ HandlePublish(u, f) \/ HandleFetch(u, f) \/ HandleSend(u, f)
           \/ HandleRecv(u, f) \/ HandleAuth(u, f) \/ HandleDeparture(u, f)
           \/ HandleRestart(u, f)
    /\ up' = [up EXCEPT ![u] = Tail(@)] /\ UNCHANGED live

AllGone ==
    /\ coord = "serving" /\ gone = Clients
    /\ coord' = "done"
    /\ UNCHANGED <<up, down, dir, used, issued, pend, box, gone, live>>

(* New pipes for bob; the directory and the mailbox stay. *)
RewireBob ==
    /\ coord' = "serving"
    /\ up' = [up EXCEPT !["bob"] = << >>] /\ down' = [down EXCEPT !["bob"] = << >>]
    /\ gone' = gone \ {"bob"} /\ live' = live \cup {"bob"}
    /\ box' = [box EXCEPT !["bob"].parked = FALSE]
    /\ UNCHANGED <<dir, used, issued, pend>>
=============================================================================
