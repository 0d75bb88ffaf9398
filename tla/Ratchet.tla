------------------------------- MODULE Ratchet -------------------------------
(***************************************************************************)
(* A session of either engine between two sides over a network that loses, *)
(* delays, reorders, duplicates and damages messages: a message, once      *)
(* sent, may be delivered at any later time, any number of times, intact   *)
(* or not, or never.                                                       *)
(***************************************************************************)
EXTENDS HybridRatchet

CONSTANT Intervals  \* refresh intervals of hybrid sessions

vars == <<session, interval>>

Init == /\ interval \in Intervals \cup {0}
        /\ IF interval = 0 THEN ClassicalInit ELSE HybridInit
        /\ sent = [p \in Party |-> {}]
        /\ accepted = [p \in Party |-> NoCount]

Next == /\ \/ interval = 0 /\ ClassicalNext
           \/ interval # 0 /\ HybridNext
        /\ UNCHANGED interval

Spec == Init /\ [][Next]_vars
------------------------------------------------------------------------------
\* No message is ever decrypted twice, however often it is delivered, before
\* or after its key was skipped, used, evicted or aged out.
NoReplay == \A p \in Party : \A m \in DOMAIN accepted[p] : accepted[p][m] = 1

\* Every message has a key of its own and a (header key, number) of its own,
\* over all chains of both sides.
KeysNeverReused ==
  \A p, q \in Party : \A m \in sent[p], o \in sent[q] :
    (m.mk = o.mk \/ (m.hk = o.hk /\ m.n = o.n)) => p = q /\ m = o

\* Forward secrecy of the state: once a message is decrypted, nothing its
\* receiver holds yields its key again, and its sender has moved past it.
ForwardSecrecy ==
  \A p \in Party :
    /\ \A m \in DOMAIN accepted[p] :
         /\ ~ Derivable(st[p].ckr, m.mk)
         /\ \A i \in DOMAIN st[p].skipped.ent : st[p].skipped.ent[i].mk # m.mk
    /\ \A m \in sent[p] : ~ Derivable(st[p].cks, m.mk)

\* Whatever order messages arrive in, one that was sent and not yet decrypted
\* can be decrypted now: the engine never paints itself into a corner, and
\* with ML-KEM what it encapsulated to is a key its peer still holds.  Said of
\* as many messages as a store has room for, none old enough to be forgotten.
StillReceivable ==
  \A p \in Party :
    Cardinality(sent[Peer(p)]) <= MaxSkip + 1 /\ Cardinality(DOMAIN accepted[p]) <= AgeLimit =>
      \A m \in sent[Peer(p)] :
        \/ m \in DOMAIN accepted[p]
        \/ OpensWithSkipped(st[p], m, TRUE)
        \/ IF interval = 0 THEN OpensWithChain(st[p], m, TRUE)
                           ELSE HybridOpensWithChain(st[p], m, TRUE)

\* What the two sides make of the confirmation agrees, over a network that
\* loses and reorders: an initiator is sure only when the responder has sent
\* its confirmation, a responder only when the initiator has opened it, and an
\* initiator keeps its identity key no longer than it needs it (section 8.4).
ConfirmationAgreed ==
  interval > 0 =>
    /\ st[Alice].pq = "confirmed" => st[Bob].pq # "classical"
    /\ st[Bob].pq = "confirmed" => st[Alice].pq = "confirmed"
    /\ (st[Alice].pq = "classical") = (st[Alice].idKem # NoKey)
==============================================================================
