------------------------------ MODULE Converge ------------------------------
(***************************************************************************)
(* Two custodians, one device each, that send to each other whenever they  *)
(* like: either may initiate while the other does (src/session/send.c,     *)
(* recv.c).  A send is gy_send_open, gy_initiate or gy_encrypt, and        *)
(* gy_commit with nothing in between.  Each direction of the network is a  *)
(* queue, which may lose messages.                                         *)
(***************************************************************************)
EXTENDS SessionOps

CONSTANTS
  Parties,   \* the two custodians, each the other's device id
  Bases,     \* base keys, and the session ids hashed from them
  MaxSends   \* bound: messages each custodian sends

ASSUME ConvergeAssumption ==
  /\ Cardinality(Parties) = 2
  /\ SidOf \in [Bases -> Bases]

VARIABLES
  hybrid,   \* whether the suite is a hybrid one
  db,       \* db[p]: p's store
  chan,     \* chan[p]: the messages on their way to p
  sends,    \* sends[p]: how many messages p has sent
  used,     \* the base keys generated
  crossed,  \* whether more than one message was sent since all had arrived
  lost,     \* whether the network has lost a message
  refused,  \* whether a delivered message was ever rejected
  settled   \* whether the last message crossed no other and was received

vars == <<hybrid, db, chan, sends, used, crossed, lost, refused, settled>>

Other(p) == CHOOSE q \in Parties : q # p

Keys == {User} \cup {Device(d) : d \in Parties}
          \cup {Session(s) : s \in Bases} \cup {Opk(s) : s \in Bases}

Init ==
  /\ hybrid \in BOOLEAN
  /\ db = [p \in Parties |->
             [key \in Keys |-> IF key[1] = "opk" THEN "live" ELSE None]]
  /\ chan = [p \in Parties |-> << >>]
  /\ sends = [p \in Parties |-> 0]
  /\ used = {}
  /\ crossed = FALSE
  /\ lost = FALSE
  /\ refused = FALSE
  /\ settled = FALSE

Committed(store, steps) == Apply(store, Calls(Stage(EmptyOp, steps).op))
IdentityOf(p) == IF hybrid THEN <<p, p, p>> ELSE p
Quiet == \A p \in Parties : chan[p] = << >>

\* p hands a message of a session with base key b to the network.
Emit(p, type, b, n, conf) ==
  /\ chan' = [chan EXCEPT ![Other(p)] =
                Append(@, [type |-> type, from |-> p, ik |-> IdentityOf(p), base |-> b,
                           n |-> n, opk |-> type = "INIT", conf |-> conf])]
  /\ crossed' = ~Quiet
  /\ sends' = [sends EXCEPT ![p] = @ + 1]
  /\ settled' = FALSE
------------------------------------------------------------------------------
\* gy_initiate or gy_reinitiate, with a fresh bundle of the other's and a base
\* key none has used.
Initiate(p) ==
  /\ sends[p] < MaxSends /\ used # Bases
  /\ LET b == CHOOSE x \in Bases : x \notin used
         ik == IdentityOf(Other(p))
         r == IF hybrid THEN SendInitiateHybrid(EmptyOp, db[p], Other(p), ik, TRUE, b)
                        ELSE SendInitiate(EmptyOp, db[p], Other(p), ik, TRUE, b)
     IN  /\ r.rc = "OK"
         /\ db' = [db EXCEPT ![p] = Committed(@, r.steps)]
         /\ used' = used \cup {b}
         /\ Emit(p, "INIT", b, 1, FALSE)
  /\ UNCHANGED <<hybrid, lost, refused>>

\* gy_encrypt.
Encrypt(p) ==
  /\ sends[p] < MaxSends
  /\ LET r == SendEncrypt(EmptyOp, db[p], Other(p))
         s == db[p][Session(db[p][Device(Other(p))].active)]
     IN  /\ r.rc = "OK"
         /\ db' = [db EXCEPT ![p] = Committed(@, r.steps)]
         /\ Emit(p, "DR", s.base, s.nsend + 1, s.pq = "confirmed")
  /\ UNCHANGED <<hybrid, used, lost, refused>>

\* gy_receive.
Receive(p) ==
  /\ chan[p] # << >>
  /\ LET m == Head(chan[p])
         r == IF hybrid THEN HybridRecv(db[p], m) ELSE Recv(db[p], m)
         ok == r.rc = "OK"
     IN  /\ db' = [db EXCEPT ![p] = IF ok THEN Committed(@, r.steps) ELSE @]
         /\ refused' = (refused \/ ~ok)
         /\ settled' = (ok /\ ~crossed)
  /\ chan' = [chan EXCEPT ![p] = Tail(@)]
  /\ UNCHANGED <<hybrid, sends, used, crossed, lost>>

\* The network drops the next message.
Lose(p) ==
  /\ chan[p] # << >>
  /\ chan' = [chan EXCEPT ![p] = Tail(@)]
  /\ lost' = TRUE
  /\ UNCHANGED <<hybrid, db, sends, used, crossed, refused, settled>>

Next ==
  \E p \in Parties :
    \/ Initiate(p)
    \/ Encrypt(p)
    \/ Receive(p)
    \/ Lose(p)

Spec == Init /\ [][Next]_vars

\* What the network does not lose it delivers, and the application passes every
\* delivered message to gy_receive: WF_vars(Receive(p)), spelt out, a message on
\* its way being all that Receive waits for.
Delivery(p) == []<>(chan[p] = << >>) \/ []<><<Receive(p)>>_vars

FairSpec == Spec /\ \A p \in Parties : Delivery(p)
------------------------------------------------------------------------------
\* gy_pq_pending.
PqPending(p) ==
  LET q == DevicePqState(db[p], Other(p))
  IN  IF ~hybrid THEN "NOT_APPLICABLE"
      ELSE IF q.found /\ q.confirmed THEN "CONFIRMED" ELSE "PENDING"

ActiveOf(p) ==
  LET dev == db[p][Device(Other(p))] IN IF dev = None THEN None ELSE dev.active

\* Whatever initiations and messages crossed or were lost before, one message
\* that crosses none leaves both custodians with the same active session
\* (D-SES-5).
Converged == settled => \A p, q \in Parties : ActiveOf(p) = ActiveOf(q)

\* While no message is lost, no crossing makes one undecryptable that arrives
\* after the ones sent before it (D-SES-5: "no plaintext loss").
NothingRefused == lost \/ ~refused

\* A session one custodian has is one the other gets, once what was sent has
\* arrived, unless the network loses a message.
BothGetSession ==
  \A p \in Parties, b \in Bases :
    db[p][Session(b)] # None ~> db[Other(p)][Session(b)] # None \/ lost

\* What gy_pq_pending reports as confirmed, the peer's side of the same session
\* bears out: one that answered has the session and sent its confirmation, one
\* that started it has opened the confirmation, whatever crossed or was lost.
ConfirmedByPeer ==
  \A p \in Parties : PqPending(p) = "CONFIRMED" =>
    LET theirs == db[Other(p)][Session(ActiveOf(p))]
    IN  /\ theirs # None
        /\ theirs.pq \in {"confirm_sent", "confirmed"}
        /\ theirs.got # {}
==============================================================================
