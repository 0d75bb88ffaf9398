------------------------------ MODULE StagedOp ------------------------------
(***************************************************************************)
(* The staging engine of src/session/store.c: an operation collects the    *)
(* records it writes and the deletions it defers, reads its own writes,    *)
(* and commits by a sequence of store callbacks in a fixed order.          *)
(*                                                                         *)
(* A store is a function from record keys to records, None standing for an *)
(* absent record.  A one-time prekey is "live", "wiped" (gone from memory, *)
(* still in the sealed blob of src/proto/custodian.c) or None.             *)
(***************************************************************************)
EXTENDS Naturals, Sequences, SequencesExt, FiniteSetsExt

CONSTANTS
  None,         \* no record, no session
  MaxRecords,   \* GY_OP_MAX_RECORDS
  MaxSessions,  \* GY_OP_MAX_SESSIONS
  MaxDefer      \* GY_OP_MAX_DEFER

\* The keys of the records of one peer user (enum gy_rec_kind).
User == <<"user">>
Device(d) == <<"device", d>>
Session(s) == <<"session", s>>
Opk(s) == <<"opk", s>>

\* What an operation asks of the stage, and later the commit of the store.
Put(key, val) == [key |-> key, val |-> val]
Delete(key) == [key |-> key, val |-> None]

EmptyOp == [rec |-> << >>, sess |-> << >>, defer |-> << >>]

Staged(slots, key) == {i \in DOMAIN slots : slots[i].key = key}
------------------------------------------------------------------------------
\* stage_lookup, op_load: staged writes first, then staged deletions, then the
\* committed store.
Load(op, db, key) ==
  LET puts == op.rec \o op.sess
  IN  IF Staged(puts, key) # {} THEN puts[Min(Staged(puts, key))].val
      ELSE IF Staged(op.defer, key) # {} THEN None
      ELSE db[key]

\* rec_slot, put_rec, gy_op_put_session: overwrite the record's slot or take
\* the first free one.
Overwrite(slots, step) ==
  IF Staged(slots, step.key) = {}
    THEN Append(slots, step)
    ELSE [slots EXCEPT ![Min(Staged(slots, step.key))] = step]

\* Whether a slot is left.
Fits(slots, step, cap) == Staged(slots, step.key) # {} \/ Len(slots) < cap

\* One staging call; it fails without effect when its area is full.
StageOne(acc, step) ==
  LET op == acc.op
      sess == step.key[1] = "session"
      fits == CASE step.val = None -> Len(op.defer) < MaxDefer
                [] sess            -> Fits(op.sess, step, MaxSessions)
                [] OTHER           -> Fits(op.rec, step, MaxRecords)
      done == CASE step.val = None -> [op EXCEPT !.defer = Append(@, step)]
                [] sess            -> [op EXCEPT !.sess = Overwrite(@, step)]
                [] OTHER           -> [op EXCEPT !.rec = Overwrite(@, step)]
  IN  IF acc.ok /\ fits THEN [ok |-> TRUE, op |-> done]
                        ELSE [ok |-> FALSE, op |-> op]

\* A run of staging calls up to the first failure, whose predecessors stay
\* staged.
Stage(op, steps) == FoldLeft(StageOne, [ok |-> TRUE, op |-> op], steps)
------------------------------------------------------------------------------
\* A commit that runs the deferred actions first.
CallsDeferredFirst(op) == op.defer \o op.rec \o op.sess

\* gy_op_commit's callbacks in order: user and device records, sessions, then
\* the deferred deletions and consumptions.
Calls(op) == op.rec \o op.sess \o op.defer

\* Whether a callback consumes a one-time prekey.
Consumes(call) == call.key[1] = "opk"

\* The store after a sequence of callbacks that succeed.  Consuming a one-time
\* prekey seals the whole blob again, without any key wiped before.
Apply(db, calls) ==
  [key \in DOMAIN db |->
     LET hits == Staged(calls, key)
     IN  IF hits # {} THEN calls[Max(hits)].val
         ELSE IF key[1] = "opk" /\ db[key] = "wiped" /\ (\E i \in DOMAIN calls : Consumes(calls[i]))
         THEN None
         ELSE db[key]]

\* The stores a failing callback may leave: it changes nothing, but that
\* tr_consume_opk wipes the key before it seals the blob, which may fail.
Failed(db, call) ==
  {db} \cup (IF Consumes(call) THEN {[db EXCEPT ![call.key] = "wiped"]} ELSE {})

\* The stores gy_op_commit may leave when it stops at the first failure after k
\* callbacks, or succeeds with all of them.
Outcomes(db, calls, k) ==
  LET done == Apply(db, SubSeq(calls, 1, k))
  IN  IF k = Len(calls) THEN {done} ELSE Failed(done, calls[k + 1])

\* Opening the custodian: the keys are those of the sealed blob.
Reopened(db) ==
  [key \in DOMAIN db |->
     IF key[1] = "opk" /\ db[key] = "wiped" THEN "live" ELSE db[key]]
==============================================================================
