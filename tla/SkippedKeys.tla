----------------------------- MODULE SkippedKeys -----------------------------
(***************************************************************************)
(* What the skipped-key store promises its callers, without the epoch      *)
(* table, the reference counts and the slots: a bounded queue of message   *)
(* keys, each filed under the header key and message number it was skipped *)
(* with, that forgets its oldest key when it is full and every key that    *)
(* has seen AgeLimit ticks of the decryption clock.                        *)
(***************************************************************************)
EXTENDS Integers, FiniteSets, FiniteSetsExt, Functions

CONSTANTS MaxSkip, AgeLimit, HeaderKey, MsgNum, MessageKey, MaxClock, MaxStamp

VARIABLES keys, clock

vars == <<keys, clock>>

Init == keys = [i \in {} |-> 0] /\ clock = 0

Room == IF Cardinality(DOMAIN keys) = MaxSkip
        THEN Restrict(keys, DOMAIN keys \ {Min(DOMAIN keys)})
        ELSE keys

\* A message was skipped: file its key behind the others.
Add(hk, n, mk) ==
  LET k == Max({0} \cup DOMAIN Room) + 1
      key == [hk |-> hk, n |-> n, age |-> clock, mk |-> mk]
  IN  /\ Max({0} \cup DOMAIN keys) < MaxStamp
      /\ keys' = [i \in {k} \cup DOMAIN Room |-> IF i = k THEN key ELSE Room[i]]
      /\ UNCHANGED clock

\* A key has been used and is gone for good.
Take(i) ==
  /\ i \in DOMAIN keys
  /\ keys' = Restrict(keys, DOMAIN keys \ {i})
  /\ UNCHANGED clock

\* A message was decrypted.
Tick ==
  /\ clock < MaxClock
  /\ clock' = clock + 1
  /\ keys' = Restrict(keys, {i \in DOMAIN keys : clock' - keys[i].age < AgeLimit})

Next ==
  \/ \E hk \in HeaderKey, n \in MsgNum, mk \in MessageKey : Add(hk, n, mk)
  \/ \E i \in DOMAIN keys : Take(i)
  \/ Tick

Spec == Init /\ [][Next]_vars
==============================================================================
