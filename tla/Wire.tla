-------------------------------- MODULE Wire --------------------------------
(***************************************************************************)
(* An object is encoded, kept by a store or carried by a server that may   *)
(* damage it, and decoded.  The damage is at most MaxEdits edits: a unit   *)
(* is changed, lost or added, or slips from one object of a core to the    *)
(* next, or part of an object is replaced by that of another of its kind.  *)
(* A group core travels as four objects (header, member list, pseudonym    *)
(* hashes, signature); every other kind is one object.  Alice answers a    *)
(* bundle with the first message of a session, which travels to Bob.       *)
(***************************************************************************)
EXTENDS Kex, TLC

CONSTANTS Units,        \* the values of a unit an edit writes
          MaxEdits

VARIABLES kind,         \* what was encoded
          sent,         \* the values encoded, one per object
          wire,         \* the wire strings, one per object
          edits,        \* edits made so far
          alice         \* [bundle, out]: the bundle Alice used, what she derived

vars == <<kind, sent, wire, edits, alice>>

Formats ==
    [serverPublic |-> ServerPublic, groupPublic |-> GroupPublic, authResponse |-> AuthResponse,
     authPresentation |-> AuthPresentation, pkPresentation |-> PkPresentation,
     pkCommitment |-> PkCommitment, pkRequest |-> PkRequestObj, pkResponse |-> PkResponse,
     pkVersion |-> PkVersion, keyDistribution |-> KeyDistribution,
     groupMembers |-> GroupMemberList, appendix |-> Appendix, inviteQueue |-> InviteQueue,
     acct |-> Acct, session |-> SessionRecord, device |-> DeviceRecord,
     hybridDevice |-> HybridDeviceRecord, user |-> UserRecord, envelope |-> Envelope,
     bundle |-> Bundle, opkBatch |-> OpkBatch, hybridBundle |-> HybridBundle,
     hybridOpkBatch |-> HybridOpkBatch, appkeyCert |-> AppkeyCert,
     hybridAppkeyCert |-> HybridAppkeyCert, drHeader |-> DrHeader,
     hybridDrHeader |-> HybridDrHeader, initial |-> InitialMessage,
     hybridInitial |-> HybridInitialMessage]

CoreFormat == <<CoreHeader, MemberList, VkList, CoreSig>>

FormatOf(k) == IF k = "core" THEN CoreFormat ELSE <<Formats[k]>>

(* A session's epochs are those its skipped keys name, in order, each with *)
(* the number of keys it has.                                              *)
SkippedKeysAt == 37

Epochs(skipped) ==
    LET slots == SetToSortSeq({skipped[i][1] : i \in DOMAIN skipped}, <)
    IN  [j \in DOMAIN slots |->
           <<slots[j], Cardinality({i \in DOMAIN skipped : skipped[i][1] = slots[j]}), 1>>]

Encodable(k, v) ==
    k = "session" => v[SkippedKeysAt + 1] = Epochs(v[SkippedKeysAt])

-----------------------------------------------------------------------------
(* The keys of a handshake.  Bob publishes signed prekeys 5, 6 and 7 and   *)
(* has deleted 7; he publishes one-time prekeys 8 and 9 and has used 9.    *)
(* Carol has published keys too, and Dave, like Alice, opens sessions.     *)

PublicOf(k) == KeyOf(<<CurveType, k>>)
HybridPublicOf(k) == KeyOf(<<CurveType, k, k>>)
HybridIdentityOf(k) == KeyOf(<<CurveType, k, k, k>>)

BobIk == 4
CarolIk == 10
SpkOwner == (5 :> BobIk) @@ (6 :> BobIk) @@ (7 :> BobIk) @@ (11 :> CarolIk)
Opks == {8, 9, 12}
Initiators == {<<2, 3>>, <<13, 14>>}     \* identity and ephemeral keys: Alice, Dave
Timestamp == 1

(* Refresh intervals from min to max, and AEADs 1 to n. *)
Flags(min, max, n) == min + FieldSize * max + FieldSize ^ 2 * (2 ^ n - 1)

SpkFlags == (5 :> Flags(1, 2, 2)) @@ (6 :> Flags(1, 1, 3)) @@ (7 :> Flags(1, 2, 1))
              @@ (11 :> Flags(2, 2, 3))

SpkSignatures ==
    {[alg |-> "xeddsa", id |-> k, key |-> SpkOwner[k],
      data |-> SpkSignedData(PublicOf(k), Timestamp)] : k \in DOMAIN SpkOwner}

HybridSpkSignatures ==
    {[alg |-> a, id |-> k, key |-> SpkOwner[k],
      data |-> HybridSignedData(HybridPublicOf(k), Timestamp, SpkFlags[k])] :
        k \in DOMAIN SpkOwner, a \in {"xeddsa", "mldsa"}}

(* Bundles as a server puts them together from what it keeps, not always   *)
(* from the parts of one user.                                             *)
BundleValue(ik, spk, opk) ==
    <<Version, Classical>> \o PublicOf(ik) \o PublicOf(spk)
      \o <<Timestamp, spk, IF opk = 0 THEN << >> ELSE PublicOf(opk)>>

HybridBundleValue(ik, spk, opk) ==
    <<Version, Hybrid>> \o HybridIdentityOf(ik) \o HybridPublicOf(spk)
      \o <<HybridIdentityOf(SpkOwner[spk])[1], Timestamp, SpkFlags[spk], spk, spk>>
      \o IF opk = 0 THEN <<0, 0, 0, 0>> ELSE HybridPublicOf(opk)

BobClassical ==
    [ik |-> PublicOf(BobIk), opks |-> {PublicOf(8)},
     spks |-> {[key |-> PublicOf(k), flags |-> 0] : k \in {5, 6}}]

BobHybrid ==
    [ik |-> HybridIdentityOf(BobIk), opks |-> {HybridPublicOf(8)},
     spks |-> {[key |-> HybridPublicOf(k), flags |-> SpkFlags[k]] : k \in {5, 6}}]

(* The preferences of an initiator, the interval beyond both ends of what  *)
(* may be offered.                                                         *)
Preferences == Aeads \X (0 .. MaxInterval + 1)

(* What Alice and Dave make of two of Bob's bundles. *)
OtherInitials ==
    {Enc(InitialMessage, InitialOf(PublicOf(i[1]), PublicOf(i[2]), BundleOf(b))) :
        i \in Initiators, b \in {BundleValue(BobIk, 5, 8), BundleValue(BobIk, 6, 0)}}

OtherHybridInitials ==
    UNION {{Enc(HybridInitialMessage,
                HybridInitialOf(HybridIdentityOf(i[1]), PublicOf(i[2]), b,
                                BuildHybridFlag(p[1], p[2], b.flags))) :
              i \in Initiators, p \in Preferences} :
           b \in {HybridBundleOf(HybridBundleValue(BobIk, 5, 8)),
                  HybridBundleOf(HybridBundleValue(BobIk, 6, 0))}}

-----------------------------------------------------------------------------
Objects(k) ==
    CASE k = "bundle" -> {BundleValue(i, s, o) : i \in {BobIk, CarolIk},
                                                 s \in DOMAIN SpkOwner, o \in Opks \cup {0}}
      [] k = "hybridBundle" -> {HybridBundleValue(i, s, o) : i \in {BobIk, CarolIk},
                                                 s \in DOMAIN SpkOwner, o \in Opks \cup {0}}
      [] OTHER -> {x \in Values(Formats[k], << >>) : Encodable(k, x)}

Init ==
    /\ kind \in (DOMAIN Formats \ {"initial", "hybridInitial"}) \cup {"core"}
    /\ sent \in IF kind = "core"
                THEN {<<h, m, v, s>> : h \in Values(CoreHeader, << >>), m \in Values(MemberList, << >>),
                                       v \in Values(VkList, << >>), s \in Values(CoreSig, << >>)}
                ELSE {<<v>> : v \in Objects(kind)}
    /\ wire = [i \in DOMAIN sent |-> Enc(FormatOf(kind)[i], sent[i])]
    /\ edits = 0
    /\ alice = {}

-----------------------------------------------------------------------------
(* The store or the server. *)

Edited(w) ==
    /\ edits < MaxEdits
    /\ wire' = w
    /\ edits' = edits + 1
    /\ UNCHANGED <<kind, sent, alice>>

Change == \E i \in DOMAIN wire : \E p \in DOMAIN wire[i], x \in Units :
    wire[i][p] # x /\ Edited([wire EXCEPT ![i][p] = x])

Lose == \E i \in DOMAIN wire : \E p \in DOMAIN wire[i] :
    Edited([wire EXCEPT ![i] = RemoveAt(@, p)])

Add == \E i \in DOMAIN wire : \E p \in 1 .. Len(wire[i]) + 1, x \in Units :
    Edited([wire EXCEPT ![i] = InsertAt(@, p, x)])

Slip == \E i \in DOMAIN wire \ {Len(wire)} :
    Edited([wire EXCEPT ![i] = Front(@), ![i + 1] = <<Last(wire[i])>> \o @])

(* The frame of the message stays. *)
Splice(w, others) ==
    /\ edits < MaxEdits
    /\ \E o \in others, p \in DOMAIN w : \E q \in p .. Len(w) - Len(Frame) :
          Edited(<<[n \in DOMAIN w |-> IF n \in p .. q THEN o[n] ELSE w[n]]>>)

SpliceInitial == kind = "initial" /\ Splice(wire[1], OtherInitials)

SpliceHybridInitial == kind = "hybridInitial" /\ Splice(wire[1], OtherHybridInitials)

-----------------------------------------------------------------------------
(* What the reader makes of it: a set of at most one value per object. *)

Read(i) == Dec(FormatOf(kind)[i], wire[i])

Accepted == \A i \in DOMAIN wire : Read(i) # {}

Value == [i \in DOMAIN wire |-> CHOOSE v \in Read(i) : TRUE]

(* Alice. *)

Send(k, bundle, out, v) ==
    /\ kind' = k
    /\ sent' = <<v>>
    /\ wire' = <<Enc(Formats[k], v)>>
    /\ edits' = 0
    /\ alice' = {[bundle |-> bundle, out |-> out]}

SendInitiate == kind = "bundle" /\ \E v \in Read(1) :
    LET b == BundleOf(v) ik == PublicOf(2) ek == PublicOf(3)
    IN  \E out \in X3dhInitiate(ik, ek, b, SpkSignatures) : Send("initial", b, out, InitialOf(ik, ek, b))

SendInitiateHybrid == kind = "hybridBundle" /\ \E v \in Read(1), p \in Preferences :
    LET b == HybridBundleOf(v) ik == HybridIdentityOf(2) ek == PublicOf(3)
        flag == BuildHybridFlag(p[1], p[2], b.flags)
    IN  \E out \in HybridX3dhInitiate(ik, ek, b, flag, HybridSpkSignatures) :
           Send("hybridInitial", b, out, HybridInitialOf(ik, ek, b, flag))

Next ==
    \/ Change \/ Lose \/ Add \/ Slip \/ SpliceInitial \/ SpliceHybridInitial
    \/ SendInitiate \/ SendInitiateHybrid

Spec == Init /\ [][Next]_vars

-----------------------------------------------------------------------------
(* Signatures over decoded objects. *)

(* Mutant: the count of folded lines is not signed. *)
CoreTbsNoVmin(core) ==
    <<core[4][4]>> \o Enc(CoreHeader, core[1]) \o Enc(MemberList, core[2])
                   \o Enc(VkList, core[3]) \o <<core[1][7]>>

(* What a core's signature covers: the signer's index, the three objects   *)
(* encoded again from what was decoded, vMaj and the last vMin.            *)
CoreTbs(core) ==
    <<core[4][4]>> \o Enc(CoreHeader, core[1]) \o Enc(MemberList, core[2])
                   \o Enc(VkList, core[3]) \o <<core[1][7], core[4][5]>>

CoreVerifies(core) == core[4][6] = sent[4][6] /\ CoreTbs(core) = CoreTbs(sent)

(* A line's signature covers the header of the appendix and the line. *)
LineTbs(apx, l) == <<apx[4], apx[5], apx[6], l[1], l[2]>> \o l[3]

LineVerifies(apx, l) ==
    \E m \in ToSet(sent[1][7]) : l[4] = m[4] /\ LineTbs(apx, l) = LineTbs(sent[1], m)

-----------------------------------------------------------------------------
(* What an encoder writes its decoder reads back: no bound, tag or flag an *)
(* encoder produces is refused by the checks of the decoder.               *)
RoundTrip == edits = 0 => \A i \in DOMAIN wire : Read(i) = {sent[i]}

(* The slots of the epochs as they stand in a session record: ascending,   *)
(* where an encoder wrote them.                                            *)
EpochsAscend(w) ==
    \A p \in Parse(SubSeq(SessionRecord, 1, SkippedKeysAt), w, << >>) :
       LET slot(j) == p.rest[3 * j - 1]
       IN  \A j \in 1 .. p.rest[1], k \in 1 .. p.rest[1] : j < k => slot(j) < slot(k)

(* Decoding is strict: a damaged object is refused, or it is the one       *)
(* encoding of the value that is read from it.  Two decoders take more:    *)
(* any byte but 0 says that a one-time prekey follows in a classical       *)
(* bundle, and dr_decode stores the epochs of a session record in whatever *)
(* order they come, one slot's twice as well.  Such a record still yields  *)
(* a value whose encoding reads back as that value.                        *)
StrictDecode ==
    kind # "bundle" =>
       \A i \in DOMAIN wire : \A v \in Read(i) :
          LET again == Enc(FormatOf(kind)[i], v)
          IN  /\ Dec(FormatOf(kind)[i], again) = {v}
              /\ again = wire[i] \/ (kind = "session" /\ ~EpochsAscend(wire[i]))

(* The signature of a core is over the three objects encoded again after   *)
(* decoding, not over what arrived, and a line's over fields spliced with  *)
(* the appendix header.  Nothing is lost by that: a core that is accepted  *)
(* with the signature it was sent with is the core that was sent, and an   *)
(* appendix line that verifies is one that was sent, in the same version.  *)
SignedExact ==
    /\ kind = "core" /\ Accepted =>
          (CoreVerifies(Value) => wire = [i \in DOMAIN sent |-> Enc(CoreFormat[i], sent[i])])
    /\ kind = "appendix" /\ Accepted =>
          \A l \in ToSet(Value[1][7]) : LineVerifies(Value[1], l) =>
             /\ l \in ToSet(sent[1][7])
             /\ \A j \in 4 .. 6 : Value[1][j] = sent[1][j]

(* Bob's side of a handshake: what he derives if the first frame opens. *)
Answer(v) ==
    UNION {IF kind = "initial" THEN RecvInit(BobClassical, v, a.out)
                               ELSE HybridRecvInit(BobHybrid, v, a.out) : a \in alice}

(* A bundle may be put together from the parts of two users, a key or a    *)
(* field replaced by another that is valid, on either leg; the checks that *)
(* catch it are spread over the bundle's signatures, the key ids, the      *)
(* derivation and the frame's associated data.  If Bob answers at all, he  *)
(* and Alice agree on secrets, associated data, signed prekey, AEAD and    *)
(* refresh interval, Alice used his identity and one of his signed prekeys *)
(* with the flags he signed, and the message is the one she sent (but for  *)
(* the encapsulation to a one-time prekey that is not there and what       *)
(* follows a classical frame, which nobody reads).  And he answers every   *)
(* undamaged message made from a bundle of his while he holds its keys.    *)
HandshakeExact ==
    kind \in {"initial", "hybridInitial"} =>
       LET bob == IF kind = "initial" THEN BobClassical ELSE BobHybrid
           idAt == IF kind = "initial" THEN 11 ELSE 16
       IN  \A a \in alice :
             /\ \A v \in Read(1) : \A out \in Answer(v) :
                   /\ out = a.out
                   /\ a.bundle.ik = bob.ik
                   /\ kind = "hybridInitial" =>
                         [key |-> a.bundle.spk, flags |-> a.bundle.flags] \in bob.spks
                   /\ \A n \in 1 .. Len(v) - 1 :
                         v[n] = sent[1][n] \/ (v[idAt] = 0 /\ n = 13)
             /\ edits = 0 /\ a.bundle.ik = bob.ik
                /\ a.bundle.spk \in {s.key : s \in bob.spks}
                /\ (IsPresent(a.bundle.opk) => a.bundle.opk \in bob.opks)
                => Answer(sent[1]) # {}
=============================================================================
