---------------------------- MODULE WireFormats ----------------------------
(***************************************************************************)
(* The formats of the library's objects, one definition per pair of an     *)
(* encoder and its decoder: private groups (src/group/group_wire.c),       *)
(* post-quantum groups (src/qspgs/qspgs_wire.c), sealed records            *)
(* (src/session/session.c), envelopes and bundles (src/proto/envelope.c)   *)
(* and ratchet headers (src/ratchet/header.c).  The points and the         *)
(* responses of a proof are one unit each.                                 *)
(***************************************************************************)
EXTENDS Codec

CONSTANTS
    MaxEntries,     \* GY_GROUP_MAX_ENTRIES, GY_QSPGS_MAX_ENTRIES
    MaxBlob,        \* the longest blob tried, and the longest a record holds
    SigLen,         \* dsa_sig_len, the width of the signatures the library makes
    MaxSkip,        \* GY_MAX_SKIP
    MaxRefs         \* GY_DEVICE_MAX, GY_SESSION_INACTIVE_MAX

Version == 1
Classical == 1
Hybrid == 2

Opaque == Blob(0 .. MaxBlob, Nat)
NonEmpty == Blob(1 .. MaxBlob, Nat \ {0})
Signature == Blob({SigLen}, {SigLen})
Proof == Keys(2)

-----------------------------------------------------------------------------
(* Private groups.                                                         *)

GroupObj(type) == <<Lit(type), Lit(Version), Lit(Classical)>>

ServerPublic == GroupObj(1) \o Keys(2)
GroupPublic == GroupObj(10) \o Keys(2)
MacTag == Keys(3)
AuthResponse == GroupObj(2) \o MacTag \o Proof
AuthPresentation == GroupObj(3) \o Keys(9) \o Proof
PkPresentation == GroupObj(4) \o Keys(11) \o Proof
PkCommitment == GroupObj(5) \o Keys(3)
PkRequestObj == GroupObj(6) \o Keys(5) \o Proof
PkResponse == GroupObj(7) \o Keys(4) \o Proof
PkVersion == GroupObj(8) \o Keys(1)
KeyDistribution == <<Lit(Version), Lit(Classical), Lit(3)>> \o Keys(2)

(* Mutant: the empty key slot of an invited member is not looked at. *)
GroupMemberListLoose ==
    GroupObj(9) \o <<List(MaxEntries, <<Bool, Bool, Key, Key, ZeroUnless(1, Nat), ZeroUnless(1, Nat)>>)>>

(* An entry: has_profile_key, role, the account and the profile key, whose *)
(* slot is zero for an invited member.                                     *)
GroupMemberList ==
    GroupObj(9) \o <<List(MaxEntries, <<Bool, Bool, Key, Key, ZeroUnless(1, {0}), ZeroUnless(1, {0})>>)>>

-----------------------------------------------------------------------------
(* Post-quantum groups.                                                    *)

HashLen == 1

QspgsObj(type) == <<Lit(type), Lit(Version), Lit(Hybrid)>>

(* gid, format version, AEAD, vMaj, settings and attributes, join link. *)
CoreHeader == QspgsObj(1) \o <<Key, Num({1}, {1}), Key, Key, Opaque, OptBlob>>
MemberList == QspgsObj(2) \o <<Lit(HashLen), List(MaxEntries, <<Key, Bool, Opaque>>)>>
VkList == QspgsObj(3) \o <<Lit(HashLen), List(MaxEntries, <<Key>>)>>

(* signer index, last vMin, signature. *)
CoreSig == QspgsObj(4) \o <<Key, Key, Signature>>

(* gid, vMaj, vMin, then lines: type, author, payload, signature. *)
Appendix ==
    QspgsObj(5) \o Keys(3) \o <<List(MaxEntries, <<Num(1 .. 5, 1 .. 5), Key, Opaque, Signature>>)>>
InviteQueue == QspgsObj(6) \o <<List(MaxEntries, <<NonEmpty>>)>>
Acct == QspgsObj(7) \o Keys(3) \o <<NonEmpty, NonEmpty>>

-----------------------------------------------------------------------------
(* Sealed records.                                                         *)

Short == Blob(0 .. MaxBlob, 0 .. MaxBlob)
Name == Blob(1 .. MaxBlob, 1 .. MaxBlob)
RecordHdr(suites) == <<Lit(1), Lit(0), Num(suites, suites)>>

(* Mutant: the last epoch is refused. *)
DrFieldsOffByOne ==
    Keys(24) \o <<List(MaxSkip, <<Num(0 .. MaxSkip - 1, 0 .. MaxSkip - 2), Key, Key, Key>>),
                  Table(MaxSkip, <<Num(0 .. MaxSkip - 1, 0 .. MaxSkip - 1),
                                   Num(1 .. MaxSkip, 1 .. MaxSkip), Key>>)>>

(* Keys, counters and flags; then the skipped keys, by the number of their *)
(* epoch, and the epochs in use, which are read into a table of slots.     *)
DrFields == Keys(24) \o <<List(MaxSkip, <<Num(0 .. MaxSkip - 1, 0 .. MaxSkip - 1), Key, Key, Key>>),
                          Table(MaxSkip, <<Num(0 .. MaxSkip - 1, 0 .. MaxSkip - 1),
                                           Num(1 .. MaxSkip, 1 .. MaxSkip), Key>>)>>

HybridFields == [i \in 1 .. 18 |-> When(3, {Hybrid})]

SessionRecord ==
    RecordHdr({Classical, Hybrid}) \o <<Short>> \o Keys(7) \o <<Short>> \o DrFields \o HybridFields

DeviceFields == <<Name>> \o Keys(3) \o <<Short>> \o Keys(4) \o <<List(MaxRefs, <<Key>>)>>
DeviceRecord == RecordHdr({Classical, Hybrid}) \o DeviceFields
HybridDeviceRecord == RecordHdr({Hybrid}) \o DeviceFields \o Keys(2)

UserRecord ==
    <<Lit(1), Lit(0), Key>> \o <<Name, Key, List(MaxRefs, <<Name, Key>>)>>

-----------------------------------------------------------------------------
(* Envelopes, bundles and headers.                                         *)

WireHdr(suite) == <<Lit(Version), Lit(suite)>>
PublicKey == Keys(3)
HybridKey == Keys(4)

(* The message inside repeats version and suite. *)
Envelope == WireHdr(Classical) \o <<Num({1, 2}, {1, 2})>> \o WireHdr(Classical) \o <<Rest>>
Bundle == WireHdr(Classical) \o PublicKey \o PublicKey \o Keys(2) \o <<OptKey(3)>>
OpkBatch == WireHdr(Classical) \o <<List(MaxEntries, PublicKey)>>
HybridBundle == WireHdr(Hybrid) \o HybridKey \o Keys(1) \o HybridKey \o Keys(5) \o HybridKey
HybridOpkBatch == WireHdr(Hybrid) \o <<List(MaxEntries, HybridKey)>>
(* The first message of a session: both keys of the initiator, [the three  *)
(* encapsulations,] the ids of the responder's keys, [the flag or] the     *)
(* length of the frame, the frame.                                         *)
InitialMessage == WireHdr(Classical) \o PublicKey \o PublicKey \o Keys(4) \o <<Rest>>
HybridInitialMessage == WireHdr(Hybrid) \o HybridKey \o Keys(1) \o PublicKey \o Keys(7) \o <<Rest>>
AppkeyCert == WireHdr(Classical) \o PublicKey \o Keys(4)
HybridAppkeyCert == WireHdr(Hybrid) \o PublicKey \o Keys(6)

DrHeader == <<Num({0}, {0})>> \o Keys(3)

(* Flags 1 and 2: an encapsulation key, a confirmation follow. *)
HybridDrHeader == <<Num(0 .. 3, 0 .. 3)>> \o Keys(4) \o <<When(1, {1, 3}), When(1, {2, 3})>>
=============================================================================
