-------------------------------- MODULE Kex --------------------------------
(***************************************************************************)
(* Prekey bundles and the X3DH handshake, classical and hybrid             *)
(* (src/kex/prekeys.c, x3dh.c), on the decoded objects of WireFormats.     *)
(*                                                                         *)
(* A key pair is a number, in each of the slots its public key has:        *)
(* <<pkid, curve_type, pk>>, in a hybrid suite followed by the ML-KEM key  *)
(* and, for an identity, by the ML-DSA key.  Whoever holds the pair can    *)
(* use the number as a secret.  A derived secret is the sequence of what   *)
(* went into it.  An operation that may fail yields a set, empty when it   *)
(* does.                                                                   *)
(***************************************************************************)
EXTENDS WireFormats

CurveType == 1

(* A hash cut to four bytes, taken to be injective and not to be 0. *)
Pkid(enc) == FoldLeft(LAMBDA h, u : 16 * h + u, 1, enc)

EncodeEc(k) == Tail(k)
KeyOf(enc) == <<Pkid(enc)>> \o enc
IsPresent(k) == k[1] # 0
CheckPkid(k) == IsPresent(k) /\ Pkid(EncodeEc(k)) = k[1]

(* Diffie-Hellman refuses a result of zero. *)
Dh(own, remote) == {own, remote}
DhWeak(k) == k[3] = 0

(* A signature is a number, id; signed says what was signed under which key. *)
Verifies(signed, alg, id, key, data) ==
    [alg |-> alg, id |-> id, key |-> key, data |-> data] \in signed

-----------------------------------------------------------------------------
(* Bundles.                                                                *)

SpkSignedData(spk, timestamp) == EncodeEc(spk) \o <<timestamp>>

BundleOf(v) ==
    [ik |-> SubSeq(v, 3, 5), spk |-> SubSeq(v, 6, 8), timestamp |-> v[9], sig |-> v[10],
     opk |-> IF v[11] = << >> THEN <<0, 0, 0>> ELSE v[11]]

BundleValidate(b, signed) ==
    /\ b.ik[2] = CurveType /\ b.spk[2] = CurveType
    /\ CheckPkid(b.ik) /\ CheckPkid(b.spk)
    /\ IsPresent(b.opk) => b.opk[2] = CurveType /\ CheckPkid(b.opk)
    /\ Verifies(signed, "xeddsa", b.sig, b.ik[3], SpkSignedData(b.spk, b.timestamp))

(* The flags of a signed prekey: the bounds of the refresh interval, two   *)
(* fields of FieldSize values (2^16), and one bit per AEAD.                *)
FieldSize == 4
MaxInterval == 2    \* 100
Aeads == 1 .. 3

MinOf(flags) == flags % FieldSize
MaxOf(flags) == (flags \div FieldSize) % FieldSize
Offers(flags, aead) == (flags \div (FieldSize ^ 2 * 2 ^ (aead - 1))) % 2 = 1

HybridFlagsValidate(flags) ==
    /\ Offers(flags, 1)
    /\ flags < FieldSize ^ 2 * 2 ^ 3
    /\ MinOf(flags) >= 1 /\ MinOf(flags) <= MaxOf(flags) /\ MaxOf(flags) <= MaxInterval

HybridSignedData(spk, timestamp, flags) == EncodeEc(spk) \o <<timestamp, flags>>

HybridBundleOf(v) ==
    [ik |-> SubSeq(v, 3, 7), spk |-> SubSeq(v, 8, 11), ikId |-> v[12], timestamp |-> v[13],
     flags |-> v[14], edSig |-> v[15], mldsaSig |-> v[16], opk |-> SubSeq(v, 17, 20)]

HybridBundleValidate(b, signed) ==
    LET data == HybridSignedData(b.spk, b.timestamp, b.flags)
    IN  /\ b.ik[2] = CurveType /\ b.spk[2] = CurveType
        /\ CheckPkid(b.ik) /\ CheckPkid(b.spk)
        /\ b.ikId = b.ik[1]
        /\ IsPresent(b.opk) => b.opk[2] = CurveType /\ CheckPkid(b.opk)
        /\ HybridFlagsValidate(b.flags)
        /\ Verifies(signed, "xeddsa", b.edSig, b.ik[3], data)
        /\ Verifies(signed, "mldsa", b.mldsaSig, b.ik[5], data)

-----------------------------------------------------------------------------
(* The classical handshake.  What each side makes of it: the secrets and   *)
(* associated data of the session, the signed prekey its ratchet starts    *)
(* with, and the AEAD and refresh interval (0: not negotiated).            *)

DeriveSecrets(dhs) == <<"x3dh", Classical>> \o dhs

BuildAd(ika, ikb) == EncodeEc(ika) \o EncodeEc(ikb)

Outcome(secrets, ad, spk, flag) ==
    [secrets |-> secrets, ad |-> ad, spk |-> EncodeEc(spk), flag |-> flag]

(* The first ratchet frame, sealed under the initiator's outcome. *)
Frame == <<9>>

InitialOf(ik, ek, b) ==
    <<Version, Classical>> \o ik \o ek \o <<b.ik[1], b.spk[1], b.opk[1], Len(Frame), Frame>>

X3dhInitiate(ik, ek, b, signed) ==
    IF \/ ~BundleValidate(b, signed)
       \/ DhWeak(b.spk) \/ DhWeak(b.ik) \/ (IsPresent(b.opk) /\ DhWeak(b.opk))
    THEN {}
    ELSE {Outcome(DeriveSecrets(<<Dh(ik[3], b.spk[3]), Dh(ek[3], b.ik[3]), Dh(ek[3], b.spk[3])>>
                                \o IF IsPresent(b.opk) THEN <<Dh(ek[3], b.opk[3])>> ELSE << >>),
                  BuildAd(ik, b.ik), b.spk, 0)}

(* A prefix as the responder parses it. *)
PrefixOf(v) ==
    [ik |-> SubSeq(v, 3, 5), ek |-> SubSeq(v, 6, 8), ikId |-> v[9], spkId |-> v[10],
     opkId |-> v[11]]

PkidMatches(k) == Pkid(EncodeEc(k)) = k[1]

(* local holds [ik, spks, opks]; a signed prekey is held with its flags,    *)
(* [key, flags].                                                           *)
FindOpk(opks, id) == {k \in opks : k[1] = id}

X3dhRespond(local, spk, m) ==
    IF \/ m.ik[2] # CurveType \/ m.ek[2] # CurveType
       \/ ~PkidMatches(m.ik) \/ ~PkidMatches(m.ek)
       \/ m.ikId # local.ik[1] \/ m.spkId # spk.key[1]
       \/ m.opkId # 0 /\ FindOpk(local.opks, m.opkId) = {}
       \/ DhWeak(m.ik) \/ DhWeak(m.ek)
    THEN {}
    ELSE LET opks == SetToSeq(IF m.opkId = 0 THEN {} ELSE FindOpk(local.opks, m.opkId))
         IN  {Outcome(DeriveSecrets(<<Dh(spk.key[3], m.ik[3]), Dh(local.ik[3], m.ek[3]),
                                      Dh(spk.key[3], m.ek[3])>>
                                    \o [i \in DOMAIN opks |-> Dh(opks[i][3], m.ek[3])]),
                      BuildAd(m.ik, local.ik), spk.key, 0)}

-----------------------------------------------------------------------------
(* The hybrid handshake: every Diffie-Hellman result is combined with a    *)
(* secret encapsulated to the same key.                                    *)

(* A ciphertext is a number naming the key and the encapsulator's fresh    *)
(* value; opened with any key it gives some secret.                        *)
KemEncap(ek, fresh) == 16 * ek + fresh
KemDecap(ct, dk) == <<ct, dk>>

HybridCombine(kem, dh) == <<kem, dh>>
HybridDeriveSecrets(hdhs) == <<"x3dh", Hybrid>> \o hdhs

(* hybrid_flag: the refresh interval and the AEAD chosen. *)
FlagOf(interval, aead) == interval + FieldSize * aead
IntervalOf(flag) == flag % FieldSize
AeadOf(flag) == flag \div FieldSize

(* The preferred interval clamped to what the peer offers; the preferred   *)
(* AEAD if offered, else the first.                                        *)
BuildHybridFlag(aead, interval, flags) ==
    LET low == IF interval < MinOf(flags) THEN MinOf(flags) ELSE interval
    IN  FlagOf(IF low > MaxOf(flags) THEN MaxOf(flags) ELSE low,
               IF aead \in Aeads /\ Offers(flags, aead) THEN aead ELSE 1)

HybridFlagCheck(flag, flags) ==
    /\ AeadOf(flag) \in Aeads /\ Offers(flags, AeadOf(flag))
    /\ IntervalOf(flag) \in 1 .. MaxInterval
    /\ IntervalOf(flag) \in MinOf(flags) .. MaxOf(flags)

(* Mutant: the negotiated flag is not authenticated. *)
HybridBuildAdNoFlag(ika, ikb, flag) == EncodeEc(ika) \o EncodeEc(ikb)

HybridBuildAd(ika, ikb, flag) == EncodeEc(ika) \o EncodeEc(ikb) \o <<flag>>

HybridInitialOf(ik, ek, b, flag) ==
    <<Version, Hybrid>> \o ik \o ek
      \o <<KemEncap(b.ik[4], ek[3]), KemEncap(b.spk[4], ek[3]),
           IF IsPresent(b.opk) THEN KemEncap(b.opk[4], ek[3]) ELSE 0>>
      \o <<b.ik[1], b.spk[1], b.opk[1], flag, Frame>>

Encapsulated(k, ek) == KemDecap(KemEncap(k[4], ek[3]), k[4])

HybridX3dhInitiate(ik, ek, b, flag, signed) ==
    IF \/ ~HybridBundleValidate(b, signed) \/ ~HybridFlagCheck(flag, b.flags)
       \/ DhWeak(b.spk) \/ DhWeak(b.ik) \/ (IsPresent(b.opk) /\ DhWeak(b.opk))
    THEN {}
    ELSE {Outcome(HybridDeriveSecrets(
                    <<HybridCombine(Encapsulated(b.spk, ek), Dh(ik[3], b.spk[3])),
                      HybridCombine(Encapsulated(b.ik, ek), Dh(ek[3], b.ik[3])),
                      HybridCombine(Encapsulated(b.spk, ek), Dh(ek[3], b.spk[3]))>>
                    \o IF IsPresent(b.opk)
                       THEN <<HybridCombine(Encapsulated(b.opk, ek), Dh(ek[3], b.opk[3]))>>
                       ELSE << >>),
                  HybridBuildAd(ik, b.ik, flag), b.spk, flag)}

HybridPrefixOf(v) ==
    [ik |-> SubSeq(v, 3, 7), ek |-> SubSeq(v, 8, 10), ctIk |-> v[11], ctSpk |-> v[12],
     ctOpk |-> v[13], ikId |-> v[14], spkId |-> v[15], opkId |-> v[16], flag |-> v[17]]

HybridX3dhRespond(local, spk, m) ==
    IF \/ m.ik[2] # CurveType \/ m.ek[2] # CurveType
       \/ ~PkidMatches(m.ik) \/ ~PkidMatches(m.ek)
       \/ m.ikId # local.ik[1] \/ m.spkId # spk.key[1]
       \/ m.opkId # 0 /\ FindOpk(local.opks, m.opkId) = {}
       \/ ~HybridFlagCheck(m.flag, spk.flags)
       \/ DhWeak(m.ik) \/ DhWeak(m.ek)
    THEN {}
    ELSE LET kemSpk == KemDecap(m.ctSpk, spk.key[4])
             opks == SetToSeq(IF m.opkId = 0 THEN {} ELSE FindOpk(local.opks, m.opkId))
         IN  {Outcome(HybridDeriveSecrets(
                        <<HybridCombine(kemSpk, Dh(spk.key[3], m.ik[3])),
                          HybridCombine(KemDecap(m.ctIk, local.ik[4]), Dh(local.ik[3], m.ek[3])),
                          HybridCombine(kemSpk, Dh(spk.key[3], m.ek[3]))>>
                        \o [i \in DOMAIN opks |->
                              HybridCombine(KemDecap(m.ctOpk, opks[i][4]),
                                            Dh(opks[i][3], m.ek[3]))]),
                      HybridBuildAd(m.ik, local.ik, m.flag), spk.key, m.flag)}

-----------------------------------------------------------------------------
(* The responder tries the signed prekeys it holds; the frame must open    *)
(* under what it then derives.                                             *)

FrameOpens(mine, theirs) ==
    /\ mine.secrets = theirs.secrets /\ mine.ad = theirs.ad /\ mine.spk = theirs.spk
    /\ AeadOf(mine.flag) = AeadOf(theirs.flag)

(* The classical frame has its length in front and may be followed by      *)
(* anything; the hybrid one is what is left.                               *)
FirstFrame(v) == IF v[12] > Len(v[13]) THEN << >> ELSE SubSeq(v[13], 1, v[12])

RecvInit(local, v, sealed) ==
    IF FirstFrame(v) = Frame
    THEN {o \in UNION {X3dhRespond(local, spk, PrefixOf(v)) : spk \in local.spks} :
             FrameOpens(o, sealed)}
    ELSE {}

HybridRecvInit(local, v, sealed) ==
    IF v[18] = Frame
    THEN {o \in UNION {HybridX3dhRespond(local, spk, HybridPrefixOf(v)) : spk \in local.spks} :
             FrameOpens(o, sealed)}
    ELSE {}
=============================================================================
