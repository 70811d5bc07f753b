------------------------------- MODULE EthBls -------------------------------
(* The functions of constantine-ethereum-bls-sig and the native functions    *)
(* they call.  The pairing groups are replaced by the integers modulo a      *)
(* small prime: the public key of sk is sk, its signature on m is sk * H(m), *)
(* and the pairing is the product.  The codecs work on the fields of the     *)
(* compressed format: its three flag bits and the x coordinate.              *)
EXTENDS RustFfi

CONSTANT Order          \* order of the groups, a prime
ASSUME OrderAssumption == Order \in Nat \ {0, 1}

(* Hash-to-curve never gives the neutral element and tells messages apart.   *)
BlsMessages == {"m1", "m2"}
hashToCurve(m) == IF m = "m1" THEN 1 ELSE Order - 1

-----------------------------------------------------------------------------
(* Compressed points.  x = 0 lies on the G1 curve, outside of the subgroup;  *)
(* `in' is in the subgroup, `off' is not on the curve, `big' not below the   *)
(* modulus.                                                                  *)
Encodings == [compressed : BOOLEAN, infinity : BOOLEAN, largest : BOOLEAN,
              x : {"zero", "in", "off", "big"}]
Neutral == [neutral |-> TRUE, x |-> "zero", largest |-> FALSE]
CurvePoints == {Neutral} \union [neutral : {FALSE}, x : {"zero", "in"}, largest : BOOLEAN]
RawPoints == CurvePoints \union [neutral : {FALSE}, x : {"off"}, largest : BOOLEAN]

isInSubgroup(p) == p.neutral \/ p.x = "in"
isOnCurve(p) == p \in CurvePoints

serialize_compressed(p) ==
  [compressed |-> TRUE, infinity |-> p.neutral, largest |-> p.largest, x |-> p.x]

(* The x coordinate, once the flags are read.                                *)
decode_x(x) ==
  CASE x = "big" -> "cttCodecEcc_CoordinateGreaterThanOrEqualModulus"
    [] x = "off" -> "cttCodecEcc_PointNotOnCurve"
    [] OTHER     -> "cttCodecEcc_Success"

(* A faulty variant: infinity is taken whatever the other bits are.          *)
deserialize_compressed_lenient(src) ==
  CASE ~src.compressed -> "cttCodecEcc_InvalidEncoding"
    [] src.compressed /\ src.infinity -> "cttCodecEcc_PointAtInfinity"
    [] OTHER -> decode_x(src.x)

deserialize_compressed_unchecked(src) ==
  CASE ~src.compressed -> "cttCodecEcc_InvalidEncoding"
    [] src.compressed /\ src.infinity ->
         IF src.largest \/ src.x # "zero" THEN "cttCodecEcc_InvalidEncoding"
         ELSE "cttCodecEcc_PointAtInfinity"
    [] OTHER -> decode_x(src.x)
Decoded(src) ==
  IF src.infinity THEN Neutral ELSE [neutral |-> FALSE, x |-> src.x, largest |-> src.largest]

deserialize_compressed(src) ==
  LET status == deserialize_compressed_unchecked(src)
  IN  IF status # "cttCodecEcc_Success" THEN status
      ELSE IF isInSubgroup(Decoded(src)) THEN status
      ELSE "cttCodecEcc_PointNotInSubgroup"

validate_point(p) ==
  CASE p.neutral       -> "cttCodecEcc_PointAtInfinity"
    [] ~p.neutral /\ ~isOnCurve(p) -> "cttCodecEcc_PointNotOnCurve"
    [] OTHER -> IF isInSubgroup(p) THEN "cttCodecEcc_Success"
                ELSE "cttCodecEcc_PointNotInSubgroup"

validate_scalar(e) ==
  CASE e = "zero" -> "cttCodecScalar_Zero"
    [] e = "big"  -> "cttCodecScalar_ScalarLargerThanCurveOrder"
    [] OTHER      -> "cttCodecScalar_Success"

-----------------------------------------------------------------------------
(* Verification.                                                             *)
sum(points) == SumOf(points, Order)
coreSign(sk, m) == (sk * hashToCurve(m)) % Order
coreVerify(pk, m, sig) == (pk * hashToCurve(m)) % Order = sig
fastAggregateVerify(pks, m, sig) == sum(pks) # 0 /\ coreVerify(sum(pks), m, sig)
aggregateVerify(pks, ms, sig) ==
  sum([i \in DOMAIN pks |-> (pks[i] * hashToCurve(ms[i])) % Order]) = sig
(* The random linear combination of a batch holds when every item does.      *)
batchVerify(pks, ms, sigs) == \A i \in DOMAIN pks : coreVerify(pks[i], ms[i], sigs[i])

blsOk == "cttEthBls_Success"
BlsVerdict(holds) == IF holds THEN blsOk ELSE "cttEthBls_VerificationFailure"
(* A faulty variant: only the first of the points is looked at.              *)
HasNeutralFirst(points) == points # <<>> /\ points[1] = 0
HasNeutral(points) == \E i \in DOMAIN points : points[i] = 0

native_verify(pk, m, sig) ==
  IF pk = 0 \/ sig = 0 THEN "cttEthBls_PointAtInfinity"
  ELSE BlsVerdict(coreVerify(pk, m, sig))
native_fast_aggregate_verify(pks, m, sig) ==
  CASE pks = <<>>                               -> "cttEthBls_ZeroLengthAggregation"
    [] pks # <<>> /\ (sig = 0 \/ HasNeutral(pks)) -> "cttEthBls_PointAtInfinity"
    [] OTHER                                    -> BlsVerdict(fastAggregateVerify(pks, m, sig))
native_aggregate_verify(pks, ms, sig) ==
  CASE pks = <<>>                               -> "cttEthBls_ZeroLengthAggregation"
    [] pks # <<>> /\ (sig = 0 \/ HasNeutral(pks)) -> "cttEthBls_PointAtInfinity"
    [] OTHER                                    -> BlsVerdict(aggregateVerify(pks, ms, sig))
native_batch_verify(pks, ms, sigs) ==
  CASE pks = <<>> -> "cttEthBls_ZeroLengthAggregation"
    [] pks # <<>> /\ (HasNeutral(pks) \/ HasNeutral(sigs)) -> "cttEthBls_PointAtInfinity"
    [] OTHER      -> BlsVerdict(batchVerify(pks, ms, sigs))

-----------------------------------------------------------------------------
(* The wrappers.  How they read the three kinds of status: the decoders of   *)
(* points take the point at infinity for a success, the others do not; a     *)
(* signature that does not verify is an Err, not an Ok(false).               *)
EccIn(status) == FromNative(constants.ctt_codec_ecc_status, CttCodecEccStatus, status)
ScalarIn(status) == FromNative(constants.ctt_codec_scalar_status, CttCodecScalarStatus, status)
BlsIn(status) == FromNative(constants.ctt_eth_bls_status, cttEthBlsStatus, status)
(* A faulty variant: the status is ignored.                                  *)
DecodedAnyway(status, p) == Ok(p)
DecodedResult(status, p) ==
  IF EccIn(status) \in {"cttCodecEcc_Success", "cttCodecEcc_PointAtInfinity"}
  THEN Ok(p) ELSE Err(EccIn(status))
EccResult(status, v) ==
  IF EccIn(status) = "cttCodecEcc_Success" THEN Ok(v) ELSE Err(EccIn(status))
ScalarResult(status, v) ==
  IF ScalarIn(status) = "cttCodecScalar_Success" THEN Ok(v) ELSE Err(ScalarIn(status))
VerifyResult(status) == IF BlsIn(status) = blsOk THEN Ok(TRUE) ELSE Err(BlsIn(status))

Bls(op, x) == [crate |-> "bls", op |-> op, x |-> x]
(* A function with one result, its first argument, which the library fills   *)
(* when `fills' and the wrapper returns when it returns Ok.                  *)
Producing(fn, args, reach, fills, ret, asked) ==
  call' = Call(fn, args, reach, IF fills THEN {1} ELSE {},
               IF ret.tag = "Ok" THEN {1} ELSE {}, ret, asked)
Deciding(fn, args, reach, ret, asked) == call' = Call(fn, args, reach, {}, {}, ret, asked)

Octets(n) == Memory(n, "byte")
Pubkeys(n) == Memory(n, "ctt_eth_bls_pubkey")
Signatures(n) == Memory(n, "ctt_eth_bls_signature")
Seckey == Memory(1, "ctt_eth_bls_seckey")

sha256_hash(len) ==
  Producing("ctt_sha256_hash", <<Octets(32), Octets(len), Value(len), Value(0)>>,
            <<32, len, 0, 0>>, TRUE, Ok(""), Bls("hash", len))
derive_pubkey(sk) ==
  Producing("ctt_eth_bls_derive_pubkey", <<Pubkeys(1), Seckey>>, <<1, 1>>, TRUE,
            Ok(sk), Bls("derive", sk))
pubkeys_are_equal(a, b) ==
  Deciding("ctt_eth_bls_pubkeys_are_equal", <<Pubkeys(1), Pubkeys(1)>>, <<1, 1>>,
           Ok(a = b), Bls("equal", <<a, b>>))
signatures_are_equal(a, b) ==
  Deciding("ctt_eth_bls_signatures_are_equal", <<Signatures(1), Signatures(1)>>, <<1, 1>>,
           Ok(a = b), Bls("equal", <<a, b>>))
validate_seckey(e) ==
  Deciding("ctt_eth_bls_validate_seckey", <<Seckey>>, <<1>>,
           ScalarResult(validate_scalar(e), ""), Bls("seckey", e))
validate_pubkey(p) ==
  Deciding("ctt_eth_bls_validate_pubkey", <<Pubkeys(1)>>, <<1>>,
           EccResult(validate_point(p), ""), Bls("validate", p))
validate_signature(p) ==
  Deciding("ctt_eth_bls_validate_signature", <<Signatures(1)>>, <<1>>,
           EccResult(validate_point(p), ""), Bls("validate", p))
serialize_seckey(e) ==
  Producing("ctt_eth_bls_serialize_seckey", <<Octets(32), Seckey>>, <<32, 1>>, TRUE,
            Ok(e), Bls("hash", e))
serialize_pubkey_compressed(p) ==
  Producing("ctt_eth_bls_serialize_pubkey_compressed", <<Octets(48), Pubkeys(1)>>, <<48, 1>>,
            TRUE, EccResult("cttCodecEcc_Success", serialize_compressed(p)), Bls("serialize", p))
serialize_signature_compressed(p) ==
  Producing("ctt_eth_bls_serialize_signature_compressed", <<Octets(96), Signatures(1)>>,
            <<96, 1>>, TRUE, EccResult("cttCodecEcc_Success", serialize_compressed(p)),
            Bls("serialize", p))
deserialize_seckey(e) ==
  Producing("ctt_eth_bls_deserialize_seckey", <<Seckey, Octets(32)>>, <<1, 32>>, TRUE,
            ScalarResult(validate_scalar(e), e), Bls("seckey", e))

(* The library has set the whole point when it reports Success, the point at *)
(* infinity or a point outside of the subgroup.                              *)
SetsPoint(status) ==
  status \in {"cttCodecEcc_Success", "cttCodecEcc_PointAtInfinity",
              "cttCodecEcc_PointNotInSubgroup"}
deserialize_pubkey_compressed_unchecked(src) ==
  LET status == deserialize_compressed_unchecked(src)
  IN  Producing("ctt_eth_bls_deserialize_pubkey_compressed_unchecked",
                <<Pubkeys(1), Octets(48)>>, <<1, 48>>, SetsPoint(status),
                DecodedResult(status, Decoded(src)), Bls("unchecked", src))
deserialize_signature_compressed_unchecked(src) ==
  LET status == deserialize_compressed_unchecked(src)
  IN  Producing("ctt_eth_bls_deserialize_signature_compressed_unchecked",
                <<Signatures(1), Octets(96)>>, <<1, 96>>, SetsPoint(status),
                DecodedResult(status, Decoded(src)), Bls("unchecked", src))
deserialize_pubkey_compressed(src) ==
  LET status == deserialize_compressed(src)
  IN  Producing("ctt_eth_bls_deserialize_pubkey_compressed",
                <<Pubkeys(1), Octets(48)>>, <<1, 48>>, SetsPoint(status),
                DecodedResult(status, Decoded(src)), Bls("checked", src))
deserialize_signature_compressed(src) ==
  LET status == deserialize_compressed(src)
  IN  Producing("ctt_eth_bls_deserialize_signature_compressed",
                <<Signatures(1), Octets(96)>>, <<1, 96>>, SetsPoint(status),
                DecodedResult(status, Decoded(src)), Bls("checked", src))

(* Messages are 32 bytes here.                                               *)
sign(sk, m) ==
  Producing("ctt_eth_bls_sign", <<Signatures(1), Seckey, Octets(32), Value(32)>>,
            <<1, 1, 32, 0>>, TRUE, Ok(coreSign(sk, m)), Bls("sign", <<sk, m>>))
verify(pk, m, sig) ==
  Deciding("ctt_eth_bls_verify", <<Pubkeys(1), Octets(32), Value(32), Signatures(1)>>,
           <<1, 32, 0, 1>>, VerifyResult(native_verify(pk, m, sig)),
           Bls("verify", [pks |-> <<pk>>, ms |-> <<m>>, sigs |-> <<sig>>]))
fast_aggregate_verify(pks, m, sig) ==
  Deciding("ctt_eth_bls_fast_aggregate_verify",
           <<Pubkeys(Len(pks)), Value(Len(pks)), Octets(32), Value(32), Signatures(1)>>,
           <<Len(pks), 0, 32, 0, 1>>, VerifyResult(native_fast_aggregate_verify(pks, m, sig)),
           Bls("fast_aggregate", [pks |-> pks, ms |-> [i \in DOMAIN pks |-> m], sigs |-> <<sig>>]))

(* The slices of keys, messages and signatures are passed with the length of *)
(* one of them, and nobody compares it with the others.  The library reads   *)
(* as many elements of each: the rest of a longer slice is ignored, and what *)
(* lies behind a shorter one is taken for an element, whatever it is.        *)
Read(list, n, S) == {s \in [1..n -> S] : \A i \in DOMAIN list \cap (1..n) : s[i] = list[i]}
Alike(op, x) ==
  /\ op \in {"aggregate", "batch"} => DOMAIN x.ms = DOMAIN x.pks
  /\ op = "batch" => DOMAIN x.sigs = DOMAIN x.pks

Group == 0 .. Order - 1
aggregate_verify(pks, ms, sig) ==
  \E read \in Read(ms, Len(pks), BlsMessages) :
    Deciding("ctt_eth_bls_aggregate_verify",
             <<Pubkeys(Len(pks)), Memory(Len(ms), "CttSpan"), Value(Len(pks)), Signatures(1)>>,
             <<Len(pks), Len(pks), 0, 1>>, VerifyResult(native_aggregate_verify(pks, read, sig)),
             Bls("aggregate", [pks |-> pks, ms |-> ms, sigs |-> <<sig>>]))
batch_args(pks, ms, sigs) ==
  <<Pubkeys(Len(pks)), Memory(Len(ms), "CttSpan"), Signatures(Len(sigs)), Value(Len(ms)), Octets(32)>>
batch_answers(pks, ms, sigs) ==
  {native_batch_verify(keys, ms, signatures) :
     keys \in Read(pks, Len(ms), Group), signatures \in Read(sigs, Len(ms), Group)}
batch_verify(pks, ms, sigs) ==
  \E status \in batch_answers(pks, ms, sigs) :
    Deciding("ctt_eth_bls_batch_verify", batch_args(pks, ms, sigs),
             <<Len(ms), Len(ms), Len(ms), 0, 32>>, VerifyResult(status),
             Bls("batch", [pks |-> pks, ms |-> ms, sigs |-> sigs]))
batch_verify_parallel(p, pks, ms, sigs) ==
  \E status \in batch_answers(pks, ms, sigs) :
    Deciding("ctt_eth_bls_batch_verify_parallel", <<Handle(p)>> \o batch_args(pks, ms, sigs),
             <<0, Len(ms), Len(ms), Len(ms), 0, 32>>, VerifyResult(status),
             Bls("batch", [pks |-> pks, ms |-> ms, sigs |-> sigs]))

-----------------------------------------------------------------------------
Secrets == {"zero", "one", "big"}
Lists(S) == UNION {[1..n -> S] : n \in 0..MaxItems}

(* A call of the crate; `pools' are the Threadpools that are alive.          *)
BlsCall(pools) ==
  /\ call = NoCall
  /\ \/ \E len \in {0, 1, 64} : sha256_hash(len)
     \/ \E sk \in Group \ {0} : derive_pubkey(sk) \/ \E m \in BlsMessages : sign(sk, m)
     \/ \E a, b \in RawPoints : pubkeys_are_equal(a, b) \/ signatures_are_equal(a, b)
     \/ \E e \in Secrets : validate_seckey(e) \/ deserialize_seckey(e)
     \/ serialize_seckey("one")
     \/ \E p \in RawPoints : validate_pubkey(p) \/ validate_signature(p)
     \/ \E p \in CurvePoints :
          serialize_pubkey_compressed(p) \/ serialize_signature_compressed(p)
     \/ \E src \in Encodings :
          \/ deserialize_pubkey_compressed_unchecked(src)
          \/ deserialize_signature_compressed_unchecked(src)
          \/ deserialize_pubkey_compressed(src)
          \/ deserialize_signature_compressed(src)
     \/ \E pk, sig \in Group, m \in BlsMessages : verify(pk, m, sig)
     \/ \E pks \in Lists(Group), sig \in Group :
          \/ \E m \in BlsMessages : fast_aggregate_verify(pks, m, sig)
          \/ \E ms \in Lists(BlsMessages) : aggregate_verify(pks, ms, sig)
     \/ \E pks, sigs \in Lists(Group), ms \in Lists(BlsMessages) :
          \/ batch_verify(pks, ms, sigs)
          \/ \E p \in pools : batch_verify_parallel(p, pks, ms, sigs)

-----------------------------------------------------------------------------
(* The codecs are inverse to each other on what they accept: decoding        *)
(* answers Ok(p) exactly when p is the point the serializer writes as these  *)
(* bytes, in the subgroup when that is checked, and no two encodings of one  *)
(* point are accepted; the infinity flag with other bits set is not an       *)
(* encoding.  Validation accepts exactly the non-neutral subgroup points.    *)
CodecsCanonical ==
  Made /\ call.given.crate = "bls" =>
    CASE call.given.op \in {"checked", "unchecked"} ->
           LET points == {p \in CurvePoints : /\ serialize_compressed(p) = call.given.x
                                              /\ call.given.op = "checked" => isInSubgroup(p)}
           IN  IF call.ret.tag = "Ok" THEN points = {call.ret.v} ELSE points = {}
      [] call.given.op = "validate" ->
           call.ret.tag = "Ok" <=> call.given.x.x = "in" /\ ~call.given.x.neutral
      [] OTHER -> TRUE

(* The ways to verify agree, on lists of one length: a batch is accepted     *)
(* exactly when each of its signatures is, in parallel or not; an aggregate  *)
(* of one message is accepted by aggregate_verify exactly when               *)
(* fast_aggregate_verify accepts it; the sum of honest signatures is         *)
(* accepted unless it is neutral; and no neutral key or signature ever is.   *)
SignaturesAgree ==
  Made /\ call.given.crate = "bls" /\ Alike(call.given.op, call.given.x) =>
    LET x == call.given.x
        accepted == call.ret.tag = "Ok"
        honest == sum([i \in DOMAIN x.pks |-> coreSign(x.pks[i], x.ms[i])])
    IN  CASE call.given.op \in {"verify", "batch"} ->
               accepted <=> /\ x.pks # <<>>
                            /\ \A i \in DOMAIN x.pks :
                                 native_verify(x.pks[i], x.ms[i], x.sigs[i]) = blsOk
          [] call.given.op \in {"aggregate", "fast_aggregate"} ->
               /\ accepted <=> /\ x.pks # <<>> /\ ~HasNeutral(x.pks)
                               /\ x.sigs[1] = honest /\ honest # 0
               /\ x.pks # <<>> /\ (\A i \in DOMAIN x.ms : x.ms[i] = x.ms[1]) =>
                    (native_fast_aggregate_verify(x.pks, x.ms[1], x.sigs[1])
                       = native_aggregate_verify(x.pks, x.ms, x.sigs[1]))
          [] OTHER -> TRUE

(* The library reads inside the slices that the caller of a safe function    *)
(* passed: its length is the "number of elements in the `pubkeys' and        *)
(* `messages' arrays".  Calls that end before the pairings, on an empty list *)
(* or a neutral element, are left out: they may not read that far.           *)
ReadsInsideSlices ==
  Made /\ call.given.crate = "bls"
    /\ call.given.op \in {"verify", "fast_aggregate", "aggregate", "batch"}
    /\ (call.ret.tag = "Ok" \/ call.ret.v = "cttEthBls_VerificationFailure")
      => CallFits(api, call)
=============================================================================
