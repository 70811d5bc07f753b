------------------------------- MODULE EthEvm -------------------------------
(* The functions of constantine-ethereum-evm-precompiles and the native      *)
(* precompiles they call.  A curve is the group of integers modulo twice the *)
(* prime Order, with the even ones as the subgroup; 0 is the point at        *)
(* infinity, encoded as (0, 0).  A raw point is that integer or the status   *)
(* its coordinates lead to.                                                  *)
EXTENDS EthKzg

CONSTANTS EvmOrder, \* order of the subgroups, an odd prime
          MaxInt    \* high(int): 2^63 - 1 or 2^31 - 1
ASSUME EvmOrderAssumption == EvmOrder \in Nat \ {0, 1, 2}
(* An int holds the lengths of the inputs that are tried.                    *)
ASSUME MaxIntAssumption == MaxInt \in Nat /\ MaxInt >= 127

evmOk == "cttEVM_Success"
Cofactor == 2
CurveOrder == Cofactor * EvmOrder
Raw(v) == [bad |-> "", v |-> v]
Rejected(status) == [bad |-> status, v |-> 0]
Infinity == Raw(0)
InSubgroup(p) == p.v % Cofactor = 0

(* A faulty variant: the subgroup is never checked.                          *)
fromRawCoordsUnchecked(p, checkSubgroup) == IF p.bad # "" THEN p.bad ELSE evmOk

(* parseRawUint and fromRawCoords: a coordinate that is too large, a point   *)
(* off the curve, and where it is asked for one outside of the subgroup.     *)
fromRawCoords(p, checkSubgroup) ==
  CASE p.bad # ""                                      -> p.bad
    [] p.bad = "" /\ checkSubgroup /\ ~InSubgroup(p)   -> "cttEVM_PointNotInSubgroup"
    [] OTHER                                           -> evmOk

(* Scalars may exceed the order: they are reduced before the multiplication. *)
scalarMul(s, p) == ((s % EvmOrder) * p.v) % CurveOrder
ecSum(points) == SumOf(points, CurveOrder)
(* The pairing of subgroup points, in the exponent.                          *)
pairing(p, q) == ((p.v \div Cofactor) * (q.v \div Cofactor)) % EvmOrder
pairingsAreOne(ps, qs) ==
  SumOf([i \in DOMAIN ps |-> pairing(ps[i], qs[i])], EvmOrder) = 0

(* First failure, if any, in a sequence of checks.                           *)
Checks(statuses) == FirstError(evmOk, statuses)
SizeChecks(inputFirst, inputOk, outputOk) ==
  LET in  == IF inputOk THEN evmOk ELSE "cttEVM_InvalidInputSize"
      out == IF outputOk THEN evmOk ELSE "cttEVM_InvalidOutputSize"
  IN  IF inputFirst THEN <<in, out>> ELSE <<out, in>>

(* Inputs that are too short are padded with zeros: infinity, or 0.          *)
PaddedPoint(len, end, p) == IF len >= end THEN p ELSE Infinity
PaddedScalar(len, end, s) == IF len >= end THEN s ELSE 0

-----------------------------------------------------------------------------
(* The wrappers pass a buffer for the result with its length, and the input  *)
(* with its length.  `status' is what the library answers to these and `v'   *)
(* the value it writes.  `faults' are the statuses that say what is wrong    *)
(* with the input, `truth' what the precompile is specified to return.       *)
EvmIn(status) == FromNative(constants.ctt_evm_status, CttEVMStatus, status)
EvmResult(status, v) == IF EvmIn(status) = evmOk THEN Ok(v) ELSE Err(EvmIn(status))
EvmAsked(op, faults, truth) ==
  [crate |-> "evm", op |-> op, faults |-> faults \ {""}, truth |-> truth]
Evm(fn, before, rlen, len, status, v, asked) ==
  LET args == before \o <<ByteArray(rlen), Value(rlen), ByteArray(len), Value(len)>>
      r == Len(before) + 1
  IN  call' = Call(fn, args, [i \in 1..Len(before) |-> 0] \o <<rlen, 0, len, 0>>,
                   IF status = evmOk THEN {r} ELSE {},
                   IF EvmIn(status) = evmOk THEN {r} ELSE {},
                   EvmResult(status, v), asked)
BadSize(ok) == IF ok THEN "" ELSE "cttEVM_InvalidInputSize"
Outside(p) == IF p.bad = "" /\ ~InSubgroup(p) THEN "cttEVM_PointNotInSubgroup" ELSE ""

(* The two hashes differ in the function only; the digest is not modelled.   *)
Hash(fn, op, len) ==
  Evm(fn, <<>>, 32, len, Checks(SizeChecks(FALSE, TRUE, TRUE)), 0, EvmAsked(op, {}, 0))
evm_ripemd160(len) == Hash("ctt_eth_evm_ripemd160", "ripemd160", len)
evm_sha256(len) == Hash("ctt_eth_evm_sha256", "sha256", len)

-----------------------------------------------------------------------------
(* MODEXP.  A byte is a digit to the base Radix.  `in' has the three lengths *)
(* of the header, HugeLen standing for one that needs more than a word, and  *)
(* the bytes after the header, which end anywhere.  The code casts a length  *)
(* to an int, which is negative from MaxInt + 1 on, and adds ints that wrap: *)
(* the release builds of the library check no overflow.                      *)
Radix == 4
Header == 96
Word == 2 * (MaxInt + 1)
HugeLen == Word
Signed(w) == IF w > MaxInt THEN w - Word ELSE w
Unsigned(i) == IF i < 0 THEN i + Word ELSE i
Wrapped(i) == IF i > MaxInt THEN i - Word ELSE IF i < -MaxInt - 1 THEN i + Word ELSE i
Plus(i, j) == Wrapped(i + j)
Number(bytes) ==
  LET first[k \in 0..Len(bytes)] == IF k = 0 THEN 0 ELSE first[k - 1] * Radix + bytes[k]
  IN  first[Len(bytes)]
(* The n bytes after the first `skip', with the virtual zeros to the right.  *)
PaddedBytes(data, skip, n) ==
  [i \in 1..n |-> IF skip + i <= Len(data) THEN data[skip + i] ELSE 0]
power(x, e) == LET upTo[k \in 0..e] == IF k = 0 THEN 1 ELSE x * upTo[k - 1] IN upTo[e]
InputLen(in) == in.header + Len(in.data)

(* powMod_vartime: moduli 0 and 1 give 0, exponent 0 gives 1.                *)
powMod_vartime(b, e, m) ==
  CASE m < 2            -> 0
    [] m >= 2 /\ e = 0  -> 1
    [] OTHER            -> power(b, e) % m

(* What MODEXP is specified to return.                                       *)
ModexpTruth(in) ==
  LET b == Number(PaddedBytes(in.data, 0, in.bL))
      e == Number(PaddedBytes(in.data, in.bL, in.eL))
      m == Number(PaddedBytes(in.data, in.bL + in.eL, in.mL))
  IN  IF m = 0 THEN 0 ELSE power(b, e) % m

(* Do base and exponent end where an int can say ?                           *)
Fitting(in) ==
  HugeLen \notin {in.bL, in.eL} /\ Header + in.bL + in.eL <= MaxInt

modexp_result_size(in) ==
  IF in.mL = HugeLen THEN "cttEVM_InvalidInputSize" ELSE evmOk
modexp_status(in, rlen) ==
  IF HugeLen \in {in.bL, in.eL, in.mL} THEN "cttEVM_InvalidInputSize"
  ELSE IF rlen # Signed(in.mL) THEN "cttEVM_InvalidOutputSize" ELSE evmOk

(* Where base and exponent end, one after the code's inclusive stops, and    *)
(* the early returns.                                                        *)
baseStop(in) == Plus(Header, Signed(in.bL))
expStop(in) == Plus(baseStop(in), Signed(in.eL))
ModulusIsMissing(in) == expStop(in) >= InputLen(in)
SpecialCase(in) == ModulusIsMissing(in) \/ 0 \in {in.mL, in.eL, in.bL}

(* Is nothing read that lies outside of the input ?                          *)
Contained(in) == Fitting(in) \/ SpecialCase(in)

(* The values the call may return: any, when a base or an exponent of more   *)
(* bytes than an int can say is read from memory that is not the input.      *)
modexp_values(in) ==
  IF SpecialCase(in)
  THEN {IF ~ModulusIsMissing(in) /\ in.mL # 0 /\ in.eL = 0 THEN 1 ELSE 0}
  ELSE IF Fitting(in)
       THEN {powMod_vartime(Number(SubSeq(in.data, 1, in.bL)),
                            Number(SubSeq(in.data, in.bL + 1, in.bL + in.eL)),
                            Number(PaddedBytes(in.data, in.bL + in.eL, in.mL)))}
       ELSE 0 .. Radix - 1
modexp_reach(in) ==
  Max({InputLen(in)} \union
      (IF SpecialCase(in) THEN {}
       ELSE {Header + Signed(in.bL), baseStop(in) + Signed(in.eL)}))

(* evm_modexp makes two calls: the first sizes the vector that the second    *)
(* fills, with the same inputs.  A vector cannot hold more than MaxInt bytes *)
(* and vec! panics; that the memory for a smaller one may be missing, which  *)
(* aborts the program, is left out.                                          *)
ModexpAsked(op, in) ==
  LET huge == HugeLen \in {in.bL, in.eL, in.mL}
  IN  [crate |-> "evm", op |-> op, faults |-> {BadSize(~huge)} \ {""},
       truth |-> IF huge \/ in.mL > MaxInt THEN 0 ELSE ModexpTruth(in), in |-> in]
evm_modexp(in) ==
  LET status == modexp_result_size(in)
      filled == IF status = evmOk THEN {1} ELSE {}
  IN  call' = Call("ctt_eth_evm_modexp_result_size",
                   <<Memory(1, "u64"), ByteArray(InputLen(in)), Value(InputLen(in))>>,
                   <<1, InputLen(in), 0>>, filled, filled,
                   EvmResult(status, Unsigned(Signed(in.mL))), ModexpAsked("modexp_size", in))
evm_modexp_sized ==
  LET in == call.given.in
      size == call.ret.v
      status == modexp_status(in, size)
      filled == IF status = evmOk THEN {1} ELSE {}
      asked == ModexpAsked("modexp", in)
  IN  /\ call.given.op = "modexp_size"
      /\ call.ret.tag = "Ok"
      /\ \/ size > MaxInt /\ call' = NotMade(Panic, asked)
         \/ /\ size <= MaxInt
            /\ \E v \in modexp_values(in) :
                 call' = Call("ctt_eth_evm_modexp",
                              <<ByteArray(size), Value(size),
                                ByteArray(InputLen(in)), Value(InputLen(in))>>,
                              <<size, 0, modexp_reach(in), 0>>, filled, filled,
                              EvmResult(status, v), asked)

-----------------------------------------------------------------------------
(* BN254.  G1 has no proper subgroup: its points are the even integers.      *)
evm_bn254_g1add(len, p, q) ==
  LET P == PaddedPoint(len, 64, p)
      Q == PaddedPoint(len, 128, q)
  IN  Evm("ctt_eth_evm_bn254_g1add", <<>>, 64, len,
          Checks(<<fromRawCoords(P, FALSE), fromRawCoords(Q, FALSE)>>),
          (P.v + Q.v) % CurveOrder,
          EvmAsked("bn254_g1add", {P.bad, Q.bad}, (P.v + Q.v) % CurveOrder))

evm_bn254_g1mul(len, p, s) ==
  LET P == PaddedPoint(len, 64, p)
      S == PaddedScalar(len, 96, s)
  IN  Evm("ctt_eth_evm_bn254_g1mul", <<>>, 64, len, Checks(<<fromRawCoords(P, FALSE)>>),
          scalarMul(S, P), EvmAsked("bn254_g1mul", {P.bad}, (S * P.v) % CurveOrder))

(* Pairs are read in turn, the G1 point first.  MillerAccumulator.update     *)
(* skips a pair with an infinity point and returns false; the check on BN254 *)
(* then returns 1 whatever the other pairs are.                              *)
PairChecks(ps, qs, checkG1) ==
  [k \in 1 .. 2 * Len(ps) |->
     IF k % 2 = 1 THEN fromRawCoords(ps[(k + 1) \div 2], checkG1)
     ELSE fromRawCoords(qs[k \div 2], TRUE)]
FoundInfinity(ps, qs) == Infinity \in Range(ps) \union Range(qs)
PairFaults(ps, qs) ==
  UNION {{ps[i].bad, qs[i].bad, Outside(ps[i]), Outside(qs[i])} : i \in DOMAIN ps}
Bit(b) == IF b THEN 1 ELSE 0

evm_bn254_ec_pairing_check(whole, ps, qs) ==
  LET len == 192 * Len(ps) + (IF whole THEN 0 ELSE 1)
  IN  Evm("ctt_eth_evm_bn254_ecpairingcheck", <<>>, 32, len,
          Checks(SizeChecks(FALSE, len % 192 = 0, TRUE) \o PairChecks(ps, qs, FALSE)),
          Bit(ps = <<>> \/ FoundInfinity(ps, qs) \/ pairingsAreOne(ps, qs)),
          EvmAsked(IF FoundInfinity(ps, qs) THEN "bn254_pairing_infinity" ELSE "bn254_pairing",
                   PairFaults(ps, qs) \union {BadSize(whole)},
                   Bit(pairingsAreOne(ps, qs))))

-----------------------------------------------------------------------------
(* BLS12-381.  `size' is the input size the function requires.  Addition     *)
(* takes any point of the curve, the others take points of the subgroup.     *)
Sum(fn, size, rlen, len, p, q) ==
  Evm(fn, <<>>, rlen, len,
      Checks(SizeChecks(TRUE, len = size, TRUE)
             \o <<fromRawCoords(p, FALSE), fromRawCoords(q, FALSE)>>),
      (p.v + q.v) % CurveOrder,
      EvmAsked(fn, {BadSize(len = size), p.bad, q.bad}, (p.v + q.v) % CurveOrder))
Mul(fn, size, rlen, len, p, s) ==
  Evm(fn, <<>>, rlen, len,
      Checks(SizeChecks(TRUE, len = size, TRUE) \o <<fromRawCoords(p, TRUE)>>),
      scalarMul(s, p),
      EvmAsked(fn, {BadSize(len = size), p.bad, Outside(p)}, (s * p.v) % CurveOrder))
Msm(fn, size, rlen, len, ps, ss) ==
  LET sized == len > 0 /\ len % size = 0
  IN  Evm(fn, <<>>, rlen, len,
          Checks(SizeChecks(TRUE, sized, TRUE)
                 \o [i \in DOMAIN ps |-> fromRawCoords(ps[i], TRUE)]),
          ecSum([i \in DOMAIN ps |-> scalarMul(ss[i], ps[i])]),
          EvmAsked(fn, {BadSize(sized)} \union UNION {{ps[i].bad, Outside(ps[i])} : i \in DOMAIN ps},
                   ecSum([i \in DOMAIN ps |-> (ss[i] * ps[i].v) % CurveOrder])))

evm_bls12381_g1add(len, p, q) == Sum("ctt_eth_evm_bls12381_g1add", 256, 128, len, p, q)
evm_bls12381_g2add(len, p, q) == Sum("ctt_eth_evm_bls12381_g2add", 512, 256, len, p, q)
evm_bls12381_g1mul(len, p, s) == Mul("ctt_eth_evm_bls12381_g1mul", 160, 128, len, p, s)
evm_bls12381_g2mul(len, p, s) == Mul("ctt_eth_evm_bls12381_g2mul", 288, 256, len, p, s)
evm_bls12381_g1msm(over, ps, ss) ==
  Msm("ctt_eth_evm_bls12381_g1msm", 160, 128, 160 * Len(ps) + over, ps, ss)
evm_bls12381_g2msm(over, ps, ss) ==
  Msm("ctt_eth_evm_bls12381_g2msm", 288, 256, 288 * Len(ps) + over, ps, ss)

evm_bls12381_pairing_check(whole, ps, qs) ==
  LET len == 384 * Len(ps) + (IF whole THEN 0 ELSE 1)
      sized == len % 384 = 0 /\ ps # <<>>
  IN  Evm("ctt_eth_evm_bls12381_pairingcheck", <<>>, 32, len,
          Checks(SizeChecks(FALSE, sized, TRUE) \o PairChecks(ps, qs, TRUE)),
          Bit(pairingsAreOne(ps, qs)),
          EvmAsked("bls12381_pairing", PairFaults(ps, qs) \union {BadSize(sized)},
                   Bit(pairingsAreOne(ps, qs))))

(* Field elements to map: below the modulus, not below it, or with non-zero  *)
(* bytes among the 16 that must be zero.  The point they map to is left out. *)
FieldBytes == {"below", "above", "upper"}
parseFp(u) == IF u = "below" THEN evmOk ELSE "cttEVM_IntLargerThanModulus"
MapTo(fn, size, rlen, len, us) ==
  Evm(fn, <<>>, rlen, len,
      Checks(SizeChecks(TRUE, len = size, TRUE) \o [i \in DOMAIN us |-> parseFp(us[i])]), 0,
      EvmAsked(fn, {BadSize(len = size)} \union ({parseFp(us[i]) : i \in DOMAIN us} \ {evmOk}), 0))
evm_bls12381_map_fp_to_g1(len, u) ==
  MapTo("ctt_eth_evm_bls12381_map_fp_to_g1", 64, 128, len, <<u>>)
evm_bls12381_map_fp2_to_g2(len, u0, u1) ==
  MapTo("ctt_eth_evm_bls12381_map_fp2_to_g2", 128, 256, len, <<u0, u1>>)

(* Point evaluation with the context of object o.  The versioned hash is     *)
(* that of the commitment `hashed'; every KZG status but Success becomes a   *)
(* verification failure.                                                     *)
evm_kzg_point_evaluation(o, len, hashed, z, y, commitment, proof) ==
  LET decoded == FirstError(kzgOk, <<Point(commitment), Scalar(z), Scalar(y), Point(proof)>>)
      holds == decoded = kzgOk /\ kzg_verify(commitment, z, y, proof)
      failure == IF hashed = commitment /\ holds THEN evmOk ELSE "cttEVM_VerificationFailure"
      right == /\ hashed = commitment
               /\ commitment \in {kzg_commit(poly) : poly \in {zeroPoly, mixedPoly}}
               /\ z # "big" /\ y = evalPolyAt(Committed(commitment), z)
               /\ proof = kzg_prove(Committed(commitment), z)
  IN  Evm("ctt_eth_evm_kzg_point_evaluation", <<Handle(ctx[o])>>, 64, len,
          Checks(SizeChecks(TRUE, len = 192, TRUE) \o <<failure>>), 0,
          EvmAsked("point_evaluation",
                   {BadSize(len = 192), IF right THEN "" ELSE "cttEVM_VerificationFailure"}, 0))

-----------------------------------------------------------------------------
(* The inputs that are tried.                                                *)
OnCurve == {Raw(v) : v \in 0 .. CurveOrder - 1}
BadPoints == {Rejected("cttEVM_IntLargerThanModulus"), Rejected("cttEVM_PointNotOnCurve")}
AnyPoints == OnCurve \union BadPoints
Bn254G1 == {p \in OnCurve : InSubgroup(p)} \union BadPoints
EvmScalars == 0 .. EvmOrder + 1
ModexpInputs ==
  {in \in [header : {0, 64, Header}, bL : {0, 1, MaxInt, Word - 1, HugeLen},
           eL : {0, 1, MaxInt, Word - 1, HugeLen}, mL : {0, 1, 2, MaxInt + 1, HugeLen},
           data : Sequences({0, 1, 3}, 3)] :
     in.header < Header => /\ in.data = <<>>
                           /\ in.mL = 0
                           /\ in.header = 0 => in.bL = 0 /\ in.eL = 0}

(* A call of a precompile that needs no context.                             *)
EvmCall ==
  /\ \/ /\ call = NoCall
        /\ \/ \E len \in {0, 1, 64} : evm_ripemd160(len) \/ evm_sha256(len)
           \/ \E in \in ModexpInputs : evm_modexp(in)
           \/ \E len \in {0, 64, 128, 130}, p, q \in Bn254G1 : evm_bn254_g1add(len, p, q)
           \/ \E len \in {0, 64, 96, 97}, p \in Bn254G1, s \in EvmScalars :
                evm_bn254_g1mul(len, p, s)
           \/ \E p, q \in AnyPoints :
                \/ \E len \in {255, 256} : evm_bls12381_g1add(len, p, q)
                \/ \E len \in {511, 512} : evm_bls12381_g2add(len, p, q)
           \/ \E p \in AnyPoints, s \in EvmScalars :
                \/ \E len \in {159, 160} : evm_bls12381_g1mul(len, p, s)
                \/ \E len \in {288, 289} : evm_bls12381_g2mul(len, p, s)
           \/ \E n \in 0..MaxItems, over \in {0, 1} :
                \E ps \in [1..n -> AnyPoints], ss \in [1..n -> {0, 1, EvmOrder + 1}] :
                  evm_bls12381_g1msm(over, ps, ss) \/ evm_bls12381_g2msm(over, ps, ss)
           \/ \E n \in 0..MaxItems, whole \in BOOLEAN : \E qs \in [1..n -> AnyPoints] :
                \/ \E ps \in [1..n -> Bn254G1] : evm_bn254_ec_pairing_check(whole, ps, qs)
                \/ \E ps \in [1..n -> AnyPoints] : evm_bls12381_pairing_check(whole, ps, qs)
           \/ \E len \in {63, 64}, u \in FieldBytes : evm_bls12381_map_fp_to_g1(len, u)
           \/ \E len \in {128, 129}, u0, u1 \in FieldBytes :
                evm_bls12381_map_fp2_to_g2(len, u0, u1)
     \/ /\ Made
        /\ call.given.crate = "evm"
        /\ evm_modexp_sized
  /\ UNCHANGED ctxVars

PointEvaluationCall(o) ==
  /\ call = NoCall
  /\ kind[o] = "context"
  /\ \E len \in {191, 192}, c \in Commitments, z, y \in Scalars, p \in Proofs :
       \E hashed \in {c, kzg_commit(zeroPoly)} :
         evm_kzg_point_evaluation(o, len, hashed, z, y, c, p)
  /\ UNCHANGED ctxVars

-----------------------------------------------------------------------------
(* The inputs for which the special cases of MODEXP decide otherwise than    *)
(* its specification: a missing exponent under a modulus of 0 or 1, and a    *)
(* missing base with an exponent of value 0.                                 *)
ModexpCorner(in) ==
  \/ in.eL = 0 /\ Number(PaddedBytes(in.data, in.bL, in.mL)) < 2
  \/ in.bL = 0 /\ in.eL # 0 /\ Number(PaddedBytes(in.data, 0, in.eL)) = 0

(* The precompiles answer Err exactly when the input is not acceptable, with *)
(* a status that says why, and else Ok with the value that is specified: the *)
(* padding of short inputs, the order of the checks, the reduction of the    *)
(* scalars (sound only for points of the subgroup) and, for MODEXP, the two  *)
(* calls that must agree on the length do not show.  Only MODEXP panics, for *)
(* a modulus of more bytes than a vector holds.  Not all values are right:   *)
(* left out are the pairs with an infinity point on BN254, the corner cases  *)
(* of MODEXP, and its inputs whose lengths do not fit an int.                *)
EvmAnswers ==
  Made /\ call.given.crate = "evm" =>
    LET asked == call.given
        exempt == \/ asked.op \in {"bn254_pairing_infinity", "modexp_size"}
                  \/ asked.op = "modexp" /\ (~Fitting(asked.in) \/ ModexpCorner(asked.in))
    IN  /\ call.ret.tag = "Panic" <=> asked.op = "modexp" /\ asked.in.mL > MaxInt
        /\ call.ret.tag = "Err" => call.ret.v \in asked.faults
        /\ call.ret.tag = "Ok" =>
             /\ asked.op = "modexp_size" \/ asked.faults = {}
             /\ exempt \/ call.ret.v = asked.truth

(* A product of pairings is one exactly when the pairs that are left after   *)
(* those with an infinity point are dropped multiply to one: what EIP-197    *)
(* says of ECPAIRING, and what bls12381_pairingcheck does.                   *)
PairingIsProduct ==
  Made /\ call.given.crate = "evm"
    /\ call.given.op \in {"bn254_pairing", "bn254_pairing_infinity", "bls12381_pairing"}
    /\ call.ret.tag = "Ok" => call.ret.v = call.given.truth
=============================================================================
