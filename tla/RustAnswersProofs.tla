-------------------------- MODULE RustAnswersProofs --------------------------
(* What the wrappers answer, for lists of any length, groups of any order    *)
(* and any number of contexts and pools: the memory they hand out is         *)
(* written, and the answers of the KZG, BLS and EVM crates are those that    *)
(* the inputs call for.                                                      *)
EXTENDS RustCrates, RustFfiProofs

-----------------------------------------------------------------------------
(* constantine-ethereum-kzg: what the checks of single inputs say.           *)
TooLarge == "cttEthKzg_ScalarLargerThanCurveOrder"
PointErrors ==
  {"cttEthKzg_EccInvalidEncoding", "cttEthKzg_EccCoordinateGreaterThanOrEqualModulus",
   "cttEthKzg_EccPointNotOnCurve", "cttEthKzg_EccPointNotInSubgroup"}

(* A compressed point that some decoder status describes, and one that it    *)
(* accepts.                                                                  *)
Encoding(p) == p.codec \in EccStatuses
Accepted(p) == p.codec \in {"cttCodecEcc_Success", "cttCodecEcc_PointAtInfinity"}

LEMMA ScalarStatus ==
  \A e \in Scalars : /\ bytes_to_bls_field(e) = IF e = "big"
                                                THEN "cttCodecScalar_ScalarLargerThanCurveOrder"
                                                ELSE "cttCodecScalar_Success"
                     /\ Scalar(e) = IF e = "big" THEN TooLarge ELSE kzgOk
BY DEF Scalars, Scalar, bytes_to_bls_field, deserialize_scalar, check, TooLarge, kzgOk

LEMMA CheckStatus ==
  /\ check("cttCodecScalar_Success") = kzgOk
  /\ check("cttCodecScalar_ScalarLargerThanCurveOrder") = TooLarge
  /\ check("cttCodecEcc_Success") = kzgOk
  /\ \A s \in EccStatuses \ {"cttCodecEcc_Success", "cttCodecEcc_PointAtInfinity"} :
       check(s) \in PointErrors
BY DEF check, TooLarge, kzgOk, EccStatuses, PointErrors

LEMMA PointStatus ==
  ASSUME NEW p, Encoding(p)
  PROVE  /\ Accepted(p) => Point(p) = kzgOk
         /\ ~Accepted(p) => Point(p) = check(p.codec) /\ Point(p) \in PointErrors
BY CheckStatus DEF Encoding, Accepted, Point, bytes_to_point, EccStatuses

(* The conversion of a blob, by one thread or by several: what one element   *)
(* that is too large leads to does not depend on which it is.                *)
BlobStatus(blob) == IF "big" \in Range(blob) THEN TooLarge ELSE kzgOk

LEMMA BlobStatuses ==
  ASSUME NEW par, NEW n \in Nat, NEW blob \in [1..n -> Scalars],
         NEW s \in blob_to_polynomial(par, blob)
  PROVE  s = BlobStatus(blob)
<1> DEFINE statuses == [i \in DOMAIN blob |-> bytes_to_bls_field(blob[i])]
           ok == "cttCodecScalar_Success"
           large == "cttCodecScalar_ScalarLargerThanCurveOrder"
<1>1. PICK r : /\ s = check(r)
               /\ r \in Reduced(ok, statuses) \/ r = FirstError(ok, statuses)
  BY DEF blob_to_polynomial
<1>2. Outcome(ok, statuses, r)
  <2>1. CASE r \in Reduced(ok, statuses)
    BY <2>1 DEF Reduced, Range, Outcome
  <2>2. CASE r = FirstError(ok, statuses)
    BY <2>2, FirstErrorOutcome
  <2> QED
    BY <1>1, <2>1, <2>2
<1>3. \A i \in 1..n : statuses[i] = IF blob[i] = "big" THEN large ELSE ok
  BY ScalarStatus
<1>4. r = IF "big" \in Range(blob) THEN large ELSE ok
  BY <1>2, <1>3 DEF Outcome, Range
<1> QED
  BY <1>1, <1>4, CheckStatus DEF BlobStatus

-----------------------------------------------------------------------------
(* From the status of the library to the answer of the wrapper.              *)
Failure == "cttEthKzg_VerificationFailure"

LEMMA StatusRead == \A s \in KzgStatuses : StatusIn(s) = s
BY KzgTable DEF StatusIn

LEMMA ComputedStatus ==
  \A s \in KzgStatuses : /\ s = kzgOk => Computed(s).tag = "Ok"
                         /\ s # kzgOk => Computed(s).tag = "Err" /\ Computed(s).v = s
BY StatusRead DEF Computed, Ok, Err

LEMMA VerifiedStatus ==
  \A s \in KzgStatuses :
    /\ s = kzgOk => Verified(s).tag = "Ok" /\ Verified(s).v = TRUE
    /\ s = Failure => Verified(s).tag = "Ok" /\ Verified(s).v = FALSE
    /\ s \notin {kzgOk, Failure} => Verified(s).tag = "Err" /\ Verified(s).v = s
BY StatusRead DEF Verified, Ok, Err, kzgOk, Failure

(* An answer to what was asked that KzgAnswers accepts.                      *)
Answered(ret, asked) ==
  \/ ret.tag = "Err" /\ ret.v \in Faults(asked)
  \/ /\ ret.tag = "Ok" /\ Faults(asked) = {}
     /\ asked.verify => ret.v = asked.truth \/ asked.shape = "unblinded"

(* What was asked is recorded with the threadpool of the object it was asked *)
(* of, and with the version of the method.                                   *)
AskedOf(asked, o, par) == asked.pool = tp[o] /\ (asked.parallel <=> par)

LEMMA InvokeAnswers ==
  ASSUME NEW o, NEW par \in BOOLEAN, NEW fn, NEW args, NEW reach, NEW outs, NEW status, NEW ret,
         NEW asked, Invoke(o, par, fn, args, reach, outs, status, ret, asked),
         AskedOf(asked, o, par), par => asked.shape # "lengths",
         ret.tag = "Ok" => status = kzgOk \/ outs = {},
         Answered(ret, asked)
  PROVE  KzgAnswers' /\ OutputsWritten'
<1> DEFINE panics == par /\ tp[o] = Nil
<1>1. CASE panics
  <2>1. call' = NotMade(Panic, asked)
    BY <1>1 DEF Invoke
  <2> QED
    BY <1>1, <2>1 DEF KzgAnswers, OutputsWritten, NotMade, Call, Panic, AskedOf
<1>2. CASE ~panics
  <2>1. /\ call'.ret = ret /\ call'.given = asked
        /\ call'.out \subseteq call'.filled
    BY <1>2 DEF Invoke, Call
  <2>2. OutputsWritten'
    BY <2>1 DEF OutputsWritten
  <2>3. ret.tag # "Panic" /\ ~(asked.parallel /\ asked.pool = Nil)
    BY <1>2 DEF Answered, AskedOf
  <2>4. KzgAnswers'
    BY <2>1, <2>3 DEF KzgAnswers, Answered
  <2> QED
    BY <2>2, <2>4
<1> QED
  BY <1>1, <1>2

(* A call that was not made because the lengths differ.                      *)
LEMMA MismatchAnswers ==
  ASSUME NEW asked, call' = NotMade(LengthsMismatch, asked), asked.shape = "lengths"
  PROVE  KzgAnswers' /\ OutputsWritten'
<1>1. /\ call'.ret.tag = "Err" /\ call'.ret.v = "cttEthKzg_InputsLengthsMismatch"
      /\ call'.given = asked /\ call'.out = {}
  BY DEF NotMade, Call, LengthsMismatch, Err
<1>2. "cttEthKzg_InputsLengthsMismatch" \in Faults(asked)
  BY DEF Faults
<1> QED
  BY <1>1, <1>2 DEF KzgAnswers, OutputsWritten

(* The faults of a call by the inputs it was given.                          *)
LEMMA FaultsOf ==
  ASSUME NEW asked
  PROVE  /\ "big" \in asked.scalars => TooLarge \in Faults(asked)
         /\ \A p \in asked.points : ~Accepted(p) => check(p.codec) \in Faults(asked)
         /\ /\ "big" \notin asked.scalars
            /\ \A p \in asked.points : Accepted(p)
            /\ asked.shape \notin {"lengths", "order"}
            => Faults(asked) = {}
         /\ asked.shape = "lengths" => "cttEthKzg_InputsLengthsMismatch" \in Faults(asked)
         /\ asked.shape = "order" => "cttEthKzg_CellIndicesNotAscending" \in Faults(asked)
BY DEF Faults, Accepted, TooLarge

LEMMA VerifyingAnswer ==
  ASSUME NEW status \in KzgStatuses, NEW asked,
         \/ /\ status = kzgOk /\ Faults(asked) = {}
            /\ asked.truth = TRUE \/ asked.shape = "unblinded"
         \/ /\ status = Failure /\ Faults(asked) = {}
            /\ asked.truth = FALSE \/ asked.shape = "unblinded"
         \/ status \notin {kzgOk, Failure} /\ status \in Faults(asked)
  PROVE  Answered(Verified(status), asked)
BY VerifiedStatus DEF Answered

LEMMA ComputingAnswer ==
  ASSUME NEW status \in KzgStatuses, NEW asked, asked.verify = FALSE,
         \/ status = kzgOk /\ Faults(asked) = {}
         \/ status # kzgOk /\ status \in Faults(asked)
  PROVE  Answered(Computed(status), asked)
BY ComputedStatus DEF Answered

LEMMA Names ==
  /\ kzgOk \in KzgStatuses /\ Failure \in KzgStatuses /\ TooLarge \in KzgStatuses
  /\ PointErrors \subseteq KzgStatuses
  /\ kzgOk # Failure /\ kzgOk # TooLarge /\ Failure # TooLarge
  /\ kzgOk \notin PointErrors /\ Failure \notin PointErrors
BY DEF kzgOk, Failure, TooLarge, KzgStatuses, PointErrors

-----------------------------------------------------------------------------
(* The commitment scheme: a commitment that decodes is that of a polynomial, *)
(* and verification holds of the proofs of that polynomial only.             *)
Polynomials == [1..2 -> {"zero", "one"}]
CommitmentBytes(c) == Encoding(c) /\ (Accepted(c) => \E poly \in Polynomials : c = kzg_commit(poly))

LEMMA CommittedPolynomial ==
  \A poly \in Polynomials : Committed(kzg_commit(poly)) = poly
<1> TAKE poly \in Polynomials
<1>1. CASE poly = <<"zero", "zero">>
  BY <1>1 DEF Committed, kzg_commit, Encoded
<1>2. CASE poly # <<"zero", "zero">>
  <2>1. kzg_commit(poly).of = <<poly>>
    BY <1>2 DEF kzg_commit, Encoded
  <2>2. <<poly>> # <<>> /\ <<poly>>[1] = poly
    OBVIOUS
  <2> QED
    BY <2>1, <2>2 DEF Committed
<1> QED
  BY <1>1, <1>2

LEMMA VerifyBlobTruth ==
  ASSUME NEW blob \in Polynomials, NEW poly \in Polynomials, NEW proof
  PROVE  verify_blob(blob, kzg_commit(poly), proof)
           <=> kzg_commit(poly) = kzg_commit(blob) /\ proof = kzg_prove(blob, "one")
<1>1. Committed(kzg_commit(poly)) = poly /\ Committed(kzg_commit(blob)) = blob
  BY CommittedPolynomial
<1>2. CASE blob = poly
  <2>1. fiatShamirChallenge(blob, kzg_commit(poly)) = "one"
    BY <1>1, <1>2 DEF fiatShamirChallenge
  <2> QED
    BY <1>1, <1>2, <2>1 DEF verify_blob, kzg_verify
<1>3. CASE blob # poly
  <2> DEFINE z == CHOOSE z \in {"zero", "one"} : evalPolyAt(blob, z) # evalPolyAt(poly, z)
  <2>1. \E y \in {"zero", "one"} : evalPolyAt(blob, y) # evalPolyAt(poly, y)
    BY <1>3 DEF evalPolyAt, Polynomials
  <2>2. evalPolyAt(blob, z) # evalPolyAt(poly, z)
    BY <2>1
  <2>3. fiatShamirChallenge(blob, kzg_commit(poly)) = z
    BY <1>1, <1>3 DEF fiatShamirChallenge
  <2> HIDE DEF z
  <2>4. ~verify_blob(blob, kzg_commit(poly), proof)
    BY <1>1, <2>2, <2>3 DEF verify_blob, kzg_verify
  <2> QED
    BY <1>1, <1>3, <2>4
<1> QED
  BY <1>2, <1>3

-----------------------------------------------------------------------------
(* A list of checks whose failures are faults of the call, and which         *)
(* together find every fault.                                                *)
Checking(statuses, asked) ==
  /\ \A i \in DOMAIN statuses : statuses[i] # kzgOk => statuses[i] \in Faults(asked)
  /\ (\A i \in DOMAIN statuses : statuses[i] = kzgOk) => Faults(asked) = {}
Consistent(status, asked) ==
  \/ status = kzgOk /\ Faults(asked) = {}
  \/ status # kzgOk /\ status \in Faults(asked)

LEMMA CheckedInputs ==
  ASSUME NEW statuses, NEW asked, NEW status,
         Checking(statuses, asked), Outcome(kzgOk, statuses, status)
  PROVE  Consistent(status, asked)
BY DEF Checking, Outcome, Consistent

(* What one check says of an input of the call.                              *)
LEMMA ScalarFault ==
  ASSUME NEW asked, NEW z \in Scalars, z \in asked.scalars
  PROVE  /\ Scalar(z) # kzgOk => Scalar(z) \in Faults(asked)
         /\ Scalar(z) = kzgOk => z # "big"
BY ScalarStatus, FaultsOf, Names

LEMMA BlobFault ==
  ASSUME NEW asked, NEW blob, Range(blob) \subseteq asked.scalars
  PROVE  /\ BlobStatus(blob) # kzgOk => BlobStatus(blob) \in Faults(asked)
         /\ BlobStatus(blob) = kzgOk => "big" \notin Range(blob)
BY FaultsOf, Names DEF BlobStatus

LEMMA PointFault ==
  ASSUME NEW asked, NEW p, Encoding(p), p \in asked.points
  PROVE  /\ Point(p) # kzgOk => Point(p) \in Faults(asked)
         /\ Point(p) = kzgOk => Accepted(p)
BY PointStatus, FaultsOf, Names

(* The faults of a call are errors, other than a failed verification.        *)
LEMMA FaultStatuses ==
  ASSUME NEW asked, \A p \in asked.points : Encoding(p)
  PROVE  /\ Faults(asked) \subseteq KzgStatuses
         /\ kzgOk \notin Faults(asked) /\ Failure \notin Faults(asked)
<1>1. \A p \in asked.points : ~Accepted(p) => check(p.codec) \in PointErrors
  BY CheckStatus DEF Encoding, Accepted
<1>2. ASSUME NEW f \in Faults(asked)
      PROVE  \/ f \in PointErrors \/ f = TooLarge
             \/ f \in {"cttEthKzg_InputsLengthsMismatch", "cttEthKzg_CellIndicesNotAscending"}
  BY <1>1, <1>2 DEF Faults, Accepted, TooLarge
<1> QED
  BY <1>2, Names DEF KzgStatuses, kzgOk, Failure

(* A method that computes, and one that verifies when its inputs are in      *)
(* order.                                                                    *)
LEMMA Computing ==
  ASSUME NEW o, NEW par \in BOOLEAN, NEW fn, NEW args, NEW reach, NEW outs, NEW status, NEW asked,
         Invoke(o, par, fn, args, reach, outs, status, Computed(status), asked),
         asked.verify = FALSE, AskedOf(asked, o, par), par => asked.shape # "lengths",
         \A p \in asked.points : Encoding(p), Consistent(status, asked)
  PROVE  KzgAnswers' /\ OutputsWritten'
<1>1. status \in KzgStatuses
  BY FaultStatuses, Names DEF Consistent
<1>2. Answered(Computed(status), asked)
  BY <1>1, ComputingAnswer DEF Consistent
<1>3. Computed(status).tag = "Ok" => status = kzgOk
  BY <1>1, ComputedStatus
<1> QED
  BY <1>2, <1>3, InvokeAnswers

Judged(decoded, holds) == IF decoded # kzgOk THEN decoded ELSE Verdict(holds)
LEMMA JudgedAnswer ==
  ASSUME NEW decoded, NEW holds \in BOOLEAN, NEW asked,
         \A p \in asked.points : Encoding(p), Consistent(decoded, asked),
         Faults(asked) = {} => asked.shape = "unblinded" \/ (asked.truth = holds)
  PROVE  Answered(Verified(Judged(decoded, holds)), asked)
<1> DEFINE status == Judged(decoded, holds)
<1>1. CASE decoded # kzgOk
  <2>1. status = decoded /\ decoded \in Faults(asked)
    BY <1>1 DEF Judged, Consistent
  <2>2. status \in KzgStatuses /\ status \notin {kzgOk, Failure} /\ status \in Faults(asked)
    BY <2>1, FaultStatuses
  <2> HIDE DEF status
  <2>3. Answered(Verified(status), asked)
    BY <2>2, VerifyingAnswer
  <2> QED
    BY <2>3 DEF status
<1>2. CASE decoded = kzgOk
  <2>1. Faults(asked) = {} /\ status = IF holds THEN kzgOk ELSE Failure
    BY <1>2, FaultStatuses DEF Judged, Verdict, Consistent, Failure
  <2>2. status \in KzgStatuses
    BY <2>1, Names
  <2> HIDE DEF status
  <2>3. Answered(Verified(status), asked)
    BY <2>1, <2>2, Names, VerifyingAnswer
  <2> QED
    BY <2>3 DEF status
<1> QED
  BY <1>1, <1>2

-----------------------------------------------------------------------------
(* The methods on one blob.                                                  *)
LEMMA CommitmentAnswers ==
  ASSUME NEW o, NEW par \in BOOLEAN, NEW n \in Nat, NEW blob \in [1..n -> Scalars],
         blob_to_kzg_commitment(o, par, blob)
  PROVE  KzgAnswers' /\ OutputsWritten'
<1> DEFINE asked == Asked(o, FALSE, par, Range(blob), {}, "", TRUE)
<1>1. PICK status \in blob_to_polynomial(par, blob) :
        Invoke(o, par, "ctt_eth_kzg_blob_to_kzg_commitment",
               <<point_bytes, blob_bytes>>, <<1, 1>>, {1}, status, Computed(status), asked)
  BY DEF blob_to_kzg_commitment
<1>2. status = BlobStatus(blob)
  BY BlobStatuses
<1>3. /\ asked.verify = FALSE /\ AskedOf(asked, o, par) /\ asked.scalars = Range(blob)
      /\ asked.points = {} /\ asked.shape = ""
  BY DEF Asked, AskedOf
<1> HIDE DEF asked
<1>4. status \in KzgStatuses
  BY <1>2, Names DEF BlobStatus
<1>5. \/ status = kzgOk /\ Faults(asked) = {}
      \/ status # kzgOk /\ status \in Faults(asked)
  BY <1>2, <1>3, FaultsOf, Names DEF BlobStatus
<1>6. Answered(Computed(status), asked)
  BY <1>3, <1>4, <1>5, ComputingAnswer
<1>7. Computed(status).tag = "Ok" => status = kzgOk
  BY <1>4, ComputedStatus
<1> QED
  BY <1>1, <1>3, <1>6, <1>7, InvokeAnswers

LEMMA ComputeProofAnswers ==
  ASSUME NEW o, NEW par \in BOOLEAN, NEW n \in Nat, NEW blob \in [1..n -> Scalars],
         NEW z \in Scalars, compute_kzg_proof(o, par, blob, z)
  PROVE  KzgAnswers' /\ OutputsWritten'
<1> DEFINE asked == Asked(o, FALSE, par, Range(blob) \union {z}, {}, "", TRUE)
           checks(conv) == <<Scalar(z), conv>>
<1>1. PICK conv \in blob_to_polynomial(par, blob) :
        Invoke(o, par, "ctt_eth_kzg_compute_kzg_proof",
               <<point_bytes, scalar_bytes, blob_bytes, scalar_bytes>>, <<1, 1, 1, 1>>,
               {1, 2}, FirstError(kzgOk, checks(conv)),
               Computed(FirstError(kzgOk, checks(conv))), asked)
  BY DEF compute_kzg_proof
<1> DEFINE status == FirstError(kzgOk, checks(conv))
<1>2. conv = BlobStatus(blob)
  BY BlobStatuses
<1>3. /\ asked.verify = FALSE /\ AskedOf(asked, o, par) /\ asked.scalars = Range(blob) \union {z}
      /\ asked.points = {} /\ asked.shape = ""
  BY DEF Asked, AskedOf
<1>4. Outcome(kzgOk, checks(conv), status)
  BY FirstErrorOutcome
<1>5. /\ DOMAIN checks(conv) = 1..2
      /\ checks(conv)[1] = Scalar(z) /\ checks(conv)[2] = conv
  OBVIOUS
<1> HIDE DEF asked, checks, status
<1>6. Checking(checks(conv), asked)
  <2>1. /\ Scalar(z) # kzgOk => Scalar(z) \in Faults(asked)
        /\ Scalar(z) = kzgOk => z # "big"
    BY <1>3, ScalarFault
  <2>2. /\ conv # kzgOk => conv \in Faults(asked)
        /\ conv = kzgOk => "big" \notin Range(blob)
    BY <1>2, <1>3, BlobFault
  <2>3. z # "big" /\ "big" \notin Range(blob) => Faults(asked) = {}
    BY <1>3, FaultsOf
  <2> QED
    BY <1>5, <2>1, <2>2, <2>3 DEF Checking
<1>7. Consistent(status, asked)
  BY <1>4, <1>6, CheckedInputs
<1>8. Invoke(o, par, "ctt_eth_kzg_compute_kzg_proof",
               <<point_bytes, scalar_bytes, blob_bytes, scalar_bytes>>, <<1, 1, 1, 1>>,
               {1, 2}, status, Computed(status), asked)
  BY <1>1 DEF status
<1> QED
  BY <1>3, <1>7, <1>8, Computing

LEMMA SerialAnswers ==
  ASSUME NEW o, NEW fn, NEW args, NEW reach, NEW outs, NEW status, NEW ret, NEW asked,
         Serially(o, fn, args, reach, outs, status, ret, asked), AskedOf(asked, o, FALSE),
         ret.tag = "Ok" => status = kzgOk \/ outs = {},
         Answered(ret, asked)
  PROVE  KzgAnswers' /\ OutputsWritten'
<1>1. /\ call'.ret = ret /\ call'.given = asked
      /\ call'.out \subseteq call'.filled
  BY DEF Serially, Invoke, Call
<1>2. OutputsWritten'
  BY <1>1 DEF OutputsWritten
<1>3. ret.tag # "Panic" /\ ~asked.parallel
  BY DEF Answered, AskedOf
<1>4. KzgAnswers'
  BY <1>1, <1>3 DEF KzgAnswers, Answered
<1> QED
  BY <1>2, <1>4

LEMMA SerialComputing ==
  ASSUME NEW o, NEW fn, NEW args, NEW reach, NEW outs, NEW status, NEW asked,
         Serially(o, fn, args, reach, outs, status, Computed(status), asked),
         asked.verify = FALSE, AskedOf(asked, o, FALSE),
         \A p \in asked.points : Encoding(p), Consistent(status, asked)
  PROVE  KzgAnswers' /\ OutputsWritten'
<1>1. status \in KzgStatuses
  BY FaultStatuses, Names DEF Consistent
<1>2. Answered(Computed(status), asked)
  BY <1>1, ComputingAnswer DEF Consistent
<1>3. Computed(status).tag = "Ok" => status = kzgOk
  BY <1>1, ComputedStatus
<1> QED
  BY <1>2, <1>3, SerialAnswers

LEMMA VerifyProofAnswers ==
  ASSUME NEW o, NEW commitment, Encoding(commitment), NEW proof, Encoding(proof),
         NEW z \in Scalars, NEW y \in Scalars,
         verify_kzg_proof(o, commitment, z, y, proof)
  PROVE  KzgAnswers' /\ OutputsWritten'
<1> DEFINE holds == kzg_verify(commitment, z, y, proof)
           asked == Asked(o, TRUE, FALSE, {z, y}, {commitment, proof}, "", holds)
           checks == <<Point(commitment), Scalar(z), Scalar(y), Point(proof)>>
           decoded == FirstError(kzgOk, checks)
           status == Judged(decoded, holds)
<1>1. Serially(o, "ctt_eth_kzg_verify_kzg_proof",
             <<point_bytes, scalar_bytes, scalar_bytes, point_bytes>>, <<1, 1, 1, 1>>,
             {}, status, Verified(status), asked)
  BY DEF verify_kzg_proof, Judged
<1>2. holds \in BOOLEAN
  BY DEF kzg_verify
<1>3. /\ asked.verify = TRUE /\ AskedOf(asked, o, FALSE) /\ asked.scalars = {z, y}
      /\ asked.points = {commitment, proof} /\ asked.shape = "" /\ asked.truth = holds
  BY DEF Asked, AskedOf
<1>4. Outcome(kzgOk, checks, decoded)
  BY FirstErrorOutcome
<1>5. /\ DOMAIN checks = 1..4
      /\ checks[1] = Point(commitment) /\ checks[2] = Scalar(z)
      /\ checks[3] = Scalar(y) /\ checks[4] = Point(proof)
  OBVIOUS
<1> HIDE DEF asked, checks, decoded, status, holds
<1>6. Checking(checks, asked)
  <2>1. \A e \in {z, y} : /\ Scalar(e) # kzgOk => Scalar(e) \in Faults(asked)
                          /\ Scalar(e) = kzgOk => e # "big"
    BY <1>3, ScalarFault
  <2>2. \A p \in {commitment, proof} : /\ Point(p) # kzgOk => Point(p) \in Faults(asked)
                                       /\ Point(p) = kzgOk => Accepted(p)
    BY <1>3, PointFault
  <2>3. z # "big" /\ y # "big" /\ Accepted(commitment) /\ Accepted(proof) => Faults(asked) = {}
    BY <1>3, FaultsOf
  <2> QED
    BY <1>5, <2>1, <2>2, <2>3 DEF Checking
<1>7. Consistent(decoded, asked)
  BY <1>4, <1>6, CheckedInputs
<1>8. Answered(Verified(status), asked)
  BY <1>2, <1>3, <1>7, JudgedAnswer DEF status
<1> QED
  BY <1>1, <1>3, <1>8, SerialAnswers

LEMMA ComputeBlobProofAnswers ==
  ASSUME NEW o, NEW par \in BOOLEAN, NEW n \in Nat, NEW blob \in [1..n -> Scalars],
         NEW commitment, Encoding(commitment), compute_blob_kzg_proof(o, par, blob, commitment)
  PROVE  KzgAnswers' /\ OutputsWritten'
<1> DEFINE asked == Asked(o, FALSE, par, Range(blob), {commitment}, "", TRUE)
           checks(conv) == <<Point(commitment), conv>>
<1>1. PICK conv \in blob_to_polynomial(par, blob) :
        Invoke(o, par, "ctt_eth_kzg_compute_blob_kzg_proof",
               <<point_bytes, blob_bytes, point_bytes>>, <<1, 1, 1>>,
               {1}, FirstError(kzgOk, checks(conv)),
               Computed(FirstError(kzgOk, checks(conv))), asked)
  BY DEF compute_blob_kzg_proof
<1> DEFINE status == FirstError(kzgOk, checks(conv))
<1>2. conv = BlobStatus(blob)
  BY BlobStatuses
<1>3. /\ asked.verify = FALSE /\ AskedOf(asked, o, par) /\ asked.scalars = Range(blob)
      /\ asked.points = {commitment} /\ asked.shape = ""
  BY DEF Asked, AskedOf
<1>4. Outcome(kzgOk, checks(conv), status)
  BY FirstErrorOutcome
<1>5. /\ DOMAIN checks(conv) = 1..2
      /\ checks(conv)[1] = Point(commitment) /\ checks(conv)[2] = conv
  OBVIOUS
<1> HIDE DEF asked, checks, status
<1>6. Checking(checks(conv), asked)
  <2>1. /\ Point(commitment) # kzgOk => Point(commitment) \in Faults(asked)
        /\ Point(commitment) = kzgOk => Accepted(commitment)
    BY <1>3, PointFault
  <2>2. /\ conv # kzgOk => conv \in Faults(asked)
        /\ conv = kzgOk => "big" \notin Range(blob)
    BY <1>2, <1>3, BlobFault
  <2>3. Accepted(commitment) /\ "big" \notin Range(blob) => Faults(asked) = {}
    BY <1>3, FaultsOf
  <2> QED
    BY <1>5, <2>1, <2>2, <2>3 DEF Checking
<1>7. Consistent(status, asked)
  BY <1>4, <1>6, CheckedInputs
<1>8. Invoke(o, par, "ctt_eth_kzg_compute_blob_kzg_proof",
               <<point_bytes, blob_bytes, point_bytes>>, <<1, 1, 1>>,
               {1}, status, Computed(status), asked)
  BY <1>1 DEF status
<1>9. \A p \in asked.points : Encoding(p)
  BY <1>3
<1> QED
  BY <1>3, <1>7, <1>8, <1>9, Computing

(* What a verification is asked about a blob that decodes, and whose         *)
(* commitment decodes, is what it finds.                                     *)
LEMMA BlobTruth ==
  ASSUME NEW blob \in [1..2 -> Scalars], NEW commitment, CommitmentBytes(commitment), NEW proof,
         "big" \notin Range(blob), Accepted(commitment)
  PROVE  verify_blob(blob, commitment, proof)
           <=> commitment = kzg_commit(blob) /\ proof = kzg_prove(blob, "one")
<1>1. blob \in Polynomials
  BY DEF Polynomials, Scalars, Range
<1>2. PICK poly \in Polynomials : commitment = kzg_commit(poly)
  BY DEF CommitmentBytes
<1> QED
  BY <1>1, <1>2, VerifyBlobTruth

LEMMA VerifyBlobProofAnswers ==
  ASSUME NEW o, NEW par \in BOOLEAN, NEW blob \in [1..2 -> Scalars],
         NEW commitment, CommitmentBytes(commitment), NEW proof, Encoding(proof),
         verify_blob_kzg_proof(o, par, blob, commitment, proof)
  PROVE  KzgAnswers' /\ OutputsWritten'
<1> DEFINE truth == commitment = kzg_commit(blob) /\ proof = kzg_prove(blob, "one")
           holds == verify_blob(blob, commitment, proof)
           asked == Asked(o, TRUE, par, Range(blob), {commitment, proof}, "", truth)
           checks(conv) == <<Point(commitment), Point(proof), conv>>
           judged(conv) == Judged(FirstError(kzgOk, checks(conv)), holds)
<1>1. PICK conv \in blob_to_polynomial(par, blob) :
        Invoke(o, par, "ctt_eth_kzg_verify_blob_kzg_proof",
               <<blob_bytes, point_bytes, point_bytes>>, <<1, 1, 1>>,
               {}, judged(conv), Verified(judged(conv)), asked)
  BY DEF verify_blob_kzg_proof, Judged
<1> DEFINE decoded == FirstError(kzgOk, checks(conv))
           status == Judged(decoded, holds)
<1>2. conv = BlobStatus(blob)
  BY BlobStatuses
<1>3. /\ asked.verify = TRUE /\ AskedOf(asked, o, par) /\ asked.scalars = Range(blob)
      /\ asked.points = {commitment, proof} /\ asked.shape = "" /\ asked.truth = truth
  BY DEF Asked, AskedOf
<1>4. Outcome(kzgOk, checks(conv), decoded)
  BY FirstErrorOutcome
<1>5. /\ DOMAIN checks(conv) = 1..3
      /\ checks(conv)[1] = Point(commitment) /\ checks(conv)[2] = Point(proof)
      /\ checks(conv)[3] = conv
  OBVIOUS
<1>6. holds \in BOOLEAN /\ truth \in BOOLEAN
  BY DEF verify_blob, kzg_verify
<1>7. "big" \notin Range(blob) /\ Accepted(commitment) => (holds <=> truth)
  BY BlobTruth
<1>8. judged(conv) = status
  OBVIOUS
<1>9. Encoding(commitment)
  BY DEF CommitmentBytes
<1> HIDE DEF asked, checks, decoded, status, holds, truth, judged
<1>10. \A p \in {commitment, proof} : /\ Point(p) # kzgOk => Point(p) \in Faults(asked)
                                      /\ Point(p) = kzgOk => Accepted(p)
  BY <1>3, <1>9, PointFault
<1>11. /\ conv # kzgOk => conv \in Faults(asked)
       /\ conv = kzgOk => "big" \notin Range(blob)
  BY <1>2, <1>3, BlobFault
<1>12. "big" \notin Range(blob) /\ Accepted(commitment) /\ Accepted(proof) => Faults(asked) = {}
  BY <1>3, FaultsOf
<1>13. Checking(checks(conv), asked)
  BY <1>5, <1>10, <1>11, <1>12 DEF Checking
<1>14. Consistent(decoded, asked)
  BY <1>4, <1>13, CheckedInputs
<1>15. Faults(asked) = {} => asked.truth = holds
  <2>1. Faults(asked) = {} => "big" \notin Range(blob) /\ Accepted(commitment)
    BY <1>2, <1>10, <1>11
  <2> QED
    BY <1>3, <1>6, <1>7, <2>1
<1>16. \A p \in asked.points : Encoding(p)
  BY <1>3, <1>9
<1>17. Answered(Verified(status), asked)
  BY <1>6, <1>14, <1>15, <1>16, JudgedAnswer DEF status
<1>18. Invoke(o, par, "ctt_eth_kzg_verify_blob_kzg_proof",
              <<blob_bytes, point_bytes, point_bytes>>, <<1, 1, 1>>,
              {}, status, Verified(status), asked)
  BY <1>1, <1>8
<1> QED
  BY <1>3, <1>17, <1>18, InvokeAnswers

-----------------------------------------------------------------------------
(* Batches of any length.                                                    *)
ItemBytes(item) ==
  /\ item.blob \in [1..2 -> Scalars] /\ CommitmentBytes(item.commitment) /\ Encoding(item.proof)
Holds(item) == verify_blob(item.blob, item.commitment, item.proof)
True(item) == /\ item.commitment = kzg_commit(item.blob)
              /\ item.proof = kzg_prove(item.blob, "one")
Given(item, asked) ==
  Range(item.blob) \subseteq asked.scalars /\ {item.commitment, item.proof} \subseteq asked.points

LEMMA ItemStatus ==
  ASSUME NEW par \in BOOLEAN, NEW item, ItemBytes(item), NEW asked, Given(item, asked),
         NEW s \in item_statuses(par, item)
  PROVE  /\ s # kzgOk => s \in Faults(asked)
         /\ s = kzgOk => /\ "big" \notin Range(item.blob)
                         /\ Accepted(item.commitment) /\ Accepted(item.proof)
<1> DEFINE checks(conv) == <<Point(item.commitment), conv, Point(item.proof)>>
<1>1. PICK conv \in blob_to_polynomial(par, item.blob) : s = FirstError(kzgOk, checks(conv))
  BY DEF item_statuses
<1>2. conv = BlobStatus(item.blob)
  BY BlobStatuses DEF ItemBytes
<1>3. Outcome(kzgOk, checks(conv), s)
  BY <1>1, FirstErrorOutcome
<1>4. /\ DOMAIN checks(conv) = 1..3
      /\ checks(conv)[1] = Point(item.commitment) /\ checks(conv)[2] = conv
      /\ checks(conv)[3] = Point(item.proof)
  OBVIOUS
<1> HIDE DEF checks
<1>5. \A p \in {item.commitment, item.proof} :
        /\ Point(p) # kzgOk => Point(p) \in Faults(asked)
        /\ Point(p) = kzgOk => Accepted(p)
  BY PointFault DEF ItemBytes, CommitmentBytes, Given
<1>6. /\ conv # kzgOk => conv \in Faults(asked)
      /\ conv = kzgOk => "big" \notin Range(item.blob)
  BY <1>2, BlobFault DEF Given
<1> QED
  BY <1>3, <1>4, <1>5, <1>6 DEF Outcome

LEMMA BatchStatus ==
  ASSUME NEW par \in BOOLEAN, NEW n \in Nat, NEW items, DOMAIN items = 1..n,
         NEW asked, \A i \in 1..n : ItemBytes(items[i]) /\ Given(items[i], asked),
         NEW decoded \in batch_statuses(par, items)
  PROVE  /\ decoded # kzgOk => decoded \in Faults(asked)
         /\ decoded = kzgOk => \A i \in 1..n : /\ "big" \notin Range(items[i].blob)
                                               /\ Accepted(items[i].commitment)
                                               /\ Accepted(items[i].proof)
<1> DEFINE possible == [i \in DOMAIN items |-> item_statuses(par, items[i])]
           outcomes == {f \in [DOMAIN items -> UNION Range(possible)] :
                          \A i \in DOMAIN items : f[i] \in possible[i]}
<1>1. PICK per \in outcomes :
        decoded \in IF par THEN Reduced(kzgOk, per) ELSE {FirstError(kzgOk, per)}
  BY DEF batch_statuses
<1>2. DOMAIN per = 1..n /\ \A i \in 1..n : per[i] \in item_statuses(par, items[i])
  BY <1>1
<1>3. Outcome(kzgOk, per, decoded)
  <2>1. CASE decoded \in Reduced(kzgOk, per)
    BY <2>1 DEF Reduced, Range, Outcome
  <2>2. CASE decoded = FirstError(kzgOk, per)
    BY <1>2, <2>2, FirstErrorOutcome
  <2> QED
    BY <1>1, <2>1, <2>2
<1> HIDE DEF possible, outcomes
<1>4. \A i \in 1..n : /\ per[i] # kzgOk => per[i] \in Faults(asked)
                      /\ per[i] = kzgOk => /\ "big" \notin Range(items[i].blob)
                                           /\ Accepted(items[i].commitment)
                                           /\ Accepted(items[i].proof)
  BY <1>2, ItemStatus
<1> QED
  BY <1>2, <1>3, <1>4 DEF Outcome

LEMMA VerifyBatchAnswers ==
  ASSUME NEW o, NEW par \in BOOLEAN, NEW n \in Nat, NEW items, DOMAIN items = 1..n,
         \A i \in 1..n : ItemBytes(items[i]), NEW lens, NEW seed,
         verify_blob_kzg_proof_batch(o, par, items, lens, seed)
  PROVE  KzgAnswers' /\ OutputsWritten'
<1> DEFINE asked == asked_batch(o, par, items, lens, seed)
           truth == \A i \in DOMAIN items : True(items[i])
           holds == kzg_verify_batch(items, par, seed)
<1>1. /\ asked.verify = TRUE /\ AskedOf(asked, o, par)
      /\ asked.scalars = UNION {Range(items[i].blob) : i \in 1..n}
      /\ asked.points = UNION {{items[i].commitment, items[i].proof} : i \in 1..n}
      /\ asked.truth = truth
      /\ asked.shape = IF ~Equal(lens) THEN "lengths"
                       ELSE IF items # <<>> /\ BlindingIsZero(par, seed) THEN "unblinded" ELSE ""
  BY DEF asked_batch, Asked, AskedOf, True
<1>2. truth \in BOOLEAN /\ holds \in BOOLEAN
  BY DEF kzg_verify_batch
<1>3. holds <=> BlindingIsZero(par, seed) \/ \A i \in 1..n : Holds(items[i])
  BY DEF kzg_verify_batch, Holds
<1>4. truth <=> \A i \in 1..n : True(items[i])
  OBVIOUS
<1>7. /\ \A e \in asked.scalars : \E i \in 1..n : e \in Range(items[i].blob)
      /\ \A p \in asked.points : \E i \in 1..n : p \in {items[i].commitment, items[i].proof}
  BY <1>1, ZenonT(30)
<1>5. CASE ~Equal(lens)
  <2>1. call' = NotMade(LengthsMismatch, asked)
    BY <1>5 DEF verify_blob_kzg_proof_batch
  <2> HIDE DEF asked
  <2> QED
    BY <1>1, <1>5, <2>1, MismatchAnswers
<1>6. CASE Equal(lens)
  <2> DEFINE args == <<Slice(Len(items), 131072), Slice(Len(items), 48), Slice(Len(items), 48),
                       Value(Len(items)), scalar_bytes>>
             reach == <<Len(items), Len(items), Len(items), 0, 32>>
             status(decoded) == native_verify_batch(par, items, seed, decoded)
  <2>1. PICK decoded \in batch_statuses(par, items) :
          Invoke(o, par, "ctt_eth_kzg_verify_blob_kzg_proof_batch", args, reach, {},
                 status(decoded), Verified(status(decoded)), asked)
    BY <1>6 DEF verify_blob_kzg_proof_batch
  <2>2. status(decoded) = IF items = <<>> THEN kzgOk ELSE Judged(decoded, holds)
    BY DEF native_verify_batch, Judged
  <2> HIDE DEF asked, truth, holds, args, reach, status
  <2>3. \A i \in 1..n : Given(items[i], asked)
    BY <1>1 DEF Given
  <2>4. /\ decoded # kzgOk => decoded \in Faults(asked)
        /\ decoded = kzgOk => \A i \in 1..n : /\ "big" \notin Range(items[i].blob)
                                              /\ Accepted(items[i].commitment)
                                              /\ Accepted(items[i].proof)
    BY <2>3, BatchStatus
  <2>5. asked.shape \notin {"lengths", "order"}
    BY <1>1, <1>6
  <2>6. /\ \A i \in 1..n : /\ "big" \notin Range(items[i].blob)
                           /\ Accepted(items[i].commitment) /\ Accepted(items[i].proof)
        => Faults(asked) = {}
    <3>1. SUFFICES ASSUME \A i \in 1..n : /\ "big" \notin Range(items[i].blob)
                                          /\ Accepted(items[i].commitment)
                                          /\ Accepted(items[i].proof)
                   PROVE  Faults(asked) = {}
      OBVIOUS
    <3>2. "big" \notin asked.scalars
      BY <1>7, <3>1
    <3>3. \A p \in asked.points : Accepted(p)
      BY <1>7, <3>1
    <3> QED
      BY <2>5, <3>2, <3>3, FaultsOf
  <2>7. Consistent(decoded, asked)
    BY <2>4, <2>6 DEF Consistent
  <2>8. \A p \in asked.points : Encoding(p)
    BY <1>7 DEF ItemBytes, CommitmentBytes
  <2>9. Answered(Verified(status(decoded)), asked)
    <3>1. CASE items = <<>>
      <4>1. n = 0 /\ truth
        BY <1>4, <3>1
      <4>2. \A i \in 1..n : FALSE
        BY <4>1
      <4>3. asked.truth = TRUE
        BY <1>1, <1>2, <4>1
      <4>4. Faults(asked) = {}
        BY <2>6, <4>2
      <4>5. status(decoded) = kzgOk
        BY <2>2, <3>1
      <4> QED
        BY <4>3, <4>4, <4>5, Names, VerifyingAnswer
    <3>2. CASE items # <<>>
      <4>1. status(decoded) = Judged(decoded, holds)
        BY <2>2, <3>2
      <4>2. ASSUME Faults(asked) = {}, asked.shape # "unblinded"
            PROVE  asked.truth = holds
        <5>1. \A i \in 1..n : Holds(items[i]) <=> True(items[i])
          BY <2>4, <4>2, BlobTruth DEF ItemBytes, Holds, True
        <5>2. ~BlindingIsZero(par, seed)
          BY <1>1, <1>6, <3>2, <4>2
        <5>3. truth <=> holds
          BY <1>3, <1>4, <5>1, <5>2
        <5> QED
          BY <1>1, <1>2, <5>3
      <4>3. Answered(Verified(Judged(decoded, holds)), asked)
        BY <1>2, <2>7, <2>8, <4>2, JudgedAnswer
      <4> QED
        BY <4>1, <4>3
    <3> QED
      BY <3>1, <3>2
  <2> QED
    BY <1>1, <2>1, <2>5, <2>9, InvokeAnswers
<1> QED
  BY <1>5, <1>6

LEMMA ComputeCellsAnswers ==
  ASSUME NEW o, NEW n \in Nat, NEW blob \in [1..n -> Scalars],
         compute_cells_and_kzg_proofs(o, blob)
  PROVE  KzgAnswers' /\ OutputsWritten'
<1> DEFINE asked == Asked(o, FALSE, FALSE, Range(blob), {}, "", TRUE)
           total == constants.consts.CTT_CELLS_PER_EXT_BLOB
           args == <<cells_box, proofs_box, blob_bytes>>
           reach == <<total, total, 1>>
<1>1. PICK status \in blob_to_polynomial(FALSE, blob) :
        Serially(o, "ctt_eth_kzg_compute_cells_and_kzg_proofs", args, reach, {1, 2},
                 status, Computed(status), asked)
  BY DEF compute_cells_and_kzg_proofs
<1>2. status = BlobStatus(blob)
  BY BlobStatuses
<1>3. /\ asked.verify = FALSE /\ AskedOf(asked, o, FALSE) /\ asked.scalars = Range(blob)
      /\ asked.points = {} /\ asked.shape = ""
  BY DEF Asked, AskedOf
<1> HIDE DEF asked, args, reach
<1>4. Consistent(status, asked)
  BY <1>2, <1>3, FaultsOf, BlobFault DEF Consistent
<1> QED
  BY <1>1, <1>3, <1>4, SerialComputing

-----------------------------------------------------------------------------
(* Cells.                                                                    *)
CellBytes(item) ==
  /\ Encoding(item.commitment) /\ Encoding(item.proof) /\ item.cell.element \in Scalars
Coset(item) == kzg_coset_verify(item.commitment, item.index, item.cell, item.proof)

(* Every item is verified against its own commitment, though each commitment *)
(* is decoded once.                                                          *)
LEMMA Deduplicated ==
  ASSUME NEW n \in Nat, NEW items, DOMAIN items = 1..n
  PROVE  \A i \in 1..n :
           /\ deduplicateCommitments(items)[i] \in 1..n
           /\ items[deduplicateCommitments(items)[i]].commitment = items[i].commitment
<1> TAKE i \in 1..n
<1> DEFINE same == {j \in DOMAIN items : items[j].commitment = items[i].commitment}
<1>1. same \subseteq Nat /\ i \in same
  OBVIOUS
<1>2. Min(same) \in same
  BY <1>1, MinOf
<1>3. deduplicateCommitments(items)[i] = Min(same)
  BY DEF deduplicateCommitments
<1> QED
  BY <1>2, <1>3

LEMMA CellStatus ==
  ASSUME NEW n \in Nat, NEW items, DOMAIN items = 1..n, items # <<>>, InBounds(items),
         \A i \in 1..n : CellBytes(items[i])
  PROVE  \E decoded :
           /\ native_verify_cells(items) = Judged(decoded, \A i \in 1..n : Coset(items[i]))
           /\ \/ /\ decoded = kzgOk
                 /\ \A i \in 1..n : /\ Accepted(items[i].commitment) /\ Accepted(items[i].proof)
                                    /\ items[i].cell.element # "big"
              \/ /\ decoded # kzgOk
                 /\ \E i \in 1..n : \/ decoded = Scalar(items[i].cell.element)
                                    \/ decoded = Point(items[i].commitment)
                                    \/ decoded = Point(items[i].proof)
<1> DEFINE first == deduplicateCommitments(items)
           commitments == [i \in DOMAIN items |-> Point(items[first[i]].commitment)]
           elements == [i \in DOMAIN items |-> Scalar(items[i].cell.element)]
           proofs == [i \in DOMAIN items |-> Point(items[i].proof)]
           decoded == FirstError(kzgOk, commitments \o elements \o proofs)
           found == \A i \in DOMAIN items :
                      kzg_coset_verify(items[first[i]].commitment, items[i].index,
                                       items[i].cell, items[i].proof)
           holds == \A i \in 1..n : Coset(items[i])
<1>1. native_verify_cells(items) = IF decoded # kzgOk THEN decoded ELSE Verdict(found)
  BY DEF native_verify_cells
<1>2. \A i \in 1..n : /\ first[i] \in 1..n
                      /\ items[first[i]].commitment = items[i].commitment
  BY Deduplicated
<1> HIDE DEF first
<1>3. found <=> holds
  BY <1>2 DEF Coset
<1>4. native_verify_cells(items) = Judged(decoded, holds)
  <2> HIDE DEF found, holds, decoded
  <2> QED
    BY <1>1, <1>3 DEF Judged, Verdict
<1>5. \A i \in 1..n : /\ Point(items[i].commitment) \in KzgStatuses
                      /\ Point(items[i].proof) \in KzgStatuses
                      /\ Scalar(items[i].cell.element) \in KzgStatuses
  <2>1. \A p : Encoding(p) => Point(p) \in KzgStatuses
    BY PointStatus, Names
  <2>2. \A e \in Scalars : Scalar(e) \in KzgStatuses
    BY ScalarStatus, Names
  <2> QED
    BY <2>1, <2>2 DEF CellBytes
<1>6. /\ commitments \in Seq(KzgStatuses) /\ elements \in Seq(KzgStatuses)
      /\ proofs \in Seq(KzgStatuses)
  <2> HIDE DEF KzgStatuses
  <2>1. /\ commitments \in [1..n -> KzgStatuses] /\ elements \in [1..n -> KzgStatuses]
        /\ proofs \in [1..n -> KzgStatuses]
    BY <1>2, <1>5
  <2> QED
    BY <2>1
<1>7. /\ Range(commitments) = {Point(items[i].commitment) : i \in 1..n}
      /\ Range(elements) = {Scalar(items[i].cell.element) : i \in 1..n}
      /\ Range(proofs) = {Point(items[i].proof) : i \in 1..n}
  BY <1>2 DEF Range
<1> HIDE DEF commitments, elements, proofs, holds
<1>8. /\ DOMAIN (commitments \o elements \o proofs) \subseteq Nat
      /\ Range(commitments \o elements \o proofs)
           = Range(commitments) \union Range(elements) \union Range(proofs)
  <2>1. /\ commitments \o elements \in Seq(KzgStatuses)
        /\ Range(commitments \o elements) = Range(commitments) \union Range(elements)
    BY <1>6, ConcatRange
  <2> DEFINE two == commitments \o elements
  <2>2. two \in Seq(KzgStatuses)
    BY <2>1
  <2> HIDE DEF two
  <2>3. DOMAIN (two \o proofs) \subseteq Nat /\ Range(two \o proofs) = Range(two) \union Range(proofs)
    BY <1>6, <2>2, ConcatRange
  <2> QED
    BY <2>1, <2>3 DEF two
<1>9. \/ decoded = kzgOk /\ Range(commitments \o elements \o proofs) \subseteq {kzgOk}
      \/ decoded # kzgOk /\ decoded \in Range(commitments \o elements \o proofs)
  BY <1>8, FirstErrorRange
<1> HIDE DEF decoded
<1>10. CASE decoded = kzgOk
  <2>1. \A i \in 1..n : /\ Point(items[i].commitment) = kzgOk /\ Point(items[i].proof) = kzgOk
                        /\ Scalar(items[i].cell.element) = kzgOk
    BY <1>7, <1>8, <1>9, <1>10
  <2>2. \A i \in 1..n : /\ Accepted(items[i].commitment) /\ Accepted(items[i].proof)
                        /\ items[i].cell.element # "big"
    BY <2>1, PointStatus, ScalarStatus, Names DEF CellBytes
  <2> QED
    BY <1>4, <1>10, <2>2 DEF holds
<1>11. CASE decoded # kzgOk
  <2>1. \E i \in 1..n : \/ decoded = Scalar(items[i].cell.element)
                        \/ decoded = Point(items[i].commitment)
                        \/ decoded = Point(items[i].proof)
    BY <1>7, <1>8, <1>9, <1>11
  <2> QED
    BY <1>4, <1>11, <2>1 DEF holds
<1> QED
  BY <1>10, <1>11

LEMMA VerifyCellsAnswers ==
  ASSUME NEW o, NEW n \in Nat, NEW items, DOMAIN items = 1..n,
         \A i \in 1..n : CellBytes(items[i]), NEW lens,
         verify_cell_kzg_proof_batch(o, items, lens)
  PROVE  KzgAnswers' /\ OutputsWritten'
<1> DEFINE asked == asked_cells(o, items, lens)
           truth == \A i \in 1..n : Coset(items[i])
           status == native_verify_cells(items)
           args == <<Slice(Len(items), 48), Memory(Len(items), "u64"), Slice(Len(items), 2048),
                     Slice(Len(items), 48), Value(Len(items)), scalar_bytes>>
           reach == <<Len(items), Len(items), Len(items), Len(items), 0, 32>>
<1>1. /\ asked.verify = TRUE /\ AskedOf(asked, o, FALSE)
      /\ asked.scalars = {items[i].cell.element : i \in 1..n}
      /\ asked.points = UNION {{items[i].commitment, items[i].proof} : i \in 1..n}
      /\ asked.truth = truth
      /\ asked.shape = IF Equal(lens) /\ InBounds(items) THEN "" ELSE "lengths"
  BY DEF asked_cells, Asked, AskedOf, Coset
<1>2. /\ \A e \in asked.scalars : \E i \in 1..n : e = items[i].cell.element
      /\ \A p \in asked.points : \E i \in 1..n : p \in {items[i].commitment, items[i].proof}
  BY <1>1, Zenon
<1>3. \A i \in 1..n : /\ items[i].cell.element \in asked.scalars
                      /\ items[i].commitment \in asked.points /\ items[i].proof \in asked.points
  <2> TAKE i \in 1..n
  <2>1. items[i].cell.element \in {items[j].cell.element : j \in 1..n}
    OBVIOUS
  <2>2. {items[i].commitment, items[i].proof}
          \in {{items[j].commitment, items[j].proof} : j \in 1..n}
    BY Zenon
  <2> HIDE DEF asked
  <2> QED
    BY <1>1, <2>1, <2>2
<1>4. truth \in BOOLEAN
  OBVIOUS
<1>5. \A p \in asked.points : Encoding(p)
  BY <1>2 DEF CellBytes
<1>6. CASE ~Equal(lens)
  <2>1. call' = NotMade(LengthsMismatch, asked)
    BY <1>6 DEF verify_cell_kzg_proof_batch
  <2> HIDE DEF asked
  <2> QED
    BY <1>1, <1>6, <2>1, MismatchAnswers
<1>7. CASE Equal(lens)
  <2>1. Serially(o, "ctt_eth_kzg_verify_cell_kzg_proof_batch", args, reach, {},
                 status, Verified(status), asked)
    BY <1>7 DEF verify_cell_kzg_proof_batch
  <2>2. CASE items = <<>>
    <3>1. status = kzgOk
      BY <2>2 DEF native_verify_cells
    <3>2. \A i \in 1..n : FALSE
      BY <2>2
    <3>3. InBounds(items) /\ truth
      BY <3>2 DEF InBounds
    <3> HIDE DEF asked, truth, status, args, reach
    <3>4. asked.truth = TRUE /\ asked.shape = ""
      BY <1>1, <1>4, <1>7, <3>3
    <3>5. Faults(asked) = {}
      BY <1>2, <3>2, <3>4, FaultsOf
    <3>6. Answered(Verified(status), asked)
      BY <3>1, <3>4, <3>5, Names, VerifyingAnswer
    <3> QED
      BY <1>1, <2>1, <3>6, SerialAnswers
  <2>3. CASE items # <<>> /\ ~InBounds(items)
    <3>1. status = "cttEthKzg_InputsLengthsMismatch"
      BY <2>3 DEF native_verify_cells
    <3> HIDE DEF asked, truth, status, args, reach
    <3>2. status \in KzgStatuses /\ status \notin {kzgOk, Failure}
      BY <3>1 DEF KzgStatuses, kzgOk, Failure
    <3>3. status \in Faults(asked)
      BY <1>1, <2>3, <3>1, FaultsOf
    <3>4. Answered(Verified(status), asked)
      BY <3>2, <3>3, VerifyingAnswer
    <3> QED
      BY <1>1, <2>1, <3>4, SerialAnswers
  <2>4. CASE items # <<>> /\ InBounds(items)
    <3>1. PICK decoded :
            /\ status = Judged(decoded, truth)
            /\ \/ /\ decoded = kzgOk
                  /\ \A i \in 1..n : /\ Accepted(items[i].commitment) /\ Accepted(items[i].proof)
                                     /\ items[i].cell.element # "big"
               \/ /\ decoded # kzgOk
                  /\ \E i \in 1..n : \/ decoded = Scalar(items[i].cell.element)
                                     \/ decoded = Point(items[i].commitment)
                                     \/ decoded = Point(items[i].proof)
      BY <2>4, CellStatus
    <3> HIDE DEF asked, truth, status, args, reach
    <3>2. asked.shape = ""
      BY <1>1, <1>7, <2>4
    <3>3. ASSUME decoded = kzgOk
          PROVE  Consistent(decoded, asked)
      <4>1. "big" \notin asked.scalars /\ \A p \in asked.points : Accepted(p)
        BY <1>2, <3>1, <3>3
      <4>2. Faults(asked) = {}
        BY <3>2, <4>1, FaultsOf
      <4> QED
        BY <3>3, <4>2 DEF Consistent
    <3>4. ASSUME decoded # kzgOk
          PROVE  Consistent(decoded, asked)
      <4>1. PICK i \in 1..n : \/ decoded = Scalar(items[i].cell.element)
                              \/ decoded = Point(items[i].commitment)
                              \/ decoded = Point(items[i].proof)
        BY <3>1, <3>4
      <4>2. CellBytes(items[i])
        OBVIOUS
      <4>3. decoded \in Faults(asked)
        BY <1>3, <3>4, <4>1, <4>2, ScalarFault, PointFault DEF CellBytes
      <4> QED
        BY <3>4, <4>3 DEF Consistent
    <3>5. Consistent(decoded, asked)
      BY <3>3, <3>4
    <3>6. Answered(Verified(Judged(decoded, truth)), asked)
      BY <1>1, <1>4, <1>5, <3>5, JudgedAnswer
    <3> QED
      BY <1>1, <2>1, <3>1, <3>6, SerialAnswers
  <2> QED
    BY <2>2, <2>3, <2>4
<1> QED
  BY <1>6, <1>7

LEMMA CellsTotal == constants.consts.CTT_CELLS_PER_EXT_BLOB = 128
BY DEF constants, Include, Constants64, Constants32, B64!consts, B32!consts

LEMMA RecoverAnswers ==
  ASSUME NEW o, NEW in, in.n \in Nat, in.bounded \in BOOLEAN, in.ascending \in BOOLEAN,
         in.element \in Scalars, NEW lens, recover_cells_and_kzg_proofs(o, in, lens)
  PROVE  KzgAnswers' /\ OutputsWritten'
<1> DEFINE total == constants.consts.CTT_CELLS_PER_EXT_BLOB
           asked == asked_recover(o, in, lens)
           status == native_recover(in)
           args == <<cells_box, proofs_box, Memory(in.n, "u64"), Slice(in.n, 2048), Value(in.n)>>
           reach == <<total, total, in.n, in.n, 0>>
<1>1. /\ asked.verify = FALSE /\ AskedOf(asked, o, FALSE)
      /\ asked.scalars = {in.element} /\ asked.points = {}
      /\ asked.shape = IF ~Equal(lens) \/ in.n \notin 64..128 \/ ~in.bounded THEN "lengths"
                       ELSE IF ~in.ascending THEN "order" ELSE ""
  BY DEF asked_recover, Asked, AskedOf
<1>2. CASE ~Equal(lens)
  <2>1. call' = NotMade(LengthsMismatch, asked)
    BY <1>2 DEF recover_cells_and_kzg_proofs
  <2> HIDE DEF asked
  <2> QED
    BY <1>1, <1>2, <2>1, MismatchAnswers
<1>3. CASE Equal(lens)
  <2>1. Serially(o, "ctt_eth_kzg_recover_cells_and_kzg_proofs", args, reach, {1, 2},
                 status, Computed(status), asked)
    BY <1>3 DEF recover_cells_and_kzg_proofs
  <2>2. /\ in.n \notin 64..128 \/ ~in.bounded => status = "cttEthKzg_InputsLengthsMismatch"
        /\ in.n \in 64..128 /\ in.bounded /\ ~in.ascending
             => status = "cttEthKzg_CellIndicesNotAscending"
        /\ in.n \in 64..128 /\ in.bounded /\ in.ascending => status = Scalar(in.element)
    BY CellsTotal DEF native_recover
  <2> HIDE DEF asked, status, args, reach
  <2>3. ASSUME in.n \notin 64..128 \/ ~in.bounded
        PROVE  Consistent(status, asked)
    <3>1. asked.shape = "lengths" /\ status = "cttEthKzg_InputsLengthsMismatch"
      BY <1>1, <2>2, <2>3
    <3> QED
      BY <3>1, FaultsOf DEF Consistent, kzgOk
  <2>4. ASSUME in.n \in 64..128 /\ in.bounded /\ ~in.ascending
        PROVE  Consistent(status, asked)
    <3>1. asked.shape = "order" /\ status = "cttEthKzg_CellIndicesNotAscending"
      BY <1>1, <1>3, <2>2, <2>4
    <3> QED
      BY <3>1, FaultsOf DEF Consistent, kzgOk
  <2>5. ASSUME in.n \in 64..128 /\ in.bounded /\ in.ascending
        PROVE  Consistent(status, asked)
    <3>1. asked.shape = "" /\ status = Scalar(in.element)
      BY <1>1, <1>3, <2>2, <2>5
    <3>2. in.element \in asked.scalars
      BY <1>1
    <3>3. status # kzgOk => status \in Faults(asked)
      BY <3>1, <3>2, ScalarFault
    <3>4. status = kzgOk => Faults(asked) = {}
      BY <1>1, <3>1, <3>2, ScalarFault, FaultsOf
    <3> QED
      BY <3>3, <3>4 DEF Consistent
  <2>6. Consistent(status, asked)
    BY <2>3, <2>4, <2>5
  <2> QED
    BY <1>1, <2>1, <2>6, SerialComputing
<1> QED
  BY <1>2, <1>3

-----------------------------------------------------------------------------
(* The inputs are of the kinds that the lemmas above are about.              *)
LEMMA BlobInputs ==
  /\ \A blob \in Blobs : blob \in [1..2 -> Scalars]
  /\ zeroPoly \in Blobs
  /\ zeroPoly \in Polynomials /\ mixedPoly \in Polynomials
BY DEF Blobs, Scalars, zeroPoly, mixedPoly, Polynomials

LEMMA PointInputs ==
  /\ \A poly \in Polynomials : CommitmentBytes(kzg_commit(poly))
  /\ \A poly, z : Encoding(kzg_prove(poly, z))
  /\ \A s \in EccStatuses : Encoding(Malformed(s))
  /\ \A of : Encoding(Encoded(of))
  /\ \A c \in Commitments : CommitmentBytes(c)
  /\ \A p \in Proofs : Encoding(p)
<1>1. \A of : Encoding(Encoded(of))
  BY DEF Encoded, Encoding, EccStatuses
<1>2. \A s \in EccStatuses : Encoding(Malformed(s)) /\ Malformed(s).codec = s
  BY DEF Malformed, Encoding
<1>3. \A poly : Encoding(kzg_commit(poly))
  BY <1>1 DEF kzg_commit
<1>4. \A poly, z : Encoding(kzg_prove(poly, z))
  BY <1>1 DEF kzg_prove
<1>5. \A poly \in Polynomials : CommitmentBytes(kzg_commit(poly))
  BY <1>3 DEF CommitmentBytes
<1>6. \A s \in EccStatuses \ {"cttCodecEcc_Success", "cttCodecEcc_PointAtInfinity"} :
        CommitmentBytes(Malformed(s))
  BY <1>2 DEF CommitmentBytes, Accepted
<1>7. {"cttCodecEcc_InvalidEncoding", "cttCodecEcc_CoordinateGreaterThanOrEqualModulus",
       "cttCodecEcc_PointNotOnCurve", "cttCodecEcc_PointNotInSubgroup"}
        \subseteq EccStatuses \ {"cttCodecEcc_Success", "cttCodecEcc_PointAtInfinity"}
  BY DEF EccStatuses
<1>8. \A c \in Commitments : CommitmentBytes(c)
  BY <1>5, <1>6, <1>7, BlobInputs DEF Commitments
<1>9. \A p \in Proofs : Encoding(p)
  BY <1>2, <1>4, <1>7 DEF Proofs
<1> QED
  BY <1>1, <1>2, <1>4, <1>5, <1>8, <1>9

LEMMA ItemInputs ==
  /\ \A item \in BatchItems : ItemBytes(item)
  /\ \A item \in CellItems : CellBytes(item)
<1>1. {"cttCodecEcc_InvalidEncoding", "cttCodecEcc_PointNotOnCurve",
       "cttCodecEcc_PointNotInSubgroup"} \subseteq EccStatuses
  BY DEF EccStatuses
<1>2. ASSUME NEW blob \in [1..2 -> Scalars], NEW c, CommitmentBytes(c), NEW p, Encoding(p)
      PROVE  ItemBytes(Item(blob, c, p))
  BY <1>2 DEF ItemBytes, Item
<1>3. ASSUME NEW c, Encoding(c), NEW i, NEW e \in Scalars, NEW at, NEW p, Encoding(p)
      PROVE  CellBytes(CellItem(c, i, e, at, p))
  BY <1>3 DEF CellBytes, CellItem
<1>4. /\ zeroPoly \in [1..2 -> Scalars] /\ mixedPoly \in [1..2 -> Scalars]
      /\ <<"zero", "big">> \in [1..2 -> Scalars]
  BY DEF Scalars, zeroPoly, mixedPoly
<1>5. CommitmentBytes(Malformed("cttCodecEcc_InvalidEncoding"))
  BY PointInputs DEF Commitments
<1>6. \A item \in BatchItems : ItemBytes(item)
  BY <1>1, <1>2, <1>4, <1>5, PointInputs, BlobInputs DEF BatchItems
<1>7. Encoding(kzg_commit(zeroPoly)) /\ Encoding(kzg_commit(mixedPoly))
  BY PointInputs, BlobInputs DEF CommitmentBytes
<1>8. "zero" \in Scalars /\ "one" \in Scalars /\ "big" \in Scalars
  BY DEF Scalars
<1>9. \A item \in CellItems : CellBytes(item)
  BY <1>1, <1>3, <1>7, <1>8, PointInputs DEF CellItems
<1> QED
  BY <1>6, <1>9

LEMMA ListInputs ==
  ASSUME NEW S, NEW list \in Sequences(S, MaxItems)
  PROVE  \E n \in Nat : DOMAIN list = 1..n /\ \A i \in 1..n : list[i] \in S
<1>1. PICK n \in 0..MaxItems : list \in [1..n -> S]
  BY DEF Sequences
<1> QED
  BY <1>1, MaxItemsAssumption

LEMMA KzgCallAnswers ==
  ASSUME NEW o, KzgCall(o)
  PROVE  KzgAnswers' /\ OutputsWritten'
<1>1. CASE \E par \in BOOLEAN, blob \in Blobs : blob_to_kzg_commitment(o, par, blob)
  BY <1>1, BlobInputs, CommitmentAnswers
<1>2. CASE \E par \in BOOLEAN, blob \in Blobs, z \in Scalars : compute_kzg_proof(o, par, blob, z)
  BY <1>2, BlobInputs, ComputeProofAnswers
<1>3. CASE \E c \in Commitments, z, y \in Scalars, p \in Proofs : verify_kzg_proof(o, c, z, y, p)
  BY <1>3, PointInputs, VerifyProofAnswers DEF CommitmentBytes
<1>4. CASE \E par \in BOOLEAN, blob \in Blobs, c \in Commitments :
             compute_blob_kzg_proof(o, par, blob, c)
  BY <1>4, BlobInputs, PointInputs, ComputeBlobProofAnswers DEF CommitmentBytes
<1>5. CASE \E par \in BOOLEAN, blob \in Blobs, c \in Commitments, p \in Proofs :
             verify_blob_kzg_proof(o, par, blob, c, p)
  BY <1>5, BlobInputs, PointInputs, VerifyBlobProofAnswers
<1>6. CASE \E par \in BOOLEAN, items \in Sequences(BatchItems, MaxItems), seed \in Seeds :
             \E lens \in Lengths(Len(items), 3) :
               verify_blob_kzg_proof_batch(o, par, items, lens, seed)
  <2>1. PICK par \in BOOLEAN, items \in Sequences(BatchItems, MaxItems), seed \in Seeds :
             \E lens \in Lengths(Len(items), 3) :
               verify_blob_kzg_proof_batch(o, par, items, lens, seed)
    BY <1>6
  <2>2. PICK n \in Nat : DOMAIN items = 1..n /\ \A i \in 1..n : items[i] \in BatchItems
    BY ListInputs
  <2>3. \A i \in 1..n : ItemBytes(items[i])
    BY <2>2, ItemInputs
  <2> QED
    BY <2>1, <2>2, <2>3, VerifyBatchAnswers
<1>7. CASE \E blob \in Blobs : compute_cells_and_kzg_proofs(o, blob)
  BY <1>7, BlobInputs, ComputeCellsAnswers
<1>8. CASE \E items \in Sequences(CellItems, MaxItems) :
             \E lens \in Lengths(Len(items), 4) : verify_cell_kzg_proof_batch(o, items, lens)
  <2>1. PICK items \in Sequences(CellItems, MaxItems) : \E lens \in Lengths(Len(items), 4) :
          verify_cell_kzg_proof_batch(o, items, lens)
    BY <1>8
  <2>2. PICK n \in Nat : DOMAIN items = 1..n /\ \A i \in 1..n : items[i] \in CellItems
    BY ListInputs
  <2>3. \A i \in 1..n : CellBytes(items[i])
    BY <2>2, ItemInputs
  <2> QED
    BY <2>1, <2>2, <2>3, VerifyCellsAnswers
<1>9. CASE \E in \in Recoveries : \E lens \in Lengths(in.n, 2) :
             recover_cells_and_kzg_proofs(o, in, lens)
  <2>1. \A in \in Recoveries : /\ in.n \in Nat /\ in.bounded \in BOOLEAN
                               /\ in.ascending \in BOOLEAN /\ in.element \in Scalars
    BY DEF Recoveries
  <2> QED
    BY <1>9, <2>1, RecoverAnswers
<1> QED
  BY <1>1, <1>2, <1>3, <1>4, <1>5, <1>6, <1>7, <1>8, <1>9 DEF KzgCall

LEMMA SampleAnswers ==
  ASSUME NEW o, Sample(o)
  PROVE  KzgAnswers' /\ OutputsWritten'
BY BlobInputs, CommitmentAnswers DEF Sample

-----------------------------------------------------------------------------
(* The other crates.                                                         *)
LEMMA EccRead == \A s \in EccStatuses : EccIn(s) = s
BY EccTable DEF EccIn
LEMMA ScalarRead == \A s \in ScalarStatuses : ScalarIn(s) = s
BY ScalarTable DEF ScalarIn
LEMMA BlsRead == \A s \in BlsStatuses : BlsIn(s) = s
BY BlsTable DEF BlsIn
LEMMA EvmRead == \A s \in EvmStatuses : EvmIn(s) = s
BY EvmTable DEF EvmIn

LEMMA EncodingStatus ==
  ASSUME NEW src \in Encodings
  PROVE  /\ deserialize_compressed_unchecked(src) \in EccStatuses
         /\ deserialize_compressed(src) \in EccStatuses
         /\ deserialize_compressed_unchecked(src) =
              IF ~src.compressed \/ (src.infinity /\ (src.largest \/ src.x # "zero"))
              THEN "cttCodecEcc_InvalidEncoding"
              ELSE IF src.infinity THEN "cttCodecEcc_PointAtInfinity"
              ELSE IF src.x = "big" THEN "cttCodecEcc_CoordinateGreaterThanOrEqualModulus"
              ELSE IF src.x = "off" THEN "cttCodecEcc_PointNotOnCurve"
              ELSE "cttCodecEcc_Success"
         /\ deserialize_compressed(src) =
              IF /\ deserialize_compressed_unchecked(src) = "cttCodecEcc_Success"
                 /\ src.x # "in"
              THEN "cttCodecEcc_PointNotInSubgroup"
              ELSE deserialize_compressed_unchecked(src)
<1>1. src.compressed \in BOOLEAN /\ src.infinity \in BOOLEAN /\ src.largest \in BOOLEAN
  BY DEF Encodings
<1>2. deserialize_compressed_unchecked(src) =
              IF ~src.compressed \/ (src.infinity /\ (src.largest \/ src.x # "zero"))
              THEN "cttCodecEcc_InvalidEncoding"
              ELSE IF src.infinity THEN "cttCodecEcc_PointAtInfinity"
              ELSE IF src.x = "big" THEN "cttCodecEcc_CoordinateGreaterThanOrEqualModulus"
              ELSE IF src.x = "off" THEN "cttCodecEcc_PointNotOnCurve"
              ELSE "cttCodecEcc_Success"
  <2>1. decode_x(src.x) = IF src.x = "big" THEN "cttCodecEcc_CoordinateGreaterThanOrEqualModulus"
                          ELSE IF src.x = "off" THEN "cttCodecEcc_PointNotOnCurve"
                          ELSE "cttCodecEcc_Success"
    BY DEF decode_x
  <2> QED
    BY <1>1, <2>1 DEF deserialize_compressed_unchecked
<1>3. deserialize_compressed_unchecked(src) = "cttCodecEcc_Success"
        => (isInSubgroup(Decoded(src)) <=> src.x = "in")
  BY <1>1, <1>2 DEF isInSubgroup, Decoded
<1>4. deserialize_compressed(src) =
              IF /\ deserialize_compressed_unchecked(src) = "cttCodecEcc_Success"
                 /\ src.x # "in"
              THEN "cttCodecEcc_PointNotInSubgroup"
              ELSE deserialize_compressed_unchecked(src)
  BY <1>3 DEF deserialize_compressed
<1>5. deserialize_compressed_unchecked(src) \in EccStatuses
  BY <1>2 DEF EccStatuses
<1>6. deserialize_compressed(src) \in EccStatuses
  BY <1>4, <1>5 DEF EccStatuses
<1> QED
  BY <1>2, <1>4, <1>5, <1>6

(* What a call of the crate leaves, by the fields of the call.               *)
Recorded(ret, op, x) ==
  /\ call'.given.crate = "bls" /\ call'.given.op = op /\ call'.given.x = x
  /\ call'.ret = ret
BlsOps == {"checked", "unchecked", "validate", "verify", "batch", "aggregate", "fast_aggregate"}
BlsRight == OutputsWritten' /\ CodecsCanonical' /\ SignaturesAgree'

LEMMA BlsRecorded ==
  ASSUME NEW fn, NEW args, NEW reach, NEW filled, NEW out, NEW ret, NEW op, NEW x,
         call' = Call(fn, args, reach, filled, out, ret, Bls(op, x)), out \subseteq filled
  PROVE  Recorded(ret, op, x) /\ OutputsWritten'
BY DEF Call, Bls, Recorded, OutputsWritten

LEMMA BlsOther ==
  ASSUME NEW ret, NEW op, NEW x, Recorded(ret, op, x), op \notin BlsOps, OutputsWritten'
  PROVE  BlsRight
BY DEF Recorded, BlsOps, BlsRight, CodecsCanonical, SignaturesAgree

(* A list of the argument that the library fills and of those the wrapper    *)
(* hands out, in the functions that always succeed.                          *)
LEMMA AlwaysFilled ==
  ASSUME NEW fn, NEW args, NEW reach, NEW ret, NEW op, NEW x, op \notin BlsOps,
         Producing(fn, args, reach, TRUE, ret, Bls(op, x))
  PROVE  call'.given.crate = "bls" /\ BlsRight
<1> DEFINE out == IF ret.tag = "Ok" THEN {1} ELSE {}
<1>1. call' = Call(fn, args, reach, {1}, out, ret, Bls(op, x)) /\ out \subseteq {1}
  BY DEF Producing
<1> HIDE DEF out
<1>2. Recorded(ret, op, x) /\ OutputsWritten'
  BY <1>1, BlsRecorded
<1> QED
  BY <1>2, BlsOther DEF Recorded

LEMMA NothingFilled ==
  ASSUME NEW fn, NEW args, NEW reach, NEW ret, NEW op, NEW x,
         Deciding(fn, args, reach, ret, Bls(op, x))
  PROVE  Recorded(ret, op, x) /\ OutputsWritten'
<1>1. call' = Call(fn, args, reach, {}, {}, ret, Bls(op, x))
  BY DEF Deciding
<1> QED
  BY <1>1, BlsRecorded

LEMMA PlainBlsCalls ==
  /\ \A len : sha256_hash(len) => call'.given.crate = "bls" /\ BlsRight
  /\ \A sk : derive_pubkey(sk) => call'.given.crate = "bls" /\ BlsRight
  /\ \A a, b : pubkeys_are_equal(a, b) => call'.given.crate = "bls" /\ BlsRight
  /\ \A a, b : signatures_are_equal(a, b) => call'.given.crate = "bls" /\ BlsRight
  /\ \A e : validate_seckey(e) => call'.given.crate = "bls" /\ BlsRight
  /\ \A e : deserialize_seckey(e) => call'.given.crate = "bls" /\ BlsRight
  /\ \A e : serialize_seckey(e) => call'.given.crate = "bls" /\ BlsRight
  /\ \A p : serialize_pubkey_compressed(p) => call'.given.crate = "bls" /\ BlsRight
  /\ \A p : serialize_signature_compressed(p) => call'.given.crate = "bls" /\ BlsRight
  /\ \A sk, m : sign(sk, m) => call'.given.crate = "bls" /\ BlsRight
<1>1. {"hash", "derive", "equal", "seckey", "serialize", "sign"} \cap BlsOps = {}
  BY DEF BlsOps
<1>2. \A len : sha256_hash(len) => call'.given.crate = "bls" /\ BlsRight
  BY <1>1, AlwaysFilled DEF sha256_hash
<1>3. \A sk : derive_pubkey(sk) => call'.given.crate = "bls" /\ BlsRight
  BY <1>1, AlwaysFilled DEF derive_pubkey
<1>4. \A a, b : pubkeys_are_equal(a, b) => call'.given.crate = "bls" /\ BlsRight
  BY <1>1, NothingFilled, BlsOther DEF pubkeys_are_equal, Recorded
<1>5. \A a, b : signatures_are_equal(a, b) => call'.given.crate = "bls" /\ BlsRight
  BY <1>1, NothingFilled, BlsOther DEF signatures_are_equal, Recorded
<1>6. \A e : validate_seckey(e) => call'.given.crate = "bls" /\ BlsRight
  BY <1>1, NothingFilled, BlsOther DEF validate_seckey, Recorded
<1>7. \A e : deserialize_seckey(e) => call'.given.crate = "bls" /\ BlsRight
  BY <1>1, AlwaysFilled DEF deserialize_seckey
<1>8. \A e : serialize_seckey(e) => call'.given.crate = "bls" /\ BlsRight
  BY <1>1, AlwaysFilled DEF serialize_seckey
<1>9. \A p : serialize_pubkey_compressed(p) => call'.given.crate = "bls" /\ BlsRight
  BY <1>1, AlwaysFilled DEF serialize_pubkey_compressed
<1>10. \A p : serialize_signature_compressed(p) => call'.given.crate = "bls" /\ BlsRight
  BY <1>1, AlwaysFilled DEF serialize_signature_compressed
<1>11. \A sk, m : sign(sk, m) => call'.given.crate = "bls" /\ BlsRight
  BY <1>1, AlwaysFilled DEF sign
<1> QED
  BY <1>2, <1>3, <1>4, <1>5, <1>6, <1>7, <1>8, <1>9, <1>10, <1>11

(* The codec: the bytes that decode are those the serializer writes, and     *)
(* decoding gives the point they were written from.                          *)
AcceptedStatus(status) == status \in {"cttCodecEcc_Success", "cttCodecEcc_PointAtInfinity"}

LEMMA PointFields ==
  /\ \A p \in CurvePoints : /\ p.neutral \in BOOLEAN /\ p.largest \in BOOLEAN
                            /\ p = [neutral |-> p.neutral, x |-> p.x, largest |-> p.largest]
                            /\ p.neutral => p = Neutral
                            /\ ~p.neutral => p.x \in {"zero", "in"}
  /\ \A x \in {"zero", "in"}, l \in BOOLEAN : [neutral |-> FALSE, x |-> x, largest |-> l] \in CurvePoints
  /\ Neutral \in CurvePoints
<1> DEFINE others == [neutral : {FALSE}, x : {"zero", "in"}, largest : BOOLEAN]
<1>1. \A p : p \in CurvePoints <=> p = Neutral \/ p \in others
  BY DEF CurvePoints
<1>2. /\ Neutral.neutral = TRUE /\ Neutral.largest = FALSE /\ Neutral.x = "zero"
      /\ Neutral = [neutral |-> TRUE, x |-> "zero", largest |-> FALSE]
  BY DEF Neutral
<1>3. \A p \in others : p.neutral = FALSE /\ p.largest \in BOOLEAN /\ p.x \in {"zero", "in"}
  OBVIOUS
<1>4. ASSUME NEW p \in others
      PROVE  p = [neutral |-> p.neutral, x |-> p.x, largest |-> p.largest]
  <2>1. p \in [neutral : BOOLEAN, x : {"zero", "in"}, largest : BOOLEAN]
    OBVIOUS
  <2> QED
    BY <2>1
<1>5. \A x \in {"zero", "in"}, l \in BOOLEAN :
        [neutral |-> FALSE, x |-> x, largest |-> l] \in others
  OBVIOUS
<1> HIDE DEF others
<1>6. ASSUME NEW p \in CurvePoints
      PROVE  /\ p.neutral \in BOOLEAN /\ p.largest \in BOOLEAN
             /\ p = [neutral |-> p.neutral, x |-> p.x, largest |-> p.largest]
             /\ p.neutral => p = Neutral
             /\ ~p.neutral => p.x \in {"zero", "in"}
  <2>1. CASE p = Neutral
    BY <1>2, <2>1
  <2>2. CASE p \in others
    BY <1>3, <1>4, <2>2
  <2> QED
    BY <1>1, <2>1, <2>2
<1>7. /\ \A x \in {"zero", "in"}, l \in BOOLEAN :
           [neutral |-> FALSE, x |-> x, largest |-> l] \in CurvePoints
      /\ Neutral \in CurvePoints
  BY <1>1, <1>5
<1> QED
  BY <1>6, <1>7

LEMMA CodecInverse ==
  ASSUME NEW src \in Encodings
  PROVE  /\ AcceptedStatus(deserialize_compressed_unchecked(src)) =>
              /\ Decoded(src) \in CurvePoints
              /\ serialize_compressed(Decoded(src)) = src
         /\ \A p \in CurvePoints : serialize_compressed(p) = src =>
              /\ p = Decoded(src)
              /\ AcceptedStatus(deserialize_compressed_unchecked(src))
<1> DEFINE status == deserialize_compressed_unchecked(src)
<1>1. /\ src.compressed \in BOOLEAN /\ src.infinity \in BOOLEAN /\ src.largest \in BOOLEAN
      /\ src.x \in {"zero", "in", "off", "big"}
      /\ src = [compressed |-> src.compressed, infinity |-> src.infinity,
                largest |-> src.largest, x |-> src.x]
  BY DEF Encodings
<1>2. status = IF ~src.compressed \/ (src.infinity /\ (src.largest \/ src.x # "zero"))
              THEN "cttCodecEcc_InvalidEncoding"
              ELSE IF src.infinity THEN "cttCodecEcc_PointAtInfinity"
              ELSE IF src.x = "big" THEN "cttCodecEcc_CoordinateGreaterThanOrEqualModulus"
              ELSE IF src.x = "off" THEN "cttCodecEcc_PointNotOnCurve"
              ELSE "cttCodecEcc_Success"
  BY EncodingStatus
<1> HIDE DEF status
<1>3. AcceptedStatus(status) <=> /\ src.compressed
                                 /\ src.infinity => ~src.largest /\ src.x = "zero"
                                 /\ ~src.infinity => src.x \in {"zero", "in"}
  BY <1>1, <1>2 DEF AcceptedStatus
<1>4. ASSUME AcceptedStatus(status)
      PROVE  Decoded(src) \in CurvePoints /\ serialize_compressed(Decoded(src)) = src
  <2>1. CASE src.infinity
    BY <1>1, <1>3, <1>4, <2>1, PointFields DEF Decoded, serialize_compressed, Neutral
  <2>2. CASE ~src.infinity
    <3>1. Decoded(src) = [neutral |-> FALSE, x |-> src.x, largest |-> src.largest]
      BY <2>2 DEF Decoded
    <3>2. Decoded(src) \in CurvePoints
      BY <1>1, <1>3, <1>4, <2>2, <3>1, PointFields
    <3>3. serialize_compressed(Decoded(src))
            = [compressed |-> TRUE, infinity |-> FALSE, largest |-> src.largest, x |-> src.x]
      BY <3>1 DEF serialize_compressed
    <3> QED
      BY <1>1, <1>3, <1>4, <2>2, <3>2, <3>3
  <2> QED
    BY <2>1, <2>2
<1>5. ASSUME NEW p \in CurvePoints, serialize_compressed(p) = src
      PROVE  p = Decoded(src) /\ AcceptedStatus(status)
  <2>1. /\ src.compressed = TRUE /\ src.infinity = p.neutral
        /\ src.largest = p.largest /\ src.x = p.x
    BY <1>5 DEF serialize_compressed
  <2>2. CASE p.neutral
    <3>1. p = Neutral /\ src.infinity
      BY <2>1, <2>2, PointFields
    <3>2. ~src.largest /\ src.x = "zero"
      BY <2>1, <3>1 DEF Neutral
    <3> QED
      BY <1>3, <2>1, <3>1, <3>2 DEF Decoded
  <2>3. CASE ~p.neutral
    <3>1. ~src.infinity /\ src.x \in {"zero", "in"} /\ p.neutral = FALSE
      BY <2>1, <2>3, PointFields
    <3>2. p = [neutral |-> FALSE, x |-> src.x, largest |-> src.largest]
      BY <2>1, <3>1, PointFields
    <3> QED
      BY <1>3, <2>1, <3>1, <3>2 DEF Decoded
  <2> QED
    BY <2>2, <2>3
<1> QED
  BY <1>4, <1>5 DEF status

LEMMA PointDecoded ==
  ASSUME NEW src \in Encodings, NEW status, NEW op, op \in {"checked", "unchecked"},
         status = IF op = "checked" THEN deserialize_compressed(src)
                  ELSE deserialize_compressed_unchecked(src),
         Recorded(DecodedResult(status, Decoded(src)), op, src), OutputsWritten'
  PROVE  BlsRight
<1> DEFINE points == {p \in CurvePoints : /\ serialize_compressed(p) = src
                                          /\ op = "checked" => isInSubgroup(p)}
           ret == DecodedResult(status, Decoded(src))
           free == deserialize_compressed_unchecked(src)
<1>1. status \in EccStatuses /\ EccIn(status) = status
  BY EncodingStatus, EccRead
<1>2. IF AcceptedStatus(status) THEN ret.tag = "Ok" /\ ret.v = Decoded(src) ELSE ret.tag # "Ok"
  BY <1>1 DEF DecodedResult, AcceptedStatus, Ok, Err
<1>3. AcceptedStatus(status) <=> /\ AcceptedStatus(free)
                                 /\ op = "checked" => isInSubgroup(Decoded(src))
  <2>1. CASE op = "unchecked"
    BY <2>1
  <2>2. CASE op = "checked"
    <3>1. free = "cttCodecEcc_PointAtInfinity" => isInSubgroup(Decoded(src))
      <4>1. free = "cttCodecEcc_PointAtInfinity" => src.infinity
        BY EncodingStatus
      <4> QED
        BY <4>1 DEF isInSubgroup, Decoded, Neutral
    <3>2. status = IF free # "cttCodecEcc_Success" THEN free
                   ELSE IF isInSubgroup(Decoded(src)) THEN free ELSE "cttCodecEcc_PointNotInSubgroup"
      BY <2>2 DEF deserialize_compressed
    <3> QED
      BY <2>2, <3>1, <3>2 DEF AcceptedStatus
  <2> QED
    BY <2>1, <2>2
<1>4. /\ AcceptedStatus(free) => Decoded(src) \in CurvePoints /\ serialize_compressed(Decoded(src)) = src
      /\ \A p \in CurvePoints : serialize_compressed(p) = src => p = Decoded(src) /\ AcceptedStatus(free)
  BY CodecInverse
<1>5. IF ret.tag = "Ok" THEN points = {ret.v} ELSE points = {}
  <2> HIDE DEF ret, free
  <2>1. CASE AcceptedStatus(status)
    BY <1>2, <1>3, <1>4, <2>1
  <2>2. CASE ~AcceptedStatus(status)
    BY <1>2, <1>3, <1>4, <2>2
  <2> QED
    BY <2>1, <2>2, <1>2
<1>6. call'.given.x = src /\ call'.given.op = op /\ call'.ret = ret
  BY DEF Recorded
<1>7. CodecsCanonical'
  <2> HIDE DEF ret
  <2>1. IF call'.ret.tag = "Ok"
        THEN {p \in CurvePoints : /\ serialize_compressed(p) = call'.given.x
                                  /\ call'.given.op = "checked" => isInSubgroup(p)} = {call'.ret.v}
        ELSE {p \in CurvePoints : /\ serialize_compressed(p) = call'.given.x
                                  /\ call'.given.op = "checked" => isInSubgroup(p)} = {}
    BY <1>5, <1>6
  <2> QED
    BY <1>6, <2>1 DEF CodecsCanonical
<1>8. SignaturesAgree'
  BY <1>6 DEF SignaturesAgree
<1> QED
  BY <1>7, <1>8 DEF BlsRight

LEMMA DecoderCalls ==
  ASSUME NEW src \in Encodings
  PROVE  /\ deserialize_pubkey_compressed_unchecked(src) => call'.given.crate = "bls" /\ BlsRight
         /\ deserialize_signature_compressed_unchecked(src) => call'.given.crate = "bls" /\ BlsRight
         /\ deserialize_pubkey_compressed(src) => call'.given.crate = "bls" /\ BlsRight
         /\ deserialize_signature_compressed(src) => call'.given.crate = "bls" /\ BlsRight
<1>1. ASSUME NEW fn, NEW args, NEW reach, NEW status, NEW op, op \in {"checked", "unchecked"},
             status = IF op = "checked" THEN deserialize_compressed(src)
                      ELSE deserialize_compressed_unchecked(src),
             Producing(fn, args, reach, SetsPoint(status),
                       DecodedResult(status, Decoded(src)), Bls(op, src))
      PROVE  call'.given.crate = "bls" /\ BlsRight
  <2> DEFINE ret == DecodedResult(status, Decoded(src))
             filled == IF SetsPoint(status) THEN {1} ELSE {}
             out == IF ret.tag = "Ok" THEN {1} ELSE {}
  <2>1. EccIn(status) = status
    BY <1>1, EncodingStatus, EccRead
  <2>2. ret.tag = "Ok" => SetsPoint(status)
    BY <2>1 DEF DecodedResult, SetsPoint, Ok, Err
  <2>3. call' = Call(fn, args, reach, filled, out, ret, Bls(op, src)) /\ out \subseteq filled
    BY <1>1, <2>2 DEF Producing
  <2> HIDE DEF filled, out, ret
  <2>4. Recorded(ret, op, src) /\ OutputsWritten'
    BY <2>3, BlsRecorded
  <2>5. Recorded(DecodedResult(status, Decoded(src)), op, src)
    BY <2>4 DEF ret
  <2>6. BlsRight
    BY <1>1, <2>4, <2>5, PointDecoded
  <2> QED
    BY <2>4, <2>6 DEF Recorded
<1>2. deserialize_pubkey_compressed_unchecked(src) => call'.given.crate = "bls" /\ BlsRight
  BY <1>1 DEF deserialize_pubkey_compressed_unchecked
<1>3. deserialize_signature_compressed_unchecked(src) => call'.given.crate = "bls" /\ BlsRight
  BY <1>1 DEF deserialize_signature_compressed_unchecked
<1>4. deserialize_pubkey_compressed(src) => call'.given.crate = "bls" /\ BlsRight
  BY <1>1 DEF deserialize_pubkey_compressed
<1>5. deserialize_signature_compressed(src) => call'.given.crate = "bls" /\ BlsRight
  BY <1>1 DEF deserialize_signature_compressed
<1> QED
  BY <1>2, <1>3, <1>4, <1>5

LEMMA ValidationCalls ==
  ASSUME NEW p \in RawPoints
  PROVE  /\ validate_pubkey(p) => call'.given.crate = "bls" /\ BlsRight
         /\ validate_signature(p) => call'.given.crate = "bls" /\ BlsRight
<1> DEFINE ret == EccResult(validate_point(p), "")
<1>1. /\ p.neutral \in BOOLEAN
      /\ ~p.neutral => (isOnCurve(p) <=> p.x \in {"zero", "in"})
      /\ ~p.neutral => (isInSubgroup(p) <=> p.x = "in")
  <2>1. CASE p \in CurvePoints
    BY <2>1, PointFields DEF isOnCurve, isInSubgroup
  <2>2. CASE p \notin CurvePoints
    <3>1. p \in [neutral : {FALSE}, x : {"off"}, largest : BOOLEAN]
      BY <2>2 DEF RawPoints
    <3>2. p.neutral = FALSE /\ p.x = "off"
      BY <3>1
    <3> QED
      BY <2>2, <3>2 DEF isOnCurve, isInSubgroup
  <2> QED
    BY <2>1, <2>2
<1>2. /\ p.neutral => validate_point(p) = "cttCodecEcc_PointAtInfinity"
      /\ ~p.neutral /\ ~isOnCurve(p) => validate_point(p) = "cttCodecEcc_PointNotOnCurve"
      /\ ~p.neutral /\ isOnCurve(p) /\ isInSubgroup(p) => validate_point(p) = "cttCodecEcc_Success"
      /\ ~p.neutral /\ isOnCurve(p) /\ ~isInSubgroup(p)
           => validate_point(p) = "cttCodecEcc_PointNotInSubgroup"
  BY <1>1, Zenon DEF validate_point
<1>3. validate_point(p) \in EccStatuses
  BY <1>1, <1>2 DEF EccStatuses
<1>4. ret.tag = "Ok" <=> p.x = "in" /\ ~p.neutral
  <2>1. ret.tag = "Ok" <=> validate_point(p) = "cttCodecEcc_Success"
    BY <1>3, EccRead DEF EccResult, Ok, Err
  <2> QED
    BY <1>1, <1>2, <2>1
<1> HIDE DEF ret
<1>5. ASSUME Recorded(ret, "validate", p), OutputsWritten'
      PROVE  call'.given.crate = "bls" /\ BlsRight
  <2>1. CodecsCanonical'
    BY <1>4, <1>5 DEF Recorded, CodecsCanonical
  <2>2. SignaturesAgree'
    BY <1>5 DEF Recorded, SignaturesAgree
  <2> QED
    BY <1>5, <2>1, <2>2 DEF Recorded, BlsRight
<1>6. validate_pubkey(p) => call'.given.crate = "bls" /\ BlsRight
  BY <1>5, NothingFilled DEF validate_pubkey, ret
<1>7. validate_signature(p) => call'.given.crate = "bls" /\ BlsRight
  BY <1>5, NothingFilled DEF validate_signature, ret
<1> QED
  BY <1>6, <1>7

-----------------------------------------------------------------------------
(* Verification of signatures.                                               *)
Agreed(x, accepted) ==
  accepted <=> /\ x.pks # <<>>
               /\ \A i \in DOMAIN x.pks : native_verify(x.pks[i], x.ms[i], x.sigs[i]) = blsOk
Honest(x) == sum([i \in DOMAIN x.pks |-> coreSign(x.pks[i], x.ms[i])])
Aggregated(x, accepted) ==
  /\ accepted <=> /\ x.pks # <<>> /\ ~HasNeutral(x.pks)
                  /\ x.sigs[1] = Honest(x) /\ Honest(x) # 0
  /\ x.pks # <<>> /\ (\A i \in DOMAIN x.ms : x.ms[i] = x.ms[1]) =>
       (native_fast_aggregate_verify(x.pks, x.ms[1], x.sigs[1])
          = native_aggregate_verify(x.pks, x.ms, x.sigs[1]))

LEMMA VerificationRight ==
  ASSUME NEW ret, NEW op, NEW x, Recorded(ret, op, x), OutputsWritten', op \in BlsOps,
         op \notin {"checked", "unchecked", "validate"},
         op \in {"verify", "batch"} /\ Alike(op, x) => Agreed(x, ret.tag = "Ok"),
         op \in {"aggregate", "fast_aggregate"} /\ Alike(op, x) => Aggregated(x, ret.tag = "Ok")
  PROVE  BlsRight
<1>1. CodecsCanonical'
  BY DEF Recorded, CodecsCanonical
<1>2. call'.given.op = op /\ call'.given.x = x /\ call'.ret = ret
  BY DEF Recorded
<1>3. CASE op \in {"verify", "batch"}
  <2>1. Alike(op, x) => ((call'.ret.tag = "Ok") <=>
          /\ call'.given.x.pks # <<>>
          /\ \A i \in DOMAIN call'.given.x.pks :
               native_verify(call'.given.x.pks[i], call'.given.x.ms[i], call'.given.x.sigs[i]) = blsOk)
    BY <1>2, <1>3 DEF Agreed
  <2>2. SignaturesAgree'
    BY <1>2, <1>3, <2>1 DEF SignaturesAgree
  <2> QED
    BY <1>1, <2>2 DEF BlsRight
<1>4. CASE op \in {"aggregate", "fast_aggregate"}
  <2>1. SignaturesAgree'
    BY <1>2, <1>4 DEF SignaturesAgree, Aggregated, Honest
  <2> QED
    BY <1>1, <2>1 DEF BlsRight
<1> QED
  BY <1>3, <1>4 DEF BlsOps

LEMMA Accepting ==
  \A s \in BlsStatuses : VerifyResult(s).tag = "Ok" <=> s = blsOk
BY BlsRead DEF VerifyResult, Ok, Err

LEMMA NativeStatuses ==
  /\ \A pk, m, sig : native_verify(pk, m, sig)
       = IF pk = 0 \/ sig = 0 THEN "cttEthBls_PointAtInfinity"
         ELSE BlsVerdict(coreVerify(pk, m, sig))
  /\ \A pks, m, sig : native_fast_aggregate_verify(pks, m, sig)
       = IF pks = <<>> THEN "cttEthBls_ZeroLengthAggregation"
         ELSE IF sig = 0 \/ HasNeutral(pks) THEN "cttEthBls_PointAtInfinity"
         ELSE BlsVerdict(fastAggregateVerify(pks, m, sig))
  /\ \A pks, ms, sig : native_aggregate_verify(pks, ms, sig)
       = IF pks = <<>> THEN "cttEthBls_ZeroLengthAggregation"
         ELSE IF sig = 0 \/ HasNeutral(pks) THEN "cttEthBls_PointAtInfinity"
         ELSE BlsVerdict(aggregateVerify(pks, ms, sig))
  /\ \A pks, ms, sigs : native_batch_verify(pks, ms, sigs)
       = IF pks = <<>> THEN "cttEthBls_ZeroLengthAggregation"
         ELSE IF HasNeutral(pks) \/ HasNeutral(sigs) THEN "cttEthBls_PointAtInfinity"
         ELSE BlsVerdict(batchVerify(pks, ms, sigs))
<1>1. \A pks : HasNeutral(pks) \in BOOLEAN
  BY DEF HasNeutral
<1>2. \A pk, m, sig : native_verify(pk, m, sig)
       = IF pk = 0 \/ sig = 0 THEN "cttEthBls_PointAtInfinity"
         ELSE BlsVerdict(coreVerify(pk, m, sig))
  BY DEF native_verify
<1>3. \A pks, m, sig : native_fast_aggregate_verify(pks, m, sig)
       = IF pks = <<>> THEN "cttEthBls_ZeroLengthAggregation"
         ELSE IF sig = 0 \/ HasNeutral(pks) THEN "cttEthBls_PointAtInfinity"
         ELSE BlsVerdict(fastAggregateVerify(pks, m, sig))
  BY <1>1, Zenon DEF native_fast_aggregate_verify
<1>4. \A pks, ms, sig : native_aggregate_verify(pks, ms, sig)
       = IF pks = <<>> THEN "cttEthBls_ZeroLengthAggregation"
         ELSE IF sig = 0 \/ HasNeutral(pks) THEN "cttEthBls_PointAtInfinity"
         ELSE BlsVerdict(aggregateVerify(pks, ms, sig))
  BY <1>1, Zenon DEF native_aggregate_verify
<1>5. \A pks, ms, sigs : native_batch_verify(pks, ms, sigs)
       = IF pks = <<>> THEN "cttEthBls_ZeroLengthAggregation"
         ELSE IF HasNeutral(pks) \/ HasNeutral(sigs) THEN "cttEthBls_PointAtInfinity"
         ELSE BlsVerdict(batchVerify(pks, ms, sigs))
  BY <1>1, Zenon DEF native_batch_verify
<1> QED
  BY <1>2, <1>3, <1>4, <1>5

(* A native function accepts exactly when the wrapper does.                  *)
LEMMA NativeAccepts ==
  /\ \A pk, m, sig : VerifyResult(native_verify(pk, m, sig)).tag = "Ok"
                       <=> native_verify(pk, m, sig) = blsOk
  /\ \A pk, m, sig : native_verify(pk, m, sig) = blsOk
                       <=> pk # 0 /\ sig # 0 /\ coreVerify(pk, m, sig)
  /\ \A pks, m, sig : VerifyResult(native_fast_aggregate_verify(pks, m, sig)).tag = "Ok"
                        <=> /\ pks # <<>> /\ sig # 0 /\ ~HasNeutral(pks)
                            /\ fastAggregateVerify(pks, m, sig)
  /\ \A pks, ms, sig : VerifyResult(native_aggregate_verify(pks, ms, sig)).tag = "Ok"
                         <=> /\ pks # <<>> /\ sig # 0 /\ ~HasNeutral(pks)
                             /\ aggregateVerify(pks, ms, sig)
  /\ \A pks, ms, sigs : VerifyResult(native_batch_verify(pks, ms, sigs)).tag = "Ok"
                          <=> /\ pks # <<>> /\ ~HasNeutral(sigs) /\ ~HasNeutral(pks)
                              /\ batchVerify(pks, ms, sigs)
<1>1. /\ {"cttEthBls_PointAtInfinity", "cttEthBls_ZeroLengthAggregation",
          "cttEthBls_VerificationFailure"} \subseteq BlsStatuses
      /\ blsOk \in BlsStatuses
      /\ blsOk \notin {"cttEthBls_PointAtInfinity", "cttEthBls_ZeroLengthAggregation",
                       "cttEthBls_VerificationFailure"}
  BY DEF BlsStatuses, blsOk
<1>2. \A holds \in BOOLEAN : BlsVerdict(holds) = IF holds THEN blsOk ELSE "cttEthBls_VerificationFailure"
  BY DEF BlsVerdict
<1>3. /\ \A pk, m, sig : coreVerify(pk, m, sig) \in BOOLEAN
      /\ \A pks, m, sig : fastAggregateVerify(pks, m, sig) \in BOOLEAN
      /\ \A pks, ms, sig : aggregateVerify(pks, ms, sig) \in BOOLEAN
      /\ \A pks, ms, sigs : batchVerify(pks, ms, sigs) \in BOOLEAN
  BY DEF coreVerify, fastAggregateVerify, aggregateVerify, batchVerify
<1>4. \A pk, m, sig : /\ VerifyResult(native_verify(pk, m, sig)).tag = "Ok"
                             <=> native_verify(pk, m, sig) = blsOk
                      /\ native_verify(pk, m, sig) = blsOk
                             <=> pk # 0 /\ sig # 0 /\ coreVerify(pk, m, sig)
  <2> TAKE pk, m, sig
  <2> DEFINE s == native_verify(pk, m, sig)
  <2>1. s = IF pk = 0 \/ sig = 0 THEN "cttEthBls_PointAtInfinity"
            ELSE IF coreVerify(pk, m, sig) THEN blsOk ELSE "cttEthBls_VerificationFailure"
    BY <1>2, <1>3, NativeStatuses
  <2> HIDE DEF s
  <2>2. s \in BlsStatuses
    BY <1>1, <2>1
  <2>3. VerifyResult(s).tag = "Ok" <=> s = blsOk
    BY <2>2, Accepting
  <2>4. s = blsOk <=> pk # 0 /\ sig # 0 /\ coreVerify(pk, m, sig)
    BY <1>1, <2>1
  <2> QED
    BY <2>3, <2>4 DEF s
<1>5. \A pks, m, sig : VerifyResult(native_fast_aggregate_verify(pks, m, sig)).tag = "Ok"
                        <=> /\ pks # <<>> /\ sig # 0 /\ ~HasNeutral(pks)
                            /\ fastAggregateVerify(pks, m, sig)
  <2> TAKE pks, m, sig
  <2> DEFINE s == native_fast_aggregate_verify(pks, m, sig)
  <2>1. s = IF pks = <<>> THEN "cttEthBls_ZeroLengthAggregation"
            ELSE IF sig = 0 \/ HasNeutral(pks) THEN "cttEthBls_PointAtInfinity"
            ELSE IF fastAggregateVerify(pks, m, sig) THEN blsOk ELSE "cttEthBls_VerificationFailure"
    BY <1>2, <1>3, NativeStatuses
  <2> HIDE DEF s
  <2>2. s \in BlsStatuses
    BY <1>1, <2>1
  <2> QED
    BY <1>1, <2>1, <2>2, Accepting DEF s
<1>6. \A pks, ms, sig : VerifyResult(native_aggregate_verify(pks, ms, sig)).tag = "Ok"
                         <=> /\ pks # <<>> /\ sig # 0 /\ ~HasNeutral(pks)
                             /\ aggregateVerify(pks, ms, sig)
  <2> TAKE pks, ms, sig
  <2> DEFINE s == native_aggregate_verify(pks, ms, sig)
  <2>1. s = IF pks = <<>> THEN "cttEthBls_ZeroLengthAggregation"
            ELSE IF sig = 0 \/ HasNeutral(pks) THEN "cttEthBls_PointAtInfinity"
            ELSE IF aggregateVerify(pks, ms, sig) THEN blsOk ELSE "cttEthBls_VerificationFailure"
    BY <1>2, <1>3, NativeStatuses
  <2> HIDE DEF s
  <2>2. s \in BlsStatuses
    BY <1>1, <2>1
  <2> QED
    BY <1>1, <2>1, <2>2, Accepting DEF s
<1>7. \A pks, ms, sigs : VerifyResult(native_batch_verify(pks, ms, sigs)).tag = "Ok"
                          <=> /\ pks # <<>> /\ ~HasNeutral(sigs) /\ ~HasNeutral(pks)
                              /\ batchVerify(pks, ms, sigs)
  <2> TAKE pks, ms, sigs
  <2> DEFINE s == native_batch_verify(pks, ms, sigs)
  <2>1. s = IF pks = <<>> THEN "cttEthBls_ZeroLengthAggregation"
            ELSE IF HasNeutral(pks) \/ HasNeutral(sigs) THEN "cttEthBls_PointAtInfinity"
            ELSE IF batchVerify(pks, ms, sigs) THEN blsOk ELSE "cttEthBls_VerificationFailure"
    BY <1>2, <1>3, NativeStatuses
  <2> HIDE DEF s
  <2>2. s \in BlsStatuses
    BY <1>1, <2>1
  <2> QED
    BY <1>1, <2>1, <2>2, Accepting DEF s
<1>8. /\ \A pk, m, sig : VerifyResult(native_verify(pk, m, sig)).tag = "Ok"
                           <=> native_verify(pk, m, sig) = blsOk
      /\ \A pk, m, sig : native_verify(pk, m, sig) = blsOk
                           <=> pk # 0 /\ sig # 0 /\ coreVerify(pk, m, sig)
  BY <1>4
<1> QED
  BY <1>5, <1>6, <1>7, <1>8

LEMMA VerifyCall ==
  ASSUME NEW pk, NEW m, NEW sig, verify(pk, m, sig)
  PROVE  call'.given.crate = "bls" /\ BlsRight
<1> DEFINE x == [pks |-> <<pk>>, ms |-> <<m>>, sigs |-> <<sig>>]
           ret == VerifyResult(native_verify(pk, m, sig))
<1>1. Recorded(ret, "verify", x) /\ OutputsWritten'
  BY NothingFilled DEF verify
<1>2. ret.tag = "Ok" <=> native_verify(pk, m, sig) = blsOk
  BY NativeAccepts
<1>3. /\ x.pks # <<>> /\ DOMAIN x.pks = {1}
      /\ x.pks[1] = pk /\ x.ms[1] = m /\ x.sigs[1] = sig
  OBVIOUS
<1> HIDE DEF x, ret
<1>4. Agreed(x, ret.tag = "Ok")
  BY <1>2, <1>3 DEF Agreed
<1>5. BlsRight
  BY <1>1, <1>4, VerificationRight DEF BlsOps
<1> QED
  BY <1>1, <1>5 DEF Recorded

(* A list that has the length of the others is read as it is.                *)
LEMMA ReadWhole ==
  ASSUME NEW n \in Nat, NEW S, NEW list \in [1..n -> S]
  PROVE  Read(list, n, S) = {list}
<1>1. list \in Read(list, n, S)
  BY DEF Read
<1>2. ASSUME NEW s \in Read(list, n, S)
      PROVE  s = list
  <2>1. s \in [1..n -> S] /\ \A i \in 1..n : s[i] = list[i]
    BY DEF Read
  <2> QED
    BY <2>1
<1> QED
  BY <1>1, <1>2

LEMMA ListsKnown ==
  \A S : \A list \in Lists(S) :
    \E n \in Nat : list \in [1..n -> S] /\ Len(list) = n /\ DOMAIN list = 1..n
<1> TAKE S
<1> TAKE list \in Lists(S)
<1>1. PICK n \in 0..MaxItems : list \in [1..n -> S]
  BY DEF Lists
<1>2. n \in Nat
  BY MaxItemsAssumption
<1>3. list \in Seq(S) /\ Len(list) = n
  BY <1>1, <1>2
<1> QED
  BY <1>1, <1>2, <1>3

(* Lists with one domain have one length.                                    *)
LEMMA OneLength ==
  ASSUME NEW n \in Nat, NEW k \in Nat, 1..n = 1..k
  PROVE  n = k
<1>1. n <= k
  <2>1. n \in 1..n \/ n = 0
    BY SMT
  <2> QED
    BY <2>1, SMT
<1>2. k <= n
  <2>1. k \in 1..k \/ k = 0
    BY SMT
  <2> QED
    BY <2>1, SMT
<1> QED
  BY <1>1, <1>2, SMT

(* A batch: an answer on lists of one length is that on the lists.           *)
LEMMA BatchRight ==
  ASSUME NEW pks \in Lists(Group), NEW sigs \in Lists(Group), NEW ms \in Lists(BlsMessages),
         NEW status \in batch_answers(pks, ms, sigs),
         Recorded(VerifyResult(status), "batch", [pks |-> pks, ms |-> ms, sigs |-> sigs]),
         OutputsWritten'
  PROVE  BlsRight
<1> DEFINE x == [pks |-> pks, ms |-> ms, sigs |-> sigs]
           ret == VerifyResult(status)
<1>1. x.pks = pks /\ x.ms = ms /\ x.sigs = sigs
  OBVIOUS
<1>2. Recorded(ret, "batch", x)
  OBVIOUS
<1> HIDE DEF x, ret
<1>3. ASSUME Alike("batch", x)
      PROVE  Agreed(x, ret.tag = "Ok")
  <2>1. PICK n \in Nat : pks \in [1..n -> Group] /\ Len(pks) = n /\ DOMAIN pks = 1..n
    BY ListsKnown
  <2>2. PICK k \in Nat : ms \in [1..k -> BlsMessages] /\ Len(ms) = k /\ DOMAIN ms = 1..k
    BY ListsKnown
  <2>3. PICK j \in Nat : sigs \in [1..j -> Group] /\ Len(sigs) = j /\ DOMAIN sigs = 1..j
    BY ListsKnown
  <2>4. k = n /\ j = n
    BY <1>1, <1>3, <2>1, <2>2, <2>3, OneLength DEF Alike
  <2>5. Read(pks, Len(ms), Group) = {pks} /\ Read(sigs, Len(ms), Group) = {sigs}
    BY <2>1, <2>2, <2>3, <2>4, ReadWhole
  <2>6. status = native_batch_verify(pks, ms, sigs)
    BY <2>5 DEF batch_answers
  <2>7. ret.tag = "Ok" <=> /\ pks # <<>> /\ ~HasNeutral(sigs) /\ ~HasNeutral(pks)
                           /\ batchVerify(pks, ms, sigs)
    BY <2>6, NativeAccepts DEF ret
  <2>8. /\ HasNeutral(pks) <=> \E i \in 1..n : pks[i] = 0
        /\ HasNeutral(sigs) <=> \E i \in 1..n : sigs[i] = 0
        /\ batchVerify(pks, ms, sigs) <=> \A i \in 1..n : coreVerify(pks[i], ms[i], sigs[i])
    BY <2>1, <2>3, <2>4 DEF HasNeutral, batchVerify
  <2>9. \A i \in 1..n : native_verify(pks[i], ms[i], sigs[i]) = blsOk
                          <=> pks[i] # 0 /\ sigs[i] # 0 /\ coreVerify(pks[i], ms[i], sigs[i])
    BY NativeAccepts
  <2>10. ret.tag = "Ok" <=> pks # <<>> /\ \A i \in 1..n : native_verify(pks[i], ms[i], sigs[i]) = blsOk
    BY <2>7, <2>8, <2>9
  <2> QED
    BY <1>1, <2>1, <2>10 DEF Agreed
<1> QED
  BY <1>2, <1>3, VerificationRight DEF BlsOps

LEMMA HashedMessages ==
  \A m \in BlsMessages : hashToCurve(m) \in Int
BY OrderAssumption DEF hashToCurve

LEMMA OrderPositive == Order \in Nat \ {0} /\ Group \subseteq Int
BY OrderAssumption DEF Group

(* The signatures of one message add up to the signature of the sum.         *)
LEMMA SumOfSignatures ==
  ASSUME NEW n \in Nat, NEW pks \in [1..n -> Group], NEW m \in BlsMessages
  PROVE  coreSign(sum(pks), m) = sum([i \in 1..n |-> coreSign(pks[i], m)])
<1> DEFINE h == hashToCurve(m)
           scaled == [i \in 1..n |-> coreSign(pks[i], m)]
<1>1. h \in Int /\ Order \in Nat \ {0}
  BY HashedMessages, OrderPositive
<1>2. \A i \in 1..n : pks[i] \in Int
  BY OrderPositive
<1>3. pks \in [1..n -> Int]
  BY <1>2
<1> HIDE DEF h
<1>4. Scaled(n, scaled, pks, h, Order)
  BY DEF coreSign, h, Scaled
<1>5. scaled \in [1..n -> Int]
  <2>1. ASSUME NEW i \in 1..n
        PROVE  coreSign(pks[i], m) \in Int
    <3> DEFINE a == pks[i] * h
    <3>1. a \in Int
      BY <1>1, <1>2
    <3>2. coreSign(pks[i], m) = a % Order
      BY DEF coreSign, h
    <3> HIDE DEF a
    <3>3. a % Order \in Int
      BY <1>1, <3>1, Divided, SMT
    <3> QED
      BY <3>2, <3>3
  <2> QED
    BY <2>1
<1> HIDE DEF scaled
<1>6. (SumOf(pks, Order) * h) % Order = SumOf(scaled, Order)
  BY <1>1, <1>3, <1>4, <1>5, SumTimes
<1> QED
  BY <1>6 DEF coreSign, sum, h, scaled

LEMMA SumOfNothing ==
  ASSUME NEW m \in BlsMessages
  PROVE  coreSign(0, m) = 0
<1>1. 0 * hashToCurve(m) = 0 /\ 0 % Order = 0
  BY HashedMessages, OrderPositive, SMT
<1> QED
  BY <1>1 DEF coreSign

(* Aggregates of one message.                                                *)
LEMMA OneMessage ==
  ASSUME NEW n \in Nat, NEW pks \in [1..n -> Group], NEW ms \in [1..n -> BlsMessages],
         NEW m \in BlsMessages, \A i \in 1..n : ms[i] = m, NEW sig
  PROVE  /\ sum([i \in DOMAIN pks |-> coreSign(pks[i], ms[i])]) = coreSign(sum(pks), m)
         /\ aggregateVerify(pks, ms, sig) <=> coreSign(sum(pks), m) = sig
         /\ sig # 0 => (fastAggregateVerify(pks, m, sig) <=> aggregateVerify(pks, ms, sig))
<1>1. [i \in DOMAIN pks |-> coreSign(pks[i], ms[i])] = [i \in 1..n |-> coreSign(pks[i], m)]
  OBVIOUS
<1>2. sum([i \in DOMAIN pks |-> coreSign(pks[i], ms[i])]) = coreSign(sum(pks), m)
  BY <1>1, SumOfSignatures
<1>3. aggregateVerify(pks, ms, sig) <=> sum([i \in DOMAIN pks |-> coreSign(pks[i], ms[i])]) = sig
  BY DEF aggregateVerify, coreSign
<1>4. fastAggregateVerify(pks, m, sig) <=> sum(pks) # 0 /\ coreSign(sum(pks), m) = sig
  BY DEF fastAggregateVerify, coreVerify, coreSign
<1>5. coreSign(0, m) = 0
  BY SumOfNothing
<1> QED
  BY <1>2, <1>3, <1>4, <1>5

LEMMA AggregateAgrees ==
  ASSUME NEW n \in Nat, NEW pks \in [1..n -> Group], NEW ms \in [1..n -> BlsMessages], NEW sig
  PROVE  Aggregated([pks |-> pks, ms |-> ms, sigs |-> <<sig>>],
                    VerifyResult(native_aggregate_verify(pks, ms, sig)).tag = "Ok")
<1> DEFINE x == [pks |-> pks, ms |-> ms, sigs |-> <<sig>>]
           ret == VerifyResult(native_aggregate_verify(pks, ms, sig))
           honest == sum([i \in DOMAIN pks |-> coreSign(pks[i], ms[i])])
<1>2. ret.tag = "Ok" <=> pks # <<>> /\ sig # 0 /\ ~HasNeutral(pks) /\ aggregateVerify(pks, ms, sig)
  BY NativeAccepts
<1>3. aggregateVerify(pks, ms, sig) <=> honest = sig
  BY DEF aggregateVerify, coreSign
<1>4. x.pks = pks /\ x.ms = ms /\ x.sigs[1] = sig /\ Honest(x) = honest /\ DOMAIN ms = 1..n
  BY DEF Honest
<1> HIDE DEF x, ret, honest
<1>5. ASSUME pks # <<>>, \A i \in DOMAIN ms : ms[i] = ms[1]
      PROVE  native_fast_aggregate_verify(pks, ms[1], sig) = native_aggregate_verify(pks, ms, sig)
  <2> DEFINE m == ms[1]
  <2>1. n # 0
    BY <1>5
  <2>2. m \in BlsMessages /\ \A i \in 1..n : ms[i] = m
    BY <1>4, <1>5, <2>1
  <2> HIDE DEF m
  <2>3. sig # 0 => (fastAggregateVerify(pks, m, sig) <=> aggregateVerify(pks, ms, sig))
    BY <2>2, OneMessage
  <2>4. sig # 0 => BlsVerdict(fastAggregateVerify(pks, m, sig)) = BlsVerdict(aggregateVerify(pks, ms, sig))
    BY <2>3 DEF BlsVerdict
  <2>5. native_fast_aggregate_verify(pks, m, sig) = native_aggregate_verify(pks, ms, sig)
    BY <2>4, NativeStatuses
  <2> QED
    BY <2>5 DEF m
<1>6. ret.tag = "Ok" <=> pks # <<>> /\ ~HasNeutral(pks) /\ sig = honest /\ honest # 0
  BY <1>2, <1>3
<1>7. Aggregated(x, ret.tag = "Ok")
  BY <1>4, <1>5, <1>6 DEF Aggregated
<1> QED
  BY <1>7 DEF x, ret

LEMMA AggregateCall ==
  ASSUME NEW pks \in Lists(Group), NEW ms \in Lists(BlsMessages), NEW sig,
         aggregate_verify(pks, ms, sig)
  PROVE  call'.given.crate = "bls" /\ BlsRight
<1> DEFINE x == [pks |-> pks, ms |-> ms, sigs |-> <<sig>>]
<1>1. PICK read \in Read(ms, Len(pks), BlsMessages) :
        Recorded(VerifyResult(native_aggregate_verify(pks, read, sig)), "aggregate", x)
          /\ OutputsWritten'
  BY NothingFilled DEF aggregate_verify
<1> DEFINE ret == VerifyResult(native_aggregate_verify(pks, read, sig))
<1>2. x.pks = pks /\ x.ms = ms
  OBVIOUS
<1>3. ASSUME Alike("aggregate", x)
      PROVE  Aggregated(x, ret.tag = "Ok")
  <2>1. PICK n \in Nat : pks \in [1..n -> Group] /\ Len(pks) = n /\ DOMAIN pks = 1..n
    BY ListsKnown
  <2>2. PICK k \in Nat : ms \in [1..k -> BlsMessages] /\ Len(ms) = k /\ DOMAIN ms = 1..k
    BY ListsKnown
  <2>3. k = n
    BY <1>2, <1>3, <2>1, <2>2, OneLength DEF Alike
  <2>4. Read(ms, Len(pks), BlsMessages) = {ms}
    BY <2>1, <2>2, <2>3, ReadWhole
  <2>5. read = ms
    BY <2>4
  <2> QED
    BY <2>1, <2>2, <2>3, <2>5, AggregateAgrees
<1>4. Recorded(ret, "aggregate", x) /\ OutputsWritten'
  BY <1>1
<1> HIDE DEF x, ret
<1>5. BlsRight
  BY <1>3, <1>4, VerificationRight DEF BlsOps
<1> QED
  BY <1>4, <1>5 DEF Recorded

LEMMA FastAggregateCall ==
  ASSUME NEW n \in Nat, NEW pks \in [1..n -> Group], NEW m \in BlsMessages, NEW sig,
         fast_aggregate_verify(pks, m, sig)
  PROVE  call'.given.crate = "bls" /\ BlsRight
<1> DEFINE ms == [i \in DOMAIN pks |-> m]
           x == [pks |-> pks, ms |-> ms, sigs |-> <<sig>>]
           ret == VerifyResult(native_fast_aggregate_verify(pks, m, sig))
           honest == sum([i \in DOMAIN pks |-> coreSign(pks[i], ms[i])])
<1>1. Recorded(ret, "fast_aggregate", x) /\ OutputsWritten'
  BY NothingFilled DEF fast_aggregate_verify
<1>2. ret.tag = "Ok" <=> pks # <<>> /\ sig # 0 /\ ~HasNeutral(pks) /\ fastAggregateVerify(pks, m, sig)
  BY NativeAccepts
<1>3. x.pks = pks /\ x.ms = ms /\ x.sigs[1] = sig /\ Honest(x) = honest
  BY DEF Honest
<1>4. ms \in [1..n -> BlsMessages] /\ \A i \in 1..n : ms[i] = m
  OBVIOUS
<1> HIDE DEF ms
<1>5. /\ honest = coreSign(sum(pks), m)
      /\ aggregateVerify(pks, ms, sig) <=> coreSign(sum(pks), m) = sig
      /\ sig # 0 => (fastAggregateVerify(pks, m, sig) <=> aggregateVerify(pks, ms, sig))
  BY <1>4, OneMessage
<1> HIDE DEF x, ret, honest
<1>6. sig # 0 => BlsVerdict(fastAggregateVerify(pks, m, sig)) = BlsVerdict(aggregateVerify(pks, ms, sig))
  BY <1>5 DEF BlsVerdict
<1>7. native_fast_aggregate_verify(pks, m, sig) = native_aggregate_verify(pks, ms, sig)
  BY <1>6, NativeStatuses
<1>8. pks # <<>> => ms[1] = m
  <2>1. pks # <<>> => n # 0
    OBVIOUS
  <2> QED
    BY <1>4, <2>1
<1>9. ret.tag = "Ok" <=> pks # <<>> /\ ~HasNeutral(pks) /\ sig = honest /\ honest # 0
  BY <1>2, <1>5
<1>10. Aggregated(x, ret.tag = "Ok")
  BY <1>3, <1>7, <1>8, <1>9 DEF Aggregated
<1>11. BlsRight
  BY <1>1, <1>10, VerificationRight DEF BlsOps
<1> QED
  BY <1>1, <1>11 DEF Recorded

LEMMA BatchCalls ==
  ASSUME NEW pks \in Lists(Group), NEW sigs \in Lists(Group), NEW ms \in Lists(BlsMessages),
         batch_verify(pks, ms, sigs) \/ \E p : batch_verify_parallel(p, pks, ms, sigs)
  PROVE  call'.given.crate = "bls" /\ BlsRight
<1> DEFINE x == [pks |-> pks, ms |-> ms, sigs |-> sigs]
<1>1. PICK status \in batch_answers(pks, ms, sigs) :
        Recorded(VerifyResult(status), "batch", x) /\ OutputsWritten'
  <2>1. CASE batch_verify(pks, ms, sigs)
    BY <2>1, NothingFilled DEF batch_verify
  <2>2. CASE \E p : batch_verify_parallel(p, pks, ms, sigs)
    BY <2>2, NothingFilled DEF batch_verify_parallel
  <2> QED
    BY <2>1, <2>2
<1>2. BlsRight
  BY <1>1, BatchRight
<1> QED
  BY <1>1, <1>2 DEF Recorded

LEMMA BlsCallAnswers ==
  ASSUME NEW pools, BlsCall(pools)
  PROVE  call'.given.crate = "bls" /\ BlsRight
<1>1. CASE \E len \in {0, 1, 64} : sha256_hash(len)
  BY <1>1, PlainBlsCalls
<1>2. CASE \E sk \in Group \ {0} : derive_pubkey(sk) \/ \E m \in BlsMessages : sign(sk, m)
  BY <1>2, PlainBlsCalls
<1>3. CASE \E a, b \in RawPoints : pubkeys_are_equal(a, b) \/ signatures_are_equal(a, b)
  BY <1>3, PlainBlsCalls
<1>4. CASE \E e \in Secrets : validate_seckey(e) \/ deserialize_seckey(e)
  BY <1>4, PlainBlsCalls
<1>5. CASE serialize_seckey("one")
  BY <1>5, PlainBlsCalls
<1>6. CASE \E p \in RawPoints : validate_pubkey(p) \/ validate_signature(p)
  BY <1>6, ValidationCalls
<1>7. CASE \E p \in CurvePoints :
             serialize_pubkey_compressed(p) \/ serialize_signature_compressed(p)
  BY <1>7, PlainBlsCalls
<1>8. CASE \E src \in Encodings :
             \/ deserialize_pubkey_compressed_unchecked(src)
             \/ deserialize_signature_compressed_unchecked(src)
             \/ deserialize_pubkey_compressed(src)
             \/ deserialize_signature_compressed(src)
  BY <1>8, DecoderCalls
<1>9. CASE \E pk, sig \in Group, m \in BlsMessages : verify(pk, m, sig)
  BY <1>9, VerifyCall
<1>10. CASE \E pks \in Lists(Group), sig \in Group :
          \/ \E m \in BlsMessages : fast_aggregate_verify(pks, m, sig)
          \/ \E ms \in Lists(BlsMessages) : aggregate_verify(pks, ms, sig)
  <2>1. PICK pks \in Lists(Group), sig \in Group :
          \/ \E m \in BlsMessages : fast_aggregate_verify(pks, m, sig)
          \/ \E ms \in Lists(BlsMessages) : aggregate_verify(pks, ms, sig)
    BY <1>10
  <2>2. PICK n \in Nat : pks \in [1..n -> Group]
    BY ListsKnown
  <2> QED
    BY <2>1, <2>2, FastAggregateCall, AggregateCall
<1>11. CASE \E pks, sigs \in Lists(Group), ms \in Lists(BlsMessages) :
          \/ batch_verify(pks, ms, sigs)
          \/ \E p \in pools : batch_verify_parallel(p, pks, ms, sigs)
  BY <1>11, BatchCalls
<1> QED
  BY <1>1, <1>2, <1>3, <1>4, <1>5, <1>6, <1>7, <1>8, <1>9, <1>10, <1>11 DEF BlsCall

-----------------------------------------------------------------------------
(* constantine-core and constantine-halo2-zal.                               *)
LEMMA CoreCallWritten ==
  ASSUME NEW pools, CoreCall(pools)
  PROVE  call'.given.crate = "msm" /\ OutputsWritten'
<1>1. ASSUME NEW p, NEW coeffs, NEW bases, msm(p, coeffs, bases)
      PROVE  call'.given.crate = "msm" /\ OutputsWritten'
  <2>1. call'.given = CoreAsked("msm") /\ call'.out \subseteq call'.filled
    BY <1>1 DEF msm, Call, NotMade
  <2> QED
    BY <2>1 DEF CoreAsked, OutputsWritten
<1>2. ASSUME NEW len, NEW success, sysrand(len, success)
      PROVE  call'.given.crate = "msm" /\ OutputsWritten'
  <2> DEFINE filled == IF success THEN {1} ELSE {}
  <2>1. call'.given = CoreAsked("sysrand") /\ call'.out = {}
    <3>1. call' = Call("ctt_csprng_sysrand", <<ByteArray(len), Value(len)>>, <<len, 0>>,
                       filled, {}, Ok(""), CoreAsked("sysrand"))
      BY <1>2 DEF sysrand
    <3> HIDE DEF filled
    <3> QED
      BY <3>1 DEF Call
  <2> QED
    BY <2>1 DEF CoreAsked, OutputsWritten
<1>3. \A n : get_num_threads_os(n) => call'.given.crate = "msm" /\ OutputsWritten'
  BY DEF get_num_threads_os, Call, CoreAsked, OutputsWritten
<1> QED
  BY <1>1, <1>2, <1>3
  DEF CoreCall, msm_with_cached_scalars, msm_with_cached_base, msm_with_cached_inputs

-----------------------------------------------------------------------------
(* constantine-ethereum-evm-precompiles.                                     *)
LEMMA EvmNames ==
  /\ evmOk \in EvmStatuses /\ "cttEVM_InvalidInputSize" \in EvmStatuses
  /\ "cttEVM_IntLargerThanModulus" \in EvmStatuses /\ "cttEVM_PointNotOnCurve" \in EvmStatuses
  /\ "cttEVM_PointNotInSubgroup" \in EvmStatuses /\ "cttEVM_VerificationFailure" \in EvmStatuses
  /\ "cttEVM_InvalidOutputSize" \in EvmStatuses
  /\ evmOk \notin {"cttEVM_InvalidInputSize", "cttEVM_IntLargerThanModulus",
                   "cttEVM_PointNotOnCurve", "cttEVM_PointNotInSubgroup",
                   "cttEVM_VerificationFailure", "cttEVM_InvalidOutputSize"}
  /\ evmOk # "" /\ "" \notin EvmStatuses
BY DEF EvmStatuses, evmOk

EvmRight ==
  /\ call'.given.crate = "evm" /\ call'.given.op # "modexp_size"
  /\ OutputsWritten' /\ EvmAnswers'
(* The status that the library answers is the one that the faults of the     *)
(* input call for.                                                           *)
Faithful(status, faults) ==
  /\ status \in EvmStatuses
  /\ status = evmOk => faults \ {""} = {}
  /\ status # evmOk => status \in faults

LEMMA EvmRecorded ==
  ASSUME NEW fn, NEW before, NEW rlen, NEW len, NEW status \in EvmStatuses, NEW v, NEW asked,
         Evm(fn, before, rlen, len, status, v, asked)
  PROVE  /\ call'.given = asked /\ OutputsWritten'
         /\ call'.ret = IF status = evmOk THEN Ok(v) ELSE Err(status)
BY EvmRead DEF Evm, Call, EvmResult, OutputsWritten

LEMMA EvmAnswered ==
  ASSUME NEW fn, NEW before, NEW rlen, NEW len, NEW status, NEW v, NEW op, NEW faults, NEW truth,
         Evm(fn, before, rlen, len, status, v, EvmAsked(op, faults, truth)),
         op \notin {"modexp", "modexp_size"}, Faithful(status, faults),
         status = evmOk => op = "bn254_pairing_infinity" \/ v = truth
  PROVE  EvmRight
<1> DEFINE asked == EvmAsked(op, faults, truth)
<1>1. asked.crate = "evm" /\ asked.op = op /\ asked.faults = faults \ {""} /\ asked.truth = truth
  BY DEF EvmAsked
<1> HIDE DEF asked
<1>2. status \in EvmStatuses
  BY DEF Faithful
<1>3. /\ call'.given = asked /\ OutputsWritten'
      /\ call'.ret = IF status = evmOk THEN Ok(v) ELSE Err(status)
  BY <1>2, EvmRecorded DEF asked
<1>4. CASE status = evmOk
  <2>1. call'.ret.tag = "Ok" /\ call'.ret.v = v
    BY <1>3, <1>4 DEF Ok
  <2>3. call'.given.op # "modexp" /\ call'.ret.tag # "Panic" /\ call'.ret.tag # "Err"
    BY <1>1, <1>3, <2>1
  <2>2. asked.faults = {} /\ (op = "bn254_pairing_infinity" \/ v = asked.truth)
    BY <1>1, <1>4 DEF Faithful
  <2> QED
    BY <1>1, <1>3, <2>1, <2>2, <2>3 DEF EvmRight, EvmAnswers
<1>5. CASE status # evmOk
  <2>1. call'.ret.tag = "Err" /\ call'.ret.v = status
    BY <1>3, <1>5 DEF Err
  <2>2. status \in asked.faults
    BY <1>1, <1>2, <1>5, EvmNames DEF Faithful
  <2>3. call'.given.op # "modexp" /\ call'.ret.tag # "Panic" /\ call'.ret.tag # "Ok"
    BY <1>1, <1>3, <2>1
  <2> QED
    BY <1>1, <1>3, <2>1, <2>2, <2>3 DEF EvmRight, EvmAnswers
<1> QED
  BY <1>4, <1>5

LEMMA ChecksOutcome ==
  ASSUME NEW list \in Seq(EvmStatuses)
  PROVE  /\ Checks(list) \in EvmStatuses
         /\ Checks(list) = evmOk => Range(list) \subseteq {evmOk}
         /\ Checks(list) # evmOk => Checks(list) \in Range(list)
<1> HIDE DEF EvmStatuses
<1>1. DOMAIN list \subseteq Nat /\ \A i \in DOMAIN list : list[i] \in EvmStatuses
  OBVIOUS
<1>2. Range(list) \subseteq EvmStatuses
  BY <1>1 DEF Range
<1>3. \/ Checks(list) = evmOk /\ Range(list) \subseteq {evmOk}
      \/ Checks(list) # evmOk /\ Checks(list) \in Range(list)
  BY <1>1, FirstErrorRange DEF Checks
<1> QED
  BY <1>2, <1>3, EvmNames

(* The sizes first, then the parts of the input.                             *)
Sized(ok) == IF ok THEN evmOk ELSE "cttEVM_InvalidInputSize"
LEMMA SizeStatuses ==
  \A ok \in BOOLEAN :
    /\ SizeChecks(TRUE, ok, TRUE) \in Seq(EvmStatuses)
    /\ SizeChecks(FALSE, ok, TRUE) \in Seq(EvmStatuses)
    /\ Range(SizeChecks(TRUE, ok, TRUE)) = {Sized(ok), evmOk}
    /\ Range(SizeChecks(FALSE, ok, TRUE)) = {Sized(ok), evmOk}
<1> TAKE ok \in BOOLEAN
<1> DEFINE s == Sized(ok)
<1>1. s \in EvmStatuses /\ evmOk \in EvmStatuses
  BY EvmNames DEF Sized
<1>2. SizeChecks(TRUE, ok, TRUE) = <<s, evmOk>> /\ SizeChecks(FALSE, ok, TRUE) = <<evmOk, s>>
  BY DEF SizeChecks, Sized
<1> HIDE DEF s
<1>3. <<s, evmOk>> \in Seq(EvmStatuses) /\ <<evmOk, s>> \in Seq(EvmStatuses)
  BY <1>1
<1>4. Range(<<s, evmOk>>) = {s, evmOk} /\ Range(<<evmOk, s>>) = {s, evmOk}
  BY DEF Range
<1> QED
  BY <1>2, <1>3, <1>4 DEF s

LEMMA EvmChecksInARow ==
  ASSUME NEW a \in Seq(EvmStatuses), NEW b \in Seq(EvmStatuses)
  PROVE  a \o b \in Seq(EvmStatuses) /\ Range(a \o b) = Range(a) \union Range(b)
BY ConcatRange

LEMMA SizedInput ==
  ASSUME NEW sizes \in Seq(EvmStatuses), NEW ok \in BOOLEAN, Range(sizes) = {Sized(ok), evmOk},
         NEW parts \in Seq(EvmStatuses), NEW faults,
         \A s \in Range(parts) : s # evmOk => s \in faults,
         Range(parts) \subseteq {evmOk} => faults \subseteq {""}
  PROVE  /\ Faithful(Checks(sizes \o parts), faults \union {BadSize(ok)})
         /\ Checks(sizes \o parts) = evmOk => Range(parts) \subseteq {evmOk}
<1> DEFINE status == Checks(sizes \o parts)
<1>1. sizes \o parts \in Seq(EvmStatuses) /\ Range(sizes \o parts) = Range(sizes) \union Range(parts)
  BY EvmChecksInARow
<1>2. /\ status \in EvmStatuses
      /\ status = evmOk => Range(sizes) \union Range(parts) \subseteq {evmOk}
      /\ status # evmOk => status \in Range(sizes) \union Range(parts)
  BY <1>1, ChecksOutcome
<1> HIDE DEF status
<1>3. /\ Sized(ok) = evmOk => BadSize(ok) = ""
      /\ Sized(ok) # evmOk => Sized(ok) = BadSize(ok)
  BY EvmNames DEF Sized, BadSize
<1>4. Faithful(status, faults \union {BadSize(ok)})
  <2>1. CASE status = evmOk
    BY <1>2, <1>3, <2>1 DEF Faithful
  <2>2. CASE status # evmOk
    BY <1>2, <1>3, <2>2 DEF Faithful
  <2> QED
    BY <2>1, <2>2
<1>5. status = evmOk => Range(parts) \subseteq {evmOk}
  BY <1>2
<1> QED
  BY <1>4, <1>5 DEF status

(* Points as they are read: an integer, or the status that refuses it.       *)
RawPoint(p) ==
  /\ p.v \in Int /\ p.bad \in {"", "cttEVM_IntLargerThanModulus", "cttEVM_PointNotOnCurve"}
  /\ p.bad # "" => p.v = 0

LEMMA CurveFacts ==
  /\ EvmOrder \in Nat \ {0} /\ CurveOrder \in Nat \ {0} /\ CurveOrder = 2 * EvmOrder
BY EvmOrderAssumption DEF CurveOrder, Cofactor

LEMMA PointsRead ==
  /\ RawPoint(Infinity) /\ InSubgroup(Infinity)
  /\ \A p \in AnyPoints : RawPoint(p)
  /\ \A p \in Bn254G1 : RawPoint(p) /\ InSubgroup(p)
<1>1. \A v \in 0 .. CurveOrder - 1 : RawPoint(Raw(v))
  BY CurveFacts DEF RawPoint, Raw
<1>2. RawPoint(Infinity) /\ InSubgroup(Infinity)
  BY DEF RawPoint, Raw, Infinity, InSubgroup, Cofactor
<1>3. \A p \in BadPoints : RawPoint(p) /\ InSubgroup(p)
  <2> TAKE p \in BadPoints
  <2>1. /\ p.v = 0
        /\ p.bad = "cttEVM_IntLargerThanModulus" \/ p.bad = "cttEVM_PointNotOnCurve"
    BY DEF BadPoints, Rejected
  <2>2. RawPoint(p)
    <3>1. p.v \in Int
      BY <2>1
    <3>2. p.bad \in {"", "cttEVM_IntLargerThanModulus", "cttEVM_PointNotOnCurve"}
      BY <2>1, Zenon
    <3> QED
      BY <2>1, <3>1, <3>2, Zenon DEF RawPoint
  <2>3. 0 % 2 = 0
    BY SMT
  <2>4. InSubgroup(p)
    BY <2>1, <2>3, Zenon DEF InSubgroup, Cofactor
  <2> QED
    BY <2>2, <2>4
<1>4. \A p \in OnCurve : RawPoint(p)
  BY <1>1 DEF OnCurve
<1> QED
  BY <1>2, <1>3, <1>4 DEF AnyPoints, Bn254G1

LEMMA PointChecks ==
  ASSUME NEW p, RawPoint(p)
  PROVE  /\ fromRawCoords(p, FALSE) = IF p.bad = "" THEN evmOk ELSE p.bad
         /\ fromRawCoords(p, TRUE) = IF p.bad # "" THEN p.bad
                                     ELSE IF InSubgroup(p) THEN evmOk
                                     ELSE "cttEVM_PointNotInSubgroup"
         /\ fromRawCoords(p, FALSE) \in EvmStatuses /\ fromRawCoords(p, TRUE) \in EvmStatuses
<1>1. InSubgroup(p) \in BOOLEAN
  BY DEF InSubgroup
<1>2. fromRawCoords(p, FALSE) = IF p.bad = "" THEN evmOk ELSE p.bad
  BY Zenon DEF fromRawCoords
<1>3. fromRawCoords(p, TRUE) = IF p.bad # "" THEN p.bad
                               ELSE IF InSubgroup(p) THEN evmOk
                               ELSE "cttEVM_PointNotInSubgroup"
  BY <1>1, Zenon DEF fromRawCoords
<1> QED
  BY <1>2, <1>3, EvmNames DEF RawPoint

(* What the reading of a point says, by its faults.                          *)
LEMMA PlainFault ==
  ASSUME NEW p, RawPoint(p)
  PROVE  /\ fromRawCoords(p, FALSE) # evmOk => fromRawCoords(p, FALSE) = p.bad
         /\ fromRawCoords(p, FALSE) = evmOk => p.bad = ""
BY PointChecks, EvmNames DEF RawPoint

LEMMA CheckedFault ==
  ASSUME NEW p, RawPoint(p)
  PROVE  /\ fromRawCoords(p, TRUE) # evmOk => fromRawCoords(p, TRUE) \in {p.bad, Outside(p)}
         /\ fromRawCoords(p, TRUE) = evmOk => p.bad = "" /\ Outside(p) = "" /\ InSubgroup(p)
BY PointChecks, EvmNames DEF RawPoint, Outside

(* Lists of one and of two checks.                                           *)
LEMMA OneCheck ==
  ASSUME NEW a \in EvmStatuses
  PROVE  <<a>> \in Seq(EvmStatuses) /\ Range(<<a>>) = {a}
<1> HIDE DEF EvmStatuses
<1>1. Range(<<a>>) = {a}
  BY DEF Range
<1> QED
  BY <1>1

LEMMA TwoChecks ==
  ASSUME NEW a \in EvmStatuses, NEW b \in EvmStatuses
  PROVE  <<a, b>> \in Seq(EvmStatuses) /\ Range(<<a, b>>) = {a, b}
<1> HIDE DEF EvmStatuses
<1>1. Range(<<a, b>>) = {a, b}
  BY DEF Range
<1> QED
  BY <1>1

(* A scalar may be reduced before it multiplies a point of the subgroup.     *)
LEMMA ScalarReduced ==
  ASSUME NEW p, RawPoint(p), InSubgroup(p), NEW s \in Int
  PROVE  scalarMul(s, p) = (s * p.v) % CurveOrder
<1> DEFINE v == p.v
           w == v \div 2
           d == s \div EvmOrder
           e == s % EvmOrder
<1>1. v \in Int /\ w \in Int /\ v = 2 * w
  <2>1. v \in Int /\ v % 2 = 0
    BY DEF RawPoint, InSubgroup, Cofactor
  <2> HIDE DEF v
  <2> QED
    BY <2>1, SMT
<1>2. d \in Int /\ e \in Int /\ s = EvmOrder * d + e
  BY CurveFacts, Divided, SMT
<1> HIDE DEF v, w, d, e
<1>3. e * v \in Int /\ d * w \in Int
  BY <1>1, <1>2, SMT
<1>4. s * v = e * v + CurveOrder * (d * w)
  <2>1. s * v = e * v + (EvmOrder * d) * v
    BY <1>1, <1>2, CurveFacts, SMT
  <2>2. (EvmOrder * d) * v = (2 * EvmOrder) * (d * w)
    BY <1>1, <1>2, CurveFacts, SMT
  <2> QED
    BY <2>1, <2>2, CurveFacts
<1>5. (e * v + CurveOrder * (d * w)) % CurveOrder = (e * v) % CurveOrder
  BY <1>3, CurveFacts, ModShift
<1>6. (s * v) % CurveOrder = (e * v) % CurveOrder
  BY <1>4, <1>5
<1> QED
  BY <1>6 DEF scalarMul, v, e

-----------------------------------------------------------------------------
(* The hashes and BN254.                                                     *)
LEMMA HashAnswers ==
  ASSUME NEW len, evm_ripemd160(len) \/ evm_sha256(len)
  PROVE  EvmRight
<1>1. ASSUME NEW fn, NEW op, op \notin {"modexp", "modexp_size"}, Hash(fn, op, len)
      PROVE  EvmRight
  <2> DEFINE status == Checks(SizeChecks(FALSE, TRUE, TRUE))
  <2>1. Evm(fn, <<>>, 32, len, status, 0, EvmAsked(op, {}, 0))
    BY <1>1 DEF Hash
  <2>2. Range(SizeChecks(FALSE, TRUE, TRUE)) = {evmOk}
    BY SizeStatuses DEF Sized
  <2>3. status \in EvmStatuses /\ status = evmOk
    BY <2>2, SizeStatuses, ChecksOutcome
  <2> HIDE DEF status
  <2>4. Faithful(status, {})
    BY <2>3 DEF Faithful
  <2> QED
    BY <1>1, <2>1, <2>4, EvmAnswered
<1> QED
  BY <1>1 DEF evm_ripemd160, evm_sha256

LEMMA AddAnswers ==
  ASSUME NEW len, NEW p, RawPoint(p), NEW q, RawPoint(q), evm_bn254_g1add(len, p, q)
  PROVE  EvmRight
<1> DEFINE P == PaddedPoint(len, 64, p)
           Q == PaddedPoint(len, 128, q)
           parts == <<fromRawCoords(P, FALSE), fromRawCoords(Q, FALSE)>>
           status == Checks(parts)
           v == (P.v + Q.v) % CurveOrder
<1>1. Evm("ctt_eth_evm_bn254_g1add", <<>>, 64, len, status, v,
          EvmAsked("bn254_g1add", {P.bad, Q.bad}, v))
  BY DEF evm_bn254_g1add
<1>2. RawPoint(P) /\ RawPoint(Q)
  BY PointsRead DEF PaddedPoint
<1> HIDE DEF P, Q, v
<1>3. /\ parts \in Seq(EvmStatuses)
      /\ Range(parts) = {fromRawCoords(P, FALSE), fromRawCoords(Q, FALSE)}
  <2>1. fromRawCoords(P, FALSE) \in EvmStatuses /\ fromRawCoords(Q, FALSE) \in EvmStatuses
    BY <1>2, PointChecks
  <2> QED
    BY <2>1, TwoChecks
<1> HIDE DEF parts
<1>4. /\ status \in EvmStatuses
      /\ status = evmOk => Range(parts) \subseteq {evmOk}
      /\ status # evmOk => status \in Range(parts)
  BY <1>3, ChecksOutcome
<1> HIDE DEF status
<1>5. Faithful(status, {P.bad, Q.bad})
  BY <1>2, <1>3, <1>4, PlainFault DEF Faithful
<1> QED
  BY <1>1, <1>5, EvmAnswered

LEMMA MulAnswers ==
  ASSUME NEW len, NEW p, RawPoint(p), InSubgroup(p), NEW s \in Int, evm_bn254_g1mul(len, p, s)
  PROVE  EvmRight
<1> DEFINE P == PaddedPoint(len, 64, p)
           S == PaddedScalar(len, 96, s)
           parts == <<fromRawCoords(P, FALSE)>>
           status == Checks(parts)
           v == scalarMul(S, P)
<1>1. Evm("ctt_eth_evm_bn254_g1mul", <<>>, 64, len, status, v,
          EvmAsked("bn254_g1mul", {P.bad}, (S * P.v) % CurveOrder))
  BY DEF evm_bn254_g1mul
<1>2. RawPoint(P) /\ InSubgroup(P) /\ S \in Int
  BY PointsRead DEF PaddedPoint, PaddedScalar
<1>3. v = (S * P.v) % CurveOrder
  BY <1>2, ScalarReduced
<1> DEFINE truth == (S * P.v) % CurveOrder
<1> HIDE DEF P, S, v
<1>4. parts \in Seq(EvmStatuses) /\ Range(parts) = {fromRawCoords(P, FALSE)}
  <2>1. fromRawCoords(P, FALSE) \in EvmStatuses
    BY <1>2, PointChecks
  <2> QED
    BY <2>1, OneCheck
<1> HIDE DEF parts
<1>5. /\ status \in EvmStatuses
      /\ status = evmOk => Range(parts) \subseteq {evmOk}
      /\ status # evmOk => status \in Range(parts)
  BY <1>4, ChecksOutcome
<1> HIDE DEF status
<1>6. Faithful(status, {P.bad})
  BY <1>2, <1>4, <1>5, PlainFault DEF Faithful
<1>7. Evm("ctt_eth_evm_bn254_g1mul", <<>>, 64, len, status, v,
          EvmAsked("bn254_g1mul", {P.bad}, truth))
  BY <1>1
<1>8. v = truth
  BY <1>3
<1> HIDE DEF truth
<1> QED
  BY <1>6, <1>7, <1>8, EvmAnswered

-----------------------------------------------------------------------------
(* BLS12-381.                                                                *)
LEMMA SumAnswers ==
  ASSUME NEW fn, fn \notin {"modexp", "modexp_size"}, NEW size \in Int, NEW rlen, NEW len \in Int,
         NEW p, RawPoint(p), NEW q, RawPoint(q), Sum(fn, size, rlen, len, p, q)
  PROVE  EvmRight
<1> DEFINE ok == len = size
           sizes == SizeChecks(TRUE, ok, TRUE)
           a == fromRawCoords(p, FALSE)
           b == fromRawCoords(q, FALSE)
           parts == <<a, b>>
           status == Checks(sizes \o parts)
           v == (p.v + q.v) % CurveOrder
           plain == {p.bad, q.bad}
           faults == plain \union {BadSize(ok)}
<1>1. Evm(fn, <<>>, rlen, len, status, v, EvmAsked(fn, faults, v))
  <2>1. faults = {BadSize(ok), p.bad, q.bad}
    OBVIOUS
  <2> QED
    BY <2>1 DEF Sum
<1>2. ok \in BOOLEAN
  OBVIOUS
<1> HIDE DEF ok, v
<1>3. sizes \in Seq(EvmStatuses) /\ Range(sizes) = {Sized(ok), evmOk}
  BY <1>2, SizeStatuses
<1>4. a \in EvmStatuses /\ b \in EvmStatuses
  BY PointChecks
<1>5. /\ a # evmOk => a \in plain
      /\ b # evmOk => b \in plain
      /\ a = evmOk /\ b = evmOk => plain \subseteq {""}
  BY PlainFault
<1> HIDE DEF sizes, a, b, plain
<1>6. parts \in Seq(EvmStatuses) /\ Range(parts) = {a, b}
  BY <1>4, TwoChecks
<1> HIDE DEF parts
<1>7. Faithful(status, faults)
  <2>1. \A s \in Range(parts) : s = a \/ s = b
    BY <1>6
  <2>2. \A s \in Range(parts) : s # evmOk => s \in plain
    BY <1>5, <2>1, Zenon
  <2>3. Range(parts) \subseteq {evmOk} => plain \subseteq {""}
    BY <1>5, <1>6
  <2> QED
    BY <1>2, <1>3, <1>6, <2>2, <2>3, SizedInput
<1> HIDE DEF status, faults
<1> QED
  BY <1>1, <1>7, EvmAnswered

LEMMA CheckedMulAnswers ==
  ASSUME NEW fn, fn \notin {"modexp", "modexp_size"}, NEW size \in Int, NEW rlen, NEW len \in Int,
         NEW p, RawPoint(p), NEW s \in Int, Mul(fn, size, rlen, len, p, s)
  PROVE  EvmRight
<1> DEFINE ok == len = size
           sizes == SizeChecks(TRUE, ok, TRUE)
           a == fromRawCoords(p, TRUE)
           parts == <<a>>
           status == Checks(sizes \o parts)
           v == scalarMul(s, p)
           truth == (s * p.v) % CurveOrder
           found == {p.bad, Outside(p)}
           faults == found \union {BadSize(ok)}
<1>1. Evm(fn, <<>>, rlen, len, status, v, EvmAsked(fn, faults, truth))
  <2>1. faults = {BadSize(ok), p.bad, Outside(p)}
    OBVIOUS
  <2> QED
    BY <2>1 DEF Mul
<1>2. ok \in BOOLEAN
  OBVIOUS
<1> HIDE DEF ok
<1>3. sizes \in Seq(EvmStatuses) /\ Range(sizes) = {Sized(ok), evmOk}
  BY <1>2, SizeStatuses
<1>4. a \in EvmStatuses
  BY PointChecks
<1>5. /\ a # evmOk => a \in found
      /\ a = evmOk => found \subseteq {""} /\ InSubgroup(p)
  BY CheckedFault
<1>6. InSubgroup(p) => v = truth
  BY ScalarReduced
<1> HIDE DEF sizes, a, found, v, truth
<1>7. parts \in Seq(EvmStatuses) /\ Range(parts) = {a}
  BY <1>4, OneCheck
<1> HIDE DEF parts
<1>8. /\ Faithful(status, faults)
      /\ status = evmOk => Range(parts) \subseteq {evmOk}
  <2>1. \A x \in Range(parts) : x # evmOk => x \in found
    BY <1>5, <1>7
  <2>2. Range(parts) \subseteq {evmOk} => found \subseteq {""}
    BY <1>5, <1>7
  <2> QED
    BY <1>2, <1>3, <1>7, <2>1, <2>2, SizedInput
<1> HIDE DEF status, faults
<1>9. status = evmOk => v = truth
  BY <1>5, <1>6, <1>7, <1>8
<1> QED
  BY <1>1, <1>8, <1>9, EvmAnswered

LEMMA MsmAnswers ==
  ASSUME NEW fn, fn \notin {"modexp", "modexp_size"}, NEW size \in Nat \ {0}, NEW rlen, NEW len \in Int,
         NEW n \in Nat, NEW ps, DOMAIN ps = 1..n, \A i \in 1..n : RawPoint(ps[i]),
         NEW ss \in [1..n -> Int], Msm(fn, size, rlen, len, ps, ss)
  PROVE  EvmRight
<1> DEFINE ok == len > 0 /\ len % size = 0
           sizes == SizeChecks(TRUE, ok, TRUE)
           parts == [i \in 1..n |-> fromRawCoords(ps[i], TRUE)]
           status == Checks(sizes \o parts)
           products == [i \in 1..n |-> scalarMul(ss[i], ps[i])]
           truths == [i \in 1..n |-> (ss[i] * ps[i].v) % CurveOrder]
           found == UNION {{ps[i].bad, Outside(ps[i])} : i \in 1..n}
           faults == found \union {BadSize(ok)}
           v == ecSum(products)
           truth == ecSum(truths)
<1>1. Evm(fn, <<>>, rlen, len, status, v, EvmAsked(fn, faults, truth))
  <2>1. faults = {BadSize(ok)} \union found
    OBVIOUS
  <2> QED
    BY <2>1 DEF Msm
<1>2. ok \in BOOLEAN
  OBVIOUS
<1> HIDE DEF ok
<1>3. sizes \in Seq(EvmStatuses) /\ Range(sizes) = {Sized(ok), evmOk}
  BY <1>2, SizeStatuses
<1>4. \A i \in 1..n : fromRawCoords(ps[i], TRUE) \in EvmStatuses
  BY PointChecks
<1>5. \A i \in 1..n :
        /\ fromRawCoords(ps[i], TRUE) # evmOk => fromRawCoords(ps[i], TRUE) \in {ps[i].bad, Outside(ps[i])}
        /\ fromRawCoords(ps[i], TRUE) = evmOk
             => ps[i].bad = "" /\ Outside(ps[i]) = "" /\ InSubgroup(ps[i])
  BY CheckedFault
<1>6. \A i \in 1..n : InSubgroup(ps[i]) => scalarMul(ss[i], ps[i]) = (ss[i] * ps[i].v) % CurveOrder
  BY ScalarReduced
<1>7. parts \in Seq(EvmStatuses)
  <2>1. parts \in [1..n -> EvmStatuses]
    BY <1>4
  <2> HIDE DEF parts
  <2> QED
    BY <2>1
<1>8. Range(parts) = {fromRawCoords(ps[i], TRUE) : i \in 1..n}
  BY DEF Range
<1>9. \A x \in Range(parts) : x # evmOk => x \in found
  <2> TAKE x \in Range(parts)
  <2>1. PICK i \in 1..n : x = fromRawCoords(ps[i], TRUE)
    BY <1>8
  <2> HIDE DEF parts
  <2> QED
    BY <1>5, <2>1
<1>10. Range(parts) \subseteq {evmOk}
         => \A i \in 1..n : ps[i].bad = "" /\ Outside(ps[i]) = "" /\ InSubgroup(ps[i])
  BY <1>5, <1>8
<1> HIDE DEF parts, sizes
<1>11. Range(parts) \subseteq {evmOk} => found \subseteq {""}
  <2> HAVE Range(parts) \subseteq {evmOk}
  <2> SUFFICES ASSUME NEW x \in found PROVE x = ""
    OBVIOUS
  <2>1. PICK i \in 1..n : x \in {ps[i].bad, Outside(ps[i])}
    OBVIOUS
  <2> QED
    BY <1>10, <2>1
<1> HIDE DEF found
<1>12. /\ Faithful(status, faults)
       /\ status = evmOk => Range(parts) \subseteq {evmOk}
  BY <1>2, <1>3, <1>7, <1>9, <1>11, SizedInput
<1> HIDE DEF status, faults
<1>13. status = evmOk => products = truths
  BY <1>6, <1>10, <1>12
<1> HIDE DEF products, truths
<1>14. status = evmOk => v = truth
  BY <1>13
<1> HIDE DEF v, truth
<1> QED
  BY <1>1, <1>12, <1>14, EvmAnswered

LEMMA MapAnswers ==
  ASSUME NEW fn, fn \notin {"modexp", "modexp_size"}, NEW size \in Int, NEW rlen, NEW len \in Int,
         NEW us, us \in Seq(FieldBytes), MapTo(fn, size, rlen, len, us)
  PROVE  EvmRight
<1> DEFINE ok == len = size
           sizes == SizeChecks(TRUE, ok, TRUE)
           parts == [i \in DOMAIN us |-> parseFp(us[i])]
           status == Checks(sizes \o parts)
           found == {parseFp(us[i]) : i \in DOMAIN us} \ {evmOk}
           faults == found \union {BadSize(ok)}
<1>1. Evm(fn, <<>>, rlen, len, status, 0, EvmAsked(fn, faults, 0))
  <2>1. faults = {BadSize(ok)} \union found
    OBVIOUS
  <2> QED
    BY <2>1 DEF MapTo
<1>2. ok \in BOOLEAN
  OBVIOUS
<1> HIDE DEF ok
<1>3. sizes \in Seq(EvmStatuses) /\ Range(sizes) = {Sized(ok), evmOk}
  BY <1>2, SizeStatuses
<1>4. \A u : parseFp(u) \in EvmStatuses
  BY EvmNames DEF parseFp
<1>5. parts \in Seq(EvmStatuses)
  <2> HIDE DEF EvmStatuses
  <2>1. PICK n \in Nat : DOMAIN us = 1..n
    BY DEF FieldBytes
  <2> QED
    BY <1>4, <2>1
<1>6. Range(parts) = {parseFp(us[i]) : i \in DOMAIN us}
  BY DEF Range
<1>7. /\ \A x \in Range(parts) : x # evmOk => x \in found
      /\ Range(parts) \subseteq {evmOk} => found \subseteq {""}
  <2> HIDE DEF parts
  <2> QED
    BY <1>6
<1> HIDE DEF parts, sizes, found
<1>8. Faithful(status, faults)
  BY <1>2, <1>3, <1>5, <1>7, SizedInput
<1> HIDE DEF status, faults
<1> QED
  BY <1>1, <1>8, EvmAnswered

-----------------------------------------------------------------------------
(* Pairings.  Lists of points, as the two checks read them.                  *)
PointList(ps, n) ==
  n \in Nat /\ DOMAIN ps = 1..n /\ Len(ps) = n /\ \A i \in 1..n : RawPoint(ps[i])

LEMMA PairParts ==
  ASSUME NEW n, NEW ps, PointList(ps, n), NEW qs, PointList(qs, n), NEW g \in BOOLEAN,
         g \/ \A i \in 1..n : InSubgroup(ps[i])
  PROVE  /\ PairChecks(ps, qs, g) \in Seq(EvmStatuses)
         /\ \A s \in Range(PairChecks(ps, qs, g)) : s # evmOk => s \in PairFaults(ps, qs)
         /\ Range(PairChecks(ps, qs, g)) \subseteq {evmOk} => PairFaults(ps, qs) \subseteq {""}
<1> DEFINE first(i) == fromRawCoords(ps[i], g)
           second(i) == fromRawCoords(qs[i], TRUE)
           parts == PairChecks(ps, qs, g)
           found(i) == {ps[i].bad, qs[i].bad, Outside(ps[i]), Outside(qs[i])}
<1>1. n \in Nat /\ \A i \in 1..n : RawPoint(ps[i]) /\ RawPoint(qs[i])
  BY DEF PointList
<1>2. \A i \in 1..n :
        /\ first(i) \in EvmStatuses /\ second(i) \in EvmStatuses
        /\ first(i) # evmOk => first(i) \in found(i)
        /\ second(i) # evmOk => second(i) \in found(i)
        /\ first(i) = evmOk /\ second(i) = evmOk => found(i) \subseteq {""}
  <2> TAKE i \in 1..n
  <2>1. /\ second(i) \in EvmStatuses
        /\ second(i) # evmOk => second(i) \in {qs[i].bad, Outside(qs[i])}
        /\ second(i) = evmOk => qs[i].bad = "" /\ Outside(qs[i]) = ""
    BY <1>1, PointChecks, CheckedFault
  <2>2. /\ first(i) \in EvmStatuses
        /\ first(i) # evmOk => first(i) \in {ps[i].bad, Outside(ps[i])}
        /\ first(i) = evmOk => ps[i].bad = "" /\ Outside(ps[i]) = ""
    <3>1. CASE g = TRUE
      BY <1>1, <3>1, PointChecks, CheckedFault
    <3>2. CASE g = FALSE
      <4>1. Outside(ps[i]) = ""
        BY <3>2 DEF Outside
      <4> QED
        BY <1>1, <3>2, <4>1, PointChecks, PlainFault
    <3> QED
      BY <3>1, <3>2
  <2> QED
    BY <2>1, <2>2
<1>3. PairFaults(ps, qs) = UNION {found(i) : i \in 1..n}
  BY DEF PairFaults, PointList
<1>4. parts = [k \in 1 .. 2 * n |-> IF k % 2 = 1 THEN first((k + 1) \div 2) ELSE second(k \div 2)]
  BY DEF PairChecks, PointList
<1> HIDE DEF first, second, parts, found
<1>5. \A k \in 1 .. 2 * n : \E i \in 1..n : parts[k] = first(i) \/ parts[k] = second(i)
  <2> TAKE k \in 1 .. 2 * n
  <2>1. CASE k % 2 = 1
    <3>1. (k + 1) \div 2 \in 1..n
      BY <1>1, <2>1
    <3>2. parts[k] = first((k + 1) \div 2)
      BY <1>4, <2>1
    <3> QED
      BY <3>1, <3>2
  <2>2. CASE k % 2 # 1
    <3>1. k \div 2 \in 1..n
      BY <1>1, <2>2
    <3>2. parts[k] = second(k \div 2)
      BY <1>4, <2>2
    <3> QED
      BY <3>1, <3>2
  <2> QED
    BY <2>1, <2>2
<1>6. \A i \in 1..n : /\ 2 * i - 1 \in 1 .. 2 * n /\ parts[2 * i - 1] = first(i)
                      /\ 2 * i \in 1 .. 2 * n /\ parts[2 * i] = second(i)
  <2> TAKE i \in 1..n
  <2>1. /\ 2 * i - 1 \in 1 .. 2 * n /\ 2 * i \in 1 .. 2 * n
        /\ (2 * i - 1) % 2 = 1 /\ ((2 * i - 1) + 1) \div 2 = i
        /\ (2 * i) % 2 # 1 /\ (2 * i) \div 2 = i
    BY <1>1
  <2> QED
    BY <1>4, <2>1
<1>7. DOMAIN parts = 1 .. 2 * n /\ 2 * n \in Nat
  BY <1>1, <1>4
<1>8. parts \in Seq(EvmStatuses)
  <2>1. parts \in [1 .. 2 * n -> EvmStatuses]
    <3>1. \A k \in 1 .. 2 * n : parts[k] \in EvmStatuses
      BY <1>2, <1>5
    <3> QED
      BY <1>4, <3>1
  <2> QED
    BY <1>7, <2>1
<1>9. \A s \in Range(parts) : s # evmOk => s \in PairFaults(ps, qs)
  <2> TAKE s \in Range(parts)
  <2>1. PICK k \in 1 .. 2 * n : s = parts[k]
    BY <1>7 DEF Range
  <2>2. PICK i \in 1..n : s = first(i) \/ s = second(i)
    BY <1>5, <2>1
  <2>3. s # evmOk => s \in found(i)
    BY <1>2, <2>2
  <2> QED
    BY <1>3, <2>3
<1>10. Range(parts) \subseteq {evmOk} => PairFaults(ps, qs) \subseteq {""}
  <2> HAVE Range(parts) \subseteq {evmOk}
  <2>1. \A i \in 1..n : first(i) = evmOk /\ second(i) = evmOk
    BY <1>6, <1>7 DEF Range
  <2>2. \A i \in 1..n : found(i) \subseteq {""}
    BY <1>2, <2>1
  <2> QED
    BY <1>3, <2>2
<1> QED
  BY <1>8, <1>9, <1>10 DEF parts

LEMMA NoPairs ==
  ASSUME NEW ps, DOMAIN ps = 1..0, NEW qs
  PROVE  pairingsAreOne(ps, qs)
<1> DEFINE list == [i \in DOMAIN ps |-> pairing(ps[i], qs[i])]
<1>1. list \in [1..0 -> Int]
  OBVIOUS
<1> HIDE DEF list
<1>2. Len(list) = 0 /\ PartialSums(list, EvmOrder)[0] = 0
  BY <1>1, CurveFacts, PartialSumsFacts
<1> QED
  BY <1>2 DEF pairingsAreOne, SumOf, list

LEMMA Bn254PairingAnswers ==
  ASSUME NEW n, NEW ps, PointList(ps, n), NEW qs, PointList(qs, n), NEW whole \in BOOLEAN,
         \A i \in 1..n : InSubgroup(ps[i]), evm_bn254_ec_pairing_check(whole, ps, qs)
  PROVE  EvmRight
<1> DEFINE len == 192 * Len(ps) + (IF whole THEN 0 ELSE 1)
           ok == len % 192 = 0
           sizes == SizeChecks(FALSE, ok, TRUE)
           parts == PairChecks(ps, qs, FALSE)
           status == Checks(sizes \o parts)
           infinite == FoundInfinity(ps, qs)
           one == pairingsAreOne(ps, qs)
           v == Bit(ps = <<>> \/ infinite \/ one)
           op == IF infinite THEN "bn254_pairing_infinity" ELSE "bn254_pairing"
           found == PairFaults(ps, qs)
           faults == found \union {BadSize(whole)}
           truth == Bit(one)
<1>1. Evm("ctt_eth_evm_bn254_ecpairingcheck", <<>>, 32, len, status, v,
          EvmAsked(op, faults, truth))
  BY DEF evm_bn254_ec_pairing_check
<1>2. ok \in BOOLEAN /\ (ok <=> whole)
  BY SMT DEF PointList
<1>3. BadSize(ok) = BadSize(whole)
  BY <1>2 DEF BadSize
<1>4. sizes \in Seq(EvmStatuses) /\ Range(sizes) = {Sized(ok), evmOk}
  BY <1>2, SizeStatuses
<1>5. /\ parts \in Seq(EvmStatuses)
      /\ \A s \in Range(parts) : s # evmOk => s \in found
      /\ Range(parts) \subseteq {evmOk} => found \subseteq {""}
  BY PairParts
<1>6. ps = <<>> => one
  BY NoPairs
<1>7. op = "bn254_pairing_infinity" \/ v = truth
  <2>1. infinite \in BOOLEAN /\ one \in BOOLEAN
    BY DEF FoundInfinity, pairingsAreOne
  <2> HIDE DEF infinite, one
  <2>2. CASE infinite
    BY <2>2
  <2>3. CASE ~infinite
    BY <1>6, <2>1, <2>3 DEF Bit
  <2> QED
    BY <2>2, <2>3
<1>8. op \notin {"modexp", "modexp_size"}
  BY DEF op
<1> HIDE DEF len, ok, sizes, parts, found, op, v, truth
<1>9. Faithful(status, faults)
  <2>1. Faithful(status, found \union {BadSize(ok)})
    BY <1>2, <1>4, <1>5, SizedInput
  <2> QED
    BY <1>3, <2>1
<1> HIDE DEF status, faults
<1> QED
  BY <1>1, <1>7, <1>8, <1>9, EvmAnswered

LEMMA Bls12381PairingAnswers ==
  ASSUME NEW n, NEW ps, PointList(ps, n), NEW qs, PointList(qs, n), NEW whole \in BOOLEAN,
         evm_bls12381_pairing_check(whole, ps, qs)
  PROVE  EvmRight
<1> DEFINE len == 384 * Len(ps) + (IF whole THEN 0 ELSE 1)
           ok == len % 384 = 0 /\ ps # <<>>
           sizes == SizeChecks(FALSE, ok, TRUE)
           parts == PairChecks(ps, qs, TRUE)
           status == Checks(sizes \o parts)
           v == Bit(pairingsAreOne(ps, qs))
           found == PairFaults(ps, qs)
           faults == found \union {BadSize(ok)}
<1>1. Evm("ctt_eth_evm_bls12381_pairingcheck", <<>>, 32, len, status, v,
          EvmAsked("bls12381_pairing", faults, v))
  BY DEF evm_bls12381_pairing_check
<1>2. ok \in BOOLEAN
  OBVIOUS
<1>3. sizes \in Seq(EvmStatuses) /\ Range(sizes) = {Sized(ok), evmOk}
  BY <1>2, SizeStatuses
<1>4. /\ parts \in Seq(EvmStatuses)
      /\ \A s \in Range(parts) : s # evmOk => s \in found
      /\ Range(parts) \subseteq {evmOk} => found \subseteq {""}
  BY PairParts
<1> HIDE DEF len, ok, sizes, parts, found, v
<1>5. Faithful(status, faults)
  BY <1>2, <1>3, <1>4, SizedInput
<1> HIDE DEF status, faults
<1> QED
  BY <1>1, <1>5, EvmAnswered

-----------------------------------------------------------------------------
(* Point evaluation: the proof is accepted exactly when it is the right one. *)
LEMMA RightProof ==
  ASSUME NEW c \in Commitments, NEW z \in Scalars, NEW y \in Scalars, NEW proof \in Proofs,
         NEW decoded, Outcome(kzgOk, <<Point(c), Scalar(z), Scalar(y), Point(proof)>>, decoded)
  PROVE  decoded = kzgOk /\ kzg_verify(c, z, y, proof)
           <=> /\ c \in {kzg_commit(poly) : poly \in {zeroPoly, mixedPoly}}
               /\ z # "big" /\ y = evalPolyAt(Committed(c), z)
               /\ proof = kzg_prove(Committed(c), z)
<1> DEFINE checks == <<Point(c), Scalar(z), Scalar(y), Point(proof)>>
           made == {kzg_commit(poly) : poly \in {zeroPoly, mixedPoly}}
<1>1. /\ DOMAIN checks = 1..4
      /\ checks[1] = Point(c) /\ checks[2] = Scalar(z)
      /\ checks[3] = Scalar(y) /\ checks[4] = Point(proof)
  OBVIOUS
<1> HIDE DEF checks
<1>2. decoded = kzgOk <=> /\ Point(c) = kzgOk /\ Scalar(z) = kzgOk
                          /\ Scalar(y) = kzgOk /\ Point(proof) = kzgOk
  <2>1. Outcome(kzgOk, checks, decoded)
    BY DEF checks
  <2>2. \A i \in 1..4 : i = 1 \/ i = 2 \/ i = 3 \/ i = 4
    OBVIOUS
  <2>3. decoded = kzgOk => checks[1] = kzgOk /\ checks[2] = kzgOk /\ checks[3] = kzgOk /\ checks[4] = kzgOk
    BY <1>1, <2>1 DEF Outcome
  <2>4. decoded # kzgOk => \E i \in 1..4 : checks[i] # kzgOk
    BY <1>1, <2>1 DEF Outcome
  <2> QED
    BY <1>1, <2>2, <2>3, <2>4
<1>3. Encoding(c) /\ Encoding(proof)
  BY PointInputs DEF CommitmentBytes
<1>4. /\ Point(c) = kzgOk <=> Accepted(c)
      /\ Point(proof) = kzgOk <=> Accepted(proof)
  BY <1>3, PointStatus, Names
<1>5. /\ Scalar(z) = kzgOk <=> z # "big"
      /\ Scalar(y) = kzgOk <=> y # "big"
  BY ScalarStatus, Names
<1>6. \A of : Accepted(Encoded(of))
  BY DEF Accepted, Encoded
<1>7. (\A poly : Accepted(kzg_commit(poly))) /\ \A poly : Accepted(kzg_prove(poly, z))
  BY <1>6 DEF kzg_commit, kzg_prove
<1>8. Accepted(c) <=> c \in made
  <2>1. /\ ~Accepted(Malformed("cttCodecEcc_InvalidEncoding"))
        /\ ~Accepted(Malformed("cttCodecEcc_CoordinateGreaterThanOrEqualModulus"))
    BY DEF Accepted, Malformed
  <2>2. \A x : x \in made <=> x = kzg_commit(zeroPoly) \/ x = kzg_commit(mixedPoly)
    OBVIOUS
  <2> HIDE DEF made
  <2> QED
    BY <1>7, <2>1, <2>2 DEF Commitments
<1>9. c \in made => (y = evalPolyAt(Committed(c), z) => y # "big")
  <2> HAVE c \in made
  <2>1. Committed(c) = zeroPoly \/ Committed(c) = mixedPoly
    BY CommittedPolynomial, BlobInputs
  <2>2. evalPolyAt(Committed(c), z) \in {"zero", "one"}
    BY <2>1 DEF evalPolyAt, zeroPoly, mixedPoly
  <2> QED
    BY <2>2
<1> HIDE DEF made
<1>10. decoded = kzgOk /\ kzg_verify(c, z, y, proof)
           <=> /\ c \in made
               /\ z # "big" /\ y = evalPolyAt(Committed(c), z)
               /\ proof = kzg_prove(Committed(c), z)
  BY <1>2, <1>4, <1>5, <1>7, <1>8, <1>9 DEF kzg_verify
<1> QED
  BY <1>10 DEF made

LEMMA EvaluationAnswers ==
  ASSUME NEW o, NEW len \in Int, NEW hashed, NEW c \in Commitments, NEW z \in Scalars,
         NEW y \in Scalars, NEW proof \in Proofs,
         evm_kzg_point_evaluation(o, len, hashed, z, y, c, proof)
  PROVE  EvmRight
<1> DEFINE decoded == FirstError(kzgOk, <<Point(c), Scalar(z), Scalar(y), Point(proof)>>)
           holds == decoded = kzgOk /\ kzg_verify(c, z, y, proof)
           failed == "cttEVM_VerificationFailure"
           a == IF hashed = c /\ holds THEN evmOk ELSE failed
           right == /\ hashed = c
                    /\ c \in {kzg_commit(poly) : poly \in {zeroPoly, mixedPoly}}
                    /\ z # "big" /\ y = evalPolyAt(Committed(c), z)
                    /\ proof = kzg_prove(Committed(c), z)
           ok == len = 192
           sizes == SizeChecks(TRUE, ok, TRUE)
           parts == <<a>>
           status == Checks(sizes \o parts)
           plain == {IF right THEN "" ELSE failed}
           faults == plain \union {BadSize(ok)}
<1>1. Evm("ctt_eth_evm_kzg_point_evaluation", <<Handle(ctx[o])>>, 64, len, status, 0,
          EvmAsked("point_evaluation", faults, 0))
  <2>1. faults = {BadSize(ok), IF right THEN "" ELSE failed}
    OBVIOUS
  <2> QED
    BY <2>1 DEF evm_kzg_point_evaluation
<1>2. ok \in BOOLEAN
  OBVIOUS
<1>3. sizes \in Seq(EvmStatuses) /\ Range(sizes) = {Sized(ok), evmOk}
  BY <1>2, SizeStatuses
<1>4. holds <=> /\ c \in {kzg_commit(poly) : poly \in {zeroPoly, mixedPoly}}
                /\ z # "big" /\ y = evalPolyAt(Committed(c), z)
                /\ proof = kzg_prove(Committed(c), z)
  <2>1. Outcome(kzgOk, <<Point(c), Scalar(z), Scalar(y), Point(proof)>>, decoded)
    BY FirstErrorOutcome
  <2> HIDE DEF decoded
  <2> QED
    BY <2>1, RightProof
<1> HIDE DEF holds
<1>5. hashed = c /\ holds <=> right
  BY <1>4
<1> HIDE DEF right, ok, sizes
<1>6. /\ a \in EvmStatuses
      /\ a # evmOk => a \in plain
      /\ a = evmOk => plain \subseteq {""}
  <2>1. CASE right
    BY <1>5, <2>1, EvmNames
  <2>2. CASE ~right
    BY <1>5, <2>2, EvmNames
  <2> QED
    BY <2>1, <2>2
<1> HIDE DEF a, plain
<1>7. parts \in Seq(EvmStatuses) /\ Range(parts) = {a}
  BY <1>6, OneCheck
<1> HIDE DEF parts
<1>8. Faithful(status, faults)
  <2>1. \A s \in Range(parts) : s # evmOk => s \in plain
    BY <1>6, <1>7
  <2>2. Range(parts) \subseteq {evmOk} => plain \subseteq {""}
    BY <1>6, <1>7
  <2> QED
    BY <1>2, <1>3, <1>7, <2>1, <2>2, SizedInput
<1> HIDE DEF status, faults
<1> QED
  BY <1>1, <1>8, EvmAnswered

-----------------------------------------------------------------------------
(* MODEXP.  Numbers to the base Radix and powers.                            *)
Reading(h, n, bytes) ==
  h = [k \in 0..n |-> IF k = 0 THEN 0 ELSE h[k - 1] * Radix + bytes[k]]

LEMMA NumberFacts ==
  ASSUME NEW n \in Nat, NEW bytes \in [1..n -> Nat]
  PROVE  /\ Number(bytes) \in Nat
         /\ n = 0 => Number(bytes) = 0
         /\ (\A i \in 1..n : bytes[i] = 0) => Number(bytes) = 0
<1> DEFINE step == [k \in 1..n |-> [a \in Nat |-> a * Radix + bytes[k]]]
           s == CHOOSE h : Reading(h, n, bytes)
<1>1. Len(bytes) = n
  OBVIOUS
<1>2. Number(bytes) = s[n]
  BY <1>1 DEF Number, Reading
<1>3. \E h : Reading(h, n, bytes)
  <2>1. step \in [1..n -> [Nat -> Nat]]
    BY DEF Radix
  <2>2. \A k \in 1..n, a \in Nat : step[k][a] = a * Radix + bytes[k]
    OBVIOUS
  <2> HIDE DEF step
  <2>3. PICK h \in [0..n -> Nat] : Follows(h, n, 0, step)
    BY <2>1, Recursion
  <2>4. \A k \in 1..n : h[k] = h[k - 1] * Radix + bytes[k]
    <3> TAKE k \in 1..n
    <3>1. h[k - 1] \in Nat /\ h[k] = step[k][h[k - 1]]
      BY <2>3 DEF Follows
    <3> QED
      BY <2>2, <3>1
  <2>5. h = [k \in 0..n |-> IF k = 0 THEN 0 ELSE h[k - 1] * Radix + bytes[k]]
    BY <2>3, <2>4 DEF Follows
  <2> QED
    BY <2>5 DEF Reading
<1>4. Reading(s, n, bytes)
  BY <1>3
<1> HIDE DEF s
<1>5. /\ s[0] = 0
      /\ \A k \in 1..n : s[k] = s[k - 1] * Radix + bytes[k]
  <2>1. s = [k \in 0..n |-> IF k = 0 THEN 0 ELSE s[k - 1] * Radix + bytes[k]]
    BY <1>4 DEF Reading
  <2> QED
    BY <2>1
<1>6. s[n] \in Nat
  <2> DEFINE T == {k \in 0..n : s[k] \in Nat}
  <2>1. 0 \in T
    BY <1>5
  <2>2. ASSUME NEW k \in 1..n, k - 1 \in T
        PROVE  k \in T
    BY <1>5, <2>2 DEF Radix
  <2>3. \A k \in 0..n : k \in T
    <3> HIDE DEF T
    <3> QED
      BY <2>1, <2>2, UpTo
  <2> QED
    BY <2>3
<1>7. ASSUME \A i \in 1..n : bytes[i] = 0
      PROVE  s[n] = 0
  <2> DEFINE T == {k \in 0..n : s[k] = 0}
  <2>1. 0 \in T
    BY <1>5
  <2>2. ASSUME NEW k \in 1..n, k - 1 \in T
        PROVE  k \in T
    BY <1>5, <1>7, <2>2 DEF Radix
  <2>3. \A k \in 0..n : k \in T
    <3> HIDE DEF T
    <3> QED
      BY <2>1, <2>2, UpTo
  <2> QED
    BY <2>3
<1>8. n = 0 => s[n] = 0
  BY <1>5
<1> QED
  BY <1>2, <1>6, <1>7, <1>8

Raised(h, x, e) == h = [k \in 0..e |-> IF k = 0 THEN 1 ELSE x * h[k - 1]]

LEMMA PowerFacts ==
  ASSUME NEW x \in Nat, NEW e \in Nat
  PROVE  /\ power(x, e) \in Nat
         /\ e = 0 => power(x, e) = 1
         /\ x = 0 /\ e # 0 => power(x, e) = 0
<1> DEFINE step == [k \in 1..e |-> [a \in Nat |-> x * a]]
           s == CHOOSE h : Raised(h, x, e)
<1>1. power(x, e) = s[e]
  BY DEF power, Raised
<1>2. \E h : Raised(h, x, e)
  <2>1. step \in [1..e -> [Nat -> Nat]]
    OBVIOUS
  <2>2. \A k \in 1..e, a \in Nat : step[k][a] = x * a
    OBVIOUS
  <2> HIDE DEF step
  <2>3. PICK h \in [0..e -> Nat] : Follows(h, e, 1, step)
    BY <2>1, Recursion
  <2>4. \A k \in 1..e : h[k] = x * h[k - 1]
    <3> TAKE k \in 1..e
    <3>1. h[k - 1] \in Nat /\ h[k] = step[k][h[k - 1]]
      BY <2>3 DEF Follows
    <3> QED
      BY <2>2, <3>1
  <2>5. h = [k \in 0..e |-> IF k = 0 THEN 1 ELSE x * h[k - 1]]
    BY <2>3, <2>4 DEF Follows
  <2> QED
    BY <2>5 DEF Raised
<1>3. Raised(s, x, e)
  BY <1>2
<1> HIDE DEF s
<1>4. s[0] = 1 /\ \A k \in 1..e : s[k] = x * s[k - 1]
  <2>1. s = [k \in 0..e |-> IF k = 0 THEN 1 ELSE x * s[k - 1]]
    BY <1>3 DEF Raised
  <2> QED
    BY <2>1
<1> DEFINE T == {k \in 0..e : s[k] \in Nat}
<1>5. 0 \in T
  BY <1>4
<1>6. ASSUME NEW k \in 1..e, k - 1 \in T
      PROVE  k \in T
  <2>1. s[k - 1] \in Nat
    BY <1>6
  <2>2. x * s[k - 1] \in Nat
    BY <2>1, SMT
  <2> QED
    BY <1>4, <2>2
<1>7. \A k \in 0..e : k \in T
  <2> HIDE DEF T
  <2> QED
    BY <1>5, <1>6, UpTo
<1>8. \A k \in 0..e : s[k] \in Nat
  BY <1>7
<1>9. x = 0 /\ e # 0 => s[e] = 0
  <2> HAVE x = 0 /\ e # 0
  <2>1. s[e] = x * s[e - 1] /\ s[e - 1] \in Nat
    BY <1>4, <1>8
  <2> QED
    BY <2>1, SMT
<1> QED
  BY <1>1, <1>4, <1>8, <1>9

LEMMA SmallModuli ==
  /\ \A m \in Nat : m >= 2 => 1 % m = 1 /\ 0 % m = 0
  /\ \A x \in Nat : x % 1 = 0
  /\ \A m \in Nat \ {0} : 0 % m = 0
<1>1. \A x \in Nat : x % 1 = 0
  BY SMT
<1>2. \A m \in Nat \ {0} : 0 % m = 0
  BY SMT
<1>3. \A m \in Nat : m >= 2 => 1 % m = 1
  BY SMT
<1> QED
  BY <1>1, <1>2, <1>3

(* Where the code takes the special cases of the specification, the value it *)
(* writes is the specified one.                                              *)
ModexpBytes(in, n) ==
  /\ n \in Nat /\ in.data \in [1..n -> Nat]
  /\ in.bL \in Nat /\ in.eL \in Nat /\ in.mL \in Nat /\ in.header \in Nat
  /\ in.mL # 0 => in.header = Header

AllZero(bytes, k) == \A i \in 1..k : bytes[i] = 0

LEMMA PaddedFacts ==
  ASSUME NEW n \in Nat, NEW data \in [1..n -> Nat], NEW skip \in Nat, NEW k \in Nat
  PROVE  /\ PaddedBytes(data, skip, k) \in [1..k -> Nat]
         /\ skip >= n => AllZero(PaddedBytes(data, skip, k), k)
<1>1. Len(data) = n
  OBVIOUS
<1>2. \A i \in 1..k : (IF skip + i <= n THEN data[skip + i] ELSE 0) \in Nat
  OBVIOUS
<1>3. PaddedBytes(data, skip, k) = [i \in 1..k |-> IF skip + i <= n THEN data[skip + i] ELSE 0]
  BY <1>1 DEF PaddedBytes
<1>4. skip >= n => \A i \in 1..k : PaddedBytes(data, skip, k)[i] = 0
  BY <1>3
<1> QED
  BY <1>2, <1>3, <1>4 DEF AllZero

Sliced(data, skip, k) == SubSeq(data, skip + 1, skip + k) = PaddedBytes(data, skip, k)

LEMMA UnpaddedBytes ==
  ASSUME NEW n \in Nat, NEW data \in [1..n -> Nat], NEW skip \in Nat, NEW k \in Nat,
         skip + k <= n
  PROVE  Sliced(data, skip, k)
<1>1. Len(data) = n /\ data \in Seq(Nat)
  OBVIOUS
<1>2. PaddedBytes(data, skip, k) = [i \in 1..k |-> IF skip + i <= n THEN data[skip + i] ELSE 0]
  BY <1>1 DEF PaddedBytes
<1>3. SubSeq(data, skip + 1, skip + k) = [i \in 1 .. ((skip + k) - (skip + 1)) + 1 |-> data[i + (skip + 1) - 1]]
  BY <1>1
<1>4. ((skip + k) - (skip + 1)) + 1 = k
  OBVIOUS
<1>5. \A i \in 1..k : i + (skip + 1) - 1 = skip + i /\ skip + i <= n
  OBVIOUS
<1>6. SubSeq(data, skip + 1, skip + k) = PaddedBytes(data, skip, k)
  BY <1>2, <1>3, <1>4, <1>5
<1> QED
  BY <1>6 DEF Sliced

(* Lengths that an int holds are what the casts leave, and the sums of those *)
(* that fit are exact.                                                       *)
LEMMA SignedLengths ==
  \A w \in Nat : /\ w <= MaxInt => Signed(w) = w
                 /\ w < Word => Unsigned(Signed(w)) = w
BY MaxIntAssumption, SMT DEF Signed, Unsigned, Word

LEMMA FittingStops ==
  ASSUME NEW in, in.bL \in Nat, in.eL \in Nat, Fitting(in)
  PROVE  /\ baseStop(in) = Header + in.bL
         /\ expStop(in) = Header + in.bL + in.eL
         /\ Signed(in.bL) = in.bL /\ Signed(in.eL) = in.eL
<1> DEFINE bL == in.bL
           eL == in.eL
<1>1. bL \in Nat /\ eL \in Nat /\ Header + bL + eL <= MaxInt /\ Header = 96 /\ MaxInt \in Nat
  BY MaxIntAssumption DEF Fitting, Header
<1>2. baseStop(in) = Wrapped(Header + Signed(bL))
  BY DEF baseStop, Plus
<1>3. expStop(in) = Wrapped(baseStop(in) + Signed(eL))
  BY DEF expStop, Plus
<1>4. Signed(bL) = bL /\ Signed(eL) = eL
  <2>1. bL <= MaxInt /\ eL <= MaxInt
    BY <1>1
  <2> QED
    BY <1>1, <2>1, SignedLengths
<1>5. \A i \in Nat : i <= MaxInt => Wrapped(i) = i
  BY <1>1 DEF Wrapped
<1>6. baseStop(in) = Header + bL
  BY <1>1, <1>2, <1>4, <1>5
<1>7. expStop(in) = Header + bL + eL
  BY <1>1, <1>3, <1>4, <1>5, <1>6
<1> QED
  BY <1>4, <1>6, <1>7

(* The value of a call whose base and exponent end where an int can say.     *)
ModexpChosen(in) ==
  IF Header + in.bL + in.eL >= InputLen(in) \/ in.mL = 0 THEN 0
  ELSE IF in.eL = 0 THEN 1
  ELSE IF in.bL = 0 THEN 0
  ELSE powMod_vartime(Number(SubSeq(in.data, 1, in.bL)),
                      Number(SubSeq(in.data, in.bL + 1, in.bL + in.eL)),
                      Number(PaddedBytes(in.data, in.bL + in.eL, in.mL)))

LEMMA ModexpOneValue ==
  ASSUME NEW in, in.bL \in Nat, in.eL \in Nat, Fitting(in)
  PROVE  modexp_values(in) = {ModexpChosen(in)}
<1> DEFINE power1 == powMod_vartime(Number(SubSeq(in.data, 1, in.bL)),
                      Number(SubSeq(in.data, in.bL + 1, in.bL + in.eL)),
                      Number(PaddedBytes(in.data, in.bL + in.eL, in.mL)))
           missing == Header + in.bL + in.eL >= InputLen(in)
<1>1. ModulusIsMissing(in) <=> missing
  BY FittingStops DEF ModulusIsMissing
<1>2. SpecialCase(in) <=> missing \/ in.mL = 0 \/ in.eL = 0 \/ in.bL = 0
  BY <1>1 DEF SpecialCase
<1>3. modexp_values(in) =
        IF SpecialCase(in) THEN {IF ~ModulusIsMissing(in) /\ in.mL # 0 /\ in.eL = 0 THEN 1 ELSE 0}
        ELSE {power1}
  BY DEF modexp_values
<1>4. ModexpChosen(in) = IF missing \/ in.mL = 0 THEN 0 ELSE IF in.eL = 0 THEN 1
                         ELSE IF in.bL = 0 THEN 0 ELSE power1
  BY DEF ModexpChosen
<1> HIDE DEF power1, missing
<1>5. CASE SpecialCase(in)
  BY <1>1, <1>2, <1>3, <1>4, <1>5
<1>6. CASE ~SpecialCase(in)
  BY <1>1, <1>2, <1>3, <1>4, <1>6
<1> QED
  BY <1>5, <1>6

LEMMA ModexpValue ==
  ASSUME NEW in, NEW n, ModexpBytes(in, n), ~ModexpCorner(in)
  PROVE  ModexpChosen(in) = ModexpTruth(in)
<1> DEFINE data == in.data
           bL == in.bL
           eL == in.eL
           mL == in.mL
           B == PaddedBytes(data, 0, bL)
           E == PaddedBytes(data, bL, eL)
           Mo == PaddedBytes(data, bL + eL, mL)
           b == Number(B)
           e == Number(E)
           m == Number(Mo)
           short == bL + eL >= n
<1>1. /\ n \in Nat /\ data \in [1..n -> Nat] /\ Len(data) = n
      /\ bL \in Nat /\ eL \in Nat /\ mL \in Nat /\ bL + eL \in Nat
  BY DEF ModexpBytes
<1>2. mL = 0 \/ (Header + bL + eL >= InputLen(in) <=> short)
  BY <1>1 DEF ModexpBytes, InputLen, Header
<1>3. ModexpTruth(in) = IF m = 0 THEN 0 ELSE power(b, e) % m
  BY DEF ModexpTruth
<1>4. ModexpChosen(in) =
        IF Header + bL + eL >= InputLen(in) \/ mL = 0 THEN 0
        ELSE IF eL = 0 THEN 1
        ELSE IF bL = 0 THEN 0
        ELSE powMod_vartime(Number(SubSeq(data, 1, bL)), Number(SubSeq(data, bL + 1, bL + eL)), m)
  BY DEF ModexpChosen
<1>5. /\ eL = 0 => ~(Number(PaddedBytes(data, bL, mL)) < 2)
      /\ bL = 0 /\ eL # 0 => Number(PaddedBytes(data, 0, eL)) # 0
  BY DEF ModexpCorner
<1> DEFINE sub1 == SubSeq(data, 1, bL)
           sub2 == SubSeq(data, bL + 1, bL + eL)
<1> HIDE DEF data, bL, eL, mL
<1>6. /\ B \in [1..bL -> Nat] /\ E \in [1..eL -> Nat] /\ Mo \in [1..mL -> Nat]
      /\ short => \A i \in 1..mL : Mo[i] = 0
  <2>1. B \in [1..bL -> Nat]
    BY <1>1, PaddedFacts
  <2>2. E \in [1..eL -> Nat]
    BY <1>1, PaddedFacts
  <2>3. Mo \in [1..mL -> Nat] /\ (bL + eL >= n => \A i \in 1..mL : Mo[i] = 0)
    <3> DEFINE skip == bL + eL
    <3>1. skip \in Nat
      BY <1>1
    <3> HIDE DEF skip
    <3>2. /\ PaddedBytes(data, skip, mL) \in [1..mL -> Nat]
          /\ skip >= n => AllZero(PaddedBytes(data, skip, mL), mL)
      BY <1>1, <3>1, PaddedFacts
    <3> QED
      BY <3>2 DEF skip, AllZero
  <2> QED
    BY <2>1, <2>2, <2>3
<1>7. ~short => sub1 = B /\ sub2 = E
  <2> HAVE ~short
  <2>1. 0 \in Nat /\ 0 + bL <= n /\ bL + eL <= n
    BY <1>1
  <2>2. Sliced(data, 0, bL) /\ Sliced(data, bL, eL)
    BY <1>1, <2>1, UnpaddedBytes
  <2>3. 0 + 1 = 1 /\ 0 + bL = bL
    BY <1>1
  <2> QED
    BY <2>2, <2>3 DEF Sliced
<1>8. eL = 0 => bL + eL = bL
  BY <1>1
<1>9. /\ eL = 0 => ~(m < 2)
      /\ bL = 0 /\ eL # 0 => e # 0
  BY <1>5, <1>8
<1> HIDE DEF B, E, Mo, sub1, sub2
<1>10. /\ b \in Nat /\ e \in Nat /\ m \in Nat
       /\ bL = 0 => b = 0
       /\ eL = 0 => e = 0
       /\ mL = 0 \/ short => m = 0
  BY <1>1, <1>6, NumberFacts
<1>11. ModexpChosen(in) =
         IF mL = 0 \/ short THEN 0
         ELSE IF eL = 0 THEN 1 ELSE IF bL = 0 THEN 0 ELSE powMod_vartime(b, e, m)
  <2>1. ModexpChosen(in) =
        IF Header + bL + eL >= InputLen(in) \/ mL = 0 THEN 0
        ELSE IF eL = 0 THEN 1
        ELSE IF bL = 0 THEN 0
        ELSE powMod_vartime(Number(sub1), Number(sub2), m)
    BY <1>4 DEF sub1, sub2
  <2> HIDE DEF short, m
  <2> QED
    BY <1>2, <1>7, <2>1
<1> HIDE DEF b, e, m, short
<1> DEFINE p == power(b, e)
<1>12. /\ p \in Nat
       /\ e = 0 => p = 1
       /\ b = 0 /\ e # 0 => p = 0
  BY <1>10, PowerFacts
<1>13. m = 0 \/ m = 1 \/ m >= 2
  BY <1>10
<1>14. powMod_vartime(b, e, m) = IF m < 2 THEN 0 ELSE IF e = 0 THEN 1 ELSE p % m
  <2>1. CASE m < 2
    <3>1. ~(m >= 2)
      BY <1>10, <2>1
    <3> QED
      BY <2>1, <3>1, Zenon DEF powMod_vartime
  <2>2. CASE ~(m < 2)
    <3>1. m >= 2
      BY <1>10, <2>2
    <3> QED
      BY <2>2, <3>1, Zenon DEF powMod_vartime
  <2> QED
    BY <2>1, <2>2
<1> HIDE DEF p
<1>15. powMod_vartime(b, e, m) = IF m = 0 THEN 0 ELSE p % m
  <2>1. CASE m = 0
    BY <1>14, <2>1
  <2>2. CASE m = 1
    <3>1. p % m = 0
      BY <1>12, <2>2, SmallModuli
    <3> QED
      BY <1>14, <2>2, <3>1
  <2>3. CASE m >= 2
    <3>1. e = 0 => p % m = 1
      BY <1>10, <1>12, <2>3, SmallModuli
    <3> QED
      BY <1>10, <1>14, <2>3, <3>1
  <2> QED
    BY <1>13, <2>1, <2>2, <2>3
<1>16. ModexpTruth(in) = IF m = 0 THEN 0 ELSE p % m
  BY <1>3 DEF p, b, e, m, B, E, M, data, bL, eL, mL
<1>17. CASE mL = 0 \/ short
  BY <1>10, <1>11, <1>16, <1>17
<1>18. CASE ~(mL = 0 \/ short) /\ eL = 0
  <2>1. m >= 2 /\ p = 1
    BY <1>9, <1>10, <1>12, <1>18
  <2>2. p % m = 1
    BY <1>10, <2>1, SmallModuli
  <2> QED
    BY <1>10, <1>11, <1>16, <1>18, <2>1, <2>2
<1>19. CASE ~(mL = 0 \/ short) /\ eL # 0 /\ bL = 0
  <2>1. p = 0
    BY <1>9, <1>10, <1>12, <1>19
  <2>2. m # 0 => p % m = 0
    BY <1>10, <2>1, SmallModuli
  <2> QED
    BY <1>11, <1>16, <1>19, <2>2
<1>20. CASE ~(mL = 0 \/ short) /\ eL # 0 /\ bL # 0
  BY <1>11, <1>15, <1>16, <1>20
<1> QED
  BY <1>17, <1>18, <1>19, <1>20

-----------------------------------------------------------------------------
(* The two calls of MODEXP: what the first one leaves for the second.        *)
ModexpSized ==
  Made /\ call.given.crate = "evm" /\ call.given.op = "modexp_size" =>
    /\ call.given.in \in ModexpInputs
    /\ call.ret.tag = "Ok" => call.ret.v = call.given.in.mL

LEMMA ModexpInput ==
  ASSUME NEW in \in ModexpInputs
  PROVE  \E n : ModexpBytes(in, n)
<1>1. /\ in.header \in Nat /\ in.bL \in Nat /\ in.eL \in Nat /\ in.mL \in Nat
      /\ in.data \in Sequences({0, 1, 3}, 3)
      /\ in.header \in {0, 64, Header} /\ (in.header < Header => in.mL = 0)
  <2>1. MaxInt \in Nat /\ MaxInt + 1 \in Nat /\ Word \in Nat /\ Word - 1 \in Nat
    BY MaxIntAssumption, SMT DEF Word
  <2> QED
    BY <2>1 DEF ModexpInputs, Header, HugeLen
<1>2. PICK n \in 0..3 : in.data \in [1..n -> {0, 1, 3}]
  BY <1>1 DEF Sequences
<1>3. in.data \in [1..n -> Nat]
  BY <1>2
<1>4. in.mL # 0 => in.header = Header
  BY <1>1 DEF Header
<1>5. n \in Nat
  OBVIOUS
<1> QED
  BY <1>1, <1>3, <1>4, <1>5 DEF ModexpBytes

(* The first call says how long the result is, or that a length needs more   *)
(* than a word.                                                              *)
LEMMA ModexpSizes ==
  ASSUME NEW in \in ModexpInputs
  PROVE  /\ in.bL \in Nat /\ in.eL \in Nat /\ in.mL \in Nat
         /\ in.mL # HugeLen => Unsigned(Signed(in.mL)) = in.mL
         /\ in.mL <= MaxInt => Signed(in.mL) = in.mL /\ in.mL # HugeLen
<1>1. /\ in.bL \in Nat /\ in.eL \in Nat /\ in.mL \in Nat
  BY ModexpInput DEF ModexpBytes
<1>2. in.mL \in {0, 1, 2, MaxInt + 1, HugeLen}
  BY DEF ModexpInputs
<1>3. in.mL # HugeLen => in.mL < Word
  <2>1. 0 < Word /\ 1 < Word /\ 2 < Word /\ MaxInt + 1 < Word
    BY MaxIntAssumption, SMT DEF Word
  <2> QED
    BY <1>2, <2>1
<1>4. in.mL <= MaxInt => in.mL # HugeLen
  <2>1. ~(Word <= MaxInt)
    BY MaxIntAssumption, SMT DEF Word
  <2> QED
    BY <2>1 DEF HugeLen
<1> QED
  BY <1>1, <1>3, <1>4, SignedLengths

LEMMA ModexpSizeCall ==
  ASSUME NEW in \in ModexpInputs, evm_modexp(in)
  PROVE  call'.given.crate = "evm" /\ OutputsWritten' /\ EvmAnswers' /\ ModexpSized'
<1> DEFINE status == modexp_result_size(in)
           filled == IF status = evmOk THEN {1} ELSE {}
           size == Unsigned(Signed(in.mL))
           ret == EvmResult(status, size)
           asked == ModexpAsked("modexp_size", in)
           huge == HugeLen \in {in.bL, in.eL, in.mL}
<1>1. /\ call'.filled = filled /\ call'.out = filled /\ call'.ret = ret /\ call'.given = asked
  BY DEF evm_modexp, Call
<1>2. /\ asked.crate = "evm" /\ asked.op = "modexp_size" /\ asked.in = in
      /\ huge => asked.faults = {"cttEVM_InvalidInputSize"}
  BY DEF ModexpAsked, BadSize
<1>3. IF in.mL = HugeLen THEN huge /\ status = "cttEVM_InvalidInputSize" ELSE status = evmOk
  BY DEF modexp_result_size
<1>4. in.mL # HugeLen => size = in.mL
  BY ModexpSizes
<1>5. ret = EvmResult(status, size)
  OBVIOUS
<1> HIDE DEF status, filled, ret, asked, huge, size
<1>6. ret = IF status = evmOk THEN Ok(size) ELSE Err(status)
  BY <1>3, <1>5, EvmNames, EvmRead DEF EvmResult
<1>7. OutputsWritten'
  BY <1>1 DEF OutputsWritten
<1>8. CASE in.mL = HugeLen
  <2>1. ret.tag = "Err" /\ ret.v = "cttEVM_InvalidInputSize"
    BY <1>3, <1>6, <1>8, EvmNames DEF Err
  <2>2. ret.tag # "Ok" /\ ret.tag # "Panic" /\ ret.v \in asked.faults
    BY <1>2, <1>3, <1>8, <2>1
  <2> QED
    BY <1>1, <1>2, <1>7, <2>2 DEF EvmAnswers, ModexpSized
<1>9. CASE in.mL # HugeLen
  <2>1. ret.tag = "Ok" /\ ret.v = in.mL
    BY <1>3, <1>4, <1>6, <1>9 DEF Ok
  <2>2. ret.tag # "Err" /\ ret.tag # "Panic"
    BY <2>1
  <2> QED
    BY <1>1, <1>2, <1>7, <2>1, <2>2 DEF EvmAnswers, ModexpSized
<1> QED
  BY <1>8, <1>9

LEMMA ModexpCall ==
  ASSUME NEW in \in ModexpInputs, call.given.in = in, call.ret.v = in.mL, evm_modexp_sized
  PROVE  call'.given.crate = "evm" /\ OutputsWritten' /\ EvmAnswers' /\ ModexpSized'
<1> DEFINE status == modexp_status(in, in.mL)
           asked == ModexpAsked("modexp", in)
           huge == HugeLen \in {in.bL, in.eL, in.mL}
           filled == IF status = evmOk THEN {1} ELSE {}
<1>1. \/ in.mL > MaxInt /\ call' = NotMade(Panic, asked)
      \/ /\ in.mL <= MaxInt
         /\ \E v \in modexp_values(in) :
              /\ call'.given = asked /\ call'.filled = filled /\ call'.out = filled
              /\ call'.ret = EvmResult(status, v)
  BY DEF evm_modexp_sized, Call
<1>2. /\ asked.crate = "evm" /\ asked.op = "modexp" /\ asked.in = in
      /\ huge => asked.faults = {"cttEVM_InvalidInputSize"}
      /\ ~huge => asked.faults = {}
      /\ ~huge /\ ~(in.mL > MaxInt) => asked.truth = ModexpTruth(in)
  BY DEF ModexpAsked, BadSize
<1>3. /\ huge => status = "cttEVM_InvalidInputSize"
      /\ ~huge /\ Signed(in.mL) = in.mL => status = evmOk
  BY DEF modexp_status
<1>4. huge \in BOOLEAN
  OBVIOUS
<1>5. Fitting(in) /\ ~ModexpCorner(in) => \A v \in modexp_values(in) : v = ModexpTruth(in)
  BY ModexpSizes, ModexpInput, ModexpValue, ModexpOneValue
<1> HIDE DEF status, asked, huge, filled
<1>6. CASE in.mL > MaxInt /\ call' = NotMade(Panic, asked)
  <2>1. call'.given = asked /\ call'.ret.tag = "Panic" /\ call'.out = {}
    BY <1>6 DEF NotMade, Call, Panic
  <2>2. OutputsWritten'
    BY <2>1 DEF OutputsWritten
  <2>3. call'.ret.tag # "Ok" /\ call'.ret.tag # "Err"
    BY <2>1
  <2> QED
    BY <1>2, <1>6, <2>1, <2>2, <2>3 DEF EvmAnswers, ModexpSized
<1>7. CASE /\ in.mL <= MaxInt
           /\ \E v \in modexp_values(in) :
                /\ call'.given = asked /\ call'.filled = filled /\ call'.out = filled
                /\ call'.ret = EvmResult(status, v)
  <2>1. PICK v \in modexp_values(in) :
          /\ call'.given = asked /\ call'.filled = filled /\ call'.out = filled
          /\ call'.ret = EvmResult(status, v)
    BY <1>7
  <2>2. ~(in.mL > MaxInt) /\ Signed(in.mL) = in.mL
    BY <1>7, ModexpSizes, MaxIntAssumption
  <2>3. status \in EvmStatuses
    BY <1>3, <1>4, <2>2, EvmNames
  <2>4. call'.ret = IF status = evmOk THEN Ok(v) ELSE Err(status)
    BY <2>1, <2>3, EvmRead DEF EvmResult
  <2>5. OutputsWritten'
    BY <2>1 DEF OutputsWritten
  <2>6. CASE huge
    <3>4. status = "cttEVM_InvalidInputSize" /\ status # evmOk
      BY <1>3, <2>6, EvmNames
    <3>5. call'.ret = Err(status)
      BY <2>4, <3>4, Zenon
    <3>1. call'.ret.tag = "Err" /\ call'.ret.v = "cttEVM_InvalidInputSize"
      BY <3>4, <3>5 DEF Err
    <3>2. "cttEVM_InvalidInputSize" \in asked.faults
      BY <1>2, <2>6
    <3>3. call'.ret.tag # "Ok" /\ call'.ret.tag # "Panic"
      BY <3>1
    <3> QED
      <4>1. EvmAnswers'
        BY <1>2, <2>1, <2>2, <3>1, <3>2, <3>3 DEF EvmAnswers
      <4>2. ModexpSized'
        BY <1>2, <2>1 DEF ModexpSized
      <4> QED
        BY <1>2, <2>1, <2>5, <4>1, <4>2
  <2>7. CASE ~huge
    <3>1. call'.ret.tag = "Ok" /\ call'.ret.v = v
      BY <1>3, <2>2, <2>4, <2>7 DEF Ok
    <3>2. asked.faults = {} /\ asked.truth = ModexpTruth(in)
      BY <1>2, <2>2, <2>7
    <3>3. call'.ret.tag # "Err" /\ call'.ret.tag # "Panic"
      BY <3>1
    <3>4. Fitting(in) /\ ~ModexpCorner(in) => v = ModexpTruth(in)
      BY <1>5
    <3> QED
      BY <1>2, <2>1, <2>2, <2>5, <3>1, <3>2, <3>3, <3>4 DEF EvmAnswers, ModexpSized
  <2> QED
    BY <1>4, <2>6, <2>7
<1> QED
  BY <1>1, <1>6, <1>7

(* Every call of a precompile, with the inputs that EvmCall tries.           *)
EvmCovered ==
  call'.given.crate = "evm" /\ OutputsWritten' /\ EvmAnswers' /\ ModexpSized'

LEMMA RightCovered == EvmRight => EvmCovered
BY DEF EvmRight, EvmCovered, ModexpSized

LEMMA PointLists ==
  ASSUME NEW n \in Nat, NEW ps
  PROVE  /\ ps \in [1..n -> AnyPoints] => PointList(ps, n)
         /\ ps \in [1..n -> Bn254G1] => PointList(ps, n) /\ \A i \in 1..n : InSubgroup(ps[i])
<1>1. ASSUME DOMAIN ps = 1..n, \A i \in 1..n : RawPoint(ps[i]), NEW S, ps \in [1..n -> S]
      PROVE  PointList(ps, n)
  <2>1. Len(ps) = n
    BY <1>1
  <2> QED
    BY <1>1, <2>1 DEF PointList
<1>2. ASSUME ps \in [1..n -> AnyPoints]
      PROVE  PointList(ps, n)
  BY <1>1, <1>2, PointsRead
<1>3. ASSUME ps \in [1..n -> Bn254G1]
      PROVE  PointList(ps, n) /\ \A i \in 1..n : InSubgroup(ps[i])
  BY <1>1, <1>3, PointsRead
<1> QED
  BY <1>2, <1>3

LEMMA ListPrecompiles ==
  /\ \A n \in 0..MaxItems, over \in {0, 1} :
       \A ps \in [1..n -> AnyPoints], ss \in [1..n -> {0, 1, EvmOrder + 1}] :
         evm_bls12381_g1msm(over, ps, ss) \/ evm_bls12381_g2msm(over, ps, ss) => EvmRight
  /\ \A n \in 0..MaxItems, whole \in BOOLEAN : \A qs \in [1..n -> AnyPoints] :
       /\ \A ps \in [1..n -> Bn254G1] : evm_bn254_ec_pairing_check(whole, ps, qs) => EvmRight
       /\ \A ps \in [1..n -> AnyPoints] : evm_bls12381_pairing_check(whole, ps, qs) => EvmRight
<1>1. ASSUME NEW n \in 0..MaxItems, NEW over \in {0, 1}, NEW ps \in [1..n -> AnyPoints],
             NEW ss \in [1..n -> {0, 1, EvmOrder + 1}],
             evm_bls12381_g1msm(over, ps, ss) \/ evm_bls12381_g2msm(over, ps, ss)
      PROVE  EvmRight
  <2>1. n \in Nat
    BY MaxItemsAssumption
  <2>2. PointList(ps, n)
    BY <2>1, PointLists
  <2>3. DOMAIN ps = 1..n /\ Len(ps) = n /\ \A i \in 1..n : RawPoint(ps[i])
    BY <2>2 DEF PointList
  <2>4. ss \in [1..n -> Int]
    BY CurveFacts
  <2> DEFINE len1 == 160 * Len(ps) + over
             len2 == 288 * Len(ps) + over
  <2>5. len1 \in Int /\ len2 \in Int
    BY <2>1, <2>3
  <2>6. \/ Msm("ctt_eth_evm_bls12381_g1msm", 160, 128, len1, ps, ss)
        \/ Msm("ctt_eth_evm_bls12381_g2msm", 288, 256, len2, ps, ss)
    BY <1>1 DEF evm_bls12381_g1msm, evm_bls12381_g2msm
  <2> HIDE DEF len1, len2
  <2> QED
    BY <2>1, <2>3, <2>4, <2>5, <2>6, MsmAnswers, SMTT(30)
<1>2. ASSUME NEW n \in 0..MaxItems, NEW whole \in BOOLEAN, NEW qs \in [1..n -> AnyPoints],
             NEW ps \in [1..n -> Bn254G1], evm_bn254_ec_pairing_check(whole, ps, qs)
      PROVE  EvmRight
  <2>1. n \in Nat
    BY MaxItemsAssumption
  <2>2. PointList(qs, n) /\ PointList(ps, n) /\ \A i \in 1..n : InSubgroup(ps[i])
    BY <2>1, PointLists
  <2> QED
    BY <1>2, <2>2, Bn254PairingAnswers
<1>3. ASSUME NEW n \in 0..MaxItems, NEW whole \in BOOLEAN, NEW qs \in [1..n -> AnyPoints],
             NEW ps \in [1..n -> AnyPoints], evm_bls12381_pairing_check(whole, ps, qs)
      PROVE  EvmRight
  <2>1. n \in Nat
    BY MaxItemsAssumption
  <2>2. PointList(qs, n) /\ PointList(ps, n)
    BY <2>1, PointLists
  <2> QED
    BY <1>3, <2>2, Bls12381PairingAnswers
<1> QED
  BY <1>1, <1>2, <1>3

LEMMA PointPrecompiles ==
  /\ \A len : evm_ripemd160(len) \/ evm_sha256(len) => EvmRight
  /\ \A len : \A p, q \in Bn254G1 : evm_bn254_g1add(len, p, q) => EvmRight
  /\ \A len : \A p \in Bn254G1, s \in EvmScalars : evm_bn254_g1mul(len, p, s) => EvmRight
  /\ \A len \in Int : \A p, q \in AnyPoints :
       evm_bls12381_g1add(len, p, q) \/ evm_bls12381_g2add(len, p, q) => EvmRight
  /\ \A len \in Int : \A p \in AnyPoints, s \in EvmScalars :
       evm_bls12381_g1mul(len, p, s) \/ evm_bls12381_g2mul(len, p, s) => EvmRight
  /\ \A len \in Int : \A u \in FieldBytes : evm_bls12381_map_fp_to_g1(len, u) => EvmRight
  /\ \A len \in Int : \A u0, u1 \in FieldBytes : evm_bls12381_map_fp2_to_g2(len, u0, u1) => EvmRight
<1>1. /\ \A p \in AnyPoints : RawPoint(p)
      /\ \A p \in Bn254G1 : RawPoint(p) /\ InSubgroup(p)
      /\ \A s \in EvmScalars : s \in Int
  BY PointsRead, CurveFacts DEF EvmScalars
<1>2. \A len : evm_ripemd160(len) \/ evm_sha256(len) => EvmRight
  BY HashAnswers
<1>3. \A len : \A p, q \in Bn254G1 : evm_bn254_g1add(len, p, q) => EvmRight
  BY <1>1, AddAnswers
<1>4. \A len : \A p \in Bn254G1, s \in EvmScalars : evm_bn254_g1mul(len, p, s) => EvmRight
  BY <1>1, MulAnswers
<1>5. \A len \in Int : \A p, q \in AnyPoints :
        evm_bls12381_g1add(len, p, q) \/ evm_bls12381_g2add(len, p, q) => EvmRight
  BY <1>1, SumAnswers DEF evm_bls12381_g1add, evm_bls12381_g2add
<1>6. \A len \in Int : \A p \in AnyPoints, s \in EvmScalars :
        evm_bls12381_g1mul(len, p, s) \/ evm_bls12381_g2mul(len, p, s) => EvmRight
  BY <1>1, CheckedMulAnswers DEF evm_bls12381_g1mul, evm_bls12381_g2mul
<1>7. \A len \in Int : \A u \in FieldBytes : evm_bls12381_map_fp_to_g1(len, u) => EvmRight
  <2> TAKE len \in Int
  <2> TAKE u \in FieldBytes
  <2> DEFINE us == <<u>>
  <2>1. us \in Seq(FieldBytes)
    BY DEF FieldBytes
  <2>2. evm_bls12381_map_fp_to_g1(len, u) => MapTo("ctt_eth_evm_bls12381_map_fp_to_g1", 64, 128, len, us)
    BY DEF evm_bls12381_map_fp_to_g1
  <2> HIDE DEF us
  <2> QED
    BY <2>1, <2>2, MapAnswers
<1>8. \A len \in Int : \A u0, u1 \in FieldBytes : evm_bls12381_map_fp2_to_g2(len, u0, u1) => EvmRight
  <2> TAKE len \in Int
  <2> TAKE u0, u1 \in FieldBytes
  <2> DEFINE us == <<u0, u1>>
  <2>1. us \in Seq(FieldBytes)
    BY DEF FieldBytes
  <2>2. evm_bls12381_map_fp2_to_g2(len, u0, u1) => MapTo("ctt_eth_evm_bls12381_map_fp2_to_g2", 128, 256, len, us)
    BY DEF evm_bls12381_map_fp2_to_g2
  <2> HIDE DEF us
  <2> QED
    BY <2>1, <2>2, MapAnswers
<1> QED
  BY <1>2, <1>3, <1>4, <1>5, <1>6, <1>7, <1>8

LEMMA EvmCallCovered ==
  ASSUME ModexpSized, EvmCall
  PROVE  EvmCovered
<1>1. CASE \E len \in {0, 1, 64} : evm_ripemd160(len) \/ evm_sha256(len)
  BY <1>1, PointPrecompiles, RightCovered
<1>2. CASE \E in \in ModexpInputs : evm_modexp(in)
  BY <1>2, ModexpSizeCall DEF EvmCovered
<1>3. CASE \E len \in {0, 64, 128, 130}, p, q \in Bn254G1 : evm_bn254_g1add(len, p, q)
  BY <1>3, PointPrecompiles, RightCovered
<1>4. CASE \E len \in {0, 64, 96, 97}, p \in Bn254G1, s \in EvmScalars : evm_bn254_g1mul(len, p, s)
  BY <1>4, PointPrecompiles, RightCovered
<1>5. CASE \E p, q \in AnyPoints :
             \/ \E len \in {255, 256} : evm_bls12381_g1add(len, p, q)
             \/ \E len \in {511, 512} : evm_bls12381_g2add(len, p, q)
  BY <1>5, PointPrecompiles, RightCovered
<1>6. CASE \E p \in AnyPoints, s \in EvmScalars :
             \/ \E len \in {159, 160} : evm_bls12381_g1mul(len, p, s)
             \/ \E len \in {288, 289} : evm_bls12381_g2mul(len, p, s)
  BY <1>6, PointPrecompiles, RightCovered
<1>7. CASE \E n \in 0..MaxItems, over \in {0, 1} :
             \E ps \in [1..n -> AnyPoints], ss \in [1..n -> {0, 1, EvmOrder + 1}] :
               evm_bls12381_g1msm(over, ps, ss) \/ evm_bls12381_g2msm(over, ps, ss)
  BY <1>7, ListPrecompiles, RightCovered
<1>8. CASE \E n \in 0..MaxItems, whole \in BOOLEAN : \E qs \in [1..n -> AnyPoints] :
             \/ \E ps \in [1..n -> Bn254G1] : evm_bn254_ec_pairing_check(whole, ps, qs)
             \/ \E ps \in [1..n -> AnyPoints] : evm_bls12381_pairing_check(whole, ps, qs)
  BY <1>8, ListPrecompiles, RightCovered
<1>9. CASE \E len \in {63, 64}, u \in FieldBytes : evm_bls12381_map_fp_to_g1(len, u)
  BY <1>9, PointPrecompiles, RightCovered
<1>10. CASE \E len \in {128, 129}, u0, u1 \in FieldBytes : evm_bls12381_map_fp2_to_g2(len, u0, u1)
  BY <1>10, PointPrecompiles, RightCovered
<1>11. CASE Made /\ call.given.crate = "evm" /\ evm_modexp_sized
  <2>1. call.given.op = "modexp_size" /\ call.ret.tag = "Ok"
    BY <1>11 DEF evm_modexp_sized
  <2>2. call.given.in \in ModexpInputs /\ call.ret.v = call.given.in.mL
    BY <1>11, <2>1 DEF ModexpSized
  <2> QED
    BY <1>11, <2>2, ModexpCall DEF EvmCovered
<1> QED
  BY <1>1, <1>2, <1>3, <1>4, <1>5, <1>6, <1>7, <1>8, <1>9, <1>10, <1>11, SMTT(30) DEF EvmCall

-----------------------------------------------------------------------------
(* The program: every call, whatever crate it is of.                         *)
OfKzg == call'.given.crate = "kzg"

LEMMA NotMadeGiven ==
  ASSUME NEW ret, NEW asked, call' = NotMade(ret, asked), asked.crate = "kzg"
  PROVE  OfKzg
BY DEF NotMade, Call, OfKzg

LEMMA InvokeGiven ==
  ASSUME NEW o, NEW par, NEW fn, NEW args, NEW reach, NEW outs, NEW status, NEW ret, NEW asked,
         Invoke(o, par, fn, args, reach, outs, status, ret, asked), asked.crate = "kzg"
  PROVE  OfKzg
<1> DEFINE panics == par /\ tp[o] = Nil
<1>1. CASE panics
  <2>1. call' = NotMade(Panic, asked)
    BY <1>1 DEF Invoke
  <2> QED
    BY <2>1, NotMadeGiven
<1>2. CASE ~panics
  BY <1>2 DEF Invoke, Call, OfKzg
<1> QED
  BY <1>1, <1>2

LEMMA SerialGiven ==
  ASSUME NEW o, NEW fn, NEW args, NEW reach, NEW outs, NEW status, NEW ret, NEW asked,
         Serially(o, fn, args, reach, outs, status, ret, asked), asked.crate = "kzg"
  PROVE  OfKzg
BY InvokeGiven DEF Serially

LEMMA SingleGiven ==
  ASSUME NEW o, NEW blob
  PROVE  /\ \A par : blob_to_kzg_commitment(o, par, blob) => OfKzg
         /\ \A par, z : compute_kzg_proof(o, par, blob, z) => OfKzg
         /\ \A par, c : compute_blob_kzg_proof(o, par, blob, c) => OfKzg
         /\ \A par, c, p : verify_blob_kzg_proof(o, par, blob, c, p) => OfKzg
         /\ compute_cells_and_kzg_proofs(o, blob) => OfKzg
<1>1. ASSUME NEW par, blob_to_kzg_commitment(o, par, blob)
      PROVE  OfKzg
  <2> DEFINE asked == Asked(o, FALSE, par, Range(blob), {}, "", TRUE)
  <2>1. asked.crate = "kzg"
    BY DEF Asked
  <2> HIDE DEF asked
  <2> QED
    BY <1>1, <2>1, InvokeGiven DEF blob_to_kzg_commitment, asked
<1>2. ASSUME NEW par, NEW z, compute_kzg_proof(o, par, blob, z)
      PROVE  OfKzg
  <2> DEFINE asked == Asked(o, FALSE, par, Range(blob) \union {z}, {}, "", TRUE)
  <2>1. asked.crate = "kzg"
    BY DEF Asked
  <2>2. PICK conv \in blob_to_polynomial(par, blob) :
          Invoke(o, par, "ctt_eth_kzg_compute_kzg_proof",
               <<point_bytes, scalar_bytes, blob_bytes, scalar_bytes>>, <<1, 1, 1, 1>>,
               {1, 2}, FirstError(kzgOk, <<Scalar(z), conv>>),
               Computed(FirstError(kzgOk, <<Scalar(z), conv>>)), asked)
    BY <1>2, Zenon DEF compute_kzg_proof
  <2> HIDE DEF asked
  <2> QED
    BY <2>1, <2>2, InvokeGiven
<1>3. ASSUME NEW par, NEW c, compute_blob_kzg_proof(o, par, blob, c)
      PROVE  OfKzg
  <2> DEFINE asked == Asked(o, FALSE, par, Range(blob), {c}, "", TRUE)
  <2>1. asked.crate = "kzg"
    BY DEF Asked
  <2>2. PICK conv \in blob_to_polynomial(par, blob) :
          Invoke(o, par, "ctt_eth_kzg_compute_blob_kzg_proof",
               <<point_bytes, blob_bytes, point_bytes>>, <<1, 1, 1>>,
               {1}, FirstError(kzgOk, <<Point(c), conv>>),
               Computed(FirstError(kzgOk, <<Point(c), conv>>)), asked)
    BY <1>3, Zenon DEF compute_blob_kzg_proof
  <2> HIDE DEF asked
  <2> QED
    BY <2>1, <2>2, InvokeGiven
<1>4. ASSUME NEW par, NEW c, NEW p, verify_blob_kzg_proof(o, par, blob, c, p)
      PROVE  OfKzg
  <2> DEFINE asked == Asked(o, TRUE, par, Range(blob), {c, p}, "",
                            c = kzg_commit(blob) /\ p = kzg_prove(blob, "one"))
             status(conv) ==
               LET decoded == FirstError(kzgOk, <<Point(c), Point(p), conv>>)
               IN  IF decoded # kzgOk THEN decoded ELSE Verdict(verify_blob(blob, c, p))
  <2>1. asked.crate = "kzg"
    BY DEF Asked
  <2>2. PICK conv \in blob_to_polynomial(par, blob) :
          Invoke(o, par, "ctt_eth_kzg_verify_blob_kzg_proof",
               <<blob_bytes, point_bytes, point_bytes>>, <<1, 1, 1>>,
               {}, status(conv), Verified(status(conv)), asked)
    BY <1>4, Zenon DEF verify_blob_kzg_proof
  <2> HIDE DEF asked, status
  <2> QED
    BY <2>1, <2>2, InvokeGiven
<1>5. ASSUME compute_cells_and_kzg_proofs(o, blob)
      PROVE  OfKzg
  <2> DEFINE asked == Asked(o, FALSE, FALSE, Range(blob), {}, "", TRUE)
  <2>1. asked.crate = "kzg"
    BY DEF Asked
  <2> HIDE DEF asked
  <2> QED
    BY <1>5, <2>1, SerialGiven DEF compute_cells_and_kzg_proofs, asked
<1> QED
  BY <1>1, <1>2, <1>3, <1>4, <1>5

LEMMA VerifyGiven ==
  ASSUME NEW o, NEW c, NEW z, NEW y, NEW p, verify_kzg_proof(o, c, z, y, p)
  PROVE  OfKzg
<1> DEFINE decoded == FirstError(kzgOk, <<Point(c), Scalar(z), Scalar(y), Point(p)>>)
           status == IF decoded # kzgOk THEN decoded ELSE Verdict(kzg_verify(c, z, y, p))
           asked == Asked(o, TRUE, FALSE, {z, y}, {c, p}, "", kzg_verify(c, z, y, p))
<1>1. asked.crate = "kzg"
  BY DEF Asked
<1>2. Serially(o, "ctt_eth_kzg_verify_kzg_proof",
             <<point_bytes, scalar_bytes, scalar_bytes, point_bytes>>, <<1, 1, 1, 1>>,
             {}, status, Verified(status), asked)
  BY DEF verify_kzg_proof
<1> HIDE DEF status, asked
<1> QED
  BY <1>1, <1>2, SerialGiven

LEMMA ListGiven ==
  ASSUME NEW o
  PROVE  /\ \A par, items, lens, seed :
              verify_blob_kzg_proof_batch(o, par, items, lens, seed) => OfKzg
         /\ \A items, lens : verify_cell_kzg_proof_batch(o, items, lens) => OfKzg
         /\ \A in, lens : recover_cells_and_kzg_proofs(o, in, lens) => OfKzg
<1>1. ASSUME NEW par, NEW items, NEW lens, NEW seed,
             verify_blob_kzg_proof_batch(o, par, items, lens, seed)
      PROVE  OfKzg
  <2> DEFINE asked == asked_batch(o, par, items, lens, seed)
             n == Len(items)
             args == <<Slice(n, 131072), Slice(n, 48), Slice(n, 48), Value(n), scalar_bytes>>
             reach == <<n, n, n, 0, 32>>
             status(decoded) == native_verify_batch(par, items, seed, decoded)
  <2>1. asked.crate = "kzg"
    BY DEF asked_batch, Asked
  <2>2. CASE ~Equal(lens)
    <3>1. call' = NotMade(LengthsMismatch, asked)
      BY <1>1, <2>2 DEF verify_blob_kzg_proof_batch
    <3> HIDE DEF asked
    <3> QED
      BY <2>1, <3>1, NotMadeGiven
  <2>3. CASE Equal(lens)
    <3>1. PICK decoded \in batch_statuses(par, items) :
            Invoke(o, par, "ctt_eth_kzg_verify_blob_kzg_proof_batch", args, reach, {},
                   status(decoded), Verified(status(decoded)), asked)
      BY <1>1, <2>3, SMTT(30) DEF verify_blob_kzg_proof_batch
    <3> HIDE DEF asked, args, reach, status
    <3> QED
      BY <2>1, <3>1, InvokeGiven
  <2> QED
    BY <2>2, <2>3
<1>2. ASSUME NEW items, NEW lens, verify_cell_kzg_proof_batch(o, items, lens)
      PROVE  OfKzg
  <2> DEFINE asked == asked_cells(o, items, lens)
             n == Len(items)
             args == <<Slice(n, 48), Memory(n, "u64"), Slice(n, 2048), Slice(n, 48), Value(n),
                       scalar_bytes>>
             reach == <<n, n, n, n, 0, 32>>
             status == native_verify_cells(items)
  <2>1. asked.crate = "kzg"
    BY DEF asked_cells, Asked
  <2>2. CASE ~Equal(lens)
    <3>1. call' = NotMade(LengthsMismatch, asked)
      BY <1>2, <2>2 DEF verify_cell_kzg_proof_batch
    <3> HIDE DEF asked
    <3> QED
      BY <2>1, <3>1, NotMadeGiven
  <2>3. CASE Equal(lens)
    <3>1. Serially(o, "ctt_eth_kzg_verify_cell_kzg_proof_batch", args, reach, {},
                   status, Verified(status), asked)
      BY <1>2, <2>3 DEF verify_cell_kzg_proof_batch
    <3> HIDE DEF asked, args, reach, status
    <3> QED
      BY <2>1, <3>1, SerialGiven
  <2> QED
    BY <2>2, <2>3
<1>3. ASSUME NEW in, NEW lens, recover_cells_and_kzg_proofs(o, in, lens)
      PROVE  OfKzg
  <2> DEFINE asked == asked_recover(o, in, lens)
             total == constants.consts.CTT_CELLS_PER_EXT_BLOB
             args == <<cells_box, proofs_box, Memory(in.n, "u64"), Slice(in.n, 2048), Value(in.n)>>
             reach == <<total, total, in.n, in.n, 0>>
             status == native_recover(in)
  <2>1. asked.crate = "kzg"
    BY DEF asked_recover, Asked
  <2>2. CASE ~Equal(lens)
    <3>1. call' = NotMade(LengthsMismatch, asked)
      BY <1>3, <2>2 DEF recover_cells_and_kzg_proofs
    <3> HIDE DEF asked
    <3> QED
      BY <2>1, <3>1, NotMadeGiven
  <2>3. CASE Equal(lens)
    <3>1. Serially(o, "ctt_eth_kzg_recover_cells_and_kzg_proofs", args, reach, {1, 2},
                   status, Computed(status), asked)
      BY <1>3, <2>3 DEF recover_cells_and_kzg_proofs
    <3> HIDE DEF asked, args, reach, status
    <3> QED
      BY <2>1, <3>1, SerialGiven
  <2> QED
    BY <2>2, <2>3
<1> QED
  BY <1>1, <1>2, <1>3

LEMMA KzgGiven ==
  ASSUME NEW o, KzgCall(o) \/ Sample(o)
  PROVE  call'.given.crate = "kzg"
<1>1. CASE Sample(o)
  BY <1>1, SingleGiven DEF Sample, OfKzg
<1>2. CASE KzgCall(o)
  <2>1. OfKzg
    BY <1>2, SingleGiven, VerifyGiven, ListGiven, Zenon DEF KzgCall
  <2> QED
    BY <2>1 DEF OfKzg
<1> QED
  BY <1>1, <1>2

(* What a call of any crate leaves.                                          *)
AllAnswers ==
  /\ OutputsWritten /\ KzgAnswers /\ CodecsCanonical /\ SignaturesAgree
  /\ EvmAnswers /\ ModexpSized

LEMMA NothingAnswered ==
  call = NoCall \/ call = Compiling => AllAnswers
BY DEF AllAnswers, Made, OutputsWritten, KzgAnswers, CodecsCanonical, SignaturesAgree,
       EvmAnswers, ModexpSized

LEMMA NothingAnsweredNext ==
  (call = NoCall)' => AllAnswers'
BY NothingAnswered, PTL

LEMMA AnswersStep ==
  ASSUME AllAnswers, [CratesNext]_vars
  PROVE  AllAnswers'
<1>1. ASSUME call'.given.crate = "kzg", OutputsWritten', KzgAnswers'
      PROVE  AllAnswers'
  BY <1>1 DEF AllAnswers, CodecsCanonical, SignaturesAgree, EvmAnswers, ModexpSized
<1>2. ASSUME EvmCovered
      PROVE  AllAnswers'
  BY <1>2 DEF EvmCovered, AllAnswers, KzgAnswers, CodecsCanonical, SignaturesAgree
<1>3. CASE Compile
  BY <1>3, NothingAnsweredNext DEF Compile
<1>4. CASE Contexts \/ Threadpools \/ UNCHANGED vars
  <2>1. call' = call
    BY <1>4 DEF Contexts, Threadpools, vars, program
  <2> QED
    BY <2>1 DEF AllAnswers, OutputsWritten, KzgAnswers, CodecsCanonical, SignaturesAgree,
                EvmAnswers, ModexpSized, Made
<1>5. CASE KzgCalls
  <2>1. PICK o \in Objs : KzgCall(o) \/ PointEvaluationCall(o) \/ Sample(o)
    BY <1>5 DEF KzgCalls
  <2>2. CASE KzgCall(o) \/ Sample(o)
    BY <1>1, <2>2, KzgGiven, KzgCallAnswers, SampleAnswers
  <2>3. CASE PointEvaluationCall(o)
    <3>1. PICK len \in {191, 192}, c \in Commitments, z \in Scalars, y \in Scalars, p \in Proofs :
            \E hashed \in {c, kzg_commit(zeroPoly)} :
              evm_kzg_point_evaluation(o, len, hashed, z, y, c, p)
      BY <2>3 DEF PointEvaluationCall
    <3>2. EvmRight
      BY <3>1, EvaluationAnswers
    <3> QED
      BY <1>2, <3>2, RightCovered
  <2> QED
    BY <2>1, <2>2, <2>3
<1>6. CASE BlsCalls
  <2>1. call'.given.crate = "bls" /\ BlsRight
    BY <1>6, BlsCallAnswers DEF BlsCalls
  <2> QED
    BY <2>1 DEF BlsRight, AllAnswers, KzgAnswers, EvmAnswers, ModexpSized
<1>7. CASE EvmCalls
  <2>1. ModexpSized /\ EvmCall
    BY <1>7 DEF EvmCalls, AllAnswers
  <2> QED
    BY <1>2, <2>1, EvmCallCovered
<1>8. CASE CoreCalls
  <2>1. call'.given.crate = "msm" /\ OutputsWritten'
    BY <1>8, CoreCallWritten DEF CoreCalls
  <2> QED
    BY <2>1 DEF AllAnswers, KzgAnswers, CodecsCanonical, SignaturesAgree, EvmAnswers,
       ModexpSized
<1>9. CASE Return
  BY <1>9, NothingAnsweredNext DEF Return
<1> QED
  BY <1>3, <1>4, <1>5, <1>6, <1>7, <1>8, <1>9 DEF CratesNext

LEMMA AnswersInvariant == CratesSpec => []AllAnswers
<1>1. CratesInit => AllAnswers
  BY NothingAnswered DEF CratesInit
<1> QED
  BY <1>1, AnswersStep, PTL DEF CratesSpec

(* The memory that a wrapper hands out as initialised, the library has       *)
(* written: in every crate, whatever status comes back, and also when the    *)
(* wrapper returns or panics before the call.                                *)
THEOREM OutputsWrittenTheorem == CratesSpec => []OutputsWritten
<1>1. AllAnswers => OutputsWritten
  BY DEF AllAnswers
<1> QED
  BY <1>1, AnswersInvariant, PTL

(* constantine-ethereum-kzg: for blobs and batches of any length, a method   *)
(* answers Err exactly when an input is malformed, with the status of a      *)
(* malformed input, serially or in parallel; a parallel method panics when,  *)
(* and only when, the context has no threadpool and the lengths agree, and   *)
(* verification answers the truth.                                           *)
THEOREM KzgAnswersTheorem == CratesSpec => []KzgAnswers
<1>1. AllAnswers => KzgAnswers
  BY DEF AllAnswers
<1> QED
  BY <1>1, AnswersInvariant, PTL

(* constantine-ethereum-bls-sig: the decoders accept exactly what the        *)
(* serializers write, one encoding for each point, and validation accepts    *)
(* exactly the non-neutral points of the subgroup.                           *)
THEOREM CodecsCanonicalTheorem == CratesSpec => []CodecsCanonical
<1>1. AllAnswers => CodecsCanonical
  BY DEF AllAnswers
<1> QED
  BY <1>1, AnswersInvariant, PTL

(* constantine-ethereum-bls-sig: for any number of keys, messages and        *)
(* signatures, as many of one as of the others, and a group of any order,    *)
(* the ways to verify agree, and the sum of honest signatures is what        *)
(* verifies.                                                                 *)
THEOREM SignaturesAgreeTheorem == CratesSpec => []SignaturesAgree
<1>1. AllAnswers => SignaturesAgree
  BY DEF AllAnswers
<1> QED
  BY <1>1, AnswersInvariant, PTL

(* constantine-ethereum-evm-precompiles: for a curve of any order and lists  *)
(* of any length, a precompile answers Err exactly when the input is not     *)
(* acceptable, with a status that says why, and else the specified value;    *)
(* but not for a pair with infinity on BN254, in the corner cases of MODEXP, *)
(* and when lengths of MODEXP do not fit an int.  It panics only there, for  *)
(* a modulus that no vector holds.                                           *)
THEOREM EvmAnswersTheorem == CratesSpec => []EvmAnswers
<1>1. AllAnswers => EvmAnswers
  BY DEF AllAnswers
<1> QED
  BY <1>1, AnswersInvariant, PTL

-----------------------------------------------------------------------------
(* The buffers of the KZG methods.                                           *)
LEMMA MethodBuffers ==
  /\ Fit(M("ctt_eth_kzg_commitment"), point_bytes, 1)
  /\ Fit(C("ctt_eth_kzg_commitment"), point_bytes, 1)
  /\ Fit(M("ctt_eth_kzg_proof"), point_bytes, 1)
  /\ Fit(C("ctt_eth_kzg_proof"), point_bytes, 1)
  /\ Fit(M("ctt_eth_kzg_eval_at_challenge"), scalar_bytes, 1)
  /\ Fit(C("ctt_eth_kzg_eval_at_challenge"), scalar_bytes, 1)
  /\ Fit(C("ctt_eth_kzg_opening_challenge"), scalar_bytes, 1)
  /\ Fit(C("byte"), scalar_bytes, 32)
  /\ Fit(C("ctt_eth_kzg_blob"), blob_bytes, 1)
  /\ Fit(M("ctt_eth_kzg_cell"), cells_box, 128)
  /\ Fit(M("ctt_eth_kzg_proof"), proofs_box, 128)
<1>1. /\ Pointee("ctt_eth_kzg_commitment") /\ Pointee("ctt_eth_kzg_proof")
      /\ Pointee("ctt_eth_kzg_eval_at_challenge") /\ Pointee("ctt_eth_kzg_opening_challenge")
      /\ Pointee("ctt_eth_kzg_blob") /\ Pointee("ctt_eth_kzg_cell")
  BY DEF Pointee, OpaqueTypes, Untyped
<1>2. /\ 48 = 1 * 48 /\ 32 = 1 * 32 /\ 4096 * 32 = 1 * 131072
      /\ 262144 = 128 * 2048 /\ 6144 = 128 * 48
      /\ 48 \in Nat /\ 32 \in Nat /\ 131072 \in Nat /\ 4096 * 32 \in Nat /\ 2048 \in Nat
      /\ 262144 \in Nat /\ 6144 \in Nat /\ 1 \in Nat /\ 128 \in Nat
  OBVIOUS
<1>3. /\ Fit(M("ctt_eth_kzg_commitment"), ByteArray(48), 1)
      /\ Fit(C("ctt_eth_kzg_commitment"), ByteArray(48), 1)
      /\ Fit(M("ctt_eth_kzg_proof"), ByteArray(48), 1)
      /\ Fit(C("ctt_eth_kzg_proof"), ByteArray(48), 1)
      /\ Fit(M("ctt_eth_kzg_proof"), ByteArray(6144), 128)
  BY <1>1, <1>2, KzgLayout, FitStruct
<1>4. /\ Fit(M("ctt_eth_kzg_eval_at_challenge"), ByteArray(32), 1)
      /\ Fit(C("ctt_eth_kzg_eval_at_challenge"), ByteArray(32), 1)
      /\ Fit(C("ctt_eth_kzg_opening_challenge"), ByteArray(32), 1)
      /\ Fit(C("byte"), ByteArray(32), 32)
  BY <1>1, <1>2, KzgLayout, FitStruct, FitBytes
<1>5. /\ Fit(C("ctt_eth_kzg_blob"), ByteArray(4096 * 32), 1)
      /\ Fit(M("ctt_eth_kzg_cell"), ByteArray(262144), 128)
  BY <1>1, <1>2, KzgLayout, FitStruct
<1> QED
  BY <1>3, <1>4, <1>5 DEF point_bytes, scalar_bytes, blob_bytes, cells_box, proofs_box

LEMMA SliceBuffers ==
  ASSUME NEW n \in Nat
  PROVE  /\ Fit(C("ctt_eth_kzg_commitment"), Slice(n, 48), n)
         /\ Fit(C("ctt_eth_kzg_proof"), Slice(n, 48), n)
         /\ Fit(C("ctt_eth_kzg_blob"), Slice(n, 131072), n)
         /\ Fit(C("ctt_eth_kzg_cell"), Slice(n, 2048), n)
<1>1. /\ Pointee("ctt_eth_kzg_commitment") /\ Pointee("ctt_eth_kzg_proof")
      /\ Pointee("ctt_eth_kzg_blob") /\ Pointee("ctt_eth_kzg_cell")
  BY DEF Pointee, OpaqueTypes, Untyped
<1> QED
  BY <1>1, KzgLayout, FitStruct

(* A method's own arguments, behind its context and its threadpool.          *)
Passed(o, parallel, fn, args, reach) ==
  LET before == IF parallel THEN <<Handle(tp[o]), Handle(ctx[o])>> ELSE <<Handle(ctx[o])>>
  IN  IF parallel /\ tp[o] = Nil THEN call'.fn = ""
      ELSE /\ call'.fn = IF parallel THEN parallel_of[fn] ELSE fn
           /\ call'.args = before \o args
           /\ call'.reach = Untouched(before) \o reach

LEMMA InvokePassed ==
  ASSUME NEW o, NEW parallel \in BOOLEAN, NEW fn, NEW args, NEW reach, NEW outs, NEW status,
         NEW ret, NEW asked, Invoke(o, parallel, fn, args, reach, outs, status, ret, asked)
  PROVE  Passed(o, parallel, fn, args, reach)
<1>1. CASE parallel /\ tp[o] = Nil
  BY <1>1 DEF Invoke, NotMade, Call, Passed, Untouched
<1>2. CASE ~(parallel /\ tp[o] = Nil)
  BY <1>2 DEF Invoke, Call, Passed, Untouched
<1> QED
  BY <1>1, <1>2

LEMMA SerialPassed ==
  ASSUME NEW o, NEW fn, NEW args, NEW reach, NEW outs, NEW status,
         NEW ret, NEW asked, Serially(o, fn, args, reach, outs, status, ret, asked)
  PROVE  Passed(o, FALSE, fn, args, reach)
BY DEF Serially, Invoke, Call, Passed, Untouched

LEMMA PassedSound ==
  ASSUME NEW o, NEW parallel \in BOOLEAN, NEW fn, NEW args, NEW reach,
         NEW n \in Nat, NEW serial, NEW par,
         Listed(n, args, reach),
         Takes(fn, serial), serial[1] = C("ctt_eth_kzg_context"),
         Accepts(1, n, serial, args, reach),
         parallel => /\ Takes(parallel_of[fn], par)
                     /\ par[1] = C("ctt_threadpool") /\ par[2] = C("ctt_eth_kzg_context")
                     /\ Accepts(2, n, par, args, reach),
         Passed(o, parallel, fn, args, reach)
  PROVE  Sound(call')
<1>1. CASE parallel /\ tp[o] = Nil
  <2>1. call'.fn = ""
    BY <1>1 DEF Passed
  <2> QED
    BY <2>1, SoundNothing
<1> DEFINE one == <<Handle(ctx[o])>>
           two == <<Handle(tp[o]), Handle(ctx[o])>>
<1>2. CASE ~parallel
  <2>1. /\ call'.fn = fn /\ call'.args = one \o args
        /\ call'.reach = Untouched(one) \o reach
    BY <1>2 DEF Passed
  <2>2. Len(one) = 1 /\ one \in Seq({Handle(ctx[o])})
    OBVIOUS
  <2>3. one \in Seq(Range(one))
    BY <2>2, TupleList
  <2>4. \A i \in 1..1 : Fit(serial[i], one[i], 0)
    BY FitHandle DEF OpaqueTypes
  <2> HIDE DEF one
  <2> QED
    BY <2>1, <2>2, <2>3, <2>4, SoundBehind
<1>3. CASE parallel /\ tp[o] # Nil
  <2>1. /\ call'.fn = parallel_of[fn] /\ call'.args = two \o args
        /\ call'.reach = Untouched(two) \o reach
    BY <1>3 DEF Passed
  <2>2. Len(two) = 2 /\ two \in Seq({Handle(tp[o]), Handle(ctx[o])})
    OBVIOUS
  <2>3. two \in Seq(Range(two))
    BY <2>2, TupleList
  <2>4. \A i \in 1..2 : Fit(par[i], two[i], 0)
    <3>1. /\ Fit(C("ctt_threadpool"), Handle(tp[o]), 0)
          /\ Fit(C("ctt_eth_kzg_context"), Handle(ctx[o]), 0)
      BY FitHandle DEF OpaqueTypes
    <3>2. two[1] = Handle(tp[o]) /\ two[2] = Handle(ctx[o])
      OBVIOUS
    <3> QED
      BY <1>3, <3>1, <3>2
  <2>5. Takes(parallel_of[fn], par) /\ Accepts(2, n, par, args, reach)
    BY <1>3
  <2> HIDE DEF two
  <2> QED
    BY <2>1, <2>2, <2>3, <2>4, <2>5, SoundBehind, ZenonT(30)
<1> QED
  BY <1>1, <1>2, <1>3

LEMMA ParallelNames ==
  /\ parallel_of["ctt_eth_kzg_blob_to_kzg_commitment"]
       = "ctt_eth_kzg_blob_to_kzg_commitment_parallel"
  /\ parallel_of["ctt_eth_kzg_compute_kzg_proof"]
       = "ctt_eth_kzg_compute_kzg_proof_parallel"
  /\ parallel_of["ctt_eth_kzg_compute_blob_kzg_proof"]
       = "ctt_eth_kzg_compute_blob_kzg_proof_parallel"
  /\ parallel_of["ctt_eth_kzg_verify_blob_kzg_proof"]
       = "ctt_eth_kzg_verify_blob_kzg_proof_parallel"
  /\ parallel_of["ctt_eth_kzg_verify_blob_kzg_proof_batch"]
       = "ctt_eth_kzg_verify_blob_kzg_proof_batch_parallel"
BY DEF parallel_of

LEMMA SerialSound ==
  ASSUME NEW o, NEW fn, NEW args, NEW reach, NEW n \in Nat, NEW serial,
         Listed(n, args, reach),
         Takes(fn, serial), serial[1] = C("ctt_eth_kzg_context"),
         Accepts(1, n, serial, args, reach),
         Passed(o, FALSE, fn, args, reach)
  PROVE  Sound(call')
<1>1. ASSUME NEW parallel \in BOOLEAN, ~parallel, Passed(o, parallel, fn, args, reach)
      PROVE  Sound(call')
  BY <1>1, PassedSound
<1> QED
  BY <1>1

LEMMA EitherSound ==
  ASSUME NEW o, NEW parallel \in BOOLEAN, NEW fn, NEW args, NEW reach, NEW n \in Nat,
         NEW serial, NEW par,
         Listed(n, args, reach),
         Takes(fn, serial), serial[1] = C("ctt_eth_kzg_context"),
         Accepts(1, n, serial, args, reach),
         Takes(parallel_of[fn], par),
         par[1] = C("ctt_threadpool"), par[2] = C("ctt_eth_kzg_context"),
         Accepts(2, n, par, args, reach),
         Passed(o, parallel, fn, args, reach)
  PROVE  Sound(call')
BY PassedSound

LEMMA CommitSound ==
  ASSUME NEW o, NEW parallel \in BOOLEAN, NEW blob,
         blob_to_kzg_commitment(o, parallel, blob)
  PROVE  Sound(call')
<1> DEFINE args == <<point_bytes, blob_bytes>>
           reach == <<1, 1>>
           params == <<C("ctt_eth_kzg_context"), M("ctt_eth_kzg_commitment"),
                      C("ctt_eth_kzg_blob")>>
           behind == <<C("ctt_threadpool"), C("ctt_eth_kzg_context"),
                      M("ctt_eth_kzg_commitment"), C("ctt_eth_kzg_blob")>>
<1>1. \E status, ret, asked :
        Invoke(o, parallel, "ctt_eth_kzg_blob_to_kzg_commitment", args, reach, {1}, status,
               ret, asked)
  BY DEF blob_to_kzg_commitment
<1>2. /\ Fit(params[1 + 1], args[1], reach[1])
      /\ Fit(params[1 + 2], args[2], reach[2])
  BY MethodBuffers
<1>3. /\ args \in Seq({point_bytes, blob_bytes}) /\ Len(args) = 2
      /\ reach \in Seq(Nat) /\ Len(reach) = 2
  OBVIOUS
<1>4. params[1] = C("ctt_eth_kzg_context") /\ Len(params) = 1 + 2
  OBVIOUS
<1>5. Takes("ctt_eth_kzg_blob_to_kzg_commitment", params)
  BY KzgTakes
<1>6. /\ behind[1] = C("ctt_threadpool") /\ behind[2] = C("ctt_eth_kzg_context")
      /\ Len(behind) = 2 + 2
      /\ behind[2 + 1] = params[1 + 1]
      /\ behind[2 + 2] = params[1 + 2]
  OBVIOUS
<1>7. Takes(parallel_of["ctt_eth_kzg_blob_to_kzg_commitment"], behind)
  BY KzgTakes, ParallelNames
<1> HIDE DEF args, reach, params, behind
<1>8. Listed(2, args, reach)
  BY <1>3, TupleList DEF Listed
<1>9. Accepts(1, 2, params, args, reach)
  BY <1>2, <1>4 DEF Accepts
<1>10. Accepts(2, 2, behind, args, reach)
  BY <1>2, <1>6 DEF Accepts
<1>11. Passed(o, parallel, "ctt_eth_kzg_blob_to_kzg_commitment", args, reach)
  BY <1>1, InvokePassed
<1> QED
  BY <1>4, <1>5, <1>6, <1>7, <1>8, <1>9, <1>10, <1>11, EitherSound

LEMMA ComputeProofSound ==
  ASSUME NEW o, NEW parallel \in BOOLEAN, NEW blob, NEW z,
         compute_kzg_proof(o, parallel, blob, z)
  PROVE  Sound(call')
<1> DEFINE args == <<point_bytes, scalar_bytes, blob_bytes, scalar_bytes>>
           reach == <<1, 1, 1, 1>>
           params == <<C("ctt_eth_kzg_context"), M("ctt_eth_kzg_proof"),
                      M("ctt_eth_kzg_eval_at_challenge"), C("ctt_eth_kzg_blob"),
                      C("ctt_eth_kzg_opening_challenge")>>
           behind == <<C("ctt_threadpool"), C("ctt_eth_kzg_context"),
                      M("ctt_eth_kzg_proof"), M("ctt_eth_kzg_eval_at_challenge"),
                      C("ctt_eth_kzg_blob"), C("ctt_eth_kzg_opening_challenge")>>
<1>1. \E status, ret, asked :
        Invoke(o, parallel, "ctt_eth_kzg_compute_kzg_proof", args, reach, {1, 2}, status,
               ret, asked)
  BY DEF compute_kzg_proof
<1>2. /\ Fit(params[1 + 1], args[1], reach[1])
      /\ Fit(params[1 + 2], args[2], reach[2])
      /\ Fit(params[1 + 3], args[3], reach[3])
      /\ Fit(params[1 + 4], args[4], reach[4])
  BY MethodBuffers
<1>3. /\ args \in Seq({point_bytes, scalar_bytes, blob_bytes}) /\ Len(args) = 4
      /\ reach \in Seq(Nat) /\ Len(reach) = 4
  OBVIOUS
<1>4. params[1] = C("ctt_eth_kzg_context") /\ Len(params) = 1 + 4
  OBVIOUS
<1>5. Takes("ctt_eth_kzg_compute_kzg_proof", params)
  BY KzgTakes
<1>6. /\ behind[1] = C("ctt_threadpool") /\ behind[2] = C("ctt_eth_kzg_context")
      /\ Len(behind) = 2 + 4
      /\ behind[2 + 1] = params[1 + 1]
      /\ behind[2 + 2] = params[1 + 2]
      /\ behind[2 + 3] = params[1 + 3]
      /\ behind[2 + 4] = params[1 + 4]
  OBVIOUS
<1>7. Takes(parallel_of["ctt_eth_kzg_compute_kzg_proof"], behind)
  BY KzgTakes, ParallelNames
<1> HIDE DEF args, reach, params, behind
<1>8. Listed(4, args, reach)
  BY <1>3, TupleList DEF Listed
<1>9. Accepts(1, 4, params, args, reach)
  BY <1>2, <1>4 DEF Accepts
<1>10. Accepts(2, 4, behind, args, reach)
  BY <1>2, <1>6 DEF Accepts
<1>11. Passed(o, parallel, "ctt_eth_kzg_compute_kzg_proof", args, reach)
  BY <1>1, InvokePassed
<1> QED
  BY <1>4, <1>5, <1>6, <1>7, <1>8, <1>9, <1>10, <1>11, EitherSound

LEMMA VerifyProofSound ==
  ASSUME NEW o, NEW commitment, NEW z, NEW y, NEW proof,
         verify_kzg_proof(o, commitment, z, y, proof)
  PROVE  Sound(call')
<1> DEFINE args == <<point_bytes, scalar_bytes, scalar_bytes, point_bytes>>
           reach == <<1, 1, 1, 1>>
           params == <<C("ctt_eth_kzg_context"), C("ctt_eth_kzg_commitment"),
                      C("ctt_eth_kzg_opening_challenge"),
                      C("ctt_eth_kzg_eval_at_challenge"), C("ctt_eth_kzg_proof")>>
<1>1. \E status, ret, asked :
        Serially(o, "ctt_eth_kzg_verify_kzg_proof", args, reach, {}, status,
                 ret, asked)
  BY DEF verify_kzg_proof
<1>2. /\ Fit(params[1 + 1], args[1], reach[1])
      /\ Fit(params[1 + 2], args[2], reach[2])
      /\ Fit(params[1 + 3], args[3], reach[3])
      /\ Fit(params[1 + 4], args[4], reach[4])
  BY MethodBuffers
<1>3. /\ args \in Seq({point_bytes, scalar_bytes}) /\ Len(args) = 4
      /\ reach \in Seq(Nat) /\ Len(reach) = 4
  OBVIOUS
<1>4. params[1] = C("ctt_eth_kzg_context") /\ Len(params) = 1 + 4
  OBVIOUS
<1>5. Takes("ctt_eth_kzg_verify_kzg_proof", params)
  BY KzgTakes
<1> HIDE DEF args, reach, params
<1>6. Listed(4, args, reach)
  BY <1>3, TupleList DEF Listed
<1>7. Accepts(1, 4, params, args, reach)
  BY <1>2, <1>4 DEF Accepts
<1>8. Passed(o, FALSE, "ctt_eth_kzg_verify_kzg_proof", args, reach)
  BY <1>1, SerialPassed
<1> QED
  BY <1>4, <1>5, <1>6, <1>7, <1>8, SerialSound

LEMMA ComputeBlobProofSound ==
  ASSUME NEW o, NEW parallel \in BOOLEAN, NEW blob, NEW commitment,
         compute_blob_kzg_proof(o, parallel, blob, commitment)
  PROVE  Sound(call')
<1> DEFINE args == <<point_bytes, blob_bytes, point_bytes>>
           reach == <<1, 1, 1>>
           params == <<C("ctt_eth_kzg_context"), M("ctt_eth_kzg_proof"),
                      C("ctt_eth_kzg_blob"), C("ctt_eth_kzg_commitment")>>
           behind == <<C("ctt_threadpool"), C("ctt_eth_kzg_context"),
                      M("ctt_eth_kzg_proof"), C("ctt_eth_kzg_blob"),
                      C("ctt_eth_kzg_commitment")>>
<1>1. \E status, ret, asked :
        Invoke(o, parallel, "ctt_eth_kzg_compute_blob_kzg_proof", args, reach, {1}, status,
               ret, asked)
  BY DEF compute_blob_kzg_proof
<1>2. /\ Fit(params[1 + 1], args[1], reach[1])
      /\ Fit(params[1 + 2], args[2], reach[2])
      /\ Fit(params[1 + 3], args[3], reach[3])
  BY MethodBuffers
<1>3. /\ args \in Seq({point_bytes, blob_bytes}) /\ Len(args) = 3
      /\ reach \in Seq(Nat) /\ Len(reach) = 3
  OBVIOUS
<1>4. params[1] = C("ctt_eth_kzg_context") /\ Len(params) = 1 + 3
  OBVIOUS
<1>5. Takes("ctt_eth_kzg_compute_blob_kzg_proof", params)
  BY KzgTakes
<1>6. /\ behind[1] = C("ctt_threadpool") /\ behind[2] = C("ctt_eth_kzg_context")
      /\ Len(behind) = 2 + 3
      /\ behind[2 + 1] = params[1 + 1]
      /\ behind[2 + 2] = params[1 + 2]
      /\ behind[2 + 3] = params[1 + 3]
  OBVIOUS
<1>7. Takes(parallel_of["ctt_eth_kzg_compute_blob_kzg_proof"], behind)
  BY KzgTakes, ParallelNames
<1> HIDE DEF args, reach, params, behind
<1>8. Listed(3, args, reach)
  BY <1>3, TupleList DEF Listed
<1>9. Accepts(1, 3, params, args, reach)
  BY <1>2, <1>4 DEF Accepts
<1>10. Accepts(2, 3, behind, args, reach)
  BY <1>2, <1>6 DEF Accepts
<1>11. Passed(o, parallel, "ctt_eth_kzg_compute_blob_kzg_proof", args, reach)
  BY <1>1, InvokePassed
<1> QED
  BY <1>4, <1>5, <1>6, <1>7, <1>8, <1>9, <1>10, <1>11, EitherSound

LEMMA VerifyBlobProofSound ==
  ASSUME NEW o, NEW parallel \in BOOLEAN, NEW blob, NEW commitment, NEW proof,
         verify_blob_kzg_proof(o, parallel, blob, commitment, proof)
  PROVE  Sound(call')
<1> DEFINE args == <<blob_bytes, point_bytes, point_bytes>>
           reach == <<1, 1, 1>>
           params == <<C("ctt_eth_kzg_context"), C("ctt_eth_kzg_blob"),
                      C("ctt_eth_kzg_commitment"), C("ctt_eth_kzg_proof")>>
           behind == <<C("ctt_threadpool"), C("ctt_eth_kzg_context"),
                      C("ctt_eth_kzg_blob"), C("ctt_eth_kzg_commitment"),
                      C("ctt_eth_kzg_proof")>>
<1>1. \E status, ret, asked :
        Invoke(o, parallel, "ctt_eth_kzg_verify_blob_kzg_proof", args, reach, {}, status,
               ret, asked)
  BY DEF verify_blob_kzg_proof
<1>2. /\ Fit(params[1 + 1], args[1], reach[1])
      /\ Fit(params[1 + 2], args[2], reach[2])
      /\ Fit(params[1 + 3], args[3], reach[3])
  BY MethodBuffers
<1>3. /\ args \in Seq({blob_bytes, point_bytes}) /\ Len(args) = 3
      /\ reach \in Seq(Nat) /\ Len(reach) = 3
  OBVIOUS
<1>4. params[1] = C("ctt_eth_kzg_context") /\ Len(params) = 1 + 3
  OBVIOUS
<1>5. Takes("ctt_eth_kzg_verify_blob_kzg_proof", params)
  BY KzgTakes
<1>6. /\ behind[1] = C("ctt_threadpool") /\ behind[2] = C("ctt_eth_kzg_context")
      /\ Len(behind) = 2 + 3
      /\ behind[2 + 1] = params[1 + 1]
      /\ behind[2 + 2] = params[1 + 2]
      /\ behind[2 + 3] = params[1 + 3]
  OBVIOUS
<1>7. Takes(parallel_of["ctt_eth_kzg_verify_blob_kzg_proof"], behind)
  BY KzgTakes, ParallelNames
<1> HIDE DEF args, reach, params, behind
<1>8. Listed(3, args, reach)
  BY <1>3, TupleList DEF Listed
<1>9. Accepts(1, 3, params, args, reach)
  BY <1>2, <1>4 DEF Accepts
<1>10. Accepts(2, 3, behind, args, reach)
  BY <1>2, <1>6 DEF Accepts
<1>11. Passed(o, parallel, "ctt_eth_kzg_verify_blob_kzg_proof", args, reach)
  BY <1>1, InvokePassed
<1> QED
  BY <1>4, <1>5, <1>6, <1>7, <1>8, <1>9, <1>10, <1>11, EitherSound

LEMMA VerifyBatchSound ==
  ASSUME NEW o, NEW parallel \in BOOLEAN, NEW items, NEW n \in Nat, n = Len(items), NEW lens, NEW seed,
         Equal(lens),
         verify_blob_kzg_proof_batch(o, parallel, items, lens, seed)
  PROVE  Sound(call')
<1> DEFINE args == <<Slice(n, 131072), Slice(n, 48), Slice(n, 48), Value(n),
                    scalar_bytes>>
           reach == <<n, n, n, 0, 32>>
           params == <<C("ctt_eth_kzg_context"), C("ctt_eth_kzg_blob"),
                      C("ctt_eth_kzg_commitment"), C("ctt_eth_kzg_proof"), V("usize"),
                      C("byte")>>
           behind == <<C("ctt_threadpool"), C("ctt_eth_kzg_context"),
                      C("ctt_eth_kzg_blob"), C("ctt_eth_kzg_commitment"),
                      C("ctt_eth_kzg_proof"), V("usize"), C("byte")>>
<1>1. \E status, ret, asked :
        Invoke(o, parallel, "ctt_eth_kzg_verify_blob_kzg_proof_batch", args, reach, {}, status,
               ret, asked)
  BY DEF verify_blob_kzg_proof_batch
<1>2. /\ Fit(params[1 + 1], args[1], reach[1])
      /\ Fit(params[1 + 2], args[2], reach[2])
      /\ Fit(params[1 + 3], args[3], reach[3])
      /\ Fit(params[1 + 4], args[4], reach[4])
      /\ Fit(params[1 + 5], args[5], reach[5])
  BY SliceBuffers, FitValue, MethodBuffers
<1>3. /\ args \in Seq({Slice(n, 131072), Slice(n, 48), Value(n), scalar_bytes}) /\ Len(args) = 5
      /\ reach \in Seq(Nat) /\ Len(reach) = 5
  OBVIOUS
<1>4. params[1] = C("ctt_eth_kzg_context") /\ Len(params) = 1 + 5
  OBVIOUS
<1>5. Takes("ctt_eth_kzg_verify_blob_kzg_proof_batch", params)
  BY KzgTakes
<1>6. /\ behind[1] = C("ctt_threadpool") /\ behind[2] = C("ctt_eth_kzg_context")
      /\ Len(behind) = 2 + 5
      /\ behind[2 + 1] = params[1 + 1]
      /\ behind[2 + 2] = params[1 + 2]
      /\ behind[2 + 3] = params[1 + 3]
      /\ behind[2 + 4] = params[1 + 4]
      /\ behind[2 + 5] = params[1 + 5]
  OBVIOUS
<1>7. Takes(parallel_of["ctt_eth_kzg_verify_blob_kzg_proof_batch"], behind)
  BY KzgTakes, ParallelNames
<1> HIDE DEF args, reach, params, behind
<1>8. Listed(5, args, reach)
  BY <1>3, TupleList DEF Listed
<1>9. Accepts(1, 5, params, args, reach)
  BY <1>2, <1>4 DEF Accepts
<1>10. Accepts(2, 5, behind, args, reach)
  BY <1>2, <1>6 DEF Accepts
<1>11. Passed(o, parallel, "ctt_eth_kzg_verify_blob_kzg_proof_batch", args, reach)
  BY <1>1, InvokePassed
<1> QED
  BY <1>4, <1>5, <1>6, <1>7, <1>8, <1>9, <1>10, <1>11, EitherSound

LEMMA ComputeCellsSound ==
  ASSUME NEW o, NEW blob,
         compute_cells_and_kzg_proofs(o, blob)
  PROVE  Sound(call')
<1> DEFINE args == <<cells_box, proofs_box, blob_bytes>>
           reach == <<128, 128, 1>>
           params == <<C("ctt_eth_kzg_context"), M("ctt_eth_kzg_cell"),
                      M("ctt_eth_kzg_proof"), C("ctt_eth_kzg_blob")>>
<1>1. \E status, ret, asked :
        Serially(o, "ctt_eth_kzg_compute_cells_and_kzg_proofs", args, reach, {1, 2}, status,
                 ret, asked)
  BY CellsTotal DEF compute_cells_and_kzg_proofs
<1>2. /\ Fit(params[1 + 1], args[1], reach[1])
      /\ Fit(params[1 + 2], args[2], reach[2])
      /\ Fit(params[1 + 3], args[3], reach[3])
  BY MethodBuffers
<1>3. /\ args \in Seq({cells_box, proofs_box, blob_bytes}) /\ Len(args) = 3
      /\ reach \in Seq(Nat) /\ Len(reach) = 3
  OBVIOUS
<1>4. params[1] = C("ctt_eth_kzg_context") /\ Len(params) = 1 + 3
  OBVIOUS
<1>5. Takes("ctt_eth_kzg_compute_cells_and_kzg_proofs", params)
  BY KzgTakes
<1> HIDE DEF args, reach, params
<1>6. Listed(3, args, reach)
  BY <1>3, TupleList DEF Listed
<1>7. Accepts(1, 3, params, args, reach)
  BY <1>2, <1>4 DEF Accepts
<1>8. Passed(o, FALSE, "ctt_eth_kzg_compute_cells_and_kzg_proofs", args, reach)
  BY <1>1, SerialPassed
<1> QED
  BY <1>4, <1>5, <1>6, <1>7, <1>8, SerialSound

LEMMA VerifyCellsSound ==
  ASSUME NEW o, NEW items, NEW n \in Nat, n = Len(items), NEW lens, Equal(lens),
         verify_cell_kzg_proof_batch(o, items, lens)
  PROVE  Sound(call')
<1> DEFINE args == <<Slice(n, 48), Memory(n, "u64"), Slice(n, 2048), Slice(n, 48),
                    Value(n), scalar_bytes>>
           reach == <<n, n, n, n, 0, 32>>
           params == <<C("ctt_eth_kzg_context"), C("ctt_eth_kzg_commitment"), C("u64"),
                      C("ctt_eth_kzg_cell"), C("ctt_eth_kzg_proof"), V("usize"),
                      C("byte")>>
<1>1. \E status, ret, asked :
        Serially(o, "ctt_eth_kzg_verify_cell_kzg_proof_batch", args, reach, {}, status,
                 ret, asked)
  BY DEF verify_cell_kzg_proof_batch
<1>2. /\ Fit(params[1 + 1], args[1], reach[1])
      /\ Fit(params[1 + 2], args[2], reach[2])
      /\ Fit(params[1 + 3], args[3], reach[3])
      /\ Fit(params[1 + 4], args[4], reach[4])
      /\ Fit(params[1 + 5], args[5], reach[5])
      /\ Fit(params[1 + 6], args[6], reach[6])
  BY SliceBuffers, FitWords, FitValue, MethodBuffers
<1>3. /\ args \in Seq({Slice(n, 48), Memory(n, "u64"), Slice(n, 2048), Value(n),
                           scalar_bytes}) /\ Len(args) = 6
      /\ reach \in Seq(Nat) /\ Len(reach) = 6
  OBVIOUS
<1>4. params[1] = C("ctt_eth_kzg_context") /\ Len(params) = 1 + 6
  OBVIOUS
<1>5. Takes("ctt_eth_kzg_verify_cell_kzg_proof_batch", params)
  BY KzgTakes
<1> HIDE DEF args, reach, params
<1>6. Listed(6, args, reach)
  BY <1>3, TupleList DEF Listed
<1>7. Accepts(1, 6, params, args, reach)
  BY <1>2, <1>4 DEF Accepts
<1>8. Passed(o, FALSE, "ctt_eth_kzg_verify_cell_kzg_proof_batch", args, reach)
  BY <1>1, SerialPassed
<1> QED
  BY <1>4, <1>5, <1>6, <1>7, <1>8, SerialSound

LEMMA RecoverSound ==
  ASSUME NEW o, NEW in, NEW n \in Nat, n = in.n, NEW lens, Equal(lens),
         recover_cells_and_kzg_proofs(o, in, lens)
  PROVE  Sound(call')
<1> DEFINE args == <<cells_box, proofs_box, Memory(n, "u64"), Slice(n, 2048), Value(n)>>
           reach == <<128, 128, n, n, 0>>
           params == <<C("ctt_eth_kzg_context"), M("ctt_eth_kzg_cell"),
                      M("ctt_eth_kzg_proof"), C("u64"), C("ctt_eth_kzg_cell"),
                      V("usize")>>
<1>1. \E status, ret, asked :
        Serially(o, "ctt_eth_kzg_recover_cells_and_kzg_proofs", args, reach, {1, 2}, status,
                 ret, asked)
  BY CellsTotal DEF recover_cells_and_kzg_proofs
<1>2. /\ Fit(params[1 + 1], args[1], reach[1])
      /\ Fit(params[1 + 2], args[2], reach[2])
      /\ Fit(params[1 + 3], args[3], reach[3])
      /\ Fit(params[1 + 4], args[4], reach[4])
      /\ Fit(params[1 + 5], args[5], reach[5])
  BY SliceBuffers, FitWords, FitValue, MethodBuffers
<1>3. /\ args \in Seq({cells_box, proofs_box, Memory(n, "u64"), Slice(n, 2048),
                           Value(n)}) /\ Len(args) = 5
      /\ reach \in Seq(Nat) /\ Len(reach) = 5
  OBVIOUS
<1>4. params[1] = C("ctt_eth_kzg_context") /\ Len(params) = 1 + 5
  OBVIOUS
<1>5. Takes("ctt_eth_kzg_recover_cells_and_kzg_proofs", params)
  BY KzgTakes
<1> HIDE DEF args, reach, params
<1>6. Listed(5, args, reach)
  BY <1>3, TupleList DEF Listed
<1>7. Accepts(1, 5, params, args, reach)
  BY <1>2, <1>4 DEF Accepts
<1>8. Passed(o, FALSE, "ctt_eth_kzg_recover_cells_and_kzg_proofs", args, reach)
  BY <1>1, SerialPassed
<1> QED
  BY <1>4, <1>5, <1>6, <1>7, <1>8, SerialSound

LEMMA MismatchSound ==
  ASSUME NEW ret, NEW asked, call' = NotMade(ret, asked)
  PROVE  Sound(call')
<1>1. call'.fn = ""
  BY DEF NotMade, Call
<1> QED
  BY <1>1, SoundNothing

(* Slices of different lengths never reach the library.                      *)
LEMMA BatchSlicesSound ==
  ASSUME NEW o, NEW parallel \in BOOLEAN, NEW lens, NEW seed, NEW items, Len(items) \in Nat,
         verify_blob_kzg_proof_batch(o, parallel, items, lens, seed)
  PROVE  Sound(call')
<1>1. CASE ~Equal(lens)
  <2>1. call' = NotMade(LengthsMismatch, asked_batch(o, parallel, items, lens, seed))
    BY <1>1 DEF verify_blob_kzg_proof_batch
  <2> QED
    BY <2>1, MismatchSound
<1> QED
  BY <1>1, VerifyBatchSound

LEMMA CellSlicesSound ==
  ASSUME NEW o, NEW lens, NEW items, Len(items) \in Nat,
         verify_cell_kzg_proof_batch(o, items, lens)
  PROVE  Sound(call')
<1>1. CASE ~Equal(lens)
  <2>1. call' = NotMade(LengthsMismatch, asked_cells(o, items, lens))
    BY <1>1 DEF verify_cell_kzg_proof_batch
  <2> QED
    BY <2>1, MismatchSound
<1> QED
  BY <1>1, VerifyCellsSound

LEMMA RecoverSlicesSound ==
  ASSUME NEW o, NEW lens, NEW in, in.n \in Nat, recover_cells_and_kzg_proofs(o, in, lens)
  PROVE  Sound(call')
<1>1. CASE ~Equal(lens)
  <2>1. call' = NotMade(LengthsMismatch, asked_recover(o, in, lens))
    BY <1>1 DEF recover_cells_and_kzg_proofs
  <2> QED
    BY <2>1, MismatchSound
<1> QED
  BY <1>1, RecoverSound

LEMMA ListLength ==
  ASSUME NEW S, NEW list \in Sequences(S, MaxItems)
  PROVE  Len(list) \in Nat
<1>1. PICK n \in 0..MaxItems : list \in [1..n -> S]
  BY DEF Sequences
<1> QED
  BY <1>1, MaxItemsAssumption

LEMMA KzgCallSound ==
  ASSUME NEW o, KzgCall(o)
  PROVE  Sound(call')
<1>1. CASE \E par \in BOOLEAN, blob \in Blobs : blob_to_kzg_commitment(o, par, blob)
  BY <1>1, CommitSound
<1>2. CASE \E par \in BOOLEAN, blob \in Blobs, z \in Scalars : compute_kzg_proof(o, par, blob, z)
  BY <1>2, ComputeProofSound
<1>3. CASE \E c \in Commitments, z, y \in Scalars, p \in Proofs : verify_kzg_proof(o, c, z, y, p)
  BY <1>3, VerifyProofSound
<1>4. CASE \E par \in BOOLEAN, blob \in Blobs, c \in Commitments :
             compute_blob_kzg_proof(o, par, blob, c)
  BY <1>4, ComputeBlobProofSound
<1>5. CASE \E par \in BOOLEAN, blob \in Blobs, c \in Commitments, p \in Proofs :
             verify_blob_kzg_proof(o, par, blob, c, p)
  BY <1>5, VerifyBlobProofSound
<1>6. CASE \E par \in BOOLEAN, items \in Sequences(BatchItems, MaxItems), seed \in Seeds :
             \E lens \in Lengths(Len(items), 3) :
               verify_blob_kzg_proof_batch(o, par, items, lens, seed)
  BY <1>6, ListLength, BatchSlicesSound
<1>7. CASE \E blob \in Blobs : compute_cells_and_kzg_proofs(o, blob)
  BY <1>7, ComputeCellsSound
<1>8. CASE \E items \in Sequences(CellItems, MaxItems) :
             \E lens \in Lengths(Len(items), 4) : verify_cell_kzg_proof_batch(o, items, lens)
  BY <1>8, ListLength, CellSlicesSound
<1>9. CASE \E in \in Recoveries : \E lens \in Lengths(in.n, 2) :
             recover_cells_and_kzg_proofs(o, in, lens)
  <2>1. \A in \in Recoveries : in.n \in Nat
    BY DEF Recoveries
  <2> QED
    BY <1>9, <2>1, RecoverSlicesSound
<1> QED
  BY <1>1, <1>2, <1>3, <1>4, <1>5, <1>6, <1>7, <1>8, <1>9 DEF KzgCall

LEMMA SampleSound ==
  ASSUME NEW o, Sample(o)
  PROVE  Sound(call')
BY CommitSound DEF Sample

-----------------------------------------------------------------------------
(* The calls on lists of one length, and on lengths that fit an int or are   *)
(* not used.                                                                 *)
Careful(c) ==
  /\ c.given.crate = "bls" => Alike(c.given.op, c.given.x)
  /\ c.fn = "ctt_eth_evm_modexp" => Contained(c.given.in)

(* The precompiles: a buffer for the result and the input, each with its     *)
(* length.                                                                   *)
EvmPassed(fn, before, rlen, len) ==
  /\ call'.fn = fn
  /\ call'.args = before \o <<ByteArray(rlen), Value(rlen), ByteArray(len), Value(len)>>
  /\ call'.reach = Untouched(before) \o <<rlen, 0, len, 0>>

LEMMA EvmArguments ==
  ASSUME NEW fn, NEW before, NEW rlen, NEW len, NEW status, NEW v, NEW asked,
         Evm(fn, before, rlen, len, status, v, asked)
  PROVE  EvmPassed(fn, before, rlen, len)
BY DEF Evm, Call, EvmPassed, Untouched

LEMMA EvmSound ==
  ASSUME NEW k \in Nat, NEW before, before \in Seq(Range(before)), Len(before) = k,
         NEW fn, NEW params, Takes(fn, params), Len(params) = k + 4,
         \A i \in 1..k : Fit(params[i], before[i], 0),
         params[k + 1] = M("byte"), params[k + 2] = V("usize"),
         params[k + 3] = C("byte"), params[k + 4] = V("usize"),
         NEW rlen \in Nat, NEW len \in Nat, EvmPassed(fn, before, rlen, len)
  PROVE  Sound(call')
<1> DEFINE args == <<ByteArray(rlen), Value(rlen), ByteArray(len), Value(len)>>
           reach == <<rlen, 0, len, 0>>
<1>1. /\ call'.fn = fn /\ call'.args = before \o args
      /\ call'.reach = Untouched(before) \o reach
  BY DEF EvmPassed
<1>2. /\ Fit(params[k + 1], args[1], reach[1]) /\ Fit(params[k + 2], args[2], reach[2])
      /\ Fit(params[k + 3], args[3], reach[3]) /\ Fit(params[k + 4], args[4], reach[4])
  BY FitBytes, FitValue
<1>3. /\ args \in Seq({ByteArray(rlen), Value(rlen), ByteArray(len), Value(len)})
      /\ Len(args) = 4 /\ reach \in Seq(Nat) /\ Len(reach) = 4
  OBVIOUS
<1> HIDE DEF args, reach
<1>4. Listed(4, args, reach)
  BY <1>3, TupleList DEF Listed
<1>5. Accepts(k, 4, params, args, reach)
  BY <1>2 DEF Accepts
<1>6. 4 \in Nat /\ \A i \in 1..k : Fit(params[i], before[i], 0)
  OBVIOUS
<1> QED
  BY ONLY <1>1, <1>4, <1>5, <1>6, SoundBehind, before \in Seq(Range(before)), Len(before) = k,
     k \in Nat, Takes(fn, params)

LEMMA PrecompileSound ==
  ASSUME NEW fn \in Precompiles, NEW rlen \in Nat, NEW len \in Nat,
         EvmPassed(fn, <<>>, rlen, len)
  PROVE  Sound(call')
<1> DEFINE params == <<M("byte"), V("usize"), C("byte"), V("usize")>>
           before == <<>>
           k == 0
<1>1. Takes(fn, params)
  BY EvmTakes
<1>2. /\ Len(params) = k + 4 /\ params[k + 1] = M("byte") /\ params[k + 2] = V("usize")
      /\ params[k + 3] = C("byte") /\ params[k + 4] = V("usize")
  OBVIOUS
<1>3. before \in Seq(Range(before)) /\ Len(before) = k /\ k \in Nat
  OBVIOUS
<1>4. \A i \in 1..k : Fit(params[i], before[i], 0)
  OBVIOUS
<1>5. EvmPassed(fn, before, rlen, len)
  OBVIOUS
<1> HIDE DEF params, before, k
<1> QED
  BY <1>1, <1>2, <1>3, <1>4, <1>5, EvmSound

LEMMA EvaluationSound ==
  ASSUME NEW o, PointEvaluationCall(o)
  PROVE  Sound(call')
<1> DEFINE params == <<C("ctt_eth_kzg_context"), M("byte"), V("usize"), C("byte"), V("usize")>>
           before == <<Handle(ctx[o])>>
           fn == "ctt_eth_evm_kzg_point_evaluation"
           k == 1
<1>1. PICK len \in {191, 192} :
        \E c \in Commitments, z, y \in Scalars, p \in Proofs :
          \E hashed \in {c, kzg_commit(zeroPoly)} :
            evm_kzg_point_evaluation(o, len, hashed, z, y, c, p)
  BY DEF PointEvaluationCall
<1>2. ASSUME NEW hashed, NEW z, NEW y, NEW c, NEW p,
             evm_kzg_point_evaluation(o, len, hashed, z, y, c, p)
      PROVE  EvmPassed(fn, before, 64, len)
  BY <1>2 DEF evm_kzg_point_evaluation, Evm, Call, EvmPassed, Untouched
<1>3. Takes(fn, params)
  BY EvmTakes
<1>4. /\ Len(params) = k + 4 /\ params[k + 1] = M("byte") /\ params[k + 2] = V("usize")
      /\ params[k + 3] = C("byte") /\ params[k + 4] = V("usize")
  OBVIOUS
<1>5. before \in Seq({Handle(ctx[o])}) /\ Len(before) = k /\ k \in Nat
  OBVIOUS
<1>6. \A i \in 1..k : Fit(params[i], before[i], 0)
  BY FitHandle DEF OpaqueTypes
<1> HIDE DEF params, before, fn, k
<1>7. before \in Seq(Range(before))
  BY <1>5, TupleList
<1>8. EvmPassed(fn, before, 64, len)
  BY <1>1, <1>2
<1>9. len \in Nat /\ 64 \in Nat
  BY <1>1
<1> QED
  BY <1>3, <1>4, <1>5, <1>6, <1>7, <1>8, <1>9, EvmSound

LEMMA ModexpSizeSound ==
  ASSUME NEW in, InputLen(in) \in Nat, evm_modexp(in)
  PROVE  Sound(call')
<1> DEFINE n == InputLen(in)
           params == <<M("u64"), C("byte"), V("usize")>>
           args == <<Memory(1, "u64"), ByteArray(n), Value(n)>>
           reach == <<1, n, 0>>
<1> HIDE DEF n
<1>1. /\ call'.fn = "ctt_eth_evm_modexp_result_size"
      /\ call'.args = args /\ call'.reach = reach
  BY DEF evm_modexp, Call, n
<1>2. n \in Nat
  BY DEF n
<1>3. /\ Fit(params[0 + 1], args[1], reach[1]) /\ Fit(params[0 + 2], args[2], reach[2])
      /\ Fit(params[0 + 3], args[3], reach[3])
  BY <1>2, FitWords, FitBytes, FitValue
<1>4. /\ args \in Seq({Memory(1, "u64"), ByteArray(n), Value(n)}) /\ Len(args) = 3
      /\ reach \in Seq(Nat) /\ Len(reach) = 3
  BY <1>2
<1>5. Len(params) = 0 + 3
  OBVIOUS
<1>6. Takes("ctt_eth_evm_modexp_result_size", params)
  BY EvmTakes
<1> HIDE DEF params, args, reach
<1>7. Listed(3, args, reach)
  BY <1>4, TupleList DEF Listed
<1>8. Accepts(0, 3, params, args, reach)
  BY <1>3, <1>5 DEF Accepts
<1> QED
  BY <1>1, <1>6, <1>7, <1>8, SoundCall

LEMMA ModexpLength ==
  ASSUME NEW in \in ModexpInputs
  PROVE  InputLen(in) \in Nat /\ in.mL \in Nat
<1>1. in.header \in Nat /\ in.mL \in Nat /\ in.data \in Sequences({0, 1, 3}, 3)
  BY ModexpSizes DEF ModexpInputs, Header
<1>2. PICK n \in 0..3 : in.data \in [1..n -> {0, 1, 3}]
  BY <1>1 DEF Sequences
<1> QED
  BY <1>1, <1>2 DEF InputLen

(* Base and exponent that end where an int can say are read in the input, if *)
(* they are read.                                                            *)
LEMMA ModexpReach ==
  ASSUME NEW in \in ModexpInputs, Contained(in)
  PROVE  modexp_reach(in) = InputLen(in)
<1> DEFINE n == InputLen(in)
           one == Header + in.bL
           two == Header + in.bL + in.eL
<1>1. n \in Nat /\ in.bL \in Nat /\ in.eL \in Nat
  BY ModexpLength, ModexpSizes
<1>2. one \in Nat /\ two \in Nat /\ one <= two
  BY <1>1 DEF Header
<1>3. ASSUME Fitting(in)
      PROVE  /\ Header + Signed(in.bL) = one
             /\ baseStop(in) + Signed(in.eL) = two
             /\ expStop(in) = two
  BY <1>1, <1>3, FittingStops
<1>4. ASSUME ~SpecialCase(in) PROVE modexp_reach(in) = Max({n} \union {one, two})
  BY <1>3, <1>4 DEF modexp_reach, Contained
<1>5. SpecialCase(in) \/ two < n
  <2>1. SpecialCase(in) \/ (ModulusIsMissing(in) <=> two >= n)
    BY <1>3 DEF ModulusIsMissing, Contained
  <2> HIDE DEF n, two
  <2> QED
    BY <1>1, <1>2, <2>1 DEF SpecialCase
<1> HIDE DEF n, one, two
<1>6. \A S : n \in S /\ (\A y \in S : y \in Nat /\ y <= n) => Max(S) = n
  <2>1. ASSUME NEW S, n \in S, \A y \in S : y \in Nat /\ y <= n
        PROVE  Max(S) = n
    <3>1. \A x \in S : (\A y \in S : x >= y) <=> x = n
      BY <1>1, <2>1
    <3>2. Max(S) = CHOOSE x \in S : \A y \in S : x >= y
      BY DEF Max
    <3> QED
      BY <2>1, <3>1, <3>2
  <2> QED
    BY <2>1
<1>7. CASE SpecialCase(in)
  <2> DEFINE S == {n}
  <2>1. modexp_reach(in) = Max(S)
    <3>1. modexp_reach(in) = Max({n} \union {})
      BY <1>7 DEF modexp_reach, n
    <3>2. {n} \union {} = S
      OBVIOUS
    <3> QED
      BY <3>1, <3>2
  <2>2. n \in S /\ \A y \in S : y \in Nat /\ y <= n
    BY <1>1
  <2> HIDE DEF S
  <2>3. modexp_reach(in) = n
    BY <1>6, <2>1, <2>2
  <2> QED
    BY <2>3 DEF n
<1>8. CASE ~SpecialCase(in)
  <2> DEFINE S == {n, one, two}
  <2>1. modexp_reach(in) = Max(S)
    <3>1. {n} \union {one, two} = S
      OBVIOUS
    <3> QED
      BY <1>4, <1>8, <3>1
  <2>2. n \in S /\ \A y \in S : y \in Nat /\ y <= n
    BY <1>1, <1>2, <1>5, <1>8
  <2> HIDE DEF S
  <2>3. modexp_reach(in) = n
    BY <1>6, <2>1, <2>2
  <2> QED
    BY <2>3 DEF n
<1> QED
  BY <1>7, <1>8

LEMMA ModexpSound ==
  ASSUME NEW in \in ModexpInputs, call.given.in = in, call.ret.v = in.mL, evm_modexp_sized,
         Careful(call')
  PROVE  Sound(call')
<1> DEFINE size == in.mL
           n == InputLen(in)
           params == <<M("byte"), V("usize"), C("byte"), V("usize")>>
           args == <<ByteArray(size), Value(size), ByteArray(n), Value(n)>>
           reach == <<size, 0, n, 0>>
           asked == ModexpAsked("modexp", in)
<1>1. asked.in = in
  BY DEF ModexpAsked
<1>2. CASE call' = NotMade(Panic, asked)
  BY <1>2, SoundNothing DEF NotMade, Call
<1>3. CASE /\ call'.fn = "ctt_eth_evm_modexp" /\ call'.given = asked /\ call'.args = args
           /\ call'.reach = <<size, 0, modexp_reach(in), 0>>
  <2>1. Contained(in)
    BY <1>1, <1>3 DEF Careful
  <2>2. call'.reach = reach
    BY <1>3, <2>1, ModexpReach
  <2> HIDE DEF n, size
  <2>3. n \in Nat /\ size \in Nat
    BY ModexpLength DEF n, size
  <2>4. /\ Fit(params[0 + 1], args[1], reach[1]) /\ Fit(params[0 + 2], args[2], reach[2])
        /\ Fit(params[0 + 3], args[3], reach[3]) /\ Fit(params[0 + 4], args[4], reach[4])
    BY <2>3, FitBytes, FitValue
  <2>5. /\ args \in Seq({ByteArray(size), Value(size), ByteArray(n), Value(n)}) /\ Len(args) = 4
        /\ reach \in Seq(Nat) /\ Len(reach) = 4
    BY <2>3
  <2>6. Len(params) = 0 + 4
    OBVIOUS
  <2>7. Takes("ctt_eth_evm_modexp", params)
    BY EvmTakes DEF Precompiles
  <2> HIDE DEF params, args, reach
  <2>8. Listed(4, args, reach)
    BY <2>5, TupleList DEF Listed
  <2>9. Accepts(0, 4, params, args, reach)
    BY <2>4, <2>6 DEF Accepts
  <2>10. call'.fn = "ctt_eth_evm_modexp" /\ call'.args = args
    BY <1>3
  <2> QED
    BY <2>2, <2>7, <2>8, <2>9, <2>10, SoundCall
<1> HIDE DEF asked, n
<1>4. \/ call' = NotMade(Panic, asked)
      \/ /\ call'.fn = "ctt_eth_evm_modexp" /\ call'.given = asked /\ call'.args = args
         /\ call'.reach = <<size, 0, modexp_reach(in), 0>>
  BY DEF evm_modexp_sized, Call, asked, n
<1> QED
  BY <1>2, <1>3, <1>4

LEMMA SumSound ==
  ASSUME NEW fn \in Precompiles, NEW size, NEW rlen \in Nat, NEW len \in Nat, NEW p, NEW q,
         Sum(fn, size, rlen, len, p, q)
  PROVE  Sound(call')
<1>1. EvmPassed(fn, <<>>, rlen, len)
  BY EvmArguments DEF Sum
<1> QED
  BY <1>1, PrecompileSound

LEMMA MulSound ==
  ASSUME NEW fn \in Precompiles, NEW size, NEW rlen \in Nat, NEW len \in Nat, NEW p, NEW s,
         Mul(fn, size, rlen, len, p, s)
  PROVE  Sound(call')
<1>1. EvmPassed(fn, <<>>, rlen, len)
  BY EvmArguments DEF Mul
<1> QED
  BY <1>1, PrecompileSound

LEMMA MsmSound ==
  ASSUME NEW fn \in Precompiles, NEW size, NEW rlen \in Nat, NEW len \in Nat, NEW ps, NEW ss,
         Msm(fn, size, rlen, len, ps, ss)
  PROVE  Sound(call')
<1>1. EvmPassed(fn, <<>>, rlen, len)
  BY EvmArguments DEF Msm
<1> QED
  BY <1>1, PrecompileSound

LEMMA MapSound ==
  ASSUME NEW fn \in Precompiles, NEW size, NEW rlen \in Nat, NEW len \in Nat, NEW us,
         MapTo(fn, size, rlen, len, us)
  PROVE  Sound(call')
<1>1. EvmPassed(fn, <<>>, rlen, len)
  BY EvmArguments DEF MapTo
<1> QED
  BY <1>1, PrecompileSound

LEMMA HashSound ==
  ASSUME NEW fn \in Precompiles, NEW op, NEW len \in Nat, Hash(fn, op, len)
  PROVE  Sound(call')
<1>1. EvmPassed(fn, <<>>, 32, len)
  BY EvmArguments DEF Hash
<1> QED
  BY <1>1, PrecompileSound

LEMMA Bn254Sound ==
  /\ \A len \in Nat : \A p, q : evm_bn254_g1add(len, p, q) => Sound(call')
  /\ \A len \in Nat : \A p, s : evm_bn254_g1mul(len, p, s) => Sound(call')
<1>1. ASSUME NEW len \in Nat, NEW p, NEW q, evm_bn254_g1add(len, p, q)
      PROVE  Sound(call')
  <2>1. EvmPassed("ctt_eth_evm_bn254_g1add", <<>>, 64, len)
    BY <1>1, EvmArguments DEF evm_bn254_g1add
  <2> QED
    BY <2>1, PrecompileSound DEF Precompiles
<1>2. ASSUME NEW len \in Nat, NEW p, NEW s, evm_bn254_g1mul(len, p, s)
      PROVE  Sound(call')
  <2>1. EvmPassed("ctt_eth_evm_bn254_g1mul", <<>>, 64, len)
    BY <1>2, EvmArguments DEF evm_bn254_g1mul
  <2> QED
    BY <2>1, PrecompileSound DEF Precompiles
<1> QED
  BY <1>1, <1>2

LEMMA PairingSound ==
  ASSUME NEW whole \in BOOLEAN, NEW ps, NEW qs, Len(ps) \in Nat,
         \/ evm_bn254_ec_pairing_check(whole, ps, qs)
         \/ evm_bls12381_pairing_check(whole, ps, qs)
  PROVE  Sound(call')
<1> DEFINE rest == IF whole THEN 0 ELSE 1
<1>1. 192 * Len(ps) + rest \in Nat /\ 384 * Len(ps) + rest \in Nat
  OBVIOUS
<1>2. CASE evm_bn254_ec_pairing_check(whole, ps, qs)
  <2>1. EvmPassed("ctt_eth_evm_bn254_ecpairingcheck", <<>>, 32, 192 * Len(ps) + rest)
    BY <1>2 DEF evm_bn254_ec_pairing_check, Evm, Call, EvmPassed, Untouched
  <2> HIDE DEF rest
  <2> QED
    BY <1>1, <2>1, PrecompileSound DEF Precompiles
<1>3. CASE evm_bls12381_pairing_check(whole, ps, qs)
  <2>1. EvmPassed("ctt_eth_evm_bls12381_pairingcheck", <<>>, 32, 384 * Len(ps) + rest)
    BY <1>3 DEF evm_bls12381_pairing_check, Evm, Call, EvmPassed, Untouched
  <2> HIDE DEF rest
  <2> QED
    BY <1>1, <2>1, PrecompileSound DEF Precompiles
<1> QED
  BY <1>2, <1>3

LEMMA EvmCallSound ==
  ASSUME EvmCall, ModexpSized, Careful(call')
  PROVE  Sound(call')
<1> USE DEF Precompiles
<1>1. CASE \E len \in {0, 1, 64} : evm_ripemd160(len) \/ evm_sha256(len)
  BY <1>1, HashSound DEF evm_ripemd160, evm_sha256
<1>2. CASE \E in \in ModexpInputs : evm_modexp(in)
  BY <1>2, ModexpLength, ModexpSizeSound
<1>3. CASE \E len \in {0, 64, 128, 130}, p, q \in Bn254G1 : evm_bn254_g1add(len, p, q)
  BY <1>3, Bn254Sound
<1>4. CASE \E len \in {0, 64, 96, 97}, p \in Bn254G1, s \in EvmScalars : evm_bn254_g1mul(len, p, s)
  BY <1>4, Bn254Sound
<1>5. CASE \E p, q \in AnyPoints : \/ \E len \in {255, 256} : evm_bls12381_g1add(len, p, q)
                                  \/ \E len \in {511, 512} : evm_bls12381_g2add(len, p, q)
  BY <1>5, SumSound DEF evm_bls12381_g1add, evm_bls12381_g2add
<1>6. CASE \E p \in AnyPoints, s \in EvmScalars :
             \/ \E len \in {159, 160} : evm_bls12381_g1mul(len, p, s)
             \/ \E len \in {288, 289} : evm_bls12381_g2mul(len, p, s)
  BY <1>6, MulSound DEF evm_bls12381_g1mul, evm_bls12381_g2mul
<1>7. CASE \E n \in 0..MaxItems, over \in {0, 1} :
             \E ps \in [1..n -> AnyPoints], ss \in [1..n -> {0, 1, EvmOrder + 1}] :
               evm_bls12381_g1msm(over, ps, ss) \/ evm_bls12381_g2msm(over, ps, ss)
  <2>1. PICK n \in 0..MaxItems, over \in {0, 1} :
          \E ps \in [1..n -> AnyPoints], ss \in [1..n -> {0, 1, EvmOrder + 1}] :
            evm_bls12381_g1msm(over, ps, ss) \/ evm_bls12381_g2msm(over, ps, ss)
    BY <1>7
  <2>2. PICK ps \in [1..n -> AnyPoints], ss \in [1..n -> {0, 1, EvmOrder + 1}] :
          evm_bls12381_g1msm(over, ps, ss) \/ evm_bls12381_g2msm(over, ps, ss)
    BY <2>1
  <2>3. 160 * Len(ps) + over \in Nat /\ 288 * Len(ps) + over \in Nat
    BY <2>2, MaxItemsAssumption
  <2> QED
    BY <2>2, <2>3, MsmSound DEF evm_bls12381_g1msm, evm_bls12381_g2msm
<1>8. CASE \E n \in 0..MaxItems, whole \in BOOLEAN : \E qs \in [1..n -> AnyPoints] :
             \/ \E ps \in [1..n -> Bn254G1] : evm_bn254_ec_pairing_check(whole, ps, qs)
             \/ \E ps \in [1..n -> AnyPoints] : evm_bls12381_pairing_check(whole, ps, qs)
  <2>1. ASSUME NEW n \in 0..MaxItems, NEW S, NEW ps \in [1..n -> S]
        PROVE  Len(ps) \in Nat
    BY <2>1, MaxItemsAssumption
  <2> QED
    BY <1>8, <2>1, PairingSound
<1>9. CASE \E len \in {63, 64}, u \in FieldBytes : evm_bls12381_map_fp_to_g1(len, u)
  BY <1>9, MapSound DEF evm_bls12381_map_fp_to_g1
<1>10. CASE \E len \in {128, 129}, u0, u1 \in FieldBytes : evm_bls12381_map_fp2_to_g2(len, u0, u1)
  BY <1>10, MapSound DEF evm_bls12381_map_fp2_to_g2
<1>11. CASE Made /\ call.given.crate = "evm" /\ evm_modexp_sized
  <2>1. call.given.in \in ModexpInputs /\ call.ret.v = call.given.in.mL
    BY <1>11 DEF ModexpSized, evm_modexp_sized
  <2> QED
    BY <1>11, <2>1, ModexpSound
<1> QED
  BY <1>1, <1>2, <1>3, <1>4, <1>5, <1>6, <1>7, <1>8, <1>9, <1>10, <1>11, SMTT(30) DEF EvmCall

-----------------------------------------------------------------------------
(* The BLS functions, which pass no handle but a threadpool.                 *)
LEMMA BlsBuffers ==
  ASSUME NEW n \in Nat
  PROVE  /\ Fit(M("byte"), Octets(n), n) /\ Fit(C("byte"), Octets(n), n)
         /\ Fit(M("ctt_eth_bls_pubkey"), Pubkeys(n), n)
         /\ Fit(C("ctt_eth_bls_pubkey"), Pubkeys(n), n)
         /\ Fit(M("ctt_eth_bls_signature"), Signatures(n), n)
         /\ Fit(C("ctt_eth_bls_signature"), Signatures(n), n)
<1>1. Pointee("ctt_eth_bls_pubkey") /\ Pointee("ctt_eth_bls_signature")
  BY DEF Pointee, OpaqueTypes, Untyped
<1>2. /\ Fit(M("ctt_eth_bls_pubkey"), Memory(n, "ctt_eth_bls_pubkey"), n)
      /\ Fit(C("ctt_eth_bls_pubkey"), Memory(n, "ctt_eth_bls_pubkey"), n)
      /\ Fit(M("ctt_eth_bls_signature"), Memory(n, "ctt_eth_bls_signature"), n)
      /\ Fit(C("ctt_eth_bls_signature"), Memory(n, "ctt_eth_bls_signature"), n)
  BY <1>1, BlsLayout, FitOwn
<1> QED
  BY <1>2, FitBytes DEF Octets, Pubkeys, Signatures

LEMMA SeckeyBuffers ==
  Fit(M("ctt_eth_bls_seckey"), Seckey, 1) /\ Fit(C("ctt_eth_bls_seckey"), Seckey, 1)
<1>1. Pointee("ctt_eth_bls_seckey")
  BY DEF Pointee, OpaqueTypes, Untyped
<1> QED
  BY <1>1, BlsLayout, FitOwn DEF Seckey

LEMMA OneArgument ==
  ASSUME NEW fn, NEW p1, Takes(fn, <<p1>>), NEW a1, NEW r1, Fit(p1, a1, r1),
         call'.fn = fn, call'.args = <<a1>>, call'.reach = <<r1>>
  PROVE  Sound(call')
<1> DEFINE params == <<p1>>
           args == <<a1>>
           reach == <<r1>>
<1>1. /\ args \in Seq({a1}) /\ Len(args) = 1
      /\ reach \in Seq({r1}) /\ Len(reach) = 1
  OBVIOUS
<1>2. Fit(params[0 + 1], args[1], reach[1]) /\ Len(params) = 0 + 1
  OBVIOUS
<1>3. /\ Takes(fn, params) /\ call'.fn = fn /\ call'.args = args /\ call'.reach = reach
  OBVIOUS
<1> HIDE DEF params, args, reach
<1>4. Listed(1, args, reach)
  BY <1>1, TupleList DEF Listed
<1>5. Accepts(0, 1, params, args, reach)
  BY <1>2 DEF Accepts
<1> QED
  BY <1>3, <1>4, <1>5, SoundCall

LEMMA TwoArguments ==
  ASSUME NEW fn, NEW p1, NEW p2, Takes(fn, <<p1, p2>>),
         NEW a1, NEW r1, Fit(p1, a1, r1), NEW a2, NEW r2, Fit(p2, a2, r2),
         call'.fn = fn, call'.args = <<a1, a2>>, call'.reach = <<r1, r2>>
  PROVE  Sound(call')
<1> DEFINE params == <<p1, p2>>
           args == <<a1, a2>>
           reach == <<r1, r2>>
<1>1. /\ args \in Seq({a1, a2}) /\ Len(args) = 2
      /\ reach \in Seq({r1, r2}) /\ Len(reach) = 2
  OBVIOUS
<1>2. /\ Fit(params[0 + 1], args[1], reach[1]) /\ Fit(params[0 + 2], args[2], reach[2])
      /\ Len(params) = 0 + 2
  OBVIOUS
<1>3. /\ Takes(fn, params) /\ call'.fn = fn /\ call'.args = args /\ call'.reach = reach
  OBVIOUS
<1> HIDE DEF params, args, reach
<1>4. Listed(2, args, reach)
  BY <1>1, TupleList DEF Listed
<1>5. Accepts(0, 2, params, args, reach)
  BY <1>2 DEF Accepts
<1> QED
  BY <1>3, <1>4, <1>5, SoundCall

LEMMA OneValueSound ==
  ASSUME NEW x,
         \/ derive_pubkey(x)
         \/ validate_seckey(x)
         \/ validate_pubkey(x)
         \/ validate_signature(x)
         \/ serialize_seckey(x)
         \/ serialize_pubkey_compressed(x)
         \/ serialize_signature_compressed(x)
         \/ deserialize_seckey(x)
         \/ deserialize_pubkey_compressed_unchecked(x)
         \/ deserialize_signature_compressed_unchecked(x)
         \/ deserialize_pubkey_compressed(x)
         \/ deserialize_signature_compressed(x)
  PROVE  Sound(call')
<1>1. CASE derive_pubkey(x)
  <2>1. /\ call'.fn = "ctt_eth_bls_derive_pubkey"
        /\ call'.args = <<Pubkeys(1), Seckey>> /\ call'.reach = <<1, 1>>
    BY <1>1 DEF derive_pubkey, Producing, Call
  <2>2. Fit(M("ctt_eth_bls_pubkey"), Pubkeys(1), 1) /\ Fit(C("ctt_eth_bls_seckey"), Seckey, 1)
    BY BlsBuffers, SeckeyBuffers
  <2> QED
    BY <2>1, <2>2, BlsTakes, TwoArguments
<1>2. CASE validate_seckey(x)
  <2>1. /\ call'.fn = "ctt_eth_bls_validate_seckey"
        /\ call'.args = <<Seckey>> /\ call'.reach = <<1>>
    BY <1>2 DEF validate_seckey, Deciding, Call
  <2>2. Fit(C("ctt_eth_bls_seckey"), Seckey, 1)
    BY SeckeyBuffers
  <2> QED
    BY <2>1, <2>2, BlsTakes, OneArgument
<1>3. CASE validate_pubkey(x)
  <2>1. /\ call'.fn = "ctt_eth_bls_validate_pubkey"
        /\ call'.args = <<Pubkeys(1)>> /\ call'.reach = <<1>>
    BY <1>3 DEF validate_pubkey, Deciding, Call
  <2>2. Fit(C("ctt_eth_bls_pubkey"), Pubkeys(1), 1)
    BY BlsBuffers
  <2> QED
    BY <2>1, <2>2, BlsTakes, OneArgument
<1>4. CASE validate_signature(x)
  <2>1. /\ call'.fn = "ctt_eth_bls_validate_signature"
        /\ call'.args = <<Signatures(1)>> /\ call'.reach = <<1>>
    BY <1>4 DEF validate_signature, Deciding, Call
  <2>2. Fit(C("ctt_eth_bls_signature"), Signatures(1), 1)
    BY BlsBuffers
  <2> QED
    BY <2>1, <2>2, BlsTakes, OneArgument
<1>5. CASE serialize_seckey(x)
  <2>1. /\ call'.fn = "ctt_eth_bls_serialize_seckey"
        /\ call'.args = <<Octets(32), Seckey>> /\ call'.reach = <<32, 1>>
    BY <1>5 DEF serialize_seckey, Producing, Call
  <2>2. Fit(M("byte"), Octets(32), 32) /\ Fit(C("ctt_eth_bls_seckey"), Seckey, 1)
    BY BlsBuffers, SeckeyBuffers
  <2> QED
    BY <2>1, <2>2, BlsTakes, TwoArguments
<1>6. CASE serialize_pubkey_compressed(x)
  <2>1. /\ call'.fn = "ctt_eth_bls_serialize_pubkey_compressed"
        /\ call'.args = <<Octets(48), Pubkeys(1)>> /\ call'.reach = <<48, 1>>
    BY <1>6 DEF serialize_pubkey_compressed, Producing, Call
  <2>2. Fit(M("byte"), Octets(48), 48) /\ Fit(C("ctt_eth_bls_pubkey"), Pubkeys(1), 1)
    BY BlsBuffers
  <2> QED
    BY <2>1, <2>2, BlsTakes, TwoArguments
<1>7. CASE serialize_signature_compressed(x)
  <2>1. /\ call'.fn = "ctt_eth_bls_serialize_signature_compressed"
        /\ call'.args = <<Octets(96), Signatures(1)>> /\ call'.reach = <<96, 1>>
    BY <1>7 DEF serialize_signature_compressed, Producing, Call
  <2>2. Fit(M("byte"), Octets(96), 96) /\ Fit(C("ctt_eth_bls_signature"), Signatures(1), 1)
    BY BlsBuffers
  <2> QED
    BY <2>1, <2>2, BlsTakes, TwoArguments
<1>8. CASE deserialize_seckey(x)
  <2>1. /\ call'.fn = "ctt_eth_bls_deserialize_seckey"
        /\ call'.args = <<Seckey, Octets(32)>> /\ call'.reach = <<1, 32>>
    BY <1>8 DEF deserialize_seckey, Producing, Call
  <2>2. Fit(M("ctt_eth_bls_seckey"), Seckey, 1) /\ Fit(C("byte"), Octets(32), 32)
    BY BlsBuffers, SeckeyBuffers
  <2> QED
    BY <2>1, <2>2, BlsTakes, TwoArguments
<1>9. CASE deserialize_pubkey_compressed_unchecked(x)
  <2>1. /\ call'.fn = "ctt_eth_bls_deserialize_pubkey_compressed_unchecked"
        /\ call'.args = <<Pubkeys(1), Octets(48)>> /\ call'.reach = <<1, 48>>
    BY <1>9 DEF deserialize_pubkey_compressed_unchecked, Producing, Call
  <2>2. Fit(M("ctt_eth_bls_pubkey"), Pubkeys(1), 1) /\ Fit(C("byte"), Octets(48), 48)
    BY BlsBuffers
  <2> QED
    BY <2>1, <2>2, BlsTakes, TwoArguments
<1>10. CASE deserialize_signature_compressed_unchecked(x)
  <2>1. /\ call'.fn = "ctt_eth_bls_deserialize_signature_compressed_unchecked"
        /\ call'.args = <<Signatures(1), Octets(96)>> /\ call'.reach = <<1, 96>>
    BY <1>10 DEF deserialize_signature_compressed_unchecked, Producing, Call
  <2>2. Fit(M("ctt_eth_bls_signature"), Signatures(1), 1) /\ Fit(C("byte"), Octets(96), 96)
    BY BlsBuffers
  <2> QED
    BY <2>1, <2>2, BlsTakes, TwoArguments
<1>11. CASE deserialize_pubkey_compressed(x)
  <2>1. /\ call'.fn = "ctt_eth_bls_deserialize_pubkey_compressed"
        /\ call'.args = <<Pubkeys(1), Octets(48)>> /\ call'.reach = <<1, 48>>
    BY <1>11 DEF deserialize_pubkey_compressed, Producing, Call
  <2>2. Fit(M("ctt_eth_bls_pubkey"), Pubkeys(1), 1) /\ Fit(C("byte"), Octets(48), 48)
    BY BlsBuffers
  <2> QED
    BY <2>1, <2>2, BlsTakes, TwoArguments
<1>12. CASE deserialize_signature_compressed(x)
  <2>1. /\ call'.fn = "ctt_eth_bls_deserialize_signature_compressed"
        /\ call'.args = <<Signatures(1), Octets(96)>> /\ call'.reach = <<1, 96>>
    BY <1>12 DEF deserialize_signature_compressed, Producing, Call
  <2>2. Fit(M("ctt_eth_bls_signature"), Signatures(1), 1) /\ Fit(C("byte"), Octets(96), 96)
    BY BlsBuffers
  <2> QED
    BY <2>1, <2>2, BlsTakes, TwoArguments
<1> QED
  BY <1>1, <1>2, <1>3, <1>4, <1>5, <1>6, <1>7, <1>8, <1>9, <1>10, <1>11, <1>12

LEMMA EqualSound ==
  ASSUME NEW a, NEW b, pubkeys_are_equal(a, b) \/ signatures_are_equal(a, b)
  PROVE  Sound(call')
<1>1. CASE pubkeys_are_equal(a, b)
  <2>1. /\ call'.fn = "ctt_eth_bls_pubkeys_are_equal"
        /\ call'.args = <<Pubkeys(1), Pubkeys(1)>> /\ call'.reach = <<1, 1>>
    BY <1>1 DEF pubkeys_are_equal, Deciding, Call
  <2>2. Fit(C("ctt_eth_bls_pubkey"), Pubkeys(1), 1)
    BY BlsBuffers
  <2> QED
    BY <2>1, <2>2, BlsTakes, TwoArguments
<1>2. CASE signatures_are_equal(a, b)
  <2>1. /\ call'.fn = "ctt_eth_bls_signatures_are_equal"
        /\ call'.args = <<Signatures(1), Signatures(1)>> /\ call'.reach = <<1, 1>>
    BY <1>2 DEF signatures_are_equal, Deciding, Call
  <2>2. Fit(C("ctt_eth_bls_signature"), Signatures(1), 1)
    BY BlsBuffers
  <2> QED
    BY <2>1, <2>2, BlsTakes, TwoArguments
<1> QED
  BY <1>1, <1>2

LEMMA HashBytesSound ==
  ASSUME NEW len \in Nat,
         sha256_hash(len)
  PROVE  Sound(call')
<1> DEFINE args == <<Octets(32), Octets(len), Value(len), Value(0)>>
           reach == <<32, len, 0, 0>>
           params == <<M("byte"), C("byte"), V("usize"), V("bool")>>
<1>1. /\ call'.fn = "ctt_sha256_hash"
      /\ call'.args = args /\ call'.reach = reach
  BY DEF sha256_hash, Producing, Call
<1>2. /\ Fit(params[1], args[1], reach[1])
      /\ Fit(params[2], args[2], reach[2])
      /\ Fit(params[3], args[3], reach[3])
      /\ Fit(params[4], args[4], reach[4])
  BY BlsBuffers, FitValue
<1>3. /\ args \in Seq({Octets(32), Octets(len), Value(len), Value(0)}) /\ Len(args) = 4
      /\ reach \in Seq(Nat) /\ Len(reach) = 4
  OBVIOUS
<1>4. Len(params) = 4
  OBVIOUS
<1>5. Takes("ctt_sha256_hash", params)
  BY BlsTakes
<1> HIDE DEF args, reach, params
<1>6. Listed(4, args, reach)
  BY <1>3, TupleList DEF Listed
<1>7. Accepts(0, 4, params, args, reach)
  BY <1>2, <1>4 DEF Accepts
<1> QED
  BY <1>1, <1>5, <1>6, <1>7, SoundCall

LEMMA SignSound ==
  ASSUME NEW sk, NEW m,
         sign(sk, m)
  PROVE  Sound(call')
<1> DEFINE args == <<Signatures(1), Seckey, Octets(32), Value(32)>>
           reach == <<1, 1, 32, 0>>
           params == <<M("ctt_eth_bls_signature"), C("ctt_eth_bls_seckey"), C("byte"),
                      V("usize")>>
<1>1. /\ call'.fn = "ctt_eth_bls_sign"
      /\ call'.args = args /\ call'.reach = reach
  BY DEF sign, Producing, Call
<1>2. /\ Fit(params[1], args[1], reach[1])
      /\ Fit(params[2], args[2], reach[2])
      /\ Fit(params[3], args[3], reach[3])
      /\ Fit(params[4], args[4], reach[4])
  BY BlsBuffers, SeckeyBuffers, FitValue
<1>3. /\ args \in Seq({Signatures(1), Seckey, Octets(32), Value(32)}) /\ Len(args) = 4
      /\ reach \in Seq(Nat) /\ Len(reach) = 4
  OBVIOUS
<1>4. Len(params) = 4
  OBVIOUS
<1>5. Takes("ctt_eth_bls_sign", params)
  BY BlsTakes
<1> HIDE DEF args, reach, params
<1>6. Listed(4, args, reach)
  BY <1>3, TupleList DEF Listed
<1>7. Accepts(0, 4, params, args, reach)
  BY <1>2, <1>4 DEF Accepts
<1> QED
  BY <1>1, <1>5, <1>6, <1>7, SoundCall

LEMMA VerifySound ==
  ASSUME NEW pk, NEW m, NEW sig,
         verify(pk, m, sig)
  PROVE  Sound(call')
<1> DEFINE args == <<Pubkeys(1), Octets(32), Value(32), Signatures(1)>>
           reach == <<1, 32, 0, 1>>
           params == <<C("ctt_eth_bls_pubkey"), C("byte"), V("usize"),
                      C("ctt_eth_bls_signature")>>
<1>1. /\ call'.fn = "ctt_eth_bls_verify"
      /\ call'.args = args /\ call'.reach = reach
  BY DEF verify, Deciding, Call
<1>2. /\ Fit(params[1], args[1], reach[1])
      /\ Fit(params[2], args[2], reach[2])
      /\ Fit(params[3], args[3], reach[3])
      /\ Fit(params[4], args[4], reach[4])
  BY BlsBuffers, FitValue
<1>3. /\ args \in Seq({Pubkeys(1), Octets(32), Value(32), Signatures(1)}) /\ Len(args) = 4
      /\ reach \in Seq(Nat) /\ Len(reach) = 4
  OBVIOUS
<1>4. Len(params) = 4
  OBVIOUS
<1>5. Takes("ctt_eth_bls_verify", params)
  BY BlsTakes
<1> HIDE DEF args, reach, params
<1>6. Listed(4, args, reach)
  BY <1>3, TupleList DEF Listed
<1>7. Accepts(0, 4, params, args, reach)
  BY <1>2, <1>4 DEF Accepts
<1> QED
  BY <1>1, <1>5, <1>6, <1>7, SoundCall

LEMMA FastAggregateSound ==
  ASSUME NEW n \in Nat, NEW pks, Len(pks) = n, NEW m, NEW sig,
         fast_aggregate_verify(pks, m, sig)
  PROVE  Sound(call')
<1> DEFINE args == <<Pubkeys(n), Value(n), Octets(32), Value(32), Signatures(1)>>
           reach == <<n, 0, 32, 0, 1>>
           params == <<C("ctt_eth_bls_pubkey"), V("usize"), C("byte"), V("usize"),
                      C("ctt_eth_bls_signature")>>
<1>1. /\ call'.fn = "ctt_eth_bls_fast_aggregate_verify"
      /\ call'.args = args /\ call'.reach = reach
  BY DEF fast_aggregate_verify, Deciding, Call
<1>2. /\ Fit(params[1], args[1], reach[1])
      /\ Fit(params[2], args[2], reach[2])
      /\ Fit(params[3], args[3], reach[3])
      /\ Fit(params[4], args[4], reach[4])
      /\ Fit(params[5], args[5], reach[5])
  BY BlsBuffers, FitValue
<1>3. /\ args \in Seq({Pubkeys(n), Value(n), Octets(32), Value(32), Signatures(1)}) /\ Len(args) = 5
      /\ reach \in Seq(Nat) /\ Len(reach) = 5
  OBVIOUS
<1>4. Len(params) = 5
  OBVIOUS
<1>5. Takes("ctt_eth_bls_fast_aggregate_verify", params)
  BY BlsTakes
<1> HIDE DEF args, reach, params
<1>6. Listed(5, args, reach)
  BY <1>3, TupleList DEF Listed
<1>7. Accepts(0, 5, params, args, reach)
  BY <1>2, <1>4 DEF Accepts
<1> QED
  BY <1>1, <1>5, <1>6, <1>7, SoundCall

LEMMA AggregateSound ==
  ASSUME NEW n \in Nat, NEW pks, Len(pks) = n, NEW ms, Len(ms) = n, NEW sig,
         aggregate_verify(pks, ms, sig)
  PROVE  Sound(call')
<1> DEFINE args == <<Pubkeys(n), Memory(n, "CttSpan"), Value(n), Signatures(1)>>
           reach == <<n, n, 0, 1>>
           params == <<C("ctt_eth_bls_pubkey"), C("ctt_span"), V("usize"),
                      C("ctt_eth_bls_signature")>>
<1>1. /\ call'.fn = "ctt_eth_bls_aggregate_verify"
      /\ call'.args = args /\ call'.reach = reach
  <2>1. Len(pks) = n /\ Len(ms) = n
    OBVIOUS
  <2> QED
    BY <2>1 DEF aggregate_verify, Deciding, Call
<1>2. /\ Fit(params[1], args[1], reach[1])
      /\ Fit(params[2], args[2], reach[2])
      /\ Fit(params[3], args[3], reach[3])
      /\ Fit(params[4], args[4], reach[4])
  BY BlsBuffers, FitWords, FitValue
<1>3. /\ args \in Seq({Pubkeys(n), Memory(n, "CttSpan"), Value(n), Signatures(1)}) /\ Len(args) = 4
      /\ reach \in Seq(Nat) /\ Len(reach) = 4
  OBVIOUS
<1>4. Len(params) = 4
  OBVIOUS
<1>5. Takes("ctt_eth_bls_aggregate_verify", params)
  BY BlsTakes
<1> HIDE DEF args, reach, params
<1>6. Listed(4, args, reach)
  BY <1>3, TupleList DEF Listed
<1>7. Accepts(0, 4, params, args, reach)
  BY <1>2, <1>4 DEF Accepts
<1> QED
  BY <1>1, <1>5, <1>6, <1>7, SoundCall

LEMMA BatchSound ==
  ASSUME NEW n \in Nat, NEW pks, Len(pks) = n, NEW ms, Len(ms) = n,
         NEW sigs, Len(sigs) = n,
         batch_verify(pks, ms, sigs)
  PROVE  Sound(call')
<1> DEFINE args == <<Pubkeys(n), Memory(n, "CttSpan"), Signatures(n), Value(n),
                    Octets(32)>>
           reach == <<n, n, n, 0, 32>>
           params == <<C("ctt_eth_bls_pubkey"), C("ctt_span"),
                      C("ctt_eth_bls_signature"), V("usize"), C("byte")>>
<1>1. /\ call'.fn = "ctt_eth_bls_batch_verify"
      /\ call'.args = args /\ call'.reach = reach
  <2>1. Len(pks) = n /\ Len(ms) = n /\ Len(sigs) = n
    OBVIOUS
  <2> QED
    BY <2>1 DEF batch_verify, batch_args, Deciding, Call
<1>2. /\ Fit(params[1], args[1], reach[1])
      /\ Fit(params[2], args[2], reach[2])
      /\ Fit(params[3], args[3], reach[3])
      /\ Fit(params[4], args[4], reach[4])
      /\ Fit(params[5], args[5], reach[5])
  BY BlsBuffers, FitWords, FitValue
<1>3. /\ args \in Seq({Pubkeys(n), Memory(n, "CttSpan"), Signatures(n), Value(n),
                           Octets(32)}) /\ Len(args) = 5
      /\ reach \in Seq(Nat) /\ Len(reach) = 5
  OBVIOUS
<1>4. Len(params) = 5
  OBVIOUS
<1>5. Takes("ctt_eth_bls_batch_verify", params)
  BY BlsTakes
<1> HIDE DEF args, reach, params
<1>6. Listed(5, args, reach)
  BY <1>3, TupleList DEF Listed
<1>7. Accepts(0, 5, params, args, reach)
  BY <1>2, <1>4 DEF Accepts
<1> QED
  BY <1>1, <1>5, <1>6, <1>7, SoundCall

(* The threadpool goes before the arguments of the serial function.          *)
LEMMA ParallelBatchSound ==
  ASSUME NEW p, NEW n \in Nat, NEW pks, Len(pks) = n, NEW ms, Len(ms) = n,
         NEW sigs, Len(sigs) = n, batch_verify_parallel(p, pks, ms, sigs)
  PROVE  Sound(call')
<1> DEFINE args == <<Pubkeys(n), Memory(n, "CttSpan"), Signatures(n), Value(n), Octets(32)>>
           reach == <<0, n, n, n, 0, 32>>
           params == <<C("ctt_threadpool"), C("ctt_eth_bls_pubkey"), C("ctt_span"),
                       C("ctt_eth_bls_signature"), V("usize"), C("byte")>>
           before == <<Handle(p)>>
           S == {Handle(p), Pubkeys(n), Memory(n, "CttSpan"), Signatures(n), Value(n), Octets(32)}
<1>1. /\ call'.fn = "ctt_eth_bls_batch_verify_parallel"
      /\ call'.args = before \o args /\ call'.reach = reach
  <2>1. Len(pks) = n /\ Len(ms) = n /\ Len(sigs) = n
    OBVIOUS
  <2> QED
    BY <2>1 DEF batch_verify_parallel, batch_args, Deciding, Call
<1>2. /\ Fit(params[0 + 2], args[1], reach[2])
      /\ Fit(params[0 + 3], args[2], reach[3])
      /\ Fit(params[0 + 4], args[3], reach[4])
      /\ Fit(params[0 + 5], args[4], reach[5])
      /\ Fit(params[0 + 6], args[5], reach[6])
  BY BlsBuffers, FitWords, FitValue
<1>11. Fit(params[0 + 1], before[1], reach[1])
  BY FitHandle DEF OpaqueTypes
<1>3. before \in Seq(S) /\ Len(before) = 1 /\ args \in Seq(S) /\ Len(args) = 5
  OBVIOUS
<1>4. reach \in Seq(Nat) /\ Len(reach) = 6 /\ Len(params) = 0 + 6
  OBVIOUS
<1>5. Takes("ctt_eth_bls_batch_verify_parallel", params)
  BY BlsTakes
<1> DEFINE all == before \o args
<1> HIDE DEF args, reach, params, before, S
<1>12. /\ Len(all) = 1 + 5
       /\ \A i \in 1 .. 1 + 5 : all[i] = IF i <= 1 THEN before[i] ELSE args[i - 1]
  <2>1. /\ Len(before \o args) = Len(before) + Len(args)
        /\ \A i \in 1 .. Len(before) + Len(args) :
             (before \o args)[i] = IF i <= Len(before) THEN before[i] ELSE args[i - Len(before)]
    BY <1>3, Concatenated
  <2> QED
    BY <1>3, <2>1
<1> HIDE DEF all
<1>6. /\ Len(all) = 6 /\ all[1] = before[1] /\ all[2] = args[1] /\ all[3] = args[2]
      /\ all[4] = args[3] /\ all[5] = args[4] /\ all[6] = args[5]
  BY <1>12
<1>7. all \in Seq(S)
  BY <1>3 DEF all
<1>8. Listed(6, all, reach)
  BY <1>4, <1>6, <1>7, TupleList DEF Listed
<1>9. Accepts(0, 6, params, all, reach)
  BY <1>2, <1>4, <1>6, <1>11 DEF Accepts
<1>10. call'.args = all
  BY <1>1 DEF all
<1> QED
  BY <1>1, <1>5, <1>8, <1>9, <1>10, SoundCall

(* What a call that is made on lists of one length says of their lengths.    *)
LEMMA AlikeLengths ==
  ASSUME NEW S, NEW T, NEW list \in Lists(S), NEW other \in Lists(T), DOMAIN list = DOMAIN other
  PROVE  Len(list) = Len(other)
<1>1. PICK n \in Nat : list \in [1..n -> S] /\ Len(list) = n /\ DOMAIN list = 1..n
  BY ListsKnown
<1>2. PICK k \in Nat : other \in [1..k -> T] /\ Len(other) = k /\ DOMAIN other = 1..k
  BY ListsKnown
<1> QED
  BY <1>1, <1>2, OneLength

LEMMA AggregateAlike ==
  ASSUME NEW pks \in Lists(Group), NEW ms \in Lists(BlsMessages), NEW sig,
         aggregate_verify(pks, ms, sig), Careful(call')
  PROVE  Sound(call')
<1>1. call'.given = Bls("aggregate", [pks |-> pks, ms |-> ms, sigs |-> <<sig>>])
  BY DEF aggregate_verify, Deciding, Call
<1>2. DOMAIN ms = DOMAIN pks
  BY <1>1 DEF Careful, Alike, Bls
<1>3. Len(ms) = Len(pks) /\ Len(pks) \in Nat
  BY <1>2, AlikeLengths, ListsKnown
<1> QED
  BY <1>3, AggregateSound

LEMMA BatchAlike ==
  ASSUME NEW pks \in Lists(Group), NEW sigs \in Lists(Group), NEW ms \in Lists(BlsMessages),
         batch_verify(pks, ms, sigs) \/ \E p : batch_verify_parallel(p, pks, ms, sigs),
         Careful(call')
  PROVE  Sound(call')
<1>1. call'.given = Bls("batch", [pks |-> pks, ms |-> ms, sigs |-> sigs])
  <2>1. CASE batch_verify(pks, ms, sigs)
    BY <2>1 DEF batch_verify, Deciding, Call
  <2>2. CASE \E p : batch_verify_parallel(p, pks, ms, sigs)
    BY <2>2 DEF batch_verify_parallel, Deciding, Call
  <2> QED
    BY <2>1, <2>2
<1>2. DOMAIN ms = DOMAIN pks /\ DOMAIN sigs = DOMAIN pks
  BY <1>1 DEF Careful, Alike, Bls
<1>3. Len(ms) = Len(pks) /\ Len(sigs) = Len(pks) /\ Len(pks) \in Nat
  BY <1>2, AlikeLengths, ListsKnown
<1> QED
  BY <1>3, BatchSound, ParallelBatchSound

LEMMA BlsCallSound ==
  ASSUME NEW pools, BlsCall(pools), Careful(call')
  PROVE  Sound(call')
<1>1. CASE \E len \in {0, 1, 64} : sha256_hash(len)
  BY <1>1, HashBytesSound
<1>2. CASE \E sk \in Group \ {0} : derive_pubkey(sk) \/ \E m \in BlsMessages : sign(sk, m)
  BY <1>2, OneValueSound, SignSound
<1>3. CASE \E a, b \in RawPoints : pubkeys_are_equal(a, b) \/ signatures_are_equal(a, b)
  BY <1>3, EqualSound
<1>4. CASE \E e \in Secrets : validate_seckey(e) \/ deserialize_seckey(e)
  BY <1>4, OneValueSound
<1>5. CASE serialize_seckey("one")
  BY <1>5, OneValueSound
<1>6. CASE \E p \in RawPoints : validate_pubkey(p) \/ validate_signature(p)
  BY <1>6, OneValueSound
<1>7. CASE \E p \in CurvePoints :
             serialize_pubkey_compressed(p) \/ serialize_signature_compressed(p)
  BY <1>7, OneValueSound
<1>8. CASE \E src \in Encodings :
             \/ deserialize_pubkey_compressed_unchecked(src)
             \/ deserialize_signature_compressed_unchecked(src)
             \/ deserialize_pubkey_compressed(src)
             \/ deserialize_signature_compressed(src)
  BY <1>8, OneValueSound
<1>9. CASE \E pk, sig \in Group, m \in BlsMessages : verify(pk, m, sig)
  BY <1>9, VerifySound
<1>10. CASE \E pks \in Lists(Group), sig \in Group :
          \/ \E m \in BlsMessages : fast_aggregate_verify(pks, m, sig)
          \/ \E ms \in Lists(BlsMessages) : aggregate_verify(pks, ms, sig)
  <2>1. \A list \in Lists(Group) : Len(list) \in Nat
    BY ListsKnown
  <2> QED
    BY <1>10, <2>1, FastAggregateSound, AggregateAlike
<1>11. CASE \E pks, sigs \in Lists(Group), ms \in Lists(BlsMessages) :
          \/ batch_verify(pks, ms, sigs)
          \/ \E p \in pools : batch_verify_parallel(p, pks, ms, sigs)
  BY <1>11, BatchAlike
<1> QED
  BY <1>1, <1>2, <1>3, <1>4, <1>5, <1>6, <1>7, <1>8, <1>9, <1>10, <1>11 DEF BlsCall

-----------------------------------------------------------------------------
(* constantine-core and constantine-halo2-zal.                               *)
LEMMA SysrandSound ==
  ASSUME NEW len \in Nat, NEW success, sysrand(len, success)
  PROVE  Sound(call')
<1>1. /\ call'.fn = "ctt_csprng_sysrand"
      /\ call'.args = <<ByteArray(len), Value(len)>> /\ call'.reach = <<len, 0>>
  BY DEF sysrand, Call
<1>2. Fit(M("c_void"), ByteArray(len), len) /\ Fit(V("usize"), Value(len), 0)
  BY FitUntyped, FitValue
<1> QED
  BY <1>1, <1>2, CoreTakes, TwoArguments

LEMMA ThreadsSound ==
  ASSUME NEW n, get_num_threads_os(n)
  PROVE  Sound(call')
<1>1. call'.fn = "ctt_cpu_get_num_threads_os" /\ call'.args = <<>> /\ call'.reach = <<>>
  BY DEF get_num_threads_os, Call
<1>2. Listed(0, <<>>, <<>>) /\ Accepts(0, 0, <<>>, <<>>, <<>>)
  BY DEF Listed, Accepts
<1> QED
  BY <1>1, <1>2, CoreTakes, SoundCall

LEMMA EqualMsmSound ==
  ASSUME NEW p, NEW n \in Nat, msm(p, n, n)
  PROVE  Sound(call')
<1> DEFINE args == <<Handle(p), Memory(1, "bn254_snarks_g1_prj"), Memory(4 * n, "u64"),
                    Memory(8 * n, "u64"), Value(n)>>
           reach == <<0, 1, n, n, 0>>
           params == <<C("ctt_threadpool"), M("bn254_snarks_g1_prj"),
                      C("bn254_snarks_fr"), C("bn254_snarks_g1_aff"), V("usize")>>
<1>1. /\ call'.fn = "ctt_bn254_snarks_g1_prj_multi_scalar_mul_fr_coefs_vartime_parallel"
      /\ call'.args = args /\ call'.reach = reach
  BY DEF msm, Call
<1>2. /\ Fit(params[1], args[1], reach[1])
      /\ Fit(params[2], args[2], reach[2])
      /\ Fit(params[3], args[3], reach[3])
      /\ Fit(params[4], args[4], reach[4])
      /\ Fit(params[5], args[5], reach[5])
  BY FitHandle, FitWords, FitValue DEF OpaqueTypes
<1>3. /\ args \in Seq({Handle(p), Memory(1, "bn254_snarks_g1_prj"),
                           Memory(4 * n, "u64"), Memory(8 * n, "u64"), Value(n)}) /\ Len(args) = 5
      /\ reach \in Seq(Nat) /\ Len(reach) = 5
  OBVIOUS
<1>4. Len(params) = 5
  OBVIOUS
<1>5. Takes("ctt_bn254_snarks_g1_prj_multi_scalar_mul_fr_coefs_vartime_parallel", params)
  BY CoreTakes
<1> HIDE DEF args, reach, params
<1>6. Listed(5, args, reach)
  BY <1>3, TupleList DEF Listed
<1>7. Accepts(0, 5, params, args, reach)
  BY <1>2, <1>4 DEF Accepts
<1> QED
  BY <1>1, <1>5, <1>6, <1>7, SoundCall

(* Different lengths panic before the call.                                  *)
LEMMA MsmCallSound ==
  ASSUME NEW p, NEW coeffs \in Nat, NEW bases \in Nat, msm(p, coeffs, bases)
  PROVE  Sound(call')
<1>1. CASE coeffs # bases
  <2>1. call' = NotMade(Panic, CoreAsked("msm"))
    BY <1>1 DEF msm
  <2> QED
    BY <2>1, MismatchSound
<1>2. CASE coeffs = bases
  BY <1>2, EqualMsmSound
<1> QED
  BY <1>1, <1>2

LEMMA CoreCallSound ==
  ASSUME NEW pools, CoreCall(pools)
  PROVE  Sound(call')
<1>1. CASE \E len \in {0, 32}, success \in BOOLEAN : sysrand(len, success)
  BY <1>1, SysrandSound
<1>2. CASE \E n \in {1, 8} : get_num_threads_os(n)
  BY <1>2, ThreadsSound
<1>3. CASE \E p \in pools, coeffs, bases \in 0..MaxItems :
             \/ msm(p, coeffs, bases)
             \/ msm_with_cached_scalars(p, descriptor(coeffs), bases)
             \/ msm_with_cached_base(p, coeffs, descriptor(bases))
             \/ msm_with_cached_inputs(p, descriptor(coeffs), descriptor(bases))
  <2>1. PICK p \in pools, coeffs, bases \in 0..MaxItems : msm(p, coeffs, bases)
    BY <1>3 DEF msm_with_cached_scalars, msm_with_cached_base, msm_with_cached_inputs,
       descriptor
  <2>2. coeffs \in Nat /\ bases \in Nat
    BY MaxItemsAssumption
  <2> QED
    BY <2>1, <2>2, MsmCallSound
<1> QED
  BY <1>1, <1>2, <1>3 DEF CoreCall

-----------------------------------------------------------------------------
(* Every such call is sound on every target, so on the one at hand.          *)
Buffers == target \in Builds /\ (Made /\ Careful(call) => Sound(call))

LEMMA BuffersStep ==
  ASSUME Buffers, ModexpSized, [CratesNext]_vars
  PROVE  Buffers'
<1>1. target' = target
  BY DEF CratesNext, vars, program, Compile, Contexts, Threadpools, KzgCalls, BlsCalls,
     EvmCalls,
         CoreCalls, Return
<1>2. ASSUME Careful(call') => Sound(call')
      PROVE  Buffers'
  BY <1>1, <1>2 DEF Buffers
<1>3. CASE Compile \/ Return
  <2>1. call' = NoCall
    BY <1>3 DEF Compile, Return
  <2>2. ~Made'
    BY <2>1 DEF Made
  <2> QED
    BY <1>1, <2>2 DEF Buffers
<1>4. CASE Contexts \/ Threadpools \/ UNCHANGED vars
  <2>1. call' = call
    BY <1>4 DEF Contexts, Threadpools, vars, program
  <2> QED
    BY <1>1, <2>1 DEF Buffers, Made, Careful
<1>5. CASE KzgCalls
  <2>1. PICK o \in Objs : KzgCall(o) \/ PointEvaluationCall(o) \/ Sample(o)
    BY <1>5 DEF KzgCalls
  <2> QED
    BY <1>2, <2>1, KzgCallSound, EvaluationSound, SampleSound
<1>6. CASE BlsCalls
  BY <1>2, <1>6, BlsCallSound DEF BlsCalls
<1>7. CASE EvmCalls
  BY <1>2, <1>7, EvmCallSound DEF EvmCalls
<1>8. CASE CoreCalls
  BY <1>2, <1>8, CoreCallSound DEF CoreCalls
<1> QED
  BY <1>3, <1>4, <1>5, <1>6, <1>7, <1>8 DEF CratesNext

LEMMA BuffersInvariant == CratesSpec => []Buffers
<1>1. CratesInit => Buffers
  BY DEF CratesInit, Buffers, Made
<1>2. AllAnswers => ModexpSized
  BY DEF AllAnswers
<1>3. Buffers /\ ModexpSized /\ [CratesNext]_vars => Buffers'
  BY BuffersStep
<1> QED
  BY <1>1, <1>2, <1>3, AnswersInvariant, PTL DEF CratesSpec

(* The memory contract of a call, on every target: what a wrapper passes has *)
(* the kind and the alignment that the prototype asks for, room for all that *)
(* the library reads, and exactly the size that the library fills.  It holds *)
(* for KZG slices whatever their lengths are, which the wrappers compare;    *)
(* for the lists of the BLS functions, which nobody compares, only when they *)
(* have one length, and for MODEXP when its lengths fit an int or one of its *)
(* early returns is taken.                                                   *)
THEOREM BuffersFitTheorem == CratesSpec => []BuffersFit
<1>1. Buffers => BuffersFit
  BY DEF Buffers, BuffersFit, Careful, Sound, api
<1> QED
  BY <1>1, BuffersInvariant, PTL

(* rustc accepts the crate on every target: the size, the alignment and the  *)
(* offsets that the const block after each struct asserts are those that     *)
(* repr(C) gives there, also where repr(align) makes padding.                *)
THEOREM LayoutsHoldTheorem == CratesSpec => []LayoutsHold
<1>1. Buffers => LayoutsHold
  BY LayoutsOnTargets DEF Buffers
<1> QED
  BY <1>1, BuffersInvariant, PTL

(* The two generated files declare one API: on any two targets the functions *)
(* have the same prototypes, the statuses the same codes and the structs the *)
(* same number of bytes, apart from ctt_span, which is two words.            *)
THEOREM BindingsAgreeTheorem == CratesSpec => []BindingsAgree
<1>1. Buffers => BindingsAgree
  BY BindingsOnTargets DEF Buffers
<1> QED
  BY <1>1, BuffersInvariant, PTL
=============================================================================
