------------------------------- MODULE EthKzg -------------------------------
(* The methods of EthKzgContext and the native functions they call, serial   *)
(* and parallel.  A field element is zero, one or too big for the field; a   *)
(* blob is the sequence of its elements and the polynomial with these values *)
(* at the points zero and one; a compressed point is what the decoder says   *)
(* of it with the polynomial it commits to.                                  *)
EXTENDS KzgContext, RustFfi

kzgOk == "cttEthKzg_Success"

-----------------------------------------------------------------------------
(* Conversions.  deserialize_scalar tells zero from the other elements, the  *)
(* KZG decoders do not.                                                      *)
deserialize_scalar(e) ==
  CASE e = "zero" -> "cttCodecScalar_Zero"
    [] e = "big"  -> "cttCodecScalar_ScalarLargerThanCurveOrder"
    [] OTHER      -> "cttCodecScalar_Success"

(* A faulty variant: zero elements are refused.                              *)
bytes_to_bls_field_strict(e) == deserialize_scalar(e)

bytes_to_bls_field(e) ==
  LET status == deserialize_scalar(e)
  IN  IF status \notin {"cttCodecScalar_Success", "cttCodecScalar_Zero"}
      THEN status ELSE "cttCodecScalar_Success"

bytes_to_point(p) ==
  IF p.codec = "cttCodecEcc_PointAtInfinity" THEN "cttCodecEcc_Success" ELSE p.codec

(* The templates `?' and `check': from a codec status to a KZG status.       *)
check(status) ==
  CASE status \in {"cttCodecScalar_Success", "cttCodecScalar_Zero",
                   "cttCodecEcc_Success", "cttCodecEcc_PointAtInfinity"} -> kzgOk
    [] status = "cttCodecScalar_ScalarLargerThanCurveOrder" ->
         "cttEthKzg_ScalarLargerThanCurveOrder"
    [] status = "cttCodecEcc_InvalidEncoding" -> "cttEthKzg_EccInvalidEncoding"
    [] status = "cttCodecEcc_CoordinateGreaterThanOrEqualModulus" ->
         "cttEthKzg_EccCoordinateGreaterThanOrEqualModulus"
    [] status = "cttCodecEcc_PointNotOnCurve" -> "cttEthKzg_EccPointNotOnCurve"
    [] status = "cttCodecEcc_PointNotInSubgroup" -> "cttEthKzg_EccPointNotInSubgroup"

Scalar(e) == check(bytes_to_bls_field(e))
Point(p)  == check(bytes_to_point(p))

(* A parallel reduction of statuses: each worker keeps the first that is not *)
(* Success and merges what its remote parts found, so the status that comes  *)
(* out is that of some failing iteration, in no fixed order.                 *)
Reduced(ok, statuses) ==
  LET bad == Range(statuses) \ {ok} IN IF bad = {} THEN {ok} ELSE bad

(* blob_to_field_polynomial, blob_to_bigint_polynomial and their parallel    *)
(* versions: the KZG statuses they may lead to.                              *)
blob_to_polynomial(parallel, blob) ==
  LET statuses == [i \in DOMAIN blob |-> bytes_to_bls_field(blob[i])]
      ok == "cttCodecScalar_Success"
  IN  {check(s) : s \in IF parallel THEN Reduced(ok, statuses)
                        ELSE {FirstError(ok, statuses)}}

-----------------------------------------------------------------------------
(* The polynomial commitment scheme.  The zero polynomial commits to the     *)
(* point at infinity, and the quotient of a constant polynomial is zero, so  *)
(* that its proofs are the point at infinity whatever the challenge.         *)
Encoded(of) ==
  [codec |-> IF of = <<>> THEN "cttCodecEcc_PointAtInfinity" ELSE "cttCodecEcc_Success",
   of |-> of]
Malformed(status) == [codec |-> status, of |-> <<>>]

Constant(poly) == poly[1] = poly[2]
kzg_commit(poly) == Encoded(IF poly = <<"zero", "zero">> THEN <<>> ELSE <<poly>>)
evalPolyAt(poly, z) == IF z = "zero" THEN poly[1] ELSE poly[2]
kzg_prove(poly, z) == Encoded(IF Constant(poly) THEN <<>> ELSE <<poly, z>>)

Committed(c) == IF c.of = <<>> THEN <<"zero", "zero">> ELSE c.of[1]

(* Does the proof open the commitment at z to y ?                            *)
kzg_verify(commitment, z, y, proof) ==
  LET poly == Committed(commitment)
  IN  y = evalPolyAt(poly, z) /\ proof = kzg_prove(poly, z)

(* The challenge is a hash of the blob and of the commitment given with it.  *)
(* Two different polynomials agree at it with negligible probability: here   *)
(* they never do.                                                            *)
fiatShamirChallenge(blob, commitment) ==
  LET poly == Committed(commitment)
  IN  IF blob = poly THEN "one"
      ELSE CHOOSE z \in {"zero", "one"} : evalPolyAt(blob, z) # evalPolyAt(poly, z)

verify_blob(blob, commitment, proof) ==
  LET z == fiatShamirChallenge(blob, commitment)
  IN  kzg_verify(commitment, z, evalPolyAt(blob, z), proof)

(* The blinding factor of a batch, from the caller's random bytes: all zero, *)
(* a non-zero multiple of the scalar field's modulus, or anything else.  The *)
(* serial functions fall back on a Fiat-Shamir challenge when the reduced    *)
(* factor is zero, the parallel one only when the bytes are.                 *)
Seeds == {"zeros", "modulus", "random"}
BlindingIsZero(parallel, seed) == parallel /\ seed = "modulus"

(* kzg_verify_batch weighs the items with powers of the blinding factor: it  *)
(* holds when all do, or when the factor is zero.                            *)
kzg_verify_batch(items, parallel, seed) ==
  \/ BlindingIsZero(parallel, seed)
  \/ \A i \in DOMAIN items :
       verify_blob(items[i].blob, items[i].commitment, items[i].proof)

Verdict(holds) == IF holds THEN kzgOk ELSE "cttEthKzg_VerificationFailure"
-----------------------------------------------------------------------------
(* The two ways in which the wrappers read the status they get.              *)
StatusIn(status) == FromNative(constants.ctt_eth_kzg_status, cttEthKzgStatus, status)
Verified(status) ==
  CASE StatusIn(status) = kzgOk                           -> Ok(TRUE)
    [] StatusIn(status) = "cttEthKzg_VerificationFailure" -> Ok(FALSE)
    [] OTHER                                              -> Err(StatusIn(status))
Computed(status) == IF StatusIn(status) = kzgOk THEN Ok("") ELSE Err(StatusIn(status))

parallel_of ==
  [ctt_eth_kzg_blob_to_kzg_commitment      |-> "ctt_eth_kzg_blob_to_kzg_commitment_parallel",
   ctt_eth_kzg_compute_kzg_proof           |-> "ctt_eth_kzg_compute_kzg_proof_parallel",
   ctt_eth_kzg_compute_blob_kzg_proof      |-> "ctt_eth_kzg_compute_blob_kzg_proof_parallel",
   ctt_eth_kzg_verify_blob_kzg_proof       |-> "ctt_eth_kzg_verify_blob_kzg_proof_parallel",
   ctt_eth_kzg_verify_blob_kzg_proof_batch |-> "ctt_eth_kzg_verify_blob_kzg_proof_batch_parallel"]

(* What a caller asked, for the reference answers: the threadpool its object *)
(* borrows, the elements and points among the inputs, whether their lengths  *)
(* and indices are right, and whether what a verification is asked about is  *)
(* true of well-formed inputs.                                               *)
Asked(o, verify, parallel, scalars, points, shape, truth) ==
  [crate |-> "kzg", pool |-> tp[o], verify |-> verify, parallel |-> parallel,
   scalars |-> scalars, points |-> points, shape |-> shape, truth |-> truth]

(* A method of context o passes self.ctx and, in the parallel versions,      *)
(* first unwraps its threadpool: expect() panics when none was set.  `outs'  *)
(* are the positions of the arguments the native function fills, which it    *)
(* does before it returns Success and not otherwise.                         *)
Invoke(o, parallel, fn, args, reach, outs, status, ret, asked) ==
  LET before == IF parallel THEN <<Handle(tp[o]), Handle(ctx[o])>> ELSE <<Handle(ctx[o])>>
      shifted == {i + Len(before) : i \in outs}
  IN  call' = IF parallel /\ tp[o] = Nil THEN NotMade(Panic, asked)
              ELSE Call(IF parallel THEN parallel_of[fn] ELSE fn,
                        before \o args, [i \in 1..Len(before) |-> 0] \o reach,
                        IF status = kzgOk THEN shifted ELSE {},
                        IF ret.tag = "Ok" THEN shifted ELSE {},
                        ret, asked)

(* The methods that have no parallel version.                                *)
Serially(o, fn, args, reach, outs, status, ret, asked) ==
  Invoke(o, FALSE, fn, args, reach, outs, status, ret, asked)

blob_bytes == ByteArray(4096 * 32)
point_bytes == ByteArray(48)
scalar_bytes == ByteArray(32)

blob_to_kzg_commitment(o, parallel, blob) ==
  \E status \in blob_to_polynomial(parallel, blob) :
    Invoke(o, parallel, "ctt_eth_kzg_blob_to_kzg_commitment",
           <<point_bytes, blob_bytes>>, <<1, 1>>, {1}, status, Computed(status),
           Asked(o, FALSE, parallel, Range(blob), {}, "", TRUE))

compute_kzg_proof(o, parallel, blob, z) ==
  \E conv \in blob_to_polynomial(parallel, blob) :
    LET status == FirstError(kzgOk, <<Scalar(z), conv>>)
    IN  Invoke(o, parallel, "ctt_eth_kzg_compute_kzg_proof",
               <<point_bytes, scalar_bytes, blob_bytes, scalar_bytes>>, <<1, 1, 1, 1>>,
               {1, 2}, status, Computed(status),
               Asked(o, FALSE, parallel, Range(blob) \union {z}, {}, "", TRUE))

verify_kzg_proof(o, commitment, z, y, proof) ==
  LET decoded == FirstError(kzgOk, <<Point(commitment), Scalar(z), Scalar(y), Point(proof)>>)
      status == IF decoded # kzgOk THEN decoded
                ELSE Verdict(kzg_verify(commitment, z, y, proof))
  IN  Serially(o, "ctt_eth_kzg_verify_kzg_proof",
             <<point_bytes, scalar_bytes, scalar_bytes, point_bytes>>, <<1, 1, 1, 1>>,
             {}, status, Verified(status),
             Asked(o, TRUE, FALSE, {z, y}, {commitment, proof}, "",
                   kzg_verify(commitment, z, y, proof)))

compute_blob_kzg_proof(o, parallel, blob, commitment) ==
  \E conv \in blob_to_polynomial(parallel, blob) :
    LET status == FirstError(kzgOk, <<Point(commitment), conv>>)
    IN  Invoke(o, parallel, "ctt_eth_kzg_compute_blob_kzg_proof",
               <<point_bytes, blob_bytes, point_bytes>>, <<1, 1, 1>>,
               {1}, status, Computed(status),
               Asked(o, FALSE, parallel, Range(blob), {commitment}, "", TRUE))

verify_blob_kzg_proof(o, parallel, blob, commitment, proof) ==
  \E conv \in blob_to_polynomial(parallel, blob) :
    LET decoded == FirstError(kzgOk, <<Point(commitment), Point(proof), conv>>)
        status == IF decoded # kzgOk THEN decoded
                  ELSE Verdict(verify_blob(blob, commitment, proof))
    IN  Invoke(o, parallel, "ctt_eth_kzg_verify_blob_kzg_proof",
               <<blob_bytes, point_bytes, point_bytes>>, <<1, 1, 1>>,
               {}, status, Verified(status),
               Asked(o, TRUE, parallel, Range(blob), {commitment, proof}, "",
                     /\ commitment = kzg_commit(blob)
                     /\ proof = kzg_prove(blob, "one")))
-----------------------------------------------------------------------------
(* Batches.  `lens' are the lengths of the slices the caller passes; the     *)
(* wrappers compare them before anything else.                               *)
LengthsMismatch == Err("cttEthKzg_InputsLengthsMismatch")
Equal(lens) == \A i \in DOMAIN lens : lens[i] = lens[1]

item_statuses(parallel, item) ==
  {FirstError(kzgOk, <<Point(item.commitment), conv, Point(item.proof)>>)
     : conv \in blob_to_polynomial(parallel, item.blob)}
batch_statuses(parallel, items) ==
  LET possible == [i \in DOMAIN items |-> item_statuses(parallel, items[i])]
      outcomes == {f \in [DOMAIN items -> UNION Range(possible)] :
                     \A i \in DOMAIN items : f[i] \in possible[i]}
  IN  UNION {IF parallel THEN Reduced(kzgOk, per) ELSE {FirstError(kzgOk, per)}
               : per \in outcomes}

native_verify_batch(parallel, items, seed, decoded) ==
  IF items = <<>> THEN kzgOk
  ELSE IF decoded # kzgOk THEN decoded ELSE Verdict(kzg_verify_batch(items, parallel, seed))
asked_batch(o, parallel, items, lens, seed) ==
  Asked(o, TRUE, parallel, UNION {Range(items[i].blob) : i \in DOMAIN items},
        UNION {{items[i].commitment, items[i].proof} : i \in DOMAIN items},
        IF ~Equal(lens) THEN "lengths"
        ELSE IF items # <<>> /\ BlindingIsZero(parallel, seed) THEN "unblinded" ELSE "",
        \A i \in DOMAIN items : /\ items[i].commitment = kzg_commit(items[i].blob)
                                /\ items[i].proof = kzg_prove(items[i].blob, "one"))

verify_blob_kzg_proof_batch(o, parallel, items, lens, seed) ==
  LET n == Len(items)
      asked == asked_batch(o, parallel, items, lens, seed)
  IN  \/ /\ ~Equal(lens)
         /\ call' = NotMade(LengthsMismatch, asked)
      \/ /\ Equal(lens)
         /\ \E decoded \in batch_statuses(parallel, items) :
              LET status == native_verify_batch(parallel, items, seed, decoded)
              IN  Invoke(o, parallel, "ctt_eth_kzg_verify_blob_kzg_proof_batch",
                         <<Slice(n, 131072), Slice(n, 48), Slice(n, 48), Value(n), scalar_bytes>>,
                         <<n, n, n, 0, 32>>, {}, status, Verified(status), asked)

(* A faulty variant: room for the cells of a blob, not of the extended one.  *)
cells_box_short == ByteArray(131072)

(* PeerDAS: the two results live in boxes that the wrapper takes out of      *)
(* ManuallyDrop to return them, or drops in place when it returns Err.       *)
cells_box  == ByteArray(262144)
proofs_box == ByteArray(6144)

compute_cells_and_kzg_proofs(o, blob) ==
  \E status \in blob_to_polynomial(FALSE, blob) :
    Serially(o, "ctt_eth_kzg_compute_cells_and_kzg_proofs",
             <<cells_box, proofs_box, blob_bytes>>,
             <<constants.consts.CTT_CELLS_PER_EXT_BLOB, constants.consts.CTT_CELLS_PER_EXT_BLOB, 1>>,
           {1, 2}, status, Computed(status),
           Asked(o, FALSE, FALSE, Range(blob), {}, "", TRUE))

(* Each commitment is decoded once: items refer to its first occurrence.     *)
deduplicateCommitments(items) ==
  [i \in DOMAIN items |->
     Min({j \in DOMAIN items : items[j].commitment = items[i].commitment})]

kzg_coset_verify(commitment, index, cell, proof) ==
  /\ cell.at = <<Committed(commitment), index>>
  /\ proof = Encoded(<<Committed(commitment), index>>)

InBounds(items) ==
  \A i \in DOMAIN items : items[i].index < constants.consts.CTT_CELLS_PER_EXT_BLOB
native_verify_cells(items) ==
  LET first == deduplicateCommitments(items)
      decoded == FirstError(kzgOk, [i \in DOMAIN items |-> Point(items[first[i]].commitment)]
                                   \o [i \in DOMAIN items |-> Scalar(items[i].cell.element)]
                                   \o [i \in DOMAIN items |-> Point(items[i].proof)])
  IN  CASE items = <<>>                       -> kzgOk
        [] items # <<>> /\ ~InBounds(items)   -> "cttEthKzg_InputsLengthsMismatch"
        [] OTHER -> IF decoded # kzgOk THEN decoded
                    ELSE Verdict(\A i \in DOMAIN items :
                           kzg_coset_verify(items[first[i]].commitment, items[i].index,
                                            items[i].cell, items[i].proof))
asked_cells(o, items, lens) ==
  Asked(o, TRUE, FALSE, {items[i].cell.element : i \in DOMAIN items},
        UNION {{items[i].commitment, items[i].proof} : i \in DOMAIN items},
        IF Equal(lens) /\ InBounds(items) THEN "" ELSE "lengths",
        \A i \in DOMAIN items : kzg_coset_verify(items[i].commitment, items[i].index,
                                                 items[i].cell, items[i].proof))

verify_cell_kzg_proof_batch(o, items, lens) ==
  LET n == Len(items)
      status == native_verify_cells(items)
      asked == asked_cells(o, items, lens)
  IN  \/ /\ ~Equal(lens)
         /\ call' = NotMade(LengthsMismatch, asked)
      \/ /\ Equal(lens)
         /\ Serially(o, "ctt_eth_kzg_verify_cell_kzg_proof_batch",
                   <<Slice(n, 48), Memory(n, "u64"), Slice(n, 2048), Slice(n, 48), Value(n),
                     scalar_bytes>>,
                   <<n, n, n, n, 0, 32>>, {}, status, Verified(status), asked)

(* `in': how many cells, whether all indices are below 128 and strictly      *)
(* ascending, and the worst element of the cells.                            *)
native_recover(in) ==
  LET total == constants.consts.CTT_CELLS_PER_EXT_BLOB
  IN  CASE in.n < total \div 2 \/ in.n > total \/ ~in.bounded ->
             "cttEthKzg_InputsLengthsMismatch"
        [] in.n \in (total \div 2)..total /\ in.bounded /\ ~in.ascending ->
             "cttEthKzg_CellIndicesNotAscending"
        [] OTHER -> Scalar(in.element)
asked_recover(o, in, lens) ==
  Asked(o, FALSE, FALSE, {in.element}, {},
        IF ~Equal(lens) \/ in.n \notin 64..128 \/ ~in.bounded THEN "lengths"
        ELSE IF ~in.ascending THEN "order" ELSE "", TRUE)

recover_cells_and_kzg_proofs(o, in, lens) ==
  LET total == constants.consts.CTT_CELLS_PER_EXT_BLOB
      status == native_recover(in)
      asked == asked_recover(o, in, lens)
  IN  \/ /\ ~Equal(lens)
         /\ call' = NotMade(LengthsMismatch, asked)
      \/ /\ Equal(lens)
         /\ Serially(o, "ctt_eth_kzg_recover_cells_and_kzg_proofs",
                   <<cells_box, proofs_box, Memory(in.n, "u64"), Slice(in.n, 2048), Value(in.n)>>,
                   <<total, total, in.n, in.n, 0>>, {1, 2}, status, Computed(status), asked)

-----------------------------------------------------------------------------
(* The inputs that are tried.                                                *)
zeroPoly  == <<"zero", "zero">>
mixedPoly == <<"zero", "one">>
Blobs == {zeroPoly, mixedPoly, <<"zero", "big">>, <<"big", "one">>}
Scalars == {"zero", "one", "big"}
Commitments == {kzg_commit(zeroPoly), kzg_commit(mixedPoly),
                Malformed("cttCodecEcc_InvalidEncoding"),
                Malformed("cttCodecEcc_CoordinateGreaterThanOrEqualModulus")}
Proofs == {kzg_prove(zeroPoly, "one"), kzg_prove(mixedPoly, "one"),
           kzg_prove(mixedPoly, "zero"),
           Malformed("cttCodecEcc_PointNotOnCurve"),
           Malformed("cttCodecEcc_PointNotInSubgroup")}

Item(blob, commitment, proof) == [blob |-> blob, commitment |-> commitment, proof |-> proof]
BatchItems ==
  {Item(zeroPoly, kzg_commit(zeroPoly), kzg_prove(zeroPoly, "one")),
   Item(mixedPoly, kzg_commit(mixedPoly), kzg_prove(mixedPoly, "one")),
   Item(mixedPoly, kzg_commit(mixedPoly), kzg_prove(mixedPoly, "zero")),
   Item(<<"zero", "big">>, kzg_commit(mixedPoly), Malformed("cttCodecEcc_PointNotInSubgroup")),
   Item(mixedPoly, Malformed("cttCodecEcc_InvalidEncoding"), kzg_prove(mixedPoly, "one"))}

CellItem(commitment, index, element, at, proof) ==
  [commitment |-> commitment, index |-> index, cell |-> [element |-> element, at |-> at],
   proof |-> proof]
CellItems ==
  {CellItem(kzg_commit(zeroPoly), 0, "zero", <<zeroPoly, 0>>, Encoded(<<zeroPoly, 0>>)),
   CellItem(kzg_commit(mixedPoly), 127, "one", <<mixedPoly, 127>>, Encoded(<<mixedPoly, 127>>)),
   CellItem(kzg_commit(mixedPoly), 0, "one", <<mixedPoly, 127>>, Encoded(<<mixedPoly, 127>>)),
   CellItem(kzg_commit(mixedPoly), 128, "one", <<mixedPoly, 127>>, Encoded(<<mixedPoly, 127>>)),
   CellItem(kzg_commit(mixedPoly), 1, "big", <<mixedPoly, 1>>,
            Malformed("cttCodecEcc_PointNotOnCurve"))}

Sequences(S, max) == UNION {[1..n -> S] : n \in 0..max}
(* Equal lengths, and each slice in turn one longer than the others.         *)
Lengths(n, slices) ==
  {[i \in 1..slices |-> n]} \union
  {[i \in 1..slices |-> IF i = long THEN n + 1 ELSE n] : long \in 1..slices}
Recoveries ==
  {in \in [n : {63, 64, 128, 129}, bounded : BOOLEAN, ascending : BOOLEAN, element : Scalars] :
     in.n = 129 => ~(in.bounded /\ in.ascending)}

KzgCall(o) ==
  /\ call = NoCall
  /\ kind[o] = "context"
  /\ \/ \E par \in BOOLEAN, blob \in Blobs : blob_to_kzg_commitment(o, par, blob)
     \/ \E par \in BOOLEAN, blob \in Blobs, z \in Scalars : compute_kzg_proof(o, par, blob, z)
     \/ \E c \in Commitments, z, y \in Scalars, p \in Proofs : verify_kzg_proof(o, c, z, y, p)
     \/ \E par \in BOOLEAN, blob \in Blobs, c \in Commitments :
          compute_blob_kzg_proof(o, par, blob, c)
     \/ \E par \in BOOLEAN, blob \in Blobs, c \in Commitments, p \in Proofs :
          verify_blob_kzg_proof(o, par, blob, c, p)
     \/ \E par \in BOOLEAN, items \in Sequences(BatchItems, MaxItems), seed \in Seeds :
          \E lens \in Lengths(Len(items), 3) :
            verify_blob_kzg_proof_batch(o, par, items, lens, seed)
     \/ \E blob \in Blobs : compute_cells_and_kzg_proofs(o, blob)
     \/ \E items \in Sequences(CellItems, MaxItems) :
          \E lens \in Lengths(Len(items), 4) : verify_cell_kzg_proof_batch(o, items, lens)
     \/ \E in \in Recoveries : \E lens \in Lengths(in.n, 2) :
          recover_cells_and_kzg_proofs(o, in, lens)
  /\ UNCHANGED ctxVars

-----------------------------------------------------------------------------
(* What is wrong with the inputs of a call, by the statuses that say so.     *)
Faults(asked) ==
  (IF "big" \in asked.scalars THEN {"cttEthKzg_ScalarLargerThanCurveOrder"} ELSE {})
  \union
  {check(p.codec) : p \in {q \in asked.points :
                    q.codec \notin {"cttCodecEcc_Success", "cttCodecEcc_PointAtInfinity"}}}
  \union
  CASE asked.shape = "lengths" -> {"cttEthKzg_InputsLengthsMismatch"}
    [] asked.shape = "order"   -> {"cttEthKzg_CellIndicesNotAscending"}
    [] OTHER                   -> {}

(* Whatever the order in which a function checks its inputs, however its     *)
(* threads share them and whichever status byte crosses the boundary, the    *)
(* caller gets Err exactly when some input is malformed, with the status of  *)
(* a malformed input; otherwise verification answers the truth and the       *)
(* computing functions succeed.  A call panics exactly when it is of a       *)
(* parallel method on a context without a threadpool, and the lengths of its *)
(* slices agree.  A batch verified in parallel with random bytes that reduce *)
(* to zero is not blinded and is left out.                                   *)
KzgAnswers ==
  Made /\ call.given.crate = "kzg" =>
    LET asked == call.given
        faults == Faults(asked)
    IN  /\ call.ret.tag = "Panic" <=>
             asked.parallel /\ asked.pool = Nil /\ asked.shape # "lengths"
        /\ call.ret.tag = "Err" => call.ret.v \in faults
        /\ call.ret.tag = "Ok" =>
             faults = {} /\ (asked.verify => call.ret.v = asked.truth \/ asked.shape = "unblinded")
=============================================================================
