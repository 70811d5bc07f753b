---------------------------- MODULE Bindings64 ----------------------------
(* constantine-sys/src/bindings64.rs, the declarations that lib.rs includes  *)
(* when target_pointer_width is 64: constants, enums, structs with their   *)
(* asserted layouts, and the prototypes of the native functions              *)
(* of the groups the crates call.  The prototypes of the streaming hashes    *)
(* and of the big-integer, field and curve arithmetic are not listed.        *)
EXTENDS FfiTypes

(* Bytes of a pointer and of usize.                                          *)
word == 8

(* const CTT_FIELD_ELEMENTS_PER_CELL .. CTT_CELLS_PER_BLOB.                  *)
consts ==
  [CTT_FIELD_ELEMENTS_PER_CELL |-> 64, CTT_CELLS_PER_EXT_BLOB |-> 128,
   CTT_BYTES_PER_CELL |-> 2048, CTT_CELLS_PER_BLOB |-> 64]

(* The #[repr(u8)] enums: variant name to discriminant.                      *)
ctt_codec_scalar_status ==
  [cttCodecScalar_Success |-> 0, cttCodecScalar_Zero |-> 1,
   cttCodecScalar_ScalarLargerThanCurveOrder |-> 2]
ctt_codec_ecc_status ==
  [cttCodecEcc_Success |-> 0, cttCodecEcc_InvalidEncoding |-> 1,
   cttCodecEcc_CoordinateGreaterThanOrEqualModulus |-> 2,
   cttCodecEcc_PointNotOnCurve |-> 3, cttCodecEcc_PointNotInSubgroup |-> 4,
   cttCodecEcc_PointAtInfinity |-> 5]
ctt_eth_bls_status ==
  [cttEthBls_Success |-> 0, cttEthBls_VerificationFailure |-> 1,
   cttEthBls_InputsLengthsMismatch |-> 2,
   cttEthBls_ZeroLengthAggregation |-> 3, cttEthBls_PointAtInfinity |-> 4]
ctt_eth_kzg_status ==
  [cttEthKzg_Success |-> 0, cttEthKzg_VerificationFailure |-> 1,
   cttEthKzg_InputsLengthsMismatch |-> 2, cttEthKzg_ScalarZero |-> 3,
   cttEthKzg_ScalarLargerThanCurveOrder |-> 4,
   cttEthKzg_EccInvalidEncoding |-> 5,
   cttEthKzg_EccCoordinateGreaterThanOrEqualModulus |-> 6,
   cttEthKzg_EccPointNotOnCurve |-> 7, cttEthKzg_EccPointNotInSubgroup |-> 8,
   cttEthKzg_CellIndicesNotAscending |-> 9]
ctt_eth_trusted_setup_status ==
  [cttEthTS_Success |-> 0, cttEthTS_MissingOrInaccessibleFile |-> 1,
   cttEthTS_InvalidFile |-> 2]
ctt_eth_trusted_setup_format ==
  [cttEthTSFormat_ckzg4844 |-> 0]
ctt_evm_status ==
  [cttEVM_Success |-> 0, cttEVM_InvalidInputSize |-> 1,
   cttEVM_InvalidOutputSize |-> 2, cttEVM_IntLargerThanModulus |-> 3,
   cttEVM_PointNotOnCurve |-> 4, cttEVM_PointNotInSubgroup |-> 5,
   cttEVM_VerificationFailure |-> 6]

(* Opaque structs ([u8; 0]): only pointers to them cross the boundary.       *)
Opaque == {"ctt_threadpool", "ctt_eth_bls_batch_sig_accumulator",
           "ctt_eth_kzg_context", "c_void", "c_char"}

(* Streaming hash states.                                                    *)
keccak256_context ==
  [ctt_keccak256_context |-> Struct(64, <<Field("u64", 25)>>, 256, 64, <<0>>)]

sha256_context ==
  [ctt_sha256_context |->
     Struct(64, <<Field("u32", 16), Field("byte", 64), Field("u64", 1)>>,
           192, 64, <<0, 64, 128>>)]

(* Big integers.                                                             *)
bigints ==
  [big381 |-> Limbs(6, 48, 8),
   big255 |-> Limbs(4, 32, 8),
   big254 |-> Limbs(4, 32, 8),
   big253 |-> Limbs(4, 32, 8)]

(* Curve structs: scalar field, base field, points.                          *)
bls12_381 ==
  [bls12_381_fr     |-> Limbs(4, 32, 8),
   bls12_381_fp     |-> Limbs(6, 48, 8),
   bls12_381_fp2    |-> Array("bls12_381_fp", 2, 96, 8),
   bls12_381_g1_aff |-> Affine("bls12_381_fp", 96, 8, 48),
   bls12_381_g1_jac |-> Projective("bls12_381_fp", 144, 8, 48, 96),
   bls12_381_g1_prj |-> Projective("bls12_381_fp", 144, 8, 48, 96),
   bls12_381_g2_aff |-> Affine("bls12_381_fp2", 192, 8, 96),
   bls12_381_g2_jac |-> Projective("bls12_381_fp2", 288, 8, 96, 192),
   bls12_381_g2_prj |-> Projective("bls12_381_fp2", 288, 8, 96, 192)]

bn254_snarks ==
  [bn254_snarks_fr     |-> Limbs(4, 32, 8),
   bn254_snarks_fp     |-> Limbs(4, 32, 8),
   bn254_snarks_fp2    |-> Array("bn254_snarks_fp", 2, 64, 8),
   bn254_snarks_g1_aff |-> Affine("bn254_snarks_fp", 64, 8, 32),
   bn254_snarks_g1_jac |-> Projective("bn254_snarks_fp", 96, 8, 32, 64),
   bn254_snarks_g1_prj |-> Projective("bn254_snarks_fp", 96, 8, 32, 64),
   bn254_snarks_g2_aff |-> Affine("bn254_snarks_fp2", 128, 8, 64),
   bn254_snarks_g2_jac |-> Projective("bn254_snarks_fp2", 192, 8, 64, 128),
   bn254_snarks_g2_prj |-> Projective("bn254_snarks_fp2", 192, 8, 64, 128)]

pallas ==
  [pallas_fr     |-> Limbs(4, 32, 8),
   pallas_fp     |-> Limbs(4, 32, 8),
   pallas_ec_aff |-> Affine("pallas_fp", 64, 8, 32),
   pallas_ec_jac |-> Projective("pallas_fp", 96, 8, 32, 64),
   pallas_ec_prj |-> Projective("pallas_fp", 96, 8, 32, 64)]

vesta ==
  [vesta_fr     |-> Limbs(4, 32, 8),
   vesta_fp     |-> Limbs(4, 32, 8),
   vesta_ec_aff |-> Affine("vesta_fp", 64, 8, 32),
   vesta_ec_jac |-> Projective("vesta_fp", 96, 8, 32, 64),
   vesta_ec_prj |-> Projective("vesta_fp", 96, 8, 32, 64)]

banderwagon ==
  [banderwagon_fr     |-> Limbs(4, 32, 8),
   banderwagon_fp     |-> Limbs(4, 32, 8),
   banderwagon_ec_aff |-> Affine("banderwagon_fp", 64, 8, 32),
   banderwagon_ec_jac |-> Projective("banderwagon_fp", 96, 8, 32, 64),
   banderwagon_ec_prj |-> Projective("banderwagon_fp", 96, 8, 32, 64)]

(* Ethereum BLS signatures.                                                  *)
eth_bls ==
  [ctt_eth_bls_fp        |-> Bytes(48, 48, 1),
   ctt_eth_bls_fp2       |-> Array("ctt_eth_bls_fp", 2, 96, 1),
   ctt_eth_bls_seckey    |-> Bytes(32, 32, 1),
   ctt_eth_bls_pubkey    |-> Affine("ctt_eth_bls_fp", 96, 1, 48),
   ctt_eth_bls_signature |-> Affine("ctt_eth_bls_fp2", 192, 1, 96)]

span ==
  [ctt_span |->
     Struct(1, <<Field("pointer", 1), Field("usize", 1)>>, 16, 8, <<0, 8>>)]

(* Ethereum KZG.                                                             *)
eth_kzg ==
  [ctt_eth_kzg_commitment        |-> Bytes(48, 48, 1),
   ctt_eth_kzg_proof             |-> Bytes(48, 48, 1),
   ctt_eth_kzg_blob              |-> Bytes(131072, 131072, 1),
   ctt_eth_kzg_opening_challenge |-> Bytes(32, 32, 1),
   ctt_eth_kzg_eval_at_challenge |-> Bytes(32, 32, 1)]

kzg_cell ==
  [ctt_eth_kzg_cell |-> Bytes(2048, 2048, 1)]

structs ==
  Merged(<<keccak256_context, sha256_context, bigints, bls12_381, bn254_snarks,
           pallas, vesta, banderwagon, eth_bls, span, eth_kzg, kzg_cell>>)

(* Prototypes: the parameters of each native function.                       *)
threadpool_fns ==
  [ctt_threadpool_new |-> <<V("c_int")>>,
   ctt_threadpool_shutdown |-> <<M("ctt_threadpool")>>,
   ctt_cpu_get_num_threads_os |-> <<>>]

sha256_hash_fn ==
  [ctt_sha256_hash |-> <<M("byte"), C("byte"), V("usize"), V("bool")>>]

sysrand_fn ==
  [ctt_csprng_sysrand |-> <<M("c_void"), V("usize")>>]

bn254_msm_fn ==
  [ctt_bn254_snarks_g1_prj_multi_scalar_mul_fr_coefs_vartime_parallel |->
      <<C("ctt_threadpool"), M("bn254_snarks_g1_prj"),
        C("bn254_snarks_fr"), C("bn254_snarks_g1_aff"), V("usize")>>]

eth_bls_codec_fns ==
  LET pubkey_in == <<C("ctt_eth_bls_pubkey")>>
      signature_in == <<C("ctt_eth_bls_signature")>>
      pubkey_out == <<M("ctt_eth_bls_pubkey"), C("byte")>>
      signature_out == <<M("ctt_eth_bls_signature"), C("byte")>>
  IN  [ctt_eth_bls_pubkey_is_zero |-> pubkey_in,
       ctt_eth_bls_signature_is_zero |-> signature_in,
       ctt_eth_bls_pubkeys_are_equal |-> <<C("ctt_eth_bls_pubkey"), C("ctt_eth_bls_pubkey")>>,
       ctt_eth_bls_signatures_are_equal |->
         <<C("ctt_eth_bls_signature"), C("ctt_eth_bls_signature")>>,
       ctt_eth_bls_validate_seckey |-> <<C("ctt_eth_bls_seckey")>>,
       ctt_eth_bls_validate_pubkey |-> pubkey_in,
       ctt_eth_bls_validate_signature |-> signature_in,
       ctt_eth_bls_serialize_seckey |-> <<M("byte"), C("ctt_eth_bls_seckey")>>,
       ctt_eth_bls_serialize_pubkey_compressed |-> <<M("byte"), C("ctt_eth_bls_pubkey")>>,
       ctt_eth_bls_serialize_signature_compressed |->
         <<M("byte"), C("ctt_eth_bls_signature")>>,
       ctt_eth_bls_deserialize_seckey |-> <<M("ctt_eth_bls_seckey"), C("byte")>>,
       ctt_eth_bls_deserialize_pubkey_compressed_unchecked |-> pubkey_out,
       ctt_eth_bls_deserialize_signature_compressed_unchecked |-> signature_out,
       ctt_eth_bls_deserialize_pubkey_compressed |-> pubkey_out,
       ctt_eth_bls_deserialize_signature_compressed |-> signature_out,
       ctt_eth_bls_derive_pubkey |-> <<M("ctt_eth_bls_pubkey"), C("ctt_eth_bls_seckey")>>]

eth_bls_fns ==
  [ctt_eth_bls_free_batch_sig_accumulator |->
      <<M("ctt_eth_bls_batch_sig_accumulator")>>,
   ctt_eth_bls_final_verify_batch_sig_accumulator |->
      <<M("ctt_eth_bls_batch_sig_accumulator")>>,
   ctt_eth_bls_sign |->
      <<M("ctt_eth_bls_signature"), C("ctt_eth_bls_seckey"), C("byte"),
        V("usize")>>,
   ctt_eth_bls_verify |->
      <<C("ctt_eth_bls_pubkey"), C("byte"), V("usize"),
        C("ctt_eth_bls_signature")>>,
   ctt_eth_bls_fast_aggregate_verify |->
      <<C("ctt_eth_bls_pubkey"), V("usize"), C("byte"), V("usize"),
        C("ctt_eth_bls_signature")>>,
   ctt_eth_bls_aggregate_verify |->
      <<C("ctt_eth_bls_pubkey"), C("ctt_span"), V("usize"),
        C("ctt_eth_bls_signature")>>,
   ctt_eth_bls_batch_verify |->
      <<C("ctt_eth_bls_pubkey"), C("ctt_span"), C("ctt_eth_bls_signature"),
        V("usize"), C("byte")>>,
   ctt_eth_bls_alloc_batch_sig_accumulator |-> <<>>,
   ctt_eth_bls_init_batch_sig_accumulator |->
      <<M("ctt_eth_bls_batch_sig_accumulator"), C("byte"), C("byte"),
        V("usize")>>,
   ctt_eth_bls_update_batch_sig_accumulator |->
      <<M("ctt_eth_bls_batch_sig_accumulator"), C("ctt_eth_bls_pubkey"),
        C("byte"), V("usize"), C("ctt_eth_bls_signature")>>,
   ctt_eth_bls_batch_verify_parallel |->
      <<C("ctt_threadpool"), C("ctt_eth_bls_pubkey"), C("ctt_span"),
        C("ctt_eth_bls_signature"), V("usize"), C("byte")>>]

eth_kzg_fns ==
  [ctt_eth_kzg_blob_to_kzg_commitment |->
      <<C("ctt_eth_kzg_context"), M("ctt_eth_kzg_commitment"),
        C("ctt_eth_kzg_blob")>>,
   ctt_eth_kzg_compute_kzg_proof |->
      <<C("ctt_eth_kzg_context"), M("ctt_eth_kzg_proof"),
        M("ctt_eth_kzg_eval_at_challenge"), C("ctt_eth_kzg_blob"),
        C("ctt_eth_kzg_opening_challenge")>>,
   ctt_eth_kzg_verify_kzg_proof |->
      <<C("ctt_eth_kzg_context"), C("ctt_eth_kzg_commitment"),
        C("ctt_eth_kzg_opening_challenge"),
        C("ctt_eth_kzg_eval_at_challenge"), C("ctt_eth_kzg_proof")>>,
   ctt_eth_kzg_compute_blob_kzg_proof |->
      <<C("ctt_eth_kzg_context"), M("ctt_eth_kzg_proof"),
        C("ctt_eth_kzg_blob"), C("ctt_eth_kzg_commitment")>>,
   ctt_eth_kzg_verify_blob_kzg_proof |->
      <<C("ctt_eth_kzg_context"), C("ctt_eth_kzg_blob"),
        C("ctt_eth_kzg_commitment"), C("ctt_eth_kzg_proof")>>,
   ctt_eth_kzg_verify_blob_kzg_proof_batch |->
      <<C("ctt_eth_kzg_context"), C("ctt_eth_kzg_blob"),
        C("ctt_eth_kzg_commitment"), C("ctt_eth_kzg_proof"), V("usize"),
        C("byte")>>]

kzg_context_fns ==
  [ctt_eth_kzg_context_new |->
      <<M("pointer"), C("c_char"), V("ctt_eth_trusted_setup_format")>>,
   ctt_eth_kzg_context_new_with_precompute |->
      <<M("pointer"), C("c_char"), V("ctt_eth_trusted_setup_format"),
        V("c_int"), V("c_int")>>,
   ctt_eth_kzg_context_delete |-> <<M("ctt_eth_kzg_context")>>]

eth_kzg_parallel_fns ==
  [ctt_eth_kzg_blob_to_kzg_commitment_parallel |->
      <<C("ctt_threadpool"), C("ctt_eth_kzg_context"),
        M("ctt_eth_kzg_commitment"), C("ctt_eth_kzg_blob")>>,
   ctt_eth_kzg_compute_kzg_proof_parallel |->
      <<C("ctt_threadpool"), C("ctt_eth_kzg_context"),
        M("ctt_eth_kzg_proof"), M("ctt_eth_kzg_eval_at_challenge"),
        C("ctt_eth_kzg_blob"), C("ctt_eth_kzg_opening_challenge")>>,
   ctt_eth_kzg_compute_blob_kzg_proof_parallel |->
      <<C("ctt_threadpool"), C("ctt_eth_kzg_context"),
        M("ctt_eth_kzg_proof"), C("ctt_eth_kzg_blob"),
        C("ctt_eth_kzg_commitment")>>,
   ctt_eth_kzg_verify_blob_kzg_proof_parallel |->
      <<C("ctt_threadpool"), C("ctt_eth_kzg_context"),
        C("ctt_eth_kzg_blob"), C("ctt_eth_kzg_commitment"),
        C("ctt_eth_kzg_proof")>>,
   ctt_eth_kzg_verify_blob_kzg_proof_batch_parallel |->
      <<C("ctt_threadpool"), C("ctt_eth_kzg_context"),
        C("ctt_eth_kzg_blob"), C("ctt_eth_kzg_commitment"),
        C("ctt_eth_kzg_proof"), V("usize"), C("byte")>>]

peerdas_fns ==
  [ctt_eth_kzg_compute_cells_and_kzg_proofs |->
      <<C("ctt_eth_kzg_context"), M("ctt_eth_kzg_cell"),
        M("ctt_eth_kzg_proof"), C("ctt_eth_kzg_blob")>>,
   ctt_eth_kzg_verify_cell_kzg_proof_batch |->
      <<C("ctt_eth_kzg_context"), C("ctt_eth_kzg_commitment"), C("u64"),
        C("ctt_eth_kzg_cell"), C("ctt_eth_kzg_proof"), V("usize"),
        C("byte")>>,
   ctt_eth_kzg_recover_cells_and_kzg_proofs |->
      <<C("ctt_eth_kzg_context"), M("ctt_eth_kzg_cell"),
        M("ctt_eth_kzg_proof"), C("u64"), C("ctt_eth_kzg_cell"),
        V("usize")>>]

evm_fns ==
  LET precompile == <<M("byte"), V("usize"), C("byte"), V("usize")>>
  IN  [ctt_eth_evm_sha256 |-> precompile,
       ctt_eth_evm_ripemd160 |-> precompile,
       ctt_eth_evm_modexp_result_size |-> <<M("u64"), C("byte"), V("usize")>>,
       ctt_eth_evm_modexp |-> precompile,
       ctt_eth_evm_bn254_g1add |-> precompile,
       ctt_eth_evm_bn254_g1mul |-> precompile,
       ctt_eth_evm_bn254_ecpairingcheck |-> precompile,
       ctt_eth_evm_bls12381_g1add |-> precompile]

evm_bls12381_fns ==
  LET precompile == <<M("byte"), V("usize"), C("byte"), V("usize")>>
  IN  [ctt_eth_evm_bls12381_g2add |-> precompile,
       ctt_eth_evm_bls12381_g1mul |-> precompile,
       ctt_eth_evm_bls12381_g2mul |-> precompile,
       ctt_eth_evm_bls12381_g1msm |-> precompile,
       ctt_eth_evm_bls12381_g2msm |-> precompile,
       ctt_eth_evm_bls12381_pairingcheck |-> precompile,
       ctt_eth_evm_bls12381_map_fp_to_g1 |-> precompile,
       ctt_eth_evm_bls12381_map_fp2_to_g2 |-> precompile,
       ctt_eth_evm_kzg_point_evaluation |->
         <<C("ctt_eth_kzg_context"), M("byte"), V("usize"), C("byte"), V("usize")>>]

prototypes ==
  Merged(<<threadpool_fns, sha256_hash_fn, sysrand_fn, bn254_msm_fn,
           eth_bls_codec_fns, eth_bls_fns, eth_kzg_fns, kzg_context_fns,
           eth_kzg_parallel_fns, peerdas_fns, evm_fns, evm_bls12381_fns>>)
=============================================================================
