------------------------------ MODULE CoreZal -------------------------------
(* The functions of constantine-core and of constantine-halo2-zal: random    *)
(* bytes, the number of threads, and the multi-scalar multiplication of      *)
(* CttEngine, which owns a Threadpool.  Coefficients and bases of halo2      *)
(* curves have 4 and 8 words of 64 bits; the result is read back as a        *)
(* bn256::G1 of 12.                                                          *)
EXTENDS RustFfi

CoreAsked(op) == [crate |-> "msm", op |-> op]

(* sysrand fills the caller's buffer; the bool the library returns is        *)
(* dropped.                                                                  *)
sysrand(len, success) ==
  call' = Call("ctt_csprng_sysrand", <<ByteArray(len), Value(len)>>, <<len, 0>>,
               IF success THEN {1} ELSE {}, {}, Ok(""), CoreAsked("sysrand"))

(* The native count is an i32: a negative one would fail try_into().         *)
get_num_threads_os(n) ==
  call' = Call("ctt_cpu_get_num_threads_os", <<>>, <<>>, {}, {},
               IF n < 0 THEN Panic ELSE Ok(n), CoreAsked("threads"))

(* The lengths are compared before the unsafe block.                         *)
msm(p, coeffs, bases) ==
  call' = IF coeffs # bases THEN NotMade(Panic, CoreAsked("msm"))
          ELSE Call("ctt_bn254_snarks_g1_prj_multi_scalar_mul_fr_coefs_vartime_parallel",
                    <<Handle(p), Memory(1, "bn254_snarks_g1_prj"), Memory(4 * coeffs, "u64"),
                      Memory(8 * bases, "u64"), Value(bases)>>,
                    <<0, 1, bases, bases, 0>>, {2}, {2}, Ok(""), CoreAsked("msm"))

(* Descriptors hold the slice they were made of, so the cached variants all  *)
(* come down to msm on it.                                                   *)
descriptor(len) == [raw |-> len]
msm_with_cached_scalars(p, coeffs, bases) == msm(p, coeffs.raw, bases)
msm_with_cached_base(p, coeffs, bases) == msm(p, coeffs, bases.raw)
msm_with_cached_inputs(p, coeffs, bases) == msm(p, coeffs.raw, bases.raw)

CoreCall(pools) ==
  /\ call = NoCall
  /\ \/ \E len \in {0, 32}, success \in BOOLEAN : sysrand(len, success)
     \/ \E n \in {1, 8} : get_num_threads_os(n)
     \/ \E p \in pools, coeffs, bases \in 0..MaxItems :
          \/ msm(p, coeffs, bases)
          \/ msm_with_cached_scalars(p, descriptor(coeffs), bases)
          \/ msm_with_cached_base(p, coeffs, descriptor(bases))
          \/ msm_with_cached_inputs(p, descriptor(coeffs), descriptor(bases))
=============================================================================
