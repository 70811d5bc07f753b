-------------------------- MODULE RustCratesProofs --------------------------
(* Ownership of native KZG contexts, and a Rust program that uses the crates *)
(* and reaches native memory through live handles only: for any number of    *)
(* values, native contexts and threadpools and whatever the inputs of its    *)
(* calls are.                                                                *)
EXTENDS RustCrates, TLAPS

-----------------------------------------------------------------------------
(* KzgContext by itself.                                                     *)

(* NativeAccounting by the handle instead of by the set: what the provers    *)
(* work with.                                                                *)
AccountedFor ==
  /\ \A h \in Handles : native[h] = "live" <=> (h \in lost \/ \E o \in Objs : ctx[o] = h)
  /\ \A o \in Objs : ctx[o] \notin lost
  /\ \A h \in tables : native[h] = "live"

(* Nothing stays behind in a variable whose value was consumed: what makes   *)
(* it safe to overwrite the pointer of a fresh context.                      *)
NoneHoldsNothing == \A o \in Objs : kind[o] = "none" => ctx[o] = Nil /\ tp[o] = Nil

(* What a builder or a context has borrowed is still there.                  *)
BorrowedPoolsLive == \A o \in Objs : tp[o] # Nil => pool[tp[o]] = "live"

CtxInv ==
  /\ TypeOK
  /\ NoDanglingContext
  /\ AccountedFor
  /\ NoneHoldsNothing
  /\ BorrowedPoolsLive

(* The books by the handle are the books by the set.                         *)
LEMMA AccountingBySet == CtxInv => NativeAccounting
BY NilAssumption
   DEF CtxInv, TypeOK, NoDanglingContext, AccountedFor, NativeAccounting, Owned, Live

LEMMA CtxInvInit == Init => CtxInv
BY NilAssumption
   DEF Init, CtxInv, TypeOK, NoDanglingContext, AccountedFor, NoneHoldsNothing,
       BorrowedPoolsLive

(* A call of a builder method that loads a setup, on any path.               *)
LEMMA LoadPreserves ==
  ASSUME CtxInv, NEW o \in Objs, NEW path, NEW precompute, Load(o, path, precompute)
  PROVE  CtxInv'
<1> USE NilAssumption DEF CtxInv
<1>1. CASE path = "good"
  <2>1. PICK h \in Handles : NativeNew(h, precompute) /\ ctx' = [ctx EXCEPT ![o] = h]
    BY <1>1 DEF Load
  <2>2. /\ kind' = kind /\ tp' = tp /\ pool' = pool
        /\ lost' = lost \union ({ctx[o]} \ {Nil})
        /\ native' = [native EXCEPT ![h] = "live"] /\ native[h] = "unused"
        /\ tables' \subseteq tables \union {h}
        /\ kind[o] = "builder"
    BY <1>1, <2>1 DEF Load, Abandon, NativeNew
  <2>3. TypeOK'
    BY <2>1, <2>2 DEF TypeOK
  <2>4. NoDanglingContext'
    BY <2>1, <2>2 DEF TypeOK, NoDanglingContext
  <2>5. AccountedFor'
    <3>1. \A g \in Handles :
            native'[g] = "live" <=> (g \in lost' \/ \E x \in Objs : ctx'[x] = g)
      <4> TAKE g \in Handles
      <4>1. CASE g = h
        BY <4>1, <2>1, <2>2 DEF TypeOK
      <4>2. CASE g # h /\ g = ctx[o]
        BY <4>2, <2>1, <2>2 DEF TypeOK, NoDanglingContext
      <4>3. CASE g # h /\ g # ctx[o]
        BY <4>3, <2>1, <2>2 DEF TypeOK, AccountedFor
      <4> QED
        BY <4>1, <4>2, <4>3
    <3>2. \A x \in Objs : ctx'[x] \notin lost'
      BY <2>1, <2>2 DEF TypeOK, NoDanglingContext, AccountedFor
    <3>3. \A g \in tables' : native'[g] = "live"
      BY <2>2 DEF TypeOK, AccountedFor
    <3> QED
      BY <3>1, <3>2, <3>3 DEF AccountedFor
  <2>6. NoneHoldsNothing' /\ BorrowedPoolsLive'
    BY <2>1, <2>2 DEF TypeOK, NoneHoldsNothing, BorrowedPoolsLive
  <2> QED
    BY <2>3, <2>4, <2>5, <2>6
<1>2. CASE path # "good"
  <2>1. /\ kind' = [kind EXCEPT ![o] = "none"]
        /\ ctx' = [ctx EXCEPT ![o] = Nil]
        /\ tp' = [tp EXCEPT ![o] = Nil]
        /\ native' = native /\ tables' = tables /\ pool' = pool
        /\ lost' = lost \union ({ctx[o]} \ {Nil})
    BY <1>2 DEF Load, Consumed, Abandon
  <2> QED
    BY <2>1 DEF TypeOK, NoDanglingContext, AccountedFor, NoneHoldsNothing, BorrowedPoolsLive
<1> QED
  BY <1>1, <1>2

(* The steps of one object that do not load a setup.                         *)
LEMMA ObjectPreserves ==
  ASSUME CtxInv, NEW o \in Objs,
         \/ Builder(o)
         \/ \E p \in Pools : set_threadpool(o, p)
         \/ build(o)
         \/ \E path \in Paths : context_load_trusted_setup(o, path)
         \/ drop_builder(o)
         \/ drop_context(o)
  PROVE  CtxInv'
<1> USE NilAssumption DEF CtxInv
<1>1. CASE Builder(o)
  BY <1>1 DEF Builder, TypeOK, NoDanglingContext, AccountedFor, NoneHoldsNothing,
              BorrowedPoolsLive
<1>2. ASSUME NEW p \in Pools, set_threadpool(o, p)
      PROVE  CtxInv'
  BY <1>2 DEF set_threadpool, TypeOK, NoDanglingContext, AccountedFor, NoneHoldsNothing,
              BorrowedPoolsLive
<1>3. CASE build(o)
  BY <1>3 DEF build, Consumed, TypeOK, NoDanglingContext, AccountedFor, NoneHoldsNothing,
              BorrowedPoolsLive
<1>4. ASSUME NEW path \in Paths, context_load_trusted_setup(o, path)
      PROVE  CtxInv'
  <2>1. PICK h \in Handles : NativeNew(h, FALSE) /\ ctx' = [ctx EXCEPT ![o] = h]
    BY <1>4 DEF context_load_trusted_setup
  <2>2. /\ kind[o] = "none" /\ kind' = [kind EXCEPT ![o] = "context"]
        /\ tp' = tp /\ pool' = pool /\ lost' = lost
        /\ native' = [native EXCEPT ![h] = "live"] /\ native[h] = "unused"
        /\ tables' \subseteq tables
    BY <1>4, <2>1 DEF context_load_trusted_setup, NativeNew
  <2>3. ctx[o] = Nil
    BY <2>2 DEF NoneHoldsNothing
  <2>4. TypeOK' /\ NoDanglingContext' /\ NoneHoldsNothing' /\ BorrowedPoolsLive'
    BY <2>1, <2>2, <2>3 DEF TypeOK, NoDanglingContext, NoneHoldsNothing, BorrowedPoolsLive
  <2>5. AccountedFor'
    BY <2>1, <2>2, <2>3 DEF TypeOK, NoDanglingContext, AccountedFor
  <2> QED
    BY <2>4, <2>5
<1>5. CASE drop_builder(o)
  BY <1>5 DEF drop_builder, Consumed, Abandon, TypeOK, NoDanglingContext, AccountedFor,
              NoneHoldsNothing, BorrowedPoolsLive
<1>6. CASE drop_context(o)
  BY <1>6 DEF drop_context, NativeDelete, Consumed, TypeOK, NoDanglingContext, AccountedFor,
              NoneHoldsNothing, BorrowedPoolsLive
<1> QED
  BY <1>1, <1>2, <1>3, <1>4, <1>5, <1>6

LEMMA PoolPreserves ==
  ASSUME CtxInv, NEW p \in Pools, threadpool_new(p) \/ threadpool_drop(p)
  PROVE  CtxInv'
BY NilAssumption
   DEF CtxInv, threadpool_new, threadpool_drop, TypeOK, NoDanglingContext, AccountedFor,
       NoneHoldsNothing, BorrowedPoolsLive

LEMMA CtxInvInductive == CtxInv /\ [CtxNext]_ctxVars => CtxInv'
<1> SUFFICES ASSUME CtxInv, [CtxNext]_ctxVars
             PROVE  CtxInv'
  OBVIOUS
<1>1. ASSUME NEW o \in Objs, NEW path \in Paths, load_trusted_setup(o, path)
      PROVE  CtxInv'
  BY <1>1, LoadPreserves DEF load_trusted_setup
<1>2. ASSUME NEW o \in Objs, NEW path \in Paths, NEW t \in {0, 64}, NEW b \in {0, 12},
             load_trusted_setup_with_precompute(o, path, t, b)
      PROVE  CtxInv'
  BY <1>2, LoadPreserves DEF load_trusted_setup_with_precompute
<1>3. CASE UNCHANGED ctxVars
  BY <1>3 DEF ctxVars, CtxInv, TypeOK, NoDanglingContext, AccountedFor, NoneHoldsNothing,
              BorrowedPoolsLive
<1> QED
  BY <1>1, <1>2, <1>3, ObjectPreserves, PoolPreserves DEF CtxNext

(* The inductive invariant holds in every reachable state.                   *)
THEOREM ContextInvariant == CtxSpec => []CtxInv
BY CtxInvInit, CtxInvInductive, PTL DEF CtxSpec

(* Every operation of the crate keeps kinds, pointers, borrows and the state *)
(* of the native contexts and pools what they are declared to be.            *)
THEOREM ContextTypeCorrect == CtxSpec => []TypeOK
<1>1. CtxInv => TypeOK
  BY DEF CtxInv
<1> QED
  BY <1>1, ContextInvariant, PTL

(* EthKzgContext and its builder never hold a pointer to a deleted context,  *)
(* nor two of them the same: Drop deletes each native context at most once.  *)
THEOREM ContextsNeverDangle == CtxSpec => []NoDanglingContext
<1>1. CtxInv => NoDanglingContext
  BY DEF CtxInv
<1> QED
  BY <1>1, ContextInvariant, PTL

(* Every allocated context is held by a Rust value or was abandoned with a   *)
(* builder: no other operation of the crate leaks one.                       *)
THEOREM ContextsAccountedFor == CtxSpec => []NativeAccounting
BY AccountingBySet, ContextInvariant, PTL

-----------------------------------------------------------------------------
(* The crates.                                                               *)

(* What a handle that is passed to the library must be.                      *)
Usable(h) == IF h \in Pools THEN pool[h] = "live" ELSE h \in Live

(* The arguments of a call hold no handle at all, or usable ones only.       *)
Plain(args) == \A i \in DOMAIN args : args[i].kind # "handle"
Usables(args) == \A i \in DOMAIN args : args[i].kind = "handle" => Usable(args[i].v)

-----------------------------------------------------------------------------
(* Lists of arguments.                                                       *)
LEMMA PlainArguments ==
  /\ \A n, of : Memory(n, of).kind = "memory"
  /\ \A n : ByteArray(n).kind = "memory"
  /\ \A n, size : Slice(n, size).kind = "memory"
  /\ \A v : Value(v).kind = "value"
  /\ \A n : Octets(n).kind = "memory" /\ Pubkeys(n).kind = "memory" /\ Signatures(n).kind = "memory"
  /\ Seckey.kind = "memory"
BY DEF Memory, ByteArray, Slice, Value, Octets, Pubkeys, Signatures, Seckey

LEMMA PlainIsUsable == \A args : Plain(args) => Usables(args)
BY DEF Plain, Usables

LEMMA CallArgs ==
  ASSUME NEW fn, NEW args, NEW reach, NEW filled, NEW out, NEW ret, NEW given
  PROVE  Call(fn, args, reach, filled, out, ret, given).args = args
BY DEF Call

LEMMA NotMadeArgs ==
  ASSUME NEW ret, NEW given
  PROVE  Plain(NotMade(ret, given).args)
BY DEF NotMade, Call, Plain

(* A list in front of another.                                               *)
LEMMA Joined ==
  ASSUME NEW S, NEW s \in Seq(S), NEW t \in Seq(S), Usables(s), Usables(t)
  PROVE  Usables(s \o t)
<1> SUFFICES ASSUME NEW i \in DOMAIN (s \o t), (s \o t)[i].kind = "handle"
             PROVE  Usable((s \o t)[i].v)
  BY DEF Usables
<1>1. i \in 1 .. Len(s) + Len(t)
  OBVIOUS
<1>2. CASE i \in 1 .. Len(s)
  <2>1. (s \o t)[i] = s[i] /\ i \in DOMAIN s
    BY <1>2
  <2> QED
    BY <2>1 DEF Usables
<1>3. CASE i \notin 1 .. Len(s)
  <2>1. (s \o t)[i] = t[i - Len(s)] /\ i - Len(s) \in DOMAIN t
    BY <1>1, <1>3
  <2> QED
    BY <2>1 DEF Usables
<1> QED
  BY <1>2, <1>3

(* A list of arguments as the elements of a set that are written out.        *)
LEMMA ListOf ==
  ASSUME NEW S
  PROVE  /\ \A a \in S : <<a>> \in Seq(S)
         /\ \A a, b \in S : <<a, b>> \in Seq(S)
         /\ \A a, b, c \in S : <<a, b, c>> \in Seq(S)
         /\ \A a, b, c, d \in S : <<a, b, c, d>> \in Seq(S)
         /\ \A a, b, c, d, e \in S : <<a, b, c, d, e>> \in Seq(S)
         /\ \A a, b, c, d, e, f \in S : <<a, b, c, d, e, f>> \in Seq(S)
OBVIOUS

LEMMA PlainLists ==
  /\ Plain(<<>>)
  /\ \A a : a.kind # "handle" => Plain(<<a>>)
  /\ \A a, b : a.kind # "handle" /\ b.kind # "handle" => Plain(<<a, b>>)
  /\ \A a, b, c : a.kind # "handle" /\ b.kind # "handle" /\ c.kind # "handle"
                  => Plain(<<a, b, c>>)
  /\ \A a, b, c, d : /\ a.kind # "handle" /\ b.kind # "handle" /\ c.kind # "handle"
                     /\ d.kind # "handle"
                     => Plain(<<a, b, c, d>>)
  /\ \A a, b, c, d, e : /\ a.kind # "handle" /\ b.kind # "handle" /\ c.kind # "handle"
                        /\ d.kind # "handle" /\ e.kind # "handle"
                        => Plain(<<a, b, c, d, e>>)
  /\ \A a, b, c, d, e, f : /\ a.kind # "handle" /\ b.kind # "handle" /\ c.kind # "handle"
                           /\ d.kind # "handle" /\ e.kind # "handle" /\ f.kind # "handle"
                           => Plain(<<a, b, c, d, e, f>>)
<1>1. Plain(<<>>)
  BY DEF Plain
<1>2. ASSUME NEW a, a.kind # "handle" PROVE Plain(<<a>>)
  BY <1>2 DEF Plain
<1> QED
  BY <1>1 DEF Plain


(* A call changes no value, context or pool: what was usable when it was     *)
(* made is usable while it lasts.                                            *)
LEMMA CallStep ==
  ASSUME UNCHANGED ctxVars, Usables(call'.args)
  PROVE  HandlesLive'
BY DEF ctxVars, Usables, Usable, HandlesLive, Live

-----------------------------------------------------------------------------
(* constantine-ethereum-bls-sig: only the parallel batch takes a handle, and *)
(* that of a live pool.                                                      *)
LEMMA BlsForms ==
  ASSUME NEW fn, NEW args, NEW reach, NEW fills, NEW ret, NEW asked
  PROVE  /\ Producing(fn, args, reach, fills, ret, asked) => call'.args = args
         /\ Deciding(fn, args, reach, ret, asked) => call'.args = args
BY CallArgs DEF Producing, Deciding

LEMMA BlsKeyCalls ==
  ASSUME NEW a, NEW b,
         \/ sha256_hash(a) \/ derive_pubkey(a) \/ sign(a, b)
         \/ pubkeys_are_equal(a, b) \/ signatures_are_equal(a, b)
         \/ validate_seckey(a) \/ deserialize_seckey(a) \/ serialize_seckey(a)
         \/ validate_pubkey(a) \/ validate_signature(a)
  PROVE  Plain(call'.args)
<1> USE BlsForms
<1>1. \/ call'.args = <<Octets(32), Octets(a), Value(a), Value(0)>>
      \/ call'.args = <<Pubkeys(1), Seckey>>
      \/ call'.args = <<Signatures(1), Seckey, Octets(32), Value(32)>>
      \/ call'.args = <<Pubkeys(1), Pubkeys(1)>>
      \/ call'.args = <<Signatures(1), Signatures(1)>>
      \/ call'.args = <<Seckey>>
      \/ call'.args = <<Seckey, Octets(32)>>
      \/ call'.args = <<Octets(32), Seckey>>
      \/ call'.args = <<Pubkeys(1)>>
      \/ call'.args = <<Signatures(1)>>
  BY DEF sha256_hash, derive_pubkey, sign, pubkeys_are_equal, signatures_are_equal,
         validate_seckey, deserialize_seckey, serialize_seckey, validate_pubkey,
         validate_signature
<1> QED
  BY <1>1, PlainLists, PlainArguments


LEMMA BlsCodecCalls ==
  ASSUME NEW p,
         \/ serialize_pubkey_compressed(p) \/ serialize_signature_compressed(p)
         \/ deserialize_pubkey_compressed_unchecked(p)
         \/ deserialize_signature_compressed_unchecked(p)
         \/ deserialize_pubkey_compressed(p) \/ deserialize_signature_compressed(p)
  PROVE  Plain(call'.args)
<1>1. \/ call'.args = <<Octets(48), Pubkeys(1)>>
      \/ call'.args = <<Octets(96), Signatures(1)>>
      \/ call'.args = <<Pubkeys(1), Octets(48)>>
      \/ call'.args = <<Signatures(1), Octets(96)>>
  BY BlsForms, ZenonT(60)
     DEF serialize_pubkey_compressed, serialize_signature_compressed,
         deserialize_pubkey_compressed_unchecked, deserialize_signature_compressed_unchecked,
         deserialize_pubkey_compressed, deserialize_signature_compressed
<1> QED
  BY <1>1, PlainLists, PlainArguments

LEMMA BlsVerifyCalls ==
  ASSUME NEW pks, NEW ms, NEW sigs,
         \/ verify(pks, ms, sigs) \/ fast_aggregate_verify(pks, ms, sigs)
         \/ aggregate_verify(pks, ms, sigs) \/ batch_verify(pks, ms, sigs)
  PROVE  Plain(call'.args)
<1>1. \/ call'.args = <<Pubkeys(1), Octets(32), Value(32), Signatures(1)>>
      \/ call'.args = <<Pubkeys(Len(pks)), Value(Len(pks)), Octets(32), Value(32), Signatures(1)>>
      \/ call'.args = <<Pubkeys(Len(pks)), Memory(Len(ms), "CttSpan"), Value(Len(pks)),
                        Signatures(1)>>
      \/ call'.args = <<Pubkeys(Len(pks)), Memory(Len(ms), "CttSpan"), Signatures(Len(sigs)),
                        Value(Len(ms)), Octets(32)>>
  BY BlsForms DEF verify, fast_aggregate_verify, aggregate_verify, batch_verify, batch_args
<1> QED
  BY <1>1, PlainLists, PlainArguments

(* One handle before arguments that are not handles.                         *)
LEMMA BehindHandle ==
  ASSUME NEW h, Usable(h), NEW S, NEW args \in Seq(S), Plain(args)
  PROVE  Usables(<<Handle(h)>> \o args)
<1> DEFINE T == S \union {Handle(h)}
<1>1. args \in Seq(T)
  OBVIOUS
<1>2. <<Handle(h)>> \in Seq(T)
  BY ListOf
<1>3. Usables(<<Handle(h)>>)
  BY DEF Usables, Handle
<1> QED
  BY <1>1, <1>2, <1>3, Joined, PlainIsUsable

LEMMA BlsParallelCall ==
  ASSUME NEW p, Usable(p), NEW pks, NEW ms, NEW sigs, batch_verify_parallel(p, pks, ms, sigs)
  PROVE  Usables(call'.args)
<1> DEFINE args == <<Pubkeys(Len(pks)), Memory(Len(ms), "CttSpan"), Signatures(Len(sigs)),
                     Value(Len(ms)), Octets(32)>>
           S == {Pubkeys(Len(pks)), Memory(Len(ms), "CttSpan"), Signatures(Len(sigs)),
                 Value(Len(ms)), Octets(32)}
<1>1. call'.args = <<Handle(p)>> \o args
  BY BlsForms DEF batch_verify_parallel, batch_args
<1>2. Plain(args)
  BY PlainLists, PlainArguments
<1>3. args \in Seq(S)
  BY ListOf
<1> HIDE DEF args, S
<1> QED
  BY <1>1, <1>2, <1>3, BehindHandle

LEMMA LivePoolUsable == \A p \in LivePools : Usable(p)
BY DEF LivePools, Usable

LEMMA BlsCallsSafe ==
  ASSUME BlsCall(LivePools)
  PROVE  Usables(call'.args)
<1>1. ASSUME NEW p \in LivePools, NEW pks, NEW ms, NEW sigs,
             batch_verify_parallel(p, pks, ms, sigs)
      PROVE  Usables(call'.args)
  BY <1>1, BlsParallelCall, LivePoolUsable
<1>2. \/ Plain(call'.args)
      \/ \E p \in LivePools : \E pks, ms, sigs : batch_verify_parallel(p, pks, ms, sigs)
  BY BlsKeyCalls, BlsCodecCalls, BlsVerifyCalls DEF BlsCall
<1> QED
  BY <1>1, <1>2, PlainIsUsable

-----------------------------------------------------------------------------
(* constantine-core and constantine-halo2-zal: the engine passes the pool it *)
(* owns.                                                                     *)
LEMMA MsmSafe ==
  ASSUME NEW p, Usable(p), NEW coeffs, NEW bases, msm(p, coeffs, bases)
  PROVE  Usables(call'.args)
<1>1. CASE coeffs # bases
  BY <1>1, NotMadeArgs, PlainIsUsable DEF msm
<1>2. CASE coeffs = bases
  <2>1. call'.args = <<Handle(p), Memory(1, "bn254_snarks_g1_prj"), Memory(4 * coeffs, "u64"),
                       Memory(8 * bases, "u64"), Value(bases)>>
    BY <1>2 DEF msm, Call
  <2> QED
    BY <2>1 DEF Usables, Handle, Memory, Value
<1> QED
  BY <1>1, <1>2

LEMMA CoreCallsSafe ==
  ASSUME CoreCall(LivePools)
  PROVE  Usables(call'.args)
<1>1. ASSUME NEW len, NEW success, sysrand(len, success)
      PROVE  Plain(call'.args)
  <2>1. call'.args = <<ByteArray(len), Value(len)>>
    BY <1>1 DEF sysrand, Call
  <2> QED
    BY <2>1, PlainLists, PlainArguments
<1>2. ASSUME NEW n, get_num_threads_os(n)
      PROVE  Plain(call'.args)
  BY <1>2, CallArgs, PlainLists DEF get_num_threads_os
<1>3. ASSUME NEW p \in LivePools, NEW coeffs, NEW bases,
             \/ msm(p, coeffs, bases)
             \/ msm_with_cached_scalars(p, descriptor(coeffs), bases)
             \/ msm_with_cached_base(p, coeffs, descriptor(bases))
             \/ msm_with_cached_inputs(p, descriptor(coeffs), descriptor(bases))
      PROVE  Usables(call'.args)
  BY <1>3, MsmSafe, LivePoolUsable
     DEF msm_with_cached_scalars, msm_with_cached_base, msm_with_cached_inputs, descriptor
<1> QED
  BY <1>1, <1>2, <1>3, PlainIsUsable DEF CoreCall


-----------------------------------------------------------------------------
(* constantine-ethereum-evm-precompiles: the point evaluation passes the     *)
(* context it was given, the other precompiles no handle.                    *)
LEMMA PrecompileArgs ==
  ASSUME NEW fn, NEW before, NEW rlen, NEW len, NEW status, NEW v, NEW asked,
         Evm(fn, before, rlen, len, status, v, asked)
  PROVE  call'.args = before \o <<ByteArray(rlen), Value(rlen), ByteArray(len), Value(len)>>
BY DEF Evm, Call

LEMMA PrecompileList ==
  ASSUME NEW rlen, NEW len
  PROVE  Plain(<<>> \o <<ByteArray(rlen), Value(rlen), ByteArray(len), Value(len)>>)
<1> DEFINE args == <<ByteArray(rlen), Value(rlen), ByteArray(len), Value(len)>>
<1>1. <<>> \o args = args
  OBVIOUS
<1>2. Plain(args)
  BY PlainLists, PlainArguments
<1> QED
  BY <1>1, <1>2

LEMMA PrecompilePlain ==
  ASSUME NEW fn, NEW rlen, NEW len, NEW status, NEW v, NEW asked,
         Evm(fn, <<>>, rlen, len, status, v, asked)
  PROVE  Plain(call'.args)
<1>1. call'.args = <<>> \o <<ByteArray(rlen), Value(rlen), ByteArray(len), Value(len)>>
  BY PrecompileArgs
<1> QED
  BY <1>1, PrecompileList

LEMMA PointEvaluationSafe ==
  ASSUME NEW o, Usable(ctx[o]), NEW len, NEW hashed, NEW z, NEW y, NEW c, NEW p,
         evm_kzg_point_evaluation(o, len, hashed, z, y, c, p)
  PROVE  Usables(call'.args)
<1> DEFINE args == <<ByteArray(64), Value(64), ByteArray(len), Value(len)>>
           S == {ByteArray(64), Value(64), ByteArray(len), Value(len)}
<1>1. call'.args = <<Handle(ctx[o])>> \o args
  BY DEF evm_kzg_point_evaluation, Evm, Call
<1>2. Plain(args)
  BY PlainLists, PlainArguments
<1>3. args \in Seq(S)
  BY ListOf
<1> HIDE DEF args, S
<1> QED
  BY <1>1, <1>2, <1>3, BehindHandle

LEMMA ModexpPlain ==
  ASSUME NEW in, evm_modexp(in)
  PROVE  Plain(call'.args)
<1>1. call'.args = <<Memory(1, "u64"), ByteArray(InputLen(in)), Value(InputLen(in))>>
  BY DEF evm_modexp, Call
<1> QED
  BY <1>1, PlainLists, PlainArguments

LEMMA EvmCallsSafe ==
  ASSUME EvmCall
  PROVE  Usables(call'.args)
<1>1. ASSUME NEW len, evm_ripemd160(len) \/ evm_sha256(len)
      PROVE  Plain(call'.args)
  BY <1>1, PrecompilePlain DEF evm_ripemd160, evm_sha256, Hash
<1>2. ASSUME NEW len, NEW p, NEW q,
             \/ evm_bn254_g1add(len, p, q) \/ evm_bn254_g1mul(len, p, q)
      PROVE  Plain(call'.args)
  BY <1>2, PrecompilePlain DEF evm_bn254_g1add, evm_bn254_g1mul
<1>3. ASSUME NEW len, NEW p, NEW q,
             \/ evm_bls12381_g1add(len, p, q) \/ evm_bls12381_g2add(len, p, q)
             \/ evm_bls12381_g1mul(len, p, q) \/ evm_bls12381_g2mul(len, p, q)
             \/ evm_bls12381_g1msm(len, p, q) \/ evm_bls12381_g2msm(len, p, q)
      PROVE  Plain(call'.args)
  <2>1. ASSUME NEW fn, NEW size, NEW rlen, NEW n, Sum(fn, size, rlen, n, p, q)
        PROVE  Plain(call'.args)
    BY <2>1, PrecompilePlain, Zenon DEF Sum
  <2>2. ASSUME NEW fn, NEW size, NEW rlen, NEW n, Mul(fn, size, rlen, n, p, q)
        PROVE  Plain(call'.args)
    BY <2>2, PrecompilePlain, Zenon DEF Mul
  <2>3. ASSUME NEW fn, NEW size, NEW rlen, NEW n, Msm(fn, size, rlen, n, p, q)
        PROVE  Plain(call'.args)
    BY <2>3, PrecompilePlain, Zenon DEF Msm
  <2> QED
    BY <1>3, <2>1, <2>2, <2>3, ZenonT(60)
       DEF evm_bls12381_g1add, evm_bls12381_g2add, evm_bls12381_g1mul, evm_bls12381_g2mul,
           evm_bls12381_g1msm, evm_bls12381_g2msm
<1>4. ASSUME NEW whole, NEW ps, NEW qs,
             \/ evm_bn254_ec_pairing_check(whole, ps, qs)
             \/ evm_bls12381_pairing_check(whole, ps, qs)
      PROVE  Plain(call'.args)
  <2>1. CASE evm_bn254_ec_pairing_check(whole, ps, qs)
    <3> DEFINE len == 192 * Len(ps) + (IF whole THEN 0 ELSE 1)
    <3>1. call'.args = <<>> \o <<ByteArray(32), Value(32), ByteArray(len), Value(len)>>
      BY <2>1, SMTT(30) DEF evm_bn254_ec_pairing_check, Evm, Call
    <3> QED
      BY <3>1, PrecompileList
  <2>2. CASE evm_bls12381_pairing_check(whole, ps, qs)
    <3> DEFINE len == 384 * Len(ps) + (IF whole THEN 0 ELSE 1)
    <3>1. call'.args = <<>> \o <<ByteArray(32), Value(32), ByteArray(len), Value(len)>>
      BY <2>2, SMTT(30) DEF evm_bls12381_pairing_check, Evm, Call
    <3> QED
      BY <3>1, PrecompileList
  <2> QED
    BY <1>4, <2>1, <2>2
<1>5. ASSUME NEW len, NEW u0, NEW u1,
             evm_bls12381_map_fp_to_g1(len, u0) \/ evm_bls12381_map_fp2_to_g2(len, u0, u1)
      PROVE  Plain(call'.args)
  BY <1>5, PrecompilePlain, ZenonT(60) DEF evm_bls12381_map_fp_to_g1,
     evm_bls12381_map_fp2_to_g2, MapTo
<1>6. ASSUME evm_modexp_sized
      PROVE  Plain(call'.args)
  <2> DEFINE size == call.ret.v
             n == InputLen(call.given.in)
  <2>1. \/ call'.args = <<>>
        \/ call'.args = <<ByteArray(size), Value(size), ByteArray(n), Value(n)>>
    <3> DEFINE args == <<ByteArray(size), Value(size), ByteArray(n), Value(n)>>
    <3>1. \/ \E ret, asked : call' = NotMade(ret, asked)
          \/ \E reach, filled, ret, asked :
               call' = Call("ctt_eth_evm_modexp", args, reach, filled, filled, ret, asked)
      BY <1>6, ZenonT(30) DEF evm_modexp_sized
    <3> HIDE DEF args
    <3>2. ASSUME NEW ret, NEW asked, call' = NotMade(ret, asked)
          PROVE  call'.args = <<>>
      BY <3>2 DEF NotMade, Call
    <3>3. ASSUME NEW reach, NEW filled, NEW ret, NEW asked,
                 call' = Call("ctt_eth_evm_modexp", args, reach, filled, filled, ret, asked)
          PROVE  call'.args = args
      BY <3>3 DEF Call
    <3>4. call'.args = <<>> \/ call'.args = args
      BY <3>1, <3>2, <3>3
    <3> QED
      BY <3>4 DEF args
  <2> HIDE DEF size, n
  <2> QED
    BY <2>1, PlainLists, PlainArguments
<1>7. Plain(call'.args)
  BY <1>1, <1>2, <1>3, <1>4, <1>5, <1>6, ModexpPlain, SMTT(30) DEF EvmCall
<1> QED
  BY <1>7, PlainIsUsable


-----------------------------------------------------------------------------
(* constantine-ethereum-kzg: every method passes the context of its object,  *)
(* the parallel ones its threadpool first.                                   *)
LEMMA TwoHandles ==
  ASSUME NEW g, NEW h, Usable(g), Usable(h)
  PROVE  Usables(<<Handle(g), Handle(h)>>)
BY DEF Usables, Handle

(* What Invoke passes with the arguments of a method: nothing when there is  *)
(* no threadpool to unwrap, else one or two handles before them.             *)
Invoked(o, args) ==
  \/ call'.args = <<>>
  \/ tp[o] # Nil /\ call'.args = <<Handle(tp[o]), Handle(ctx[o])>> \o args
  \/ call'.args = <<Handle(ctx[o])>> \o args

LEMMA InvokedSafe ==
  ASSUME NEW o, Usable(ctx[o]), tp[o] # Nil => Usable(tp[o]),
         NEW S, NEW args \in Seq(S), Plain(args), Invoked(o, args)
  PROVE  Usables(call'.args)
<1>1. CASE call'.args = <<>>
  BY <1>1, PlainLists, PlainIsUsable
<1>2. CASE tp[o] # Nil /\ call'.args = <<Handle(tp[o]), Handle(ctx[o])>> \o args
  <2> DEFINE before == <<Handle(tp[o]), Handle(ctx[o])>>
             T == S \union {Handle(tp[o]), Handle(ctx[o])}
  <2>1. before \in Seq(T) /\ args \in Seq(T)
    BY ListOf
  <2>2. Usables(before)
    BY <1>2, TwoHandles
  <2>3. call'.args = before \o args
    BY <1>2
  <2> HIDE DEF before, T
  <2> QED
    BY <2>1, <2>2, <2>3, Joined, PlainIsUsable
<1>3. CASE call'.args = <<Handle(ctx[o])>> \o args
  BY <1>3, BehindHandle
<1> QED
  BY <1>1, <1>2, <1>3 DEF Invoked

(* Methods with two to six arguments of their own.                           *)
LEMMA TwoArguments ==
  ASSUME NEW o, Usable(ctx[o]), tp[o] # Nil => Usable(tp[o]),
         NEW a, a.kind # "handle", NEW b, b.kind # "handle",
         Invoked(o, <<a, b>>)
  PROVE  Usables(call'.args)
<1>1. <<a, b>> \in Seq({a, b})
  OBVIOUS
<1>2. Plain(<<a, b>>)
  BY PlainLists
<1> QED
  BY <1>1, <1>2, InvokedSafe

LEMMA ThreeArguments ==
  ASSUME NEW o, Usable(ctx[o]), tp[o] # Nil => Usable(tp[o]),
         NEW a, a.kind # "handle", NEW b, b.kind # "handle", NEW c, c.kind # "handle",
         Invoked(o, <<a, b, c>>)
  PROVE  Usables(call'.args)
<1>1. <<a, b, c>> \in Seq({a, b, c})
  OBVIOUS
<1>2. Plain(<<a, b, c>>)
  BY PlainLists
<1> QED
  BY <1>1, <1>2, InvokedSafe

LEMMA FourArguments ==
  ASSUME NEW o, Usable(ctx[o]), tp[o] # Nil => Usable(tp[o]),
         NEW a, a.kind # "handle", NEW b, b.kind # "handle", NEW c, c.kind # "handle",
         NEW d, d.kind # "handle",
         Invoked(o, <<a, b, c, d>>)
  PROVE  Usables(call'.args)
<1>1. <<a, b, c, d>> \in Seq({a, b, c, d})
  OBVIOUS
<1>2. Plain(<<a, b, c, d>>)
  BY PlainLists
<1> QED
  BY <1>1, <1>2, InvokedSafe

LEMMA FiveArguments ==
  ASSUME NEW o, Usable(ctx[o]), tp[o] # Nil => Usable(tp[o]),
         NEW a, a.kind # "handle", NEW b, b.kind # "handle", NEW c, c.kind # "handle",
         NEW d, d.kind # "handle", NEW e, e.kind # "handle",
         Invoked(o, <<a, b, c, d, e>>)
  PROVE  Usables(call'.args)
<1>1. <<a, b, c, d, e>> \in Seq({a, b, c, d, e})
  OBVIOUS
<1>2. Plain(<<a, b, c, d, e>>)
  BY PlainLists
<1> QED
  BY <1>1, <1>2, InvokedSafe

LEMMA SixArguments ==
  ASSUME NEW o, Usable(ctx[o]), tp[o] # Nil => Usable(tp[o]),
         NEW a, a.kind # "handle", NEW b, b.kind # "handle", NEW c, c.kind # "handle",
         NEW d, d.kind # "handle", NEW e, e.kind # "handle", NEW f, f.kind # "handle",
         Invoked(o, <<a, b, c, d, e, f>>)
  PROVE  Usables(call'.args)
<1>1. <<a, b, c, d, e, f>> \in Seq({a, b, c, d, e, f})
  OBVIOUS
<1>2. Plain(<<a, b, c, d, e, f>>)
  BY PlainLists
<1> QED
  BY <1>1, <1>2, InvokedSafe

LEMMA MemoryOfMethods ==
  /\ blob_bytes.kind = "memory" /\ point_bytes.kind = "memory" /\ scalar_bytes.kind = "memory"
  /\ cells_box.kind = "memory" /\ proofs_box.kind = "memory"
BY PlainArguments DEF blob_bytes, point_bytes, scalar_bytes, cells_box, proofs_box

LEMMA InvokeForm ==
  ASSUME NEW o, NEW parallel, NEW fn, NEW args, NEW reach, NEW outs, NEW status, NEW ret,
         NEW asked, Invoke(o, parallel, fn, args, reach, outs, status, ret, asked)
  PROVE  Invoked(o, args)
BY DEF Invoke, NotMade, Call, Invoked

LEMMA NotMadeForm ==
  ASSUME NEW o, NEW args, NEW ret, NEW asked, call' = NotMade(ret, asked)
  PROVE  Invoked(o, args)
BY DEF NotMade, Call, Invoked

(* The methods that have no parallel version.                                *)
LEMMA SerialForm ==
  ASSUME NEW o, NEW args, NEW fn, NEW reach, NEW outs, NEW status, NEW ret, NEW asked, NEW other,
         \/ call' = NotMade(other, asked)
         \/ Serially(o, fn, args, reach, outs, status, ret, asked)
  PROVE  Invoked(o, args)
<1>1. CASE call' = NotMade(other, asked)
  BY <1>1, NotMadeForm
<1>2. CASE Serially(o, fn, args, reach, outs, status, ret, asked)
  BY <1>2 DEF Serially, Invoke, NotMade, Call, Invoked
<1> QED
  BY <1>1, <1>2

LEMMA MethodForms ==
  ASSUME NEW o, NEW par
  PROVE  /\ \A blob : blob_to_kzg_commitment(o, par, blob)
                      => Invoked(o, <<point_bytes, blob_bytes>>)
         /\ \A blob, z : compute_kzg_proof(o, par, blob, z)
                      => Invoked(o, <<point_bytes, scalar_bytes, blob_bytes, scalar_bytes>>)
         /\ \A c, z, y, p : verify_kzg_proof(o, c, z, y, p)
                      => Invoked(o, <<point_bytes, scalar_bytes, scalar_bytes, point_bytes>>)
         /\ \A blob, c : compute_blob_kzg_proof(o, par, blob, c)
                      => Invoked(o, <<point_bytes, blob_bytes, point_bytes>>)
         /\ \A blob, c, p : verify_blob_kzg_proof(o, par, blob, c, p)
                      => Invoked(o, <<blob_bytes, point_bytes, point_bytes>>)
         /\ \A blob : compute_cells_and_kzg_proofs(o, blob)
                      => Invoked(o, <<cells_box, proofs_box, blob_bytes>>)
<1>1. ASSUME NEW blob, blob_to_kzg_commitment(o, par, blob)
      PROVE  Invoked(o, <<point_bytes, blob_bytes>>)
  BY <1>1, InvokeForm, Zenon DEF blob_to_kzg_commitment
<1>2. ASSUME NEW blob, NEW z, compute_kzg_proof(o, par, blob, z)
      PROVE  Invoked(o, <<point_bytes, scalar_bytes, blob_bytes, scalar_bytes>>)
  BY <1>2, InvokeForm, Zenon DEF compute_kzg_proof
<1>3. ASSUME NEW c, NEW z, NEW y, NEW p, verify_kzg_proof(o, c, z, y, p)
      PROVE  Invoked(o, <<point_bytes, scalar_bytes, scalar_bytes, point_bytes>>)
  BY <1>3 DEF verify_kzg_proof, Serially, Invoke, NotMade, Call, Invoked
<1>4. ASSUME NEW blob, NEW c, compute_blob_kzg_proof(o, par, blob, c)
      PROVE  Invoked(o, <<point_bytes, blob_bytes, point_bytes>>)
  BY <1>4, InvokeForm, Zenon DEF compute_blob_kzg_proof
<1>5. ASSUME NEW blob, NEW c, NEW p, verify_blob_kzg_proof(o, par, blob, c, p)
      PROVE  Invoked(o, <<blob_bytes, point_bytes, point_bytes>>)
  <2>1. PICK conv \in blob_to_polynomial(par, blob) :
               verify_blob_kzg_proof(o, par, blob, c, p)!(conv)
    BY <1>5 DEF verify_blob_kzg_proof
  <2> QED
    BY <2>1 DEF Invoke, NotMade, Call, Invoked
<1>6. ASSUME NEW blob, compute_cells_and_kzg_proofs(o, blob)
      PROVE  Invoked(o, <<cells_box, proofs_box, blob_bytes>>)
  BY <1>6, SerialForm, Zenon DEF compute_cells_and_kzg_proofs
<1> QED
  BY <1>1, <1>2, <1>3, <1>4, <1>5, <1>6


LEMMA BatchForm ==
  ASSUME NEW o, NEW par, NEW items, NEW lens, NEW seed,
         verify_blob_kzg_proof_batch(o, par, items, lens, seed)
  PROVE  Invoked(o, <<Slice(Len(items), 131072), Slice(Len(items), 48),
                      Slice(Len(items), 48), Value(Len(items)), scalar_bytes>>)
<1> DEFINE n == Len(items)
           args == <<Slice(n, 131072), Slice(n, 48), Slice(n, 48), Value(n), scalar_bytes>>
           asked == asked_batch(o, par, items, lens, seed)
<1>1. \/ call' = NotMade(LengthsMismatch, asked)
      \/ \E decoded \in batch_statuses(par, items) :
           Invoke(o, par, "ctt_eth_kzg_verify_blob_kzg_proof_batch", args, <<n, n, n, 0, 32>>, {},
                  native_verify_batch(par, items, seed, decoded),
                  Verified(native_verify_batch(par, items, seed, decoded)), asked)
  BY SMTT(30) DEF verify_blob_kzg_proof_batch
<1> HIDE DEF args, asked
<1>2. Invoked(o, args)
  BY <1>1, NotMadeForm, InvokeForm
<1> QED
  BY <1>2 DEF args

LEMMA CellBatchForm ==
  ASSUME NEW o, NEW items, NEW lens, verify_cell_kzg_proof_batch(o, items, lens)
  PROVE  Invoked(o, <<Slice(Len(items), 48), Memory(Len(items), "u64"),
                      Slice(Len(items), 2048), Slice(Len(items), 48),
                      Value(Len(items)), scalar_bytes>>)
<1> DEFINE n == Len(items)
           args == <<Slice(n, 48), Memory(n, "u64"), Slice(n, 2048), Slice(n, 48), Value(n),
                     scalar_bytes>>
           asked == asked_cells(o, items, lens)
<1>1. \/ call' = NotMade(LengthsMismatch, asked)
      \/ Serially(o, "ctt_eth_kzg_verify_cell_kzg_proof_batch", args,
                <<n, n, n, n, 0, 32>>, {}, native_verify_cells(items),
                Verified(native_verify_cells(items)), asked)
  BY DEF verify_cell_kzg_proof_batch
<1> HIDE DEF args, asked
<1>2. Invoked(o, args)
  BY <1>1, SerialForm
<1> QED
  BY <1>2 DEF args

LEMMA RecoverForm ==
  ASSUME NEW o, NEW in, NEW lens, recover_cells_and_kzg_proofs(o, in, lens)
  PROVE  Invoked(o, <<cells_box, proofs_box, Memory(in.n, "u64"), Slice(in.n, 2048),
                      Value(in.n)>>)
<1> DEFINE args == <<cells_box, proofs_box, Memory(in.n, "u64"), Slice(in.n, 2048), Value(in.n)>>
           total == constants.consts.CTT_CELLS_PER_EXT_BLOB
           asked == asked_recover(o, in, lens)
<1>1. \/ call' = NotMade(LengthsMismatch, asked)
      \/ Serially(o, "ctt_eth_kzg_recover_cells_and_kzg_proofs", args,
                <<total, total, in.n, in.n, 0>>, {1, 2}, native_recover(in),
                Computed(native_recover(in)), asked)
  BY DEF recover_cells_and_kzg_proofs
<1> HIDE DEF args, asked
<1>2. Invoked(o, args)
  BY <1>1, SerialForm
<1> QED
  BY <1>2 DEF args

(* The context of an object that is one is live, its pool is if it has one.  *)
LEMMA ObjectUsable ==
  ASSUME CtxInv, NEW o \in Objs, kind[o] = "context"
  PROVE  Usable(ctx[o]) /\ (tp[o] # Nil => Usable(tp[o]))
BY NilAssumption, PoolAssumption
   DEF CtxInv, TypeOK, NoDanglingContext, BorrowedPoolsLive, Usable, Live

LEMMA KzgCallsSafe ==
  ASSUME CtxInv, NEW o \in Objs, KzgCall(o) \/ PointEvaluationCall(o) \/ Sample(o)
  PROVE  Usables(call'.args)
<1>1. kind[o] = "context"
  BY DEF KzgCall, PointEvaluationCall, Sample
<1>2. Usable(ctx[o]) /\ (tp[o] # Nil => Usable(tp[o]))
  BY <1>1, ObjectUsable
<1>3. ASSUME NEW par, NEW blob, blob_to_kzg_commitment(o, par, blob)
      PROVE  Usables(call'.args)
  BY <1>2, <1>3, MethodForms, TwoArguments, MemoryOfMethods
<1>4. ASSUME NEW par, NEW blob, NEW z, compute_kzg_proof(o, par, blob, z)
      PROVE  Usables(call'.args)
  BY <1>2, <1>4, MethodForms, FourArguments, MemoryOfMethods
<1>5. ASSUME NEW c, NEW z, NEW y, NEW p, verify_kzg_proof(o, c, z, y, p)
      PROVE  Usables(call'.args)
  BY <1>2, <1>5, MethodForms, FourArguments, MemoryOfMethods
<1>6. ASSUME NEW par, NEW blob, NEW c, compute_blob_kzg_proof(o, par, blob, c)
      PROVE  Usables(call'.args)
  BY <1>2, <1>6, MethodForms, ThreeArguments, MemoryOfMethods
<1>7. ASSUME NEW par, NEW blob, NEW c, NEW p, verify_blob_kzg_proof(o, par, blob, c, p)
      PROVE  Usables(call'.args)
  BY <1>2, <1>7, MethodForms, ThreeArguments, MemoryOfMethods
<1>8. ASSUME NEW blob, compute_cells_and_kzg_proofs(o, blob)
      PROVE  Usables(call'.args)
  BY <1>2, <1>8, MethodForms, ThreeArguments, MemoryOfMethods
<1>9. ASSUME NEW par, NEW items, NEW lens, NEW seed,
             verify_blob_kzg_proof_batch(o, par, items, lens, seed)
      PROVE  Usables(call'.args)
  <2>1. Invoked(o, <<Slice(Len(items), 131072), Slice(Len(items), 48),
                       Slice(Len(items), 48), Value(Len(items)), scalar_bytes>>)
    BY <1>9, BatchForm
  <2>2. /\ Slice(Len(items), 131072).kind # "handle" /\ Slice(Len(items), 48).kind # "handle"
        /\ Value(Len(items)).kind # "handle" /\ scalar_bytes.kind # "handle"
    BY MemoryOfMethods, PlainArguments
  <2> QED
    BY <1>2, <2>1, <2>2, FiveArguments
<1>10. ASSUME NEW items, NEW lens, verify_cell_kzg_proof_batch(o, items, lens)
       PROVE  Usables(call'.args)
  <2>1. Invoked(o, <<Slice(Len(items), 48), Memory(Len(items), "u64"),
                       Slice(Len(items), 2048), Slice(Len(items), 48),
                       Value(Len(items)), scalar_bytes>>)
    BY <1>10, CellBatchForm
  <2>2. /\ Slice(Len(items), 48).kind # "handle" /\ Slice(Len(items), 2048).kind # "handle"
        /\ Memory(Len(items), "u64").kind # "handle" /\ Value(Len(items)).kind # "handle"
        /\ scalar_bytes.kind # "handle"
    BY MemoryOfMethods, PlainArguments
  <2> QED
    BY <1>2, <2>1, <2>2, SixArguments
<1>11. ASSUME NEW in, NEW lens, recover_cells_and_kzg_proofs(o, in, lens)
       PROVE  Usables(call'.args)
  <2>1. Invoked(o, <<cells_box, proofs_box, Memory(in.n, "u64"), Slice(in.n, 2048),
                       Value(in.n)>>)
    BY <1>11, RecoverForm
  <2>2. /\ cells_box.kind # "handle" /\ proofs_box.kind # "handle"
        /\ Memory(in.n, "u64").kind # "handle" /\ Slice(in.n, 2048).kind # "handle"
        /\ Value(in.n).kind # "handle"
    BY MemoryOfMethods, PlainArguments
  <2> QED
    BY <1>2, <2>1, <2>2, FiveArguments
<1>12. ASSUME KzgCall(o)
       PROVE  Usables(call'.args)
  BY <1>3, <1>4, <1>5, <1>6, <1>7, <1>8, <1>9, <1>10, <1>11, <1>12 DEF KzgCall
<1>13. ASSUME PointEvaluationCall(o)
       PROVE  Usables(call'.args)
  BY <1>2, <1>13, PointEvaluationSafe DEF PointEvaluationCall
<1>14. ASSUME Sample(o)
       PROVE  Usables(call'.args)
  BY <1>3, <1>14 DEF Sample
<1> QED
  BY <1>12, <1>13, <1>14


-----------------------------------------------------------------------------
(* The whole program.  Values, contexts and pools only change between calls, *)
(* and in the ways of KzgContext.                                            *)
LEMMA StepKeepsContexts == [CratesNext]_vars => [CtxNext]_ctxVars
<1> SUFFICES ASSUME CratesNext
             PROVE  CtxNext \/ UNCHANGED ctxVars
  BY DEF vars
<1>1. CASE Compile \/ Return
  BY <1>1 DEF Compile, Return
<1>2. CASE Contexts
  BY <1>2 DEF Contexts
<1>3. CASE Threadpools
  BY <1>3 DEF Threadpools, CtxNext
<1>4. CASE KzgCalls
  BY <1>4 DEF KzgCalls, KzgCall, PointEvaluationCall, Sample
<1>5. CASE BlsCalls \/ EvmCalls \/ CoreCalls
  BY <1>5 DEF BlsCalls, EvmCalls, CoreCalls, EvmCall
<1> QED
  BY <1>1, <1>2, <1>3, <1>4, <1>5 DEF CratesNext

(* The program implements the ownership rules of KzgContext: whatever the    *)
(* crates are called for and however the calls fall between the creation and *)
(* the dropping of values, what happens to contexts, builders and pools is a *)
(* behaviour of KzgContext.                                                  *)
THEOREM CratesImplementContexts == CratesSpec => CtxSpec
<1>1. CratesInit => Init
  BY DEF CratesInit
<1> QED
  BY <1>1, StepKeepsContexts, PTL DEF CratesSpec, CtxSpec

(* The inductive invariant: ownership as in KzgContext, and the handles of   *)
(* the call that is being answered.                                          *)
CratesInv == CtxInv /\ HandlesLive

LEMMA CratesInvInit == CratesInit => CratesInv
<1> SUFFICES ASSUME CratesInit
             PROVE  CratesInv
  OBVIOUS
<1>1. CtxInv
  BY CtxInvInit DEF CratesInit
<1>2. ~Made
  BY DEF CratesInit, Made
<1> QED
  BY <1>1, <1>2 DEF CratesInv, HandlesLive

LEMMA NotMadeSafe ==
  ASSUME call' \in {NoCall, Compiling}
  PROVE  HandlesLive'
BY DEF HandlesLive, Made

LEMMA CratesInvInductive == CratesInv /\ [CratesNext]_vars => CratesInv'
<1> SUFFICES ASSUME CratesInv, [CratesNext]_vars
             PROVE  CratesInv'
  OBVIOUS
<1>1. CtxInv'
  BY StepKeepsContexts, CtxInvInductive DEF CratesInv
<1>2. HandlesLive'
  <2>1. CASE Compile \/ Return
    BY <2>1, NotMadeSafe DEF Compile, Return
  <2>2. CASE Contexts \/ Threadpools
    BY <2>2, NotMadeSafe DEF Contexts, Threadpools
  <2>3. CASE KzgCalls
    <3>1. Usables(call'.args)
      BY <2>3, KzgCallsSafe DEF KzgCalls, CratesInv
    <3>2. UNCHANGED ctxVars
      BY <2>3 DEF KzgCalls, KzgCall, PointEvaluationCall, Sample
    <3> QED
      BY <3>1, <3>2, CallStep
  <2>4. CASE BlsCalls
    BY <2>4, BlsCallsSafe, CallStep DEF BlsCalls
  <2>5. CASE EvmCalls
    BY <2>5, EvmCallsSafe, CallStep DEF EvmCalls, EvmCall
  <2>6. CASE CoreCalls
    BY <2>6, CoreCallsSafe, CallStep DEF CoreCalls
  <2>7. CASE UNCHANGED vars
    BY <2>7 DEF vars, ctxVars, CratesInv, HandlesLive, Made, Live
  <2> QED
    BY <2>1, <2>2, <2>3, <2>4, <2>5, <2>6, <2>7 DEF CratesNext
<1> QED
  BY <1>1, <1>2 DEF CratesInv

(* Ownership and the handles in use stay as they should in every state of    *)
(* the program.                                                              *)
THEOREM CratesInvariant == CratesSpec => []CratesInv
BY CratesInvInit, CratesInvInductive, PTL DEF CratesSpec

(* No wrapper ever hands the library a context that was deleted or a pool    *)
(* that was shut down, nor a null pointer: the methods of EthKzgContext pass *)
(* their own context and the pool they borrow, the point evaluation the      *)
(* context it is given, the parallel batch verification and the engine a     *)
(* pool that is alive.  The inputs of the calls do not matter.               *)
THEOREM NativeHandlesLive == CratesSpec => []HandlesLive
<1>1. CratesInv => HandlesLive
  BY DEF CratesInv
<1> QED
  BY <1>1, CratesInvariant, PTL
=============================================================================
