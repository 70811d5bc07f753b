----------------------------- MODULE RustCrates -----------------------------
(* A Rust program that uses the crates: it creates and drops threadpools,    *)
(* builders and contexts, and calls the functions of one of the crates.  The *)
(* values hold raw pointers and are neither Send nor Sync, so one thread     *)
(* does all of it and a call ends before anything it borrows can be dropped. *)
EXTENDS EthEvm, EthBls, CoreZal

VARIABLE crate   \* the crate this behaviour calls

program == <<crate, target>>
vars == <<program, call, ctxVars>>

LivePools == {p \in Pools : pool[p] = "live"}

CratesInit ==
  /\ Init
  /\ call = Compiling
  /\ target \in Builds
  /\ crate \in {"kzg", "bls", "evm", "msm"}

(* rustc evaluates the const blocks of constantine-sys for the target.       *)
Compile ==
  /\ call = Compiling
  /\ call' = NoCall
  /\ UNCHANGED <<program, ctxVars>>

(* Between calls: the lifecycle of the values.  Only the KZG methods and the *)
(* point evaluation precompile need a context, the BLS functions and the     *)
(* engine a threadpool, the other precompiles neither.                       *)
Contexts ==
  /\ crate = "kzg" /\ call = NoCall
  /\ CtxNext
  /\ UNCHANGED <<program, call>>
Threadpools ==
  /\ crate \in {"bls", "msm"} /\ call = NoCall
  /\ \E p \in Pools : threadpool_new(p) \/ threadpool_drop(p)
  /\ UNCHANGED <<program, call>>

(* A method uses its own object only.  All inputs are tried on an object     *)
(* that is alone, one input on an object beside others.                      *)
Alone(o) == \A x \in Objs \ {o} : kind[x] = "none"
Sample(o) ==
  /\ call = NoCall
  /\ kind[o] = "context"
  /\ \E par \in BOOLEAN : blob_to_kzg_commitment(o, par, zeroPoly)
  /\ UNCHANGED ctxVars
KzgCalls ==
  /\ crate = "kzg"
  /\ \E o \in Objs : \/ Alone(o) /\ (KzgCall(o) \/ PointEvaluationCall(o))
                     \/ ~Alone(o) /\ Sample(o)
  /\ UNCHANGED program
BlsCalls == crate = "bls" /\ BlsCall(LivePools) /\ UNCHANGED <<program, ctxVars>>
EvmCalls == crate = "evm" /\ EvmCall /\ UNCHANGED program
CoreCalls == crate = "msm" /\ CoreCall(LivePools) /\ UNCHANGED <<program, ctxVars>>

(* The wrapper returns to its caller.                                        *)
Return ==
  /\ Made
  /\ call' = NoCall
  /\ UNCHANGED <<program, ctxVars>>

CratesNext ==
  Compile \/ Contexts \/ Threadpools \/ KzgCalls \/ BlsCalls \/ EvmCalls \/ CoreCalls \/ Return

CratesSpec == CratesInit /\ [][CratesNext]_vars

-----------------------------------------------------------------------------
(* Native memory is only reached through handles that are live during the    *)
(* call: the context the method's object owns, the pool it borrows or owns.  *)
HandlesLive ==
  Made => \A i \in DOMAIN call.args : call.args[i].kind = "handle" =>
    LET h == call.args[i].v
    IN  IF h \in Pools THEN pool[h] = "live" ELSE h \in Live

(* Every call keeps the memory contract of the library, on the target at     *)
(* hand: what it reads and fills lies in the memory it is given.  Left out   *)
(* are the calls on lists of keys, messages and signatures that differ in    *)
(* length, and on MODEXP lengths that do not fit an int unless the function  *)
(* returns early, which do not.                                              *)
BuffersFit ==
  Made /\ call.fn # ""
    /\ (call.given.crate = "bls" => Alike(call.given.op, call.given.x))
    /\ (call.fn = "ctt_eth_evm_modexp" => Contained(call.given.in))
      => CallFits(api, call)
=============================================================================
