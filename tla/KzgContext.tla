----------------------------- MODULE KzgContext -----------------------------
(* Who owns what in the constantine-ethereum-kzg crate: EthKzgContextBuilder *)
(* and EthKzgContext values on the Rust side, the heap-allocated             *)
(* EthereumKZGContext behind their raw pointer, and the Threadpool they may  *)
(* borrow.  The builder's methods take `self' by value: an object that is    *)
(* consumed is replaced in place by what the method returns.                 *)
EXTENDS Integers, FiniteSets

CONSTANTS Objs,     \* Rust values: a builder or the context built from it
          Handles,  \* native contexts: one per allocation that load_from_file keeps
          Pools,    \* Threadpool values
          Nil

ASSUME NilAssumption == Nil \notin Handles /\ Nil \notin Pools
(* A context and a threadpool are different allocations.                     *)
ASSUME PoolAssumption == Handles \cap Pools = {}

VARIABLES kind,    \* kind[o]: none, builder or context
          ctx,     \* ctx[o]: its raw pointer
          tp,      \* tp[o]: the Threadpool it borrows
          native,  \* native[h]: unused, live or deleted
          tables,  \* handles whose polyphase bank holds precomputed tables
          pool,    \* pool[p]: unused, live or shutdown
          lost     \* live native contexts whose builder went away

ctxVars == <<kind, ctx, tp, native, tables, pool, lost>>

(* What a trusted setup path can lead to: a NUL byte in it, a file that does *)
(* not open, one that load_ckzg4844 rejects, a valid setup.                  *)
Paths == {"nul", "missing", "invalid", "good"}

(* Base groups and window bits: precomputation wants both to be positive.    *)
Precompute(t, b) == t > 0 /\ b > 0

TypeOK ==
  /\ kind \in [Objs -> {"none", "builder", "context"}]
  /\ ctx \in [Objs -> Handles \union {Nil}]
  /\ tp \in [Objs -> Pools \union {Nil}]
  /\ native \in [Handles -> {"unused", "live", "deleted"}]
  /\ tables \subseteq Handles
  /\ pool \in [Pools -> {"unused", "live", "shutdown"}]
  /\ lost \subseteq Handles

Init ==
  /\ kind = [o \in Objs |-> "none"]
  /\ ctx = [o \in Objs |-> Nil]
  /\ tp = [o \in Objs |-> Nil]
  /\ native = [h \in Handles |-> "unused"]
  /\ tables = {}
  /\ pool = [p \in Pools |-> "unused"]
  /\ lost = {}

-----------------------------------------------------------------------------
(* A faulty variant: a pointer that was never set is abandoned as well.      *)
AbandonNil(o) == lost' = lost \union {ctx[o]}

(* The builder's pointer has no destructor: what it points at is abandoned.  *)
Abandon(o) == lost' = lost \union ({ctx[o]} \ {Nil})

(* `self' is consumed and nothing takes its place.                           *)
Consumed(o) ==
  /\ kind' = [kind EXCEPT ![o] = "none"]
  /\ ctx' = [ctx EXCEPT ![o] = Nil]
  /\ tp' = [tp EXCEPT ![o] = Nil]

(* ctt_eth_kzg_context_new and _new_with_precompute, when the file loads:    *)
(* one allocation, and tables in its bank when t and b ask for them.  On any *)
(* other path they keep no memory: a file that does not open is noticed      *)
(* before the allocation, an invalid one frees it and resets the pointer.    *)
NativeNew(h, precompute) ==
  /\ native[h] = "unused"
  /\ native' = [native EXCEPT ![h] = "live"]
  /\ tables' = IF precompute THEN tables \union {h} ELSE tables \ {h}

(* ctt_eth_kzg_context_delete: the tables, if the bank has them, then the    *)
(* context.                                                                  *)
NativeDelete(h) ==
  /\ native' = [native EXCEPT ![h] = "deleted"]
  /\ tables' = tables \ {h}

-----------------------------------------------------------------------------
(* EthKzgContext::builder().                                                 *)
Builder(o) ==
  /\ kind[o] = "none"
  /\ kind' = [kind EXCEPT ![o] = "builder"]
  /\ UNCHANGED <<ctx, tp, native, tables, pool, lost>>

(* A faulty variant: the context of an invalid file is not freed.            *)
LoadKeepsInvalid(o, path, precompute) ==
  /\ kind[o] = "builder"
  /\ \/ /\ path = "good"
        /\ \E h \in Handles : /\ NativeNew(h, precompute)
                              /\ ctx' = [ctx EXCEPT ![o] = h]
        /\ UNCHANGED <<kind, tp>>
     \/ /\ path = "invalid"
        /\ \E h \in Handles : NativeNew(h, FALSE)
        /\ Consumed(o)
     \/ /\ path \notin {"good", "invalid"}
        /\ Consumed(o)
        /\ UNCHANGED <<native, tables>>
  /\ Abandon(o)
  /\ UNCHANGED pool

(* The common part of the two builder methods that load a setup.  Either the *)
(* file loads and the builder continues with the new pointer, or the method  *)
(* returns Err and the builder is gone; a pointer it already had is          *)
(* overwritten or goes with it.                                              *)
Load(o, path, precompute) ==
  /\ kind[o] = "builder"
  /\ \/ /\ path = "good"
        /\ \E h \in Handles : /\ NativeNew(h, precompute)
                              /\ ctx' = [ctx EXCEPT ![o] = h]
        /\ UNCHANGED <<kind, tp>>
     \/ /\ path # "good"
        /\ Consumed(o)
        /\ UNCHANGED <<native, tables>>
  /\ Abandon(o)
  /\ UNCHANGED pool

load_trusted_setup(o, path) == Load(o, path, FALSE)

load_trusted_setup_with_precompute(o, path, t, b) == Load(o, path, Precompute(t, b))

set_threadpool(o, p) ==
  /\ kind[o] = "builder"
  /\ pool[p] = "live"
  /\ tp' = [tp EXCEPT ![o] = p]
  /\ UNCHANGED <<kind, ctx, native, tables, pool, lost>>

(* build() fails on a builder that never loaded a setup.                     *)
build(o) ==
  /\ kind[o] = "builder"
  /\ \/ /\ ctx[o] # Nil
        /\ kind' = [kind EXCEPT ![o] = "context"]
        /\ UNCHANGED <<ctx, tp>>
     \/ /\ ctx[o] = Nil
        /\ Consumed(o)
  /\ UNCHANGED <<native, tables, pool, lost>>

(* EthKzgContext::load_trusted_setup: builder, load and build in one call.   *)
(* Its expect() cannot fire: a load that returned Ok has set the pointer.  A *)
(* path that does not load leaves nothing behind, and is no step.            *)
context_load_trusted_setup(o, path) ==
  /\ kind[o] = "none"
  /\ path = "good"
  /\ \E h \in Handles : /\ NativeNew(h, FALSE)
                        /\ ctx' = [ctx EXCEPT ![o] = h]
  /\ kind' = [kind EXCEPT ![o] = "context"]
  /\ UNCHANGED <<tp, pool, lost>>

(* A builder that goes out of scope: there is no impl Drop for it.           *)
drop_builder(o) ==
  /\ kind[o] = "builder"
  /\ Consumed(o)
  /\ Abandon(o)
  /\ UNCHANGED <<native, tables, pool>>

(* A faulty variant: the context can be used after it was deleted.           *)
drop_context_keeps(o) ==
  /\ kind[o] = "context"
  /\ NativeDelete(ctx[o])
  /\ UNCHANGED <<kind, ctx, tp, pool, lost>>

(* impl Drop for EthKzgContext.                                              *)
drop_context(o) ==
  /\ kind[o] = "context"
  /\ NativeDelete(ctx[o])
  /\ Consumed(o)
  /\ UNCHANGED <<pool, lost>>

(* Threadpool::new.  Its doc comment lets a thread have one active pool.     *)
threadpool_new(p) ==
  /\ pool[p] = "unused"
  /\ \A q \in Pools : pool[q] # "live"
  /\ pool' = [pool EXCEPT ![p] = "live"]
  /\ UNCHANGED <<kind, ctx, tp, native, tables, lost>>

(* A faulty variant: the reference has no lifetime.                          *)
threadpool_drop_borrowed(p) ==
  /\ pool[p] = "live"
  /\ pool' = [pool EXCEPT ![p] = "shutdown"]
  /\ UNCHANGED <<kind, ctx, tp, native, tables, lost>>

(* impl Drop for Threadpool.  The lifetime 'tp of whoever holds a reference  *)
(* keeps the compiler from accepting a drop while the reference lives.       *)
threadpool_drop(p) ==
  /\ pool[p] = "live"
  /\ \A o \in Objs : tp[o] # p
  /\ pool' = [pool EXCEPT ![p] = "shutdown"]
  /\ UNCHANGED <<kind, ctx, tp, native, tables, lost>>

CtxNext ==
  \/ \E o \in Objs :
       \/ Builder(o)
       \/ \E path \in Paths : load_trusted_setup(o, path)
       \/ \E path \in Paths, t \in {0, 64}, b \in {0, 12} :
            load_trusted_setup_with_precompute(o, path, t, b)
       \/ \E p \in Pools : set_threadpool(o, p)
       \/ build(o)
       \/ \E path \in Paths : context_load_trusted_setup(o, path)
       \/ drop_builder(o)
       \/ drop_context(o)
  \/ \E p \in Pools : threadpool_new(p) \/ threadpool_drop(p)

CtxSpec == Init /\ [][CtxNext]_ctxVars

-----------------------------------------------------------------------------
Owned == {ctx[o] : o \in {x \in Objs : ctx[x] # Nil}}
Live == {h \in Handles : native[h] = "live"}

(* Every pointer a Rust value holds leads to a context that is allocated and *)
(* not yet deleted, a context value always has one, and no two values hold   *)
(* the same: so neither a call nor a second Drop meets freed memory.         *)
NoDanglingContext ==
  /\ \A o \in Objs : ctx[o] # Nil => native[ctx[o]] = "live"
  /\ \A o \in Objs : kind[o] = "context" => ctx[o] # Nil
  /\ \A o1, o2 \in Objs : ctx[o1] = ctx[o2] /\ ctx[o1] # Nil => o1 = o2

(* The books balance: an allocated context is held by a Rust value or was    *)
(* abandoned with a builder, never both, and tables exist for allocated      *)
(* contexts only.  Contexts leak through builders and in no other way.       *)
NativeAccounting ==
  /\ Live = Owned \union lost
  /\ Owned \intersect lost = {}
  /\ tables \subseteq Live
=============================================================================
