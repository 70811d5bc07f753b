---------------------------- MODULE MCRustCrates ----------------------------
(* Objects and native handles are interchangeable.                           *)
EXTENDS RustCrates

Symmetry == Permutations(Objs) \union Permutations(Handles)
=============================================================================
