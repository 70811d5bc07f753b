------------------------------ MODULE FfiTypes ------------------------------
(* The vocabulary of the FFI tables: fields, structs and parameters of the   *)
(* declarations that constantine-sys makes for the native library, and the   *)
(* rules by which rustc lays a #[repr(C)] struct out.                        *)
EXTENDS Integers, Sequences, SequencesExt, FiniteSetsExt

(* A #[repr(C)] struct: its fields (`of' and how many of them, 1 for a plain *)
(* field, n for an array), the argument of a #[repr(align(N))] (1 when there *)
(* is none), and what the const block after it asserts: size_of, align_of    *)
(* and the offset_of each field.                                             *)
Field(of, n) == [of |-> of, n |-> n]
Struct(repr_align, fields, size, align, offsets) ==
  [fields |-> fields, repr_align |-> repr_align,
   size |-> size, align |-> align, offsets |-> offsets]

(* The shapes the generated structs have: an array of n elements, a point in *)
(* affine coordinates x, y and one in projective coordinates x, y, z.        *)
Array(of, n, size, align) == Struct(1, <<Field(of, n)>>, size, align, <<0>>)
Limbs(n, size, align) == Array("secret_word", n, size, align)
Bytes(n, size, align) == Array("byte", n, size, align)
Affine(of, size, align, y) ==
  Struct(1, <<Field(of, 1), Field(of, 1)>>, size, align, <<0, y>>)
Projective(of, size, align, y, z) ==
  Struct(1, <<Field(of, 1), Field(of, 1), Field(of, 1)>>, size, align, <<0, y, z>>)

(* Parameters of a prototype: *const T, *mut T, a value of type T.           *)
C(of) == [mode |-> "const", of |-> of]
M(of) == [mode |-> "mut", of |-> of]
V(of) == [mode |-> "value", of |-> of]

(* Tables with different names in one.                                       *)
Merged(tables) ==
  [x \in UNION {DOMAIN tables[i] : i \in DOMAIN tables} |->
     tables[CHOOSE i \in DOMAIN tables : x \in DOMAIN tables[i]][x]]

(* Sizes and alignments of the primitive types on a target whose pointers    *)
(* have `word' bytes.  u64 is 8-aligned on the 64-bit targets; on 32-bit     *)
(* ones it is 4- or 8-aligned (i686, armv7): `align64' says which.           *)
Primitive(word, align64) ==
  [u8          |-> [size |-> 1, align |-> 1],
   byte        |-> [size |-> 1, align |-> 1],
   u32         |-> [size |-> 4, align |-> 4],
   u64         |-> [size |-> 8, align |-> align64],
   usize       |-> [size |-> word, align |-> word],
   secret_word |-> [size |-> word, align |-> word],
   pointer     |-> [size |-> word, align |-> word]]

RoundUp(n, a) == ((n + a - 1) \div a) * a

(* Where a field ends: it starts at the end of the fields before it, rounded *)
(* up to its own alignment.  `T' gives size and alignment of every type by   *)
(* name.                                                                     *)
FieldEnds(T, fields) ==
  LET end[i \in 0..Len(fields)] ==
        IF i = 0 THEN 0
        ELSE RoundUp(end[i - 1], T[fields[i].of].align) + fields[i].n * T[fields[i].of].size
  IN  end
FieldOffsets(T, fields) ==
  [i \in 1..Len(fields) |->
     FieldEnds(T, fields)[i] - fields[i].n * T[fields[i].of].size]

(* Alignment of a struct: the largest of its fields' and of repr(align).     *)
(* Size: the end of the last field rounded up to that alignment.             *)
StructAlign(T, s) ==
  Max({s.repr_align} \union {T[s.fields[i].of].align : i \in 1..Len(s.fields)})
StructSize(T, s) ==
  RoundUp(FieldEnds(T, s.fields)[Len(s.fields)], StructAlign(T, s))
=============================================================================
