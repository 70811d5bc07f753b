------------------------------- MODULE RustFfi -------------------------------
(* The boundary between the Rust crates and the native library: the two      *)
(* generated tables of declarations, the layout rules they must obey, the    *)
(* conversion of a status code, and what it takes for a call through a raw   *)
(* pointer to be sound.                                                      *)
EXTENDS FfiTypes

CONSTANT MaxItems        \* bound on the lists that the calls are given
ASSUME MaxItemsAssumption == MaxItems \in Nat

VARIABLES call,    \* the wrapper call being answered, NoCall between calls
          target   \* what the program was compiled for

B64 == INSTANCE Bindings64
B32 == INSTANCE Bindings32

(* The repr(C) struct that the BLS crate passes where ctt_span is expected.  *)
CttSpan(T) ==
  LET s == Struct(1, <<Field("pointer", 1), Field("usize", 1)>>, 0, 0, <<>>)
  IN  [size |-> StructSize(T, s), align |-> StructAlign(T, s)]

(* What the two files declare: constants with the status enums, and structs  *)
(* with the prototypes.                                                      *)
Constants64 ==
  [consts |-> B64!consts,
   ctt_codec_scalar_status |-> B64!ctt_codec_scalar_status,
   ctt_codec_ecc_status |-> B64!ctt_codec_ecc_status,
   ctt_eth_bls_status |-> B64!ctt_eth_bls_status,
   ctt_eth_kzg_status |-> B64!ctt_eth_kzg_status,
   ctt_eth_trusted_setup_status |-> B64!ctt_eth_trusted_setup_status,
   ctt_eth_trusted_setup_format |-> B64!ctt_eth_trusted_setup_format,
   ctt_evm_status |-> B64!ctt_evm_status]
Constants32 ==
  [consts |-> B32!consts,
   ctt_codec_scalar_status |-> B32!ctt_codec_scalar_status,
   ctt_codec_ecc_status |-> B32!ctt_codec_ecc_status,
   ctt_eth_bls_status |-> B32!ctt_eth_bls_status,
   ctt_eth_kzg_status |-> B32!ctt_eth_kzg_status,
   ctt_eth_trusted_setup_status |-> B32!ctt_eth_trusted_setup_status,
   ctt_eth_trusted_setup_format |-> B32!ctt_eth_trusted_setup_format,
   ctt_evm_status |-> B32!ctt_evm_status]
Declarations64 ==
  [structs |-> B64!structs, prototypes |-> B64!prototypes, opaque |-> B64!Opaque,
   word |-> B64!word]
Declarations32 ==
  [structs |-> B32!structs, prototypes |-> B32!prototypes, opaque |-> B32!Opaque,
   word |-> B32!word]

(* A faulty variant: the 64-bit declarations on every target.                *)
Include64(word, from64, from32) == from64

(* lib.rs includes bindings64.rs or bindings32.rs by target_pointer_width.   *)
Include(word, from64, from32) == IF word = 8 THEN from64 ELSE from32

(* The targets: 32-bit ones differ in the alignment of u64.                  *)
Builds == {[word |-> 8, align64 |-> 8], [word |-> 4, align64 |-> 4], [word |-> 4, align64 |-> 8]}

(* The constants and the declarations on the target at hand.  `types' gives  *)
(* size and alignment of every type that a declaration or a wrapper names.   *)
constants == Include(target.word, Constants64, Constants32)
TypesOf(b, declared) ==
  LET primitive == Primitive(b.word, b.align64)
      structs == [s \in DOMAIN declared.structs |->
                    [size |-> declared.structs[s].size, align |-> declared.structs[s].align]]
  IN  Merged(<<primitive, structs, [CttSpan |-> CttSpan(primitive)]>>)
Targets ==
  [b \in Builds |->
     LET declared == Include(b.word, Declarations64, Declarations32)
     IN  [types |-> TypesOf(b, declared), structs |-> declared.structs,
          prototypes |-> declared.prototypes, opaque |-> declared.opaque, word |-> declared.word]]
api == Targets[target]

-----------------------------------------------------------------------------
(* Status codes cross the boundary as one byte: the ordinal in the Nim enum  *)
(* on the native side, the discriminant of the Rust enum on the other.       *)
CttCodecScalarStatus ==
  <<"cttCodecScalar_Success", "cttCodecScalar_Zero",
    "cttCodecScalar_ScalarLargerThanCurveOrder">>
CttCodecEccStatus ==
  <<"cttCodecEcc_Success", "cttCodecEcc_InvalidEncoding",
    "cttCodecEcc_CoordinateGreaterThanOrEqualModulus",
    "cttCodecEcc_PointNotOnCurve", "cttCodecEcc_PointNotInSubgroup",
    "cttCodecEcc_PointAtInfinity">>
cttEthKzgStatus ==
  <<"cttEthKzg_Success", "cttEthKzg_VerificationFailure",
    "cttEthKzg_InputsLengthsMismatch", "cttEthKzg_ScalarZero",
    "cttEthKzg_ScalarLargerThanCurveOrder", "cttEthKzg_EccInvalidEncoding",
    "cttEthKzg_EccCoordinateGreaterThanOrEqualModulus",
    "cttEthKzg_EccPointNotOnCurve", "cttEthKzg_EccPointNotInSubgroup",
    "cttEthKzg_CellIndicesNotAscending">>
cttEthBlsStatus ==
  <<"cttEthBls_Success", "cttEthBls_VerificationFailure",
    "cttEthBls_InputsLengthsMismatch", "cttEthBls_ZeroLengthAggregation",
    "cttEthBls_PointAtInfinity">>
TrustedSetupStatus == <<"tsSuccess", "tsMissingOrInaccessibleFile", "tsInvalidFile">>
CttEVMStatus ==
  <<"cttEVM_Success", "cttEVM_InvalidInputSize", "cttEVM_InvalidOutputSize",
    "cttEVM_IntLargerThanModulus", "cttEVM_PointNotOnCurve",
    "cttEVM_PointNotInSubgroup", "cttEVM_VerificationFailure",
    "cttEVM_MalformedSignature">>

(* The Rust variant that a native status is read as.                         *)
FromNative(rustEnum, nimEnum, status) ==
  LET byte == CHOOSE k \in DOMAIN nimEnum : nimEnum[k] = status
  IN  CHOOSE v \in DOMAIN rustEnum : rustEnum[v] = byte - 1

(* The native functions check their inputs in order and stop at the first    *)
(* that fails; `ok' is the status that stands for "no error".                *)
FirstError(ok, statuses) ==
  LET bad == {i \in DOMAIN statuses : statuses[i] # ok}
  IN  IF bad = {} THEN ok ELSE statuses[Min(bad)]

(* The elements of a list added up in the integers modulo `order', which     *)
(* stand for a group of points: the sums of the first k, and the whole sum.  *)
PartialSums(list, order) ==
  LET first[k \in 0..Len(list)] == IF k = 0 THEN 0 ELSE (first[k - 1] + list[k]) % order
  IN  first
SumOf(list, order) == PartialSums(list, order)[Len(list)]

-----------------------------------------------------------------------------
(* Arguments a wrapper passes: memory for n values of a type, which it owns  *)
(* or borrows, an opaque pointer it got from the library, a plain value.     *)
Memory(n, of)  == [kind |-> "memory", n |-> n, of |-> of]
ByteArray(n)   == Memory(n, "u8")
Slice(n, size) == Memory(n * size, "u8")
Handle(h)      == [kind |-> "handle", v |-> h]
Value(v)       == [kind |-> "value", v |-> v]

(* A call is sound on a target when the arguments match the prototype and,   *)
(* for each pointer, the memory behind it is aligned for the pointee and     *)
(* holds every element the native function reads; memory the library is to   *)
(* fill is filled to its last byte, or assume_init would read uninitialised  *)
(* bytes.  `reach' is how many elements the library touches through the      *)
(* parameter (0 for values and handles).                                     *)
Untyped == {"c_void", "c_char"}
Fits(t, param, arg, reach) ==
  IF param.mode = "value" THEN arg.kind = "value"
  ELSE IF param.of \in t.opaque \ Untyped THEN arg.kind = "handle"
  ELSE LET pointee == t.types[IF param.of \in Untyped THEN "byte" ELSE param.of]
           bytes == arg.n * t.types[arg.of].size
           used == reach * pointee.size
       IN  /\ arg.kind = "memory"
           /\ t.types[arg.of].align % pointee.align = 0
           /\ IF param.mode = "mut" THEN bytes = used ELSE bytes >= used
CallFits(t, c) ==
  LET params == t.prototypes[c.fn]
  IN  /\ Len(params) = Len(c.args)
      /\ \A i \in 1..Len(params) : Fits(t, params[i], c.args[i], c.reach[i])

(* One call of a wrapper: the native function with its arguments and how far *)
(* it reaches through each (fn is "" when the wrapper returned or panicked   *)
(* before it), the answer given to the Rust caller, which of the arguments   *)
(* the library filled and which of them the wrapper hands out as             *)
(* initialised, and `given', what the caller asked, for the properties.      *)
NoCall == [fn |-> ""]
Compiling == [fn |-> "rustc"]
Call(fn, args, reach, filled, out, ret, given) ==
  [fn |-> fn, args |-> args, reach |-> reach, filled |-> filled, out |-> out,
   ret |-> ret, given |-> given]
NotMade(ret, given) == Call("", <<>>, <<>>, {}, {}, ret, given)
Made == call \notin {NoCall, Compiling}

Ok(v)  == [tag |-> "Ok", v |-> v]
Err(s) == [tag |-> "Err", v |-> s]
Panic  == [tag |-> "Panic", v |-> ""]

-----------------------------------------------------------------------------
(* The wrappers allocate their results uninitialised and promise that they   *)
(* are filled with assume_init: what they hand out, the library has written. *)
OutputsWritten == Made => call.out \subseteq call.filled

(* The crate compiles: the layout that each const block asserts is the one   *)
(* that repr(C) gives on the target, with the offsets, the alignment and the *)
(* size with its trailing padding.                                           *)
LayoutsHold ==
  call = Compiling => \A t \in {api} : \A name \in DOMAIN t.structs :
    LET s == t.structs[name]
    IN  /\ s.offsets = FieldOffsets(t.types, s.fields)
        /\ s.align = StructAlign(t.types, s)
        /\ s.size = StructSize(t.types, s)

(* A program sees one API whatever it is compiled for: the same functions    *)
(* with the same parameters, the same constants and status codes, and        *)
(* structs of the same number of bytes, except ctt_span, which holds a       *)
(* pointer and a length.                                                     *)
BindingsAgree ==
  call = Compiling =>
    /\ constants = Constants64
    /\ \A here \in {api}, there \in Range(Targets) :
         /\ here.prototypes = there.prototypes
         /\ here.opaque = there.opaque
         /\ DOMAIN here.structs = DOMAIN there.structs
         /\ \A s \in DOMAIN here.structs :
              IF s = "ctt_span"
              THEN here.structs[s].size * there.word = there.structs[s].size * here.word
              ELSE here.structs[s].size = there.structs[s].size
=============================================================================
