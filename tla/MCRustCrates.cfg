SPECIFICATION CratesSpec
CONSTANTS
  Objs = {o1, o2}
  Handles = {h1, h2}
  Pools = {p1}
  Nil = Nil
  Order = 5
  EvmOrder = 3
  MaxInt = 127
  MaxItems = 2
SYMMETRY Symmetry
INVARIANTS
  TypeOK
  NoDanglingContext
  NativeAccounting
  HandlesLive
  BuffersFit
  OutputsWritten
  LayoutsHold
  BindingsAgree
  KzgAnswers
  CodecsCanonical
  SignaturesAgree
  EvmAnswers
