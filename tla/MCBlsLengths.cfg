SPECIFICATION CratesSpec
CONSTANTS
  Objs = {o1}
  Handles = {h1}
  Pools = {p1}
  Nil = Nil
  Order = 5
  EvmOrder = 3
  MaxInt = 127
  MaxItems = 2
INVARIANT ReadsInsideSlices
