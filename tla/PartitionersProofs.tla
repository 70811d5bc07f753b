------------------------- MODULE PartitionersProofs -------------------------
(***************************************************************************)
(* Proofs that the partitioners tile a range of any length, and that the   *)
(* one with bounds for the chunk size keeps to them.                       *)
(***************************************************************************)
EXTENDS Partitioners, TLAPS

-----------------------------------------------------------------------------
(* Arithmetic. *)

LEMMA MinOfTwo ==
    ASSUME NEW a \in Int, NEW b \in Int
    PROVE  Min({a, b}) = IF a <= b THEN a ELSE b
<1>1. \E x \in {a, b} : \A y \in {a, b} : x <= y
  <2>1. CASE a <= b  BY <2>1
  <2>2. CASE ~(a <= b)  BY <2>2
  <2> QED  BY <2>1, <2>2
<1>2. Min({a, b}) \in {a, b} /\ \A y \in {a, b} : Min({a, b}) <= y  BY <1>1 DEF Min
<1>3. Min({a, b}) \in Int  BY <1>2
<1> QED  BY <1>2, <1>3

LEMMA MaxOfTwo ==
    ASSUME NEW a \in Int, NEW b \in Int
    PROVE  Max({a, b}) = IF a >= b THEN a ELSE b
<1>1. \E x \in {a, b} : \A y \in {a, b} : x >= y
  <2>1. CASE a >= b  BY <2>1
  <2>2. CASE ~(a >= b)  BY <2>2
  <2> QED  BY <2>1, <2>2
<1>2. Max({a, b}) \in {a, b} /\ \A y \in {a, b} : Max({a, b}) >= y  BY <1>1 DEF Max
<1>3. Max({a, b}) \in Int  BY <1>2
<1> QED  BY <1>2, <1>3

\* Quotient and remainder.
LEMMA DivMod ==
    ASSUME NEW n \in Nat, NEW c \in Nat \ {0}
    PROVE  /\ n \div c \in Nat /\ n % c \in 0 .. c - 1
           /\ n = (n \div c) * c + (n % c)
BY SMT

LEMMA MulNat ==
    ASSUME NEW a \in Nat, NEW b \in Nat
    PROVE  a * b \in Nat
BY SMT

LEMMA MulMono ==
    ASSUME NEW a \in Int, NEW b \in Int, NEW c \in Nat, a <= b
    PROVE  a * c <= b * c /\ c * a <= c * b
BY SMT

\* Division of a product and more.
LEMMA DivLower ==
    ASSUME NEW n \in Nat, NEW c \in Nat \ {0}, NEW a \in Nat, a * c <= n
    PROVE  a <= n \div c
<1>1. n \div c \in Nat /\ n % c \in 0 .. c - 1 /\ n = (n \div c) * c + (n % c)  BY DivMod
<1> SUFFICES ASSUME n \div c + 1 <= a PROVE FALSE  BY <1>1
<1>2. (n \div c + 1) * c <= a * c  BY <1>1, MulMono
<1>3. (n \div c + 1) * c = (n \div c) * c + c  BY <1>1, SMT
<1>4. (n \div c) * c \in Nat /\ a * c \in Nat  BY <1>1, MulNat
<1> QED  BY <1>1, <1>2, <1>3, <1>4

\* ceilDiv rounds up.
LEMMA CeilDivBounds ==
    ASSUME NEW n \in Nat, NEW c \in Nat \ {0}
    PROVE  /\ ceilDiv(n, c) \in Nat
           /\ n <= ceilDiv(n, c) * c
           /\ n # 0 => ceilDiv(n, c) >= 1 /\ (ceilDiv(n, c) - 1) * c < n
<1> DEFINE m == n + c - 1
           q == m \div c
<1>1. m \in Nat  OBVIOUS
<1>2. ceilDiv(n, c) = q  BY DEF ceilDiv
<1> HIDE DEF m
<1>3. q \in Nat /\ m % c \in 0 .. c - 1 /\ m = q * c + (m % c)  BY <1>1, DivMod
<1> HIDE DEF q
<1>4. q * c \in Nat  BY <1>3, MulNat
<1>5. n <= q * c /\ q * c <= n + c - 1  BY <1>3, <1>4 DEF m
<1>6. (q - 1) * c = q * c - c  BY <1>3, SMT
<1>7. n # 0 => q # 0
  <2>1. q = 0 => q * c = 0  BY SMT
  <2> QED  BY <1>5, <2>1
<1> QED  BY <1>2, <1>3, <1>4, <1>5, <1>6, <1>7
-----------------------------------------------------------------------------
(* A balanced partition of n steps from 0 into c chunks. *)

\* Chunk j, counted from 0, as the code means it: the first n % c chunks are one larger.
Size(n, c, j) == (n \div c) + (IF j < n % c THEN 1 ELSE 0)
First(n, c, j) == (n \div c) * j + (IF j < n % c THEN j ELSE n % c)

\* The chunks in closed form.  The bound that items puts on a size never bites.
LEMMA ChunkBounds ==
    ASSUME NEW n \in Nat, NEW c \in Nat \ {0}, NEW j \in 0 .. c - 1
    PROVE  /\ Size(n, c, j) \in Nat /\ First(n, c, j) \in Nat
           /\ First(n, c, j) + Size(n, c, j) = IF j = c - 1 THEN n ELSE First(n, c, j + 1)
           /\ Size(n, c, j) <= n - First(n, c, j)
           /\ Size(n, c, j) \in {n \div c, n \div c + 1}
           /\ n % c = 0 => Size(n, c, j) = n \div c
<1> DEFINE b == n \div c
           r == n % c
<1>1. b \in Nat /\ r \in 0 .. c - 1 /\ n = b * c + r  BY DivMod
<1>2. /\ Size(n, c, j) = b + (IF j < r THEN 1 ELSE 0)
      /\ First(n, c, j) = b * j + (IF j < r THEN j ELSE r)
      /\ First(n, c, j + 1) = b * (j + 1) + (IF j + 1 < r THEN j + 1 ELSE r)
  BY DEF Size, First
<1> HIDE DEF b, r
<1>3. b * j \in Nat /\ b * c \in Nat  BY <1>1, MulNat
<1>4. b * (j + 1) = b * j + b  BY <1>1, SMT
<1>5. b * (j + 1) <= b * c  BY <1>1, MulMono
<1>6. j = c - 1 => b * (j + 1) = b * c  OBVIOUS
<1>7. /\ Size(n, c, j) \in Nat /\ First(n, c, j) \in Nat
      /\ First(n, c, j) + Size(n, c, j) = IF j = c - 1 THEN n ELSE First(n, c, j + 1)
  <2>1. CASE j < r  BY <1>1, <1>2, <1>3, <1>4, <1>6, <2>1
  <2>2. CASE ~(j < r)  BY <1>1, <1>2, <1>3, <1>4, <1>6, <2>2
  <2> QED  BY <2>1, <2>2
<1>8. Size(n, c, j) <= n - First(n, c, j)
  <2>1. CASE j < r  BY <1>1, <1>2, <1>3, <1>4, <1>5, <2>1
  <2>2. CASE ~(j < r)  BY <1>1, <1>2, <1>3, <1>4, <1>5, <2>2
  <2> QED  BY <2>1, <2>2
<1>9. Size(n, c, j) \in {b, b + 1} /\ (r = 0 => Size(n, c, j) = b)  BY <1>1, <1>2
<1> QED  BY <1>7, <1>8, <1>9 DEF b, r

LEMMA ItemsAre ==
    ASSUME NEW n \in Nat, NEW c \in Nat \ {0}
    PROVE  LET chunks == items(ChunkDescriptor(0, n, c))
           IN  /\ chunks = [k \in 1 .. c |-> [start |-> First(n, c, k - 1),
                                              size |-> Size(n, c, k - 1)]]
               /\ Len(chunks) = c
               /\ DOMAIN chunks = 1 .. c
<1> DEFINE d == ChunkDescriptor(0, n, c)
           At(k) == [start |-> First(n, c, k - 1), size |-> Size(n, c, k - 1)]
           b == n \div c
           r == n % c
           offset(k) == 0 + (b + (IF k - 1 < r THEN 1 ELSE 0)) * (k - 1)
                          + (IF k - 1 < r THEN 0 ELSE r)
           bounded(k) == Min({b + (IF k - 1 < r THEN 1 ELSE 0), n - offset(k)})
<1>1. b \in Nat /\ r \in 0 .. c - 1  BY DivMod
<1>2. items(d) = [k \in 1 .. c |-> [start |-> offset(k), size |-> bounded(k)]]
  BY DEF items, ChunkDescriptor
<1>3. ASSUME NEW k \in 1 .. c
      PROVE  offset(k) = First(n, c, k - 1) /\ bounded(k) = Size(n, c, k - 1)
             /\ First(n, c, k - 1) \in Nat /\ Size(n, c, k - 1) \in Nat
  <2>1. k - 1 \in 0 .. c - 1  OBVIOUS
  <2>2. First(n, c, k - 1) = b * (k - 1) + (IF k - 1 < r THEN k - 1 ELSE r)
        /\ Size(n, c, k - 1) = b + (IF k - 1 < r THEN 1 ELSE 0)
    BY DEF First, Size
  <2>3. b * (k - 1) \in Nat /\ (b + 1) * (k - 1) = b * (k - 1) + (k - 1) /\ b + 0 = b
    <3>1. k - 1 \in Nat  OBVIOUS
    <3> HIDE DEF b
    <3> QED  BY <1>1, <3>1, SMT
  <2>4. offset(k) = First(n, c, k - 1)
    <3> HIDE DEF b, r
    <3>1. CASE k - 1 < r  BY <1>1, <2>2, <2>3, <3>1
    <3>2. CASE ~(k - 1 < r)  BY <1>1, <2>2, <2>3, <3>2
    <3> QED  BY <3>1, <3>2
  <2>5. /\ First(n, c, k - 1) \in Nat /\ Size(n, c, k - 1) \in Nat
        /\ Size(n, c, k - 1) <= n - First(n, c, k - 1)
    BY <2>1, ChunkBounds
  <2>6. bounded(k) = Min({Size(n, c, k - 1), n - First(n, c, k - 1)})
    <3> HIDE DEF b, r, offset
    <3> QED  BY <2>2, <2>4
  <2>7. bounded(k) = Size(n, c, k - 1)
    <3> HIDE DEF bounded
    <3> QED  BY <2>5, <2>6, MinOfTwo
  <2> HIDE DEF b, r, offset, bounded
  <2> QED  BY <2>4, <2>5, <2>7
<1> HIDE DEF b, r, offset, bounded
<1>4. \A k \in 1 .. c : [start |-> offset(k), size |-> bounded(k)] = At(k)  BY <1>3
<1>5. items(d) = [k \in 1 .. c |-> At(k)]
  <2> HIDE DEF At, d
  <2> QED  BY <1>2, <1>4
<1>6. \A k \in 1 .. c : At(k) \in [start : Nat, size : Nat]  BY <1>3
<1>7. items(d) \in [1 .. c -> [start : Nat, size : Nat]]
  <2> HIDE DEF At, d
  <2> QED  BY <1>5, <1>6
<1>8. Len(items(d)) = c /\ DOMAIN items(d) = 1 .. c
  <2> HIDE DEF d
  <2> QED  BY <1>7
<1> QED  BY <1>5, <1>8

LEMMA BalancedTiles ==
    ASSUME NEW n \in Nat, NEW c \in Nat \ {0}
    PROVE  LET chunks == items(ChunkDescriptor(0, n, c))
           IN  /\ Tiles(chunks, 0, n)
               /\ \A k \in DOMAIN chunks : /\ chunks[k].size \in {n \div c, n \div c + 1}
                                           /\ n % c = 0 => chunks[k].size = n \div c
<1> DEFINE chunks == items(ChunkDescriptor(0, n, c))
           b == n \div c
<1>1. Len(chunks) = c /\ DOMAIN chunks = 1 .. c  BY ItemsAre
<1>2. \A k \in 1 .. c : chunks[k].start = First(n, c, k - 1) /\ chunks[k].size = Size(n, c, k - 1)
  <2>1. chunks = [k \in 1 .. c |-> [start |-> First(n, c, k - 1), size |-> Size(n, c, k - 1)]]
    BY ItemsAre
  <2> HIDE DEF chunks
  <2> QED  BY <2>1
<1>3. b \in Nat /\ n % c \in Nat  BY DivMod
<1> HIDE DEF chunks
<1>4. chunks # << >>  BY <1>1
<1>5. chunks[1].start = 0
  <2>1. chunks[1].start = First(n, c, 0)
    <3>1. chunks[1].start = First(n, c, 1 - 1) /\ 1 - 1 = 0  BY <1>2
    <3> QED  BY <3>1
  <2>2. First(n, c, 0) = b * 0 + (IF 0 < n % c THEN 0 ELSE n % c)  BY DEF First
  <2>3. b * 0 = 0  BY <1>3, SMT
  <2> QED  BY <1>3, <2>1, <2>2, <2>3
<1>6. ASSUME NEW k \in 1 .. c
      PROVE  chunks[k].start + chunks[k].size = IF k = Len(chunks) THEN n ELSE chunks[k + 1].start
  <2>1. k - 1 \in 0 .. c - 1 /\ (k - 1) + 1 = k /\ (k + 1) - 1 = k /\ (k - 1 = c - 1 <=> k = c)
    OBVIOUS
  <2>2. First(n, c, k - 1) + Size(n, c, k - 1) = IF k = c THEN n ELSE First(n, c, k)
    <3>1. First(n, c, k - 1) + Size(n, c, k - 1)
            = IF k - 1 = c - 1 THEN n ELSE First(n, c, (k - 1) + 1)
      BY <2>1, ChunkBounds, ZenonT(60)
    <3> QED  BY <2>1, <3>1
  <2>3. CASE k = c  BY <1>1, <1>2, <2>2, <2>3
  <2>4. CASE k # c
    <3>1. k + 1 \in 1 .. c  BY <2>4
    <3>2. chunks[k + 1].start = First(n, c, k)  BY <1>2, <2>1, <3>1
    <3> QED  BY <1>1, <1>2, <2>2, <2>4, <3>2
  <2> QED  BY <2>3, <2>4
<1>7. \A k \in 1 .. c : chunks[k].size \in {b, b + 1} /\ (n % c = 0 => chunks[k].size = b)
  <2> SUFFICES ASSUME NEW k \in 1 .. c
               PROVE  chunks[k].size \in {b, b + 1} /\ (n % c = 0 => chunks[k].size = b)
    OBVIOUS
  <2>1. k - 1 \in 0 .. c - 1  OBVIOUS
  <2>2. Size(n, c, k - 1) \in {b, b + 1} /\ (n % c = 0 => Size(n, c, k - 1) = b)
    BY <2>1, ChunkBounds
  <2> QED  BY <1>2, <2>2
<1>8. \A j, k \in 1 .. c : chunks[j].size <= chunks[k].size + 1
  <2> HIDE DEF b
  <2> QED  BY <1>3, <1>7
<1> QED  BY <1>1, <1>4, <1>5, <1>6, <1>7, <1>8 DEF Tiles, chunks

-----------------------------------------------------------------------------
(* The partition with bounds for the size of a chunk. *)

\* The number of chunks that balancedChunksPrioSize decides on.
Number(n, min, max, hint0) ==
    LET hint == Max({hint0, 1})
        base == n \div hint
        cutoff == n % hint
    IN  CASE base < min -> Max({n \div min, 1})
          [] base >= min /\ (base > max \/ (base = max /\ cutoff # 0)) -> ceilDiv(n, max)
          [] OTHER -> hint

LEMMA PrioSizeIs ==
    ASSUME NEW n \in Nat, NEW min, NEW max, NEW hint0
    PROVE  balancedChunksPrioSize(0, n, min, max, hint0)
             = ChunkDescriptor(0, n, Number(n, min, max, hint0))
<1>1. n - 0 = n  OBVIOUS
<1> QED  BY <1>1 DEF balancedChunksPrioSize, Number

\* The three ways to choose the number c of chunks.
Choice(n, min, max, hint, c) ==
    \/ n \div hint < min /\ c = IF n \div min >= 1 THEN n \div min ELSE 1
    \/ /\ n \div hint > max \/ (n \div hint = max /\ n % hint # 0)
       /\ c = ceilDiv(n, max)
    \/ /\ n \div hint >= min
       /\ n \div hint < max \/ (n \div hint = max /\ n % hint = 0)
       /\ c = hint

LEMMA NumberCases ==
    ASSUME NEW n \in Nat, NEW min \in Nat \ {0}, NEW max \in Nat, min <= max, NEW hint0 \in Nat
    PROVE  \E hint \in Nat \ {0} : Choice(n, min, max, hint, Number(n, min, max, hint0))
<1> DEFINE hint == Max({hint0, 1})
           base == n \div hint
           cutoff == n % hint
           c == Number(n, min, max, hint0)
<1>1. hint \in Nat \ {0}  BY MaxOfTwo
<1> HIDE DEF hint
<1>2. base \in Nat /\ cutoff \in Nat  BY <1>1, DivMod
<1>3. n \div min \in Nat /\ Max({n \div min, 1}) = IF n \div min >= 1 THEN n \div min ELSE 1
  <2>1. n \div min \in Nat  BY DivMod
  <2> QED  BY <2>1, MaxOfTwo
<1>4. c = CASE base < min -> Max({n \div min, 1})
            [] base >= min /\ (base > max \/ (base = max /\ cutoff # 0)) -> ceilDiv(n, max)
            [] OTHER -> hint
  BY DEF Number, hint
<1> HIDE DEF Choice, base, cutoff, c
<1>5. CASE base < min
  <2>1. c = Max({n \div min, 1})  BY <1>2, <1>4, <1>5
  <2> QED  BY <1>1, <1>3, <1>5, <2>1 DEF Choice, base, cutoff, c
<1>6. CASE base >= min /\ (base > max \/ (base = max /\ cutoff # 0))
  <2>1. c = ceilDiv(n, max)  BY <1>2, <1>4, <1>6
  <2> QED  BY <1>1, <1>6, <2>1 DEF Choice, base, cutoff, c
<1>7. CASE base >= min /\ ~(base > max \/ (base = max /\ cutoff # 0))
  <2>1. c = hint  BY <1>2, <1>4, <1>7
  <2>2. base < max \/ (base = max /\ cutoff = 0)  BY <1>2, <1>7
  <2> QED  BY <1>1, <1>7, <2>1, <2>2 DEF Choice, base, cutoff, c
<1> QED  BY <1>2, <1>5, <1>6, <1>7
LEMMA NumberPositive ==
    ASSUME NEW n \in Nat, NEW min \in Nat \ {0}, NEW max \in Nat, min <= max, NEW hint0 \in Nat
    PROVE  Number(n, min, max, hint0) \in Nat \ {0}
<1> DEFINE c == Number(n, min, max, hint0)
<1>1. PICK hint \in Nat \ {0} : Choice(n, min, max, hint, c)  BY NumberCases
<1> HIDE DEF c
<1>2. n \div min \in Nat  BY DivMod
<1>4. n \div hint \in Nat  BY DivMod
<1>3. ASSUME n \div hint >= max, c = ceilDiv(n, max)
      PROVE  c \in Nat \ {0}
  <2>1. n \div hint \in Nat /\ n % hint \in Nat /\ n = (n \div hint) * hint + (n % hint)
    BY DivMod
  <2>2. n # 0
    <3>1. 1 <= n \div hint  BY <1>3, <2>1
    <3>2. 1 * hint <= (n \div hint) * hint  BY <2>1, <3>1, MulMono
    <3>3. 1 * hint = hint /\ (n \div hint) * hint \in Nat  BY <2>1, MulNat
    <3> QED  BY <2>1, <3>2, <3>3
  <2>3. max \in Nat \ {0}  OBVIOUS
  <2>4. ceilDiv(n, max) \in Nat /\ ceilDiv(n, max) >= 1  BY <2>2, <2>3, CeilDivBounds
  <2> QED  BY <1>3, <2>4
<1>5. c \in Nat \ {0}  BY <1>1, <1>2, <1>3, <1>4 DEF Choice
<1> QED  BY <1>5 DEF c

\* c chunks of n steps have between min and max steps each.
Fits(n, c, min, max) ==
    /\ min <= n \div c
    /\ n \div c < max \/ (n \div c = max /\ n % c = 0)

LEMMA FitsIf ==
    ASSUME NEW n \in Nat, NEW c \in Nat \ {0}, NEW min \in Nat, NEW max \in Nat,
           c * min <= n, n <= c * max
    PROVE  Fits(n, c, min, max)
<1> DEFINE b == n \div c
           r == n % c
<1>1. b \in Nat /\ r \in 0 .. c - 1 /\ n = b * c + r  BY DivMod
<1>2. min <= b
  <2>1. min * c = c * min  BY SMT
  <2> QED  BY <2>1, DivLower
<1> HIDE DEF b, r
<1>3. b * c \in Nat /\ c * max \in Nat /\ c * max = max * c  BY <1>1, MulNat, SMT
<1>4. CASE b < max  BY <1>2, <1>4 DEF Fits, b, r
<1>5. CASE b = max
  <2>1. r = 0  BY <1>1, <1>3, <1>5
  <2> QED  BY <1>2, <1>5, <2>1 DEF Fits, b, r
<1>6. CASE b > max
  <2>1. (max + 1) * c <= b * c  BY <1>1, <1>6, MulMono
  <2>2. (max + 1) * c = max * c + c  BY SMT
  <2> QED  BY <1>1, <1>3, <2>1, <2>2
<1> QED  BY <1>1, <1>4, <1>5, <1>6

LEMMA NumberFits ==
    ASSUME NEW n \in Nat, NEW min \in Nat \ {0}, NEW max \in Nat, min <= max, NEW hint0 \in Nat,
           n >= min, max >= min + ceilDiv(min - 1, n \div min)
    PROVE  Fits(n, Number(n, min, max, hint0), min, max)
<1> DEFINE c == Number(n, min, max, hint0)
           q == n \div min
           e == ceilDiv(min - 1, q)
<1>1. c \in Nat \ {0}  BY NumberPositive
<1>2. PICK hint \in Nat \ {0} : Choice(n, min, max, hint, c)  BY NumberCases
<1>3. q \in Nat \ {0} /\ n % min \in 0 .. min - 1 /\ n = q * min + (n % min)
  <2>1. q \in Nat /\ n % min \in 0 .. min - 1 /\ n = q * min + (n % min)  BY DivMod
  <2>2. 1 * min = min  OBVIOUS
  <2>3. 1 <= q  BY <2>2, DivLower
  <2> QED  BY <2>1, <2>3
<1> HIDE DEF c, q
<1>4. e \in Nat /\ min - 1 <= e * q /\ e * q \in Nat
  <2>1. min - 1 \in Nat  OBVIOUS
  <2>2. e \in Nat /\ min - 1 <= e * q  BY <1>3, <2>1, CeilDivBounds
  <2> HIDE DEF e
  <2> QED  BY <1>3, <2>2, MulNat
<1>5. max >= min + e  BY DEF q
<1> HIDE DEF e
<1>6. CASE c = IF q >= 1 THEN q ELSE 1
  <2>1. c = q  BY <1>3, <1>6
  <2>2. q * min \in Nat /\ q * max \in Nat  BY <1>3, MulNat
  <2>3. q * min <= n  BY <1>3, <2>2
  <2>4. q * (min + e) <= q * max  BY <1>3, <1>4, <1>5, MulMono
  <2>5. q * (min + e) = q * min + e * q  BY <1>3, <1>4, SMT
  <2>6. n <= q * max  BY <1>3, <1>4, <2>2, <2>4, <2>5
  <2>7. Fits(n, q, min, max)  BY <1>3, <2>3, <2>6, FitsIf
  <2> QED  BY <2>1, <2>7 DEF c
<1>7. CASE c = ceilDiv(n, max)
  <2>3. max \in Nat \ {0} /\ n # 0  OBVIOUS
  <2>1. n <= c * max /\ (c - 1) * max < n  BY <1>7, <2>3, CeilDivBounds
  <2>2. c * min <= n
    <3> SUFFICES ASSUME n < c * min PROVE FALSE
      <4>1. c * min \in Nat  BY <1>1, MulNat
      <4> QED  BY <4>1
    <3>1. c * min \in Nat /\ q * min \in Nat  BY <1>1, <1>3, MulNat
    <3>2. q <= c - 1
      <4> SUFFICES ASSUME c <= q PROVE FALSE  BY <1>1, <1>3
      <4>1. c * min <= q * min  BY <1>1, <1>3, MulMono
      <4> QED  BY <1>3, <3>1, <4>1
    <3>3. c - 1 \in Nat  BY <1>1
    <3>4. (c - 1) * (min + e) <= (c - 1) * max  BY <1>4, <1>5, <3>3, MulMono
    <3>5. (c - 1) * (min + e) = (c * min - min) + e * (c - 1)  BY <1>1, <1>4, SMT
    <3>6. e * q <= e * (c - 1)  BY <1>3, <1>4, <3>2, <3>3, MulMono
    <3>7. e * (c - 1) \in Nat /\ (c - 1) * max \in Nat /\ (c - 1) * (min + e) \in Nat
      <4>1. min + e \in Nat  BY <1>4
      <4> QED  BY <1>4, <3>3, <4>1, MulNat
    <3> QED  BY <1>4, <2>1, <3>1, <3>4, <3>5, <3>6, <3>7
  <2>4. Fits(n, c, min, max)  BY <1>1, <2>1, <2>2, FitsIf
  <2> QED  BY <2>4 DEF c
<1>8. CASE /\ n \div hint >= min
           /\ n \div hint < max \/ (n \div hint = max /\ n % hint = 0)
           /\ c = hint
  BY <1>8, DivMod DEF Fits, c
<1> QED  BY <1>2, <1>6, <1>7, <1>8 DEF Choice, q

-----------------------------------------------------------------------------
(* Theorems. *)

\* balancedChunksPrioNumber tiles a range of any length with any number of chunks.
THEOREM PrioNumberTiles ==
    \A n \in Nat : \A c \in Nat \ {0} : Tiles(items(balancedChunksPrioNumber(0, n, c)), 0, n)
<1> SUFFICES ASSUME NEW n \in Nat, NEW c \in Nat \ {0}
             PROVE  Tiles(items(balancedChunksPrioNumber(0, n, c)), 0, n)
  OBVIOUS
<1>1. balancedChunksPrioNumber(0, n, c) = ChunkDescriptor(0, n, c)
  <2>1. n - 0 = n  OBVIOUS
  <2> QED  BY <2>1 DEF balancedChunksPrioNumber
<1> QED  BY <1>1, BalancedTiles

\* balancedChunksPrioSize tiles a range of any length, whatever the bounds and the hint, and
\* keeps to the bounds as soon as they leave room for what the division leaves over.
THEOREM PrioSizeTiles ==
    \A n \in Nat, min \in Nat \ {0}, max \in Nat, hint \in Nat :
        min <= max =>
            LET chunks == items(balancedChunksPrioSize(0, n, min, max, hint))
            IN  /\ Tiles(chunks, 0, n)
                /\ n >= min /\ max >= min + ceilDiv(min - 1, n \div min) =>
                     \A k \in DOMAIN chunks : chunks[k].size \in min .. max
<1> SUFFICES ASSUME NEW n \in Nat, NEW min \in Nat \ {0}, NEW max \in Nat, NEW hint \in Nat,
                    min <= max
             PROVE  LET chunks == items(balancedChunksPrioSize(0, n, min, max, hint))
                    IN  /\ Tiles(chunks, 0, n)
                        /\ n >= min /\ max >= min + ceilDiv(min - 1, n \div min) =>
                             \A k \in DOMAIN chunks : chunks[k].size \in min .. max
  OBVIOUS
<1> DEFINE c == Number(n, min, max, hint)
           chunks == items(balancedChunksPrioSize(0, n, min, max, hint))
<1>1. c \in Nat \ {0}  BY NumberPositive
<1>2. chunks = items(ChunkDescriptor(0, n, c))  BY PrioSizeIs
<1> HIDE DEF c, chunks
<1>3. /\ Tiles(chunks, 0, n)
      /\ \A k \in DOMAIN chunks : /\ chunks[k].size \in {n \div c, n \div c + 1}
                                  /\ n % c = 0 => chunks[k].size = n \div c
  BY <1>1, <1>2, BalancedTiles
<1>4. ASSUME n >= min, max >= min + ceilDiv(min - 1, n \div min)
      PROVE  \A k \in DOMAIN chunks : chunks[k].size \in min .. max
  <2>1. Fits(n, c, min, max)  BY <1>4, NumberFits DEF c
  <2>2. n \div c \in Nat  BY <1>1, DivMod
  <2> QED  BY <1>3, <2>1, <2>2 DEF Fits
<1> QED  BY <1>3, <1>4 DEF chunks

\* What the runs check of the partitioners holds of a range of any length.
THEOREM PartitionsAlwaysTile == \A n \in Nat : PartitionsTile(n)
<1> SUFFICES ASSUME NEW n \in Nat PROVE PartitionsTile(n)  OBVIOUS
<1>1. \A c \in 1 .. 6 : Tiles(items(balancedChunksPrioNumber(0, n, c)), 0, n)
  <2>1. \A c \in 1 .. 6 : c \in Nat \ {0}  OBVIOUS
  <2> QED  BY <2>1, PrioNumberTiles
<1>2. \A min \in 1 .. 4, max \in 1 .. 8, hint \in 0 .. 6 :
         min \in Nat \ {0} /\ max \in Nat /\ hint \in Nat
  OBVIOUS
<1> QED  BY <1>1, <1>2, PrioSizeTiles DEF PartitionsTile
=============================================================================
