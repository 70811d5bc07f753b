---------------------------- MODULE RustFfiProofs ----------------------------
(* Facts about what the crates' models are built from, for lists of any      *)
(* length: the first error of a list of checks, the reduction of statuses by *)
(* several threads, sums in a group, and the bytes that carry a status       *)
(* across the boundary.                                                      *)
EXTENDS RustFfi, WellFoundedInduction, TLAPS

-----------------------------------------------------------------------------
(* Induction, as the least element of a set of naturals.                     *)
Below == {ss \in Nat \X Nat : ss[1] < ss[2]}

LEMMA LeastOf ==
  ASSUME NEW T, T \subseteq Nat, T # {}
  PROVE  \E x \in T : \A y \in T : x <= y
<1>1. OpToRel(<, Nat) = Below
  BY DEF OpToRel, Below
<1>2. IsWellFoundedOn(Below, Nat)
  BY <1>1, NatLessThanWellFounded
<1>3. PICK x \in T : \A y \in T : ~ (<<y, x>> \in Below)
  BY <1>2, WFMin
<1>4. \A a, b \in Nat : a < b => <<a, b>> \in Below
  BY DEF Below
<1>5. ASSUME NEW y \in T, ~(x <= y)
      PROVE  FALSE
  <2>1. x \in Nat /\ y \in Nat /\ y < x
    BY <1>5
  <2> QED
    BY <1>3, <1>4, <2>1
<1> QED
  BY <1>5

LEMMA MinOf ==
  ASSUME NEW T, T \subseteq Nat, T # {}
  PROVE  Min(T) \in T
BY LeastOf DEF Min

(* A set that holds 0 and with each element below n the next holds 0 .. n.   *)
LEMMA UpTo ==
  ASSUME NEW n \in Nat, NEW T, 0 \in T, \A k \in 1..n : k - 1 \in T => k \in T
  PROVE  \A k \in 0..n : k \in T
<1> DEFINE Out == {k \in 0..n : k \notin T}
<1> SUFFICES ASSUME Out # {}
             PROVE  FALSE
  OBVIOUS
<1>1. PICK k \in Out : \A j \in Out : k <= j
  <2>1. Out \subseteq Nat
    OBVIOUS
  <2> HIDE DEF Out
  <2> QED
    BY <2>1, LeastOf
<1>2. k \in 1..n
  BY <1>1
<1>3. k - 1 \in 0..n /\ k - 1 \notin Out
  BY <1>1, <1>2
<1> QED
  BY <1>1, <1>2, <1>3

(* A recursive function on 0 .. n exists: `step' says how each value follows *)
(* from the one before.                                                      *)
Follows(h, n, base, step) == h[0] = base /\ \A k \in 1..n : h[k] = step[k][h[k - 1]]

LEMMA Recursion ==
  ASSUME NEW n \in Nat, NEW S, NEW base \in S, NEW step \in [1..n -> [S -> S]]
  PROVE  \E h \in [0..n -> S] : Follows(h, n, base, step)
<1> USE DEF Follows
<1> DEFINE Good(m, h) == Follows(h, m, base, step)
           T == {m \in 0..n : \E h \in [0..m -> S] : Good(m, h)}
<1>0. \A m : m \in T <=> m \in 0..n /\ \E h \in [0..m -> S] : Good(m, h)
  OBVIOUS
<1> HIDE DEF T
<1>1. 0 \in T
  <2> DEFINE h == [k \in 0..0 |-> base]
  <2>1. h \in [0..0 -> S] /\ h[0] = base
    OBVIOUS
  <2>2. Good(0, h)
    BY <2>1
  <2> HIDE DEF h, Good
  <2>3. \E g \in [0..0 -> S] : Good(0, g)
    BY <2>1, <2>2
  <2>4. 0 \in 0..n
    OBVIOUS
  <2> QED
    BY <1>0, <2>3, <2>4, Zenon
<1>2. ASSUME NEW m \in 1..n, m - 1 \in T
      PROVE  m \in T
  <2>1. PICK h \in [0..m - 1 -> S] : Good(m - 1, h)
    BY <1>0, <1>2
  <2>2. h[m - 1] \in S /\ step[m] \in [S -> S]
    OBVIOUS
  <2> DEFINE next == step[m][h[m - 1]]
             g == [k \in 0..m |-> IF k = m THEN next ELSE h[k]]
  <2>3. next \in S
    BY <2>2
  <2> HIDE DEF next
  <2>4. g \in [0..m -> S]
    BY <2>3
  <2>5. g[0] = base
    BY <2>1
  <2>6. ASSUME NEW k \in 1..m
        PROVE  g[k] = step[k][g[k - 1]]
    <3>1. g[k - 1] = h[k - 1]
      OBVIOUS
    <3>2. CASE k = m
      BY <3>1, <3>2 DEF next
    <3>3. CASE k # m
      <4>1. k \in 1..m - 1
        BY <3>3
      <4>2. g[k] = h[k]
        BY <3>3
      <4> QED
        BY <2>1, <3>1, <4>1, <4>2
    <3> QED
      BY <3>2, <3>3
  <2>7. Good(m, g)
    BY <2>5, <2>6
  <2> HIDE DEF g, Good
  <2> QED
    BY <1>0, <2>4, <2>7
<1>3. n \in T
  <2>1. \A m \in 0..n : m \in T
    BY <1>1, <1>2, UpTo
  <2> QED
    BY <2>1
<1> QED
  BY <1>0, <1>3

-----------------------------------------------------------------------------
(* Lists of checks.  What comes out of a list: `ok' when every check says    *)
(* so, and else what some check that failed said.                            *)
Outcome(ok, statuses, r) ==
  \/ r = ok /\ \A i \in DOMAIN statuses : statuses[i] = ok
  \/ r # ok /\ \E i \in DOMAIN statuses : statuses[i] = r

LEMMA FirstErrorOutcome ==
  ASSUME NEW ok, NEW statuses, DOMAIN statuses \subseteq Nat
  PROVE  Outcome(ok, statuses, FirstError(ok, statuses))
<1> DEFINE bad == {i \in DOMAIN statuses : statuses[i] # ok}
<1>1. FirstError(ok, statuses) = IF bad = {} THEN ok ELSE statuses[Min(bad)]
  BY DEF FirstError
<1>2. CASE bad = {}
  BY <1>1, <1>2 DEF Outcome
<1>3. CASE bad # {}
  <2>1. Min(bad) \in bad
    BY <1>3, MinOf
  <2> QED
    BY <1>1, <1>3, <2>1 DEF Outcome
<1> QED
  BY <1>2, <1>3

(* The statuses of two lists of checks made in a row are those of both.      *)
LEMMA ConcatRange ==
  ASSUME NEW S, NEW a \in Seq(S), NEW b \in Seq(S)
  PROVE  /\ a \o b \in Seq(S) /\ DOMAIN (a \o b) \subseteq Nat
         /\ Range(a \o b) = Range(a) \union Range(b)
<1>1. /\ DOMAIN (a \o b) = 1 .. Len(a) + Len(b)
      /\ \A i \in 1 .. Len(a) + Len(b) : (a \o b)[i] = IF i <= Len(a) THEN a[i] ELSE b[i - Len(a)]
  OBVIOUS
<1>2. Len(a) \in Nat /\ Len(b) \in Nat /\ DOMAIN a = 1..Len(a) /\ DOMAIN b = 1..Len(b)
  OBVIOUS
<1>3. ASSUME NEW i \in 1 .. Len(a) + Len(b)
      PROVE  (a \o b)[i] \in Range(a) \union Range(b)
  <2>1. CASE i <= Len(a)
    BY <1>1, <1>2, <2>1 DEF Range
  <2>2. CASE ~(i <= Len(a))
    <3>1. i - Len(a) \in 1..Len(b)
      BY <1>2, <2>2
    <3> QED
      BY <1>1, <1>2, <2>2, <3>1 DEF Range
  <2> QED
    BY <2>1, <2>2
<1>4. ASSUME NEW i \in 1 .. Len(a)
      PROVE  a[i] \in Range(a \o b)
  <2>1. i \in 1 .. Len(a) + Len(b) /\ (a \o b)[i] = a[i]
    BY <1>1, <1>2
  <2> QED
    BY <1>1, <2>1 DEF Range
<1>5. ASSUME NEW i \in 1 .. Len(b)
      PROVE  b[i] \in Range(a \o b)
  <2>1. /\ i + Len(a) \in 1 .. Len(a) + Len(b) /\ ~(i + Len(a) <= Len(a))
        /\ (i + Len(a)) - Len(a) = i
    BY <1>2
  <2>2. (a \o b)[i + Len(a)] = b[i]
    BY <1>1, <2>1
  <2> QED
    BY <1>1, <2>1, <2>2 DEF Range
<1>6. Range(a \o b) = Range(a) \union Range(b)
  <2>1. Range(a \o b) \subseteq Range(a) \union Range(b)
    BY <1>1, <1>3 DEF Range
  <2>2. Range(a) \subseteq Range(a \o b) /\ Range(b) \subseteq Range(a \o b)
    BY <1>2, <1>4, <1>5 DEF Range
  <2> QED
    BY <2>1, <2>2
<1>7. a \o b \in Seq(S) /\ DOMAIN (a \o b) \subseteq Nat
  BY <1>1, <1>2
<1> QED
  BY <1>6, <1>7

LEMMA FirstErrorRange ==
  ASSUME NEW ok, NEW statuses, DOMAIN statuses \subseteq Nat
  PROVE  \/ FirstError(ok, statuses) = ok /\ Range(statuses) \subseteq {ok}
         \/ FirstError(ok, statuses) # ok /\ FirstError(ok, statuses) \in Range(statuses)
BY FirstErrorOutcome DEF Outcome, Range


-----------------------------------------------------------------------------
(* Division.                                                                 *)
LEMMA Divided ==
  ASSUME NEW n \in Nat \ {0}, NEW a \in Int
  PROVE  a \div n \in Int /\ a % n \in 0 .. n - 1 /\ a = n * (a \div n) + (a % n)
BY SMT

LEMMA Multiples ==
  ASSUME NEW n \in Nat \ {0}, NEW k \in Int, - n < n * k, n * k < n
  PROVE  k = 0
<1>1. CASE k >= 1
  <2>1. n * k >= n
    BY <1>1, SMT
  <2> QED
    BY <2>1, SMT
<1>2. CASE k <= -1
  <2>1. n * k <= - n
    BY <1>2, SMT
  <2> QED
    BY <2>1, SMT
<1> QED
  BY <1>1, <1>2, SMT

LEMMA RemainderUnique ==
  ASSUME NEW n \in Nat \ {0}, NEW a \in Int, NEW q \in Int, NEW r \in 0 .. n - 1, a = n * q + r
  PROVE  a % n = r
<1> DEFINE d == a \div n
           e == a % n
<1>1. d \in Int /\ e \in 0 .. n - 1 /\ a = n * d + e
  BY Divided
<1> HIDE DEF d, e
<1>2. n * (q - d) = e - r
  BY <1>1, SMT
<1>3. - n < e - r /\ e - r < n
  BY <1>1, SMT
<1>4. q - d = 0
  <2>1. - n < n * (q - d) /\ n * (q - d) < n /\ q - d \in Int
    BY <1>1, <1>2, <1>3
  <2> QED
    BY <2>1, Multiples
<1>5. n * (q - d) = 0
  BY <1>4, SMT
<1>6. e = r
  BY <1>1, <1>2, <1>5, SMT
<1> QED
  BY <1>6 DEF e

LEMMA ModShift ==
  ASSUME NEW n \in Nat \ {0}, NEW a \in Int, NEW k \in Int
  PROVE  (a + n * k) % n = a % n
<1> DEFINE d == a \div n
           e == a % n
           b == a + n * k
<1>1. d \in Int /\ e \in 0 .. n - 1 /\ a = n * d + e
  BY Divided
<1> HIDE DEF d, e
<1>2. b \in Int /\ d + k \in Int
  BY <1>1, SMT
<1>3. b = n * (d + k) + e
  BY <1>1, SMT
<1> HIDE DEF b
<1>4. b % n = e
  BY <1>1, <1>2, <1>3, RemainderUnique
<1> QED
  BY <1>4 DEF b, e

LEMMA ModTimes ==
  ASSUME NEW n \in Nat \ {0}, NEW a \in Int, NEW h \in Int
  PROVE  ((a % n) * h) % n = (a * h) % n
<1> DEFINE d == a \div n
           e == a % n
<1>1. d \in Int /\ e \in Int /\ a = n * d + e
  BY Divided
<1> HIDE DEF d, e
<1>2. e * h \in Int /\ d * h \in Int
  BY <1>1, SMT
<1>3. a * h = e * h + n * (d * h)
  BY <1>1, SMT
<1>4. (e * h + n * (d * h)) % n = (e * h) % n
  BY <1>2, ModShift
<1>5. (a * h) % n = (e * h) % n
  BY <1>3, <1>4
<1> QED
  BY <1>5 DEF e

LEMMA ModPlus ==
  ASSUME NEW n \in Nat \ {0}, NEW a \in Int, NEW b \in Int
  PROVE  ((a % n) + b) % n = (a + b) % n
<1> DEFINE d == a \div n
           e == a % n
<1>1. d \in Int /\ e \in Int /\ a = n * d + e
  BY Divided
<1> HIDE DEF d, e
<1>2. e + b \in Int
  BY <1>1, SMT
<1>3. a + b = (e + b) + n * d
  BY <1>1, SMT
<1>4. ((e + b) + n * d) % n = (e + b) % n
  BY <1>1, <1>2, ModShift
<1>5. (a + b) % n = (e + b) % n
  BY <1>3, <1>4
<1> QED
  BY <1>5 DEF e

LEMMA ModSum ==
  ASSUME NEW n \in Nat \ {0}, NEW a \in Int, NEW b \in Int
  PROVE  (a + (b % n)) % n = (a + b) % n
<1>1. b % n \in Int
  BY Divided, SMT
<1>2. ((b % n) + a) % n = (b + a) % n
  BY ModPlus
<1> QED
  BY <1>1, <1>2, SMT

-----------------------------------------------------------------------------
(* Sums.                                                                     *)
LEMMA ModFacts ==
  ASSUME NEW order \in Nat \ {0}
  PROVE  /\ \A a \in Int : a % order \in 0 .. order - 1
         /\ \A a \in 0 .. order - 1 : a % order = a
BY SMT

Summing(h, n, list, order) ==
  h = [k \in 0..n |-> IF k = 0 THEN 0 ELSE (h[k - 1] + list[k]) % order]

LEMMA SumsExist ==
  ASSUME NEW order \in Nat \ {0}, NEW n \in Nat, NEW list \in [1..n -> Int]
  PROVE  \E h : Summing(h, n, list, order)
<1> DEFINE S == 0 .. order - 1
           step == [k \in 1..n |-> [a \in S |-> (a + list[k]) % order]]
<1>1. 0 \in S /\ \A a \in Int : a % order \in S
  BY ModFacts
<1>2. step \in [1..n -> [S -> S]]
  <2>1. ASSUME NEW k \in 1..n, NEW a \in S
        PROVE  (a + list[k]) % order \in S
    <3>1. a + list[k] \in Int
      OBVIOUS
    <3> QED
      BY <1>1, <3>1
  <2> QED
    BY <2>1
<1> HIDE DEF S
<1>3. PICK h \in [0..n -> S] : Follows(h, n, 0, step)
  <2> HIDE DEF step
  <2> QED
    BY <1>1, <1>2, Recursion
<1>4. ASSUME NEW k \in 1..n
      PROVE  h[k] = (h[k - 1] + list[k]) % order
  <2>1. h[k - 1] \in S
    BY <1>3
  <2> QED
    BY <1>3, <2>1 DEF Follows
<1>5. h = [k \in 0..n |-> IF k = 0 THEN 0 ELSE (h[k - 1] + list[k]) % order]
  BY <1>3, <1>4 DEF Follows
<1> QED
  BY <1>5 DEF Summing

LEMMA PartialSumsFacts ==
  ASSUME NEW order \in Nat \ {0}, NEW n \in Nat, NEW list \in [1..n -> Int]
  PROVE  /\ Len(list) = n
         /\ PartialSums(list, order)[0] = 0
         /\ \A k \in 1..n : PartialSums(list, order)[k]
                              = (PartialSums(list, order)[k - 1] + list[k]) % order
         /\ \A k \in 0..n : PartialSums(list, order)[k] \in 0 .. order - 1
<1> DEFINE s == PartialSums(list, order)
<1>1. Len(list) = n
  OBVIOUS
<1>2. s = CHOOSE h : Summing(h, n, list, order)
  BY <1>1 DEF PartialSums, Summing
<1>3. s = [k \in 0..n |-> IF k = 0 THEN 0 ELSE (s[k - 1] + list[k]) % order]
  <2>1. Summing(s, n, list, order)
    BY <1>2, SumsExist
  <2> QED
    BY <2>1 DEF Summing
<1> HIDE DEF s
<1>4. s[0] = 0
  BY <1>3
<1>5. \A k \in 1..n : s[k] = (s[k - 1] + list[k]) % order
  BY <1>3
<1>6. \A k \in 0..n : s[k] \in 0 .. order - 1
  <2> DEFINE T == {k \in 0..n : s[k] \in 0 .. order - 1}
  <2>1. 0 \in T
    BY <1>4
  <2>2. ASSUME NEW k \in 1..n, k - 1 \in T
        PROVE  k \in T
    <3>1. s[k - 1] + list[k] \in Int
      BY <2>2
    <3>2. s[k] \in 0 .. order - 1
      BY <1>5, <3>1, ModFacts
    <3> QED
      BY <3>2
  <2>3. \A k \in 0..n : k \in T
    <3> HIDE DEF T
    <3> QED
      BY <2>1, <2>2, UpTo
  <2> QED
    BY <2>3
<1> QED
  BY <1>1, <1>4, <1>5, <1>6 DEF s

(* Multiplication by a number goes through a sum.                            *)
Scaled(n, scaled, list, h, order) == \A i \in 1..n : scaled[i] = (list[i] * h) % order

LEMMA SumTimes ==
  ASSUME NEW order \in Nat \ {0}, NEW n \in Nat, NEW list \in [1..n -> Int], NEW h \in Int,
         NEW scaled \in [1..n -> Int], Scaled(n, scaled, list, h, order)
  PROVE  (SumOf(list, order) * h) % order = SumOf(scaled, order)
<1> DEFINE s == PartialSums(list, order)
           t == PartialSums(scaled, order)
           T == {k \in 0..n : (s[k] * h) % order = t[k]}
<1>1. /\ s[0] = 0 /\ \A k \in 1..n : s[k] = (s[k - 1] + list[k]) % order
      /\ \A k \in 0..n : s[k] \in Int
  <2>1. Len(list) = n /\ s[0] = 0 /\ \A k \in 1..n : s[k] = (s[k - 1] + list[k]) % order
    BY PartialSumsFacts
  <2>2. \A k \in 0..n : s[k] \in 0 .. order - 1
    BY PartialSumsFacts
  <2> QED
    BY <2>1, <2>2
<1>2. /\ t[0] = 0 /\ \A k \in 1..n : t[k] = (t[k - 1] + scaled[k]) % order
      /\ \A k \in 0..n : t[k] \in Int
  <2>1. t[0] = 0 /\ \A k \in 1..n : t[k] = (t[k - 1] + scaled[k]) % order
    BY PartialSumsFacts
  <2>2. \A k \in 0..n : t[k] \in 0 .. order - 1
    BY PartialSumsFacts
  <2> QED
    BY <2>1, <2>2
<1>3. SumOf(list, order) = s[n] /\ SumOf(scaled, order) = t[n]
  BY PartialSumsFacts DEF SumOf
<1> HIDE DEF s, t
<1>4. 0 \in T
  <2>1. 0 * h = 0 /\ 0 % order = 0
    BY SMT
  <2> QED
    BY <1>1, <1>2, <2>1
<1>5. ASSUME NEW k \in 1..n, k - 1 \in T
      PROVE  k \in T
  <2> DEFINE a == s[k - 1]
             x == list[k]
  <2>1. a \in Int /\ x \in Int /\ (a * h) % order = t[k - 1]
    BY <1>1, <1>5
  <2>2. s[k] = (a + x) % order /\ t[k] = (((a * h) % order) + ((x * h) % order)) % order
    BY <1>1, <1>2, <2>1 DEF Scaled
  <2> HIDE DEF a, x
  <2>3. (((a + x) % order) * h) % order = ((a + x) * h) % order
    <3>1. a + x \in Int
      BY <2>1
    <3> QED
      BY <3>1, ModTimes
  <2> DEFINE p == a * h
             q == x * h
  <2>4. p \in Int /\ q \in Int /\ (a + x) * h = p + q
    BY <2>1, SMT
  <2>5. (((p) % order) + ((q) % order)) % order = (p + q) % order
    <3> HIDE DEF p, q
    <3>1. q % order \in Int
      BY <2>4, Divided, SMT
    <3>2. ((p % order) + (q % order)) % order = (p + (q % order)) % order
      BY <2>4, <3>1, ModPlus
    <3> QED
      BY <2>4, <3>2, ModSum
  <2>6. (s[k] * h) % order = t[k]
    BY <2>2, <2>3, <2>4, <2>5
  <2> QED
    BY <2>6
<1>6. n \in T
  <2>1. \A k \in 0..n : k \in T
    <3> HIDE DEF T
    <3> QED
      BY <1>4, <1>5, UpTo
  <2> QED
    BY <2>1
<1> QED
  BY <1>3, <1>6

-----------------------------------------------------------------------------
(* Statuses.  A status that both sides list at the same place is read as     *)
(* itself.                                                                   *)
LEMMA ReadAsItself ==
  ASSUME NEW rustEnum, NEW nimEnum, NEW k \in DOMAIN nimEnum,
         k \in Nat, DOMAIN nimEnum \subseteq Nat,
         \A j \in DOMAIN nimEnum : nimEnum[j] = nimEnum[k] => j = k,
         nimEnum[k] \in DOMAIN rustEnum, rustEnum[nimEnum[k]] = k - 1,
         \A v \in DOMAIN rustEnum : rustEnum[v] = k - 1 => v = nimEnum[k]
  PROVE  FromNative(rustEnum, nimEnum, nimEnum[k]) = nimEnum[k]
<1>1. (CHOOSE j \in DOMAIN nimEnum : nimEnum[j] = nimEnum[k]) = k
  OBVIOUS
<1>2. (CHOOSE v \in DOMAIN rustEnum : rustEnum[v] = k - 1) = nimEnum[k]
  OBVIOUS
<1> QED
  BY <1>1, <1>2 DEF FromNative

(* The m variants of a Rust enum are the first m of the n values of a Nim    *)
(* enum, in the same order.                                                  *)
SameOrder(m, n, rustEnum, nimEnum) ==
  /\ m \in Nat /\ n \in Nat /\ m <= n
  /\ DOMAIN nimEnum = 1..n
  /\ \A k \in 1..m : nimEnum[k] \in DOMAIN rustEnum /\ rustEnum[nimEnum[k]] = k - 1
  /\ \A k \in 1..n : k > m => nimEnum[k] \notin DOMAIN rustEnum
  /\ \A s \in DOMAIN rustEnum : \E k \in 1..m : nimEnum[k] = s

LEMMA TablesAgree ==
  ASSUME NEW m, NEW n, NEW rustEnum, NEW nimEnum, SameOrder(m, n, rustEnum, nimEnum)
  PROVE  \A s \in DOMAIN rustEnum : FromNative(rustEnum, nimEnum, s) = s
<1> USE DEF SameOrder
<1>1. ASSUME NEW k \in 1..m
      PROVE  FromNative(rustEnum, nimEnum, nimEnum[k]) = nimEnum[k]
  <2>1. \A j \in 1..n : nimEnum[j] = nimEnum[k] => j = k
    OBVIOUS
  <2>2. \A v \in DOMAIN rustEnum : rustEnum[v] = k - 1 => v = nimEnum[k]
    OBVIOUS
  <2> QED
    BY <2>1, <2>2, ReadAsItself
<1> QED
  BY <1>1

KzgStatuses ==
  {"cttEthKzg_Success", "cttEthKzg_VerificationFailure",
   "cttEthKzg_InputsLengthsMismatch", "cttEthKzg_ScalarZero",
   "cttEthKzg_ScalarLargerThanCurveOrder", "cttEthKzg_EccInvalidEncoding",
   "cttEthKzg_EccCoordinateGreaterThanOrEqualModulus", "cttEthKzg_EccPointNotOnCurve",
   "cttEthKzg_EccPointNotInSubgroup", "cttEthKzg_CellIndicesNotAscending"}

LEMMA KzgTable ==
  \A s \in KzgStatuses : FromNative(constants.ctt_eth_kzg_status, cttEthKzgStatus, s) = s
<1> DEFINE rust == constants.ctt_eth_kzg_status
<1>1. rust =
     [cttEthKzg_Success |-> 0, cttEthKzg_VerificationFailure |-> 1,
      cttEthKzg_InputsLengthsMismatch |-> 2, cttEthKzg_ScalarZero |-> 3,
      cttEthKzg_ScalarLargerThanCurveOrder |-> 4, cttEthKzg_EccInvalidEncoding |-> 5,
      cttEthKzg_EccCoordinateGreaterThanOrEqualModulus |-> 6,
      cttEthKzg_EccPointNotOnCurve |-> 7, cttEthKzg_EccPointNotInSubgroup |-> 8,
      cttEthKzg_CellIndicesNotAscending |-> 9]
  BY DEF constants, Include, Constants64, Constants32, B64!ctt_eth_kzg_status,
     B32!ctt_eth_kzg_status
<1>2. DOMAIN cttEthKzgStatus = 1..10
  BY DEF cttEthKzgStatus
<1>3. DOMAIN rust = KzgStatuses
  BY <1>1 DEF KzgStatuses
<1>4. \A k \in 1..10 : cttEthKzgStatus[k] \in KzgStatuses /\ rust[cttEthKzgStatus[k]] = k - 1
  BY <1>1 DEF cttEthKzgStatus, KzgStatuses
<1>5. \A s \in KzgStatuses : \E k \in 1..10 : cttEthKzgStatus[k] = s
  BY DEF cttEthKzgStatus, KzgStatuses
<1>6. \A k \in 1..10 : k > 10 => cttEthKzgStatus[k] \notin KzgStatuses
  BY DEF cttEthKzgStatus, KzgStatuses
<1> HIDE DEF rust
<1>7. SameOrder(10, 10, rust, cttEthKzgStatus)
  BY <1>2, <1>3, <1>4, <1>5, <1>6 DEF SameOrder
<1>8. \A s \in KzgStatuses : FromNative(rust, cttEthKzgStatus, s) = s
  BY <1>3, <1>7, TablesAgree
<1> QED
  BY <1>8 DEF rust

EvmStatuses ==
  {"cttEVM_Success", "cttEVM_InvalidInputSize", "cttEVM_InvalidOutputSize",
   "cttEVM_IntLargerThanModulus", "cttEVM_PointNotOnCurve",
   "cttEVM_PointNotInSubgroup", "cttEVM_VerificationFailure"}

LEMMA EvmTable ==
  \A s \in EvmStatuses : FromNative(constants.ctt_evm_status, CttEVMStatus, s) = s
<1> DEFINE rust == constants.ctt_evm_status
<1>1. rust =
     [cttEVM_Success |-> 0, cttEVM_InvalidInputSize |-> 1,
      cttEVM_InvalidOutputSize |-> 2, cttEVM_IntLargerThanModulus |-> 3,
      cttEVM_PointNotOnCurve |-> 4, cttEVM_PointNotInSubgroup |-> 5,
      cttEVM_VerificationFailure |-> 6]
  BY DEF constants, Include, Constants64, Constants32, B64!ctt_evm_status, B32!ctt_evm_status
<1>2. DOMAIN CttEVMStatus = 1..8
  BY DEF CttEVMStatus
<1>3. DOMAIN rust = EvmStatuses
  BY <1>1 DEF EvmStatuses
<1>4. \A k \in 1..7 : CttEVMStatus[k] \in EvmStatuses /\ rust[CttEVMStatus[k]] = k - 1
  BY <1>1 DEF CttEVMStatus, EvmStatuses
<1>5. \A s \in EvmStatuses : \E k \in 1..7 : CttEVMStatus[k] = s
  BY DEF CttEVMStatus, EvmStatuses
<1>6. \A k \in 1..8 : k > 7 => CttEVMStatus[k] \notin EvmStatuses
  BY DEF CttEVMStatus, EvmStatuses
<1> HIDE DEF rust
<1>7. SameOrder(7, 8, rust, CttEVMStatus)
  BY <1>2, <1>3, <1>4, <1>5, <1>6 DEF SameOrder
<1>8. \A s \in EvmStatuses : FromNative(rust, CttEVMStatus, s) = s
  BY <1>3, <1>7, TablesAgree
<1> QED
  BY <1>8 DEF rust

EccStatuses ==
  {"cttCodecEcc_Success", "cttCodecEcc_InvalidEncoding",
   "cttCodecEcc_CoordinateGreaterThanOrEqualModulus", "cttCodecEcc_PointNotOnCurve",
   "cttCodecEcc_PointNotInSubgroup", "cttCodecEcc_PointAtInfinity"}

LEMMA EccTable ==
  \A s \in EccStatuses : FromNative(constants.ctt_codec_ecc_status, CttCodecEccStatus, s) = s
<1> DEFINE rust == constants.ctt_codec_ecc_status
<1>1. rust =
     [cttCodecEcc_Success |-> 0, cttCodecEcc_InvalidEncoding |-> 1,
      cttCodecEcc_CoordinateGreaterThanOrEqualModulus |-> 2,
      cttCodecEcc_PointNotOnCurve |-> 3, cttCodecEcc_PointNotInSubgroup |-> 4,
      cttCodecEcc_PointAtInfinity |-> 5]
  BY DEF constants, Include, Constants64, Constants32, B64!ctt_codec_ecc_status,
     B32!ctt_codec_ecc_status
<1>2. DOMAIN CttCodecEccStatus = 1..6
  BY DEF CttCodecEccStatus
<1>3. DOMAIN rust = EccStatuses
  BY <1>1 DEF EccStatuses
<1>4. \A k \in 1..6 : CttCodecEccStatus[k] \in EccStatuses /\ rust[CttCodecEccStatus[k]] = k - 1
  BY <1>1 DEF CttCodecEccStatus, EccStatuses
<1>5. \A s \in EccStatuses : \E k \in 1..6 : CttCodecEccStatus[k] = s
  BY DEF CttCodecEccStatus, EccStatuses
<1>6. \A k \in 1..6 : k > 6 => CttCodecEccStatus[k] \notin EccStatuses
  BY DEF CttCodecEccStatus, EccStatuses
<1> HIDE DEF rust
<1>7. SameOrder(6, 6, rust, CttCodecEccStatus)
  BY <1>2, <1>3, <1>4, <1>5, <1>6 DEF SameOrder
<1>8. \A s \in EccStatuses : FromNative(rust, CttCodecEccStatus, s) = s
  BY <1>3, <1>7, TablesAgree
<1> QED
  BY <1>8 DEF rust

ScalarStatuses ==
  {"cttCodecScalar_Success", "cttCodecScalar_Zero",
   "cttCodecScalar_ScalarLargerThanCurveOrder"}

LEMMA ScalarTable ==
  \A s \in ScalarStatuses : FromNative(constants.ctt_codec_scalar_status, CttCodecScalarStatus, s) = s
<1> DEFINE rust == constants.ctt_codec_scalar_status
<1>1. rust =
     [cttCodecScalar_Success |-> 0, cttCodecScalar_Zero |-> 1,
      cttCodecScalar_ScalarLargerThanCurveOrder |-> 2]
  BY DEF constants, Include, Constants64, Constants32, B64!ctt_codec_scalar_status,
     B32!ctt_codec_scalar_status
<1>2. DOMAIN CttCodecScalarStatus = 1..3
  BY DEF CttCodecScalarStatus
<1>3. DOMAIN rust = ScalarStatuses
  BY <1>1 DEF ScalarStatuses
<1>4. \A k \in 1..3 : CttCodecScalarStatus[k] \in ScalarStatuses /\ rust[CttCodecScalarStatus[k]] = k - 1
  BY <1>1 DEF CttCodecScalarStatus, ScalarStatuses
<1>5. \A s \in ScalarStatuses : \E k \in 1..3 : CttCodecScalarStatus[k] = s
  BY DEF CttCodecScalarStatus, ScalarStatuses
<1>6. \A k \in 1..3 : k > 3 => CttCodecScalarStatus[k] \notin ScalarStatuses
  BY DEF CttCodecScalarStatus, ScalarStatuses
<1> HIDE DEF rust
<1>7. SameOrder(3, 3, rust, CttCodecScalarStatus)
  BY <1>2, <1>3, <1>4, <1>5, <1>6 DEF SameOrder
<1>8. \A s \in ScalarStatuses : FromNative(rust, CttCodecScalarStatus, s) = s
  BY <1>3, <1>7, TablesAgree
<1> QED
  BY <1>8 DEF rust

BlsStatuses ==
  {"cttEthBls_Success", "cttEthBls_VerificationFailure",
   "cttEthBls_InputsLengthsMismatch", "cttEthBls_ZeroLengthAggregation",
   "cttEthBls_PointAtInfinity"}

LEMMA BlsTable ==
  \A s \in BlsStatuses : FromNative(constants.ctt_eth_bls_status, cttEthBlsStatus, s) = s
<1> DEFINE rust == constants.ctt_eth_bls_status
<1>1. rust =
     [cttEthBls_Success |-> 0, cttEthBls_VerificationFailure |-> 1,
      cttEthBls_InputsLengthsMismatch |-> 2, cttEthBls_ZeroLengthAggregation |-> 3,
      cttEthBls_PointAtInfinity |-> 4]
  BY DEF constants, Include, Constants64, Constants32, B64!ctt_eth_bls_status,
     B32!ctt_eth_bls_status
<1>2. DOMAIN cttEthBlsStatus = 1..5
  BY DEF cttEthBlsStatus
<1>3. DOMAIN rust = BlsStatuses
  BY <1>1 DEF BlsStatuses
<1>4. \A k \in 1..5 : cttEthBlsStatus[k] \in BlsStatuses /\ rust[cttEthBlsStatus[k]] = k - 1
  BY <1>1 DEF cttEthBlsStatus, BlsStatuses
<1>5. \A s \in BlsStatuses : \E k \in 1..5 : cttEthBlsStatus[k] = s
  BY DEF cttEthBlsStatus, BlsStatuses
<1>6. \A k \in 1..5 : k > 5 => cttEthBlsStatus[k] \notin BlsStatuses
  BY DEF cttEthBlsStatus, BlsStatuses
<1> HIDE DEF rust
<1>7. SameOrder(5, 5, rust, cttEthBlsStatus)
  BY <1>2, <1>3, <1>4, <1>5, <1>6 DEF SameOrder
<1>8. \A s \in BlsStatuses : FromNative(rust, cttEthBlsStatus, s) = s
  BY <1>3, <1>7, TablesAgree
<1> QED
  BY <1>8 DEF rust

-----------------------------------------------------------------------------
(* Tables made of several.                                                   *)
LEMMA MergedAt ==
  ASSUME NEW tables, NEW i \in DOMAIN tables, NEW x \in DOMAIN tables[i],
         \A j \in DOMAIN tables : x \in DOMAIN tables[j] => j = i
  PROVE  Merged(tables)[x] = tables[i][x]
<1>1. x \in UNION {DOMAIN tables[j] : j \in DOMAIN tables}
  OBVIOUS
<1>2. (CHOOSE j \in DOMAIN tables : x \in DOMAIN tables[j]) = i
  OBVIOUS
<1> QED
  BY <1>1, <1>2 DEF Merged

LEMMA MergedDomain ==
  ASSUME NEW tables
  PROVE  DOMAIN Merged(tables) = UNION {DOMAIN tables[i] : i \in DOMAIN tables}
BY DEF Merged

(* FfiTypes as the two files of declarations see it.                         *)
LEMMA Within64 ==
  /\ \A tables : B64!Merged(tables) = Merged(tables)
  /\ \A of : B64!M(of) = M(of) /\ B64!C(of) = C(of) /\ B64!V(of) = V(of)
BY DEF Merged, B64!Merged, M, B64!M, C, B64!C, V, B64!V
LEMMA Within32 ==
  /\ \A tables : B32!Merged(tables) = Merged(tables)
  /\ \A of : B32!M(of) = M(of) /\ B32!C(of) = C(of) /\ B32!V(of) = V(of)
BY DEF Merged, B32!Merged, M, B32!M, C, B32!C, V, B32!V

-----------------------------------------------------------------------------
(* The prototypes, group by group: both files declare the same, and no       *)
(* function twice.                                                           *)
Prototypes ==
  <<B64!threadpool_fns, B64!sha256_hash_fn, B64!sysrand_fn, B64!bn254_msm_fn,
    B64!eth_bls_codec_fns, B64!eth_bls_fns, B64!eth_kzg_fns,
    B64!kzg_context_fns, B64!eth_kzg_parallel_fns, B64!peerdas_fns,
    B64!evm_fns, B64!evm_bls12381_fns>>

LEMMA SamePrototypes ==
  Prototypes =
    <<B32!threadpool_fns, B32!sha256_hash_fn, B32!sysrand_fn,
      B32!bn254_msm_fn, B32!eth_bls_codec_fns, B32!eth_bls_fns,
      B32!eth_kzg_fns, B32!kzg_context_fns, B32!eth_kzg_parallel_fns,
      B32!peerdas_fns, B32!evm_fns, B32!evm_bls12381_fns>>
<1>1. B64!threadpool_fns = B32!threadpool_fns
  BY Within64, Within32 DEF B64!threadpool_fns, B32!threadpool_fns
<1>2. B64!sha256_hash_fn = B32!sha256_hash_fn
  BY Within64, Within32 DEF B64!sha256_hash_fn, B32!sha256_hash_fn
<1>3. B64!sysrand_fn = B32!sysrand_fn
  BY Within64, Within32 DEF B64!sysrand_fn, B32!sysrand_fn
<1>4. B64!bn254_msm_fn = B32!bn254_msm_fn
  BY Within64, Within32 DEF B64!bn254_msm_fn, B32!bn254_msm_fn
<1>5. B64!eth_bls_codec_fns = B32!eth_bls_codec_fns
  BY Within64, Within32 DEF B64!eth_bls_codec_fns, B32!eth_bls_codec_fns
<1>6. B64!eth_bls_fns = B32!eth_bls_fns
  BY Within64, Within32 DEF B64!eth_bls_fns, B32!eth_bls_fns
<1>7. B64!eth_kzg_fns = B32!eth_kzg_fns
  BY Within64, Within32 DEF B64!eth_kzg_fns, B32!eth_kzg_fns
<1>8. B64!kzg_context_fns = B32!kzg_context_fns
  BY Within64, Within32 DEF B64!kzg_context_fns, B32!kzg_context_fns
<1>9. B64!eth_kzg_parallel_fns = B32!eth_kzg_parallel_fns
  BY Within64, Within32 DEF B64!eth_kzg_parallel_fns, B32!eth_kzg_parallel_fns
<1>10. B64!peerdas_fns = B32!peerdas_fns
  BY Within64, Within32 DEF B64!peerdas_fns, B32!peerdas_fns
<1>11. B64!evm_fns = B32!evm_fns
  BY Within64, Within32 DEF B64!evm_fns, B32!evm_fns
<1>12. B64!evm_bls12381_fns = B32!evm_bls12381_fns
  BY Within64, Within32 DEF B64!evm_bls12381_fns, B32!evm_bls12381_fns
<1> QED
  BY <1>1, <1>2, <1>3, <1>4, <1>5, <1>6, <1>7, <1>8, <1>9, <1>10, <1>11, <1>12
     DEF Prototypes

LEMMA PrototypeNames ==
  /\ DOMAIN Prototypes = 1..12
  /\ DOMAIN Prototypes[1] =
       {"ctt_threadpool_new", "ctt_threadpool_shutdown",
        "ctt_cpu_get_num_threads_os"}
  /\ DOMAIN Prototypes[2] =
       {"ctt_sha256_hash"}
  /\ DOMAIN Prototypes[3] =
       {"ctt_csprng_sysrand"}
  /\ DOMAIN Prototypes[4] =
       {"ctt_bn254_snarks_g1_prj_multi_scalar_mul_fr_coefs_vartime_parallel"}
  /\ DOMAIN Prototypes[5] =
       {"ctt_eth_bls_pubkey_is_zero", "ctt_eth_bls_signature_is_zero",
        "ctt_eth_bls_pubkeys_are_equal", "ctt_eth_bls_signatures_are_equal",
        "ctt_eth_bls_validate_seckey", "ctt_eth_bls_validate_pubkey",
        "ctt_eth_bls_validate_signature", "ctt_eth_bls_serialize_seckey",
        "ctt_eth_bls_serialize_pubkey_compressed",
        "ctt_eth_bls_serialize_signature_compressed",
        "ctt_eth_bls_deserialize_seckey",
        "ctt_eth_bls_deserialize_pubkey_compressed_unchecked",
        "ctt_eth_bls_deserialize_signature_compressed_unchecked",
        "ctt_eth_bls_deserialize_pubkey_compressed",
        "ctt_eth_bls_deserialize_signature_compressed",
        "ctt_eth_bls_derive_pubkey"}
  /\ DOMAIN Prototypes[6] =
       {"ctt_eth_bls_free_batch_sig_accumulator",
        "ctt_eth_bls_final_verify_batch_sig_accumulator", "ctt_eth_bls_sign",
        "ctt_eth_bls_verify", "ctt_eth_bls_fast_aggregate_verify",
        "ctt_eth_bls_aggregate_verify", "ctt_eth_bls_batch_verify",
        "ctt_eth_bls_alloc_batch_sig_accumulator",
        "ctt_eth_bls_init_batch_sig_accumulator",
        "ctt_eth_bls_update_batch_sig_accumulator",
        "ctt_eth_bls_batch_verify_parallel"}
  /\ DOMAIN Prototypes[7] =
       {"ctt_eth_kzg_blob_to_kzg_commitment",
        "ctt_eth_kzg_compute_kzg_proof", "ctt_eth_kzg_verify_kzg_proof",
        "ctt_eth_kzg_compute_blob_kzg_proof",
        "ctt_eth_kzg_verify_blob_kzg_proof",
        "ctt_eth_kzg_verify_blob_kzg_proof_batch"}
  /\ DOMAIN Prototypes[8] =
       {"ctt_eth_kzg_context_new", "ctt_eth_kzg_context_new_with_precompute",
        "ctt_eth_kzg_context_delete"}
  /\ DOMAIN Prototypes[9] =
       {"ctt_eth_kzg_blob_to_kzg_commitment_parallel",
        "ctt_eth_kzg_compute_kzg_proof_parallel",
        "ctt_eth_kzg_compute_blob_kzg_proof_parallel",
        "ctt_eth_kzg_verify_blob_kzg_proof_parallel",
        "ctt_eth_kzg_verify_blob_kzg_proof_batch_parallel"}
  /\ DOMAIN Prototypes[10] =
       {"ctt_eth_kzg_compute_cells_and_kzg_proofs",
        "ctt_eth_kzg_verify_cell_kzg_proof_batch",
        "ctt_eth_kzg_recover_cells_and_kzg_proofs"}
  /\ DOMAIN Prototypes[11] =
       {"ctt_eth_evm_sha256", "ctt_eth_evm_ripemd160",
        "ctt_eth_evm_modexp_result_size", "ctt_eth_evm_modexp",
        "ctt_eth_evm_bn254_g1add", "ctt_eth_evm_bn254_g1mul",
        "ctt_eth_evm_bn254_ecpairingcheck", "ctt_eth_evm_bls12381_g1add"}
  /\ DOMAIN Prototypes[12] =
       {"ctt_eth_evm_bls12381_g2add", "ctt_eth_evm_bls12381_g1mul",
        "ctt_eth_evm_bls12381_g2mul", "ctt_eth_evm_bls12381_g1msm",
        "ctt_eth_evm_bls12381_g2msm", "ctt_eth_evm_bls12381_pairingcheck",
        "ctt_eth_evm_bls12381_map_fp_to_g1",
        "ctt_eth_evm_bls12381_map_fp2_to_g2",
        "ctt_eth_evm_kzg_point_evaluation"}
<1>1. DOMAIN Prototypes = 1..12
  BY DEF Prototypes
<1> QED
  BY <1>1 DEF Prototypes, B64!threadpool_fns, B64!sha256_hash_fn, B64!sysrand_fn,
        B64!bn254_msm_fn, B64!eth_bls_codec_fns, B64!eth_bls_fns,
        B64!eth_kzg_fns, B64!kzg_context_fns, B64!eth_kzg_parallel_fns,
        B64!peerdas_fns, B64!evm_fns, B64!evm_bls12381_fns

LEMMA DeclaredOnce ==
  ASSUME NEW i \in DOMAIN Prototypes, NEW fn \in DOMAIN Prototypes[i],
         NEW j \in DOMAIN Prototypes, fn \in DOMAIN Prototypes[j]
  PROVE  j = i
BY PrototypeNames

(* Where a function is declared says what it takes, on every target.         *)
Takes(fn, params) == \A b \in Builds : Targets[b].prototypes[fn] = params

LEMMA OnTargets ==
  ASSUME NEW b \in Builds
  PROVE  /\ Targets[b].prototypes = Merged(Prototypes)
         /\ Targets[b].opaque = {"ctt_threadpool", "ctt_eth_bls_batch_sig_accumulator",
                                  "ctt_eth_kzg_context", "c_void", "c_char"}
         /\ Targets[b].types = TypesOf(b, Include(b.word, Declarations64, Declarations32))
<1>1. Declarations64.prototypes = Merged(Prototypes)
  BY Within64 DEF Declarations64, B64!prototypes, Prototypes
<1>2. Declarations32.prototypes = Merged(Prototypes)
  <2>1. B32!prototypes = Merged(Prototypes)
    BY Within32, SamePrototypes DEF B32!prototypes
  <2> QED
    BY <2>1 DEF Declarations32
<1>3. Declarations64.opaque = B64!Opaque /\ Declarations32.opaque = B64!Opaque
  BY DEF Declarations64, Declarations32, B64!Opaque, B32!Opaque
<1> DEFINE declared == Include(b.word, Declarations64, Declarations32)
<1>4. declared = Declarations64 \/ declared = Declarations32
  BY DEF Include
<1>5. Targets[b] = [types |-> TypesOf(b, declared), structs |-> declared.structs,
                    prototypes |-> declared.prototypes, opaque |-> declared.opaque,
                    word |-> declared.word]
  BY DEF Targets
<1> HIDE DEF declared
<1>6. declared.prototypes = Merged(Prototypes) /\ declared.opaque = B64!Opaque
  BY <1>1, <1>2, <1>3, <1>4
<1>7. /\ Targets[b].prototypes = declared.prototypes /\ Targets[b].opaque = declared.opaque
      /\ Targets[b].types = TypesOf(b, declared)
  BY <1>5
<1> QED
  BY <1>6, <1>7 DEF declared, B64!Opaque

LEMMA TakenFrom ==
  ASSUME NEW i \in 1..12, NEW fn \in DOMAIN Prototypes[i]
  PROVE  Takes(fn, Prototypes[i][fn])
<1>1. i \in DOMAIN Prototypes
  BY PrototypeNames
<1>2. Merged(Prototypes)[fn] = Prototypes[i][fn]
  BY <1>1, DeclaredOnce, MergedAt
<1> QED
  BY <1>2, OnTargets DEF Takes

-----------------------------------------------------------------------------
(* The structs, group by group, under the same names in both files.          *)
StructNames ==
  <<{"ctt_keccak256_context"},
    {"ctt_sha256_context"},
    {"big381", "big255", "big254", "big253"},
    {"bls12_381_fr", "bls12_381_fp", "bls12_381_fp2", "bls12_381_g1_aff",
     "bls12_381_g1_jac", "bls12_381_g1_prj", "bls12_381_g2_aff",
     "bls12_381_g2_jac", "bls12_381_g2_prj"},
    {"bn254_snarks_fr", "bn254_snarks_fp", "bn254_snarks_fp2",
     "bn254_snarks_g1_aff", "bn254_snarks_g1_jac", "bn254_snarks_g1_prj",
     "bn254_snarks_g2_aff", "bn254_snarks_g2_jac", "bn254_snarks_g2_prj"},
    {"pallas_fr", "pallas_fp", "pallas_ec_aff", "pallas_ec_jac",
     "pallas_ec_prj"},
    {"vesta_fr", "vesta_fp", "vesta_ec_aff", "vesta_ec_jac", "vesta_ec_prj"},
    {"banderwagon_fr", "banderwagon_fp", "banderwagon_ec_aff",
     "banderwagon_ec_jac", "banderwagon_ec_prj"},
    {"ctt_eth_bls_fp", "ctt_eth_bls_fp2", "ctt_eth_bls_seckey",
     "ctt_eth_bls_pubkey", "ctt_eth_bls_signature"},
    {"ctt_span"},
    {"ctt_eth_kzg_commitment", "ctt_eth_kzg_proof", "ctt_eth_kzg_blob",
     "ctt_eth_kzg_opening_challenge", "ctt_eth_kzg_eval_at_challenge"},
    {"ctt_eth_kzg_cell"}>>
Structs64 ==
  <<B64!keccak256_context, B64!sha256_context, B64!bigints, B64!bls12_381,
    B64!bn254_snarks, B64!pallas, B64!vesta, B64!banderwagon, B64!eth_bls,
    B64!span, B64!eth_kzg, B64!kzg_cell>>
Structs32 ==
  <<B32!keccak256_context, B32!sha256_context, B32!bigints, B32!bls12_381,
    B32!bn254_snarks, B32!pallas, B32!vesta, B32!banderwagon, B32!eth_bls,
    B32!span, B32!eth_kzg, B32!kzg_cell>>

PrimitiveNames == {"u8", "byte", "u32", "u64", "usize", "secret_word", "pointer"}

LEMMA NamesApart ==
  /\ DOMAIN StructNames = 1..12
  /\ \A i, j \in 1..12 : \A s \in StructNames[i] : s \in StructNames[j] => j = i
  /\ \A i \in 1..12 : \A s \in StructNames[i] : s \notin PrimitiveNames /\ s # "CttSpan"
<1>1. \A i, j \in 1..12 : \A s \in StructNames[i] : s \in StructNames[j] => j = i
  BY DEF StructNames
<1>2. \A i \in 1..12 : \A s \in StructNames[i] : s \notin PrimitiveNames /\ s # "CttSpan"
  BY DEF StructNames, PrimitiveNames
<1> QED
  BY <1>1, <1>2 DEF StructNames

LEMMA Named64 ==
  /\ DOMAIN Structs64 = 1..12
  /\ \A k \in 1..12 : DOMAIN Structs64[k] = StructNames[k]
<1>1. DOMAIN B64!keccak256_context = StructNames[1]
  BY DEF B64!keccak256_context, StructNames
<1>2. DOMAIN B64!sha256_context = StructNames[2]
  BY DEF B64!sha256_context, StructNames
<1>3. DOMAIN B64!bigints = StructNames[3]
  BY DEF B64!bigints, StructNames
<1>4. DOMAIN B64!bls12_381 = StructNames[4]
  BY DEF B64!bls12_381, StructNames
<1>5. DOMAIN B64!bn254_snarks = StructNames[5]
  BY DEF B64!bn254_snarks, StructNames
<1>6. DOMAIN B64!pallas = StructNames[6]
  BY DEF B64!pallas, StructNames
<1>7. DOMAIN B64!vesta = StructNames[7]
  BY DEF B64!vesta, StructNames
<1>8. DOMAIN B64!banderwagon = StructNames[8]
  BY DEF B64!banderwagon, StructNames
<1>9. DOMAIN B64!eth_bls = StructNames[9]
  BY DEF B64!eth_bls, StructNames
<1>10. DOMAIN B64!span = StructNames[10]
  BY DEF B64!span, StructNames
<1>11. DOMAIN B64!eth_kzg = StructNames[11]
  BY DEF B64!eth_kzg, StructNames
<1>12. DOMAIN B64!kzg_cell = StructNames[12]
  BY DEF B64!kzg_cell, StructNames
<1>13. DOMAIN Structs64 = 1..12
  BY DEF Structs64
<1> QED
  BY <1>1, <1>2, <1>3, <1>4, <1>5, <1>6, <1>7, <1>8, <1>9, <1>10, <1>11, <1>12, <1>13
     DEF Structs64

LEMMA Named32 ==
  /\ DOMAIN Structs32 = 1..12
  /\ \A k \in 1..12 : DOMAIN Structs32[k] = StructNames[k]
<1>1. DOMAIN B32!keccak256_context = StructNames[1]
  BY DEF B32!keccak256_context, StructNames
<1>2. DOMAIN B32!sha256_context = StructNames[2]
  BY DEF B32!sha256_context, StructNames
<1>3. DOMAIN B32!bigints = StructNames[3]
  BY DEF B32!bigints, StructNames
<1>4. DOMAIN B32!bls12_381 = StructNames[4]
  BY DEF B32!bls12_381, StructNames
<1>5. DOMAIN B32!bn254_snarks = StructNames[5]
  BY DEF B32!bn254_snarks, StructNames
<1>6. DOMAIN B32!pallas = StructNames[6]
  BY DEF B32!pallas, StructNames
<1>7. DOMAIN B32!vesta = StructNames[7]
  BY DEF B32!vesta, StructNames
<1>8. DOMAIN B32!banderwagon = StructNames[8]
  BY DEF B32!banderwagon, StructNames
<1>9. DOMAIN B32!eth_bls = StructNames[9]
  BY DEF B32!eth_bls, StructNames
<1>10. DOMAIN B32!span = StructNames[10]
  BY DEF B32!span, StructNames
<1>11. DOMAIN B32!eth_kzg = StructNames[11]
  BY DEF B32!eth_kzg, StructNames
<1>12. DOMAIN B32!kzg_cell = StructNames[12]
  BY DEF B32!kzg_cell, StructNames
<1>13. DOMAIN Structs32 = 1..12
  BY DEF Structs32
<1> QED
  BY <1>1, <1>2, <1>3, <1>4, <1>5, <1>6, <1>7, <1>8, <1>9, <1>10, <1>11, <1>12, <1>13
     DEF Structs32

(* One list of all the structs, whichever file declares them.                *)
AllStructs == UNION {StructNames[k] : k \in 1..12}

LEMMA StructAt ==
  ASSUME NEW structs \in {Structs64, Structs32}, NEW i \in 1..12, NEW s \in StructNames[i]
  PROVE  Merged(structs)[s] = structs[i][s]
<1>1. DOMAIN structs = 1..12 /\ \A k \in 1..12 : DOMAIN structs[k] = StructNames[k]
  BY Named64, Named32
<1>2. \A j \in DOMAIN structs : s \in DOMAIN structs[j] => j = i
  BY <1>1, NamesApart
<1>3. i \in DOMAIN structs /\ s \in DOMAIN structs[i]
  BY <1>1
<1> QED
  BY <1>2, <1>3, MergedAt

LEMMA StructsMerged ==
  /\ Declarations64.structs = Merged(Structs64) /\ Declarations32.structs = Merged(Structs32)
  /\ DOMAIN Merged(Structs64) = AllStructs /\ DOMAIN Merged(Structs32) = AllStructs
<1>1. Declarations64.structs = Merged(Structs64)
  BY Within64 DEF Declarations64, B64!structs, Structs64
<1>2. Declarations32.structs = Merged(Structs32)
  BY Within32 DEF Declarations32, B32!structs, Structs32
<1>3. DOMAIN Merged(Structs64) = AllStructs
  <2>1. {DOMAIN Structs64[k] : k \in DOMAIN Structs64} = {StructNames[k] : k \in 1..12}
    BY Named64
  <2> QED
    BY <2>1, MergedDomain DEF AllStructs
<1>4. DOMAIN Merged(Structs32) = AllStructs
  <2>1. {DOMAIN Structs32[k] : k \in DOMAIN Structs32} = {StructNames[k] : k \in 1..12}
    BY Named32
  <2> QED
    BY <2>1, MergedDomain DEF AllStructs
<1> QED
  BY <1>1, <1>2, <1>3, <1>4

(* The type table of a target: primitives, structs as declared, CttSpan.     *)
LEMMA TypeAt ==
  ASSUME NEW b \in Builds
  PROVE  /\ \A p \in PrimitiveNames :
               Targets[b].types[p] = Primitive(b.word, b.align64)[p]
         /\ Targets[b].types["CttSpan"] = CttSpan(Primitive(b.word, b.align64))
         /\ \A i \in 1..12 : \A s \in StructNames[i] :
              LET declared == IF b.word = 8 THEN Structs64 ELSE Structs32
              IN  /\ Targets[b].types[s].size = declared[i][s].size
                  /\ Targets[b].types[s].align = declared[i][s].align
<1> DEFINE primitive == Primitive(b.word, b.align64)
           declared == Include(b.word, Declarations64, Declarations32)
           table == IF b.word = 8 THEN Structs64 ELSE Structs32
           structs == [s \in DOMAIN declared.structs |->
                         [size |-> declared.structs[s].size, align |-> declared.structs[s].align]]
           span == [CttSpan |-> CttSpan(primitive)]
           tables == <<primitive, structs, span>>
<1>1. Targets[b].types = Merged(tables)
  BY OnTargets DEF TypesOf
<1>2. /\ DOMAIN primitive = PrimitiveNames
      /\ DOMAIN span = {"CttSpan"} /\ span["CttSpan"] = CttSpan(primitive)
  BY DEF Primitive, PrimitiveNames
<1>3. declared.structs = Merged(table) /\ table \in {Structs64, Structs32}
  BY StructsMerged DEF Include
<1> HIDE DEF primitive, declared, table, span
<1>4. /\ DOMAIN structs = AllStructs
      /\ \A s \in AllStructs : structs[s] = [size |-> Merged(table)[s].size,
                                           align |-> Merged(table)[s].align]
  BY <1>3, StructsMerged
<1> HIDE DEF structs
<1>5. /\ DOMAIN tables = 1..3
      /\ tables[1] = primitive /\ tables[2] = structs /\ tables[3] = span
  OBVIOUS
<1> HIDE DEF tables
<1>6. "CttSpan" \notin PrimitiveNames
  BY DEF PrimitiveNames
<1>7. \A s \in AllStructs : s \notin PrimitiveNames /\ s # "CttSpan"
  BY NamesApart DEF AllStructs
<1>8. ASSUME NEW p \in PrimitiveNames
      PROVE  Merged(tables)[p] = primitive[p]
  <2>1. \A j \in DOMAIN tables : p \in DOMAIN tables[j] => j = 1
    BY <1>2, <1>4, <1>5, <1>6, <1>7
  <2> QED
    BY <1>2, <1>5, <2>1, MergedAt
<1>9. Merged(tables)["CttSpan"] = CttSpan(primitive)
  <2>1. \A j \in DOMAIN tables : "CttSpan" \in DOMAIN tables[j] => j = 3
    BY <1>2, <1>4, <1>5, <1>6, <1>7
  <2>2. 3 \in DOMAIN tables /\ "CttSpan" \in DOMAIN tables[3]
    BY <1>2, <1>5
  <2>3. Merged(tables)["CttSpan"] = tables[3]["CttSpan"]
    BY <2>1, <2>2, MergedAt
  <2> QED
    BY <1>2, <1>5, <2>3
<1>10. ASSUME NEW i \in 1..12, NEW s \in StructNames[i]
       PROVE  /\ Merged(tables)[s].size = table[i][s].size
              /\ Merged(tables)[s].align = table[i][s].align
  <2>1. s \in AllStructs
    BY DEF AllStructs
  <2>2. \A j \in DOMAIN tables : s \in DOMAIN tables[j] => j = 2
    BY <1>2, <1>4, <1>5, <1>7, <2>1
  <2>3. 2 \in DOMAIN tables /\ s \in DOMAIN tables[2]
    BY <1>4, <1>5, <2>1
  <2>4. Merged(tables)[s] = structs[s]
    BY <1>5, <2>2, <2>3, MergedAt
  <2>5. Merged(table)[s] = table[i][s]
    BY <1>3, StructAt
  <2> QED
    BY <1>4, <2>1, <2>4, <2>5
<1> QED
  BY <1>1, <1>8, <1>9, <1>10 DEF primitive, table

-----------------------------------------------------------------------------
(* The layout rules.                                                         *)
LEMMA RoundUpFacts ==
  ASSUME NEW a \in Nat \ {0}
  PROVE  /\ \A n \in Nat : RoundUp(n, a) \in Nat
         /\ \A k \in Nat : RoundUp(k * a, a) = k * a
<1>1. ASSUME NEW n \in Nat
      PROVE  RoundUp(n, a) \in Nat
  <2> DEFINE q == (n + a - 1) \div a
  <2>1. q \in Nat
    BY SMT
  <2> HIDE DEF q
  <2>2. q * a \in Nat
    BY <2>1, SMT
  <2> QED
    BY <2>2 DEF RoundUp, q
<1>2. ASSUME NEW k \in Nat
      PROVE  RoundUp(k * a, a) = k * a
  <2>1. k * a \in Int /\ a - 1 \in 0 .. a - 1
    BY SMT
  <2>2. (k * a + (a - 1)) \div a = k
    BY SMTT(30)
  <2>3. k * a + a - 1 = k * a + (a - 1)
    BY <2>1
  <2> QED
    BY <2>2, <2>3 DEF RoundUp
<1> QED
  BY <1>1, <1>2

(* Fields of known types.                                                    *)
KnownTypes(T, fields) ==
  \A i \in 1..Len(fields) :
    /\ fields[i].n \in Nat
    /\ T[fields[i].of].size \in Nat /\ T[fields[i].of].align \in Nat \ {0}
Ending(h, T, fields) ==
  h = [i \in 0..Len(fields) |->
         IF i = 0 THEN 0
         ELSE RoundUp(h[i - 1], T[fields[i].of].align) + fields[i].n * T[fields[i].of].size]

LEMMA EndsExist ==
  ASSUME NEW T, NEW fields, Len(fields) \in Nat, KnownTypes(T, fields)
  PROVE  \E h : Ending(h, T, fields)
<1> DEFINE n == Len(fields)
           step == [i \in 1..n |->
                      [a \in Nat |-> RoundUp(a, T[fields[i].of].align)
                                       + fields[i].n * T[fields[i].of].size]]
<1>1. step \in [1..n -> [Nat -> Nat]]
  <2>1. ASSUME NEW i \in 1..n, NEW a \in Nat
        PROVE  RoundUp(a, T[fields[i].of].align) + fields[i].n * T[fields[i].of].size \in Nat
    <3>1. RoundUp(a, T[fields[i].of].align) \in Nat
      BY RoundUpFacts DEF KnownTypes
    <3>2. fields[i].n * T[fields[i].of].size \in Nat
      BY SMT DEF KnownTypes
    <3> QED
      BY <3>1, <3>2
  <2> QED
    BY <2>1
<1>2. PICK h \in [0..n -> Nat] : Follows(h, n, 0, step)
  <2> HIDE DEF step
  <2> QED
    <3>1. n \in Nat /\ 0 \in Nat
      OBVIOUS
    <3> HIDE DEF n
    <3> QED
      BY <1>1, <3>1, Recursion
<1>3. ASSUME NEW i \in 1..n
      PROVE  h[i] = RoundUp(h[i - 1], T[fields[i].of].align)
                      + fields[i].n * T[fields[i].of].size
  <2>1. i - 1 \in 0..n
    OBVIOUS
  <2>2. h[i - 1] \in Nat
    BY <2>1
  <2> QED
    BY <1>2, <2>2 DEF Follows
<1>4. h = [i \in 0..n |->
             IF i = 0 THEN 0
             ELSE RoundUp(h[i - 1], T[fields[i].of].align)
                    + fields[i].n * T[fields[i].of].size]
  BY <1>2, <1>3 DEF Follows
<1> QED
  BY <1>4 DEF Ending

LEMMA FieldEndsFacts ==
  ASSUME NEW T, NEW fields, Len(fields) \in Nat, KnownTypes(T, fields)
  PROVE  /\ FieldEnds(T, fields)[0] = 0
         /\ \A i \in 1..Len(fields) :
              FieldEnds(T, fields)[i]
                = RoundUp(FieldEnds(T, fields)[i - 1], T[fields[i].of].align)
                    + fields[i].n * T[fields[i].of].size
<1> DEFINE h == FieldEnds(T, fields)
<1>1. h = CHOOSE g : Ending(g, T, fields)
  BY DEF FieldEnds, Ending
<1>2. Ending(h, T, fields)
  BY <1>1, EndsExist
<1> HIDE DEF h
<1>3. h[0] = 0 /\ \A i \in 1..Len(fields) :
         h[i] = RoundUp(h[i - 1], T[fields[i].of].align) + fields[i].n * T[fields[i].of].size
  BY <1>2 DEF Ending
<1> QED
  BY <1>3 DEF h

LEMMA Targeted ==
  ASSUME NEW b \in Builds
  PROVE  \/ b.word = 8 /\ b.align64 = 8
         \/ b.word = 4 /\ b.align64 \in {4, 8}
BY DEF Builds

(* The span that the BLS crate declares itself.                              *)
LEMMA SpanLayout ==
  ASSUME NEW b \in Builds
  PROVE  CttSpan(Primitive(b.word, b.align64)) = [size |-> 2 * b.word, align |-> b.word]
<1> DEFINE T == Primitive(b.word, b.align64)
           fields == <<Field("pointer", 1), Field("usize", 1)>>
           w == b.word
<1>1. /\ T["pointer"] = [size |-> w, align |-> w] /\ T["usize"] = [size |-> w, align |-> w]
      /\ Len(fields) = 2
      /\ fields[1].of = "pointer" /\ fields[1].n = 1 /\ fields[2].of = "usize" /\ fields[2].n = 1
  BY DEF Primitive, Field
<1>2. w \in {4, 8}
  BY Targeted
<1> HIDE DEF T, fields, w
<1>3. KnownTypes(T, fields)
  BY <1>1, <1>2 DEF KnownTypes
<1>4. /\ FieldEnds(T, fields)[0] = 0
      /\ FieldEnds(T, fields)[1] = RoundUp(0, w) + 1 * w
      /\ FieldEnds(T, fields)[2] = RoundUp(FieldEnds(T, fields)[1], w) + 1 * w
  BY <1>1, <1>3, FieldEndsFacts
<1>5. FieldEnds(T, fields)[2] = 2 * w
  <2>1. RoundUp(0, w) = 0 /\ RoundUp(w, w) = w
    BY <1>2 DEF RoundUp
  <2> QED
    BY <1>2, <1>4, <2>1
<1> DEFINE s == Struct(1, fields, 0, 0, <<>>)
<1>6. s.fields = fields /\ s.repr_align = 1
  BY DEF Struct
<1>7. CttSpan(T) = [size |-> StructSize(T, s), align |-> StructAlign(T, s)]
  BY DEF CttSpan, fields
<1> HIDE DEF s
<1>8. StructAlign(T, s) = w
  <2> DEFINE A == {s.repr_align} \union {T[s.fields[i].of].align : i \in 1..Len(s.fields)}
  <2>1. A = {1, w}
    <3>1. T[s.fields[1].of].align = w /\ T[s.fields[2].of].align = w /\ Len(s.fields) = 2
      BY <1>1, <1>6
    <3> QED
      BY <1>6, <3>1
  <2>2. Max({1, w}) = w
    <3>1. \A x \in {1, w} : (\A y \in {1, w} : x >= y) <=> x = w
      BY <1>2
    <3> QED
      BY <3>1, Zenon DEF Max
  <2> QED
    BY <2>1, <2>2 DEF StructAlign
<1>9. StructSize(T, s) = 2 * w
  <2>1. StructSize(T, s) = RoundUp(2 * w, w)
    BY <1>1, <1>5, <1>6, <1>8 DEF StructSize
  <2>2. RoundUp(2 * w, w) = 2 * w
    BY <1>2 DEF RoundUp
  <2> QED
    BY <2>1, <2>2
<1> QED
  BY <1>7, <1>8, <1>9 DEF T, w

-----------------------------------------------------------------------------
(* The types that the wrappers' pointers and the buffers behind them have.   *)
Layout(of, size, align) ==
  \A b \in Builds : Targets[b].types[of].size = size /\ Targets[b].types[of].align = align

LEMMA DeclaredLayout ==
  ASSUME NEW i \in 1..12, NEW s \in StructNames[i], NEW size, NEW align,
         Structs64[i][s].size = size, Structs64[i][s].align = align,
         Structs32[i][s].size = size, Structs32[i][s].align = align
  PROVE  Layout(s, size, align)
<1> SUFFICES ASSUME NEW b \in Builds
             PROVE  Targets[b].types[s].size = size /\ Targets[b].types[s].align = align
  BY DEF Layout
<1> DEFINE table == IF b.word = 8 THEN Structs64 ELSE Structs32
<1>1. /\ Targets[b].types[s].size = table[i][s].size
      /\ Targets[b].types[s].align = table[i][s].align
  BY TypeAt
<1>2. table = Structs64 \/ table = Structs32
  OBVIOUS
<1> HIDE DEF table
<1> QED
  BY <1>1, <1>2

LEMMA BytesLayout == Layout("u8", 1, 1) /\ Layout("byte", 1, 1)
<1>1. ASSUME NEW b \in Builds
      PROVE  /\ Targets[b].types["u8"] = [size |-> 1, align |-> 1]
             /\ Targets[b].types["byte"] = [size |-> 1, align |-> 1]
  <2>1. "u8" \in PrimitiveNames /\ "byte" \in PrimitiveNames
    BY DEF PrimitiveNames
  <2>2. /\ Primitive(b.word, b.align64)["u8"] = [size |-> 1, align |-> 1]
        /\ Primitive(b.word, b.align64)["byte"] = [size |-> 1, align |-> 1]
    BY DEF Primitive
  <2> QED
    BY <2>1, <2>2, TypeAt
<1> QED
  BY <1>1 DEF Layout

LEMMA BlsLayout ==
  /\ Layout("ctt_eth_bls_seckey", 32, 1)
  /\ Layout("ctt_eth_bls_pubkey", 96, 1)
  /\ Layout("ctt_eth_bls_signature", 192, 1)
<1>1. /\ Structs64[9]["ctt_eth_bls_seckey"].size = 32
      /\ Structs64[9]["ctt_eth_bls_seckey"].align = 1
      /\ Structs64[9]["ctt_eth_bls_pubkey"].size = 96
      /\ Structs64[9]["ctt_eth_bls_pubkey"].align = 1
      /\ Structs64[9]["ctt_eth_bls_signature"].size = 192
      /\ Structs64[9]["ctt_eth_bls_signature"].align = 1
  <2>1. Structs64[9] = B64!eth_bls
    BY DEF Structs64
  <2> QED
    BY <2>1 DEF B64!eth_bls, B64!Bytes, B64!Affine, B64!Array, B64!Struct
<1>2. /\ Structs32[9]["ctt_eth_bls_seckey"].size = 32
      /\ Structs32[9]["ctt_eth_bls_seckey"].align = 1
      /\ Structs32[9]["ctt_eth_bls_pubkey"].size = 96
      /\ Structs32[9]["ctt_eth_bls_pubkey"].align = 1
      /\ Structs32[9]["ctt_eth_bls_signature"].size = 192
      /\ Structs32[9]["ctt_eth_bls_signature"].align = 1
  <2>1. Structs32[9] = B32!eth_bls
    BY DEF Structs32
  <2> QED
    BY <2>1 DEF B32!eth_bls, B32!Bytes, B32!Affine, B32!Array, B32!Struct
<1>3. /\ "ctt_eth_bls_seckey" \in StructNames[9]
      /\ "ctt_eth_bls_pubkey" \in StructNames[9]
      /\ "ctt_eth_bls_signature" \in StructNames[9]
      /\ 9 \in 1..12
  BY DEF StructNames
<1> QED
  BY <1>1, <1>2, <1>3, DeclaredLayout

LEMMA KzgLayout ==
  /\ Layout("ctt_eth_kzg_commitment", 48, 1)
  /\ Layout("ctt_eth_kzg_proof", 48, 1)
  /\ Layout("ctt_eth_kzg_blob", 131072, 1)
  /\ Layout("ctt_eth_kzg_opening_challenge", 32, 1)
  /\ Layout("ctt_eth_kzg_eval_at_challenge", 32, 1)
  /\ Layout("ctt_eth_kzg_cell", 2048, 1)
<1> DEFINE Same(i, s, size) ==
             /\ Structs64[i][s].size = size /\ Structs64[i][s].align = 1
             /\ Structs32[i][s].size = size /\ Structs32[i][s].align = 1
<1>1. /\ Same(11, "ctt_eth_kzg_commitment", 48)
      /\ Same(11, "ctt_eth_kzg_proof", 48)
      /\ Same(11, "ctt_eth_kzg_blob", 131072)
      /\ Same(11, "ctt_eth_kzg_opening_challenge", 32)
      /\ Same(11, "ctt_eth_kzg_eval_at_challenge", 32)
  <2>1. Structs64[11] = B64!eth_kzg /\ Structs32[11] = B32!eth_kzg
    BY DEF Structs64, Structs32
  <2> QED
    BY <2>1 DEF B64!eth_kzg, B64!Bytes, B64!Array, B64!Struct,
                B32!eth_kzg, B32!Bytes, B32!Array, B32!Struct
<1>2. Same(12, "ctt_eth_kzg_cell", 2048)
  <2>1. Structs64[12] = B64!kzg_cell /\ Structs32[12] = B32!kzg_cell
    BY DEF Structs64, Structs32
  <2> QED
    BY <2>1 DEF B64!kzg_cell, B64!Bytes, B64!Array, B64!Struct,
                B32!kzg_cell, B32!Bytes, B32!Array, B32!Struct
<1>3. /\ "ctt_eth_kzg_commitment" \in StructNames[11]
      /\ "ctt_eth_kzg_proof" \in StructNames[11]
      /\ "ctt_eth_kzg_blob" \in StructNames[11]
      /\ "ctt_eth_kzg_opening_challenge" \in StructNames[11]
      /\ "ctt_eth_kzg_eval_at_challenge" \in StructNames[11]
      /\ "ctt_eth_kzg_cell" \in StructNames[12]
      /\ 11 \in 1..12 /\ 12 \in 1..12
  BY DEF StructNames
<1> QED
  BY <1>1, <1>2, <1>3, DeclaredLayout

(* Types whose size or alignment is the target's: u64, the two spans, and    *)
(* the curve points that a halo2 slice is cast to.                           *)
Typed(b, of, size, align) ==
  Targets[b].types[of].size = size /\ Targets[b].types[of].align = align

LEMMA WordLayout ==
  ASSUME NEW b \in Builds
  PROVE  /\ Typed(b, "u64", 8, b.align64)
         /\ Typed(b, "CttSpan", 2 * b.word, b.word)
         /\ Typed(b, "ctt_span", 2 * b.word, b.word)
         /\ Typed(b, "bn254_snarks_fr", 32, b.word)
         /\ Typed(b, "bn254_snarks_g1_aff", 64, b.word)
         /\ Typed(b, "bn254_snarks_g1_prj", 96, b.word)
<1>1. Typed(b, "u64", 8, b.align64)
  <2>1. "u64" \in PrimitiveNames
    BY DEF PrimitiveNames
  <2>2. Primitive(b.word, b.align64)["u64"] = [size |-> 8, align |-> b.align64]
    BY DEF Primitive
  <2> QED
    BY <2>1, <2>2, TypeAt DEF Typed
<1>2. Typed(b, "CttSpan", 2 * b.word, b.word)
  <2>1. CttSpan(Primitive(b.word, b.align64)) = [size |-> 2 * b.word, align |-> b.word]
    BY SpanLayout
  <2>2. Targets[b].types["CttSpan"] = CttSpan(Primitive(b.word, b.align64))
    BY TypeAt
  <2>3. Targets[b].types["CttSpan"] = [size |-> 2 * b.word, align |-> b.word]
    BY <2>1, <2>2
  <2> QED
    BY <2>3 DEF Typed
<1> DEFINE table == IF b.word = 8 THEN Structs64 ELSE Structs32
<1>3. ASSUME NEW i \in 1..12, NEW s \in StructNames[i]
      PROVE  Typed(b, s, table[i][s].size, table[i][s].align)
  BY TypeAt DEF Typed
<1>4. /\ "ctt_span" \in StructNames[10]
      /\ "bn254_snarks_fr" \in StructNames[5]
      /\ "bn254_snarks_g1_aff" \in StructNames[5]
      /\ "bn254_snarks_g1_prj" \in StructNames[5]
      /\ 5 \in 1..12 /\ 10 \in 1..12
  BY DEF StructNames
<1>5. /\ table[10]["ctt_span"].size = 2 * b.word
      /\ table[10]["ctt_span"].align = b.word
  <2>1. Structs64[10] = B64!span /\ Structs32[10] = B32!span
    BY DEF Structs64, Structs32
  <2>2. /\ B64!span["ctt_span"].size = 16 /\ B64!span["ctt_span"].align = 8
        /\ B32!span["ctt_span"].size = 8 /\ B32!span["ctt_span"].align = 4
    BY DEF B64!span, B64!Struct, B32!span, B32!Struct
  <2> QED
    BY <2>1, <2>2, Targeted
<1>6. /\ table[5]["bn254_snarks_fr"].size = 32
      /\ table[5]["bn254_snarks_fr"].align = b.word
      /\ table[5]["bn254_snarks_g1_aff"].size = 64
      /\ table[5]["bn254_snarks_g1_aff"].align = b.word
      /\ table[5]["bn254_snarks_g1_prj"].size = 96
      /\ table[5]["bn254_snarks_g1_prj"].align = b.word
  <2>1. Structs64[5] = B64!bn254_snarks /\ Structs32[5] = B32!bn254_snarks
    BY DEF Structs64, Structs32
  <2>2. /\ B64!bn254_snarks["bn254_snarks_fr"].size = 32
        /\ B64!bn254_snarks["bn254_snarks_fr"].align = 8
        /\ B64!bn254_snarks["bn254_snarks_g1_aff"].size = 64
        /\ B64!bn254_snarks["bn254_snarks_g1_aff"].align = 8
        /\ B64!bn254_snarks["bn254_snarks_g1_prj"].size = 96
        /\ B64!bn254_snarks["bn254_snarks_g1_prj"].align = 8
    BY DEF B64!bn254_snarks, B64!Limbs, B64!Array, B64!Affine, B64!Projective, B64!Struct
  <2>3. /\ B32!bn254_snarks["bn254_snarks_fr"].size = 32
        /\ B32!bn254_snarks["bn254_snarks_fr"].align = 4
        /\ B32!bn254_snarks["bn254_snarks_g1_aff"].size = 64
        /\ B32!bn254_snarks["bn254_snarks_g1_aff"].align = 4
        /\ B32!bn254_snarks["bn254_snarks_g1_prj"].size = 96
        /\ B32!bn254_snarks["bn254_snarks_g1_prj"].align = 4
    BY DEF B32!bn254_snarks, B32!Limbs, B32!Array, B32!Affine, B32!Projective, B32!Struct
  <2> QED
    BY <2>1, <2>2, <2>3, Targeted
<1> HIDE DEF table
<1>7. /\ Typed(b, "ctt_span", 2 * b.word, b.word)
      /\ Typed(b, "bn254_snarks_fr", 32, b.word)
      /\ Typed(b, "bn254_snarks_g1_aff", 64, b.word)
      /\ Typed(b, "bn254_snarks_g1_prj", 96, b.word)
  BY <1>3, <1>4, <1>5, <1>6
<1> QED
  BY <1>1, <1>2, <1>7

-----------------------------------------------------------------------------
(* One argument against one parameter, on every target.                      *)
Fit(param, arg, reach) == \A b \in Builds : Fits(Targets[b], param, arg, reach)
OpaqueTypes == {"ctt_threadpool", "ctt_eth_bls_batch_sig_accumulator", "ctt_eth_kzg_context"}
Pointee(of) == of \notin OpaqueTypes /\ of \notin Untyped

LEMMA FitValue ==
  ASSUME NEW of, NEW v, NEW reach
  PROVE  Fit(V(of), Value(v), reach)
BY DEF Fit, Fits, V, Value

LEMMA FitHandle ==
  ASSUME NEW of \in OpaqueTypes, NEW h, NEW reach
  PROVE  Fit(C(of), Handle(h), reach)
<1>1. ASSUME NEW b \in Builds
      PROVE  Fits(Targets[b], C(of), Handle(h), reach)
  <2>1. of \in Targets[b].opaque \ Untyped
    BY OnTargets DEF OpaqueTypes, Untyped
  <2>2. C(of).mode = "const" /\ C(of).of = of /\ Handle(h).kind = "handle"
    BY DEF C, Handle
  <2> QED
    BY <2>1, <2>2 DEF Fits
<1> QED
  BY <1>1 DEF Fit

(* Memory behind a pointer: `unit' is the size of what it is memory for.     *)
Reaching(b, pointee, n, of, reach, exact) ==
  /\ Targets[b].types[of].align % Targets[b].types[pointee].align = 0
  /\ IF exact THEN n * Targets[b].types[of].size = reach * Targets[b].types[pointee].size
     ELSE n * Targets[b].types[of].size >= reach * Targets[b].types[pointee].size

LEMMA FitMemory ==
  ASSUME NEW pointee, Pointee(pointee), NEW n, NEW of, NEW reach, NEW exact \in BOOLEAN,
         \A b \in Builds : Reaching(b, pointee, n, of, reach, exact)
  PROVE  IF exact THEN Fit(M(pointee), Memory(n, of), reach)
         ELSE Fit(C(pointee), Memory(n, of), reach)
<1>1. ASSUME NEW b \in Builds
      PROVE  IF exact THEN Fits(Targets[b], M(pointee), Memory(n, of), reach)
             ELSE Fits(Targets[b], C(pointee), Memory(n, of), reach)
  <2>1. pointee \notin Targets[b].opaque \ Untyped /\ pointee \notin Untyped
    BY OnTargets DEF OpaqueTypes, Untyped, Pointee
  <2>2. /\ M(pointee).mode = "mut" /\ M(pointee).of = pointee
        /\ C(pointee).mode = "const" /\ C(pointee).of = pointee
        /\ Memory(n, of).kind = "memory" /\ Memory(n, of).n = n /\ Memory(n, of).of = of
    BY DEF M, C, Memory
  <2>3. Reaching(b, pointee, n, of, reach, exact)
    OBVIOUS
  <2> QED
    BY <2>1, <2>2, <2>3 DEF Fits, Reaching
<1> QED
  BY <1>1 DEF Fit

(* Types of alignment 1 have the same size everywhere.                       *)
LEMMA FitFlat ==
  ASSUME NEW pointee, Pointee(pointee), NEW size \in Nat, Layout(pointee, size, 1),
         NEW of, NEW unit \in Nat, Layout(of, unit, 1), NEW n \in Nat, NEW reach \in Nat
  PROVE  /\ n * unit = reach * size => Fit(M(pointee), Memory(n, of), reach)
         /\ n * unit >= reach * size => Fit(C(pointee), Memory(n, of), reach)
<1>1. ASSUME NEW b \in Builds
      PROVE  /\ n * unit = reach * size => Reaching(b, pointee, n, of, reach, TRUE)
             /\ n * unit >= reach * size => Reaching(b, pointee, n, of, reach, FALSE)
  <2>1. /\ Targets[b].types[pointee].size = size /\ Targets[b].types[pointee].align = 1
        /\ Targets[b].types[of].size = unit /\ Targets[b].types[of].align = 1
    BY DEF Layout
  <2> QED
    BY <2>1 DEF Reaching
<1>2. ASSUME n * unit = reach * size
      PROVE  Fit(M(pointee), Memory(n, of), reach)
  <2>1. \A b \in Builds : Reaching(b, pointee, n, of, reach, TRUE)
    BY <1>1, <1>2
  <2> QED
    BY <2>1, FitMemory
<1>3. ASSUME n * unit >= reach * size
      PROVE  Fit(C(pointee), Memory(n, of), reach)
  <2>1. \A b \in Builds : Reaching(b, pointee, n, of, reach, FALSE)
    BY <1>1, <1>3
  <2> QED
    BY <2>1, FitMemory
<1> QED
  BY <1>2, <1>3

(* Types that the target lays out.                                           *)
LEMMA FitWords ==
  ASSUME NEW n \in Nat
  PROVE  /\ Fit(M("u64"), Memory(n, "u64"), n)
         /\ Fit(C("u64"), Memory(n, "u64"), n)
         /\ Fit(C("ctt_span"), Memory(n, "CttSpan"), n)
         /\ Fit(M("bn254_snarks_g1_prj"), Memory(n, "bn254_snarks_g1_prj"), n)
         /\ Fit(C("bn254_snarks_fr"), Memory(4 * n, "u64"), n)
         /\ Fit(C("bn254_snarks_g1_aff"), Memory(8 * n, "u64"), n)
<1>1. /\ Pointee("u64") /\ Pointee("ctt_span") /\ Pointee("bn254_snarks_g1_prj")
      /\ Pointee("bn254_snarks_fr") /\ Pointee("bn254_snarks_g1_aff")
  BY DEF Pointee, OpaqueTypes, Untyped
<1>2. ASSUME NEW b \in Builds
      PROVE  /\ Reaching(b, "u64", n, "u64", n, TRUE)
             /\ Reaching(b, "u64", n, "u64", n, FALSE)
             /\ Reaching(b, "ctt_span", n, "CttSpan", n, FALSE)
             /\ Reaching(b, "bn254_snarks_g1_prj", n, "bn254_snarks_g1_prj", n, TRUE)
             /\ Reaching(b, "bn254_snarks_fr", 4 * n, "u64", n, FALSE)
             /\ Reaching(b, "bn254_snarks_g1_aff", 8 * n, "u64", n, FALSE)
  <2>1. \/ b.word = 8 /\ b.align64 = 8
        \/ b.word = 4 /\ b.align64 = 4
        \/ b.word = 4 /\ b.align64 = 8
    BY Targeted
  <2>2. /\ Typed(b, "u64", 8, b.align64)
        /\ Typed(b, "CttSpan", 2 * b.word, b.word)
        /\ Typed(b, "ctt_span", 2 * b.word, b.word)
        /\ Typed(b, "bn254_snarks_fr", 32, b.word)
        /\ Typed(b, "bn254_snarks_g1_aff", 64, b.word)
        /\ Typed(b, "bn254_snarks_g1_prj", 96, b.word)
    BY WordLayout
  <2>3. 8 % 8 = 0 /\ 4 % 4 = 0 /\ 8 % 4 = 0
    OBVIOUS
  <2> QED
    BY <2>1, <2>2, <2>3 DEF Reaching, Typed
<1> QED
  BY <1>1, <1>2, FitMemory

(* Buffers of bytes, for one struct each and for a slice of n.               *)
LEMMA FitBytes ==
  ASSUME NEW n \in Nat
  PROVE  /\ Fit(M("byte"), ByteArray(n), n) /\ Fit(C("byte"), ByteArray(n), n)
         /\ Fit(M("byte"), Memory(n, "byte"), n) /\ Fit(C("byte"), Memory(n, "byte"), n)
<1>1. Pointee("byte")
  BY DEF Pointee, OpaqueTypes, Untyped
<1>2. /\ Fit(M("byte"), Memory(n, "u8"), n) /\ Fit(C("byte"), Memory(n, "u8"), n)
      /\ Fit(M("byte"), Memory(n, "byte"), n) /\ Fit(C("byte"), Memory(n, "byte"), n)
  <2>1. n * 1 = n * 1 /\ n * 1 >= n * 1
    OBVIOUS
  <2> QED
    BY <1>1, <2>1, BytesLayout, FitFlat
<1> QED
  BY <1>2 DEF ByteArray

LEMMA FitUntyped ==
  ASSUME NEW n \in Nat
  PROVE  Fit(M("c_void"), ByteArray(n), n)
<1>1. ASSUME NEW b \in Builds
      PROVE  Fits(Targets[b], M("c_void"), Memory(n, "u8"), n)
  <2>1. /\ Targets[b].types["u8"].size = 1 /\ Targets[b].types["u8"].align = 1
        /\ Targets[b].types["byte"].size = 1 /\ Targets[b].types["byte"].align = 1
    BY BytesLayout DEF Layout
  <2>2. "c_void" \in Untyped
    BY DEF Untyped
  <2>3. M("c_void").mode = "mut" /\ M("c_void").of = "c_void"
    BY DEF M
  <2>4. Memory(n, "u8").kind = "memory" /\ Memory(n, "u8").n = n /\ Memory(n, "u8").of = "u8"
    BY DEF Memory
  <2>5. n * 1 = n * 1 /\ 1 % 1 = 0
    OBVIOUS
  <2> QED
    BY <2>1, <2>2, <2>3, <2>4, <2>5 DEF Fits
<1> QED
  BY <1>1 DEF Fit, ByteArray

(* A struct of the KZG interface, from bytes.                                *)
LEMMA FitStruct ==
  ASSUME NEW of, Pointee(of), NEW size \in Nat, Layout(of, size, 1), NEW n \in Nat
  PROVE  /\ Fit(C(of), Slice(n, size), n)
         /\ \A k \in Nat : k = n * size => Fit(M(of), ByteArray(k), n) /\ Fit(C(of), ByteArray(k), n)
<1>1. ASSUME NEW k \in Nat, k = n * size
      PROVE  Fit(M(of), Memory(k, "u8"), n) /\ Fit(C(of), Memory(k, "u8"), n)
  <2>1. k * 1 = n * size /\ k * 1 >= n * size
    BY <1>1, SMT
  <2> QED
    BY <2>1, BytesLayout, FitFlat
<1>2. n * size \in Nat
  BY SMT
<1>3. Fit(C(of), Memory(n * size, "u8"), n)
  BY <1>1, <1>2
<1> QED
  BY <1>1, <1>3 DEF Slice, ByteArray

(* Values of the BLS crate, which hold the library's own structs.            *)
LEMMA FitOwn ==
  ASSUME NEW of, Pointee(of), NEW size \in Nat, Layout(of, size, 1), NEW n \in Nat
  PROVE  Fit(M(of), Memory(n, of), n) /\ Fit(C(of), Memory(n, of), n)
<1>1. n * size = n * size /\ n * size >= n * size
  BY SMT
<1> QED
  BY <1>1, FitFlat

-----------------------------------------------------------------------------
(* A call whose arguments match the prototype on every target.               *)
Sound(c) == c.fn # "" => \A b \in Builds : CallFits(Targets[b], c)

(* A wrapper's own n arguments, against the parameters behind the first k.   *)
Listed(n, args, reach) ==
  /\ args \in Seq(Range(args)) /\ Len(args) = n
  /\ reach \in Seq(Range(reach)) /\ Len(reach) = n
Accepts(k, n, params, args, reach) ==
  Len(params) = k + n /\ \A i \in 1..n : Fit(params[k + i], args[i], reach[i])

LEMMA TupleList ==
  ASSUME NEW S, NEW s \in Seq(S)
  PROVE  s \in Seq(Range(s))
<1>1. Len(s) \in Nat /\ s = [i \in 1..Len(s) |-> s[i]]
  OBVIOUS
<1>2. \A i \in 1..Len(s) : s[i] \in Range(s)
  BY DEF Range
<1> QED
  BY <1>1, <1>2

LEMMA Concatenated ==
  ASSUME NEW S, NEW s \in Seq(S), NEW t \in Seq(S)
  PROVE  /\ Len(s \o t) = Len(s) + Len(t)
         /\ \A i \in 1 .. Len(s) + Len(t) :
              (s \o t)[i] = IF i <= Len(s) THEN s[i] ELSE t[i - Len(s)]
OBVIOUS

LEMMA SoundCall ==
  ASSUME NEW n \in Nat, NEW fn, NEW params, NEW args, NEW reach, Takes(fn, params),
         Listed(n, args, reach), Accepts(0, n, params, args, reach),
         NEW c, c.fn = fn, c.args = args, c.reach = reach
  PROVE  Sound(c)
<1> SUFFICES ASSUME NEW b \in Builds
             PROVE  CallFits(Targets[b], c)
  BY DEF Sound
<1>1. Targets[b].prototypes[fn] = params
  BY DEF Takes
<1>2. Len(params) = n /\ Len(args) = n
  BY DEF Listed, Accepts
<1>3. ASSUME NEW i \in 1..n
      PROVE  Fits(Targets[b], params[i], args[i], reach[i])
  <2>1. Fit(params[0 + i], args[i], reach[i])
    BY DEF Accepts
  <2> QED
    BY <2>1 DEF Fit
<1> QED
  BY <1>1, <1>2, <1>3 DEF CallFits

(* The handles go before the wrapper's own arguments.                        *)
Untouched(before) == [i \in 1..Len(before) |-> 0]

LEMMA SoundBehind ==
  ASSUME NEW n \in Nat, NEW k \in Nat, NEW fn, NEW params, NEW args, NEW reach,
         Takes(fn, params), Listed(n, args, reach), Accepts(k, n, params, args, reach),
         NEW before, before \in Seq(Range(before)), Len(before) = k,
         \A i \in 1..k : Fit(params[i], before[i], 0),
         NEW c, c.fn = fn, c.args = before \o args,
         c.reach = Untouched(before) \o reach
  PROVE  Sound(c)
<1> DEFINE zeros == Untouched(before)
<1>1. zeros \in Seq({0}) /\ Len(zeros) = k /\ \A i \in 1..k : zeros[i] = 0
  BY DEF Untouched
<1> HIDE DEF zeros
<1>2. /\ args \in Seq(Range(args)) /\ Len(args) = n
      /\ reach \in Seq(Range(reach)) /\ Len(reach) = n /\ Len(params) = k + n
  BY DEF Listed, Accepts
<1>3. /\ Len(before \o args) = k + n
      /\ \A i \in 1 .. k + n :
           (before \o args)[i] = IF i <= k THEN before[i] ELSE args[i - k]
  <2> DEFINE S == Range(before) \union Range(args)
  <2>1. before \in Seq(S) /\ args \in Seq(S)
    BY <1>2
  <2> HIDE DEF S
  <2> QED
    BY <1>2, <2>1, Concatenated, ZenonT(30)
<1>4. /\ Len(zeros \o reach) = k + n
      /\ \A i \in 1 .. k + n :
           (zeros \o reach)[i] = IF i <= k THEN 0 ELSE reach[i - k]
  <2> DEFINE S == {0} \union Range(reach)
  <2>1. zeros \in Seq(S) /\ reach \in Seq(S)
    BY <1>1, <1>2
  <2>2. /\ Len(zeros \o reach) = Len(zeros) + Len(reach)
        /\ \A i \in 1 .. Len(zeros) + Len(reach) :
             (zeros \o reach)[i] = IF i <= Len(zeros) THEN zeros[i] ELSE reach[i - Len(zeros)]
    BY <2>1, Concatenated
  <2> HIDE DEF S
  <2> QED
    BY <1>1, <1>2, <2>2
<1>5. ASSUME NEW i \in 1 .. k + n
      PROVE  Fit(params[i], (before \o args)[i], (zeros \o reach)[i])
  <2>1. CASE i <= k
    BY <1>3, <1>4, <2>1
  <2>2. CASE ~(i <= k)
    <3>1. i - k \in 1..n /\ k + (i - k) = i
      BY <2>2
    <3>2. Fit(params[k + (i - k)], args[i - k], reach[i - k])
      BY <3>1 DEF Accepts
    <3> QED
      BY <1>3, <1>4, <2>2, <3>1, <3>2
  <2> QED
    BY <2>1, <2>2
<1> SUFFICES ASSUME NEW b \in Builds
             PROVE  CallFits(Targets[b], c)
  BY DEF Sound
<1>6. Targets[b].prototypes[fn] = params
  BY DEF Takes
<1>7. ASSUME NEW i \in 1..Len(params)
      PROVE  Fits(Targets[b], params[i], c.args[i], c.reach[i])
  <2>1. Fit(params[i], c.args[i], c.reach[i])
    BY <1>2, <1>5 DEF zeros
  <2> QED
    BY <2>1 DEF Fit
<1> QED
  BY <1>2, <1>3, <1>6, <1>7 DEF CallFits

LEMMA SoundNothing ==
  ASSUME NEW c, c.fn = ""
  PROVE  Sound(c)
BY DEF Sound

-----------------------------------------------------------------------------
(* What the functions that the crates call take.                             *)
LEMMA CoreTakes ==
  /\ Takes("ctt_cpu_get_num_threads_os", <<>>)
  /\ Takes("ctt_csprng_sysrand", <<M("c_void"), V("usize")>>)
  /\ Takes("ctt_bn254_snarks_g1_prj_multi_scalar_mul_fr_coefs_vartime_parallel",
           <<C("ctt_threadpool"), M("bn254_snarks_g1_prj"), C("bn254_snarks_fr"),
             C("bn254_snarks_g1_aff"), V("usize")>>)
<1>1. Takes("ctt_cpu_get_num_threads_os", <<>>)
  <2>1. Prototypes[1]["ctt_cpu_get_num_threads_os"] = <<>>
    BY Within64 DEF Prototypes, B64!threadpool_fns
  <2>2. 1 \in 1..12 /\ \A fn \in
         {"ctt_cpu_get_num_threads_os"} : fn \in DOMAIN Prototypes[1]
    BY PrototypeNames
  <2> QED
    BY <2>1, <2>2, TakenFrom
<1>2. Takes("ctt_csprng_sysrand", <<M("c_void"), V("usize")>>)
  <2>1. Prototypes[3]["ctt_csprng_sysrand"] = <<M("c_void"), V("usize")>>
    BY Within64 DEF Prototypes, B64!sysrand_fn
  <2>2. 3 \in 1..12 /\ \A fn \in
         {"ctt_csprng_sysrand"} : fn \in DOMAIN Prototypes[3]
    BY PrototypeNames
  <2> QED
    BY <2>1, <2>2, TakenFrom
<1>3. Takes("ctt_bn254_snarks_g1_prj_multi_scalar_mul_fr_coefs_vartime_parallel",
             <<C("ctt_threadpool"), M("bn254_snarks_g1_prj"), C("bn254_snarks_fr"),
               C("bn254_snarks_g1_aff"), V("usize")>>)
  <2>1. Prototypes[4]["ctt_bn254_snarks_g1_prj_multi_scalar_mul_fr_coefs_vartime_parallel"] =
              <<C("ctt_threadpool"), M("bn254_snarks_g1_prj"), C("bn254_snarks_fr"),
                C("bn254_snarks_g1_aff"), V("usize")>>
    BY Within64 DEF Prototypes, B64!bn254_msm_fn
  <2>2. 4 \in 1..12 /\ \A fn \in
         {"ctt_bn254_snarks_g1_prj_multi_scalar_mul_fr_coefs_vartime_parallel"} : fn \in DOMAIN Prototypes[4]
    BY PrototypeNames
  <2> QED
    BY <2>1, <2>2, TakenFrom
<1> QED
  BY <1>1, <1>2, <1>3

LEMMA BlsTakes ==
  /\ Takes("ctt_sha256_hash", <<M("byte"), C("byte"), V("usize"), V("bool")>>)
  /\ Takes("ctt_eth_bls_pubkeys_are_equal",
           <<C("ctt_eth_bls_pubkey"), C("ctt_eth_bls_pubkey")>>)
  /\ Takes("ctt_eth_bls_signatures_are_equal",
           <<C("ctt_eth_bls_signature"), C("ctt_eth_bls_signature")>>)
  /\ Takes("ctt_eth_bls_validate_seckey", <<C("ctt_eth_bls_seckey")>>)
  /\ Takes("ctt_eth_bls_validate_pubkey", <<C("ctt_eth_bls_pubkey")>>)
  /\ Takes("ctt_eth_bls_validate_signature", <<C("ctt_eth_bls_signature")>>)
  /\ Takes("ctt_eth_bls_serialize_seckey", <<M("byte"), C("ctt_eth_bls_seckey")>>)
  /\ Takes("ctt_eth_bls_serialize_pubkey_compressed",
           <<M("byte"), C("ctt_eth_bls_pubkey")>>)
  /\ Takes("ctt_eth_bls_serialize_signature_compressed",
           <<M("byte"), C("ctt_eth_bls_signature")>>)
  /\ Takes("ctt_eth_bls_deserialize_seckey", <<M("ctt_eth_bls_seckey"), C("byte")>>)
  /\ Takes("ctt_eth_bls_deserialize_pubkey_compressed_unchecked",
           <<M("ctt_eth_bls_pubkey"), C("byte")>>)
  /\ Takes("ctt_eth_bls_deserialize_signature_compressed_unchecked",
           <<M("ctt_eth_bls_signature"), C("byte")>>)
  /\ Takes("ctt_eth_bls_deserialize_pubkey_compressed",
           <<M("ctt_eth_bls_pubkey"), C("byte")>>)
  /\ Takes("ctt_eth_bls_deserialize_signature_compressed",
           <<M("ctt_eth_bls_signature"), C("byte")>>)
  /\ Takes("ctt_eth_bls_derive_pubkey",
           <<M("ctt_eth_bls_pubkey"), C("ctt_eth_bls_seckey")>>)
  /\ Takes("ctt_eth_bls_sign",
           <<M("ctt_eth_bls_signature"), C("ctt_eth_bls_seckey"), C("byte"), V("usize")>>)
  /\ Takes("ctt_eth_bls_verify",
           <<C("ctt_eth_bls_pubkey"), C("byte"), V("usize"), C("ctt_eth_bls_signature")>>)
  /\ Takes("ctt_eth_bls_fast_aggregate_verify",
           <<C("ctt_eth_bls_pubkey"), V("usize"), C("byte"), V("usize"),
             C("ctt_eth_bls_signature")>>)
  /\ Takes("ctt_eth_bls_aggregate_verify",
           <<C("ctt_eth_bls_pubkey"), C("ctt_span"), V("usize"),
             C("ctt_eth_bls_signature")>>)
  /\ Takes("ctt_eth_bls_batch_verify",
           <<C("ctt_eth_bls_pubkey"), C("ctt_span"), C("ctt_eth_bls_signature"),
             V("usize"), C("byte")>>)
  /\ Takes("ctt_eth_bls_batch_verify_parallel",
           <<C("ctt_threadpool"), C("ctt_eth_bls_pubkey"), C("ctt_span"),
             C("ctt_eth_bls_signature"), V("usize"), C("byte")>>)
<1>1. Takes("ctt_sha256_hash", <<M("byte"), C("byte"), V("usize"), V("bool")>>)
  <2>1. Prototypes[2]["ctt_sha256_hash"] =
              <<M("byte"), C("byte"), V("usize"), V("bool")>>
    BY Within64 DEF Prototypes, B64!sha256_hash_fn
  <2>2. 2 \in 1..12 /\ \A fn \in
         {"ctt_sha256_hash"} : fn \in DOMAIN Prototypes[2]
    BY PrototypeNames
  <2> QED
    BY <2>1, <2>2, TakenFrom
<1>2. /\ Takes("ctt_eth_bls_pubkeys_are_equal",
                <<C("ctt_eth_bls_pubkey"), C("ctt_eth_bls_pubkey")>>)
      /\ Takes("ctt_eth_bls_signatures_are_equal",
                <<C("ctt_eth_bls_signature"), C("ctt_eth_bls_signature")>>)
      /\ Takes("ctt_eth_bls_validate_seckey", <<C("ctt_eth_bls_seckey")>>)
      /\ Takes("ctt_eth_bls_validate_pubkey", <<C("ctt_eth_bls_pubkey")>>)
      /\ Takes("ctt_eth_bls_validate_signature", <<C("ctt_eth_bls_signature")>>)
      /\ Takes("ctt_eth_bls_serialize_seckey", <<M("byte"), C("ctt_eth_bls_seckey")>>)
      /\ Takes("ctt_eth_bls_serialize_pubkey_compressed",
                <<M("byte"), C("ctt_eth_bls_pubkey")>>)
      /\ Takes("ctt_eth_bls_serialize_signature_compressed",
                <<M("byte"), C("ctt_eth_bls_signature")>>)
      /\ Takes("ctt_eth_bls_deserialize_seckey", <<M("ctt_eth_bls_seckey"), C("byte")>>)
      /\ Takes("ctt_eth_bls_deserialize_pubkey_compressed_unchecked",
                <<M("ctt_eth_bls_pubkey"), C("byte")>>)
      /\ Takes("ctt_eth_bls_deserialize_signature_compressed_unchecked",
                <<M("ctt_eth_bls_signature"), C("byte")>>)
      /\ Takes("ctt_eth_bls_deserialize_pubkey_compressed",
                <<M("ctt_eth_bls_pubkey"), C("byte")>>)
      /\ Takes("ctt_eth_bls_deserialize_signature_compressed",
                <<M("ctt_eth_bls_signature"), C("byte")>>)
      /\ Takes("ctt_eth_bls_derive_pubkey",
                <<M("ctt_eth_bls_pubkey"), C("ctt_eth_bls_seckey")>>)
  <2>1. /\ Prototypes[5]["ctt_eth_bls_pubkeys_are_equal"] =
              <<C("ctt_eth_bls_pubkey"), C("ctt_eth_bls_pubkey")>>
        /\ Prototypes[5]["ctt_eth_bls_signatures_are_equal"] =
              <<C("ctt_eth_bls_signature"), C("ctt_eth_bls_signature")>>
        /\ Prototypes[5]["ctt_eth_bls_validate_seckey"] = <<C("ctt_eth_bls_seckey")>>
        /\ Prototypes[5]["ctt_eth_bls_validate_pubkey"] = <<C("ctt_eth_bls_pubkey")>>
        /\ Prototypes[5]["ctt_eth_bls_validate_signature"] = <<C("ctt_eth_bls_signature")>>
        /\ Prototypes[5]["ctt_eth_bls_serialize_seckey"] =
              <<M("byte"), C("ctt_eth_bls_seckey")>>
        /\ Prototypes[5]["ctt_eth_bls_serialize_pubkey_compressed"] =
              <<M("byte"), C("ctt_eth_bls_pubkey")>>
        /\ Prototypes[5]["ctt_eth_bls_serialize_signature_compressed"] =
              <<M("byte"), C("ctt_eth_bls_signature")>>
        /\ Prototypes[5]["ctt_eth_bls_deserialize_seckey"] =
              <<M("ctt_eth_bls_seckey"), C("byte")>>
        /\ Prototypes[5]["ctt_eth_bls_deserialize_pubkey_compressed_unchecked"] =
              <<M("ctt_eth_bls_pubkey"), C("byte")>>
        /\ Prototypes[5]["ctt_eth_bls_deserialize_signature_compressed_unchecked"] =
              <<M("ctt_eth_bls_signature"), C("byte")>>
        /\ Prototypes[5]["ctt_eth_bls_deserialize_pubkey_compressed"] =
              <<M("ctt_eth_bls_pubkey"), C("byte")>>
        /\ Prototypes[5]["ctt_eth_bls_deserialize_signature_compressed"] =
              <<M("ctt_eth_bls_signature"), C("byte")>>
        /\ Prototypes[5]["ctt_eth_bls_derive_pubkey"] =
              <<M("ctt_eth_bls_pubkey"), C("ctt_eth_bls_seckey")>>
    BY Within64 DEF Prototypes, B64!eth_bls_codec_fns
  <2>2. 5 \in 1..12 /\ \A fn \in
         {"ctt_eth_bls_pubkeys_are_equal", "ctt_eth_bls_signatures_are_equal",
          "ctt_eth_bls_validate_seckey", "ctt_eth_bls_validate_pubkey",
          "ctt_eth_bls_validate_signature", "ctt_eth_bls_serialize_seckey",
          "ctt_eth_bls_serialize_pubkey_compressed",
          "ctt_eth_bls_serialize_signature_compressed",
          "ctt_eth_bls_deserialize_seckey",
          "ctt_eth_bls_deserialize_pubkey_compressed_unchecked",
          "ctt_eth_bls_deserialize_signature_compressed_unchecked",
          "ctt_eth_bls_deserialize_pubkey_compressed",
          "ctt_eth_bls_deserialize_signature_compressed",
          "ctt_eth_bls_derive_pubkey"} : fn \in DOMAIN Prototypes[5]
    BY PrototypeNames
  <2> QED
    BY <2>1, <2>2, TakenFrom
<1>3. /\ Takes("ctt_eth_bls_sign",
                <<M("ctt_eth_bls_signature"), C("ctt_eth_bls_seckey"), C("byte"),
                  V("usize")>>)
      /\ Takes("ctt_eth_bls_verify",
                <<C("ctt_eth_bls_pubkey"), C("byte"), V("usize"),
                  C("ctt_eth_bls_signature")>>)
      /\ Takes("ctt_eth_bls_fast_aggregate_verify",
                <<C("ctt_eth_bls_pubkey"), V("usize"), C("byte"), V("usize"),
                  C("ctt_eth_bls_signature")>>)
      /\ Takes("ctt_eth_bls_aggregate_verify",
                <<C("ctt_eth_bls_pubkey"), C("ctt_span"), V("usize"),
                  C("ctt_eth_bls_signature")>>)
      /\ Takes("ctt_eth_bls_batch_verify",
                <<C("ctt_eth_bls_pubkey"), C("ctt_span"), C("ctt_eth_bls_signature"),
                  V("usize"), C("byte")>>)
      /\ Takes("ctt_eth_bls_batch_verify_parallel",
                <<C("ctt_threadpool"), C("ctt_eth_bls_pubkey"), C("ctt_span"),
                  C("ctt_eth_bls_signature"), V("usize"), C("byte")>>)
  <2>1. /\ Prototypes[6]["ctt_eth_bls_sign"] =
              <<M("ctt_eth_bls_signature"), C("ctt_eth_bls_seckey"), C("byte"),
                V("usize")>>
        /\ Prototypes[6]["ctt_eth_bls_verify"] =
              <<C("ctt_eth_bls_pubkey"), C("byte"), V("usize"),
                C("ctt_eth_bls_signature")>>
        /\ Prototypes[6]["ctt_eth_bls_fast_aggregate_verify"] =
              <<C("ctt_eth_bls_pubkey"), V("usize"), C("byte"), V("usize"),
                C("ctt_eth_bls_signature")>>
        /\ Prototypes[6]["ctt_eth_bls_aggregate_verify"] =
              <<C("ctt_eth_bls_pubkey"), C("ctt_span"), V("usize"),
                C("ctt_eth_bls_signature")>>
        /\ Prototypes[6]["ctt_eth_bls_batch_verify"] =
              <<C("ctt_eth_bls_pubkey"), C("ctt_span"), C("ctt_eth_bls_signature"),
                V("usize"), C("byte")>>
        /\ Prototypes[6]["ctt_eth_bls_batch_verify_parallel"] =
              <<C("ctt_threadpool"), C("ctt_eth_bls_pubkey"), C("ctt_span"),
                C("ctt_eth_bls_signature"), V("usize"), C("byte")>>
    BY Within64 DEF Prototypes, B64!eth_bls_fns
  <2>2. 6 \in 1..12 /\ \A fn \in
         {"ctt_eth_bls_sign", "ctt_eth_bls_verify",
          "ctt_eth_bls_fast_aggregate_verify", "ctt_eth_bls_aggregate_verify",
          "ctt_eth_bls_batch_verify", "ctt_eth_bls_batch_verify_parallel"} : fn \in DOMAIN Prototypes[6]
    BY PrototypeNames
  <2> QED
    BY <2>1, <2>2, TakenFrom
<1> QED
  BY <1>1, <1>2, <1>3

LEMMA KzgTakes ==
  /\ Takes("ctt_eth_kzg_blob_to_kzg_commitment",
           <<C("ctt_eth_kzg_context"), M("ctt_eth_kzg_commitment"), C("ctt_eth_kzg_blob")>>)
  /\ Takes("ctt_eth_kzg_compute_kzg_proof",
           <<C("ctt_eth_kzg_context"), M("ctt_eth_kzg_proof"),
             M("ctt_eth_kzg_eval_at_challenge"), C("ctt_eth_kzg_blob"),
             C("ctt_eth_kzg_opening_challenge")>>)
  /\ Takes("ctt_eth_kzg_verify_kzg_proof",
           <<C("ctt_eth_kzg_context"), C("ctt_eth_kzg_commitment"),
             C("ctt_eth_kzg_opening_challenge"), C("ctt_eth_kzg_eval_at_challenge"),
             C("ctt_eth_kzg_proof")>>)
  /\ Takes("ctt_eth_kzg_compute_blob_kzg_proof",
           <<C("ctt_eth_kzg_context"), M("ctt_eth_kzg_proof"), C("ctt_eth_kzg_blob"),
             C("ctt_eth_kzg_commitment")>>)
  /\ Takes("ctt_eth_kzg_verify_blob_kzg_proof",
           <<C("ctt_eth_kzg_context"), C("ctt_eth_kzg_blob"), C("ctt_eth_kzg_commitment"),
             C("ctt_eth_kzg_proof")>>)
  /\ Takes("ctt_eth_kzg_verify_blob_kzg_proof_batch",
           <<C("ctt_eth_kzg_context"), C("ctt_eth_kzg_blob"), C("ctt_eth_kzg_commitment"),
             C("ctt_eth_kzg_proof"), V("usize"), C("byte")>>)
  /\ Takes("ctt_eth_kzg_blob_to_kzg_commitment_parallel",
           <<C("ctt_threadpool"), C("ctt_eth_kzg_context"), M("ctt_eth_kzg_commitment"),
             C("ctt_eth_kzg_blob")>>)
  /\ Takes("ctt_eth_kzg_compute_kzg_proof_parallel",
           <<C("ctt_threadpool"), C("ctt_eth_kzg_context"), M("ctt_eth_kzg_proof"),
             M("ctt_eth_kzg_eval_at_challenge"), C("ctt_eth_kzg_blob"),
             C("ctt_eth_kzg_opening_challenge")>>)
  /\ Takes("ctt_eth_kzg_compute_blob_kzg_proof_parallel",
           <<C("ctt_threadpool"), C("ctt_eth_kzg_context"), M("ctt_eth_kzg_proof"),
             C("ctt_eth_kzg_blob"), C("ctt_eth_kzg_commitment")>>)
  /\ Takes("ctt_eth_kzg_verify_blob_kzg_proof_parallel",
           <<C("ctt_threadpool"), C("ctt_eth_kzg_context"), C("ctt_eth_kzg_blob"),
             C("ctt_eth_kzg_commitment"), C("ctt_eth_kzg_proof")>>)
  /\ Takes("ctt_eth_kzg_verify_blob_kzg_proof_batch_parallel",
           <<C("ctt_threadpool"), C("ctt_eth_kzg_context"), C("ctt_eth_kzg_blob"),
             C("ctt_eth_kzg_commitment"), C("ctt_eth_kzg_proof"), V("usize"), C("byte")>>)
  /\ Takes("ctt_eth_kzg_compute_cells_and_kzg_proofs",
           <<C("ctt_eth_kzg_context"), M("ctt_eth_kzg_cell"), M("ctt_eth_kzg_proof"),
             C("ctt_eth_kzg_blob")>>)
  /\ Takes("ctt_eth_kzg_verify_cell_kzg_proof_batch",
           <<C("ctt_eth_kzg_context"), C("ctt_eth_kzg_commitment"), C("u64"),
             C("ctt_eth_kzg_cell"), C("ctt_eth_kzg_proof"), V("usize"), C("byte")>>)
  /\ Takes("ctt_eth_kzg_recover_cells_and_kzg_proofs",
           <<C("ctt_eth_kzg_context"), M("ctt_eth_kzg_cell"), M("ctt_eth_kzg_proof"),
             C("u64"), C("ctt_eth_kzg_cell"), V("usize")>>)
<1>1. /\ Takes("ctt_eth_kzg_blob_to_kzg_commitment",
                <<C("ctt_eth_kzg_context"), M("ctt_eth_kzg_commitment"),
                  C("ctt_eth_kzg_blob")>>)
      /\ Takes("ctt_eth_kzg_compute_kzg_proof",
                <<C("ctt_eth_kzg_context"), M("ctt_eth_kzg_proof"),
                  M("ctt_eth_kzg_eval_at_challenge"), C("ctt_eth_kzg_blob"),
                  C("ctt_eth_kzg_opening_challenge")>>)
      /\ Takes("ctt_eth_kzg_verify_kzg_proof",
                <<C("ctt_eth_kzg_context"), C("ctt_eth_kzg_commitment"),
                  C("ctt_eth_kzg_opening_challenge"), C("ctt_eth_kzg_eval_at_challenge"),
                  C("ctt_eth_kzg_proof")>>)
      /\ Takes("ctt_eth_kzg_compute_blob_kzg_proof",
                <<C("ctt_eth_kzg_context"), M("ctt_eth_kzg_proof"), C("ctt_eth_kzg_blob"),
                  C("ctt_eth_kzg_commitment")>>)
      /\ Takes("ctt_eth_kzg_verify_blob_kzg_proof",
                <<C("ctt_eth_kzg_context"), C("ctt_eth_kzg_blob"),
                  C("ctt_eth_kzg_commitment"), C("ctt_eth_kzg_proof")>>)
      /\ Takes("ctt_eth_kzg_verify_blob_kzg_proof_batch",
                <<C("ctt_eth_kzg_context"), C("ctt_eth_kzg_blob"),
                  C("ctt_eth_kzg_commitment"), C("ctt_eth_kzg_proof"), V("usize"),
                  C("byte")>>)
  <2>1. /\ Prototypes[7]["ctt_eth_kzg_blob_to_kzg_commitment"] =
              <<C("ctt_eth_kzg_context"), M("ctt_eth_kzg_commitment"),
                C("ctt_eth_kzg_blob")>>
        /\ Prototypes[7]["ctt_eth_kzg_compute_kzg_proof"] =
              <<C("ctt_eth_kzg_context"), M("ctt_eth_kzg_proof"),
                M("ctt_eth_kzg_eval_at_challenge"), C("ctt_eth_kzg_blob"),
                C("ctt_eth_kzg_opening_challenge")>>
        /\ Prototypes[7]["ctt_eth_kzg_verify_kzg_proof"] =
              <<C("ctt_eth_kzg_context"), C("ctt_eth_kzg_commitment"),
                C("ctt_eth_kzg_opening_challenge"), C("ctt_eth_kzg_eval_at_challenge"),
                C("ctt_eth_kzg_proof")>>
        /\ Prototypes[7]["ctt_eth_kzg_compute_blob_kzg_proof"] =
              <<C("ctt_eth_kzg_context"), M("ctt_eth_kzg_proof"), C("ctt_eth_kzg_blob"),
                C("ctt_eth_kzg_commitment")>>
        /\ Prototypes[7]["ctt_eth_kzg_verify_blob_kzg_proof"] =
              <<C("ctt_eth_kzg_context"), C("ctt_eth_kzg_blob"),
                C("ctt_eth_kzg_commitment"), C("ctt_eth_kzg_proof")>>
        /\ Prototypes[7]["ctt_eth_kzg_verify_blob_kzg_proof_batch"] =
              <<C("ctt_eth_kzg_context"), C("ctt_eth_kzg_blob"),
                C("ctt_eth_kzg_commitment"), C("ctt_eth_kzg_proof"), V("usize"),
                C("byte")>>
    BY Within64 DEF Prototypes, B64!eth_kzg_fns
  <2>2. 7 \in 1..12 /\ \A fn \in
         {"ctt_eth_kzg_blob_to_kzg_commitment", "ctt_eth_kzg_compute_kzg_proof",
          "ctt_eth_kzg_verify_kzg_proof", "ctt_eth_kzg_compute_blob_kzg_proof",
          "ctt_eth_kzg_verify_blob_kzg_proof",
          "ctt_eth_kzg_verify_blob_kzg_proof_batch"} : fn \in DOMAIN Prototypes[7]
    BY PrototypeNames
  <2> QED
    BY <2>1, <2>2, TakenFrom
<1>2. /\ Takes("ctt_eth_kzg_blob_to_kzg_commitment_parallel",
                <<C("ctt_threadpool"), C("ctt_eth_kzg_context"),
                  M("ctt_eth_kzg_commitment"), C("ctt_eth_kzg_blob")>>)
      /\ Takes("ctt_eth_kzg_compute_kzg_proof_parallel",
                <<C("ctt_threadpool"), C("ctt_eth_kzg_context"), M("ctt_eth_kzg_proof"),
                  M("ctt_eth_kzg_eval_at_challenge"), C("ctt_eth_kzg_blob"),
                  C("ctt_eth_kzg_opening_challenge")>>)
      /\ Takes("ctt_eth_kzg_compute_blob_kzg_proof_parallel",
                <<C("ctt_threadpool"), C("ctt_eth_kzg_context"), M("ctt_eth_kzg_proof"),
                  C("ctt_eth_kzg_blob"), C("ctt_eth_kzg_commitment")>>)
      /\ Takes("ctt_eth_kzg_verify_blob_kzg_proof_parallel",
                <<C("ctt_threadpool"), C("ctt_eth_kzg_context"), C("ctt_eth_kzg_blob"),
                  C("ctt_eth_kzg_commitment"), C("ctt_eth_kzg_proof")>>)
      /\ Takes("ctt_eth_kzg_verify_blob_kzg_proof_batch_parallel",
                <<C("ctt_threadpool"), C("ctt_eth_kzg_context"), C("ctt_eth_kzg_blob"),
                  C("ctt_eth_kzg_commitment"), C("ctt_eth_kzg_proof"), V("usize"),
                  C("byte")>>)
  <2>1. /\ Prototypes[9]["ctt_eth_kzg_blob_to_kzg_commitment_parallel"] =
              <<C("ctt_threadpool"), C("ctt_eth_kzg_context"),
                M("ctt_eth_kzg_commitment"), C("ctt_eth_kzg_blob")>>
        /\ Prototypes[9]["ctt_eth_kzg_compute_kzg_proof_parallel"] =
              <<C("ctt_threadpool"), C("ctt_eth_kzg_context"), M("ctt_eth_kzg_proof"),
                M("ctt_eth_kzg_eval_at_challenge"), C("ctt_eth_kzg_blob"),
                C("ctt_eth_kzg_opening_challenge")>>
        /\ Prototypes[9]["ctt_eth_kzg_compute_blob_kzg_proof_parallel"] =
              <<C("ctt_threadpool"), C("ctt_eth_kzg_context"), M("ctt_eth_kzg_proof"),
                C("ctt_eth_kzg_blob"), C("ctt_eth_kzg_commitment")>>
        /\ Prototypes[9]["ctt_eth_kzg_verify_blob_kzg_proof_parallel"] =
              <<C("ctt_threadpool"), C("ctt_eth_kzg_context"), C("ctt_eth_kzg_blob"),
                C("ctt_eth_kzg_commitment"), C("ctt_eth_kzg_proof")>>
        /\ Prototypes[9]["ctt_eth_kzg_verify_blob_kzg_proof_batch_parallel"] =
              <<C("ctt_threadpool"), C("ctt_eth_kzg_context"), C("ctt_eth_kzg_blob"),
                C("ctt_eth_kzg_commitment"), C("ctt_eth_kzg_proof"), V("usize"),
                C("byte")>>
    BY Within64 DEF Prototypes, B64!eth_kzg_parallel_fns
  <2>2. 9 \in 1..12 /\ \A fn \in
         {"ctt_eth_kzg_blob_to_kzg_commitment_parallel",
          "ctt_eth_kzg_compute_kzg_proof_parallel",
          "ctt_eth_kzg_compute_blob_kzg_proof_parallel",
          "ctt_eth_kzg_verify_blob_kzg_proof_parallel",
          "ctt_eth_kzg_verify_blob_kzg_proof_batch_parallel"} : fn \in DOMAIN Prototypes[9]
    BY PrototypeNames
  <2> QED
    BY <2>1, <2>2, TakenFrom
<1>3. /\ Takes("ctt_eth_kzg_compute_cells_and_kzg_proofs",
                <<C("ctt_eth_kzg_context"), M("ctt_eth_kzg_cell"), M("ctt_eth_kzg_proof"),
                  C("ctt_eth_kzg_blob")>>)
      /\ Takes("ctt_eth_kzg_verify_cell_kzg_proof_batch",
                <<C("ctt_eth_kzg_context"), C("ctt_eth_kzg_commitment"), C("u64"),
                  C("ctt_eth_kzg_cell"), C("ctt_eth_kzg_proof"), V("usize"), C("byte")>>)
      /\ Takes("ctt_eth_kzg_recover_cells_and_kzg_proofs",
                <<C("ctt_eth_kzg_context"), M("ctt_eth_kzg_cell"), M("ctt_eth_kzg_proof"),
                  C("u64"), C("ctt_eth_kzg_cell"), V("usize")>>)
  <2>1. /\ Prototypes[10]["ctt_eth_kzg_compute_cells_and_kzg_proofs"] =
              <<C("ctt_eth_kzg_context"), M("ctt_eth_kzg_cell"), M("ctt_eth_kzg_proof"),
                C("ctt_eth_kzg_blob")>>
        /\ Prototypes[10]["ctt_eth_kzg_verify_cell_kzg_proof_batch"] =
              <<C("ctt_eth_kzg_context"), C("ctt_eth_kzg_commitment"), C("u64"),
                C("ctt_eth_kzg_cell"), C("ctt_eth_kzg_proof"), V("usize"), C("byte")>>
        /\ Prototypes[10]["ctt_eth_kzg_recover_cells_and_kzg_proofs"] =
              <<C("ctt_eth_kzg_context"), M("ctt_eth_kzg_cell"), M("ctt_eth_kzg_proof"),
                C("u64"), C("ctt_eth_kzg_cell"), V("usize")>>
    BY Within64 DEF Prototypes, B64!peerdas_fns
  <2>2. 10 \in 1..12 /\ \A fn \in
         {"ctt_eth_kzg_compute_cells_and_kzg_proofs",
          "ctt_eth_kzg_verify_cell_kzg_proof_batch",
          "ctt_eth_kzg_recover_cells_and_kzg_proofs"} : fn \in DOMAIN Prototypes[10]
    BY PrototypeNames
  <2> QED
    BY <2>1, <2>2, TakenFrom
<1> QED
  BY <1>1, <1>2, <1>3

(* The precompiles without a context have one signature.                     *)
Precompiles ==
  {"ctt_eth_evm_sha256", "ctt_eth_evm_ripemd160", "ctt_eth_evm_modexp",
   "ctt_eth_evm_bn254_g1add", "ctt_eth_evm_bn254_g1mul",
   "ctt_eth_evm_bn254_ecpairingcheck", "ctt_eth_evm_bls12381_g1add",
   "ctt_eth_evm_bls12381_g2add", "ctt_eth_evm_bls12381_g1mul",
   "ctt_eth_evm_bls12381_g2mul", "ctt_eth_evm_bls12381_g1msm",
   "ctt_eth_evm_bls12381_g2msm", "ctt_eth_evm_bls12381_pairingcheck",
   "ctt_eth_evm_bls12381_map_fp_to_g1", "ctt_eth_evm_bls12381_map_fp2_to_g2"}

LEMMA EvmTakes ==
  /\ \A fn \in Precompiles : Takes(fn, <<M("byte"), V("usize"), C("byte"), V("usize")>>)
  /\ Takes("ctt_eth_evm_modexp_result_size", <<M("u64"), C("byte"), V("usize")>>)
  /\ Takes("ctt_eth_evm_kzg_point_evaluation",
           <<C("ctt_eth_kzg_context"), M("byte"), V("usize"), C("byte"), V("usize")>>)
<1> DEFINE precompile == <<M("byte"), V("usize"), C("byte"), V("usize")>>
<1>1. ASSUME NEW fn \in Precompiles
      PROVE  \/ fn \in DOMAIN Prototypes[11] /\ Prototypes[11][fn] = precompile
             \/ fn \in DOMAIN Prototypes[12] /\ Prototypes[12][fn] = precompile
  BY Within64 DEF Precompiles, Prototypes, B64!evm_fns, B64!evm_bls12381_fns
<1>2. 11 \in 1..12 /\ 12 \in 1..12
  OBVIOUS
<1> HIDE DEF precompile
<1>3. ASSUME NEW fn \in Precompiles
      PROVE  Takes(fn, precompile)
  BY <1>1, <1>2, TakenFrom
<1>4. Takes("ctt_eth_evm_modexp_result_size", <<M("u64"), C("byte"), V("usize")>>)
  <2>1. Prototypes[11]["ctt_eth_evm_modexp_result_size"] = <<M("u64"), C("byte"), V("usize")>>
    BY Within64 DEF Prototypes, B64!evm_fns
  <2>2. "ctt_eth_evm_modexp_result_size" \in DOMAIN Prototypes[11]
    BY PrototypeNames
  <2> QED
    BY <1>2, <2>1, <2>2, TakenFrom
<1>5. Takes("ctt_eth_evm_kzg_point_evaluation",
            <<C("ctt_eth_kzg_context"), M("byte"), V("usize"), C("byte"), V("usize")>>)
  <2>1. Prototypes[12]["ctt_eth_evm_kzg_point_evaluation"] =
          <<C("ctt_eth_kzg_context"), M("byte"), V("usize"), C("byte"), V("usize")>>
    BY Within64 DEF Prototypes, B64!evm_bls12381_fns
  <2>2. "ctt_eth_evm_kzg_point_evaluation" \in DOMAIN Prototypes[12]
    BY PrototypeNames
  <2> QED
    BY <1>2, <2>1, <2>2, TakenFrom
<1> QED
  BY <1>3, <1>4, <1>5 DEF precompile

-----------------------------------------------------------------------------
(* The layout that the const block after a struct asserts is that of rustc.  *)
LaidOut(T, s) ==
  /\ s.offsets = FieldOffsets(T, s.fields)
  /\ s.align = StructAlign(T, s)
  /\ s.size = StructSize(T, s)

LEMMA LargestIs ==
  ASSUME NEW S \in SUBSET Nat, NEW a \in S, \A x \in S : x <= a
  PROVE  Max(S) = a
<1>1. \A x \in S : (\A y \in S : x >= y) <=> x = a
  OBVIOUS
<1> QED
  BY <1>1, Zenon DEF Max

(* A struct of one to three fields, each of n values of a type, which take   *)
(* `bytes' bytes, a multiple of the alignment: no padding anywhere.          *)
Multiple(bytes, a) ==
  bytes \in Nat /\ a \in Nat \ {0} /\ \A j \in 0..3 : RoundUp(j * bytes, a) = j * bytes
Occupies(T, of, n, bytes, a) ==
  n \in Nat /\ T[of].size \in Nat /\ n * T[of].size = bytes /\ T[of].align = a
Repeats(s, k, of, n) ==
  /\ Len(s.fields) = k
  /\ \A i \in 1..k : s.fields[i].of = of /\ s.fields[i].n = n
  /\ s.repr_align = 1

LEMMA MultiplesFit ==
  ASSUME NEW c \in Nat, NEW a \in Nat \ {0}
  PROVE  Multiple(c * a, a)
<1>1. \A q \in Nat : RoundUp(q * a, a) = q * a
  BY RoundUpFacts
<1>2. c * a \in Nat
  BY SMT
<1>3. ASSUME NEW j \in 0..3
      PROVE  RoundUp(j * (c * a), a) = j * (c * a)
  <2>1. j * c \in Nat /\ (j * c) * a = j * (c * a)
    BY SMT
  <2> QED
    BY <1>1, <2>1
<1> QED
  BY <1>2, <1>3 DEF Multiple

Packed(T, s, k, bytes, a) ==
  /\ FieldOffsets(T, s.fields) = [i \in 1..k |-> (i - 1) * bytes]
  /\ StructAlign(T, s) = a
  /\ StructSize(T, s) = k * bytes

LEMMA RepeatedField ==
  ASSUME NEW T, NEW s, NEW of, NEW n, NEW k \in 1..3, NEW a, NEW bytes,
         Multiple(bytes, a), Occupies(T, of, n, bytes, a), Repeats(s, k, of, n)
  PROVE  Packed(T, s, k, bytes, a)
<1> DEFINE fields == s.fields
           end == FieldEnds(T, fields)
<1>1. bytes \in Nat /\ a \in Nat \ {0} /\ \A j \in 0..3 : RoundUp(j * bytes, a) = j * bytes
  BY DEF Multiple
<1>2. /\ Len(fields) = k /\ s.repr_align = 1
      /\ \A i \in 1..k : fields[i].of = of /\ fields[i].n = n
      /\ n \in Nat /\ T[of].size \in Nat /\ n * T[of].size = bytes /\ T[of].align = a
  BY DEF Repeats, Occupies
<1>3. KnownTypes(T, fields)
  BY <1>1, <1>2 DEF KnownTypes
<1> HIDE DEF fields
<1>4. /\ end[0] = 0
      /\ \A i \in 1..k : end[i] = RoundUp(end[i - 1], a) + bytes
  BY <1>2, <1>3, FieldEndsFacts
<1> HIDE DEF end
<1>5. \A i \in 1..k : end[i] = i * bytes
  <2>1. end[1] = bytes
    <3>1. RoundUp(0, a) = 0 /\ 1 \in 1..k
      BY <1>1
    <3> QED
      BY <1>1, <1>4, <3>1
  <2>2. k >= 2 => end[2] = 2 * bytes
    <3>1. RoundUp(bytes, a) = bytes
      BY <1>1
    <3> QED
      BY <1>1, <1>4, <2>1, <3>1
  <2>3. k >= 3 => end[3] = 3 * bytes
    <3>1. RoundUp(2 * bytes, a) = 2 * bytes
      BY <1>1
    <3> QED
      BY <1>1, <1>4, <2>2, <3>1
  <2> QED
    BY <1>1, <2>1, <2>2, <2>3
<1>6. FieldOffsets(T, fields) = [i \in 1..k |-> (i - 1) * bytes]
  <2>1. \A i \in 1..k : end[i] - fields[i].n * T[fields[i].of].size = (i - 1) * bytes
    <3>1. \A i \in 1..k : i * bytes - bytes = (i - 1) * bytes
      BY <1>1
    <3> QED
      BY <1>2, <1>5, <3>1
  <2> QED
    BY <1>2, <2>1 DEF FieldOffsets, end
<1>7. StructAlign(T, s) = a
  <2> DEFINE A == {s.repr_align} \union {T[fields[i].of].align : i \in 1..Len(fields)}
  <2>1. A = {1, a}
    <3>1. 1 \in 1..k
      OBVIOUS
    <3> QED
      BY <1>2, <3>1
  <2>2. Max({1, a}) = a
    BY <1>1, LargestIs
  <2> QED
    BY <2>1, <2>2 DEF StructAlign, fields
<1>8. StructSize(T, s) = k * bytes
  <2>1. StructSize(T, s) = RoundUp(k * bytes, a)
    <3>1. FieldEnds(T, fields)[Len(fields)] = k * bytes
      BY <1>2, <1>5 DEF end
    <3> QED
      BY <1>7, <3>1 DEF StructSize, fields
  <2> QED
    BY <1>1, <2>1
<1> QED
  BY <1>6, <1>7, <1>8 DEF Packed, fields

LEMMA ArrayLaidOut ==
  ASSUME NEW T, NEW of, NEW n, NEW a, NEW bytes,
         Multiple(bytes, a), Occupies(T, of, n, bytes, a)
  PROVE  LaidOut(T, Array(of, n, bytes, a))
<1> DEFINE s == Array(of, n, bytes, a)
           k == 1
<1>1. /\ s.fields = <<Field(of, n)>> /\ s.repr_align = 1
      /\ s.size = bytes /\ s.align = a /\ s.offsets = <<0>>
  BY DEF Array, Struct
<1> HIDE DEF s
<1>2. /\ Len(s.fields) = k
      /\ \A i \in 1..k : s.fields[i].of = of /\ s.fields[i].n = n
  BY <1>1 DEF Field
<1>3. k \in 1..3 /\ bytes \in Nat
  BY DEF Multiple
<1>4. [i \in 1..k |-> (i - 1) * bytes] = <<0>> /\ k * bytes = bytes
  BY <1>3
<1> HIDE DEF k
<1>5. Repeats(s, k, of, n)
  BY <1>1, <1>2 DEF Repeats
<1>6. Packed(T, s, k, bytes, a)
  BY <1>3, <1>5, RepeatedField
<1> QED
  BY <1>1, <1>4, <1>6 DEF LaidOut, Packed, s

LEMMA AffineLaidOut ==
  ASSUME NEW T, NEW of, NEW a, NEW bytes, NEW size,
         Multiple(bytes, a), Occupies(T, of, 1, bytes, a), size = 2 * bytes
  PROVE  LaidOut(T, Affine(of, size, a, bytes))
<1> DEFINE s == Affine(of, size, a, bytes)
           k == 2
           n == 1
<1>1. /\ s.fields = <<Field(of, 1), Field(of, 1)>> /\ s.repr_align = 1
      /\ s.size = size /\ s.align = a /\ s.offsets = <<0, bytes>>
  BY DEF Affine, Struct
<1> HIDE DEF s
<1>2. /\ Len(s.fields) = k
      /\ \A i \in 1..k : s.fields[i].of = of /\ s.fields[i].n = n
  BY <1>1 DEF Field
<1>3. k \in 1..3 /\ bytes \in Nat /\ Occupies(T, of, n, bytes, a)
  BY DEF Multiple
<1>4. [i \in 1..k |-> (i - 1) * bytes] = <<0, bytes>> /\ k * bytes = size
  BY <1>3
<1> HIDE DEF k, n
<1>5. Repeats(s, k, of, n)
  BY <1>1, <1>2 DEF Repeats
<1>6. Packed(T, s, k, bytes, a)
  BY <1>3, <1>5, RepeatedField
<1> QED
  BY <1>1, <1>4, <1>6 DEF LaidOut, Packed, s

LEMMA ProjectiveLaidOut ==
  ASSUME NEW T, NEW of, NEW a, NEW bytes, NEW size, NEW z,
         Multiple(bytes, a), Occupies(T, of, 1, bytes, a), size = 3 * bytes, z = 2 * bytes
  PROVE  LaidOut(T, Projective(of, size, a, bytes, z))
<1> DEFINE s == Projective(of, size, a, bytes, z)
           k == 3
           n == 1
<1>1. /\ s.fields = <<Field(of, 1), Field(of, 1), Field(of, 1)>> /\ s.repr_align = 1
      /\ s.size = size /\ s.align = a /\ s.offsets = <<0, bytes, z>>
  BY DEF Projective, Struct
<1> HIDE DEF s
<1>2. /\ Len(s.fields) = k
      /\ \A i \in 1..k : s.fields[i].of = of /\ s.fields[i].n = n
  BY <1>1 DEF Field
<1>3. k \in 1..3 /\ bytes \in Nat /\ Occupies(T, of, n, bytes, a)
  BY DEF Multiple
<1>4. [i \in 1..k |-> (i - 1) * bytes] = <<0, bytes, z>> /\ k * bytes = size
  BY <1>3
<1> HIDE DEF k, n
<1>5. Repeats(s, k, of, n)
  BY <1>1, <1>2 DEF Repeats
<1>6. Packed(T, s, k, bytes, a)
  BY <1>3, <1>5, RepeatedField
<1> QED
  BY <1>1, <1>4, <1>6 DEF LaidOut, Packed, s

(* The shapes of the tables, on a target.                                    *)
LEMMA LimbsLaidOut ==
  ASSUME NEW T, NEW n \in Nat, NEW size, NEW w \in Nat \ {0}, size = n * w,
         T["secret_word"].size = w, T["secret_word"].align = w
  PROVE  LaidOut(T, Limbs(n, size, w))
<1>1. Multiple(size, w)
  BY MultiplesFit
<1>2. Occupies(T, "secret_word", n, size, w)
  BY SMT DEF Occupies
<1> QED
  BY <1>1, <1>2, ArrayLaidOut DEF Limbs

LEMMA BytesLaidOut ==
  ASSUME NEW T, NEW n \in Nat, T["byte"].size = 1, T["byte"].align = 1
  PROVE  LaidOut(T, Bytes(n, n, 1))
<1> DEFINE a == 1
<1>1. Multiple(n, a)
  <2>1. n = n * a
    OBVIOUS
  <2>2. a \in Nat \ {0}
    OBVIOUS
  <2> HIDE DEF a
  <2> QED
    BY <2>1, <2>2, MultiplesFit
<1>2. Occupies(T, "byte", n, n, a)
  BY DEF Occupies
<1> HIDE DEF a
<1>3. LaidOut(T, Array("byte", n, n, a))
  BY <1>1, <1>2, ArrayLaidOut
<1> QED
  BY <1>3 DEF Bytes, a

(* Extension fields and points over a field of u bytes.                      *)
PointsOver(T, of, w, u, double, triple) ==
  /\ LaidOut(T, Array(of, 2, double, w))
  /\ LaidOut(T, Affine(of, double, w, u))
  /\ LaidOut(T, Projective(of, triple, w, u, double))

LEMMA PointsLaidOut ==
  ASSUME NEW T, NEW of, NEW w \in {1, 4, 8}, NEW u \in {32, 48, 64, 96},
         NEW double, NEW triple, double = 2 * u, triple = 3 * u,
         T[of].size = u, T[of].align = w
  PROVE  PointsOver(T, of, w, u, double, triple)
<1> DEFINE one == 1
           two == 2
<1>1. Multiple(u, w) /\ Multiple(double, w)
  <2>1. u = (u \div w) * w /\ double = (double \div w) * w
    OBVIOUS
  <2>2. u \div w \in Nat /\ double \div w \in Nat /\ w \in Nat \ {0}
    OBVIOUS
  <2> QED
    BY <2>1, <2>2, MultiplesFit
<1>2. Occupies(T, of, one, u, w) /\ Occupies(T, of, two, double, w)
  BY DEF Occupies
<1> HIDE DEF two
<1>4. LaidOut(T, Array(of, two, double, w))
  BY <1>1, <1>2, ArrayLaidOut
<1>5. LaidOut(T, Affine(of, double, w, u)) /\ LaidOut(T, Projective(of, triple, w, u, double))
  BY <1>1, <1>2, AffineLaidOut, ProjectiveLaidOut
<1> QED
  BY <1>4, <1>5 DEF PointsOver, two

(* Two structs with padding: the states of the hash functions, which         *)
(* repr(align(64)) aligns to a cache line.                                   *)
LEMMA KeccakLaidOut ==
  ASSUME NEW b \in Builds
  PROVE  /\ b.word = 8 => LaidOut(Targets[b].types, Structs64[1]["ctt_keccak256_context"])
         /\ b.word = 4 => LaidOut(Targets[b].types, Structs32[1]["ctt_keccak256_context"])
<1> DEFINE T == Targets[b].types
           s == Struct(64, <<Field("u64", 25)>>, 256, 64, <<0>>)
           fields == s.fields
           a == b.align64
<1>1. /\ Structs64[1]["ctt_keccak256_context"] = s
      /\ Structs32[1]["ctt_keccak256_context"] = s
  <2>1. Structs64[1] = B64!keccak256_context /\ Structs32[1] = B32!keccak256_context
    BY DEF Structs64, Structs32
  <2> QED
    BY <2>1 DEF B64!keccak256_context, B64!Struct, B64!Field,
                B32!keccak256_context, B32!Struct, B32!Field, Struct, Field
<1>2. T["u64"].size = 8 /\ T["u64"].align = a /\ a \in {4, 8}
  BY WordLayout, Targeted DEF Typed
<1>3. /\ fields = <<Field("u64", 25)>> /\ s.repr_align = 64
      /\ s.size = 256 /\ s.align = 64 /\ s.offsets = <<0>>
  BY DEF Struct
<1> HIDE DEF T, a, s, fields
<1>4. Len(fields) = 1 /\ fields[1].of = "u64" /\ fields[1].n = 25
  BY <1>3 DEF Field
<1>5. KnownTypes(T, fields)
  <2>1. \A i \in 1..Len(fields) : i = 1
    BY <1>4
  <2> QED
    BY <1>2, <1>4, <2>1 DEF KnownTypes
<1>6. FieldEnds(T, fields)[1] = 200
  <2>1. FieldEnds(T, fields)[0] = 0 /\ RoundUp(0, a) = 0
    BY <1>2, <1>4, <1>5, FieldEndsFacts DEF RoundUp
  <2>2. FieldEnds(T, fields)[1] = RoundUp(0, a) + 25 * 8
    BY <1>2, <1>4, <1>5, <2>1, FieldEndsFacts
  <2> QED
    BY <2>1, <2>2
<1>7. FieldOffsets(T, fields) = <<0>>
  <2>1. fields[1].n * T[fields[1].of].size = 200
    BY <1>2, <1>4
  <2>2. FieldOffsets(T, fields) = [i \in 1..1 |-> 0]
    BY <1>4, <1>6, <2>1 DEF FieldOffsets
  <2> QED
    BY <2>2
<1>8. StructAlign(T, s) = 64
  <2> DEFINE A == {s.repr_align} \union {T[fields[i].of].align : i \in 1..Len(fields)}
  <2>1. A = {64, a}
    BY <1>2, <1>3, <1>4
  <2>2. Max({64, a}) = 64
    BY <1>2, LargestIs
  <2> QED
    BY <2>1, <2>2 DEF StructAlign, fields
<1>9. StructSize(T, s) = 256
  <2>1. StructSize(T, s) = RoundUp(200, 64)
    BY <1>4, <1>6, <1>8 DEF StructSize, fields
  <2> QED
    BY <2>1 DEF RoundUp
<1> QED
  BY <1>1, <1>3, <1>7, <1>8, <1>9 DEF LaidOut, T, fields

LEMMA Sha256LaidOut ==
  ASSUME NEW b \in Builds
  PROVE  /\ b.word = 8 => LaidOut(Targets[b].types, Structs64[2]["ctt_sha256_context"])
         /\ b.word = 4 => LaidOut(Targets[b].types, Structs32[2]["ctt_sha256_context"])
<1> DEFINE T == Targets[b].types
           s == Struct(64, <<Field("u32", 16), Field("byte", 64), Field("u64", 1)>>,
                       192, 64, <<0, 64, 128>>)
           fields == s.fields
           a == b.align64
<1>1. /\ Structs64[2]["ctt_sha256_context"] = s
      /\ Structs32[2]["ctt_sha256_context"] = s
  <2>1. Structs64[2] = B64!sha256_context /\ Structs32[2] = B32!sha256_context
    BY DEF Structs64, Structs32
  <2> QED
    BY <2>1 DEF B64!sha256_context, B64!Struct, B64!Field,
                B32!sha256_context, B32!Struct, B32!Field, Struct, Field
<1>2. /\ T["u64"].size = 8 /\ T["u64"].align = a /\ a \in {4, 8}
      /\ T["u32"].size = 4 /\ T["u32"].align = 4
      /\ T["byte"].size = 1 /\ T["byte"].align = 1
  <2>1. T["u64"].size = 8 /\ T["u64"].align = a /\ a \in {4, 8}
    BY WordLayout, Targeted DEF Typed
  <2>2. "u32" \in PrimitiveNames /\ "byte" \in PrimitiveNames
    BY DEF PrimitiveNames
  <2>3. /\ Primitive(b.word, b.align64)["u32"] = [size |-> 4, align |-> 4]
        /\ Primitive(b.word, b.align64)["byte"] = [size |-> 1, align |-> 1]
    BY DEF Primitive
  <2>4. T["u32"] = [size |-> 4, align |-> 4] /\ T["byte"] = [size |-> 1, align |-> 1]
    BY <2>2, <2>3, TypeAt
  <2> QED
    BY <2>1, <2>4
<1>3. /\ fields = <<Field("u32", 16), Field("byte", 64), Field("u64", 1)>>
      /\ s.repr_align = 64 /\ s.size = 192 /\ s.align = 64 /\ s.offsets = <<0, 64, 128>>
  BY DEF Struct
<1> HIDE DEF T, a, s, fields
<1>4. /\ Len(fields) = 3
      /\ fields[1].of = "u32" /\ fields[1].n = 16
      /\ fields[2].of = "byte" /\ fields[2].n = 64
      /\ fields[3].of = "u64" /\ fields[3].n = 1
  BY <1>3 DEF Field
<1>5. KnownTypes(T, fields)
  <2>1. \A i \in 1..Len(fields) : i = 1 \/ i = 2 \/ i = 3
    BY <1>4
  <2> QED
    BY <1>2, <1>4, <2>1 DEF KnownTypes
<1> DEFINE end == FieldEnds(T, fields)
<1>6. end[1] = 64 /\ end[2] = 128 /\ end[3] = 136
  <2>1. /\ end[0] = 0
        /\ \A i \in 1..3 : end[i] = RoundUp(end[i - 1], T[fields[i].of].align)
                                        + fields[i].n * T[fields[i].of].size
    BY <1>4, <1>5, FieldEndsFacts
  <2> HIDE DEF end
  <2>2. end[1] = 64
    <3>1. end[1] = RoundUp(0, 4) + 16 * 4
      BY <1>2, <1>4, <2>1
    <3> QED
      BY <3>1 DEF RoundUp
  <2>3. end[2] = 128
    <3>1. end[2] = RoundUp(64, 1) + 64 * 1
      BY <1>2, <1>4, <2>1, <2>2
    <3> QED
      BY <3>1 DEF RoundUp
  <2>4. end[3] = 136
    <3>1. end[3] = RoundUp(128, a) + 1 * 8
      BY <1>2, <1>4, <2>1, <2>3
    <3>2. RoundUp(128, a) = 128
      BY <1>2 DEF RoundUp
    <3> QED
      BY <3>1, <3>2
  <2> QED
    BY <2>2, <2>3, <2>4
<1>7. FieldOffsets(T, fields) = <<0, 64, 128>>
  <2> DEFINE at == [i \in 1..3 |-> end[i] - fields[i].n * T[fields[i].of].size]
  <2>1. FieldOffsets(T, fields) = at
    BY <1>4 DEF FieldOffsets
  <2>2. at[1] = 0 /\ at[2] = 64 /\ at[3] = 128
    <3> HIDE DEF end
    <3> QED
      BY <1>2, <1>4, <1>6
  <2>3. at = <<at[1], at[2], at[3]>>
    <3> HIDE DEF end
    <3> QED
      OBVIOUS
  <2> HIDE DEF at
  <2> QED
    BY <2>1, <2>2, <2>3
<1>8. StructAlign(T, s) = 64
  <2> DEFINE A == {s.repr_align} \union {T[fields[i].of].align : i \in 1..Len(fields)}
  <2>1. A = {64, 4, 1, a}
    <3>1. T[fields[1].of].align = 4 /\ T[fields[2].of].align = 1 /\ T[fields[3].of].align = a
      BY <1>2, <1>4
    <3>2. {T[fields[i].of].align : i \in 1..Len(fields)} = {4, 1, a}
      BY <1>4, <3>1
    <3> QED
      BY <1>3, <3>2
  <2>2. Max({64, 4, 1, a}) = 64
    BY <1>2, LargestIs
  <2> QED
    BY <2>1, <2>2 DEF StructAlign, fields
<1>9. StructSize(T, s) = 192
  <2>1. StructSize(T, s) = RoundUp(136, 64)
    BY <1>4, <1>6, <1>8 DEF StructSize, fields
  <2> QED
    BY <2>1 DEF RoundUp
<1> QED
  BY <1>1, <1>3, <1>7, <1>8, <1>9 DEF LaidOut, T, fields

LEMMA SpanLaidOut ==
  ASSUME NEW b \in Builds
  PROVE  /\ b.word = 8 => LaidOut(Targets[b].types, Structs64[10]["ctt_span"])
         /\ b.word = 4 => LaidOut(Targets[b].types, Structs32[10]["ctt_span"])
<1> DEFINE T == Targets[b].types
           w == b.word
           s == Struct(1, <<Field("pointer", 1), Field("usize", 1)>>, 2 * w, w, <<0, w>>)
           fields == s.fields
<1>1. /\ w = 8 => Structs64[10]["ctt_span"] = s
      /\ w = 4 => Structs32[10]["ctt_span"] = s
  <2>1. Structs64[10] = B64!span /\ Structs32[10] = B32!span
    BY DEF Structs64, Structs32
  <2> QED
    BY <2>1 DEF B64!span, B64!Struct, B64!Field, B32!span, B32!Struct, B32!Field, Struct, Field
<1>2. /\ T["pointer"].size = w /\ T["pointer"].align = w
      /\ T["usize"].size = w /\ T["usize"].align = w /\ w \in {4, 8}
  <2>1. "pointer" \in PrimitiveNames /\ "usize" \in PrimitiveNames
    BY DEF PrimitiveNames
  <2>2. /\ Primitive(b.word, b.align64)["pointer"] = [size |-> w, align |-> w]
        /\ Primitive(b.word, b.align64)["usize"] = [size |-> w, align |-> w]
    BY DEF Primitive
  <2>3. T["pointer"] = [size |-> w, align |-> w] /\ T["usize"] = [size |-> w, align |-> w]
    BY <2>1, <2>2, TypeAt
  <2> QED
    BY <2>3, Targeted
<1>3. /\ fields = <<Field("pointer", 1), Field("usize", 1)>> /\ s.repr_align = 1
      /\ s.size = 2 * w /\ s.align = w /\ s.offsets = <<0, w>>
  BY DEF Struct
<1> HIDE DEF T, w, s, fields
<1>4. /\ Len(fields) = 2
      /\ fields[1].of = "pointer" /\ fields[1].n = 1 /\ fields[2].of = "usize" /\ fields[2].n = 1
  BY <1>3 DEF Field
<1>5. KnownTypes(T, fields)
  <2>1. \A i \in 1..Len(fields) : i = 1 \/ i = 2
    BY <1>4
  <2> QED
    BY <1>2, <1>4, <2>1 DEF KnownTypes
<1> DEFINE end == FieldEnds(T, fields)
<1>6. end[1] = w /\ end[2] = 2 * w
  <2>1. /\ end[0] = 0
        /\ \A i \in 1..2 : end[i] = RoundUp(end[i - 1], T[fields[i].of].align)
                                        + fields[i].n * T[fields[i].of].size
    BY <1>4, <1>5, FieldEndsFacts
  <2> HIDE DEF end
  <2>2. RoundUp(0, w) = 0 /\ RoundUp(w, w) = w
    BY <1>2 DEF RoundUp
  <2>3. end[1] = w
    <3>1. end[1] = RoundUp(0, w) + 1 * w
      BY <1>2, <1>4, <2>1
    <3> QED
      BY <1>2, <2>2, <3>1
  <2>4. end[2] = RoundUp(w, w) + 1 * w
    BY <1>2, <1>4, <2>1, <2>3
  <2> QED
    BY <1>2, <2>2, <2>3, <2>4
<1>7. FieldOffsets(T, fields) = <<0, w>>
  <2> DEFINE at == [i \in 1..2 |-> end[i] - fields[i].n * T[fields[i].of].size]
  <2>1. FieldOffsets(T, fields) = at
    BY <1>4 DEF FieldOffsets
  <2> HIDE DEF end
  <2>2. at[1] = 0 /\ at[2] = w
    BY <1>2, <1>4, <1>6
  <2>3. at = <<at[1], at[2]>>
    OBVIOUS
  <2> HIDE DEF at
  <2> QED
    BY <2>1, <2>2, <2>3
<1>8. StructAlign(T, s) = w
  <2> DEFINE A == {s.repr_align} \union {T[fields[i].of].align : i \in 1..Len(fields)}
  <2>1. A = {1, w}
    <3>1. T[fields[1].of].align = w /\ T[fields[2].of].align = w
      BY <1>2, <1>4
    <3> QED
      BY <1>3, <1>4, <3>1
  <2>2. Max({1, w}) = w
    BY <1>2, LargestIs
  <2> QED
    BY <2>1, <2>2 DEF StructAlign, fields
<1>9. StructSize(T, s) = 2 * w
  <2>1. StructSize(T, s) = RoundUp(2 * w, w)
    BY <1>4, <1>6, <1>8 DEF StructSize, fields
  <2>2. RoundUp(2 * w, w) = 2 * w
    BY <1>2 DEF RoundUp
  <2> QED
    BY <2>1, <2>2
<1> QED
  BY <1>1, <1>3, <1>7, <1>8, <1>9 DEF LaidOut, T, fields, w

(* The structs of bindings64.rs, on the targets that include it.             *)
LEMMA Structs64LaidOut ==
  ASSUME NEW b \in Builds, b.word = 8
  PROVE  \A i \in 1..12 : \A s \in StructNames[i] :
           LaidOut(Targets[b].types, Structs64[i][s])
<1> DEFINE T == Targets[b].types
<1>1. /\ T["secret_word"].size = 8 /\ T["secret_word"].align = 8
      /\ T["byte"].size = 1 /\ T["byte"].align = 1
  <2>1. "secret_word" \in PrimitiveNames /\ "byte" \in PrimitiveNames
    BY DEF PrimitiveNames
  <2>2. /\ Primitive(b.word, b.align64)["secret_word"] = [size |-> 8, align |-> 8]
        /\ Primitive(b.word, b.align64)["byte"] = [size |-> 1, align |-> 1]
    BY DEF Primitive
  <2> QED
    BY <2>1, <2>2, TypeAt
<1>2. \A i \in 1..12 : \A s \in StructNames[i] :
        T[s].size = Structs64[i][s].size /\ T[s].align = Structs64[i][s].align
  BY TypeAt
<1> HIDE DEF T
<1>3. \A n \in Nat : LaidOut(T, Bytes(n, n, 1))
  BY <1>1, BytesLaidOut
<1>4. LaidOut(T, Limbs(4, 32, 8)) /\ LaidOut(T, Limbs(6, 48, 8))
  <2> DEFINE w == 8
             n == 4
             m == 6
  <2>1. /\ n \in Nat /\ m \in Nat /\ w \in Nat \ {0} /\ 32 = n * w /\ 48 = m * w
        /\ T["secret_word"].size = w /\ T["secret_word"].align = w
    BY <1>1
  <2> HIDE DEF w, n, m
  <2>2. LaidOut(T, Limbs(n, 32, w)) /\ LaidOut(T, Limbs(m, 48, w))
    BY <2>1, LimbsLaidOut
  <2> QED
    BY <2>2 DEF w, n, m
<1>5. LaidOut(T, Structs64[1]["ctt_keccak256_context"])
  BY KeccakLaidOut DEF T
<1>6. LaidOut(T, Structs64[2]["ctt_sha256_context"])
  BY Sha256LaidOut DEF T
<1>7. \A s \in StructNames[3] : LaidOut(T, Structs64[3][s])
  <2>1. Structs64[3] = B64!bigints /\ 3 \in 1..12
    BY DEF Structs64
  <2>2. StructNames[3] =
          {"big381", "big255", "big254", "big253"}
    BY DEF StructNames
  <2>3. /\ B64!bigints["big381"] = Limbs(6, 48, 8)
        /\ B64!bigints["big255"] = Limbs(4, 32, 8)
        /\ B64!bigints["big254"] = Limbs(4, 32, 8)
        /\ B64!bigints["big253"] = Limbs(4, 32, 8)
    BY DEF B64!bigints, B64!Array, Array, B64!Field, Field, B64!Limbs, Limbs, B64!Struct,
       Struct
  <2>4. /\ LaidOut(T, Limbs(6, 48, 8))
        /\ LaidOut(T, Limbs(4, 32, 8))
    BY <1>1, <1>4
  <2> QED
    BY <2>1, <2>2, <2>3, <2>4
<1>8. \A s \in StructNames[4] : LaidOut(T, Structs64[4][s])
  <2>1. Structs64[4] = B64!bls12_381 /\ 4 \in 1..12
    BY DEF Structs64
  <2>2. StructNames[4] =
          {"bls12_381_fr", "bls12_381_fp", "bls12_381_fp2",
           "bls12_381_g1_aff", "bls12_381_g1_jac", "bls12_381_g1_prj",
           "bls12_381_g2_aff", "bls12_381_g2_jac", "bls12_381_g2_prj"}
    BY DEF StructNames
  <2>3. /\ B64!bls12_381["bls12_381_fr"] = Limbs(4, 32, 8)
        /\ B64!bls12_381["bls12_381_fp"] = Limbs(6, 48, 8)
        /\ B64!bls12_381["bls12_381_fp2"] = Array("bls12_381_fp", 2, 96, 8)
        /\ B64!bls12_381["bls12_381_g1_aff"] = Affine("bls12_381_fp", 96, 8, 48)
        /\ B64!bls12_381["bls12_381_g1_jac"] = Projective("bls12_381_fp", 144, 8, 48, 96)
        /\ B64!bls12_381["bls12_381_g1_prj"] = Projective("bls12_381_fp", 144, 8, 48, 96)
        /\ B64!bls12_381["bls12_381_g2_aff"] = Affine("bls12_381_fp2", 192, 8, 96)
        /\ B64!bls12_381["bls12_381_g2_jac"] = Projective("bls12_381_fp2", 288, 8, 96, 192)
        /\ B64!bls12_381["bls12_381_g2_prj"] = Projective("bls12_381_fp2", 288, 8, 96, 192)
    BY DEF B64!bls12_381, B64!Affine, Affine, B64!Array, Array, B64!Field, Field, B64!Limbs,
       Limbs, B64!Projective, Projective, B64!Struct, Struct
  <2>4. /\ T["bls12_381_fp"].size = 48 /\ T["bls12_381_fp"].align = 8
        /\ T["bls12_381_fp2"].size = 96 /\ T["bls12_381_fp2"].align = 8
    <3>1. /\ Structs64[4]["bls12_381_fp"].size = 48 /\ Structs64[4]["bls12_381_fp"].align = 8
          /\ Structs64[4]["bls12_381_fp2"].size = 96 /\ Structs64[4]["bls12_381_fp2"].align = 8
      BY <2>1, <2>3 DEF Array, Limbs, Struct
    <3> QED
      BY <1>2, <2>1, <2>2, <3>1
  <2>5. /\ PointsOver(T, "bls12_381_fp", 8, 48, 96, 144)
        /\ PointsOver(T, "bls12_381_fp2", 8, 96, 192, 288)
    BY <2>4, PointsLaidOut
  <2>6. /\ LaidOut(T, Limbs(4, 32, 8))
        /\ LaidOut(T, Limbs(6, 48, 8))
        /\ LaidOut(T, Array("bls12_381_fp", 2, 96, 8))
        /\ LaidOut(T, Affine("bls12_381_fp", 96, 8, 48))
        /\ LaidOut(T, Projective("bls12_381_fp", 144, 8, 48, 96))
        /\ LaidOut(T, Affine("bls12_381_fp2", 192, 8, 96))
        /\ LaidOut(T, Projective("bls12_381_fp2", 288, 8, 96, 192))
    BY <1>1, <1>4, <2>4, <2>5 DEF PointsOver
  <2> QED
    BY <2>1, <2>2, <2>3, <2>6
<1>9. \A s \in StructNames[5] : LaidOut(T, Structs64[5][s])
  <2>1. Structs64[5] = B64!bn254_snarks /\ 5 \in 1..12
    BY DEF Structs64
  <2>2. StructNames[5] =
          {"bn254_snarks_fr", "bn254_snarks_fp", "bn254_snarks_fp2",
           "bn254_snarks_g1_aff", "bn254_snarks_g1_jac",
           "bn254_snarks_g1_prj", "bn254_snarks_g2_aff",
           "bn254_snarks_g2_jac", "bn254_snarks_g2_prj"}
    BY DEF StructNames
  <2>3. /\ B64!bn254_snarks["bn254_snarks_fr"] = Limbs(4, 32, 8)
        /\ B64!bn254_snarks["bn254_snarks_fp"] = Limbs(4, 32, 8)
        /\ B64!bn254_snarks["bn254_snarks_fp2"] = Array("bn254_snarks_fp", 2, 64, 8)
        /\ B64!bn254_snarks["bn254_snarks_g1_aff"] = Affine("bn254_snarks_fp", 64, 8, 32)
        /\ B64!bn254_snarks["bn254_snarks_g1_jac"] = Projective("bn254_snarks_fp", 96, 8, 32, 64)
        /\ B64!bn254_snarks["bn254_snarks_g1_prj"] = Projective("bn254_snarks_fp", 96, 8, 32, 64)
        /\ B64!bn254_snarks["bn254_snarks_g2_aff"] = Affine("bn254_snarks_fp2", 128, 8, 64)
        /\ B64!bn254_snarks["bn254_snarks_g2_jac"] = Projective("bn254_snarks_fp2", 192, 8, 64, 128)
        /\ B64!bn254_snarks["bn254_snarks_g2_prj"] = Projective("bn254_snarks_fp2", 192, 8, 64, 128)
    BY DEF B64!bn254_snarks, B64!Affine, Affine, B64!Array, Array, B64!Field, Field,
       B64!Limbs, Limbs, B64!Projective, Projective, B64!Struct, Struct
  <2>4. /\ T["bn254_snarks_fp"].size = 32 /\ T["bn254_snarks_fp"].align = 8
        /\ T["bn254_snarks_fp2"].size = 64 /\ T["bn254_snarks_fp2"].align = 8
    <3>1. /\ Structs64[5]["bn254_snarks_fp"].size = 32 /\ Structs64[5]["bn254_snarks_fp"].align = 8
          /\ Structs64[5]["bn254_snarks_fp2"].size = 64 /\ Structs64[5]["bn254_snarks_fp2"].align = 8
      BY <2>1, <2>3 DEF Array, Limbs, Struct
    <3> QED
      BY <1>2, <2>1, <2>2, <3>1
  <2>5. /\ PointsOver(T, "bn254_snarks_fp", 8, 32, 64, 96)
        /\ PointsOver(T, "bn254_snarks_fp2", 8, 64, 128, 192)
    BY <2>4, PointsLaidOut
  <2>6. /\ LaidOut(T, Limbs(4, 32, 8))
        /\ LaidOut(T, Array("bn254_snarks_fp", 2, 64, 8))
        /\ LaidOut(T, Affine("bn254_snarks_fp", 64, 8, 32))
        /\ LaidOut(T, Projective("bn254_snarks_fp", 96, 8, 32, 64))
        /\ LaidOut(T, Affine("bn254_snarks_fp2", 128, 8, 64))
        /\ LaidOut(T, Projective("bn254_snarks_fp2", 192, 8, 64, 128))
    BY <1>1, <1>4, <2>4, <2>5 DEF PointsOver
  <2> QED
    BY <2>1, <2>2, <2>3, <2>6
<1>10. \A s \in StructNames[6] : LaidOut(T, Structs64[6][s])
  <2>1. Structs64[6] = B64!pallas /\ 6 \in 1..12
    BY DEF Structs64
  <2>2. StructNames[6] =
          {"pallas_fr", "pallas_fp", "pallas_ec_aff", "pallas_ec_jac",
           "pallas_ec_prj"}
    BY DEF StructNames
  <2>3. /\ B64!pallas["pallas_fr"] = Limbs(4, 32, 8)
        /\ B64!pallas["pallas_fp"] = Limbs(4, 32, 8)
        /\ B64!pallas["pallas_ec_aff"] = Affine("pallas_fp", 64, 8, 32)
        /\ B64!pallas["pallas_ec_jac"] = Projective("pallas_fp", 96, 8, 32, 64)
        /\ B64!pallas["pallas_ec_prj"] = Projective("pallas_fp", 96, 8, 32, 64)
    BY DEF B64!pallas, B64!Affine, Affine, B64!Array, Array, B64!Field, Field, B64!Limbs,
       Limbs, B64!Projective, Projective, B64!Struct, Struct
  <2>4. /\ T["pallas_fp"].size = 32 /\ T["pallas_fp"].align = 8
    <3>1. /\ Structs64[6]["pallas_fp"].size = 32 /\ Structs64[6]["pallas_fp"].align = 8
      BY <2>1, <2>3 DEF Array, Limbs, Struct
    <3> QED
      BY <1>2, <2>1, <2>2, <3>1
  <2>5. /\ PointsOver(T, "pallas_fp", 8, 32, 64, 96)
    BY <2>4, PointsLaidOut
  <2>6. /\ LaidOut(T, Limbs(4, 32, 8))
        /\ LaidOut(T, Affine("pallas_fp", 64, 8, 32))
        /\ LaidOut(T, Projective("pallas_fp", 96, 8, 32, 64))
    BY <1>1, <1>4, <2>4, <2>5 DEF PointsOver
  <2> QED
    BY <2>1, <2>2, <2>3, <2>6
<1>11. \A s \in StructNames[7] : LaidOut(T, Structs64[7][s])
  <2>1. Structs64[7] = B64!vesta /\ 7 \in 1..12
    BY DEF Structs64
  <2>2. StructNames[7] =
          {"vesta_fr", "vesta_fp", "vesta_ec_aff", "vesta_ec_jac",
           "vesta_ec_prj"}
    BY DEF StructNames
  <2>3. /\ B64!vesta["vesta_fr"] = Limbs(4, 32, 8)
        /\ B64!vesta["vesta_fp"] = Limbs(4, 32, 8)
        /\ B64!vesta["vesta_ec_aff"] = Affine("vesta_fp", 64, 8, 32)
        /\ B64!vesta["vesta_ec_jac"] = Projective("vesta_fp", 96, 8, 32, 64)
        /\ B64!vesta["vesta_ec_prj"] = Projective("vesta_fp", 96, 8, 32, 64)
    BY DEF B64!vesta, B64!Affine, Affine, B64!Array, Array, B64!Field, Field, B64!Limbs,
       Limbs, B64!Projective, Projective, B64!Struct, Struct
  <2>4. /\ T["vesta_fp"].size = 32 /\ T["vesta_fp"].align = 8
    <3>1. /\ Structs64[7]["vesta_fp"].size = 32 /\ Structs64[7]["vesta_fp"].align = 8
      BY <2>1, <2>3 DEF Array, Limbs, Struct
    <3> QED
      BY <1>2, <2>1, <2>2, <3>1
  <2>5. /\ PointsOver(T, "vesta_fp", 8, 32, 64, 96)
    BY <2>4, PointsLaidOut
  <2>6. /\ LaidOut(T, Limbs(4, 32, 8))
        /\ LaidOut(T, Affine("vesta_fp", 64, 8, 32))
        /\ LaidOut(T, Projective("vesta_fp", 96, 8, 32, 64))
    BY <1>1, <1>4, <2>4, <2>5 DEF PointsOver
  <2> QED
    BY <2>1, <2>2, <2>3, <2>6
<1>12. \A s \in StructNames[8] : LaidOut(T, Structs64[8][s])
  <2>1. Structs64[8] = B64!banderwagon /\ 8 \in 1..12
    BY DEF Structs64
  <2>2. StructNames[8] =
          {"banderwagon_fr", "banderwagon_fp", "banderwagon_ec_aff",
           "banderwagon_ec_jac", "banderwagon_ec_prj"}
    BY DEF StructNames
  <2>3. /\ B64!banderwagon["banderwagon_fr"] = Limbs(4, 32, 8)
        /\ B64!banderwagon["banderwagon_fp"] = Limbs(4, 32, 8)
        /\ B64!banderwagon["banderwagon_ec_aff"] = Affine("banderwagon_fp", 64, 8, 32)
        /\ B64!banderwagon["banderwagon_ec_jac"] = Projective("banderwagon_fp", 96, 8, 32, 64)
        /\ B64!banderwagon["banderwagon_ec_prj"] = Projective("banderwagon_fp", 96, 8, 32, 64)
    BY DEF B64!banderwagon, B64!Affine, Affine, B64!Array, Array, B64!Field, Field,
       B64!Limbs, Limbs, B64!Projective, Projective, B64!Struct, Struct
  <2>4. /\ T["banderwagon_fp"].size = 32 /\ T["banderwagon_fp"].align = 8
    <3>1. /\ Structs64[8]["banderwagon_fp"].size = 32 /\ Structs64[8]["banderwagon_fp"].align = 8
      BY <2>1, <2>3 DEF Array, Limbs, Struct
    <3> QED
      BY <1>2, <2>1, <2>2, <3>1
  <2>5. /\ PointsOver(T, "banderwagon_fp", 8, 32, 64, 96)
    BY <2>4, PointsLaidOut
  <2>6. /\ LaidOut(T, Limbs(4, 32, 8))
        /\ LaidOut(T, Affine("banderwagon_fp", 64, 8, 32))
        /\ LaidOut(T, Projective("banderwagon_fp", 96, 8, 32, 64))
    BY <1>1, <1>4, <2>4, <2>5 DEF PointsOver
  <2> QED
    BY <2>1, <2>2, <2>3, <2>6
<1>13. \A s \in StructNames[9] : LaidOut(T, Structs64[9][s])
  <2>1. Structs64[9] = B64!eth_bls /\ 9 \in 1..12
    BY DEF Structs64
  <2>2. StructNames[9] =
          {"ctt_eth_bls_fp", "ctt_eth_bls_fp2", "ctt_eth_bls_seckey",
           "ctt_eth_bls_pubkey", "ctt_eth_bls_signature"}
    BY DEF StructNames
  <2>3. /\ B64!eth_bls["ctt_eth_bls_fp"] = Bytes(48, 48, 1)
        /\ B64!eth_bls["ctt_eth_bls_fp2"] = Array("ctt_eth_bls_fp", 2, 96, 1)
        /\ B64!eth_bls["ctt_eth_bls_seckey"] = Bytes(32, 32, 1)
        /\ B64!eth_bls["ctt_eth_bls_pubkey"] = Affine("ctt_eth_bls_fp", 96, 1, 48)
        /\ B64!eth_bls["ctt_eth_bls_signature"] = Affine("ctt_eth_bls_fp2", 192, 1, 96)
    BY DEF B64!eth_bls, B64!Affine, Affine, B64!Array, Array, B64!Bytes, Bytes, B64!Field,
       Field, B64!Struct, Struct
  <2>4. /\ T["ctt_eth_bls_fp"].size = 48 /\ T["ctt_eth_bls_fp"].align = 1
        /\ T["ctt_eth_bls_fp2"].size = 96 /\ T["ctt_eth_bls_fp2"].align = 1
    <3>1. /\ Structs64[9]["ctt_eth_bls_fp"].size = 48 /\ Structs64[9]["ctt_eth_bls_fp"].align = 1
          /\ Structs64[9]["ctt_eth_bls_fp2"].size = 96 /\ Structs64[9]["ctt_eth_bls_fp2"].align = 1
      BY <2>1, <2>3 DEF Array, Bytes, Struct
    <3> QED
      BY <1>2, <2>1, <2>2, <3>1
  <2>5. /\ PointsOver(T, "ctt_eth_bls_fp", 1, 48, 96, 144)
        /\ PointsOver(T, "ctt_eth_bls_fp2", 1, 96, 192, 288)
    BY <2>4, PointsLaidOut
  <2>6. /\ LaidOut(T, Bytes(48, 48, 1))
        /\ LaidOut(T, Array("ctt_eth_bls_fp", 2, 96, 1))
        /\ LaidOut(T, Bytes(32, 32, 1))
        /\ LaidOut(T, Affine("ctt_eth_bls_fp", 96, 1, 48))
        /\ LaidOut(T, Affine("ctt_eth_bls_fp2", 192, 1, 96))
    BY <1>1, <1>3, <2>4, <2>5 DEF PointsOver
  <2> QED
    BY <2>1, <2>2, <2>3, <2>6
<1>14. LaidOut(T, Structs64[10]["ctt_span"])
  BY SpanLaidOut DEF T
<1>15. \A s \in StructNames[11] : LaidOut(T, Structs64[11][s])
  <2>1. Structs64[11] = B64!eth_kzg /\ 11 \in 1..12
    BY DEF Structs64
  <2>2. StructNames[11] =
          {"ctt_eth_kzg_commitment", "ctt_eth_kzg_proof",
           "ctt_eth_kzg_blob", "ctt_eth_kzg_opening_challenge",
           "ctt_eth_kzg_eval_at_challenge"}
    BY DEF StructNames
  <2>3. /\ B64!eth_kzg["ctt_eth_kzg_commitment"] = Bytes(48, 48, 1)
        /\ B64!eth_kzg["ctt_eth_kzg_proof"] = Bytes(48, 48, 1)
        /\ B64!eth_kzg["ctt_eth_kzg_blob"] = Bytes(131072, 131072, 1)
        /\ B64!eth_kzg["ctt_eth_kzg_opening_challenge"] = Bytes(32, 32, 1)
        /\ B64!eth_kzg["ctt_eth_kzg_eval_at_challenge"] = Bytes(32, 32, 1)
    BY DEF B64!eth_kzg, B64!Array, Array, B64!Bytes, Bytes, B64!Field, Field, B64!Struct,
       Struct
  <2>4. /\ LaidOut(T, Bytes(48, 48, 1))
        /\ LaidOut(T, Bytes(131072, 131072, 1))
        /\ LaidOut(T, Bytes(32, 32, 1))
    BY <1>1, <1>3
  <2> QED
    BY <2>1, <2>2, <2>3, <2>4
<1>16. \A s \in StructNames[12] : LaidOut(T, Structs64[12][s])
  <2>1. Structs64[12] = B64!kzg_cell /\ 12 \in 1..12
    BY DEF Structs64
  <2>2. StructNames[12] =
          {"ctt_eth_kzg_cell"}
    BY DEF StructNames
  <2>3. /\ B64!kzg_cell["ctt_eth_kzg_cell"] = Bytes(2048, 2048, 1)
    BY DEF B64!kzg_cell, B64!Array, Array, B64!Bytes, Bytes, B64!Field, Field, B64!Struct,
       Struct
  <2>4. /\ LaidOut(T, Bytes(2048, 2048, 1))
    BY <1>1, <1>3
  <2> QED
    BY <2>1, <2>2, <2>3, <2>4
<1>18. StructNames[1] = {"ctt_keccak256_context"} /\ StructNames[2] = {"ctt_sha256_context"}
       /\ StructNames[10] = {"ctt_span"}
  BY DEF StructNames
<1> SUFFICES ASSUME NEW i \in 1..12
             PROVE  \A s \in StructNames[i] : LaidOut(T, Structs64[i][s])
  BY DEF T
<1>19. i \in {1, 2, 3, 4, 5, 6, 7, 8, 9, 10, 11, 12}
  OBVIOUS
<1> QED
  BY <1>5, <1>6, <1>7, <1>8, <1>9, <1>10, <1>11, <1>12, <1>13, <1>14, <1>15, <1>16,
     <1>18, <1>19

(* The structs of bindings32.rs, on the targets that include it.             *)
LEMMA Structs32LaidOut ==
  ASSUME NEW b \in Builds, b.word = 4
  PROVE  \A i \in 1..12 : \A s \in StructNames[i] :
           LaidOut(Targets[b].types, Structs32[i][s])
<1> DEFINE T == Targets[b].types
<1>1. /\ T["secret_word"].size = 4 /\ T["secret_word"].align = 4
      /\ T["byte"].size = 1 /\ T["byte"].align = 1
  <2>1. "secret_word" \in PrimitiveNames /\ "byte" \in PrimitiveNames
    BY DEF PrimitiveNames
  <2>2. /\ Primitive(b.word, b.align64)["secret_word"] = [size |-> 4, align |-> 4]
        /\ Primitive(b.word, b.align64)["byte"] = [size |-> 1, align |-> 1]
    BY DEF Primitive
  <2> QED
    BY <2>1, <2>2, TypeAt
<1>2. \A i \in 1..12 : \A s \in StructNames[i] :
        T[s].size = Structs32[i][s].size /\ T[s].align = Structs32[i][s].align
  BY TypeAt
<1> HIDE DEF T
<1>3. \A n \in Nat : LaidOut(T, Bytes(n, n, 1))
  BY <1>1, BytesLaidOut
<1>4. LaidOut(T, Limbs(8, 32, 4)) /\ LaidOut(T, Limbs(12, 48, 4))
  <2> DEFINE w == 4
             n == 8
             m == 12
  <2>1. /\ n \in Nat /\ m \in Nat /\ w \in Nat \ {0} /\ 32 = n * w /\ 48 = m * w
        /\ T["secret_word"].size = w /\ T["secret_word"].align = w
    BY <1>1
  <2> HIDE DEF w, n, m
  <2>2. LaidOut(T, Limbs(n, 32, w)) /\ LaidOut(T, Limbs(m, 48, w))
    BY <2>1, LimbsLaidOut
  <2> QED
    BY <2>2 DEF w, n, m
<1>5. LaidOut(T, Structs32[1]["ctt_keccak256_context"])
  BY KeccakLaidOut DEF T
<1>6. LaidOut(T, Structs32[2]["ctt_sha256_context"])
  BY Sha256LaidOut DEF T
<1>7. \A s \in StructNames[3] : LaidOut(T, Structs32[3][s])
  <2>1. Structs32[3] = B32!bigints /\ 3 \in 1..12
    BY DEF Structs32
  <2>2. StructNames[3] =
          {"big381", "big255", "big254", "big253"}
    BY DEF StructNames
  <2>3. /\ B32!bigints["big381"] = Limbs(12, 48, 4)
        /\ B32!bigints["big255"] = Limbs(8, 32, 4)
        /\ B32!bigints["big254"] = Limbs(8, 32, 4)
        /\ B32!bigints["big253"] = Limbs(8, 32, 4)
    BY DEF B32!bigints, B32!Array, Array, B32!Field, Field, B32!Limbs, Limbs, B32!Struct,
       Struct
  <2>4. /\ LaidOut(T, Limbs(12, 48, 4))
        /\ LaidOut(T, Limbs(8, 32, 4))
    BY <1>1, <1>4
  <2> QED
    BY <2>1, <2>2, <2>3, <2>4
<1>8. \A s \in StructNames[4] : LaidOut(T, Structs32[4][s])
  <2>1. Structs32[4] = B32!bls12_381 /\ 4 \in 1..12
    BY DEF Structs32
  <2>2. StructNames[4] =
          {"bls12_381_fr", "bls12_381_fp", "bls12_381_fp2",
           "bls12_381_g1_aff", "bls12_381_g1_jac", "bls12_381_g1_prj",
           "bls12_381_g2_aff", "bls12_381_g2_jac", "bls12_381_g2_prj"}
    BY DEF StructNames
  <2>3. /\ B32!bls12_381["bls12_381_fr"] = Limbs(8, 32, 4)
        /\ B32!bls12_381["bls12_381_fp"] = Limbs(12, 48, 4)
        /\ B32!bls12_381["bls12_381_fp2"] = Array("bls12_381_fp", 2, 96, 4)
        /\ B32!bls12_381["bls12_381_g1_aff"] = Affine("bls12_381_fp", 96, 4, 48)
        /\ B32!bls12_381["bls12_381_g1_jac"] = Projective("bls12_381_fp", 144, 4, 48, 96)
        /\ B32!bls12_381["bls12_381_g1_prj"] = Projective("bls12_381_fp", 144, 4, 48, 96)
        /\ B32!bls12_381["bls12_381_g2_aff"] = Affine("bls12_381_fp2", 192, 4, 96)
        /\ B32!bls12_381["bls12_381_g2_jac"] = Projective("bls12_381_fp2", 288, 4, 96, 192)
        /\ B32!bls12_381["bls12_381_g2_prj"] = Projective("bls12_381_fp2", 288, 4, 96, 192)
    BY DEF B32!bls12_381, B32!Affine, Affine, B32!Array, Array, B32!Field, Field, B32!Limbs,
       Limbs, B32!Projective, Projective, B32!Struct, Struct
  <2>4. /\ T["bls12_381_fp"].size = 48 /\ T["bls12_381_fp"].align = 4
        /\ T["bls12_381_fp2"].size = 96 /\ T["bls12_381_fp2"].align = 4
    <3>1. /\ Structs32[4]["bls12_381_fp"].size = 48 /\ Structs32[4]["bls12_381_fp"].align = 4
          /\ Structs32[4]["bls12_381_fp2"].size = 96 /\ Structs32[4]["bls12_381_fp2"].align = 4
      BY <2>1, <2>3 DEF Array, Limbs, Struct
    <3> QED
      BY <1>2, <2>1, <2>2, <3>1
  <2>5. /\ PointsOver(T, "bls12_381_fp", 4, 48, 96, 144)
        /\ PointsOver(T, "bls12_381_fp2", 4, 96, 192, 288)
    BY <2>4, PointsLaidOut
  <2>6. /\ LaidOut(T, Limbs(8, 32, 4))
        /\ LaidOut(T, Limbs(12, 48, 4))
        /\ LaidOut(T, Array("bls12_381_fp", 2, 96, 4))
        /\ LaidOut(T, Affine("bls12_381_fp", 96, 4, 48))
        /\ LaidOut(T, Projective("bls12_381_fp", 144, 4, 48, 96))
        /\ LaidOut(T, Affine("bls12_381_fp2", 192, 4, 96))
        /\ LaidOut(T, Projective("bls12_381_fp2", 288, 4, 96, 192))
    BY <1>1, <1>4, <2>4, <2>5 DEF PointsOver
  <2> QED
    BY <2>1, <2>2, <2>3, <2>6
<1>9. \A s \in StructNames[5] : LaidOut(T, Structs32[5][s])
  <2>1. Structs32[5] = B32!bn254_snarks /\ 5 \in 1..12
    BY DEF Structs32
  <2>2. StructNames[5] =
          {"bn254_snarks_fr", "bn254_snarks_fp", "bn254_snarks_fp2",
           "bn254_snarks_g1_aff", "bn254_snarks_g1_jac",
           "bn254_snarks_g1_prj", "bn254_snarks_g2_aff",
           "bn254_snarks_g2_jac", "bn254_snarks_g2_prj"}
    BY DEF StructNames
  <2>3. /\ B32!bn254_snarks["bn254_snarks_fr"] = Limbs(8, 32, 4)
        /\ B32!bn254_snarks["bn254_snarks_fp"] = Limbs(8, 32, 4)
        /\ B32!bn254_snarks["bn254_snarks_fp2"] = Array("bn254_snarks_fp", 2, 64, 4)
        /\ B32!bn254_snarks["bn254_snarks_g1_aff"] = Affine("bn254_snarks_fp", 64, 4, 32)
        /\ B32!bn254_snarks["bn254_snarks_g1_jac"] = Projective("bn254_snarks_fp", 96, 4, 32, 64)
        /\ B32!bn254_snarks["bn254_snarks_g1_prj"] = Projective("bn254_snarks_fp", 96, 4, 32, 64)
        /\ B32!bn254_snarks["bn254_snarks_g2_aff"] = Affine("bn254_snarks_fp2", 128, 4, 64)
        /\ B32!bn254_snarks["bn254_snarks_g2_jac"] = Projective("bn254_snarks_fp2", 192, 4, 64, 128)
        /\ B32!bn254_snarks["bn254_snarks_g2_prj"] = Projective("bn254_snarks_fp2", 192, 4, 64, 128)
    BY DEF B32!bn254_snarks, B32!Affine, Affine, B32!Array, Array, B32!Field, Field,
       B32!Limbs, Limbs, B32!Projective, Projective, B32!Struct, Struct
  <2>4. /\ T["bn254_snarks_fp"].size = 32 /\ T["bn254_snarks_fp"].align = 4
        /\ T["bn254_snarks_fp2"].size = 64 /\ T["bn254_snarks_fp2"].align = 4
    <3>1. /\ Structs32[5]["bn254_snarks_fp"].size = 32 /\ Structs32[5]["bn254_snarks_fp"].align = 4
          /\ Structs32[5]["bn254_snarks_fp2"].size = 64 /\ Structs32[5]["bn254_snarks_fp2"].align = 4
      BY <2>1, <2>3 DEF Array, Limbs, Struct
    <3> QED
      BY <1>2, <2>1, <2>2, <3>1
  <2>5. /\ PointsOver(T, "bn254_snarks_fp", 4, 32, 64, 96)
        /\ PointsOver(T, "bn254_snarks_fp2", 4, 64, 128, 192)
    BY <2>4, PointsLaidOut
  <2>6. /\ LaidOut(T, Limbs(8, 32, 4))
        /\ LaidOut(T, Array("bn254_snarks_fp", 2, 64, 4))
        /\ LaidOut(T, Affine("bn254_snarks_fp", 64, 4, 32))
        /\ LaidOut(T, Projective("bn254_snarks_fp", 96, 4, 32, 64))
        /\ LaidOut(T, Affine("bn254_snarks_fp2", 128, 4, 64))
        /\ LaidOut(T, Projective("bn254_snarks_fp2", 192, 4, 64, 128))
    BY <1>1, <1>4, <2>4, <2>5 DEF PointsOver
  <2> QED
    BY <2>1, <2>2, <2>3, <2>6
<1>10. \A s \in StructNames[6] : LaidOut(T, Structs32[6][s])
  <2>1. Structs32[6] = B32!pallas /\ 6 \in 1..12
    BY DEF Structs32
  <2>2. StructNames[6] =
          {"pallas_fr", "pallas_fp", "pallas_ec_aff", "pallas_ec_jac",
           "pallas_ec_prj"}
    BY DEF StructNames
  <2>3. /\ B32!pallas["pallas_fr"] = Limbs(8, 32, 4)
        /\ B32!pallas["pallas_fp"] = Limbs(8, 32, 4)
        /\ B32!pallas["pallas_ec_aff"] = Affine("pallas_fp", 64, 4, 32)
        /\ B32!pallas["pallas_ec_jac"] = Projective("pallas_fp", 96, 4, 32, 64)
        /\ B32!pallas["pallas_ec_prj"] = Projective("pallas_fp", 96, 4, 32, 64)
    BY DEF B32!pallas, B32!Affine, Affine, B32!Array, Array, B32!Field, Field, B32!Limbs,
       Limbs, B32!Projective, Projective, B32!Struct, Struct
  <2>4. /\ T["pallas_fp"].size = 32 /\ T["pallas_fp"].align = 4
    <3>1. /\ Structs32[6]["pallas_fp"].size = 32 /\ Structs32[6]["pallas_fp"].align = 4
      BY <2>1, <2>3 DEF Array, Limbs, Struct
    <3> QED
      BY <1>2, <2>1, <2>2, <3>1
  <2>5. /\ PointsOver(T, "pallas_fp", 4, 32, 64, 96)
    BY <2>4, PointsLaidOut
  <2>6. /\ LaidOut(T, Limbs(8, 32, 4))
        /\ LaidOut(T, Affine("pallas_fp", 64, 4, 32))
        /\ LaidOut(T, Projective("pallas_fp", 96, 4, 32, 64))
    BY <1>1, <1>4, <2>4, <2>5 DEF PointsOver
  <2> QED
    BY <2>1, <2>2, <2>3, <2>6
<1>11. \A s \in StructNames[7] : LaidOut(T, Structs32[7][s])
  <2>1. Structs32[7] = B32!vesta /\ 7 \in 1..12
    BY DEF Structs32
  <2>2. StructNames[7] =
          {"vesta_fr", "vesta_fp", "vesta_ec_aff", "vesta_ec_jac",
           "vesta_ec_prj"}
    BY DEF StructNames
  <2>3. /\ B32!vesta["vesta_fr"] = Limbs(8, 32, 4)
        /\ B32!vesta["vesta_fp"] = Limbs(8, 32, 4)
        /\ B32!vesta["vesta_ec_aff"] = Affine("vesta_fp", 64, 4, 32)
        /\ B32!vesta["vesta_ec_jac"] = Projective("vesta_fp", 96, 4, 32, 64)
        /\ B32!vesta["vesta_ec_prj"] = Projective("vesta_fp", 96, 4, 32, 64)
    BY DEF B32!vesta, B32!Affine, Affine, B32!Array, Array, B32!Field, Field, B32!Limbs,
       Limbs, B32!Projective, Projective, B32!Struct, Struct
  <2>4. /\ T["vesta_fp"].size = 32 /\ T["vesta_fp"].align = 4
    <3>1. /\ Structs32[7]["vesta_fp"].size = 32 /\ Structs32[7]["vesta_fp"].align = 4
      BY <2>1, <2>3 DEF Array, Limbs, Struct
    <3> QED
      BY <1>2, <2>1, <2>2, <3>1
  <2>5. /\ PointsOver(T, "vesta_fp", 4, 32, 64, 96)
    BY <2>4, PointsLaidOut
  <2>6. /\ LaidOut(T, Limbs(8, 32, 4))
        /\ LaidOut(T, Affine("vesta_fp", 64, 4, 32))
        /\ LaidOut(T, Projective("vesta_fp", 96, 4, 32, 64))
    BY <1>1, <1>4, <2>4, <2>5 DEF PointsOver
  <2> QED
    BY <2>1, <2>2, <2>3, <2>6
<1>12. \A s \in StructNames[8] : LaidOut(T, Structs32[8][s])
  <2>1. Structs32[8] = B32!banderwagon /\ 8 \in 1..12
    BY DEF Structs32
  <2>2. StructNames[8] =
          {"banderwagon_fr", "banderwagon_fp", "banderwagon_ec_aff",
           "banderwagon_ec_jac", "banderwagon_ec_prj"}
    BY DEF StructNames
  <2>3. /\ B32!banderwagon["banderwagon_fr"] = Limbs(8, 32, 4)
        /\ B32!banderwagon["banderwagon_fp"] = Limbs(8, 32, 4)
        /\ B32!banderwagon["banderwagon_ec_aff"] = Affine("banderwagon_fp", 64, 4, 32)
        /\ B32!banderwagon["banderwagon_ec_jac"] = Projective("banderwagon_fp", 96, 4, 32, 64)
        /\ B32!banderwagon["banderwagon_ec_prj"] = Projective("banderwagon_fp", 96, 4, 32, 64)
    BY DEF B32!banderwagon, B32!Affine, Affine, B32!Array, Array, B32!Field, Field,
       B32!Limbs, Limbs, B32!Projective, Projective, B32!Struct, Struct
  <2>4. /\ T["banderwagon_fp"].size = 32 /\ T["banderwagon_fp"].align = 4
    <3>1. /\ Structs32[8]["banderwagon_fp"].size = 32 /\ Structs32[8]["banderwagon_fp"].align = 4
      BY <2>1, <2>3 DEF Array, Limbs, Struct
    <3> QED
      BY <1>2, <2>1, <2>2, <3>1
  <2>5. /\ PointsOver(T, "banderwagon_fp", 4, 32, 64, 96)
    BY <2>4, PointsLaidOut
  <2>6. /\ LaidOut(T, Limbs(8, 32, 4))
        /\ LaidOut(T, Affine("banderwagon_fp", 64, 4, 32))
        /\ LaidOut(T, Projective("banderwagon_fp", 96, 4, 32, 64))
    BY <1>1, <1>4, <2>4, <2>5 DEF PointsOver
  <2> QED
    BY <2>1, <2>2, <2>3, <2>6
<1>13. \A s \in StructNames[9] : LaidOut(T, Structs32[9][s])
  <2>1. Structs32[9] = B32!eth_bls /\ 9 \in 1..12
    BY DEF Structs32
  <2>2. StructNames[9] =
          {"ctt_eth_bls_fp", "ctt_eth_bls_fp2", "ctt_eth_bls_seckey",
           "ctt_eth_bls_pubkey", "ctt_eth_bls_signature"}
    BY DEF StructNames
  <2>3. /\ B32!eth_bls["ctt_eth_bls_fp"] = Bytes(48, 48, 1)
        /\ B32!eth_bls["ctt_eth_bls_fp2"] = Array("ctt_eth_bls_fp", 2, 96, 1)
        /\ B32!eth_bls["ctt_eth_bls_seckey"] = Bytes(32, 32, 1)
        /\ B32!eth_bls["ctt_eth_bls_pubkey"] = Affine("ctt_eth_bls_fp", 96, 1, 48)
        /\ B32!eth_bls["ctt_eth_bls_signature"] = Affine("ctt_eth_bls_fp2", 192, 1, 96)
    BY DEF B32!eth_bls, B32!Affine, Affine, B32!Array, Array, B32!Bytes, Bytes, B32!Field,
       Field, B32!Struct, Struct
  <2>4. /\ T["ctt_eth_bls_fp"].size = 48 /\ T["ctt_eth_bls_fp"].align = 1
        /\ T["ctt_eth_bls_fp2"].size = 96 /\ T["ctt_eth_bls_fp2"].align = 1
    <3>1. /\ Structs32[9]["ctt_eth_bls_fp"].size = 48 /\ Structs32[9]["ctt_eth_bls_fp"].align = 1
          /\ Structs32[9]["ctt_eth_bls_fp2"].size = 96 /\ Structs32[9]["ctt_eth_bls_fp2"].align = 1
      BY <2>1, <2>3 DEF Array, Bytes, Struct
    <3> QED
      BY <1>2, <2>1, <2>2, <3>1
  <2>5. /\ PointsOver(T, "ctt_eth_bls_fp", 1, 48, 96, 144)
        /\ PointsOver(T, "ctt_eth_bls_fp2", 1, 96, 192, 288)
    BY <2>4, PointsLaidOut
  <2>6. /\ LaidOut(T, Bytes(48, 48, 1))
        /\ LaidOut(T, Array("ctt_eth_bls_fp", 2, 96, 1))
        /\ LaidOut(T, Bytes(32, 32, 1))
        /\ LaidOut(T, Affine("ctt_eth_bls_fp", 96, 1, 48))
        /\ LaidOut(T, Affine("ctt_eth_bls_fp2", 192, 1, 96))
    BY <1>1, <1>3, <2>4, <2>5 DEF PointsOver
  <2> QED
    BY <2>1, <2>2, <2>3, <2>6
<1>14. LaidOut(T, Structs32[10]["ctt_span"])
  BY SpanLaidOut DEF T
<1>15. \A s \in StructNames[11] : LaidOut(T, Structs32[11][s])
  <2>1. Structs32[11] = B32!eth_kzg /\ 11 \in 1..12
    BY DEF Structs32
  <2>2. StructNames[11] =
          {"ctt_eth_kzg_commitment", "ctt_eth_kzg_proof",
           "ctt_eth_kzg_blob", "ctt_eth_kzg_opening_challenge",
           "ctt_eth_kzg_eval_at_challenge"}
    BY DEF StructNames
  <2>3. /\ B32!eth_kzg["ctt_eth_kzg_commitment"] = Bytes(48, 48, 1)
        /\ B32!eth_kzg["ctt_eth_kzg_proof"] = Bytes(48, 48, 1)
        /\ B32!eth_kzg["ctt_eth_kzg_blob"] = Bytes(131072, 131072, 1)
        /\ B32!eth_kzg["ctt_eth_kzg_opening_challenge"] = Bytes(32, 32, 1)
        /\ B32!eth_kzg["ctt_eth_kzg_eval_at_challenge"] = Bytes(32, 32, 1)
    BY DEF B32!eth_kzg, B32!Array, Array, B32!Bytes, Bytes, B32!Field, Field, B32!Struct,
       Struct
  <2>4. /\ LaidOut(T, Bytes(48, 48, 1))
        /\ LaidOut(T, Bytes(131072, 131072, 1))
        /\ LaidOut(T, Bytes(32, 32, 1))
    BY <1>1, <1>3
  <2> QED
    BY <2>1, <2>2, <2>3, <2>4
<1>16. \A s \in StructNames[12] : LaidOut(T, Structs32[12][s])
  <2>1. Structs32[12] = B32!kzg_cell /\ 12 \in 1..12
    BY DEF Structs32
  <2>2. StructNames[12] =
          {"ctt_eth_kzg_cell"}
    BY DEF StructNames
  <2>3. /\ B32!kzg_cell["ctt_eth_kzg_cell"] = Bytes(2048, 2048, 1)
    BY DEF B32!kzg_cell, B32!Array, Array, B32!Bytes, Bytes, B32!Field, Field, B32!Struct,
       Struct
  <2>4. /\ LaidOut(T, Bytes(2048, 2048, 1))
    BY <1>1, <1>3
  <2> QED
    BY <2>1, <2>2, <2>3, <2>4
<1>18. StructNames[1] = {"ctt_keccak256_context"} /\ StructNames[2] = {"ctt_sha256_context"}
       /\ StructNames[10] = {"ctt_span"}
  BY DEF StructNames
<1> SUFFICES ASSUME NEW i \in 1..12
             PROVE  \A s \in StructNames[i] : LaidOut(T, Structs32[i][s])
  BY DEF T
<1>19. i \in {1, 2, 3, 4, 5, 6, 7, 8, 9, 10, 11, 12}
  OBVIOUS
<1> QED
  BY <1>5, <1>6, <1>7, <1>8, <1>9, <1>10, <1>11, <1>12, <1>13, <1>14, <1>15, <1>16,
     <1>18, <1>19

(* What a target sees of the structs, and the assertions of the crate.       *)
LEMMA StructsOnTargets ==
  ASSUME NEW b \in Builds
  PROVE  /\ Targets[b].word = b.word
         /\ DOMAIN Targets[b].structs = AllStructs
         /\ \A i \in 1..12 : \A s \in StructNames[i] :
              Targets[b].structs[s] = IF b.word = 8 THEN Structs64[i][s] ELSE Structs32[i][s]
<1> DEFINE declared == Include(b.word, Declarations64, Declarations32)
           table == IF b.word = 8 THEN Structs64 ELSE Structs32
<1>1. Targets[b].structs = declared.structs /\ Targets[b].word = declared.word
  BY DEF Targets
<1>2. declared.word = b.word
  <2>1. Declarations64.word = 8 /\ Declarations32.word = 4
    BY DEF Declarations64, Declarations32, B64!word, B32!word
  <2> QED
    BY <2>1, Targeted DEF Include
<1>3. declared.structs = Merged(table) /\ table \in {Structs64, Structs32}
  BY StructsMerged DEF Include
<1>4. \A i \in 1..12 : \A s \in StructNames[i] :
        table[i][s] = IF b.word = 8 THEN Structs64[i][s] ELSE Structs32[i][s]
  OBVIOUS
<1> HIDE DEF declared, table
<1>5. DOMAIN Merged(table) = AllStructs
  BY <1>3, StructsMerged
<1>6. \A i \in 1..12 : \A s \in StructNames[i] : Merged(table)[s] = table[i][s]
  BY <1>3, StructAt
<1> QED
  BY <1>1, <1>2, <1>3, <1>4, <1>5, <1>6

LEMMA LaidOutOnTargets ==
  ASSUME NEW b \in Builds, NEW s \in AllStructs
  PROVE  LaidOut(Targets[b].types, Targets[b].structs[s])
<1>1. PICK i \in 1..12 : s \in StructNames[i]
  BY DEF AllStructs
<1>2. CASE b.word = 8
  BY <1>1, <1>2, StructsOnTargets, Structs64LaidOut
<1>3. CASE b.word = 4
  BY <1>1, <1>3, StructsOnTargets, Structs32LaidOut
<1> QED
  BY <1>2, <1>3, Targeted

LEMMA LayoutsOnTargets ==
  ASSUME target \in Builds
  PROVE  LayoutsHold
<1> SUFFICES ASSUME NEW t \in {Targets[target]}, NEW s \in DOMAIN t.structs
             PROVE  /\ t.structs[s].offsets = FieldOffsets(t.types, t.structs[s].fields)
                    /\ t.structs[s].align = StructAlign(t.types, t.structs[s])
                    /\ t.structs[s].size = StructSize(t.types, t.structs[s])
  BY DEF LayoutsHold, api
<1>1. t = Targets[target] /\ s \in AllStructs
  BY StructsOnTargets
<1>2. LaidOut(t.types, t.structs[s])
  BY <1>1, LaidOutOnTargets
<1> QED
  BY <1>2 DEF LaidOut

-----------------------------------------------------------------------------
(* The two files against each other.                                         *)
LEMMA SameConstants == Constants32 = Constants64
BY DEF Constants32, Constants64,
       B64!consts, B64!ctt_codec_scalar_status, B64!ctt_codec_ecc_status, B64!ctt_eth_bls_status,
       B64!ctt_eth_kzg_status, B64!ctt_eth_trusted_setup_status,
       B64!ctt_eth_trusted_setup_format, B64!ctt_evm_status,
       B32!consts, B32!ctt_codec_scalar_status, B32!ctt_codec_ecc_status, B32!ctt_eth_bls_status,
       B32!ctt_eth_kzg_status, B32!ctt_eth_trusted_setup_status,
       B32!ctt_eth_trusted_setup_format, B32!ctt_evm_status

LEMMA SameSizes ==
  ASSUME NEW i \in 1..12, NEW s \in StructNames[i], s # "ctt_span"
  PROVE  Structs64[i][s].size = Structs32[i][s].size
<1>1. CASE i = 1
  <2>1. Structs64[1] = B64!keccak256_context /\ Structs32[1] = B32!keccak256_context
    BY DEF Structs64, Structs32
  <2>2. \A x \in StructNames[1] : B64!keccak256_context[x].size = B32!keccak256_context[x].size
    BY DEF StructNames, B64!keccak256_context, B32!keccak256_context, B64!Struct, B32!Struct
  <2> QED
    BY <1>1, <2>1, <2>2
<1>2. CASE i = 2
  <2>1. Structs64[2] = B64!sha256_context /\ Structs32[2] = B32!sha256_context
    BY DEF Structs64, Structs32
  <2>2. \A x \in StructNames[2] : B64!sha256_context[x].size = B32!sha256_context[x].size
    BY DEF StructNames, B64!sha256_context, B32!sha256_context, B64!Struct, B32!Struct
  <2> QED
    BY <1>2, <2>1, <2>2
<1>3. CASE i = 3
  <2>1. Structs64[3] = B64!bigints /\ Structs32[3] = B32!bigints
    BY DEF Structs64, Structs32
  <2>2. \A x \in StructNames[3] : B64!bigints[x].size = B32!bigints[x].size
    BY DEF StructNames, B64!bigints, B32!bigints, B64!Array, B32!Array, B64!Limbs, B32!Limbs,
       B64!Struct, B32!Struct
  <2> QED
    BY <1>3, <2>1, <2>2
<1>4. CASE i = 4
  <2>1. Structs64[4] = B64!bls12_381 /\ Structs32[4] = B32!bls12_381
    BY DEF Structs64, Structs32
  <2>2. \A x \in StructNames[4] : B64!bls12_381[x].size = B32!bls12_381[x].size
    BY DEF StructNames, B64!bls12_381, B32!bls12_381, B64!Affine, B32!Affine, B64!Array,
       B32!Array, B64!Limbs, B32!Limbs, B64!Projective, B32!Projective, B64!Struct, B32!Struct
  <2> QED
    BY <1>4, <2>1, <2>2
<1>5. CASE i = 5
  <2>1. Structs64[5] = B64!bn254_snarks /\ Structs32[5] = B32!bn254_snarks
    BY DEF Structs64, Structs32
  <2>2. \A x \in StructNames[5] : B64!bn254_snarks[x].size = B32!bn254_snarks[x].size
    BY DEF StructNames, B64!bn254_snarks, B32!bn254_snarks, B64!Affine, B32!Affine,
       B64!Array, B32!Array, B64!Limbs, B32!Limbs, B64!Projective, B32!Projective,
       B64!Struct, B32!Struct
  <2> QED
    BY <1>5, <2>1, <2>2
<1>6. CASE i = 6
  <2>1. Structs64[6] = B64!pallas /\ Structs32[6] = B32!pallas
    BY DEF Structs64, Structs32
  <2>2. \A x \in StructNames[6] : B64!pallas[x].size = B32!pallas[x].size
    BY DEF StructNames, B64!pallas, B32!pallas, B64!Affine, B32!Affine, B64!Array, B32!Array,
       B64!Limbs, B32!Limbs, B64!Projective, B32!Projective, B64!Struct, B32!Struct
  <2> QED
    BY <1>6, <2>1, <2>2
<1>7. CASE i = 7
  <2>1. Structs64[7] = B64!vesta /\ Structs32[7] = B32!vesta
    BY DEF Structs64, Structs32
  <2>2. \A x \in StructNames[7] : B64!vesta[x].size = B32!vesta[x].size
    BY DEF StructNames, B64!vesta, B32!vesta, B64!Affine, B32!Affine, B64!Array, B32!Array,
       B64!Limbs, B32!Limbs, B64!Projective, B32!Projective, B64!Struct, B32!Struct
  <2> QED
    BY <1>7, <2>1, <2>2
<1>8. CASE i = 8
  <2>1. Structs64[8] = B64!banderwagon /\ Structs32[8] = B32!banderwagon
    BY DEF Structs64, Structs32
  <2>2. \A x \in StructNames[8] : B64!banderwagon[x].size = B32!banderwagon[x].size
    BY DEF StructNames, B64!banderwagon, B32!banderwagon, B64!Affine, B32!Affine, B64!Array,
       B32!Array, B64!Limbs, B32!Limbs, B64!Projective, B32!Projective, B64!Struct, B32!Struct
  <2> QED
    BY <1>8, <2>1, <2>2
<1>9. CASE i = 9
  <2>1. Structs64[9] = B64!eth_bls /\ Structs32[9] = B32!eth_bls
    BY DEF Structs64, Structs32
  <2>2. \A x \in StructNames[9] : B64!eth_bls[x].size = B32!eth_bls[x].size
    BY DEF StructNames, B64!eth_bls, B32!eth_bls, B64!Affine, B32!Affine, B64!Array,
       B32!Array, B64!Bytes, B32!Bytes, B64!Struct, B32!Struct
  <2> QED
    BY <1>9, <2>1, <2>2
<1>10. CASE i = 10
  BY <1>10 DEF StructNames
<1>11. CASE i = 11
  <2>1. Structs64[11] = B64!eth_kzg /\ Structs32[11] = B32!eth_kzg
    BY DEF Structs64, Structs32
  <2>2. \A x \in StructNames[11] : B64!eth_kzg[x].size = B32!eth_kzg[x].size
    BY DEF StructNames, B64!eth_kzg, B32!eth_kzg, B64!Array, B32!Array, B64!Bytes, B32!Bytes,
       B64!Struct, B32!Struct
  <2> QED
    BY <1>11, <2>1, <2>2
<1>12. CASE i = 12
  <2>1. Structs64[12] = B64!kzg_cell /\ Structs32[12] = B32!kzg_cell
    BY DEF Structs64, Structs32
  <2>2. \A x \in StructNames[12] : B64!kzg_cell[x].size = B32!kzg_cell[x].size
    BY DEF StructNames, B64!kzg_cell, B32!kzg_cell, B64!Array, B32!Array, B64!Bytes,
       B32!Bytes, B64!Struct, B32!Struct
  <2> QED
    BY <1>12, <2>1, <2>2
<1> QED
  BY <1>1, <1>2, <1>3, <1>4, <1>5, <1>6, <1>7, <1>8, <1>9, <1>10, <1>11, <1>12

LEMMA SizesOnTargets ==
  ASSUME NEW b \in Builds, NEW c \in Builds, NEW s \in AllStructs
  PROVE  IF s = "ctt_span"
         THEN Targets[b].structs[s].size * Targets[c].word
                = Targets[c].structs[s].size * Targets[b].word
         ELSE Targets[b].structs[s].size = Targets[c].structs[s].size
<1>1. PICK i \in 1..12 : s \in StructNames[i]
  BY DEF AllStructs
<1>2. CASE s = "ctt_span"
  <2>1. "ctt_span" \in AllStructs /\ "ctt_span" \in StructNames[10] /\ 10 \in 1..12
    BY DEF AllStructs, StructNames
  <2>2. /\ Structs64[10]["ctt_span"].size = 16 /\ Structs32[10]["ctt_span"].size = 8
    <3>1. Structs64[10] = B64!span /\ Structs32[10] = B32!span
      BY DEF Structs64, Structs32
    <3> QED
      BY <3>1 DEF B64!span, B64!Struct, B32!span, B32!Struct
  <2>3. \A t \in Builds : Targets[t].structs[s].size = 2 * t.word /\ Targets[t].word = t.word
    BY <1>2, <2>1, <2>2, StructsOnTargets, Targeted
  <2> QED
    BY <1>2, <2>3, Targeted
<1>3. CASE s # "ctt_span"
  <2>1. Structs64[i][s].size = Structs32[i][s].size
    BY <1>1, <1>3, SameSizes
  <2> QED
    BY <1>1, <1>3, <2>1, StructsOnTargets
<1> QED
  BY <1>2, <1>3

LEMMA BindingsOnTargets ==
  ASSUME target \in Builds
  PROVE  BindingsAgree
<1>1. constants = Constants64
  BY SameConstants DEF constants, Include
<1>2. ASSUME NEW here \in {api}, NEW there \in Range(Targets)
      PROVE  /\ here.prototypes = there.prototypes
             /\ here.opaque = there.opaque
             /\ DOMAIN here.structs = DOMAIN there.structs
             /\ \A s \in DOMAIN here.structs :
                  IF s = "ctt_span"
                  THEN here.structs[s].size * there.word = there.structs[s].size * here.word
                  ELSE here.structs[s].size = there.structs[s].size
  <2>1. here = Targets[target]
    BY DEF api
  <2>2. DOMAIN Targets = Builds
    BY DEF Targets
  <2>3. PICK b \in Builds : there = Targets[b]
    BY <2>2 DEF Range
  <2>4. here.prototypes = there.prototypes /\ here.opaque = there.opaque
    BY <2>1, <2>3, OnTargets
  <2>5. DOMAIN here.structs = AllStructs /\ DOMAIN there.structs = AllStructs
    BY <2>1, <2>3, StructsOnTargets
  <2> QED
    BY <2>1, <2>3, <2>4, <2>5, SizesOnTargets
<1> QED
  BY <1>1, <1>2 DEF BindingsAgree
=============================================================================
