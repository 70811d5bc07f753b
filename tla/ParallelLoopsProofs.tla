------------------------ MODULE ParallelLoopsProofs ------------------------
(***************************************************************************)
(* Proofs about ParallelLoops, for loops of any number of steps (starts,   *)
(* strides and failures are those of Loops) and any number of idle         *)
(* threads: however a loop is split while it runs, its parts tile the      *)
(* range, the scope outlives them, and a reduction hears of every failure. *)
(***************************************************************************)
EXTENDS ParallelLoops, PartitionersProofs, FiniteSetTheorems, WellFoundedInduction,
        SequenceTheorems

-----------------------------------------------------------------------------
(* Iterations by their number: iteration p of the loop has index At(p). *)

N == ceilDiv(loop.stop - loop.start, loop.stride)
At(p) == loop.start + loop.stride * p
P(i) == (i - loop.start) \div loop.stride

\* The bound of a part that ends before iteration b: the last one is cut off by the loop's.
Cap(b) == IF loop.stop <= At(b) THEN loop.stop ELSE At(b)

\* The chunks of a static partition.
Chunks == items(balancedChunksPrioSize(loop.start, loop.stop, minChunkSize, maxChunkSize,
                                       loop.hint))

\* The iterations before chunk c of a split.
Off(s, c) == s.base * c + (IF c < s.cutoff THEN c ELSE s.cutoff)

IsAlive(t) == task[t].pc \in {"queued", "balance", "push", "body"}
Used(t) == task[t].pc # "none"

\* What part t has before it: iterations Lo(t) .. Hi(t)-1, and while it is being split the
\* iterations PLo(t) .. PHi(t)-1, for which it still has to make tasks.  It began at F(t).
F(t) == P(task[t].loopStart)
Lo(t) == P(task[t].idx)
Hi(t) == Lo(t) + task[t].loopStepsLeft
PLo(t) == Lo(t) + Off(task[t].split, task[t].split.chunkID)
PHi(t) == Lo(t) + Off(task[t].split, task[t].split.workers)

Own(t, p) == IsAlive(t) /\ Lo(t) <= p /\ p < Hi(t)
Pending(t, p) == task[t].pc = "push" /\ PLo(t) <= p /\ p < PHi(t)
Mine(t, p) == Own(t, p) \/ Pending(t, p)

\* The iterations of the chunks that the owner has not spawned yet.
NumUsed == Cardinality({t \in Tasks : task[t].pc # "none"})
Rest(p) == owner = "body" /\ (loop.hint # 0 => Chunks[NumUsed + 1].start <= p)

-----------------------------------------------------------------------------
(* The inductive invariant. *)

Splits == [chunkID : Nat, workers : Nat, base : Nat, cutoff : Nat, at : Int, stop : Int]
TaskRecords ==
    [pc : {"none", "queued", "balance", "push", "body", "unlisted", "ended", "freed"},
     isFirstIter : BOOLEAN, loopStart : Int, loopStop : Int, loopStepsLeft : Nat, idx : Int,
     dag : Seq(Tasks), status : Int, split : Splits]

Types ==
    /\ loop \in Loops
    /\ task \in [Tasks -> TaskRecords]
    /\ \A t \in Tasks : task[t].status \in loop.failing \union {Success}
    /\ owner \in {"body", "sync", "wait", "left"}
    /\ status \in loop.failing \union {Success}
    /\ runs \in [Window -> {0, 1}]
    /\ \A i \in Window : runs[i] = 1 => i \in Indices(loop)

\* The bounds of a part: it starts and ends at an iteration, and its step counter and its
\* bounds say the same.  Nothing is left of a part that has ended.
Bounded(t) ==
    IF IsAlive(t)
    THEN /\ Lo(t) \in Nat /\ task[t].idx = At(Lo(t))
         /\ Hi(t) <= N /\ task[t].loopStop = Cap(Hi(t))
         /\ task[t].pc \in {"body", "push"} => Lo(t) < Hi(t)
    ELSE task[t].loopStepsLeft = 0

\* A split under way: the chunks that are left follow the part that is kept.
Splitting(t) ==
    task[t].pc = "push" =>
        LET s == task[t].split
        IN  /\ loop.hint = 0
            /\ 2 <= s.workers /\ s.cutoff < s.workers
            /\ 1 <= s.chunkID /\ s.chunkID <= s.workers
            /\ s.at = task[t].idx
            /\ Hi(t) <= PLo(t) /\ PLo(t) <= PHi(t) /\ PHi(t) <= N
            /\ s.stop = Cap(PHi(t))

\* Every iteration has run or lies before exactly one part, or was not spawned yet.
Tiling ==
    /\ \A t, u \in Tasks : \A p \in 0 .. N - 1 : Mine(t, p) /\ Mine(u, p) => t = u
    /\ \A p \in 0 .. N - 1 : (Rest(p) \/ \E t \in Tasks : Mine(t, p)) => runs[At(p)] = 0
    /\ \A p \in 0 .. N - 1 : Rest(p) => \A t \in Tasks : ~Mine(t, p)
    /\ \A p \in 0 .. N - 1 : runs[At(p)] = 1 \/ Rest(p) \/ \E t \in Tasks : Mine(t, p)

\* The parts begin at different iterations, so that there are never more than iterations.
Starts ==
    /\ \A t \in Tasks : Used(t) =>
         /\ F(t) \in 0 .. N - 1
         /\ runs[At(F(t))] = 1 \/ (IsAlive(t) /\ F(t) = Lo(t) /\ Lo(t) < Hi(t))
    /\ \A t, u \in Tasks : Used(t) /\ Used(u) /\ F(t) = F(u) => t = u
    /\ \A t, u \in Tasks : t < u /\ Used(u) => Used(t)

\* The owner spawns the only part of a loop that is split, or its chunks one by one.
Spawning ==
    owner = "body" =>
        IF loop.hint = 0 THEN \A t \in Tasks : ~Used(t)
        ELSE NumUsed < Len(Chunks)

Counted == descendants = Cardinality(Alive)

\* The futures that parts await.
Awaiting ==
    /\ \A t \in Tasks : \A k \in DOMAIN task[t].dag :
         /\ t < task[t].dag[k]
         /\ task[task[t].dag[k]].pc \notin {"none", "freed"}
    /\ \A t, u \in Tasks : \A k \in DOMAIN task[t].dag : \A j \in DOMAIN task[u].dag :
         task[t].dag[k] = task[u].dag[j] => t = u /\ k = j
    /\ \A t \in Tasks : task[t].dag # << >> => task[t].pc \in {"balance", "push", "body"}
    /\ \A t \in Tasks : task[t].dag # << >> \/ task[t].pc = "ended" => loop.hasFuture
    /\ loop.hasFuture =>
         \A u \in Tasks \ {1} : task[u].pc \notin {"none", "freed"} =>
             \E t \in Tasks : \E k \in DOMAIN task[t].dag : task[t].dag[k] = u

\* The first part of a reduction is awaited by the owner.
Owners ==
    /\ owner = "sync" => loop.hasFuture /\ task[1].pc \notin {"none", "freed"}
    /\ owner \in {"wait", "left"} /\ loop.hasFuture => task[1].pc = "freed"
    /\ owner = "left" => \A t \in Tasks : ~IsAlive(t)

\* A failure that happened is known to a part that is still to be merged.
Reported ==
    /\ loop.hasFuture /\ owner \in {"body", "sync"} =>
         \A i \in loop.failing : runs[i] = 1 =>
             \E t \in Tasks : task[t].pc \notin {"none", "freed"} /\ task[t].status # Success
    /\ loop.hasFuture /\ owner \in {"wait", "left"} /\ loop.failing # {} => status # Success

IInv ==
    /\ Types
    /\ \A t \in Tasks : Bounded(t) /\ Splitting(t)
    /\ Tiling /\ Starts /\ Spawning /\ Counted /\ Awaiting /\ Owners /\ Reported
-----------------------------------------------------------------------------
(* Least elements. *)

Less == {ss \in Nat \X Nat : ss[1] < ss[2]}

LEMMA LeastNat ==
    ASSUME NEW T, T \subseteq Nat, T # {}
    PROVE  \E x \in T : \A y \in T : x <= y
<1>1. OpToRel(<, Nat) = Less  BY DEF OpToRel, Less
<1>2. IsWellFoundedOn(Less, Nat)  BY <1>1, NatLessThanWellFounded
<1>3. PICK x \in T : \A y \in T : ~ (<<y, x>> \in Less)  BY <1>2, WFMin
<1>4. \A a, b \in Nat : a < b => <<a, b>> \in Less  BY DEF Less
<1>5. \A y \in T : x <= y
  <2> SUFFICES ASSUME NEW y \in T, ~(x <= y) PROVE FALSE  OBVIOUS
  <2>1. x \in Nat /\ y \in Nat /\ y < x  OBVIOUS
  <2> QED  BY <1>3, <1>4, <2>1
<1> QED  BY <1>5

-----------------------------------------------------------------------------
(* Indices and iterations. *)

LEMMA LoopFacts ==
    ASSUME loop \in Loops
    PROVE  /\ MaxSteps \in Nat \ {0}
           /\ loop.start \in {0, 2} /\ loop.stop \in Nat /\ loop.stop <= 2 * MaxSteps
           /\ loop.start < loop.stop
           /\ loop.stride \in {1, 2}
           /\ loop.failing \subseteq Indices(loop) /\ loop.failing \subseteq Nat
           /\ Success \notin loop.failing
           /\ loop.hasFuture \in BOOLEAN
           /\ loop.hint \in Nat
           /\ loop.hint # 0 => loop.start = 0 /\ loop.stride = 1 /\ ~loop.hasFuture
           /\ N <= MaxSteps
<1>1. MaxSteps \in Nat \ {0}  BY LoopAssumption
<1>2. /\ loop.start \in {0, 2} /\ loop.stop \in 1 .. 2 * MaxSteps /\ loop.stride \in {1, 2}
      /\ loop.hasFuture \in BOOLEAN /\ loop.failing \subseteq 0 .. 2 * MaxSteps
      /\ loop.hint \in 0 .. 4
  BY DEF Loops
<1>3. /\ loop.start < loop.stop /\ N <= MaxSteps
      /\ loop.failing \subseteq Indices(loop)
      /\ loop.hint # 0 => loop.start = 0 /\ loop.stride = 1 /\ ~loop.hasFuture
  BY DEF Loops, N
<1>4. -1 \notin 0 .. 2 * MaxSteps  BY <1>1
<1> QED  BY <1>1, <1>2, <1>3, <1>4 DEF Success

\* Numbers and indices of iterations correspond.
LEMMA Geometry ==
    ASSUME loop \in Loops
    PROVE  /\ N \in 1 .. MaxSteps
           /\ \A p \in Int : At(p) \in Int /\ P(At(p)) = p /\ At(p + 1) = At(p) + loop.stride
           /\ \A p \in Int : At(p) < loop.stop <=> p < N
           /\ \A p, q \in Int : At(p) < At(q) <=> p < q
           /\ \A p \in 0 .. N - 1 : At(p) \in Window /\ At(p) \in Indices(loop)
           /\ \A i \in Indices(loop) : i \in Window /\ \E p \in 0 .. N - 1 : i = At(p)
<1>1. /\ MaxSteps \in Nat \ {0} /\ loop.start \in Nat /\ loop.stop \in Nat
      /\ loop.stop <= 2 * MaxSteps /\ loop.start < loop.stop
      /\ loop.stride \in {1, 2} /\ N <= MaxSteps
  BY LoopFacts
<1>2. N \in Nat /\ N >= 1 /\ (\A p \in Int : loop.stride * p < loop.stop - loop.start <=> p < N)
  <2>1. CASE loop.stride = 1  BY <1>1, <2>1 DEF N, ceilDiv
  <2>2. CASE loop.stride = 2  BY <1>1, <2>2 DEF N, ceilDiv
  <2> QED  BY <1>1, <2>1, <2>2
<1>3. \A p \in Int : At(p) \in Int /\ P(At(p)) = p /\ At(p + 1) = At(p) + loop.stride
  <2>1. CASE loop.stride = 1  BY <1>1, <2>1 DEF At, P
  <2>2. CASE loop.stride = 2  BY <1>1, <2>2 DEF At, P
  <2> QED  BY <1>1, <2>1, <2>2
<1>7. \A p \in Int : At(p) < loop.stop <=> p < N
  <2>1. CASE loop.stride = 1  BY <1>1, <1>2, <2>1 DEF At
  <2>2. CASE loop.stride = 2  BY <1>1, <1>2, <2>2 DEF At
  <2> QED  BY <1>1, <2>1, <2>2
<1>4. \A p, q \in Int : At(p) < At(q) <=> p < q
  <2>1. CASE loop.stride = 1  BY <1>1, <2>1 DEF At
  <2>2. CASE loop.stride = 2  BY <1>1, <2>2 DEF At
  <2> QED  BY <1>1, <2>1, <2>2
<1>5. ASSUME NEW p \in 0 .. N - 1
      PROVE  At(p) \in Window /\ At(p) \in Indices(loop)
  <2>1. p \in Nat /\ p < N  BY <1>2
  <2>2. At(p) \in Int /\ At(p) < loop.stop /\ At(p) >= loop.start
    BY <1>1, <1>3, <1>7, <2>1 DEF At
  <2>3. At(p) \in Window  BY <1>1, <2>2 DEF Window
  <2>4. (At(p) - loop.start) % loop.stride = 0
    <3>1. CASE loop.stride = 1  BY <1>1, <2>1, <3>1 DEF At
    <3>2. CASE loop.stride = 2  BY <1>1, <2>1, <3>2 DEF At
    <3> QED  BY <1>1, <3>1, <3>2
  <2> QED  BY <1>1, <2>2, <2>3, <2>4 DEF Indices
<1>6. ASSUME NEW i \in Indices(loop)
      PROVE  i \in Window /\ \E p \in 0 .. N - 1 : i = At(p)
  <2>1. i \in Nat /\ loop.start <= i /\ i < loop.stop /\ (i - loop.start) % loop.stride = 0
    BY <1>1 DEF Indices
  <2>2. i \in Window  BY <1>1, <2>1 DEF Window
  <2>3. P(i) \in Nat /\ i = At(P(i))
    <3>1. CASE loop.stride = 1  BY <1>1, <2>1, <3>1 DEF At, P
    <3>2. CASE loop.stride = 2  BY <1>1, <2>1, <3>2 DEF At, P
    <3> QED  BY <1>1, <3>1, <3>2
  <2>4. P(i) < N  BY <1>7, <2>1, <2>3
  <2> QED  BY <1>2, <2>2, <2>3, <2>4
<1>8. N \in 1 .. MaxSteps  BY <1>1, <1>2
<1> QED  BY <1>8, <1>3, <1>7, <1>4, <1>5, <1>6, Zenon

\* The bounds of parts.
LEMMA CapFacts ==
    ASSUME loop \in Loops, NEW a \in Int, NEW b \in Int, a <= b, b <= N
    PROVE  /\ Cap(b) \in Int
           /\ At(a) < Cap(b) <=> a < b
           /\ Min({Cap(b), At(a)}) = Cap(a)
           /\ (IF At(a) >= Cap(b) THEN 0 ELSE ceilDiv(Cap(b) - At(a), loop.stride)) = b - a
           /\ Cap(N) = loop.stop
<1>1. /\ MaxSteps \in Nat \ {0} /\ loop.start \in Nat /\ loop.stop \in Nat
      /\ loop.start < loop.stop /\ loop.stride \in {1, 2}
  BY LoopFacts
<1>2. /\ N \in Nat /\ At(a) \in Int /\ At(b) \in Int /\ At(N) \in Int
      /\ At(a) < loop.stop <=> a < N
      /\ ~(At(N) < loop.stop)
      /\ At(a) < At(b) <=> a < b
      /\ At(b) < At(a) <=> b < a
  <2>1. N \in Nat  BY Geometry
  <2>2. At(a) \in Int /\ At(b) \in Int /\ At(N) \in Int  BY <2>1, Geometry
  <2>3. (At(a) < loop.stop <=> a < N) /\ (At(N) < loop.stop <=> N < N)  BY <2>1, Geometry
  <2>4. (At(a) < At(b) <=> a < b) /\ (At(b) < At(a) <=> b < a)  BY Geometry
  <2> QED  BY <2>1, <2>2, <2>3, <2>4
<1>3. Cap(N) = loop.stop /\ Cap(b) \in Int /\ (At(a) < Cap(b) <=> a < b)  BY <1>1, <1>2 DEF Cap
<1>4. Min({Cap(b), At(a)}) = Cap(a)  BY <1>1, <1>2, <1>3, MinOfTwo DEF Cap
<1>5. (IF At(a) >= Cap(b) THEN 0 ELSE ceilDiv(Cap(b) - At(a), loop.stride)) = b - a
  <2>1. CASE loop.stride = 1
    BY <1>1, <1>2, <2>1 DEF At, Cap, N, ceilDiv
  <2>2. CASE loop.stride = 2
    BY <1>1, <1>2, <2>2 DEF At, Cap, N, ceilDiv
  <2> QED  BY <1>1, <2>1, <2>2
<1> QED  BY <1>3, <1>4, <1>5

\* The chunks of a split follow each other, and there is nothing after the last.
LEMMA OffFacts ==
    ASSUME NEW s \in Splits, s.cutoff < s.workers, NEW c \in Nat, c <= s.workers
    PROVE  /\ Off(s, c) \in Nat
           /\ Off(s, c) <= Off(s, s.workers)
           /\ Off(s, c + 1) = Off(s, c) + s.base + (IF c < s.cutoff THEN 1 ELSE 0)
           /\ Off(s, s.workers) = s.base * s.workers + s.cutoff
           /\ c >= s.cutoff /\ s.base = 0 => Off(s, c) = Off(s, s.workers)
           /\ Off(s, 1) = s.base + (IF 0 < s.cutoff THEN 1 ELSE 0)
<1> DEFINE b == s.base
           w == s.workers
           k == s.cutoff
<1>1. b \in Nat /\ w \in Nat /\ k \in Nat  BY DEF Splits
<1>2. /\ Off(s, c) = b * c + (IF c < k THEN c ELSE k)
      /\ Off(s, w) = b * w + (IF w < k THEN w ELSE k)
      /\ Off(s, c + 1) = b * (c + 1) + (IF c + 1 < k THEN c + 1 ELSE k)
      /\ Off(s, 1) = b * 1 + (IF 1 < k THEN 1 ELSE k)
  BY DEF Off
<1> HIDE DEF b, w, k
<1>3. b * c \in Nat /\ b * w \in Nat /\ b * (c + 1) = b * c + b /\ b * 1 = b  BY <1>1, SMT
<1>4. b * c <= b * w  BY <1>1, MulMono DEF w
<1>5. b = 0 => b * c = 0 /\ b * w = 0  BY <1>1, SMT
<1>6. c <= w /\ k < w  BY DEF w, k
<1>7. /\ Off(s, c) \in Nat
      /\ Off(s, c) <= Off(s, w)
      /\ Off(s, w) = b * w + k
  BY <1>1, <1>2, <1>3, <1>4, <1>6
<1>8. Off(s, c + 1) = Off(s, c) + b + (IF c < k THEN 1 ELSE 0)  BY <1>1, <1>2, <1>3
<1>9. c >= k /\ b = 0 => Off(s, c) = Off(s, w)  BY <1>1, <1>2, <1>5, <1>6
<1>10. Off(s, 1) = b + (IF 0 < k THEN 1 ELSE 0)  BY <1>1, <1>2, <1>3
<1> QED  BY <1>7, <1>8, <1>9, <1>10 DEF b, w, k

-----------------------------------------------------------------------------
(* What a step leaves alone. *)

\* The loop is the same in every step, and so are the places of its iterations.
LEMMA SameLoop ==
    ASSUME loop' = loop
    PROVE  /\ N' = N /\ Chunks' = Chunks
           /\ \A p : At(p)' = At(p) /\ P(p)' = P(p) /\ Cap(p)' = Cap(p)
BY DEF N, Chunks, At, P, Cap

\* A part that keeps its range and its split.
KeepsRange(u) ==
    /\ task'[u].loopStart = task[u].loopStart /\ task'[u].loopStop = task[u].loopStop
    /\ task'[u].loopStepsLeft = task[u].loopStepsLeft /\ task'[u].idx = task[u].idx
    /\ task'[u].split = task[u].split

LEMMA SameRange ==
    ASSUME loop' = loop, NEW u, KeepsRange(u)
    PROVE  F(u)' = F(u) /\ Lo(u)' = Lo(u) /\ Hi(u)' = Hi(u) /\ PLo(u)' = PLo(u) /\ PHi(u)' = PHi(u)
BY DEF KeepsRange, F, Lo, Hi, PLo, PHi, P, Off

LEMMA SameTask ==
    ASSUME loop' = loop, NEW u, task'[u] = task[u]
    PROVE  /\ F(u)' = F(u) /\ Lo(u)' = Lo(u) /\ Hi(u)' = Hi(u) /\ PLo(u)' = PLo(u) /\ PHi(u)' = PHi(u)
           /\ IsAlive(u)' <=> IsAlive(u)
           /\ Used(u)' <=> Used(u)
           /\ \A p : Own(u, p)' <=> Own(u, p)
           /\ \A p : Pending(u, p)' <=> Pending(u, p)
           /\ \A p : Mine(u, p)' <=> Mine(u, p)
           /\ Bounded(u) => Bounded(u)'
           /\ Splitting(u) => Splitting(u)'
<1>1. KeepsRange(u)  BY DEF KeepsRange
<1>2. F(u)' = F(u) /\ Lo(u)' = Lo(u) /\ Hi(u)' = Hi(u) /\ PLo(u)' = PLo(u) /\ PHi(u)' = PHi(u)
  BY <1>1, SameRange
<1>3. (IsAlive(u)' <=> IsAlive(u)) /\ (Used(u)' <=> Used(u))  BY DEF IsAlive, Used
<1>4. /\ \A p : Own(u, p)' <=> Own(u, p)
      /\ \A p : Pending(u, p)' <=> Pending(u, p)
  BY <1>2, <1>3 DEF Own, Pending
<1>5. \A p : Mine(u, p)' <=> Mine(u, p)  BY <1>4 DEF Mine
<1>6. N' = N /\ \A p : At(p)' = At(p) /\ Cap(p)' = Cap(p)  BY SameLoop
<1>7. /\ At(Lo(u))' = At(Lo(u)) /\ Cap(Hi(u))' = Cap(Hi(u)) /\ Cap(PHi(u))' = Cap(PHi(u))
  BY <1>2 DEF At, Cap
<1>8. Bounded(u) => Bounded(u)'  BY <1>2, <1>3, <1>6, <1>7 DEF Bounded
<1>9. Splitting(u) => Splitting(u)'  BY <1>2, <1>6, <1>7 DEF Splitting
<1> QED  BY <1>2, <1>3, <1>4, <1>5, <1>8, <1>9

\* If no iteration moves, the range stays tiled.
LEMMA TilingKeeps ==
    ASSUME Tiling, loop' = loop, runs' = runs,
           \A u \in Tasks : \A p \in 0 .. N - 1 : Mine(u, p)' <=> Mine(u, p),
           \A p \in 0 .. N - 1 : Rest(p)' <=> Rest(p)
    PROVE  Tiling'
<1>1. N' = N /\ \A p : At(p)' = At(p)  BY SameLoop
<1>2. \A p : runs'[At(p)'] = runs[At(p)]  BY <1>1
<1> QED  BY <1>1, <1>2 DEF Tiling

LEMMA StartsKeep ==
    ASSUME Starts, loop' = loop, runs' = runs,
           \A u \in Tasks : /\ F(u)' = F(u) /\ (Used(u)' <=> Used(u))
                            /\ IsAlive(u) /\ Lo(u) < Hi(u) =>
                                 IsAlive(u)' /\ Lo(u)' = Lo(u) /\ Lo(u)' < Hi(u)'
    PROVE  Starts'
<1>1. N' = N /\ \A p : At(p)' = At(p)  BY SameLoop
<1>2. \A u \in Tasks : At(F(u))' = At(F(u))  BY DEF At
<1>3. \A u \in Tasks : Used(u)' =>
        /\ F(u)' \in 0 .. N' - 1
        /\ runs'[At(F(u))'] = 1 \/ (IsAlive(u)' /\ F(u)' = Lo(u)' /\ Lo(u)' < Hi(u)')
  BY <1>1, <1>2 DEF Starts
<1> QED  BY <1>3 DEF Starts

\* Whether a task is used decides what the owner has still to spawn.
LEMMA SpawningKeeps ==
    ASSUME Spawning, loop' = loop, owner' = "body" <=> owner = "body",
           \A u \in Tasks : Used(u)' <=> Used(u)
    PROVE  Spawning' /\ NumUsed' = NumUsed /\ \A p : Rest(p)' <=> Rest(p)
<1>1. {u \in Tasks : task'[u].pc # "none"} = {u \in Tasks : task[u].pc # "none"}  BY DEF Used
<1>2. NumUsed' = NumUsed  BY <1>1 DEF NumUsed
<1>3. Chunks' = Chunks  BY SameLoop
<1> QED  BY <1>2, <1>3 DEF Spawning, Rest

LEMMA CountedKeeps ==
    ASSUME Counted, descendants' = descendants, \A u \in Tasks : IsAlive(u)' <=> IsAlive(u)
    PROVE  Counted'
<1>1. Alive' = Alive  BY DEF Alive, IsAlive
<1> QED  BY <1>1 DEF Counted

\* A part that is not finished has its bounds at iterations of the loop.
LEMMA PartFacts ==
    ASSUME Types, NEW t \in Tasks, Bounded(t), IsAlive(t)
    PROVE  /\ loop \in Loops /\ N \in Nat /\ task[t].loopStepsLeft \in Nat
           /\ Lo(t) \in Nat /\ Hi(t) \in Nat /\ Lo(t) <= Hi(t) /\ Hi(t) <= N
           /\ Hi(t) = Lo(t) + task[t].loopStepsLeft
           /\ task[t].idx = At(Lo(t)) /\ task[t].loopStop = Cap(Hi(t))
           /\ task[t].idx < task[t].loopStop <=> Lo(t) < Hi(t)
           /\ task[t].idx >= task[t].loopStop <=> Lo(t) = Hi(t)
<1>1. Lo(t) \in Nat /\ task[t].idx = At(Lo(t)) /\ Hi(t) <= N /\ task[t].loopStop = Cap(Hi(t))
  BY DEF Bounded
<1>2. task[t].loopStepsLeft \in Nat /\ task[t].idx \in Int /\ task[t].loopStop \in Int
  BY DEF Types, TaskRecords
<1>3. Hi(t) = Lo(t) + task[t].loopStepsLeft  BY DEF Hi
<1>4. Hi(t) \in Nat /\ Lo(t) <= Hi(t)  BY <1>1, <1>2, <1>3
<1>5. loop \in Loops  BY DEF Types
<1>6. N \in Nat  BY <1>5, Geometry
<1>7. At(Lo(t)) < Cap(Hi(t)) <=> Lo(t) < Hi(t)
  <2>1. Lo(t) \in Int /\ Hi(t) \in Int  BY <1>1, <1>4
  <2> QED  BY <1>1, <1>4, <1>5, <2>1, CapFacts, Zenon
<1>8. task[t].idx < task[t].loopStop <=> Lo(t) < Hi(t)  BY <1>1, <1>7
<1> QED  BY <1>1, <1>2, <1>3, <1>4, <1>5, <1>6, <1>8

-----------------------------------------------------------------------------
(* Steps in which no iteration moves. *)

Layout ==
    /\ \A t \in Tasks : Bounded(t) /\ Splitting(t)
    /\ Tiling /\ Starts /\ Spawning /\ Counted

Quiet ==
    /\ loop' = loop /\ runs' = runs /\ descendants' = descendants
    /\ owner' = "body" <=> owner = "body"
    /\ \A u \in Tasks :
         /\ KeepsRange(u)
         /\ IsAlive(u)' <=> IsAlive(u)
         /\ Used(u)' <=> Used(u)
         /\ task'[u].pc = "push" <=> task[u].pc = "push"
         /\ task'[u].pc = "body" => task[u].pc = "body" \/ Lo(u) < Hi(u)

LEMMA QuietKeeps ==
    ASSUME Layout, Quiet
    PROVE  Layout'
<1>1. \A u \in Tasks : /\ F(u)' = F(u) /\ Lo(u)' = Lo(u) /\ Hi(u)' = Hi(u)
                       /\ PLo(u)' = PLo(u) /\ PHi(u)' = PHi(u)
  BY SameRange DEF Quiet
<1>2. N' = N /\ loop' = loop  BY SameLoop DEF Quiet
<1>3. ASSUME NEW u \in Tasks PROVE Bounded(u)' /\ Splitting(u)'
  <2>1. /\ At(Lo(u))' = At(Lo(u)) /\ Cap(Hi(u))' = Cap(Hi(u)) /\ Cap(PHi(u))' = Cap(PHi(u))
    BY <1>1, <1>2 DEF At, Cap
  <2>2. Bounded(u)  BY DEF Layout
  <2>3. /\ IsAlive(u)' <=> IsAlive(u)
        /\ KeepsRange(u)
        /\ task'[u].pc \in {"body", "push"} => task[u].pc \in {"body", "push"} \/ Lo(u) < Hi(u)
    BY DEF Quiet
  <2>4. task[u].pc \in {"body", "push"} => IsAlive(u)  BY DEF IsAlive
  <2>5. Bounded(u)'  BY <1>1, <1>2, <2>1, <2>2, <2>3, <2>4 DEF Bounded, KeepsRange
  <2>6. Splitting(u)  BY DEF Layout
  <2>7. Splitting(u)'  BY <1>1, <1>2, <2>1, <2>6 DEF Splitting, KeepsRange, Quiet
  <2> QED  BY <2>5, <2>7
<1>4. Spawning' /\ NumUsed' = NumUsed /\ \A p : Rest(p)' <=> Rest(p)
  BY SpawningKeeps DEF Layout, Quiet
<1>5. \A u \in Tasks : \A p \in 0 .. N - 1 : Mine(u, p)' <=> Mine(u, p)
  BY <1>1 DEF Mine, Own, Pending, Quiet
<1>6. Tiling'  BY <1>2, <1>4, <1>5, TilingKeeps DEF Layout, Quiet
<1>7. Starts'  BY <1>1, <1>2, StartsKeep DEF Layout, Quiet
<1>8. Counted'  BY CountedKeeps DEF Layout, Quiet
<1> QED  BY <1>3, <1>4, <1>6, <1>7, <1>8 DEF Layout

\* The parts of the invariant that are about futures and statuses.
Futures == Awaiting /\ Owners /\ Reported

LEMMA Parts == IInv <=> Types /\ Layout /\ Futures
BY DEF IInv, Layout, Futures

\* A task that moves on within the states of a running part.
LEMMA BeginOrKeep ==
    ASSUME IInv, NEW t \in Tasks, Begin(t) \/ KeepAll(t)
    PROVE  IInv'
<1>1. Types /\ Layout /\ Futures  BY Parts
<1>2. /\ task[t].pc \in {"queued", "balance"}
      /\ UNCHANGED <<loop, descendants, owner, status, runs>>
      /\ \E q \in {"balance", "body"} : task' = [task EXCEPT ![t].pc = q]
  BY DEF Begin, KeepAll
<1>3. PICK q \in {"balance", "body"} : task' = [task EXCEPT ![t].pc = q]  BY <1>2
<1>4. task \in [Tasks -> TaskRecords]  BY <1>1 DEF Types
<1>5. task'[t] = [task[t] EXCEPT !.pc = q] /\ \A u \in Tasks : u # t => task'[u] = task[u]
  BY <1>3, <1>4
<1>6. \A u \in Tasks : /\ KeepsRange(u) /\ task'[u].dag = task[u].dag
                       /\ task'[u].status = task[u].status
                       /\ task'[u].pc = IF u = t THEN q ELSE task[u].pc
  BY <1>4, <1>5 DEF KeepsRange, TaskRecords
<1>7. q = "body" => Lo(t) < Hi(t)
  <2>1. SUFFICES ASSUME q = "body" PROVE Lo(t) < Hi(t)  OBVIOUS
  <2>2. task[t].idx < task[t].loopStop /\ IsAlive(t)
    <3>1. task'[t].pc = "body"  BY <1>6, <2>1
    <3>2. ~Begin(t)
      <4>1. ASSUME Begin(t) PROVE FALSE
        <5>1. task'[t].pc = "balance"  BY <1>4, <4>1 DEF Begin, TaskRecords
        <5> QED  BY <3>1, <5>1
      <4> QED  BY <4>1
    <3> QED  BY <3>2 DEF KeepAll, IsAlive
  <2> QED  BY <1>1, <2>2, PartFacts DEF Layout
<1>8. Quiet  BY <1>2, <1>6, <1>7 DEF Quiet, IsAlive, Used
<1>9. Layout'  BY <1>1, <1>8, QuietKeeps
<1>10. Types'
  <2>1. task' \in [Tasks -> TaskRecords]  BY <1>3, <1>4, ZenonT(60) DEF TaskRecords
  <2> QED  BY <1>1, <1>2, <1>6, <2>1 DEF Types
<1>11. Awaiting'  BY <1>1, <1>2, <1>6 DEF Futures, Awaiting
<1>12. Owners'  BY <1>1, <1>2, <1>6, <1>8 DEF Futures, Owners, Quiet
<1>13. Reported'  BY <1>1, <1>2, <1>6 DEF Futures, Reported
<1> QED  BY <1>9, <1>10, <1>11, <1>12, <1>13, Parts, PTL DEF Futures

\* Sequences of futures.
LEMMA TailFacts ==
    ASSUME NEW S, NEW s \in Seq(S), s # << >>
    PROVE  /\ DOMAIN s = 1 .. Len(s) /\ Len(s) \in Nat \ {0} /\ Head(s) = s[1] /\ s[1] \in S
           /\ Tail(s) \in Seq(S) /\ DOMAIN Tail(s) = 1 .. Len(s) - 1
           /\ \A k \in DOMAIN Tail(s) : Tail(s)[k] = s[k + 1] /\ k + 1 \in DOMAIN s
<1>1. Len(s) \in Nat /\ Len(s) # 0 /\ DOMAIN s = 1 .. Len(s)  OBVIOUS
<1>2. Tail(s) \in Seq(S) /\ Len(Tail(s)) = Len(s) - 1  OBVIOUS
<1>3. DOMAIN Tail(s) = 1 .. Len(s) - 1  BY <1>2
<1>4. \A k \in 1 .. Len(s) - 1 : Tail(s)[k] = s[k + 1]  BY <1>1, <1>2
<1> QED  BY <1>1, <1>2, <1>3, <1>4

\* The future at the head of the list is awaited, merged and freed.
LEMMA MergeRemoteKeeps ==
    ASSUME IInv, NEW t \in Tasks, MergeRemote(t)
    PROVE  IInv'
<1> DEFINE d == task[t].dag
           r == Head(d)
<1>1. Types /\ Layout /\ Awaiting /\ Owners /\ Reported  BY Parts DEF Futures
<1>2. /\ task[t].pc = "balance" /\ d # << >> /\ task[r].pc = "ended"
      /\ task' = [task EXCEPT ![r].pc = "freed", ![t].dag = Tail(@),
                              ![t].status = IF @ = Success THEN task[r].status ELSE @]
      /\ UNCHANGED <<loop, descendants, owner, status, runs>>
  BY DEF MergeRemote
<1>3. task \in [Tasks -> TaskRecords]  BY <1>1 DEF Types
<1>4. d \in Seq(Tasks)  BY <1>3 DEF TaskRecords
<1>5. /\ DOMAIN d = 1 .. Len(d) /\ Len(d) \in Nat \ {0} /\ r = d[1] /\ r \in Tasks
      /\ Tail(d) \in Seq(Tasks) /\ DOMAIN Tail(d) = 1 .. Len(d) - 1
      /\ \A k \in DOMAIN Tail(d) : Tail(d)[k] = d[k + 1] /\ k + 1 \in DOMAIN d
  BY <1>2, <1>4, TailFacts
<1>6. r # t  BY <1>2
<1> HIDE DEF d, r
<1>7. /\ task'[t] = [task[t] EXCEPT !.dag = Tail(d),
                                    !.status = IF @ = Success THEN task[r].status ELSE @]
      /\ task'[r] = [task[r] EXCEPT !.pc = "freed"]
      /\ \A u \in Tasks : u # t /\ u # r => task'[u] = task[u]
      /\ task' \in [Tasks -> TaskRecords]
  <2>1. task'[t] = [task[t] EXCEPT !.dag = Tail(d),
                                   !.status = IF @ = Success THEN task[r].status ELSE @]
    BY <1>2, <1>3, <1>5, <1>6 DEF TaskRecords, d
  <2>2. task'[r] = [task[r] EXCEPT !.pc = "freed"]
    BY <1>2, <1>3, <1>5, <1>6 DEF TaskRecords
  <2>3. \A u \in Tasks : u # t /\ u # r => task'[u] = task[u]
    BY <1>2, <1>3, <1>5, <1>6
  <2>4. task'[t] \in TaskRecords
    BY <1>3, <1>5, <2>1, ZenonT(60) DEF TaskRecords
  <2>5. task'[r] \in TaskRecords  BY <1>3, <1>5, <2>2 DEF TaskRecords
  <2>6. \A u \in Tasks : task'[u] \in TaskRecords  BY <1>3, <2>3, <2>4, <2>5
  <2>7. task' = [u \in Tasks |-> task'[u]]  BY <1>2, <1>3
  <2> QED  BY <2>1, <2>2, <2>3, <2>6, <2>7
<1>8. \A u \in Tasks : /\ KeepsRange(u)
                       /\ task'[u].dag = IF u = t THEN Tail(d) ELSE task[u].dag
                       /\ task'[u].pc = IF u = r THEN "freed" ELSE task[u].pc
                       /\ u # t => task'[u].status = task[u].status
  <2>1. /\ KeepsRange(t) /\ task'[t].dag = Tail(d) /\ task'[t].pc = task[t].pc
    BY <1>3, <1>7 DEF KeepsRange, TaskRecords
  <2>2. /\ KeepsRange(r) /\ task'[r].dag = task[r].dag /\ task'[r].pc = "freed"
        /\ task'[r].status = task[r].status
    BY <1>3, <1>5, <1>7 DEF KeepsRange, TaskRecords
  <2>3. ASSUME NEW u \in Tasks, u # t, u # r PROVE KeepsRange(u) /\ task'[u] = task[u]
    BY <1>7, <2>3 DEF KeepsRange
  <2> QED  BY <1>6, <2>1, <2>2, <2>3
<1>9. task'[t].status = IF task[t].status = Success THEN task[r].status ELSE task[t].status
  BY <1>3, <1>5, <1>7 DEF TaskRecords
<1>10. Quiet
  <2>1. \A u \in Tasks : \/ task'[u].pc = task[u].pc
                         \/ task[u].pc = "ended" /\ task'[u].pc = "freed"
    BY <1>2, <1>8
  <2>2. \A u \in Tasks : (IsAlive(u)' <=> IsAlive(u)) /\ (Used(u)' <=> Used(u))
    BY <2>1 DEF IsAlive, Used
  <2> QED  BY <1>2, <1>8, <2>1, <2>2 DEF Quiet
<1>11. Layout'  BY <1>1, <1>10, QuietKeeps
<1>12. Types'
  <2>1. \A u \in Tasks : task'[u].status \in loop.failing \union {Success}
    BY <1>1, <1>5, <1>8, <1>9 DEF Types
  <2> QED  BY <1>1, <1>2, <1>7, <2>1 DEF Types
<1>13. Awaiting'
  <2>1. ASSUME NEW v \in Tasks, NEW k \in DOMAIN task'[v].dag
        PROVE  \E j \in DOMAIN task[v].dag :
                  j = (IF v = t THEN k + 1 ELSE k) /\ task'[v].dag[k] = task[v].dag[j]
    <3>1. CASE v = t
      <4>1. task'[v].dag = Tail(d) /\ task[v].dag = d  BY <1>8, <3>1 DEF d
      <4>2. k + 1 \in DOMAIN d /\ Tail(d)[k] = d[k + 1]  BY <1>5, <4>1
      <4> QED  BY <3>1, <4>1, <4>2
    <3>2. CASE v # t
      <4>1. task'[v].dag = task[v].dag  BY <1>8, <3>2
      <4> QED  BY <3>2, <4>1
    <3> QED  BY <3>1, <3>2
  <2>2. \A u, v \in Tasks : \A k \in DOMAIN task[u].dag : \A j \in DOMAIN task[v].dag :
            task[u].dag[k] = task[v].dag[j] => u = v /\ k = j
    BY <1>1 DEF Awaiting
  <2>3. ASSUME NEW v \in Tasks, NEW k \in DOMAIN task'[v].dag
        PROVE  v < task'[v].dag[k] /\ task'[task'[v].dag[k]].pc \notin {"none", "freed"}
    <3>1. PICK j \in DOMAIN task[v].dag :
                  j = (IF v = t THEN k + 1 ELSE k) /\ task'[v].dag[k] = task[v].dag[j]
      BY <2>1
    <3>2. v < task[v].dag[j] /\ task[task[v].dag[j]].pc \notin {"none", "freed"}
      BY <1>1 DEF Awaiting
    <3>3. task[v].dag \in Seq(Tasks)  BY <1>3 DEF TaskRecords
    <3>4. task[v].dag[j] \in Tasks  BY <3>3
    <3>5. task[v].dag[j] # r
      <4>1. SUFFICES ASSUME task[v].dag[j] = r PROVE FALSE  OBVIOUS
      <4>2. 1 \in DOMAIN d /\ task[t].dag[1] = r  BY <1>5 DEF d
      <4>3. v = t /\ j = 1  BY <2>2, <4>1, <4>2 DEF d
      <4>4. k \in 1 .. Len(d) - 1 /\ k + 1 = 1  BY <1>5, <1>8, <3>1, <4>3
      <4> QED  BY <1>5, <4>4
    <3> QED  BY <1>8, <3>1, <3>2, <3>4, <3>5
  <2>4. ASSUME NEW u \in Tasks, NEW v \in Tasks, NEW k \in DOMAIN task'[u].dag,
               NEW j \in DOMAIN task'[v].dag, task'[u].dag[k] = task'[v].dag[j]
        PROVE  u = v /\ k = j
    <3>1. PICK k1 \in DOMAIN task[u].dag :
                  k1 = (IF u = t THEN k + 1 ELSE k) /\ task'[u].dag[k] = task[u].dag[k1]
      BY <2>1
    <3>2. PICK j1 \in DOMAIN task[v].dag :
                  j1 = (IF v = t THEN j + 1 ELSE j) /\ task'[v].dag[j] = task[v].dag[j1]
      BY <2>1
    <3>5. task[u].dag[k1] = task[v].dag[j1]  BY <2>4, <3>1, <3>2
    <3>3. u = v /\ k1 = j1  BY <2>2, <3>5
    <3>4. u = t => k \in Int /\ j \in Int
      <4>1. SUFFICES ASSUME u = t PROVE k \in Int /\ j \in Int  OBVIOUS
      <4>2. task'[t].dag = Tail(d) /\ v = t  BY <1>8, <3>3, <4>1
      <4> QED  BY <1>5, <4>1, <4>2
    <3> QED  BY <3>1, <3>2, <3>3, <3>4
  <2>5. ASSUME NEW v \in Tasks
        PROVE  /\ task'[v].dag # << >> => task'[v].pc \in {"balance", "push", "body"}
               /\ task'[v].dag # << >> \/ task'[v].pc = "ended" => loop'.hasFuture
    <3>1. /\ task[v].dag # << >> => task[v].pc \in {"balance", "push", "body"}
          /\ task[v].dag # << >> \/ task[v].pc = "ended" => loop.hasFuture
      BY <1>1 DEF Awaiting
    <3>2. loop.hasFuture  BY <1>1, <1>2 DEF Awaiting, d
    <3>3. task[r].dag = << >>  BY <1>1, <1>2, <1>5 DEF Awaiting
    <3>4. CASE v = t  BY <1>2, <1>6, <1>8, <3>2, <3>4
    <3>5. CASE v # t  BY <1>2, <1>8, <3>1, <3>2, <3>3, <3>5
    <3> QED  BY <3>4, <3>5
  <2>6. ASSUME loop'.hasFuture, NEW u \in Tasks \ {1}, task'[u].pc \notin {"none", "freed"}
        PROVE  \E v \in Tasks : \E k \in DOMAIN task'[v].dag : task'[v].dag[k] = u
    <3>1. u # r /\ task[u].pc \notin {"none", "freed"}  BY <1>8, <2>6
    <3>2. PICK v \in Tasks : \E k \in DOMAIN task[v].dag : task[v].dag[k] = u
      BY <1>1, <1>2, <2>6, <3>1 DEF Awaiting
    <3>5. PICK k \in DOMAIN task[v].dag : task[v].dag[k] = u  BY <3>2
    <3>3. CASE v # t  BY <1>8, <3>3, <3>5
    <3>4. CASE v = t
      <4>1. k \in 1 .. Len(d) /\ k # 1  BY <1>5, <3>1, <3>4, <3>5 DEF d
      <4>2. k - 1 \in DOMAIN Tail(d) /\ Tail(d)[k - 1] = d[(k - 1) + 1]  BY <1>5, <4>1
      <4>3. Tail(d)[k - 1] = u  BY <3>4, <3>5, <4>1, <4>2 DEF d
      <4> QED  BY <1>8, <3>4, <4>2, <4>3
    <3> QED  BY <3>3, <3>4
  <2> QED  BY <2>3, <2>4, <2>5, <2>6 DEF Awaiting
<1>14. Owners'
  <2>1. r # 1
    <3>1. 1 \in DOMAIN task[t].dag /\ task[t].dag[1] = r  BY <1>5 DEF d
    <3>2. t < r  BY <1>1, <3>1 DEF Awaiting
    <3> QED  BY <3>2, LoopAssumption DEF Tasks
  <2>2. 1 \in Tasks  BY LoopAssumption DEF Tasks
  <2> QED  BY <1>1, <1>2, <1>8, <1>10, <2>1, <2>2, ZenonT(60) DEF Owners, Quiet
<1>15. Reported'
  <2>1. ASSUME NEW u \in Tasks, task[u].pc \notin {"none", "freed"}, task[u].status # Success
        PROVE  \E v \in Tasks : task'[v].pc \notin {"none", "freed"} /\ task'[v].status # Success
    <3>1. CASE u = r
      <4>1. task'[t].status # Success /\ task'[t].pc = "balance"
        BY <1>2, <1>6, <1>8, <1>9, <2>1, <3>1
      <4> QED  BY <4>1
    <3>2. CASE u = t
      <4>1. task'[t].status # Success /\ task'[t].pc = "balance"
        BY <1>2, <1>6, <1>8, <1>9, <2>1, <3>2
      <4> QED  BY <4>1
    <3>3. CASE u # r /\ u # t  BY <1>8, <2>1, <3>3
    <3> QED  BY <3>1, <3>2, <3>3
  <2> QED  BY <1>1, <1>2, <2>1 DEF Reported
<1> QED  BY <1>11, <1>12, <1>13, <1>14, <1>15, Parts, PTL DEF Futures

\* A task that only changes its pc.
LEMMA PcStep ==
    ASSUME Types, NEW t \in Tasks, NEW q \in {"unlisted", "ended", "freed"},
           task' = [task EXCEPT ![t].pc = q]
    PROVE  /\ task' \in [Tasks -> TaskRecords]
           /\ \A u \in Tasks : /\ KeepsRange(u) /\ task'[u].dag = task[u].dag
                               /\ task'[u].status = task[u].status
                               /\ task'[u].pc = IF u = t THEN q ELSE task[u].pc
<1>1. task \in [Tasks -> TaskRecords]  BY DEF Types
<1>2. task'[t] = [task[t] EXCEPT !.pc = q] /\ \A u \in Tasks : u # t => task'[u] = task[u]
  BY <1>1
<1>3. task' \in [Tasks -> TaskRecords]  BY <1>1, ZenonT(60) DEF TaskRecords
<1>4. ASSUME NEW u \in Tasks
      PROVE  /\ KeepsRange(u) /\ task'[u].dag = task[u].dag
             /\ task'[u].status = task[u].status
             /\ task'[u].pc = IF u = t THEN q ELSE task[u].pc
  BY <1>1, <1>2 DEF KeepsRange, TaskRecords
<1> QED  BY <1>3, <1>4

\* The task is freed, or its future is ready.
LEMMA EndKeeps ==
    ASSUME IInv, NEW t \in Tasks, End(t)
    PROVE  IInv'
<1>1. Types /\ Layout /\ Awaiting /\ Owners /\ Reported  BY Parts DEF Futures
<1> DEFINE q == IF loop.hasFuture THEN "ended" ELSE "freed"
<1>2. /\ task[t].pc = "unlisted" /\ task' = [task EXCEPT ![t].pc = q]
      /\ UNCHANGED <<loop, descendants, owner, status, runs>>
  BY DEF End
<1>3. q \in {"unlisted", "ended", "freed"} /\ (q = "ended" <=> loop.hasFuture)  OBVIOUS
<1> HIDE DEF q
<1>4. /\ task' \in [Tasks -> TaskRecords]
      /\ \A u \in Tasks : /\ KeepsRange(u) /\ task'[u].dag = task[u].dag
                          /\ task'[u].status = task[u].status
                          /\ task'[u].pc = IF u = t THEN q ELSE task[u].pc
  BY <1>1, <1>2, <1>3, PcStep, ZenonT(60)
<1>5. q # "unlisted"  BY DEF q
<1>6. Quiet
  <2>1. \A u \in Tasks : \/ task'[u].pc = task[u].pc
                         \/ task[u].pc = "unlisted" /\ task'[u].pc \in {"ended", "freed"}
    BY <1>2, <1>3, <1>4, <1>5
  <2>2. \A u \in Tasks : (IsAlive(u)' <=> IsAlive(u)) /\ (Used(u)' <=> Used(u))
    BY <2>1 DEF IsAlive, Used
  <2> QED  BY <1>2, <1>4, <2>1, <2>2 DEF Quiet
<1>7. Layout'  BY <1>1, <1>6, QuietKeeps
<1>8. Types'  BY <1>1, <1>2, <1>4 DEF Types
<1>9. loop.hasFuture =>
        \A u \in Tasks : task'[u].pc \in {"none", "freed"} <=> task[u].pc \in {"none", "freed"}
  BY <1>2, <1>3, <1>4
<1>10. Awaiting'
  <2>1. \A v \in Tasks : task'[v].dag = task[v].dag  BY <1>4
  <2>2. task[t].dag = << >>  BY <1>1, <1>2 DEF Awaiting
  <2>3. ASSUME NEW v \in Tasks, NEW k \in DOMAIN task[v].dag
        PROVE  v < task[v].dag[k] /\ task'[task[v].dag[k]].pc \notin {"none", "freed"}
    <3>1. v < task[v].dag[k] /\ task[task[v].dag[k]].pc \notin {"none", "freed"}
      BY <1>1 DEF Awaiting
    <3>2. task[v].dag \in Seq(Tasks)  BY <1>1 DEF Types, TaskRecords
    <3>3. task[v].dag[k] \in Tasks /\ task[v].dag # << >>  BY <3>2
    <3>4. loop.hasFuture  BY <1>1, <3>3 DEF Awaiting
    <3> QED  BY <1>9, <3>1, <3>3, <3>4
  <2>4. \A v \in Tasks : /\ task'[v].dag # << >> => task'[v].pc \in {"balance", "push", "body"}
                         /\ task'[v].dag # << >> \/ task'[v].pc = "ended" => loop'.hasFuture
    BY <1>1, <1>2, <1>3, <1>4, <2>2 DEF Awaiting
  <2>5. loop'.hasFuture =>
         \A u \in Tasks \ {1} : task'[u].pc \notin {"none", "freed"} =>
             \E v \in Tasks : \E k \in DOMAIN task'[v].dag : task'[v].dag[k] = u
    BY <1>1, <1>2, <1>9, <2>1 DEF Awaiting
  <2>6. \A u, v \in Tasks : \A k \in DOMAIN task'[u].dag : \A j \in DOMAIN task'[v].dag :
            task'[u].dag[k] = task'[v].dag[j] => u = v /\ k = j
    BY <1>1, <2>1 DEF Awaiting
  <2> QED  BY <2>1, <2>3, <2>4, <2>5, <2>6 DEF Awaiting
<1>11. Owners'
  <2>1. 1 \in Tasks  BY LoopAssumption DEF Tasks
  <2> QED  BY <1>1, <1>2, <1>4, <1>6, <1>9, <2>1 DEF Owners, Quiet
<1>12. Reported'  BY <1>1, <1>2, <1>4, <1>9 DEF Reported
<1> QED  BY <1>7, <1>8, <1>10, <1>11, <1>12, Parts, PTL DEF Futures

\* Sets of tasks are finite.
LEMMA FiniteTasks ==
    /\ IsFiniteSet(Tasks) /\ Cardinality(Tasks) = MaxSteps
    /\ \A S \in SUBSET Tasks : /\ IsFiniteSet(S) /\ Cardinality(S) \in 0 .. MaxSteps
                               /\ Cardinality(S) = 0 <=> S = {}
<1>1. MaxSteps \in Nat \ {0}  BY LoopAssumption
<1>2. IsFiniteSet(Tasks) /\ Cardinality(Tasks) = MaxSteps  BY <1>1, FS_Interval DEF Tasks
<1>3. ASSUME NEW S \in SUBSET Tasks
      PROVE  /\ IsFiniteSet(S) /\ Cardinality(S) \in 0 .. MaxSteps
             /\ Cardinality(S) = 0 <=> S = {}
  <2>1. IsFiniteSet(S) /\ Cardinality(S) <= Cardinality(Tasks)  BY <1>2, FS_Subset
  <2>2. Cardinality(S) \in Nat  BY <2>1, FS_CardinalityType
  <2>3. Cardinality(S) = 0 <=> S = {}  BY <2>1, FS_EmptySet
  <2> QED  BY <1>1, <1>2, <2>1, <2>2, <2>3
<1> QED  BY <1>2, <1>3

\* The scope is left when nothing is registered with the barrier.
LEMMA LeaveScopeKeeps ==
    ASSUME IInv, LeaveScope
    PROVE  IInv'
<1>1. Types /\ Layout /\ Awaiting /\ Owners /\ Reported  BY Parts DEF Futures
<1>2. /\ owner = "wait" /\ descendants = 0 /\ owner' = "left"
      /\ UNCHANGED <<loop, task, descendants, status, runs>>
  BY DEF LeaveScope
<1>3. Quiet  BY <1>2 DEF Quiet, KeepsRange, IsAlive, Used
<1>4. Layout'  BY <1>1, <1>3, QuietKeeps
<1>5. Types'  BY <1>1, <1>2 DEF Types
<1>6. Awaiting'  BY <1>1, <1>2 DEF Awaiting
<1>7. Alive = {}
  <2>1. Alive \in SUBSET Tasks  BY DEF Alive
  <2>2. Cardinality(Alive) = 0  BY <1>1, <1>2 DEF Layout, Counted
  <2> QED  BY <2>1, <2>2, FiniteTasks
<1>8. \A t \in Tasks : ~IsAlive(t)'  BY <1>2, <1>7 DEF Alive, IsAlive
<1>9. Owners'  BY <1>1, <1>2, <1>8 DEF Owners
<1>10. Reported'  BY <1>1, <1>2 DEF Reported
<1> QED  BY <1>4, <1>5, <1>6, <1>9, <1>10, Parts, PTL DEF Futures

\* When the future of the first part is ready, every other part has been merged: the least
\* one that has not would be awaited by one before it.
LEMMA AllMerged ==
    ASSUME IInv, loop.hasFuture, task[1].pc = "ended"
    PROVE  \A u \in Tasks \ {1} : task[u].pc \in {"none", "freed"}
<1>1. Types /\ Awaiting  BY DEF IInv
<1> DEFINE T == {u \in Tasks \ {1} : task[u].pc \notin {"none", "freed"}}
<1>2. SUFFICES ASSUME T # {} PROVE FALSE  OBVIOUS
<1>3. T \subseteq Nat  BY DEF Tasks
<1>4. PICK u \in T : \A v \in T : u <= v  BY <1>2, <1>3, LeastNat
<1>5. PICK v \in Tasks : \E k \in DOMAIN task[v].dag : task[v].dag[k] = u
  BY <1>1, <1>4 DEF Awaiting
<1>6. PICK k \in DOMAIN task[v].dag : task[v].dag[k] = u  BY <1>5
<1>7. v < u  BY <1>1, <1>6 DEF Awaiting
<1>8. task[v].dag \in Seq(Tasks)  BY <1>1 DEF Types, TaskRecords
<1>9. task[v].dag # << >>  BY <1>6, <1>8
<1>10. task[v].pc \in {"balance", "push", "body"}  BY <1>1, <1>9 DEF Awaiting
<1>11. v \in T  BY <1>10
<1>12. v \in Nat /\ u \in Nat  BY <1>3, <1>11
<1> QED  BY <1>4, <1>7, <1>11, <1>12

\* The owner's sync has the result of all iterations.
LEMMA SyncKeeps ==
    ASSUME IInv, Sync
    PROVE  IInv'
<1>1. Types /\ Layout /\ Awaiting /\ Owners /\ Reported  BY Parts DEF Futures
<1>2. /\ owner = "sync" /\ task[1].pc = "ended" /\ status' = task[1].status
      /\ task' = [task EXCEPT ![1].pc = "freed"] /\ owner' = "wait"
      /\ UNCHANGED <<loop, descendants, runs>>
  BY DEF Sync
<1>3. 1 \in Tasks  BY LoopAssumption DEF Tasks
<1>4. /\ task' \in [Tasks -> TaskRecords]
      /\ \A u \in Tasks : /\ KeepsRange(u) /\ task'[u].dag = task[u].dag
                          /\ task'[u].status = task[u].status
                          /\ task'[u].pc = IF u = 1 THEN "freed" ELSE task[u].pc
  BY <1>1, <1>2, <1>3, PcStep
<1>5. Quiet
  <2>1. \A u \in Tasks : \/ task'[u].pc = task[u].pc
                         \/ task[u].pc = "ended" /\ task'[u].pc = "freed"
    BY <1>2, <1>4
  <2>2. \A u \in Tasks : (IsAlive(u)' <=> IsAlive(u)) /\ (Used(u)' <=> Used(u))
    BY <2>1 DEF IsAlive, Used
  <2> QED  BY <1>2, <1>4, <2>1, <2>2 DEF Quiet
<1>6. Layout'  BY <1>1, <1>5, QuietKeeps
<1>7. Types'  BY <1>1, <1>2, <1>3, <1>4 DEF Types
<1>8. loop.hasFuture  BY <1>1, <1>2 DEF Owners
<1>9. \A u \in Tasks : u # 1 => task[u].pc \in {"none", "freed"}  BY <1>2, <1>8, AllMerged
<1>10. \A u \in Tasks : task[u].dag = << >>  BY <1>1, <1>2, <1>9 DEF Awaiting
<1>11. Awaiting'
  <2>1. \A u \in Tasks : task'[u].dag = << >> /\ task'[u].pc \in {"none", "freed"}
    BY <1>4, <1>9, <1>10
  <2> QED  BY <2>1 DEF Awaiting
<1>12. Owners'  BY <1>2, <1>3, <1>4 DEF Owners
<1>13. Reported'
  <2>1. ASSUME NEW i \in loop.failing PROVE task[1].status # Success
    <3>1. loop \in Loops  BY <1>1 DEF Types
    <3>2. i \in Indices(loop)  BY <3>1, LoopFacts
    <3>3. PICK p \in 0 .. N - 1 : i = At(p)  BY <3>1, <3>2, Geometry
    <3>4. \A u \in Tasks : ~Mine(u, p)  BY <1>2, <1>9 DEF Mine, Own, Pending, IsAlive
    <3>5. ~Rest(p)  BY <1>2 DEF Rest
    <3>6. runs[i] = 1  BY <1>1, <3>3, <3>4, <3>5 DEF Layout, Tiling
    <3>7. \E u \in Tasks : task[u].pc \notin {"none", "freed"} /\ task[u].status # Success
      BY <1>1, <1>2, <1>8, <3>6 DEF Reported
    <3> QED  BY <1>9, <3>7
  <2> QED  BY <1>2, <2>1 DEF Reported
<1> QED  BY <1>6, <1>7, <1>11, <1>12, <1>13, Parts, PTL DEF Futures

-----------------------------------------------------------------------------
(* Steps in which a part gives up nothing but what it does not have. *)

\* Only part t is changed, and its iterations stay its own.
LEMMA OnePart ==
    ASSUME Layout, NEW t \in Tasks, loop' = loop, runs' = runs, owner' = owner,
           \A u \in Tasks : u # t => task'[u] = task[u],
           F(t)' = F(t), Used(t)' <=> Used(t),
           IsAlive(t) /\ Lo(t) < Hi(t) => IsAlive(t)' /\ Lo(t)' = Lo(t) /\ Lo(t)' < Hi(t)',
           \A p \in 0 .. N - 1 : Mine(t, p)' <=> Mine(t, p),
           Bounded(t)', Splitting(t)'
    PROVE  (\A u \in Tasks : Bounded(u)' /\ Splitting(u)') /\ Tiling' /\ Starts' /\ Spawning'
<1>1. \A u \in Tasks : u # t =>
        /\ F(u)' = F(u) /\ Lo(u)' = Lo(u) /\ Hi(u)' = Hi(u)
        /\ IsAlive(u)' <=> IsAlive(u)
        /\ Used(u)' <=> Used(u)
        /\ \A p : Mine(u, p)' <=> Mine(u, p)
        /\ Bounded(u) => Bounded(u)'
        /\ Splitting(u) => Splitting(u)'
  BY SameTask
<1>2. \A u \in Tasks : Bounded(u)' /\ Splitting(u)'  BY <1>1 DEF Layout
<1>3. \A u \in Tasks : Used(u)' <=> Used(u)  BY <1>1
<1>4. Spawning' /\ \A p : Rest(p)' <=> Rest(p)  BY <1>3, SpawningKeeps DEF Layout
<1>5. Tiling'  BY <1>1, <1>4, TilingKeeps DEF Layout
<1>6. Starts'  BY <1>1, StartsKeep DEF Layout
<1> QED  BY <1>2, <1>4, <1>5, <1>6

\* A part that has run to its end leaves the barrier.
LEMMA UnlistKeeps ==
    ASSUME IInv, NEW t \in Tasks, Unlist(t)
    PROVE  IInv'
<1>1. Types /\ Layout /\ Awaiting /\ Owners /\ Reported  BY Parts DEF Futures
<1>2. /\ task[t].pc = "balance" /\ task[t].idx >= task[t].loopStop /\ task[t].dag = << >>
      /\ descendants' = descendants - 1 /\ task' = [task EXCEPT ![t].pc = "unlisted"]
      /\ UNCHANGED <<loop, owner, status, runs>>
  BY DEF Unlist
<1>3. /\ task' \in [Tasks -> TaskRecords]
      /\ \A u \in Tasks : /\ KeepsRange(u) /\ task'[u].dag = task[u].dag
                          /\ task'[u].status = task[u].status
                          /\ task'[u].pc = IF u = t THEN "unlisted" ELSE task[u].pc
  BY <1>1, <1>2, PcStep
<1>4. \A u \in Tasks : u # t => task'[u] = task[u]  BY <1>1, <1>2 DEF Types
<1>5. IsAlive(t) /\ ~IsAlive(t)' /\ Used(t) /\ Used(t)'  BY <1>2, <1>3 DEF IsAlive, Used
<1>6. Lo(t) = Hi(t) /\ Lo(t) \in Nat  BY <1>1, <1>2, <1>5, PartFacts DEF Layout
<1>7. \A p \in 0 .. N - 1 : ~Mine(t, p) /\ ~Mine(t, p)'
  <2>1. loop \in Loops  BY <1>1 DEF Types
  <2>2. N \in Nat  BY <2>1, Geometry
  <2>3. \A p \in 0 .. N - 1 : ~Own(t, p) /\ ~Own(t, p)'  BY <1>5, <1>6, <2>2 DEF Own
  <2>4. \A p : ~Pending(t, p) /\ ~Pending(t, p)'  BY <1>2, <1>3 DEF Pending
  <2> QED  BY <2>3, <2>4 DEF Mine
<1>8. F(t)' = F(t)  BY <1>2, <1>3, SameRange
<1>9. Bounded(t)' /\ Splitting(t)'
  <2>1. task[t].loopStepsLeft = 0
    <3>1. task[t].loopStepsLeft \in Nat /\ Hi(t) = Lo(t) + task[t].loopStepsLeft
      BY <1>1, <1>5, PartFacts DEF Layout
    <3> QED  BY <1>6, <3>1
  <2>2. task'[t].loopStepsLeft = 0  BY <1>3, <2>1 DEF KeepsRange
  <2> QED  BY <1>3, <1>5, <2>2 DEF Bounded, Splitting
<1>10. (\A u \in Tasks : Bounded(u)' /\ Splitting(u)') /\ Tiling' /\ Starts' /\ Spawning'
  BY <1>1, <1>2, <1>4, <1>5, <1>6, <1>7, <1>8, <1>9, OnePart
<1>11. Counted'
  <2>1. Alive' = Alive \ {t} /\ t \in Alive  BY <1>3, <1>5 DEF Alive, IsAlive
  <2>2. IsFiniteSet(Alive)  BY FiniteTasks DEF Alive
  <2>3. Cardinality(Alive \ {t}) = Cardinality(Alive) - 1  BY <2>1, <2>2, FS_RemoveElement
  <2> QED  BY <1>1, <1>2, <2>1, <2>3 DEF Layout, Counted
<1>12. Layout'  BY <1>10, <1>11 DEF Layout
<1>13. Types'  BY <1>1, <1>2, <1>3 DEF Types
<1>14. \A u \in Tasks : task'[u].pc \in {"none", "freed"} <=> task[u].pc \in {"none", "freed"}
  BY <1>2, <1>3
<1>15. Awaiting'
  <2>1. \A v \in Tasks : task'[v].dag = task[v].dag  BY <1>3
  <2>2. ASSUME NEW v \in Tasks, NEW k \in DOMAIN task[v].dag
        PROVE  v < task[v].dag[k] /\ task'[task[v].dag[k]].pc \notin {"none", "freed"}
    <3>1. v < task[v].dag[k] /\ task[task[v].dag[k]].pc \notin {"none", "freed"}
      BY <1>1 DEF Awaiting
    <3>2. task[v].dag \in Seq(Tasks)  BY <1>1 DEF Types, TaskRecords
    <3>3. task[v].dag[k] \in Tasks  BY <3>2
    <3> QED  BY <1>14, <3>1, <3>3
  <2>3. \A v \in Tasks : /\ task'[v].dag # << >> => task'[v].pc \in {"balance", "push", "body"}
                         /\ task'[v].dag # << >> \/ task'[v].pc = "ended" => loop'.hasFuture
    BY <1>1, <1>2, <1>3 DEF Awaiting
  <2>4. loop'.hasFuture =>
         \A u \in Tasks \ {1} : task'[u].pc \notin {"none", "freed"} =>
             \E v \in Tasks : \E k \in DOMAIN task'[v].dag : task'[v].dag[k] = u
    BY <1>1, <1>2, <1>14, <2>1 DEF Awaiting
  <2>5. \A u, v \in Tasks : \A k \in DOMAIN task'[u].dag : \A j \in DOMAIN task'[v].dag :
            task'[u].dag[k] = task'[v].dag[j] => u = v /\ k = j
    BY <1>1, <2>1 DEF Awaiting
  <2> QED  BY <2>1, <2>2, <2>3, <2>4, <2>5 DEF Awaiting
<1>16. Owners'
  <2>1. 1 \in Tasks  BY LoopAssumption DEF Tasks
  <2>2. owner # "left"  BY <1>1, <1>5 DEF Owners
  <2> QED  BY <1>1, <1>2, <1>3, <2>1, <2>2 DEF Owners
<1>17. Reported'  BY <1>1, <1>2, <1>3, <1>14 DEF Reported
<1> QED  BY <1>12, <1>13, <1>15, <1>16, <1>17, Parts, PTL DEF Futures

\* The pcs of a part that is being split or about to go on.
LEMMA AwaitingKeeps ==
    ASSUME Types, Futures, NEW t \in Tasks, IsAlive(t),
           UNCHANGED <<loop, owner>>,
           \A u \in Tasks : /\ task'[u].dag = task[u].dag
                            /\ u # t => task'[u].pc = task[u].pc,
           task[t].pc \in {"balance", "push", "body"},
           task'[t].pc \in {"balance", "push", "body"}
    PROVE  Awaiting' /\ Owners'
<1>1. \A u \in Tasks : /\ task'[u].pc \in {"none", "freed"} <=> task[u].pc \in {"none", "freed"}
                       /\ task'[u].pc = "ended" <=> task[u].pc = "ended"
                       /\ task'[u].pc \in {"balance", "push", "body"}
                            <=> task[u].pc \in {"balance", "push", "body"}
  OBVIOUS
<1>2. \A u \in Tasks : (u # t => (IsAlive(u)' <=> IsAlive(u))) /\ IsAlive(t)'  BY DEF IsAlive
<1>3. Awaiting'
  <2>1. \A v \in Tasks : task'[v].dag = task[v].dag  OBVIOUS
  <2>2. ASSUME NEW v \in Tasks, NEW k \in DOMAIN task[v].dag
        PROVE  v < task[v].dag[k] /\ task'[task[v].dag[k]].pc \notin {"none", "freed"}
    <3>1. v < task[v].dag[k] /\ task[task[v].dag[k]].pc \notin {"none", "freed"}
      BY DEF Futures, Awaiting
    <3>2. task[v].dag \in Seq(Tasks)  BY DEF Types, TaskRecords
    <3>3. task[v].dag[k] \in Tasks  BY <3>2
    <3> QED  BY <1>1, <3>1, <3>3
  <2>3. \A v \in Tasks : /\ task'[v].dag # << >> => task'[v].pc \in {"balance", "push", "body"}
                         /\ task'[v].dag # << >> \/ task'[v].pc = "ended" => loop'.hasFuture
    BY <1>1 DEF Futures, Awaiting
  <2>4. loop'.hasFuture =>
         \A u \in Tasks \ {1} : task'[u].pc \notin {"none", "freed"} =>
             \E v \in Tasks : \E k \in DOMAIN task'[v].dag : task'[v].dag[k] = u
    BY <1>1, <2>1 DEF Futures, Awaiting
  <2>5. \A u, v \in Tasks : \A k \in DOMAIN task'[u].dag : \A j \in DOMAIN task'[v].dag :
            task'[u].dag[k] = task'[v].dag[j] => u = v /\ k = j
    BY <2>1 DEF Futures, Awaiting
  <2> QED  BY <2>1, <2>2, <2>3, <2>4, <2>5 DEF Awaiting
<1>4. Owners'
  <2>1. 1 \in Tasks  BY LoopAssumption DEF Tasks
  <2>2. owner # "left"  BY DEF Futures, Owners
  <2>3. task'[1].pc \in {"none", "freed"} <=> task[1].pc \in {"none", "freed"}  BY <1>1, <2>1
  <2>4. task[1].pc = "freed" => task'[1].pc = "freed"  BY <2>1
  <2> QED  BY <2>1, <2>2, <2>3, <2>4 DEF Futures, Owners
<1> QED  BY <1>3, <1>4

LEMMA FuturesKeep ==
    ASSUME Types, Futures, NEW t \in Tasks, IsAlive(t),
           UNCHANGED <<loop, owner, status, runs>>,
           \A u \in Tasks : /\ task'[u].dag = task[u].dag /\ task'[u].status = task[u].status
                            /\ u # t => task'[u].pc = task[u].pc,
           task[t].pc \in {"balance", "push", "body"},
           task'[t].pc \in {"balance", "push", "body"}
    PROVE  Futures'
<1>1. Awaiting' /\ Owners'  BY AwaitingKeeps
<1>2. \A u \in Tasks : task'[u].pc \in {"none", "freed"} <=> task[u].pc \in {"none", "freed"}
  OBVIOUS
<1>3. Reported'  BY <1>2 DEF Futures, Reported
<1> QED  BY <1>1, <1>3 DEF Futures

\* The updates that the steps make keep the types of the fields.
LEMMA EndSplitType ==
    ASSUME NEW r \in TaskRecords, NEW sp \in Splits
    PROVE  [r EXCEPT !.pc = "body", !.split = sp] \in TaskRecords
BY DEF TaskRecords

LEMMA SplitType ==
    ASSUME NEW r \in TaskRecords, NEW sp \in Splits, NEW x \in Int, NEW n \in Nat
    PROVE  [r EXCEPT !.pc = "push", !.loopStepsLeft = n, !.loopStop = x, !.split = sp]
             \in TaskRecords
BY DEF TaskRecords

LEMMA IterateType ==
    ASSUME NEW r \in TaskRecords, NEW x \in Int, NEW n \in Nat, NEW st \in Int
    PROVE  [r EXCEPT !.pc = "balance", !.idx = x, !.loopStepsLeft = n, !.status = st]
             \in TaskRecords
BY DEF TaskRecords

LEMMA DispatchType ==
    ASSUME NEW r \in TaskRecords, NEW n \in Nat, NEW d \in Seq(Tasks)
    PROVE  [r EXCEPT !.split = [r.split EXCEPT !.chunkID = n], !.dag = d] \in TaskRecords
<1>1. r.split \in Splits  BY DEF TaskRecords
<1>2. [r.split EXCEPT !.chunkID = n] \in Splits  BY <1>1 DEF Splits
<1> QED  BY <1>2 DEF TaskRecords

\* A split is over when all iterations behind the part that was kept have been given away.
LEMMA EndSplitKeeps ==
    ASSUME IInv, NEW t \in Tasks, task[t].pc = "push",
           ~(task[t].split.chunkID < task[t].split.workers /\ Chunk(task[t].split).size # 0),
           task' = [task EXCEPT ![t].pc = "body", ![t].split = NoSplit],
           UNCHANGED <<loop, descendants, owner, status, runs>>
    PROVE  IInv'
<1> DEFINE s == task[t].split
<1>1. Types /\ Layout /\ Futures  BY Parts
<1>2. task \in [Tasks -> TaskRecords]  BY <1>1 DEF Types
<1>3. task'[t] = [task[t] EXCEPT !.pc = "body", !.split = NoSplit]  BY <1>2 DEF TaskRecords
<1>4. \A u \in Tasks : u # t => task'[u] = task[u]  BY <1>2
<1>5. NoSplit \in Splits  BY DEF NoSplit, Splits
<1>6. task' \in [Tasks -> TaskRecords]
  <2>1. task[t] \in TaskRecords  BY <1>2
  <2>2. task'[t] \in TaskRecords  BY <1>3, <1>5, <2>1, EndSplitType
  <2> QED  BY <1>2, <1>4, <2>2
<1>7. /\ task'[t].loopStart = task[t].loopStart /\ task'[t].loopStop = task[t].loopStop
      /\ task'[t].loopStepsLeft = task[t].loopStepsLeft /\ task'[t].idx = task[t].idx
      /\ task'[t].dag = task[t].dag /\ task'[t].status = task[t].status
      /\ task'[t].pc = "body"
  BY <1>2, <1>3 DEF TaskRecords
<1>8. s \in Splits  BY <1>2 DEF TaskRecords
<1>9. /\ s.cutoff < s.workers /\ 1 <= s.chunkID /\ s.chunkID <= s.workers
      /\ Hi(t) <= PLo(t) /\ PLo(t) <= PHi(t) /\ PHi(t) <= N
  BY <1>1 DEF Layout, Splitting
<1>10. PLo(t) = PHi(t)
  <2>1. s.chunkID \in Nat /\ s.workers \in Nat /\ s.base \in Nat /\ s.cutoff \in Nat
    BY <1>8 DEF Splits
  <2>2. CASE s.chunkID = s.workers  BY <2>2 DEF PLo, PHi
  <2>3. CASE s.chunkID # s.workers
    <3>1. s.base + (IF s.chunkID < s.cutoff THEN 1 ELSE 0) = 0
      BY <1>9, <2>1, <2>3 DEF Chunk
    <3>2. s.base = 0 /\ s.chunkID >= s.cutoff  BY <2>1, <3>1
    <3>3. Off(s, s.chunkID) = Off(s, s.workers)  BY <1>8, <1>9, <2>1, <3>2, OffFacts
    <3> QED  BY <3>3 DEF PLo, PHi
  <2> QED  BY <2>2, <2>3
<1> HIDE DEF s
<1>11. IsAlive(t) /\ IsAlive(t)' /\ Used(t) /\ Used(t)'  BY <1>7 DEF IsAlive, Used
<1>12. F(t)' = F(t) /\ Lo(t)' = Lo(t) /\ Hi(t)' = Hi(t)  BY <1>7 DEF F, Lo, Hi, P
<1>13. /\ Lo(t) \in Nat /\ Hi(t) \in Nat /\ N \in Nat /\ Lo(t) < Hi(t)
  <2>1. Bounded(t)  BY <1>1 DEF Layout
  <2> QED  BY <1>1, <1>11, <2>1, PartFacts DEF Bounded
<1>14. \A p \in 0 .. N - 1 : Mine(t, p)' <=> Mine(t, p)
  <2>1. \A p : ~Pending(t, p)'  BY <1>7 DEF Pending
  <2>2. PLo(t) \in Int
    <3>1. s.chunkID \in Nat  BY <1>8 DEF Splits
    <3>2. Off(s, s.chunkID) \in Nat  BY <1>8, <1>9, <3>1, OffFacts
    <3> QED  BY <1>13, <3>2 DEF PLo, s
  <2>3. \A p \in 0 .. N - 1 : ~Pending(t, p)  BY <1>10, <1>13, <2>2 DEF Pending
  <2>4. \A p : Own(t, p)' <=> Own(t, p)  BY <1>11, <1>12 DEF Own
  <2> QED  BY <2>1, <2>3, <2>4 DEF Mine
<1>15. Bounded(t)' /\ Splitting(t)'
  <2>1. N' = N /\ At(Lo(t))' = At(Lo(t)) /\ Cap(Hi(t))' = Cap(Hi(t))
    BY <1>12, SameLoop DEF At, Cap
  <2>2. Bounded(t)  BY <1>1 DEF Layout
  <2>3. Bounded(t)'  BY <1>7, <1>11, <1>12, <1>13, <2>1, <2>2 DEF Bounded
  <2> QED  BY <1>7, <2>3 DEF Splitting
<1>16. (\A u \in Tasks : Bounded(u)' /\ Splitting(u)') /\ Tiling' /\ Starts' /\ Spawning'
  BY <1>1, <1>4, <1>11, <1>12, <1>13, <1>14, <1>15, OnePart
<1>17. \A u \in Tasks : IsAlive(u)' <=> IsAlive(u)  BY <1>4, <1>11 DEF IsAlive
<1>18. Counted'  BY <1>1, <1>17, CountedKeeps DEF Layout
<1>19. Layout'  BY <1>16, <1>18 DEF Layout
<1>20. \A u \in Tasks : /\ task'[u].dag = task[u].dag /\ task'[u].status = task[u].status
                        /\ u # t => task'[u].pc = task[u].pc
  BY <1>4, <1>7
<1>21. Futures'  BY <1>1, <1>7, <1>11, <1>20, FuturesKeep
<1>22. Types'  BY <1>1, <1>6, <1>20 DEF Types
<1> QED  BY <1>19, <1>21, <1>22, Parts, PTL

\* The sizes of a split: a chunk is kept, and the chunks are as many steps as there were.
LEMMA SplitSizes ==
    ASSUME NEW n \in Nat, n > 1, NEW workers \in Nat, workers > 1,
           NEW at \in Int, NEW stop \in Int
    PROVE  LET s == [chunkID |-> 1, workers |-> workers, base |-> n \div workers,
                     cutoff |-> n % workers, at |-> at, stop |-> stop]
               kept == n \div workers + (IF 0 < n % workers THEN 1 ELSE 0)
           IN  /\ s \in Splits /\ s.cutoff < workers
               /\ kept \in Nat /\ 1 <= kept /\ kept <= n
               /\ Off(s, 1) = kept /\ Off(s, workers) = n
<1> DEFINE b == n \div workers
           k == n % workers
           s == [chunkID |-> 1, workers |-> workers, base |-> b, cutoff |-> k, at |-> at, stop |-> stop]
           kept == b + (IF 0 < k THEN 1 ELSE 0)
<1>7. workers \in Nat \ {0}  OBVIOUS
<1>1. b \in Nat /\ k \in 0 .. workers - 1 /\ n = b * workers + k  BY <1>7, DivMod
<1> HIDE DEF b, k
<1>2. s \in Splits /\ s.workers = workers /\ s.cutoff = k /\ s.base = b  BY <1>1 DEF Splits
<1>3. k \in Nat /\ k < workers /\ 1 <= workers  BY <1>1
<1> HIDE DEF s
<1>4. /\ Off(s, 1) = b + (IF 0 < k THEN 1 ELSE 0) /\ Off(s, 1) <= Off(s, workers)
      /\ Off(s, workers) = b * workers + k
  BY <1>2, <1>3, OffFacts
<1>5. b = 0 => b * workers = 0  BY <1>1, SMT
<1>6. kept \in Nat /\ 1 <= kept  BY <1>1, <1>3, <1>5
<1> QED  BY <1>1, <1>2, <1>3, <1>4, <1>6 DEF s, b, k

\* splitUpperRanges keeps the first chunk, and the rest is pending.
LEMMA SplitKeeps ==
    ASSUME IInv, NEW t \in Tasks, NEW waiters \in 0 .. MaxWaiters, Split(t, waiters)
    PROVE  IInv'
<1> DEFINE n == task[t].loopStepsLeft
           workers == (waiters + (IF task[t].isFirstIter THEN 1 ELSE 0)) + 1
           kept == n \div workers + (IF 0 < n % workers THEN 1 ELSE 0)
           s == [chunkID |-> 1, workers |-> workers, base |-> n \div workers,
                 cutoff |-> n % workers, at |-> task[t].idx, stop |-> task[t].loopStop]
           stop == Min({task[t].loopStop, task[t].idx + kept * loop.stride})
<1>1. Types /\ Layout /\ Futures  BY Parts
<1>2. task \in [Tasks -> TaskRecords]  BY <1>1 DEF Types
<1>3. task[t] \in TaskRecords  BY <1>2
<1>4. /\ task[t].pc = "balance" /\ task[t].idx < task[t].loopStop /\ loop.hint = 0
      /\ n > 1 /\ waiters + (IF task[t].isFirstIter THEN 1 ELSE 0) > 0
      /\ task' = [task EXCEPT ![t] =
           [task[t] EXCEPT !.pc = "push", !.loopStepsLeft = kept, !.loopStop = stop, !.split = s]]
      /\ UNCHANGED <<loop, descendants, owner, status, runs>>
  BY DEF Split
<1>5. n \in Nat /\ task[t].idx \in Int /\ task[t].loopStop \in Int  BY <1>3 DEF TaskRecords
<1>6. waiters \in Nat  BY LoopAssumption
<1>7. workers \in Nat /\ workers > 1  BY <1>4, <1>6
<1> HIDE DEF workers
<1>8. /\ s \in Splits /\ s.cutoff < workers /\ kept \in Nat /\ 1 <= kept /\ kept <= n
      /\ Off(s, 1) = kept /\ Off(s, workers) = n
  BY <1>4, <1>5, <1>7, SplitSizes
<1>9. s.chunkID = 1 /\ s.workers = workers /\ s.at = task[t].idx /\ s.stop = task[t].loopStop
  OBVIOUS
<1> HIDE DEF n, kept, s, stop
<1>10. IsAlive(t)  BY <1>4 DEF IsAlive
<1>11. /\ loop \in Loops /\ N \in Nat
       /\ Lo(t) \in Nat /\ Hi(t) \in Nat /\ Lo(t) <= Hi(t) /\ Hi(t) <= N /\ Hi(t) = Lo(t) + n
       /\ task[t].idx = At(Lo(t)) /\ task[t].loopStop = Cap(Hi(t))
  BY <1>1, <1>10, PartFacts DEF Layout, n
<1>12. stop = Cap(Lo(t) + kept) /\ stop \in Int
  <2>1. At(Lo(t)) + kept * loop.stride = At(Lo(t) + kept)
    <3>1. loop.start \in Int /\ loop.stride \in {1, 2}  BY <1>11, LoopFacts
    <3>2. CASE loop.stride = 1  BY <1>8, <1>11, <3>1, <3>2 DEF At
    <3>3. CASE loop.stride = 2  BY <1>8, <1>11, <3>1, <3>3 DEF At
    <3> QED  BY <3>1, <3>2, <3>3
  <2>2. Lo(t) + kept \in Int /\ Hi(t) \in Int /\ Lo(t) + kept <= Hi(t) /\ Lo(t) + kept <= N
    BY <1>5, <1>8, <1>11
  <2>3. Min({Cap(Hi(t)), At(Lo(t) + kept)}) = Cap(Lo(t) + kept)
    BY <1>11, <2>2, CapFacts, Zenon
  <2>4. Lo(t) + kept <= Lo(t) + kept  BY <2>2
  <2>5. Cap(Lo(t) + kept) \in Int  BY <1>11, <2>2, <2>4, CapFacts, Zenon
  <2> QED  BY <1>11, <2>1, <2>3, <2>5 DEF stop
<1>13. /\ task'[t] = [task[t] EXCEPT !.pc = "push", !.loopStepsLeft = kept,
                                     !.loopStop = stop, !.split = s]
       /\ \A u \in Tasks : u # t => task'[u] = task[u]
  BY <1>2, <1>4
<1>14. task' \in [Tasks -> TaskRecords]
  <2>3. stop \in Int /\ kept \in Nat /\ s \in Splits  BY <1>8, <1>12
  <2>4. [task[t] EXCEPT !.pc = "push", !.loopStepsLeft = kept, !.loopStop = stop, !.split = s]
          \in TaskRecords
    BY <1>3, <2>3, SplitType
  <2>1. task'[t] \in TaskRecords  BY <1>13, <2>4
  <2>2. task' = [u \in Tasks |-> task'[u]]  BY <1>2, <1>4
  <2> QED  BY <1>2, <1>13, <2>1, <2>2
<1>15. /\ task'[t].loopStart = task[t].loopStart /\ task'[t].idx = task[t].idx
       /\ task'[t].dag = task[t].dag /\ task'[t].status = task[t].status
       /\ task'[t].pc = "push" /\ task'[t].loopStepsLeft = kept
       /\ task'[t].loopStop = stop /\ task'[t].split = s
  BY <1>3, <1>13 DEF TaskRecords
<1>16. /\ IsAlive(t)' /\ Used(t) /\ Used(t)'
       /\ F(t)' = F(t) /\ Lo(t)' = Lo(t) /\ Hi(t)' = Lo(t) + kept
       /\ PLo(t)' = Lo(t) + kept /\ PHi(t)' = Hi(t)
  <2>1. IsAlive(t)' /\ Used(t) /\ Used(t)'  BY <1>4, <1>15 DEF IsAlive, Used
  <2>2. F(t)' = F(t) /\ Lo(t)' = Lo(t)  BY <1>4, <1>15 DEF F, Lo, P
  <2>3. Hi(t)' = Lo(t) + kept  BY <1>15, <2>2 DEF Hi
  <2>4. PLo(t)' = Lo(t) + Off(s, s.chunkID) /\ PHi(t)' = Lo(t) + Off(s, s.workers)
    BY <1>15, <2>2 DEF PLo, PHi, Off
  <2> QED  BY <1>8, <1>9, <1>11, <2>1, <2>2, <2>3, <2>4
<1>17. \A p \in 0 .. N - 1 : Mine(t, p)' <=> Mine(t, p)
  <2>1. \A p : ~Pending(t, p)  BY <1>4 DEF Pending
  <2>2. ASSUME NEW p \in 0 .. N - 1 PROVE Mine(t, p)' <=> Mine(t, p)
    <3>1. p \in Int  BY <1>11
    <3>2. Own(t, p)' <=> (Lo(t) <= p /\ p < Lo(t) + kept)  BY <1>16 DEF Own
    <3>3. Pending(t, p)' <=> (Lo(t) + kept <= p /\ p < Hi(t))  BY <1>15, <1>16 DEF Pending
    <3>4. Own(t, p) <=> (Lo(t) <= p /\ p < Hi(t))  BY <1>10 DEF Own
    <3>5. kept \in Nat /\ kept <= n /\ n \in Nat /\ Lo(t) \in Nat /\ Hi(t) = Lo(t) + n
      BY <1>5, <1>8, <1>11 DEF n
    <3> QED  BY <2>1, <3>1, <3>2, <3>3, <3>4, <3>5 DEF Mine
  <2> QED  BY <2>2
<1>18. Bounded(t)' /\ Splitting(t)'
  <2>1. /\ N' = N /\ At(Lo(t))' = At(Lo(t)) /\ Cap(Hi(t))' = Cap(Lo(t) + kept)
        /\ Cap(PHi(t))' = Cap(Hi(t))
    BY <1>4, <1>16, SameLoop DEF At, Cap
  <2>2. Lo(t)' < Hi(t)' /\ Hi(t)' <= N  BY <1>5, <1>8, <1>11, <1>16
  <2>3. Bounded(t)'  BY <1>11, <1>12, <1>15, <1>16, <2>1, <2>2 DEF Bounded
  <2>4. Hi(t)' <= PLo(t)' /\ PLo(t)' <= PHi(t)' /\ PHi(t)' <= N'
    BY <1>5, <1>8, <1>11, <1>16, <2>1
  <2>5. 2 <= s.workers /\ s.cutoff < s.workers /\ 1 <= s.chunkID /\ s.chunkID <= s.workers
    BY <1>7, <1>8, <1>9
  <2>6. s.at = task'[t].idx /\ s.stop = Cap(PHi(t))'  BY <1>9, <1>11, <1>15, <2>1
  <2>7. Splitting(t)'  BY <1>4, <1>15, <2>4, <2>5, <2>6 DEF Splitting
  <2> QED  BY <2>3, <2>7
<1>19. (\A u \in Tasks : Bounded(u)' /\ Splitting(u)') /\ Tiling' /\ Starts' /\ Spawning'
  <2>1. Lo(t)' < Hi(t)'  BY <1>8, <1>11, <1>16
  <2> QED  BY <1>1, <1>4, <1>13, <1>16, <1>17, <1>18, <2>1, OnePart
<1>20. \A u \in Tasks : IsAlive(u)' <=> IsAlive(u)  BY <1>10, <1>13, <1>16 DEF IsAlive
<1>21. Counted'  BY <1>1, <1>4, <1>20, CountedKeeps DEF Layout
<1>22. Layout'  BY <1>19, <1>21 DEF Layout
<1>23. \A u \in Tasks : /\ task'[u].dag = task[u].dag /\ task'[u].status = task[u].status
                        /\ u # t => task'[u].pc = task[u].pc
  BY <1>13, <1>15
<1>24. Futures'  BY <1>1, <1>4, <1>10, <1>15, <1>23, FuturesKeep
<1>25. Types'  BY <1>1, <1>4, <1>14, <1>23 DEF Types
<1> QED  BY <1>22, <1>24, <1>25, Parts, PTL

-----------------------------------------------------------------------------
(* An iteration runs. *)

LEMMA IterateKeeps ==
    ASSUME IInv, NEW t \in Tasks, Iterate(t)
    PROVE  IInv'
<1> DEFINE i == task[t].idx
           st == IF task[t].status = Success
                 THEN (IF i \in loop.failing THEN i ELSE Success) ELSE task[t].status
           n == task[t].loopStepsLeft
<1>1. Types /\ Layout /\ Futures  BY Parts
<1>2. task \in [Tasks -> TaskRecords] /\ loop \in Loops  BY <1>1 DEF Types
<1>3. task[t] \in TaskRecords  BY <1>2
<1>4. /\ task[t].pc = "body" /\ runs' = [runs EXCEPT ![i] = @ + 1]
      /\ task' = [task EXCEPT ![t] = [task[t] EXCEPT !.pc = "balance", !.idx = i + loop.stride,
                                                     !.loopStepsLeft = n - 1, !.status = st]]
      /\ UNCHANGED <<loop, descendants, owner, status>>
  BY <1>3 DEF Iterate, TaskRecords
<1>5. n \in Nat /\ i \in Int /\ task[t].status \in loop.failing \union {Success}
  BY <1>1, <1>3 DEF TaskRecords, Types
<1>6. loop.stride \in {1, 2} /\ loop.failing \subseteq Nat /\ Success \notin loop.failing
  BY <1>2, LoopFacts
<1>7. /\ st \in loop.failing \union {Success} /\ st \in Int
      /\ (i \in loop.failing \/ task[t].status # Success => st # Success)
  BY <1>5, <1>6 DEF Success
<1> HIDE DEF i, st, n
<1>8. IsAlive(t) /\ Bounded(t)  BY <1>1, <1>4 DEF IsAlive, Layout
<1>9. /\ N \in Nat /\ Lo(t) \in Nat /\ Hi(t) \in Nat /\ Lo(t) < Hi(t) /\ Hi(t) <= N
      /\ Hi(t) = Lo(t) + n /\ i = At(Lo(t)) /\ task[t].loopStop = Cap(Hi(t))
  <2>1. Lo(t) < Hi(t)  BY <1>4, <1>8 DEF Bounded
  <2> QED  BY <1>1, <1>8, <2>1, PartFacts DEF i, n
<1> DEFINE p0 == Lo(t)
<1>10. p0 \in 0 .. N - 1 /\ p0 \in Int /\ p0 + 1 \in Int /\ n >= 1 /\ n - 1 \in Nat
  BY <1>5, <1>9
<1>11. /\ i \in Window /\ i \in Indices(loop) /\ i + loop.stride = At(p0 + 1) /\ P(At(p0 + 1)) = p0 + 1
       /\ i + loop.stride \in Int
  <2>1. i \in Window /\ i \in Indices(loop)  BY <1>2, <1>9, <1>10, Geometry
  <2>2. At(p0 + 1) = At(p0) + loop.stride /\ P(At(p0 + 1)) = p0 + 1 /\ At(p0 + 1) \in Int
    BY <1>2, <1>10, Geometry, Zenon
  <2> QED  BY <1>9, <2>1, <2>2
<1>12. /\ task'[t] = [task[t] EXCEPT !.pc = "balance", !.idx = i + loop.stride,
                                     !.loopStepsLeft = n - 1, !.status = st]
       /\ \A u \in Tasks : u # t => task'[u] = task[u]
  BY <1>2, <1>4
<1>13. task' \in [Tasks -> TaskRecords]
  <2>1. [task[t] EXCEPT !.pc = "balance", !.idx = i + loop.stride,
                        !.loopStepsLeft = n - 1, !.status = st] \in TaskRecords
    BY <1>3, <1>7, <1>10, <1>11, IterateType
  <2>2. task'[t] \in TaskRecords  BY <1>12, <2>1
  <2>3. task' = [u \in Tasks |-> task'[u]]  BY <1>2, <1>4
  <2> QED  BY <1>2, <1>12, <2>2, <2>3
<1>14. /\ task'[t].loopStart = task[t].loopStart /\ task'[t].loopStop = task[t].loopStop
       /\ task'[t].idx = i + loop.stride /\ task'[t].loopStepsLeft = n - 1
       /\ task'[t].status = st /\ task'[t].dag = task[t].dag /\ task'[t].pc = "balance"
  BY <1>3, <1>12 DEF TaskRecords
<1>15. /\ IsAlive(t)' /\ Used(t) /\ Used(t)'
       /\ F(t)' = F(t) /\ Lo(t)' = p0 + 1 /\ Hi(t)' = Hi(t)
  <2>1. IsAlive(t)' /\ Used(t) /\ Used(t)'  BY <1>4, <1>14 DEF IsAlive, Used
  <2>2. F(t)' = F(t)  BY <1>4, <1>14 DEF F, P
  <2>3. Lo(t)' = P(At(p0 + 1))  BY <1>4, <1>11, <1>14 DEF Lo, P
  <2>4. Hi(t)' = Lo(t)' + (n - 1)  BY <1>14 DEF Hi
  <2> QED  BY <1>5, <1>9, <1>11, <2>1, <2>2, <2>3, <2>4
<1>16. /\ runs \in [Window -> {0, 1}] /\ \A x \in Window : runs[x] = 1 => x \in Indices(loop)
  BY <1>1 DEF Types
<1>17. Own(t, p0) /\ Mine(t, p0)  BY <1>8, <1>9 DEF Own, Mine
<1>18. runs[i] = 0  BY <1>1, <1>9, <1>10, <1>17 DEF Layout, Tiling
<1>19. /\ runs'[i] = 1 /\ \A x \in Window : x # i => runs'[x] = runs[x]
       /\ runs' \in [Window -> {0, 1}]
  BY <1>4, <1>11, <1>16, <1>18
<1>20. /\ N' = N /\ \A p : At(p)' = At(p)  BY <1>4, SameLoop
<1>21. \A p \in 0 .. N - 1 : At(p) \in Window /\ (p # p0 => At(p) # i)
  <2>1. ASSUME NEW p \in 0 .. N - 1, p # p0 PROVE At(p) # i
    <3>1. p \in Int  BY <1>9
    <3>2. At(p) \in Int /\ P(At(p)) = p /\ P(At(p0)) = p0  BY <1>2, <1>10, <3>1, Geometry, Zenon
    <3> QED  BY <1>9, <2>1, <3>2
  <2>2. \A p \in 0 .. N - 1 : At(p) \in Window  BY <1>2, Geometry
  <2> QED  BY <2>1, <2>2
<1>22. \A p \in 0 .. N - 1 : runs'[At(p)'] = IF p = p0 THEN 1 ELSE runs[At(p)]
  BY <1>9, <1>19, <1>20, <1>21
<1>23. Types'
  <2>1. \A u \in Tasks : task'[u].status \in loop.failing \union {Success}
    BY <1>1, <1>7, <1>12, <1>14 DEF Types
  <2>2. \A x \in Window : runs'[x] = 1 => x \in Indices(loop)  BY <1>11, <1>16, <1>19
  <2> QED  BY <1>1, <1>4, <1>13, <1>19, <2>1, <2>2 DEF Types
<1>24. \A u \in Tasks : u # t =>
         /\ F(u)' = F(u) /\ Lo(u)' = Lo(u) /\ Hi(u)' = Hi(u)
         /\ IsAlive(u)' <=> IsAlive(u)
         /\ Used(u)' <=> Used(u)
         /\ \A p : Mine(u, p)' <=> Mine(u, p)
         /\ Bounded(u) => Bounded(u)'
         /\ Splitting(u) => Splitting(u)'
  BY <1>4, <1>12, SameTask
<1>25. \A u \in Tasks : (Used(u)' <=> Used(u)) /\ (IsAlive(u)' <=> IsAlive(u))
  BY <1>8, <1>15, <1>24
<1>26. Spawning' /\ \A p : Rest(p)' <=> Rest(p)  BY <1>1, <1>4, <1>25, SpawningKeeps DEF Layout
<1>27. \A u \in Tasks : \A p \in 0 .. N - 1 : Mine(u, p)' <=> (Mine(u, p) /\ p # p0)
  <2>1. ASSUME NEW p \in 0 .. N - 1 PROVE Mine(t, p)' <=> (Mine(t, p) /\ p # p0)
    <3>1. p \in Int  BY <1>9
    <3>2. ~Pending(t, p) /\ ~Pending(t, p)'  BY <1>4, <1>14 DEF Pending
    <3>3. Own(t, p)' <=> (p0 + 1 <= p /\ p < Hi(t))  BY <1>15 DEF Own
    <3>4. Own(t, p) <=> (p0 <= p /\ p < Hi(t))  BY <1>8 DEF Own
    <3> QED  BY <1>9, <3>1, <3>2, <3>3, <3>4 DEF Mine
  <2>2. ASSUME NEW u \in Tasks, u # t, NEW p \in 0 .. N - 1
        PROVE  Mine(u, p)' <=> (Mine(u, p) /\ p # p0)
    <3>1. ~Mine(u, p0)  BY <1>1, <1>10, <1>17, <2>2 DEF Layout, Tiling
    <3> QED  BY <1>24, <2>2, <3>1
  <2> QED  BY <2>1, <2>2
<1>28. ~Rest(p0)  BY <1>1, <1>10, <1>17 DEF Layout, Tiling
<1>29. Tiling'
  <2> DEFINE NN == 0 .. N - 1
  <2>1. /\ \A u, v \in Tasks : \A p \in NN : Mine(u, p) /\ Mine(v, p) => u = v
        /\ \A p \in NN : (Rest(p) \/ \E u \in Tasks : Mine(u, p)) => runs[At(p)] = 0
        /\ \A p \in NN : Rest(p) => \A u \in Tasks : ~Mine(u, p)
        /\ \A p \in NN : runs[At(p)] = 1 \/ Rest(p) \/ \E u \in Tasks : Mine(u, p)
    BY <1>1 DEF Layout, Tiling
  <2>2. \A p \in NN : Rest(p)' <=> (Rest(p) /\ p # p0)  BY <1>26, <1>28
  <2> HIDE DEF NN
  <2>3. \A u \in Tasks : \A p \in NN : Mine(u, p)' <=> (Mine(u, p) /\ p # p0)  BY <1>27 DEF NN
  <2>4. \A p \in NN : runs'[At(p)'] = IF p = p0 THEN 1 ELSE runs[At(p)]  BY <1>22 DEF NN
  <2> HIDE DEF p0
  <2>5. \A u, v \in Tasks : \A p \in NN : Mine(u, p)' /\ Mine(v, p)' => u = v  BY <2>1, <2>3
  <2>6. \A p \in NN : (Rest(p)' \/ \E u \in Tasks : Mine(u, p)') => runs'[At(p)'] = 0
    BY <2>1, <2>2, <2>3, <2>4
  <2>7. \A p \in NN : Rest(p)' => \A u \in Tasks : ~Mine(u, p)'  BY <2>1, <2>2, <2>3
  <2>8. \A p \in NN : runs'[At(p)'] = 1 \/ Rest(p)' \/ \E u \in Tasks : Mine(u, p)'
    BY <2>1, <2>2, <2>3, <2>4
  <2>9. NN = 0 .. N' - 1  BY <1>20 DEF NN
  <2> QED  BY <2>5, <2>6, <2>7, <2>8, <2>9 DEF Tiling
<1>30. Starts'
  <2>1. \A u \in Tasks : F(u)' = F(u)  BY <1>15, <1>24
  <2>2. ASSUME NEW u \in Tasks, Used(u)'
        PROVE  /\ F(u)' \in 0 .. N' - 1
               /\ runs'[At(F(u))'] = 1 \/ (IsAlive(u)' /\ F(u)' = Lo(u)' /\ Lo(u)' < Hi(u)')
    <3>1. /\ F(u) \in 0 .. N - 1
          /\ runs[At(F(u))] = 1 \/ (IsAlive(u) /\ F(u) = Lo(u) /\ Lo(u) < Hi(u))
      BY <1>1, <1>25, <2>2 DEF Layout, Starts
    <3>2. At(F(u))' = At(F(u))  BY <1>4, <2>1 DEF At
    <3>3. runs'[At(F(u))] = IF F(u) = p0 THEN 1 ELSE runs[At(F(u))]
      BY <1>9, <1>19, <1>21, <3>1
    <3>4. CASE F(u) = p0  BY <1>20, <2>1, <3>1, <3>2, <3>3, <3>4
    <3>5. CASE F(u) # p0
      <4>1. u = t => runs[At(F(u))] = 1  BY <3>1, <3>5
      <4> QED  BY <1>20, <1>24, <2>1, <3>1, <3>2, <3>3, <3>5, <4>1
    <3> QED  BY <3>4, <3>5
  <2>3. \A u, v \in Tasks : Used(u)' /\ Used(v)' /\ F(u)' = F(v)' => u = v
    BY <1>1, <1>25, <2>1 DEF Layout, Starts
  <2>4. \A u, v \in Tasks : u < v /\ Used(v)' => Used(u)'  BY <1>1, <1>25 DEF Layout, Starts
  <2> QED  BY <2>2, <2>3, <2>4 DEF Starts
<1>31. Bounded(t)' /\ Splitting(t)'
  <2>1. At(Lo(t))' = At(p0 + 1) /\ Cap(Hi(t))' = Cap(Hi(t))  BY <1>4, <1>15 DEF At, Cap
  <2>2. Lo(t)' \in Nat  BY <1>9, <1>15
  <2> QED  BY <1>9, <1>11, <1>14, <1>15, <1>20, <2>1, <2>2 DEF Bounded, Splitting
<1>32. \A u \in Tasks : Bounded(u)' /\ Splitting(u)'  BY <1>1, <1>24, <1>31 DEF Layout
<1>33. Counted'  BY <1>1, <1>4, <1>25, CountedKeeps DEF Layout
<1>34. Layout'  BY <1>26, <1>29, <1>30, <1>32, <1>33 DEF Layout
<1>35. \A u \in Tasks : task'[u].dag = task[u].dag /\ (u # t => task'[u].pc = task[u].pc)
  BY <1>12, <1>14
<1>36. Awaiting' /\ Owners'  BY <1>1, <1>4, <1>8, <1>14, <1>35, AwaitingKeeps
<1>37. Reported'
  <2>1. ASSUME loop.hasFuture, owner \in {"body", "sync"}, NEW x \in loop.failing, runs'[x] = 1
        PROVE  \E u \in Tasks : task'[u].pc \notin {"none", "freed"} /\ task'[u].status # Success
    <3>1. CASE x = i
      <4>1. task'[t].pc \notin {"none", "freed"} /\ task'[t].status # Success
        BY <1>7, <1>14, <2>1, <3>1
      <4> QED  BY <4>1
    <3>2. CASE x # i
      <4>1. x \in Indices(loop)  BY <1>2, LoopFacts
      <4>2. x \in Window  BY <1>2, <4>1, Geometry
      <4>3. runs[x] = 1  BY <1>19, <2>1, <3>2, <4>2
      <4>4. PICK u \in Tasks : task[u].pc \notin {"none", "freed"} /\ task[u].status # Success
        BY <1>1, <2>1, <4>3 DEF Futures, Reported
      <4>5. task'[u].pc \notin {"none", "freed"} /\ task'[u].status # Success
        BY <1>7, <1>12, <1>14, <4>4
      <4> QED  BY <4>5
    <3> QED  BY <3>1, <3>2
  <2> QED  BY <1>1, <1>4, <2>1 DEF Futures, Reported
<1> QED  BY <1>23, <1>34, <1>36, <1>37, Parts, PTL DEF Futures

-----------------------------------------------------------------------------
(* A new part is made. *)

\* A part cannot have begun at an iteration that has not run and is not before it.
LEMMA Unstarted ==
    ASSUME Starts, NEW a, runs[At(a)] = 0, \A u \in Tasks : ~Own(u, a)
    PROVE  \A u \in Tasks : Used(u) => F(u) # a
<1> SUFFICES ASSUME NEW u \in Tasks, Used(u), F(u) = a PROVE FALSE  OBVIOUS
<1>1. runs[At(F(u))] = 1 \/ (IsAlive(u) /\ F(u) = Lo(u) /\ Lo(u) < Hi(u))  BY DEF Starts
<1>2. IsAlive(u) /\ a = Lo(u) /\ Lo(u) < Hi(u)  BY <1>1
<1>3. F(u) \in Int  BY DEF Starts
<1>4. Own(u, a)  BY <1>2, <1>3 DEF Own
<1> QED  BY <1>4

\* There is room for one more part at an iteration where none has begun: the parts begin at
\* different iterations.
LEMMA Room ==
    ASSUME Types, Starts, NEW a \in 0 .. N - 1, \A u \in Tasks : Used(u) => F(u) # a
    PROVE  \E n \in Tasks : /\ \A u \in Tasks : Used(u) <=> u < n
                            /\ NumUsed = n - 1
                            /\ Min({u \in Tasks : task[u].pc = "none"}) = n
<1>1. MaxSteps \in Nat \ {0}  BY LoopAssumption
<1>2. N \in Nat /\ N <= MaxSteps
  <2>1. loop \in Loops  BY DEF Types
  <2> QED  BY <1>1, <2>1, Geometry
<1> DEFINE T == {u \in Tasks : ~Used(u)}
<1>3. T # {}
  <2>1. SUFFICES ASSUME \A u \in Tasks : Used(u) PROVE FALSE  OBVIOUS
  <2> DEFINE f == [x \in 0 .. MaxSteps |-> IF x = 0 THEN a ELSE F(x)]
  <2>2. \A x \in 0 .. MaxSteps : x = 0 \/ x \in Tasks  BY <1>1 DEF Tasks
  <2>3. \A u \in Tasks : F(u) \in 0 .. N - 1 /\ F(u) # a  BY <2>1 DEF Starts
  <2>4. f \in [0 .. MaxSteps -> 0 .. N - 1]  BY <2>2, <2>3
  <2>5. IsFiniteSet(0 .. MaxSteps) /\ Cardinality(0 .. MaxSteps) = MaxSteps + 1
    BY <1>1, FS_Interval
  <2>6. IsFiniteSet(0 .. N - 1) /\ Cardinality(0 .. N - 1) = N
    <3>1. 0 \in Int /\ N - 1 \in Int  BY <1>2
    <3> QED  BY <1>2, <3>1, FS_Interval
  <2>7. Cardinality(0 .. N - 1) < Cardinality(0 .. MaxSteps)  BY <1>1, <1>2, <2>5, <2>6
  <2> HIDE DEF f
  <2>8. PICK x, y \in 0 .. MaxSteps : x # y /\ f[x] = f[y]
    BY <2>4, <2>5, <2>6, <2>7, FS_PigeonHole
  <2>9. CASE x = 0 \/ y = 0  BY <2>2, <2>3, <2>8, <2>9 DEF f
  <2>10. CASE x # 0 /\ y # 0
    <3>1. x \in Tasks /\ y \in Tasks /\ F(x) = F(y)  BY <2>2, <2>8, <2>10 DEF f
    <3> QED  BY <2>1, <2>8, <3>1 DEF Starts
  <2> QED  BY <2>9, <2>10
<1>4. T \subseteq Nat  BY DEF Tasks
<1>5. PICK n \in T : \A u \in T : n <= u  BY <1>3, <1>4, LeastNat
<1>6. n \in Tasks /\ ~Used(n) /\ n \in Nat /\ 1 <= n /\ n <= MaxSteps  BY <1>1 DEF Tasks
<1>7. \A u \in Tasks : Used(u) <=> u < n
  <2>1. ASSUME NEW u \in Tasks PROVE Used(u) <=> u < n
    <3>1. u \in Nat  BY DEF Tasks
    <3>2. ASSUME Used(u) PROVE u < n
      <4>1. u # n  BY <1>6, <3>2
      <4>2. ~(n < u)  BY <1>6, <3>2 DEF Starts
      <4> QED  BY <1>6, <3>1, <4>1, <4>2
    <3>3. ASSUME u < n PROVE Used(u)
      <4>1. ~(n <= u)  BY <1>6, <3>1, <3>3
      <4> QED  BY <1>5, <4>1
    <3> QED  BY <3>2, <3>3
  <2> QED  BY <2>1
<1>8. NumUsed = n - 1
  <2>1. {u \in Tasks : task[u].pc # "none"} = 1 .. n - 1
    <3>1. \A u : u \in Tasks /\ u < n <=> u \in 1 .. n - 1  BY <1>1, <1>6 DEF Tasks
    <3> QED  BY <1>7, <3>1 DEF Used
  <2>2. Cardinality(1 .. n - 1) = n - 1
    <3>1. 1 \in Int /\ n - 1 \in Int  BY <1>6
    <3> QED  BY <1>6, <3>1, FS_Interval
  <2> QED  BY <2>1, <2>2 DEF NumUsed
<1>9. Min({u \in Tasks : task[u].pc = "none"}) = n
  <2>1. {u \in Tasks : task[u].pc = "none"} = T  BY DEF Used
  <2> HIDE DEF T
  <2>2. \E x \in T : \A y \in T : x <= y  BY <1>5
  <2>3. Min(T) \in T /\ \A y \in T : Min(T) <= y  BY <2>2 DEF Min
  <2>4. Min(T) <= n /\ n <= Min(T) /\ Min(T) \in Nat  BY <1>4, <1>5, <2>3
  <2> QED  BY <1>6, <2>1, <2>4
<1> QED  BY <1>6, <1>7, <1>8, <1>9

\* A new part for the iterations a .. b-1.
LEMMA NewPart ==
    ASSUME loop \in Loops, loop' = loop, NEW n \in Tasks, NEW a \in Nat, NEW b \in Nat, a < b, b <= N,
           NEW x \in BOOLEAN, task'[n] = NewLoop(x, At(a), Cap(b), b - a)
    PROVE  /\ task'[n] \in TaskRecords
           /\ task'[n].pc = "queued" /\ task'[n].dag = << >> /\ task'[n].status = Success
           /\ F(n)' = a /\ Lo(n)' = a /\ Hi(n)' = b
           /\ \A p : Mine(n, p)' <=> a <= p /\ p < b
           /\ IsAlive(n)' /\ Used(n)' /\ Bounded(n)' /\ Splitting(n)'
<1>1. /\ task'[n].pc = "queued" /\ task'[n].dag = << >> /\ task'[n].status = Success
      /\ task'[n].loopStart = At(a) /\ task'[n].idx = At(a)
      /\ task'[n].loopStop = Cap(b) /\ task'[n].loopStepsLeft = b - a
  BY DEF NewLoop, NoTask
<1>2. P(At(a)) = a /\ At(a) \in Int
  <2>1. a \in Int  OBVIOUS
  <2> QED  BY <2>1, Geometry, Zenon
<1>3. Cap(b) \in Int
  <2>1. b \in Int /\ b <= b  OBVIOUS
  <2> QED  BY <2>1, CapFacts, Zenon
<1>4. task'[n] \in TaskRecords
  <2>1. NoTask \in TaskRecords
    <3>1. NoSplit \in Splits  BY DEF NoSplit, Splits
    <3>2. << >> \in Seq(Tasks) /\ Success \in Int  BY DEF Success
    <3> QED  BY <3>1, <3>2 DEF NoTask, TaskRecords
  <2>2. b - a \in Nat  OBVIOUS
  <2> HIDE DEF NoTask
  <2>3. ASSUME NEW r \in TaskRecords, NEW i \in Int, NEW j \in Int, NEW k \in Nat
        PROVE  [r EXCEPT !.pc = "queued", !.isFirstIter = x, !.loopStart = i, !.loopStop = j,
                         !.loopStepsLeft = k, !.idx = i] \in TaskRecords
    BY DEF TaskRecords
  <2>4. NewLoop(x, At(a), Cap(b), b - a) \in TaskRecords
    BY <1>2, <1>3, <2>1, <2>2, <2>3 DEF NewLoop
  <2> QED  BY <2>4
<1>5. F(n)' = a /\ Lo(n)' = a /\ Hi(n)' = b
  <2>1. F(n)' = P(At(a)) /\ Lo(n)' = P(At(a))  BY <1>1 DEF F, Lo, P
  <2>2. Hi(n)' = Lo(n)' + (b - a)  BY <1>1 DEF Hi
  <2> QED  BY <1>2, <2>1, <2>2
<1>6. IsAlive(n)' /\ Used(n)'  BY <1>1 DEF IsAlive, Used
<1>7. \A p : Mine(n, p)' <=> a <= p /\ p < b  BY <1>1, <1>5, <1>6 DEF Mine, Own, Pending
<1>8. Bounded(n)' /\ Splitting(n)'
  <2>1. N' = N /\ At(Lo(n))' = At(a) /\ Cap(Hi(n))' = Cap(b)  BY <1>5, SameLoop DEF At, Cap
  <2> QED  BY <1>1, <1>5, <1>6, <2>1 DEF Bounded, Splitting
<1> QED  BY <1>1, <1>4, <1>5, <1>6, <1>7, <1>8

\* Iterations a .. b-1, which were pending or not spawned, are given to the new part n.
Given(n, a, b) ==
    /\ loop' = loop /\ runs' = runs /\ descendants' = descendants + 1
    /\ \A u \in Tasks : Used(u) <=> u < n
    /\ F(n)' = a /\ Lo(n)' = a /\ Hi(n)' = b /\ IsAlive(n)' /\ Used(n)'
    /\ \A p : Mine(n, p)' <=> a <= p /\ p < b
    /\ Bounded(n)' /\ Splitting(n)'
    /\ \A u \in Tasks : u # n =>
         /\ F(u)' = F(u) /\ Lo(u)' = Lo(u) /\ Hi(u)' = Hi(u)
         /\ IsAlive(u)' <=> IsAlive(u)
         /\ Used(u)' <=> Used(u)
         /\ Bounded(u)' /\ Splitting(u)'
         /\ \A p \in 0 .. N - 1 : Mine(u, p)' <=> Mine(u, p) /\ ~(a <= p /\ p < b)
    /\ \A p \in 0 .. N - 1 : Rest(p)' <=> Rest(p) /\ ~(a <= p /\ p < b)
    /\ \A p \in 0 .. N - 1 : a <= p /\ p < b =>
         /\ Rest(p) \/ \E u \in Tasks : Mine(u, p)
         /\ \A u \in Tasks : ~Own(u, p)

LEMMA Transfer ==
    ASSUME Types, Layout, NEW n \in Tasks, NEW a \in Nat, NEW b \in Nat, a < b, b <= N, Given(n, a, b)
    PROVE  (\A u \in Tasks : Bounded(u)' /\ Splitting(u)') /\ Tiling' /\ Starts' /\ Counted'
<1>1. N \in Nat
  <2>1. loop \in Loops  BY DEF Types
  <2> QED  BY <2>1, Geometry
<1>2. n \in Nat /\ ~Used(n)  BY DEF Given, Tasks
<1>3. ~IsAlive(n) /\ \A p : ~Mine(n, p)  BY <1>2 DEF Used, IsAlive, Mine, Own, Pending
<1>4. N' = N /\ (\A p : At(p)' = At(p)) /\ runs' = runs /\ loop' = loop  BY SameLoop DEF Given
<1>5. \A u \in Tasks : Bounded(u)' /\ Splitting(u)'  BY DEF Given
<1>6. Tiling'
  <2> DEFINE NN == 0 .. N - 1
             In(p) == a <= p /\ p < b
  <2>1. /\ \A u, v \in Tasks : \A p \in NN : Mine(u, p) /\ Mine(v, p) => u = v
        /\ \A p \in NN : (Rest(p) \/ \E u \in Tasks : Mine(u, p)) => runs[At(p)] = 0
        /\ \A p \in NN : Rest(p) => \A u \in Tasks : ~Mine(u, p)
        /\ \A p \in NN : runs[At(p)] = 1 \/ Rest(p) \/ \E u \in Tasks : Mine(u, p)
    BY DEF Layout, Tiling
  <2>2. /\ \A p \in NN : Rest(p)' <=> Rest(p) /\ ~In(p)
        /\ \A u \in Tasks : \A p \in NN :
             Mine(u, p)' <=> IF u = n THEN In(p) ELSE Mine(u, p) /\ ~In(p)
        /\ \A p \in NN : In(p) => Rest(p) \/ \E u \in Tasks : Mine(u, p)
    BY DEF Given
  <2>3. \A p : runs'[At(p)'] = runs[At(p)]  BY <1>4
  <2>4. NN = 0 .. N' - 1  BY <1>4
  <2> HIDE DEF NN, In
  <2>5. \A u, v \in Tasks : \A p \in NN : Mine(u, p)' /\ Mine(v, p)' => u = v  BY <2>1, <2>2
  <2>6. \A p \in NN : (Rest(p)' \/ \E u \in Tasks : Mine(u, p)') => runs'[At(p)'] = 0
    BY <2>1, <2>2, <2>3
  <2>7. \A p \in NN : Rest(p)' => \A u \in Tasks : ~Mine(u, p)'  BY <2>1, <2>2
  <2>8. \A p \in NN : runs'[At(p)'] = 1 \/ Rest(p)' \/ \E u \in Tasks : Mine(u, p)'
    <3>1. ASSUME NEW p \in NN PROVE runs'[At(p)'] = 1 \/ Rest(p)' \/ \E u \in Tasks : Mine(u, p)'
      <4>1. CASE In(p)  BY <2>2, <4>1
      <4>2. CASE ~In(p)
        <5>1. \A u \in Tasks : Mine(u, p) => Mine(u, p)'  BY <1>3, <2>2, <4>2
        <5> QED  BY <2>1, <2>2, <2>3, <4>2, <5>1
      <4> QED  BY <4>1, <4>2
    <3> QED  BY <3>1
  <2> QED  BY <2>4, <2>5, <2>6, <2>7, <2>8 DEF Tiling
<1>7. a \in 0 .. N - 1  BY <1>1
<1>8. \A u \in Tasks : Used(u) => F(u) # a
  <2>1. /\ Rest(a) \/ \E u \in Tasks : Mine(u, a)
        /\ \A u \in Tasks : ~Own(u, a)
    <3>1. a <= a /\ a < b  OBVIOUS
    <3> QED  BY <1>7, <3>1 DEF Given
  <2>2. runs[At(a)] = 0  BY <1>7, <2>1 DEF Layout, Tiling
  <2> QED  BY <2>1, <2>2, Unstarted DEF Layout
<1>9. Starts'
  <2>1. ASSUME NEW u \in Tasks, Used(u)'
        PROVE  /\ F(u)' \in 0 .. N' - 1
               /\ runs'[At(F(u))'] = 1 \/ (IsAlive(u)' /\ F(u)' = Lo(u)' /\ Lo(u)' < Hi(u)')
    <3>1. CASE u = n
      <4>1. F(u)' = a /\ Lo(u)' = a /\ Hi(u)' = b /\ IsAlive(u)'  BY <3>1 DEF Given
      <4> QED  BY <1>4, <1>7, <4>1
    <3>2. CASE u # n
      <4>1. /\ F(u)' = F(u) /\ Lo(u)' = Lo(u) /\ Hi(u)' = Hi(u)
            /\ IsAlive(u)' <=> IsAlive(u)
            /\ Used(u)
        BY <2>1, <3>2 DEF Given
      <4>2. At(F(u))' = At(F(u))  BY <1>4, <4>1 DEF At
      <4>3. /\ F(u) \in 0 .. N - 1
            /\ runs[At(F(u))] = 1 \/ (IsAlive(u) /\ F(u) = Lo(u) /\ Lo(u) < Hi(u))
        BY <4>1 DEF Layout, Starts
      <4> QED  BY <1>4, <4>1, <4>2, <4>3
    <3> QED  BY <3>1, <3>2
  <2>2. \A u \in Tasks : u # n => F(u)' = F(u) /\ (Used(u)' <=> Used(u))  BY DEF Given
  <2>3. F(n)' = a  BY DEF Given
  <2>4. \A u, v \in Tasks : Used(u)' /\ Used(v)' /\ F(u)' = F(v)' => u = v
    BY <1>8, <2>2, <2>3 DEF Layout, Starts
  <2>5. ASSUME NEW u \in Tasks, NEW v \in Tasks, u < v, Used(v)' PROVE Used(u)'
    <3>1. Used(n)' /\ \A w \in Tasks : Used(w) <=> w < n  BY DEF Given
    <3>2. u \in Nat /\ v \in Nat  BY DEF Tasks
    <3>3. CASE u = n  BY <3>1, <3>3
    <3>4. CASE u # n
      <4>1. v = n \/ v < n  BY <2>2, <2>5, <3>1
      <4>2. u < n  BY <1>2, <2>5, <3>2, <4>1
      <4> QED  BY <2>2, <3>1, <3>4, <4>2
    <3> QED  BY <3>3, <3>4
  <2> QED  BY <2>1, <2>4, <2>5 DEF Starts
<1>10. Counted'
  <2>1. Alive' = Alive \union {n} /\ n \notin Alive
    <3>1. \A u \in Tasks : IsAlive(u)' <=> (IsAlive(u) \/ u = n)  BY DEF Given
    <3> QED  BY <1>3, <3>1 DEF Alive, IsAlive
  <2>2. IsFiniteSet(Alive)  BY FiniteTasks DEF Alive
  <2>3. Cardinality(Alive \union {n}) = Cardinality(Alive) + 1  BY <2>1, <2>2, FS_AddElement
  <2> QED  BY <2>1, <2>3 DEF Layout, Counted, Given
<1> QED  BY <1>5, <1>6, <1>9, <1>10

\* The only part of a loop that is split, at the start.
LEMMA ScheduleKeeps ==
    ASSUME IInv, Schedule
    PROVE  IInv'
<1>1. Types /\ Layout /\ Awaiting /\ Owners /\ Reported  BY Parts DEF Futures
<1>2. task \in [Tasks -> TaskRecords] /\ loop \in Loops  BY <1>1 DEF Types
<1>3. /\ owner = "body" /\ loop.hint = 0 /\ descendants' = descendants + 1
      /\ task' = [task EXCEPT ![1] = NewLoop(TRUE, loop.start, loop.stop, N)]
      /\ owner' = IF loop.hasFuture THEN "sync" ELSE "wait"
      /\ UNCHANGED <<loop, status, runs>>
  BY DEF Schedule, N
<1>4. 1 \in Tasks  BY LoopAssumption DEF Tasks
<1>5. N \in Nat /\ 0 < N /\ N <= N  BY <1>2, Geometry
<1>6. At(0) = loop.start /\ Cap(N) = loop.stop
  <2>1. loop.start \in Int /\ loop.stride \in {1, 2}  BY <1>2, LoopFacts
  <2>2. At(0) = loop.start  BY <2>1 DEF At
  <2>3. N \in Int  BY <1>5
  <2> QED  BY <1>2, <1>5, <2>2, <2>3, CapFacts, Zenon
<1>7. /\ task'[1] = NewLoop(TRUE, At(0), Cap(N), N - 0)
      /\ \A u \in Tasks : u # 1 => task'[u] = task[u]
  <2>1. N - 0 = N  BY <1>5
  <2> QED  BY <1>2, <1>3, <1>4, <1>6, <2>1
<1>8. /\ task'[1] \in TaskRecords
      /\ task'[1].pc = "queued" /\ task'[1].dag = << >> /\ task'[1].status = Success
      /\ F(1)' = 0 /\ Lo(1)' = 0 /\ Hi(1)' = N
      /\ \A p : Mine(1, p)' <=> 0 <= p /\ p < N
      /\ IsAlive(1)' /\ Used(1)' /\ Bounded(1)' /\ Splitting(1)'
  <2>1. PICK n \in Tasks : n = 1  BY <1>4
  <2>2. PICK b \in Nat : b = N  BY <1>5
  <2>3. PICK a \in Nat : a = 0  OBVIOUS
  <2>4. a < b /\ b <= N /\ task'[n] = NewLoop(TRUE, At(a), Cap(b), b - a)
    BY <1>5, <1>7, <2>1, <2>2, <2>3
  <2>5. /\ task'[n] \in TaskRecords
        /\ task'[n].pc = "queued" /\ task'[n].dag = << >> /\ task'[n].status = Success
        /\ F(n)' = a /\ Lo(n)' = a /\ Hi(n)' = b
        /\ \A p : Mine(n, p)' <=> a <= p /\ p < b
        /\ IsAlive(n)' /\ Used(n)' /\ Bounded(n)' /\ Splitting(n)'
    BY <1>2, <1>3, <2>4, NewPart
  <2> QED  BY <2>1, <2>2, <2>3, <2>5
<1>9. \A u \in Tasks : ~Used(u) /\ task[u].pc = "none"  BY <1>1, <1>3 DEF Layout, Spawning, Used
<1>10. \A u \in Tasks : task[u].dag = << >>  BY <1>1, <1>9 DEF Awaiting
<1>11. Given(1, 0, N)
  <2>1. \A u \in Tasks : Used(u) <=> u < 1  BY <1>9 DEF Tasks
  <2>2. \A u \in Tasks : \A p : ~Mine(u, p) /\ ~Own(u, p)
    BY <1>9 DEF Mine, Own, Pending, IsAlive
  <2>3. \A u \in Tasks : u # 1 =>
          /\ F(u)' = F(u) /\ Lo(u)' = Lo(u) /\ Hi(u)' = Hi(u)
          /\ IsAlive(u)' <=> IsAlive(u)
          /\ Used(u)' <=> Used(u)
          /\ Bounded(u)' /\ Splitting(u)'
          /\ \A p : Mine(u, p)' <=> Mine(u, p)
    BY <1>1, <1>3, <1>7, SameTask DEF Layout
  <2>4. \A p : Rest(p) /\ ~Rest(p)'  BY <1>3 DEF Rest
  <2>5. \A p \in 0 .. N - 1 : 0 <= p /\ p < N  BY <1>5
  <2> QED  BY <1>3, <1>8, <2>1, <2>2, <2>3, <2>4, <2>5 DEF Given
<1>12. (\A u \in Tasks : Bounded(u)' /\ Splitting(u)') /\ Tiling' /\ Starts' /\ Counted'
  <2>1. 0 \in Nat  OBVIOUS
  <2> QED  BY <1>1, <1>4, <1>5, <1>11, <2>1, Transfer
<1>13. Spawning'  BY <1>3 DEF Spawning
<1>14. Layout'  BY <1>12, <1>13 DEF Layout
<1>15. Types'
  <2>1. task' \in [Tasks -> TaskRecords]
    <3>1. task' = [u \in Tasks |-> task'[u]]  BY <1>2, <1>3
    <3> QED  BY <1>2, <1>7, <1>8, <3>1
  <2>2. \A u \in Tasks : task'[u].status \in loop.failing \union {Success}
    BY <1>1, <1>7, <1>8 DEF Types
  <2>3. owner' \in {"body", "sync", "wait", "left"}  BY <1>3
  <2> QED  BY <1>1, <1>3, <2>1, <2>2, <2>3 DEF Types
<1>16. Awaiting'
  <2>1. \A u \in Tasks : /\ task'[u].dag = << >> /\ task'[u].pc # "ended"
                         /\ u # 1 => task'[u].pc = "none"
    BY <1>7, <1>8, <1>9, <1>10
  <2> QED  BY <2>1 DEF Awaiting
<1>17. Owners'  BY <1>3, <1>8 DEF Owners
<1>18. Reported'
  <2>1. loop.hasFuture => \A x \in loop.failing : runs[x] # 1  BY <1>1, <1>3, <1>9 DEF Reported
  <2> QED  BY <1>3, <2>1 DEF Reported
<1> QED  BY <1>14, <1>15, <1>16, <1>17, <1>18, Parts, PTL DEF Futures

\* The chunk that is pushed: the first iterations that are pending.
LEMMA ChunkIs ==
    ASSUME Types, Layout, NEW t \in Tasks, task[t].pc = "push",
           task[t].split.chunkID < task[t].split.workers, Chunk(task[t].split).size # 0
    PROVE  LET s == task[t].split
               size == Chunk(s).size
           IN  /\ PLo(t) \in Nat /\ PHi(t) \in Nat /\ size \in Nat \ {0}
               /\ Hi(t) <= PLo(t) /\ PLo(t) + size <= PHi(t) /\ PHi(t) <= N
               /\ Chunk(s).offset = At(PLo(t))
               /\ Min({s.stop, Chunk(s).offset + size * loop.stride}) = Cap(PLo(t) + size)
               /\ Lo(t) + Off(s, s.chunkID + 1) = PLo(t) + size
<1> DEFINE s == task[t].split
           c == s.chunkID
           size == s.base + (IF c < s.cutoff THEN 1 ELSE 0)
<1>1. Chunk(s).size = size
  BY DEF Chunk
<1>2. s \in Splits /\ loop \in Loops  BY DEF Types, TaskRecords
<1>3. c \in Nat /\ s.workers \in Nat /\ s.base \in Nat /\ s.cutoff \in Nat  BY <1>2 DEF Splits
<1>4. size \in Nat \ {0}  BY <1>1, <1>3
<1>5. /\ s.cutoff < s.workers /\ s.at = task[t].idx
      /\ Hi(t) <= PLo(t) /\ PLo(t) <= PHi(t) /\ PHi(t) <= N /\ s.stop = Cap(PHi(t))
  BY DEF Layout, Splitting
<1>6. /\ c < s.workers /\ c <= s.workers /\ c + 1 \in Nat /\ c + 1 <= s.workers
  BY <1>3
<1>7. IsAlive(t)  BY DEF IsAlive
<1>8. Lo(t) \in Nat /\ Hi(t) \in Nat /\ N \in Nat /\ task[t].idx = At(Lo(t))
  BY <1>7, PartFacts DEF Layout
<1>9. /\ Off(s, c) \in Nat /\ Off(s, c + 1) = Off(s, c) + size
  <2>1. Off(s, c + 1) = Off(s, c) + s.base + (IF c < s.cutoff THEN 1 ELSE 0) /\ Off(s, c) \in Nat
    BY <1>2, <1>3, <1>5, <1>6, OffFacts
  <2> QED  BY <1>3, <2>1
<1>10. Off(s, c + 1) <= Off(s, s.workers) /\ Off(s, s.workers) \in Nat
  <2>1. s.workers <= s.workers  BY <1>3
  <2> QED  BY <1>2, <1>3, <1>5, <1>6, <2>1, OffFacts
<1>11. PLo(t) = Lo(t) + Off(s, c) /\ PHi(t) = Lo(t) + Off(s, s.workers)  BY DEF PLo, PHi
<1>12. Chunk(s).offset = s.at + loop.stride * Off(s, c)
  <2>1. Chunk(s).offset = s.at + loop.stride * (IF c < s.cutoff THEN size * c
                                                ELSE s.base * c + s.cutoff)
    BY DEF Chunk
  <2>2. (IF c < s.cutoff THEN size * c ELSE s.base * c + s.cutoff) = Off(s, c)
    <3>1. CASE c < s.cutoff
      <4>1. size = s.base + 1  BY <3>1
      <4>2. ASSUME NEW x \in Nat, NEW y \in Nat PROVE (x + 1) * y = x * y + y  BY SMT
      <4> QED  BY <1>3, <3>1, <4>1, <4>2 DEF Off
    <3>2. CASE ~(c < s.cutoff)  BY <3>2 DEF Off
    <3> QED  BY <3>1, <3>2
  <2> QED  BY <2>1, <2>2
<1> HIDE DEF s, c, size
<1>13. loop.start \in Int /\ loop.stride \in {1, 2}  BY <1>2, LoopFacts
<1>14. Chunk(s).offset = At(PLo(t))
  <2>1. CASE loop.stride = 1  BY <1>5, <1>8, <1>9, <1>11, <1>12, <1>13, <2>1 DEF At
  <2>2. CASE loop.stride = 2  BY <1>5, <1>8, <1>9, <1>11, <1>12, <1>13, <2>2 DEF At
  <2> QED  BY <1>13, <2>1, <2>2
<1>15. /\ PLo(t) \in Nat /\ PHi(t) \in Nat /\ PLo(t) + size <= PHi(t)
       /\ Lo(t) + Off(s, c + 1) = PLo(t) + size
  BY <1>4, <1>8, <1>9, <1>10, <1>11
<1>16. At(PLo(t)) + size * loop.stride = At(PLo(t) + size)
  <2>1. CASE loop.stride = 1  BY <1>4, <1>13, <1>15, <2>1 DEF At
  <2>2. CASE loop.stride = 2  BY <1>4, <1>13, <1>15, <2>2 DEF At
  <2> QED  BY <1>13, <2>1, <2>2
<1>17. Min({Cap(PHi(t)), At(PLo(t) + size)}) = Cap(PLo(t) + size)
  <2>1. PLo(t) + size \in Int /\ PHi(t) \in Int  BY <1>4, <1>15
  <2> QED  BY <1>2, <1>5, <1>15, <2>1, CapFacts, Zenon
<1>18. Min({s.stop, Chunk(s).offset + size * loop.stride}) = Cap(PLo(t) + size)
  BY <1>5, <1>14, <1>16, <1>17
<1> QED  BY <1>1, <1>4, <1>5, <1>14, <1>15, <1>18 DEF s, c

\* The list of futures with one more in front.
LEMMA ConsFacts ==
    ASSUME NEW S, NEW d \in Seq(S), NEW n \in S
    PROVE  /\ <<n>> \o d \in Seq(S) /\ <<n>> \o d # << >>
           /\ DOMAIN d = 1 .. Len(d) /\ Len(d) \in Nat
           /\ DOMAIN (<<n>> \o d) = 1 .. Len(d) + 1
           /\ (<<n>> \o d)[1] = n
           /\ \A k \in 1 .. Len(d) : (<<n>> \o d)[k + 1] = d[k]
<1>1. <<n>> \in Seq(S) /\ Len(<<n>>) = 1 /\ <<n>>[1] = n  OBVIOUS
<1>2. <<n>> \o d \in Seq(S) /\ Len(<<n>> \o d) = 1 + Len(d)  BY <1>1
<1>3. Len(d) \in Nat /\ DOMAIN d = 1 .. Len(d)  OBVIOUS
<1>4. DOMAIN (<<n>> \o d) = 1 .. Len(d) + 1  BY <1>2, <1>3
<1>5. (<<n>> \o d)[1] = n  BY <1>1, <1>3
<1>6. \A k \in 1 .. Len(d) : (<<n>> \o d)[k + 1] = d[k]  BY <1>1, <1>3
<1> QED  BY <1>2, <1>3, <1>4, <1>5, <1>6

LEMMA DispatchKeeps ==
    ASSUME IInv, NEW t \in Tasks, task[t].pc = "push",
           task[t].split.chunkID < task[t].split.workers, Chunk(task[t].split).size # 0,
           Dispatch(t, Chunk(task[t].split).offset, Chunk(task[t].split).size)
    PROVE  IInv'
<1> DEFINE s == task[t].split
           size == Chunk(s).size
           d == task[t].dag
           fresh == Min({u \in Tasks : task[u].pc = "none"})
           upper == NewLoop(FALSE, Chunk(s).offset,
                            Min({s.stop, Chunk(s).offset + size * loop.stride}), size)
<1>1. Types /\ Layout /\ Awaiting /\ Owners /\ Reported  BY Parts DEF Futures
<1>2. task \in [Tasks -> TaskRecords] /\ loop \in Loops  BY <1>1 DEF Types
<1>3. task[t] \in TaskRecords /\ s \in Splits /\ d \in Seq(Tasks) /\ s.chunkID \in Nat
  BY <1>2 DEF TaskRecords, Splits
<1>4. /\ task' = [task EXCEPT ![fresh] = upper, ![t].split.chunkID = @ + 1,
                              ![t].dag = IF loop.hasFuture THEN <<fresh>> \o @ ELSE @]
      /\ descendants' = descendants + 1
      /\ UNCHANGED <<loop, owner, status, runs>>
  BY DEF Dispatch
<1>5. /\ PLo(t) \in Nat /\ PHi(t) \in Nat /\ size \in Nat \ {0}
      /\ Hi(t) <= PLo(t) /\ PLo(t) + size <= PHi(t) /\ PHi(t) <= N
      /\ Chunk(s).offset = At(PLo(t))
      /\ Min({s.stop, Chunk(s).offset + size * loop.stride}) = Cap(PLo(t) + size)
      /\ Lo(t) + Off(s, s.chunkID + 1) = PLo(t) + size
  BY <1>1, ChunkIs
<1>6. PICK a \in Nat : a = PLo(t)  BY <1>5
<1>7. PICK b \in Nat : b = PLo(t) + size  BY <1>5
<1>8. a < b /\ b <= N /\ b <= PHi(t) /\ b - a = size /\ N \in Nat
  <2>1. N \in Nat  BY <1>2, Geometry
  <2> QED  BY <1>5, <1>6, <1>7, <2>1
<1>9. upper = NewLoop(FALSE, At(a), Cap(b), b - a)
  <2>1. At(PLo(t)) = At(a) /\ Cap(PLo(t) + size) = Cap(b)  BY <1>6, <1>7
  <2> QED  BY <1>5, <1>8, <2>1
<1>10. IsAlive(t) /\ Used(t) /\ loop.hint = 0  BY <1>1 DEF IsAlive, Used, Layout, Splitting
<1>11. /\ Lo(t) \in Nat /\ Hi(t) \in Nat /\ Lo(t) <= Hi(t)
  BY <1>1, <1>10, PartFacts DEF Layout
<1>12. owner # "body" /\ owner # "left"
  BY <1>1, <1>10 DEF Layout, Spawning, Owners
<1>13. \A p \in 0 .. N - 1 : a <= p /\ p < b => Pending(t, p)
  BY <1>5, <1>6, <1>7, <1>8 DEF Pending
<1>14. \A p \in 0 .. N - 1 : a <= p /\ p < b => \A u \in Tasks : ~Own(u, p)
  <2>1. SUFFICES ASSUME NEW p \in 0 .. N - 1, a <= p, p < b, NEW u \in Tasks, Own(u, p)
                 PROVE  FALSE
    OBVIOUS
  <2>2. Mine(t, p) /\ Mine(u, p)  BY <1>13, <2>1 DEF Mine
  <2>3. u = t  BY <1>1, <2>2 DEF Layout, Tiling
  <2>4. p < Hi(t) /\ p \in Int  BY <1>8, <2>1, <2>3 DEF Own
  <2> QED  BY <1>5, <1>6, <1>11, <2>1, <2>4
<1>15. a \in 0 .. N - 1  BY <1>8
<1>16. \A u \in Tasks : Used(u) => F(u) # a
  <2>1. a <= a /\ a < b  BY <1>8
  <2>2. Mine(t, a) /\ \A u \in Tasks : ~Own(u, a)  BY <1>13, <1>14, <1>15, <2>1 DEF Mine
  <2>3. runs[At(a)] = 0  BY <1>1, <1>15, <2>2 DEF Layout, Tiling
  <2> QED  BY <1>1, <2>2, <2>3, Unstarted DEF Layout
<1>17. PICK n \in Tasks : (\A u \in Tasks : Used(u) <=> u < n) /\ fresh = n
  BY <1>1, <1>15, <1>16, Room DEF Layout
<1> HIDE DEF fresh, upper, d, s, size
<1>18. t < n /\ n # t /\ n # 1 /\ n \in Nat /\ 1 \in Tasks /\ task[n].pc = "none"
  <2>1. t < n /\ t \in Nat /\ n \in Nat /\ 1 <= t  BY <1>10, <1>17 DEF Tasks
  <2>2. 1 \in Tasks  BY LoopAssumption DEF Tasks
  <2>3. ~Used(n)  BY <1>17, <2>1
  <2> QED  BY <2>1, <2>2, <2>3 DEF Used
<1> DEFINE d2 == IF loop.hasFuture THEN <<n>> \o d ELSE d
<1>19. d2 \in Seq(Tasks)  BY <1>3, ConsFacts
<1>20. /\ task'[n] = upper
       /\ task'[t] = [task[t] EXCEPT !.split = [task[t].split EXCEPT !.chunkID = s.chunkID + 1],
                                     !.dag = d2]
       /\ \A u \in Tasks : u # n /\ u # t => task'[u] = task[u]
  <2>1. task'[n] = upper  BY <1>2, <1>4, <1>17, <1>18
  <2>2. \A u \in Tasks : u # n /\ u # t => task'[u] = task[u]  BY <1>2, <1>4, <1>17
  <2>3. task'[t] = [task[t] EXCEPT !.split = [task[t].split EXCEPT !.chunkID = s.chunkID + 1],
                                     !.dag = d2]
    BY <1>2, <1>3, <1>4, <1>17, <1>18 DEF TaskRecords, Splits, s, d
  <2> QED  BY <2>1, <2>2, <2>3
<1> HIDE DEF d2
<1>21. /\ task'[t].loopStart = task[t].loopStart /\ task'[t].loopStop = task[t].loopStop
       /\ task'[t].loopStepsLeft = task[t].loopStepsLeft /\ task'[t].idx = task[t].idx
       /\ task'[t].status = task[t].status /\ task'[t].pc = "push" /\ task'[t].dag = d2
       /\ task'[t].split = [s EXCEPT !.chunkID = s.chunkID + 1]
  BY <1>3, <1>20 DEF TaskRecords, s
<1>22. /\ task'[n] \in TaskRecords
       /\ task'[n].pc = "queued" /\ task'[n].dag = << >> /\ task'[n].status = Success
       /\ F(n)' = a /\ Lo(n)' = a /\ Hi(n)' = b
       /\ \A p : Mine(n, p)' <=> a <= p /\ p < b
       /\ IsAlive(n)' /\ Used(n)' /\ Bounded(n)' /\ Splitting(n)'
  <2>1. task'[n] = NewLoop(FALSE, At(a), Cap(b), b - a) /\ FALSE \in BOOLEAN  BY <1>9, <1>20
  <2>2. loop' = loop  BY <1>4
  <2> QED  BY <1>2, <1>8, <2>1, <2>2, NewPart
<1>23. /\ IsAlive(t)' /\ Used(t)'
       /\ F(t)' = F(t) /\ Lo(t)' = Lo(t) /\ Hi(t)' = Hi(t) /\ PLo(t)' = b /\ PHi(t)' = PHi(t)
  <2>1. IsAlive(t)' /\ Used(t)'  BY <1>21 DEF IsAlive, Used
  <2>2. F(t)' = F(t) /\ Lo(t)' = Lo(t) /\ Hi(t)' = Hi(t)  BY <1>4, <1>21 DEF F, Lo, Hi, P
  <2>3. /\ task'[t].split.chunkID = s.chunkID + 1 /\ task'[t].split.workers = s.workers
        /\ task'[t].split.base = s.base /\ task'[t].split.cutoff = s.cutoff
        /\ task'[t].split.at = s.at /\ task'[t].split.stop = s.stop
    BY <1>3, <1>21 DEF Splits
  <2>4. PLo(t)' = Lo(t)' + Off(s, s.chunkID + 1) /\ PHi(t)' = Lo(t)' + Off(s, s.workers)
    BY <2>3 DEF PLo, PHi, Off
  <2>5. PHi(t) = Lo(t) + Off(s, s.workers)  BY DEF PHi, s
  <2> QED  BY <1>5, <1>7, <2>1, <2>2, <2>4, <2>5
<1>24. Bounded(t)' /\ Splitting(t)'
  <2>1. /\ N' = N /\ At(Lo(t))' = At(Lo(t)) /\ Cap(Hi(t))' = Cap(Hi(t))
        /\ Cap(PHi(t))' = Cap(PHi(t))
    BY <1>4, <1>23, SameLoop DEF At, Cap
  <2>2. Bounded(t) /\ Splitting(t)  BY <1>1 DEF Layout
  <2>3. Bounded(t)'  BY <1>10, <1>21, <1>23, <2>1, <2>2 DEF Bounded
  <2>4. /\ task'[t].split.chunkID = s.chunkID + 1 /\ task'[t].split.workers = s.workers
        /\ task'[t].split.base = s.base /\ task'[t].split.cutoff = s.cutoff
        /\ task'[t].split.at = s.at /\ task'[t].split.stop = s.stop
    BY <1>3, <1>21 DEF Splits
  <2>5. /\ 2 <= s.workers /\ s.cutoff < s.workers /\ 1 <= s.chunkID /\ s.chunkID <= s.workers
        /\ s.at = task[t].idx /\ s.stop = Cap(PHi(t)) /\ s.chunkID < s.workers
    BY <2>2 DEF Splitting, s
  <2>6. s.workers \in Nat  BY <1>3 DEF Splits
  <2>7. 1 <= s.chunkID + 1 /\ s.chunkID + 1 <= s.workers  BY <1>3, <2>5, <2>6
  <2>8. Hi(t)' <= PLo(t)' /\ PLo(t)' <= PHi(t)' /\ PHi(t)' <= N'
    BY <1>5, <1>6, <1>8, <1>11, <1>23, <2>1
  <2>9. Splitting(t)'  BY <1>4, <1>10, <1>21, <2>1, <2>4, <2>5, <2>7, <2>8 DEF Splitting
  <2> QED  BY <2>3, <2>9
<1>25. \A p \in 0 .. N - 1 : Mine(t, p)' <=> Mine(t, p) /\ ~(a <= p /\ p < b)
  <2>1. SUFFICES ASSUME NEW p \in 0 .. N - 1
                 PROVE  Mine(t, p)' <=> Mine(t, p) /\ ~(a <= p /\ p < b)
    OBVIOUS
  <2>2. Own(t, p)' <=> Own(t, p)  BY <1>10, <1>23 DEF Own
  <2>3. Pending(t, p)' <=> b <= p /\ p < PHi(t)  BY <1>21, <1>23 DEF Pending
  <2>4. Pending(t, p) <=> a <= p /\ p < PHi(t)  BY <1>6 DEF Pending
  <2>5. a <= p /\ p < b => ~Own(t, p)  BY <1>14
  <2>6. p \in Int  BY <1>8
  <2> QED  BY <1>5, <1>8, <2>2, <2>3, <2>4, <2>5, <2>6 DEF Mine
<1>26. \A u \in Tasks : u # n /\ u # t =>
          /\ F(u)' = F(u) /\ Lo(u)' = Lo(u) /\ Hi(u)' = Hi(u)
          /\ IsAlive(u)' <=> IsAlive(u)
          /\ Used(u)' <=> Used(u)
          /\ Bounded(u)' /\ Splitting(u)'
          /\ \A p : Mine(u, p)' <=> Mine(u, p)
  BY <1>1, <1>4, <1>20, SameTask DEF Layout
<1>27. \A u \in Tasks : u # t => \A p \in 0 .. N - 1 : a <= p /\ p < b => ~Mine(u, p)
  BY <1>1, <1>13 DEF Layout, Tiling, Mine
<1>28. Given(n, a, b)
  <2>1. \A p : ~Rest(p) /\ ~Rest(p)'  BY <1>4, <1>12 DEF Rest
  <2>2. \A u \in Tasks : u # n =>
          /\ F(u)' = F(u) /\ Lo(u)' = Lo(u) /\ Hi(u)' = Hi(u)
          /\ IsAlive(u)' <=> IsAlive(u)
          /\ Used(u)' <=> Used(u)
          /\ Bounded(u)' /\ Splitting(u)'
    BY <1>10, <1>23, <1>24, <1>26
  <2>3. \A u \in Tasks : u # n =>
          \A p \in 0 .. N - 1 : Mine(u, p)' <=> Mine(u, p) /\ ~(a <= p /\ p < b)
    BY <1>25, <1>26, <1>27
  <2>4. \A p \in 0 .. N - 1 : a <= p /\ p < b =>
          (\E u \in Tasks : Mine(u, p)) /\ \A u \in Tasks : ~Own(u, p)
    BY <1>13, <1>14 DEF Mine
  <2> QED  BY <1>4, <1>17, <1>22, <2>1, <2>2, <2>3, <2>4 DEF Given
<1>29. (\A u \in Tasks : Bounded(u)' /\ Splitting(u)') /\ Tiling' /\ Starts' /\ Counted'
  BY <1>1, <1>8, <1>28, Transfer
<1>30. Spawning'  BY <1>4, <1>12 DEF Spawning
<1>31. Layout'  BY <1>29, <1>30 DEF Layout
<1>32. Types'
  <2>1. task'[t] \in TaskRecords
    <3>1. s.chunkID + 1 \in Nat  BY <1>3
    <3>2. [task[t] EXCEPT !.split = [task[t].split EXCEPT !.chunkID = s.chunkID + 1], !.dag = d2]
            \in TaskRecords
      BY <1>3, <1>19, <3>1, DispatchType
    <3> QED  BY <1>20, <3>2
  <2>2. task' = [u \in Tasks |-> task'[u]]  BY <1>2, <1>4
  <2>3. task' \in [Tasks -> TaskRecords]  BY <1>2, <1>20, <1>22, <2>1, <2>2
  <2>4. \A u \in Tasks : task'[u].status \in loop.failing \union {Success}
    BY <1>1, <1>20, <1>21, <1>22 DEF Types
  <2> QED  BY <1>1, <1>4, <2>3, <2>4 DEF Types
<1>33. /\ \A u \in Tasks : u # n => task'[u].pc = task[u].pc /\ task'[u].status = task[u].status
       /\ \A u \in Tasks : u # n /\ u # t => task'[u].dag = task[u].dag
  BY <1>20, <1>21
<1>34. Owners'
  BY <1>1, <1>4, <1>12, <1>18, <1>33 DEF Owners
<1>35. Reported'
  <2>1. \A u \in Tasks : task[u].pc \notin {"none", "freed"} => u # n  BY <1>18
  <2> QED  BY <1>1, <1>4, <1>33, <2>1 DEF Reported
<1>36. Awaiting'
  <2>1. \A v \in Tasks : \A k \in DOMAIN task[v].dag :
          /\ v < task[v].dag[k] /\ task[v].dag[k] \in Tasks /\ task[v].dag[k] # n
          /\ task[task[v].dag[k]].pc \notin {"none", "freed"}
    <3>1. SUFFICES ASSUME NEW v \in Tasks, NEW k \in DOMAIN task[v].dag
                   PROVE  /\ v < task[v].dag[k] /\ task[v].dag[k] \in Tasks /\ task[v].dag[k] # n
                          /\ task[task[v].dag[k]].pc \notin {"none", "freed"}
      OBVIOUS
    <3>2. v < task[v].dag[k] /\ task[task[v].dag[k]].pc \notin {"none", "freed"}
      BY <1>1 DEF Awaiting
    <3>3. task[v].dag \in Seq(Tasks)  BY <1>2 DEF TaskRecords
    <3>4. task[v].dag[k] \in Tasks  BY <3>3
    <3> QED  BY <1>18, <3>2, <3>4
  <2>2. \A u, v \in Tasks : \A k \in DOMAIN task[u].dag : \A j \in DOMAIN task[v].dag :
            task[u].dag[k] = task[v].dag[j] => u = v /\ k = j
    BY <1>1 DEF Awaiting
  <2>3. /\ \A v \in Tasks : task[v].dag # << >> => task[v].pc \in {"balance", "push", "body"}
        /\ \A v \in Tasks : task[v].dag # << >> \/ task[v].pc = "ended" => loop.hasFuture
        /\ loop.hasFuture =>
             \A u \in Tasks \ {1} : task[u].pc \notin {"none", "freed"} =>
                 \E v \in Tasks : \E k \in DOMAIN task[v].dag : task[v].dag[k] = u
    BY <1>1 DEF Awaiting
  <2>4. CASE ~loop.hasFuture
    <3>1. \A u \in Tasks : task[u].dag = << >> /\ task[u].pc # "ended"  BY <2>3, <2>4
    <3>2. d2 = << >>  BY <2>4, <3>1 DEF d2, d
    <3>3. \A u \in Tasks : task'[u].dag = << >> /\ task'[u].pc # "ended"
      BY <1>21, <1>22, <1>33, <3>1, <3>2
    <3>4. ~loop'.hasFuture  BY <1>4, <2>4
    <3>5. DOMAIN << >> = {}  OBVIOUS
    <3>6. \A u \in Tasks : DOMAIN task'[u].dag = {}  BY <3>3, <3>5
    <3> QED  BY <3>3, <3>4, <3>6 DEF Awaiting
  <2>5. CASE loop.hasFuture
    <3>1. d2 = <<n>> \o d /\ d = task[t].dag  BY <2>5 DEF d2, d
    <3>2. /\ d2 # << >> /\ DOMAIN d = 1 .. Len(d) /\ Len(d) \in Nat
          /\ DOMAIN d2 = 1 .. Len(d) + 1 /\ d2[1] = n
          /\ \A k \in 1 .. Len(d) : d2[k + 1] = d[k]
      BY <1>3, <3>1, ConsFacts
    <3>3. ASSUME NEW v \in Tasks, NEW k \in DOMAIN task'[v].dag
          PROVE  \/ v = t /\ k = 1 /\ task'[v].dag[k] = n
                 \/ \E j \in DOMAIN task[v].dag :
                      j = (IF v = t THEN k - 1 ELSE k) /\ task'[v].dag[k] = task[v].dag[j]
      <4>1. CASE v = t
        <5>1. k \in 1 .. Len(d) + 1 /\ task'[v].dag[k] = d2[k]  BY <1>21, <3>2, <4>1
        <5>2. CASE k = 1  BY <3>2, <4>1, <5>1, <5>2
        <5>3. CASE k # 1
          <6>1. k - 1 \in 1 .. Len(d) /\ (k - 1) + 1 = k  BY <3>2, <5>1, <5>3
          <6>2. d2[(k - 1) + 1] = d[k - 1]  BY <3>2, <6>1
          <6>3. task'[v].dag[k] = task[v].dag[k - 1]  BY <3>1, <4>1, <5>1, <6>1, <6>2
          <6> QED  BY <3>1, <3>2, <4>1, <6>1, <6>3
        <5> QED  BY <5>2, <5>3
      <4>2. CASE v = n  BY <1>22, <4>2
      <4>3. CASE v # t /\ v # n  BY <1>33, <4>3
      <4> QED  BY <4>1, <4>2, <4>3
    <3>4. ASSUME NEW v \in Tasks, NEW k \in DOMAIN task'[v].dag
          PROVE  v < task'[v].dag[k] /\ task'[task'[v].dag[k]].pc \notin {"none", "freed"}
      <4>1. CASE v = t /\ k = 1 /\ task'[v].dag[k] = n  BY <1>18, <1>22, <4>1
      <4>2. CASE \E j \in DOMAIN task[v].dag : task'[v].dag[k] = task[v].dag[j]
        BY <1>33, <2>1, <4>2
      <4> QED  BY <3>3, <4>1, <4>2
    <3>5. ASSUME NEW u \in Tasks, NEW v \in Tasks, NEW k \in DOMAIN task'[u].dag,
                 NEW j \in DOMAIN task'[v].dag, task'[u].dag[k] = task'[v].dag[j]
          PROVE  u = v /\ k = j
      <4>1. CASE task'[u].dag[k] = n
        <5>1. u = t /\ k = 1  BY <2>1, <3>3, <4>1
        <5>2. task'[v].dag[j] = n  BY <3>5, <4>1
        <5>3. v = t /\ j = 1  BY <2>1, <3>3, <5>2
        <5> QED  BY <5>1, <5>3
      <4>2. CASE task'[u].dag[k] # n
        <5>1. PICK k1 \in DOMAIN task[u].dag :
                k1 = (IF u = t THEN k - 1 ELSE k) /\ task'[u].dag[k] = task[u].dag[k1]
          BY <3>3, <4>2
        <5>2. PICK j1 \in DOMAIN task[v].dag :
                j1 = (IF v = t THEN j - 1 ELSE j) /\ task'[v].dag[j] = task[v].dag[j1]
          BY <3>3, <3>5, <4>2
        <5>3. task[u].dag[k1] = task[v].dag[j1]  BY <3>5, <5>1, <5>2
        <5>4. u = v /\ k1 = j1  BY <2>2, <5>3
        <5>5. CASE u = t
          <6>1. k \in Int /\ j \in Int
            <7>1. k \in DOMAIN d2 /\ j \in DOMAIN d2  BY <1>21, <5>4, <5>5
            <7> QED  BY <3>2, <7>1
          <6> QED  BY <5>1, <5>2, <5>4, <5>5, <6>1
        <5>6. CASE u # t  BY <5>1, <5>2, <5>4, <5>6
        <5> QED  BY <5>5, <5>6
      <4> QED  BY <4>1, <4>2
    <3>6. \A v \in Tasks : task'[v].dag # << >> => task'[v].pc \in {"balance", "push", "body"}
      <4>1. ASSUME NEW v \in Tasks, task'[v].dag # << >>
            PROVE  task'[v].pc \in {"balance", "push", "body"}
        <5>1. v # n  BY <1>22, <4>1
        <5>2. CASE v = t  BY <1>21, <5>2
        <5>3. CASE v # t  BY <1>33, <2>3, <4>1, <5>1, <5>3
        <5> QED  BY <5>2, <5>3
      <4> QED  BY <4>1
    <3>7. ASSUME NEW u \in Tasks \ {1}, task'[u].pc \notin {"none", "freed"}
          PROVE  \E v \in Tasks : \E k \in DOMAIN task'[v].dag : task'[v].dag[k] = u
      <4>1. CASE u = n
        <5>1. 1 \in DOMAIN task'[t].dag /\ task'[t].dag[1] = u  BY <1>21, <3>2, <4>1
        <5> QED  BY <5>1
      <4>2. CASE u # n
        <5>1. PICK v \in Tasks : \E k \in DOMAIN task[v].dag : task[v].dag[k] = u
          BY <1>33, <2>3, <2>5, <3>7, <4>2
        <5>2. PICK k \in DOMAIN task[v].dag : task[v].dag[k] = u  BY <5>1
        <5>3. CASE v = t
          <6>1. k \in 1 .. Len(d) /\ d[k] = u  BY <3>1, <3>2, <5>2, <5>3
          <6>2. k + 1 \in DOMAIN d2 /\ d2[k + 1] = u  BY <3>2, <6>1
          <6> QED  BY <1>21, <6>2
        <5>4. CASE v # t
          <6>1. v # n
            <7>1. task[v].dag \in Seq(Tasks)  BY <1>2 DEF TaskRecords
            <7>2. task[v].dag # << >>  BY <5>2, <7>1
            <7> QED  BY <1>18, <2>3, <7>2
          <6> QED  BY <1>33, <5>2, <5>4, <6>1
        <5> QED  BY <5>3, <5>4
      <4> QED  BY <4>1, <4>2
    <3> QED  BY <1>4, <2>5, <3>4, <3>5, <3>6, <3>7 DEF Awaiting
  <2> QED  BY <2>4, <2>5
<1> QED  BY <1>31, <1>32, <1>34, <1>35, <1>36, Parts, PTL DEF Futures

\* The chunks of a static partition cover the loop, and none is empty.
LEMMA ChunkFacts ==
    ASSUME loop \in Loops, loop.hint # 0
    PROVE  /\ N = loop.stop /\ (\A p \in Nat : At(p) = p)
           /\ (\A p \in Nat : p <= N => Cap(p) = p)
           /\ Len(Chunks) \in Nat \ {0}
           /\ \A k \in 1 .. Len(Chunks) :
                /\ Chunks[k].start \in Nat /\ Chunks[k].size \in Nat \ {0}
                /\ Chunks[k].start + Chunks[k].size <= N
                /\ Chunks[k].start + Chunks[k].size
                     = IF k = Len(Chunks) THEN N ELSE Chunks[k + 1].start
<1>1. loop.start = 0 /\ loop.stride = 1 /\ loop.stop \in Nat \ {0} /\ loop.hint \in Nat
  BY LoopFacts
<1>2. N = loop.stop /\ (\A p \in Nat : At(p) = p)  BY <1>1 DEF N, ceilDiv, At
<1>3. \A p \in Nat : p <= N => Cap(p) = p  BY <1>1, <1>2 DEF Cap
<1> DEFINE n == loop.stop
           c == Number(n, 1, 2, loop.hint)
<1>4. minChunkSize = 1 /\ maxChunkSize = 2  BY DEF minChunkSize, maxChunkSize
<1>5. /\ n \in Nat /\ 1 \in Nat \ {0} /\ 2 \in Nat /\ 1 <= 2 /\ loop.hint \in Nat  BY <1>1
<1>6. c \in Nat \ {0}  BY <1>5, NumberPositive
<1>7. Chunks = items(balancedChunksPrioSize(0, n, 1, 2, loop.hint))  BY <1>1, <1>4 DEF Chunks
<1>8. balancedChunksPrioSize(0, n, 1, 2, loop.hint) = ChunkDescriptor(0, n, c)
  BY <1>5, PrioSizeIs
<1>9. Chunks = items(ChunkDescriptor(0, n, c))  BY <1>7, <1>8
<1> HIDE DEF n, c
<1>10. /\ Chunks = [k \in 1 .. c |-> [start |-> First(n, c, k - 1), size |-> Size(n, c, k - 1)]]
       /\ Len(Chunks) = c /\ DOMAIN Chunks = 1 .. c
  BY <1>5, <1>6, <1>9, ItemsAre
<1>11. \A k \in DOMAIN Chunks : Chunks[k].size \in 1 .. 2
  <2>1. ceilDiv(1 - 1, n \div 1) = 0
    <3>1. n \div 1 = n  BY <1>5
    <3>2. n >= 1  BY <1>1 DEF n
    <3>3. n - 1 \in 0 .. n - 1  BY <1>5, <3>2
    <3>4. (n - 1) \div n = 0  BY <1>5, <3>2, SMT
    <3> QED  BY <1>5, <3>1, <3>4 DEF ceilDiv
  <2>2. n >= 1 /\ 2 >= 1 + ceilDiv(1 - 1, n \div 1)  BY <1>1, <2>1 DEF n
  <2> QED  BY <1>5, <1>7, <2>2, PrioSizeTiles
<1>12. ASSUME NEW k \in 1 .. Len(Chunks)
       PROVE  /\ Chunks[k].start \in Nat /\ Chunks[k].size \in Nat \ {0}
              /\ Chunks[k].start + Chunks[k].size <= n
              /\ Chunks[k].start + Chunks[k].size
                   = IF k = Len(Chunks) THEN n ELSE Chunks[k + 1].start
  <2>1. PICK j \in 0 .. c - 1 : j = k - 1  BY <1>6, <1>10
  <2>2. /\ Size(n, c, j) \in Nat /\ First(n, c, j) \in Nat
        /\ First(n, c, j) + Size(n, c, j) = IF j = c - 1 THEN n ELSE First(n, c, j + 1)
        /\ Size(n, c, j) <= n - First(n, c, j)
    <3>1. n \in Nat /\ c \in Nat \ {0} /\ j \in 0 .. c - 1  BY <1>5, <1>6
    <3>2. Size(n, c, j) \in Nat /\ First(n, c, j) \in Nat  BY <3>1, ChunkBounds
    <3>3. First(n, c, j) + Size(n, c, j) = IF j = c - 1 THEN n ELSE First(n, c, j + 1)
      BY <3>1, ChunkBounds
    <3>4. Size(n, c, j) <= n - First(n, c, j)  BY <3>1, ChunkBounds
    <3> QED  BY <3>2, <3>3, <3>4
  <2>8. Chunks[k] = [start |-> First(n, c, k - 1), size |-> Size(n, c, k - 1)]  BY <1>10
  <2>3. Chunks[k].start = First(n, c, j) /\ Chunks[k].size = Size(n, c, j)  BY <2>1, <2>8
  <2>4. Chunks[k].size \in Nat \ {0}
    <3>1. k \in DOMAIN Chunks  BY <1>10
    <3>2. Chunks[k].size \in 1 .. 2  BY <1>11, <3>1
    <3> QED  BY <3>2
  <2>5. Chunks[k].start + Chunks[k].size <= n  BY <1>5, <2>2, <2>3
  <2>6. CASE k = Len(Chunks)
    <3>1. j = c - 1  BY <1>10, <2>1, <2>6
    <3> QED  BY <2>2, <2>3, <2>4, <2>5, <2>6, <3>1
  <2>7. CASE k # Len(Chunks)
    <3>1. j # c - 1 /\ k + 1 \in 1 .. c /\ (k + 1) - 1 = j + 1  BY <1>6, <1>10, <2>1, <2>7
    <3>2. Chunks[k + 1].start = First(n, c, j + 1)  BY <1>10, <3>1
    <3> QED  BY <2>2, <2>3, <2>4, <2>5, <2>7, <3>1, <3>2
  <2> QED  BY <2>6, <2>7
<1> QED  BY <1>2, <1>3, <1>6, <1>10, <1>12 DEF n

\* The next chunk is spawned.
LEMMA ScheduleChunkKeeps ==
    ASSUME IInv, ScheduleChunk
    PROVE  IInv'
<1> DEFINE next == NumUsed + 1
           stop == Chunks[next].start + Chunks[next].size
<1>1. Types /\ Layout /\ Awaiting /\ Owners /\ Reported  BY Parts DEF Futures
<1>2. task \in [Tasks -> TaskRecords] /\ loop \in Loops  BY <1>1 DEF Types
<1>3. /\ owner = "body" /\ loop.hint # 0 /\ descendants' = descendants + 1
      /\ task' = [task EXCEPT ![next] =
                    NewLoop(FALSE, Chunks[next].start, stop, Chunks[next].size)]
      /\ owner' = IF next = Len(Chunks) THEN "wait" ELSE "body"
      /\ UNCHANGED <<loop, status, runs>>
  BY DEF ScheduleChunk, Chunks, NumUsed
<1>4. /\ N = loop.stop /\ (\A p \in Nat : At(p) = p)
      /\ (\A p \in Nat : p <= N => Cap(p) = p)
      /\ Len(Chunks) \in Nat \ {0}
      /\ \A k \in 1 .. Len(Chunks) :
           /\ Chunks[k].start \in Nat /\ Chunks[k].size \in Nat \ {0}
           /\ Chunks[k].start + Chunks[k].size <= N
           /\ Chunks[k].start + Chunks[k].size
                = IF k = Len(Chunks) THEN N ELSE Chunks[k + 1].start
  BY <1>2, <1>3, ChunkFacts
<1>5. ~loop.hasFuture  BY <1>2, <1>3, LoopFacts
<1>6. NumUsed \in Nat /\ NumUsed < Len(Chunks)
  <2>1. {u \in Tasks : task[u].pc # "none"} \in SUBSET Tasks  OBVIOUS
  <2>2. NumUsed \in 0 .. MaxSteps  BY <2>1, FiniteTasks DEF NumUsed
  <2> QED  BY <1>1, <1>3, <2>2, LoopAssumption DEF Layout, Spawning
<1>7. next \in 1 .. Len(Chunks)  BY <1>4, <1>6
<1>8. PICK a \in Nat : a = Chunks[next].start  BY <1>4, <1>7
<1>9. PICK b \in Nat : b = stop  BY <1>4, <1>7
<1>10. N \in Nat  BY <1>2, Geometry
<1>11. a < b /\ b <= N /\ b - a = Chunks[next].size
       /\ b = IF next = Len(Chunks) THEN N ELSE Chunks[next + 1].start
  BY <1>4, <1>7, <1>8, <1>9, <1>10
<1>12. a \in 0 .. N - 1  BY <1>10, <1>11
<1>13. \A p : Rest(p) <=> a <= p  BY <1>3, <1>8 DEF Rest
<1>14. \A p \in 0 .. N - 1 : a <= p => \A u \in Tasks : ~Mine(u, p) /\ ~Own(u, p)
  BY <1>1, <1>13 DEF Layout, Tiling, Mine
<1>15. \A u \in Tasks : Used(u) => F(u) # a
  <2>1. a <= a  OBVIOUS
  <2>2. \A u \in Tasks : ~Own(u, a)  BY <1>12, <1>14, <2>1
  <2>3. runs[At(a)] = 0  BY <1>1, <1>12, <1>13, <2>1 DEF Layout, Tiling
  <2> QED  BY <1>1, <2>2, <2>3, Unstarted DEF Layout
<1>16. PICK n \in Tasks : (\A u \in Tasks : Used(u) <=> u < n) /\ NumUsed = n - 1
  BY <1>1, <1>12, <1>15, Room DEF Layout
<1>17. next = n /\ n \in Nat /\ 1 <= n /\ n <= MaxSteps /\ ~Used(n)
  BY <1>16, LoopAssumption DEF Tasks
<1>18. /\ task'[n] = NewLoop(FALSE, At(a), Cap(b), b - a)
       /\ \A u \in Tasks : u # n => task'[u] = task[u]
  <2>1. At(a) = Chunks[next].start /\ Cap(b) = stop  BY <1>4, <1>8, <1>9, <1>11
  <2> QED  BY <1>2, <1>3, <1>11, <1>17, <2>1
<1> HIDE DEF stop
<1>19. /\ task'[n] \in TaskRecords
       /\ task'[n].pc = "queued" /\ task'[n].dag = << >> /\ task'[n].status = Success
       /\ F(n)' = a /\ Lo(n)' = a /\ Hi(n)' = b
       /\ \A p : Mine(n, p)' <=> a <= p /\ p < b
       /\ IsAlive(n)' /\ Used(n)' /\ Bounded(n)' /\ Splitting(n)'
  <2>1. FALSE \in BOOLEAN /\ loop' = loop  BY <1>3
  <2>2. a < b /\ b <= N  BY <1>11
  <2>3. task'[n] = NewLoop(FALSE, At(a), Cap(b), b - a)  BY <1>18
  <2> QED  BY <1>2, <2>1, <2>2, <2>3, NewPart
<1>20. \A u \in Tasks : u # n =>
          /\ F(u)' = F(u) /\ Lo(u)' = Lo(u) /\ Hi(u)' = Hi(u)
          /\ IsAlive(u)' <=> IsAlive(u)
          /\ Used(u)' <=> Used(u)
          /\ Bounded(u)' /\ Splitting(u)'
          /\ \A p : Mine(u, p)' <=> Mine(u, p)
  BY <1>1, <1>3, <1>18, SameTask DEF Layout
<1>21. NumUsed' = n
  <2>1. {u \in Tasks : task'[u].pc # "none"} = 1 .. n
    <3>1. \A u \in Tasks : Used(u)' <=> u <= n
      <4>1. \A u \in Tasks : u \in Nat  BY DEF Tasks
      <4>2. ASSUME NEW u \in Tasks, u # n PROVE Used(u)' <=> u <= n
        <5>1. (Used(u)' <=> Used(u)) /\ (Used(u) <=> u < n)  BY <1>16, <1>20, <4>2
        <5>2. u \in Nat /\ (u < n <=> u <= n)  BY <1>17, <4>1, <4>2
        <5> QED  BY <5>1, <5>2
      <4>3. Used(n)' /\ n <= n  BY <1>17, <1>19
      <4> QED  BY <4>2, <4>3
    <3>2. \A u : u \in Tasks /\ u <= n <=> u \in 1 .. n  BY <1>17, LoopAssumption DEF Tasks
    <3> QED  BY <3>1, <3>2 DEF Used
  <2>2. Cardinality(1 .. n) = n
    <3>1. 1 \in Int /\ n \in Int  BY <1>17
    <3> QED  BY <1>17, <3>1, FS_Interval
  <2> QED  BY <2>1, <2>2 DEF NumUsed
<1>22. \A p \in 0 .. N - 1 : Rest(p)' <=> Rest(p) /\ ~(a <= p /\ p < b)
  <2>1. Chunks' = Chunks  BY <1>3, SameLoop
  <2>2. \A p : Rest(p)' <=> owner' = "body" /\ Chunks[n + 1].start <= p
    BY <1>3, <1>21, <2>1 DEF Rest
  <2>3. CASE next = Len(Chunks)  BY <1>3, <1>10, <1>11, <1>13, <2>2, <2>3
  <2>4. CASE next # Len(Chunks)
    <3>1. owner' = "body" /\ Chunks[n + 1].start = b  BY <1>3, <1>11, <1>17, <2>4
    <3> QED  BY <1>10, <1>11, <1>13, <2>2, <3>1
  <2> QED  BY <2>3, <2>4
<1>23. Given(n, a, b)
  <2>1. \A u \in Tasks : u # n =>
          \A p \in 0 .. N - 1 : Mine(u, p)' <=> Mine(u, p) /\ ~(a <= p /\ p < b)
    BY <1>14, <1>20
  <2>2. \A p \in 0 .. N - 1 : a <= p /\ p < b => Rest(p) /\ \A u \in Tasks : ~Own(u, p)
    BY <1>13, <1>14
  <2> QED  BY <1>3, <1>16, <1>19, <1>20, <1>22, <2>1, <2>2 DEF Given
<1>24. (\A u \in Tasks : Bounded(u)' /\ Splitting(u)') /\ Tiling' /\ Starts' /\ Counted'
  BY <1>1, <1>11, <1>23, Transfer
<1>25. Spawning'
  <2>1. Chunks' = Chunks  BY <1>3, SameLoop
  <2>2. owner' = "body" => n < Len(Chunks)  BY <1>3, <1>4, <1>7, <1>17
  <2> QED  BY <1>3, <1>21, <2>1, <2>2 DEF Spawning
<1>26. Layout'  BY <1>24, <1>25 DEF Layout
<1>27. Types'
  <2>1. task' \in [Tasks -> TaskRecords]
    <3>1. task' = [u \in Tasks |-> task'[u]]  BY <1>2, <1>3
    <3> QED  BY <1>2, <1>18, <1>19, <3>1
  <2>2. \A u \in Tasks : task'[u].status \in loop.failing \union {Success}
    BY <1>1, <1>18, <1>19 DEF Types
  <2>3. owner' \in {"body", "sync", "wait", "left"}  BY <1>3
  <2> QED  BY <1>1, <1>3, <2>1, <2>2, <2>3 DEF Types
<1>28. ~loop'.hasFuture  BY <1>3, <1>5
<1>29. Awaiting'
  <2>1. \A u \in Tasks : task[u].dag = << >> /\ task[u].pc # "ended"  BY <1>1, <1>5 DEF Awaiting
  <2>2. \A u \in Tasks : task'[u].dag = << >> /\ task'[u].pc # "ended"  BY <1>18, <1>19, <2>1
  <2>3. DOMAIN << >> = {}  OBVIOUS
  <2>4. \A u \in Tasks : DOMAIN task'[u].dag = {}  BY <2>2, <2>3
  <2> QED  BY <1>28, <2>2, <2>4 DEF Awaiting
<1>30. Owners'
  <2>1. owner' # "sync" /\ owner' # "left"  BY <1>3
  <2> QED  BY <1>28, <2>1 DEF Owners
<1>31. Reported'  BY <1>28 DEF Reported
<1> QED  BY <1>26, <1>27, <1>29, <1>30, <1>31, Parts, PTL DEF Futures

-----------------------------------------------------------------------------
(* The invariant is inductive. *)

LEMMA InitIInv == Init => IInv
<1> SUFFICES ASSUME Init PROVE IInv  OBVIOUS
<1>1. /\ loop \in Loops /\ task = [t \in Tasks |-> NoTask] /\ descendants = 0
      /\ owner = "body" /\ status = Success /\ runs = [i \in Window |-> 0]
  BY DEF Init
<1>2. \A t \in Tasks : /\ task[t].pc = "none" /\ task[t].dag = << >> /\ task[t].status = Success
                       /\ task[t].loopStepsLeft = 0
  BY <1>1 DEF NoTask
<1>3. NoTask \in TaskRecords
  <2>1. NoSplit \in Splits  BY DEF NoSplit, Splits
  <2>2. << >> \in Seq(Tasks) /\ Success \in Int  BY DEF Success
  <2> QED  BY <2>1, <2>2 DEF NoTask, TaskRecords
<1>4. Types  BY <1>1, <1>2, <1>3 DEF Types
<1>5. \A t \in Tasks : ~IsAlive(t) /\ ~Used(t) /\ \A p : ~Mine(t, p)
  BY <1>2 DEF IsAlive, Used, Mine, Own, Pending
<1>6. \A t \in Tasks : Bounded(t) /\ Splitting(t)  BY <1>2, <1>5 DEF Bounded, Splitting
<1>7. {t \in Tasks : task[t].pc # "none"} = {}  BY <1>2
<1>8. NumUsed = 0  BY <1>7, FS_EmptySet DEF NumUsed
<1>9. \A p \in 0 .. N - 1 : Rest(p)
  <2>1. CASE loop.hint = 0  BY <1>1, <2>1 DEF Rest
  <2>2. CASE loop.hint # 0
    <3>1. Chunks[1].start = 0
      <4>1. loop.start = 0 /\ loop.stop \in Nat /\ loop.hint \in Nat  BY <1>1, <2>2, LoopFacts
      <4>2. minChunkSize = 1 /\ maxChunkSize = 2  BY DEF minChunkSize, maxChunkSize
      <4>3. Chunks = items(balancedChunksPrioSize(0, loop.stop, 1, 2, loop.hint))
        BY <4>1, <4>2 DEF Chunks
      <4>4. 1 \in Nat \ {0} /\ 2 \in Nat /\ 1 <= 2  OBVIOUS
      <4>5. Tiles(Chunks, 0, loop.stop)  BY <4>1, <4>3, <4>4, PrioSizeTiles
      <4> QED  BY <4>5 DEF Tiles
    <3>2. NumUsed + 1 = 1  BY <1>8
    <3>3. N \in Nat  BY <1>1, Geometry
    <3> QED  BY <1>1, <3>1, <3>2, <3>3 DEF Rest
  <2> QED  BY <2>1, <2>2
<1>10. \A p \in 0 .. N - 1 : runs[At(p)] = 0  BY <1>1, Geometry
<1>11. Tiling  BY <1>5, <1>9, <1>10 DEF Tiling
<1>12. Starts  BY <1>5 DEF Starts
<1>13. Spawning
  <2>1. CASE loop.hint = 0  BY <1>5, <2>1 DEF Spawning
  <2>2. CASE loop.hint # 0
    <3>1. Len(Chunks) \in Nat \ {0}  BY <1>1, <2>2, ChunkFacts
    <3> QED  BY <1>8, <2>2, <3>1 DEF Spawning
  <2> QED  BY <2>1, <2>2
<1>14. Counted
  <2>1. Alive = {}  BY <1>5 DEF Alive, IsAlive
  <2> QED  BY <1>1, <2>1, FS_EmptySet DEF Counted
<1>15. Awaiting
  <2>1. DOMAIN << >> = {}  OBVIOUS
  <2>2. \A t \in Tasks : DOMAIN task[t].dag = {}  BY <1>2, <2>1
  <2> QED  BY <1>2, <2>2 DEF Awaiting
<1>16. Owners  BY <1>1 DEF Owners
<1>17. Reported
  <2>1. \A i \in loop.failing : runs[i] = 0
    <3>1. loop.failing \subseteq Indices(loop)  BY <1>1, LoopFacts
    <3>2. \A i \in loop.failing : i \in Window  BY <1>1, <3>1, Geometry
    <3> QED  BY <1>1, <3>2
  <2> QED  BY <1>1, <2>1 DEF Reported
<1> QED  BY <1>4, <1>6, <1>11, <1>12, <1>13, <1>14, <1>15, <1>16, <1>17 DEF IInv

LEMMA StutterKeeps ==
    ASSUME IInv, UNCHANGED vars
    PROVE  IInv'
<1>1. Types /\ Layout /\ Awaiting /\ Owners /\ Reported  BY Parts DEF Futures
<1>2. UNCHANGED <<loop, task, descendants, owner, status, runs>>  BY DEF vars
<1>3. Quiet  BY <1>2 DEF Quiet, KeepsRange, IsAlive, Used
<1>4. Layout'  BY <1>1, <1>3, QuietKeeps
<1>5. Types' /\ Awaiting' /\ Reported'  BY <1>1, <1>2 DEF Types, Awaiting, Reported
<1>6. Owners'  BY <1>1, <1>2 DEF Owners, IsAlive
<1> QED  BY <1>4, <1>5, <1>6, Parts, PTL DEF Futures

LEMMA NextIInv ==
    ASSUME IInv, [Next]_vars
    PROVE  IInv'
<1>1. CASE Schedule  BY <1>1, ScheduleKeeps
<1>2. CASE ScheduleChunk  BY <1>2, ScheduleChunkKeeps
<1>3. CASE Sync  BY <1>3, SyncKeeps
<1>4. CASE LeaveScope  BY <1>4, LeaveScopeKeeps
<1>5. ASSUME NEW t \in Tasks, Step(t) PROVE IInv'
  <2>1. CASE Begin(t) \/ KeepAll(t)  BY <2>1, BeginOrKeep
  <2>2. CASE PushChunk(t)
    <3>1. CASE task[t].split.chunkID < task[t].split.workers /\ Chunk(task[t].split).size # 0
      <4>1. /\ task[t].pc = "push"
            /\ Dispatch(t, Chunk(task[t].split).offset, Chunk(task[t].split).size)
        BY <2>2, <3>1 DEF PushChunk
      <4> QED  BY <3>1, <4>1, DispatchKeeps
    <3>2. CASE ~(task[t].split.chunkID < task[t].split.workers /\ Chunk(task[t].split).size # 0)
      <4>1. /\ task[t].pc = "push"
            /\ task' = [task EXCEPT ![t].pc = "body", ![t].split = NoSplit]
            /\ UNCHANGED <<loop, descendants, owner, status, runs>>
        BY <2>2, <3>2 DEF PushChunk
      <4> QED  BY <3>2, <4>1, EndSplitKeeps
    <3> QED  BY <3>1, <3>2
  <2>3. CASE Iterate(t)  BY <2>3, IterateKeeps
  <2>4. CASE MergeRemote(t)  BY <2>4, MergeRemoteKeeps
  <2>5. CASE Unlist(t)  BY <2>5, UnlistKeeps
  <2>6. CASE End(t)  BY <2>6, EndKeeps
  <2>7. CASE \E waiters \in 0 .. MaxWaiters : Split(t, waiters)  BY <2>7, SplitKeeps
  <2> QED  BY <1>5, <2>1, <2>2, <2>3, <2>4, <2>5, <2>6, <2>7 DEF Step
<1>6. CASE Idle \/ UNCHANGED vars  BY <1>6, StutterKeeps DEF Idle
<1> QED  BY <1>1, <1>2, <1>3, <1>4, <1>5, <1>6 DEF Next, OwnerStep

\* The inductive invariant holds in every state of every behaviour.
THEOREM LoopInvariant == Spec => []IInv
<1>1. IInv /\ [Next]_vars => IInv'  BY NextIInv
<1> QED  BY InitIInv, <1>1, PTL DEF Spec

-----------------------------------------------------------------------------
(* What follows from it. *)

\* When the scope has been left there is no part that could run.
LEMMA LeftIsDone ==
    ASSUME IInv, owner = "left"
    PROVE  /\ \A t \in Tasks : ~IsAlive(t)
           /\ \A i \in Indices(loop) : runs[i] = 1
<1>1. Types /\ Tiling /\ Owners  BY DEF IInv
<1>2. \A t \in Tasks : ~IsAlive(t)  BY <1>1 DEF Owners
<1>3. \A t \in Tasks : \A p : ~Mine(t, p)  BY <1>2 DEF IsAlive, Mine, Own, Pending
<1>4. \A p : ~Rest(p)  BY DEF Rest
<1>5. \A p \in 0 .. N - 1 : runs[At(p)] = 1  BY <1>1, <1>3, <1>4 DEF Tiling
<1>6. \A i \in Indices(loop) : \E p \in 0 .. N - 1 : i = At(p)  BY <1>1, Geometry DEF Types
<1> QED  BY <1>2, <1>5, <1>6

(* The barrier never counts more descendants than there are iterations, and  *)
(* the fields of every task, ended ones included, keep to their ranges.      *)
THEOREM TypeCorrect == Spec => []TypeOK
<1>1. ASSUME IInv PROVE TypeOK
  <2>1. Types /\ (\A t \in Tasks : Bounded(t)) /\ Counted  BY <1>1 DEF IInv
  <2>2. MaxSteps \in Nat \ {0}  BY LoopAssumption
  <2>3. loop \in Loops /\ N \in Nat /\ N <= MaxSteps  BY <2>1, <2>2, Geometry DEF Types
  <2>4. ASSUME NEW t \in Tasks
        PROVE  /\ task[t].pc \in {"none", "queued", "balance", "push", "body", "unlisted", "ended",
                                  "freed"}
               /\ task[t].dag \in Seq(Tasks)
               /\ task[t].status \in loop.failing \union {Success}
               /\ task[t].loopStepsLeft \in 0 .. MaxSteps
    <3>1. task[t].loopStepsLeft \in 0 .. MaxSteps
      <4>1. CASE IsAlive(t)
        <5>1. /\ Hi(t) = Lo(t) + task[t].loopStepsLeft /\ Lo(t) \in Nat /\ Hi(t) <= N
              /\ task[t].loopStepsLeft \in Nat
          BY <2>1, <4>1, PartFacts
        <5> QED  BY <2>2, <2>3, <5>1
      <4>2. CASE ~IsAlive(t)  BY <2>1, <2>2, <4>2 DEF Bounded
      <4> QED  BY <4>1, <4>2
    <3>2. task[t] \in TaskRecords /\ task[t].status \in loop.failing \union {Success}
      BY <2>1 DEF Types
    <3> QED  BY <3>1, <3>2 DEF TaskRecords
  <2>5. descendants \in 0 .. MaxSteps
    <3>1. Alive \in SUBSET Tasks  BY DEF Alive
    <3> QED  BY <2>1, <3>1, FiniteTasks DEF Counted
  <2>6. runs \in [Window -> 0 .. MaxSteps]
    <3>1. {0, 1} \subseteq 0 .. MaxSteps  BY <2>2
    <3> QED  BY <2>1, <3>1 DEF Types
  <2> QED  BY <2>1, <2>4, <2>5, <2>6 DEF Types, TypeOK
<1> QED  BY <1>1, LoopInvariant, PTL

(* However the loop is split and whoever runs the parts, no iteration runs   *)
(* twice, none outside the range runs, and none is missing when the scope is *)
(* left.                                                                     *)
THEOREM IterationsRunOnce == Spec => []EachIterationOnce
<1>1. ASSUME IInv PROVE EachIterationOnce
  <2>1. runs \in [Window -> {0, 1}] /\ \A i \in Window : runs[i] = 1 => i \in Indices(loop)
    BY <1>1 DEF IInv, Types
  <2>2. \A i \in Window : runs[i] <= IF i \in Indices(loop) THEN 1 ELSE 0  BY <2>1
  <2>3. owner = "left" => \A i \in Indices(loop) : runs[i] = 1  BY <1>1, LeftIsDone
  <2> QED  BY <2>2, <2>3 DEF EachIterationOnce
<1> QED  BY <1>1, LoopInvariant, PTL

(* The step counter of a part, by which it is split, and its bounds, by      *)
(* which it runs, never disagree, with strides that do not divide the range  *)
(* too.                                                                      *)
THEOREM StepCountersExact == Spec => []StepsLeftExact
<1>1. ASSUME IInv PROVE StepsLeftExact
  <2>1. SUFFICES ASSUME NEW t \in Alive
                 PROVE  task[t].loopStepsLeft =
                          IF task[t].idx >= task[t].loopStop THEN 0
                          ELSE ceilDiv(task[t].loopStop - task[t].idx, loop.stride)
    BY DEF StepsLeftExact
  <2>2. t \in Tasks /\ IsAlive(t) /\ Types /\ Bounded(t)  BY <1>1 DEF Alive, IsAlive, IInv
  <2>3. /\ loop \in Loops /\ task[t].loopStepsLeft \in Nat
        /\ Lo(t) \in Nat /\ Hi(t) \in Nat /\ Lo(t) <= Hi(t) /\ Hi(t) <= N
        /\ Hi(t) = Lo(t) + task[t].loopStepsLeft
        /\ task[t].idx = At(Lo(t)) /\ task[t].loopStop = Cap(Hi(t))
    BY <2>2, PartFacts
  <2>4. Lo(t) \in Int /\ Hi(t) \in Int  BY <2>3
  <2>5. (IF At(Lo(t)) >= Cap(Hi(t)) THEN 0 ELSE ceilDiv(Cap(Hi(t)) - At(Lo(t)), loop.stride))
          = Hi(t) - Lo(t)
    BY <2>3, <2>4, CapFacts, Zenon
  <2>6. Hi(t) - Lo(t) = task[t].loopStepsLeft  BY <2>3
  <2> QED  BY <2>3, <2>5, <2>6
<1> QED  BY <1>1, LoopInvariant, PTL

(* The scoped barrier counts exactly the parts that are queued or running,   *)
(* so the frame of the scope outlives everything that points to it.          *)
THEOREM BarrierIsExact == Spec => []BarrierCounts
<1>1. ASSUME IInv PROVE BarrierCounts
  <2>1. descendants = Cardinality(Alive)  BY <1>1 DEF IInv, Counted
  <2>2. owner = "left" => Alive = {}  BY <1>1, LeftIsDone DEF Alive, IsAlive
  <2> QED  BY <2>1, <2>2 DEF BarrierCounts
<1> QED  BY <1>1, LoopInvariant, PTL

(* Each future that a split creates is in one list of futures, once, and its *)
(* task is not freed while it is there; a reduction leaves no task behind.   *)
THEOREM FuturesAwaitedOnce == Spec => []AwaitedOnce
<1>1. ASSUME IInv PROVE AwaitedOnce
  <2>1. Types /\ Awaiting /\ Owners  BY <1>1 DEF IInv
  <2>2. \A t \in Tasks : \A k \in DOMAIN task[t].dag :
          LET u == task[t].dag[k]
          IN  /\ task[u].pc \notin {"none", "freed"}
              /\ \A v \in Tasks : \A j \in DOMAIN task[v].dag :
                   task[v].dag[j] = u => v = t /\ j = k
    BY <2>1 DEF Awaiting
  <2>3. ASSUME owner = "left", NEW t \in Tasks
        PROVE  task[t].pc \in {"none", "freed"} \union
                                (IF loop.hasFuture THEN {} ELSE {"unlisted"})
    <3>1. \A u \in Tasks : ~IsAlive(u)  BY <1>1, <2>3, LeftIsDone
    <3>2. task[t].pc \in {"none", "unlisted", "ended", "freed"}
      <4>1. task[t] \in TaskRecords  BY <2>1 DEF Types
      <4> QED  BY <3>1, <4>1 DEF IsAlive, TaskRecords
    <3>3. \A u \in Tasks : task[u].dag = << >>  BY <2>1, <3>1 DEF Awaiting, IsAlive
    <3>4. CASE ~loop.hasFuture  BY <2>1, <3>2, <3>4 DEF Awaiting
    <3>5. CASE loop.hasFuture
      <4>1. CASE t = 1  BY <2>1, <2>3, <3>5, <4>1 DEF Owners
      <4>2. CASE t # 1
        <5>1. DOMAIN << >> = {}  OBVIOUS
        <5>2. \A u \in Tasks : DOMAIN task[u].dag = {}  BY <3>3, <5>1
        <5>3. task[t].pc \in {"none", "freed"}  BY <2>1, <3>5, <4>2, <5>2 DEF Awaiting
        <5> QED  BY <5>3
      <4> QED  BY <4>1, <4>2
    <3> QED  BY <3>4, <3>5
  <2> QED  BY <2>2, <2>3 DEF AwaitedOnce
<1> QED  BY <1>1, LoopInvariant, PTL

(* What sync returns for a reduction of statuses: Success exactly when every *)
(* iteration succeeded, in whatever order the parts ended and were merged.   *)
THEOREM ReductionIsSound == Spec => []ReductionReports
<1>1. ASSUME IInv PROVE ReductionReports
  <2>1. status \in loop.failing \union {Success}  BY <1>1 DEF IInv, Types
  <2>2. loop.hasFuture /\ owner \in {"wait", "left"} /\ loop.failing # {} => status # Success
    BY <1>1 DEF IInv, Reported
  <2> QED  BY <2>1, <2>2 DEF ReductionReports
<1> QED  BY <1>1, LoopInvariant, PTL

(* The partitions that the owner may compute tile the range of the loop.     *)
THEOREM PartitionsOfLoop == Spec => []ChunksTile
<1>1. ASSUME IInv PROVE ChunksTile
  <2>1. loop \in Loops  BY <1>1 DEF IInv, Types
  <2>2. loop.stop \in Nat /\ loop.stop + 2 * MaxSteps \in Nat
    BY <2>1, LoopFacts, LoopAssumption
  <2> QED  BY <2>2, PartitionsAlwaysTile DEF ChunksTile
<1> QED  BY <1>1, LoopInvariant, PTL
=============================================================================
