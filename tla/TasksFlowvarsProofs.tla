------------------------ MODULE TasksFlowvarsProofs ------------------------
(***************************************************************************)
(* Proofs about TasksFlowvars, for every width of the fields and every     *)
(* number of threads whose IDs fit them.                                   *)
(***************************************************************************)
EXTENDS TasksFlowvars, TLAPS

-----------------------------------------------------------------------------
(* The packed word. *)

Flag(b) == IF b THEN 1 ELSE 0

Packed(g, w, th) == g * kCanBeFreed + w * Field + th

ID == 0 .. Field - 1

LEMMA FieldType == /\ Field \in Nat \ {0}
                   /\ NumThreads <= Field
                   /\ Worker \subseteq ID
                   /\ SentinelThief \in ID
<1>1. 2 ^ kWaiterShift \in Int  BY FlowvarAssumption
<1>2. Field \in Nat \ {0} /\ NumThreads <= Field  BY <1>1, FlowvarAssumption DEF Field
<1>3. Worker \subseteq ID
  BY <1>2, FlowvarAssumption DEF Worker, ID
<1> QED  BY <1>2, <1>3 DEF ID, SentinelThief

\* The accessors of the word return what was packed into it.
LEMMA Unpack ==
    ASSUME NEW g \in {0, 1}, NEW w \in ID, NEW th \in ID
    PROVE  /\ Packed(g, w, th) \in 0 .. WordSize - 1
           /\ thiefField(Packed(g, w, th)) = th
           /\ waiterField(Packed(g, w, th)) = w * Field
           /\ isGcReady(Packed(g, w, th)) <=> g = 1
<1> DEFINE F == Field
           x == Packed(g, w, th)
<1>1. F \in Nat \ {0} /\ w \in 0 .. F - 1 /\ th \in 0 .. F - 1  BY FieldType DEF ID
<1>2. x = g * (2 * F * F) + w * F + th  BY DEF Packed, kCanBeFreed
<1>3. WordSize = 2 * (2 * F * F) /\ kCanBeFreed = 2 * F * F  BY DEF WordSize, kCanBeFreed
<1> HIDE DEF F, x
<1>4. F * F \in Nat /\ w * F \in Int /\ 0 <= w * F /\ w * F <= F * F - F  BY <1>1, SMT
<1>5. w * F + th \in 0 .. F * F - 1  BY <1>1, <1>4
<1>6. 2 * F * F = 2 * (F * F)  BY <1>1, SMT
<1>7. x \in 0 .. WordSize - 1
  <2> DEFINE q == F * F
             r == w * F + th
  <2>1. q \in Nat /\ r \in 0 .. q - 1  BY <1>4, <1>5
  <2>2. x = g * (2 * q) + r
    <3>1. x = g * (2 * (F * F)) + w * F + th  BY <1>2, <1>6
    <3>2. g * (2 * (F * F)) \in Int  BY <1>4, SMT
    <3> QED  BY <1>1, <1>4, <3>1, <3>2
  <2>3. WordSize = 4 * q  BY <1>3, <1>4, <1>6
  <2> HIDE DEF q, r
  <2>4. CASE g = 0  BY <2>1, <2>2, <2>3, <2>4
  <2>5. CASE g = 1  BY <2>1, <2>2, <2>3, <2>5
  <2> QED  BY <2>4, <2>5
<1>8. x % F = th /\ x \div F = g * (2 * F) + w
  <2>1. x = (g * (2 * F) + w) * F + th  BY <1>1, <1>2, SMT
  <2>2. g * (2 * F) + w \in Int  BY <1>1, SMT
  <2> QED  BY <1>1, <2>1, <2>2, SMT
<1>9. (x \div F) % F = w
  <2>1. g * (2 * F) + w = (2 * g) * F + w  BY <1>1, SMT
  <2> QED  BY <1>1, <1>8, <2>1, SMT
<1>10. x \div (2 * F * F) = g
  <2> DEFINE K == 2 * F * F
             r == w * F + th
  <2>1. K \in Nat \ {0} /\ r \in 0 .. K - 1 /\ x = g * K + r  BY <1>1, <1>2, <1>4, <1>5, SMT
  <2> HIDE DEF K, r
  <2>2. x \div K = g  BY <2>1, SMT
  <2> QED  BY <2>2 DEF K
<1> QED  BY <1>3, <1>7, <1>8, <1>9, <1>10 DEF thiefField, waiterField, isGcReady, F, x

LEMMA WordSizeType == WordSize \in Nat \ {0} /\ kCanBeFreed \in Int /\ SentinelWaiter \in Int
<1> DEFINE F == Field
<1>1. F \in Nat \ {0}  BY FieldType
<1>2. WordSize = 2 * (2 * F * F) /\ kCanBeFreed = 2 * F * F /\ SentinelWaiter = (F - 1) * F
  BY DEF WordSize, kCanBeFreed, SentinelWaiter
<1> HIDE DEF F
<1> QED  BY <1>1, <1>2, SMT

\* fetchAdd stays in the word, and does not wrap where it need not.
LEMMA FetchAdd ==
    ASSUME NEW x \in Int, NEW d \in Int
    PROVE  /\ fetchAdd(x, d) \in 0 .. WordSize - 1
           /\ x + d \in 0 .. WordSize - 1 => fetchAdd(x, d) = x + d
BY WordSizeType, SMT DEF fetchAdd

\* The three fetchAdds of the code, each on a word whose field still holds what it takes away.
LEMMA PackedSteps ==
    ASSUME NEW g \in {0, 1}, NEW w \in ID, NEW th \in ID, NEW v \in ID
    PROVE  /\ fetchAdd(Packed(g, w, SentinelThief), v - SentinelThief) = Packed(g, w, v)
           /\ fetchAdd(Packed(g, SentinelThief, th), v * Field - SentinelWaiter) = Packed(g, v, th)
           /\ fetchAdd(Packed(0, w, th), kCanBeFreed) = Packed(1, w, th)
<1> DEFINE F == Field
           S == SentinelThief
           K == kCanBeFreed
<1>1. F \in Nat \ {0} /\ S \in ID /\ S \in Int /\ K \in Int
      /\ w \in Int /\ th \in Int /\ v \in Int /\ SentinelWaiter = S * F /\ SentinelWaiter \in Int
  BY FieldType, WordSizeType DEF ID, SentinelWaiter, SentinelThief
<1>2. /\ Packed(g, w, v) \in 0 .. WordSize - 1
      /\ Packed(g, v, th) \in 0 .. WordSize - 1
      /\ Packed(1, w, th) \in 0 .. WordSize - 1
      /\ Packed(g, w, S) \in 0 .. WordSize - 1
      /\ Packed(g, S, th) \in 0 .. WordSize - 1
      /\ Packed(0, w, th) \in 0 .. WordSize - 1
  BY <1>1, Unpack
<1> HIDE DEF F, S, K
<1>3. /\ Packed(g, w, S) + (v - S) = Packed(g, w, v)
      /\ Packed(g, S, th) + (v * F - S * F) = Packed(g, v, th)
      /\ Packed(0, w, th) + K = Packed(1, w, th)
  <2>1. \A a, b, c : Packed(a, b, c) = a * K + b * F + c  BY DEF Packed, F, K
  <2>2. g * K \in Int /\ w * F \in Int /\ v * F \in Int /\ S * F \in Int  BY <1>1, SMT
  <2>3. 0 * K = 0 /\ 1 * K = K  BY <1>1, SMT
  <2> QED  BY <1>1, <2>1, <2>2, <2>3
<1>4. v - S \in Int /\ v * F - S * F \in Int  BY <1>1, SMT
<1>5. \A y \in 0 .. WordSize - 1 : y \in Int  BY WordSizeType
<1>6. fetchAdd(Packed(g, w, S), v - S) = Packed(g, w, v)  BY <1>2, <1>3, <1>4, <1>5, FetchAdd
<1>7. fetchAdd(Packed(g, S, th), v * F - S * F) = Packed(g, v, th)
  BY <1>2, <1>3, <1>4, <1>5, FetchAdd
<1>8. fetchAdd(Packed(0, w, th), K) = Packed(1, w, th)
  BY <1>1, <1>2, <1>3, <1>5, FetchAdd
<1> QED  BY <1>1, <1>6, <1>7, <1>8 DEF F, S, K
-----------------------------------------------------------------------------
(* The inductive invariant. *)

Done == rpc \in {"look", "wake", "gc", "none"}

\* The task is allocated while somebody works on it; without a future nobody awaits it, and
\* the runner frees it; with one, the waiter does.
Life ==
    /\ ~alive => rpc = "none" /\ wpc = "idle"
    /\ alive => IF hasFuture THEN wpc # "idle" ELSE wpc = "idle" /\ ~Done

\* What completed stands for, and what the waiter knows of it.
Result ==
    alive /\ hasFuture =>
        /\ completed = 1 <=> Done
        /\ Done \/ rpc = "ran" => result
        /\ wpc = "cleanup" => copied

\* The waiter may have announced itself; it does so once.
Announced == wpc \in {"wait", "cleanup"} \/ (wpc = "ready2" /\ completed = 1)

ThiefID == IF runner = waiter \/ rpc \in {"queued", "stolen"} THEN SentinelThief ELSE runner

\* A thief is another worker.
Thieves == rpc = "stolen" => runner # waiter

\* The three fields of the word: an announcement and a theft are added to the sentinels, and
\* the flag to a word where it is not set.
Word ==
    alive /\ hasFuture =>
        \E w \in {SentinelThief, waiter} :
            /\ ~Announced => w = SentinelThief
            /\ synchro = Packed(Flag(rpc = "none"), w, ThiefID)

IInv == TypeOK /\ Life /\ Result /\ Thieves /\ Word
LEMMA InitIInv == Init => IInv
<1> SUFFICES ASSUME Init PROVE IInv  OBVIOUS
<1>1. 0 \in Worker  BY FlowvarAssumption DEF Worker
<1>2. 0 \in 0 .. WordSize - 1  BY WordSizeType
<1>3. TypeOK  BY <1>1, <1>2 DEF Init, TypeOK
<1> QED  BY <1>3 DEF Init, IInv, Life, Result, Thieves, Word

\* The fields of the word of a task with a future.
LEMMA WordFields ==
    ASSUME IInv, alive, hasFuture
    PROVE  /\ thiefField(synchro) = ThiefID
           /\ waiterField(synchro) \in {SentinelWaiter, waiter * Field}
           /\ isGcReady(synchro) <=> rpc = "none"
<1>1. PICK w \in {SentinelThief, waiter} : synchro = Packed(Flag(rpc = "none"), w, ThiefID)
  BY DEF IInv, Word
<1>2. waiter \in ID /\ runner \in ID /\ SentinelThief \in ID  BY FieldType DEF IInv, TypeOK
<1>3. w \in ID /\ ThiefID \in ID  BY <1>2 DEF ThiefID
<1>4. Flag(rpc = "none") \in {0, 1} /\ (Flag(rpc = "none") = 1 <=> rpc = "none")  BY DEF Flag
<1>5. /\ thiefField(synchro) = ThiefID
      /\ waiterField(synchro) = w * Field
      /\ isGcReady(synchro) <=> Flag(rpc = "none") = 1
  BY <1>1, <1>3, <1>4, Unpack
<1>6. w * Field \in {SentinelWaiter, waiter * Field}  BY DEF SentinelWaiter, SentinelThief
<1> QED  BY <1>4, <1>5, <1>6

LEMMA StepTypeOK == TypeOK /\ [Next]_vars => TypeOK'
<1> SUFFICES ASSUME TypeOK, [Next]_vars PROVE TypeOK'  OBVIOUS
<1>1. synchro \in Int /\ \A w \in Worker : w \in Int  BY FieldType, WordSizeType DEF TypeOK, Worker
<1>2. Field \in Int /\ SentinelThief \in Int /\ SentinelWaiter \in Int /\ kCanBeFreed \in Int
  BY FieldType, WordSizeType DEF ID
<1>3. synchro' \in 0 .. WordSize - 1
  <2>1. CASE \E w \in Worker, future \in BOOLEAN : Spawn(w, future)
    <3>1. synchro' = SentinelWaiter + SentinelThief  BY <2>1 DEF Spawn
    <3>2. synchro' = Packed(0, SentinelThief, SentinelThief)
      <4>1. 0 * kCanBeFreed = 0  BY <1>2, SMT
      <4>2. SentinelThief * Field = SentinelWaiter  BY DEF SentinelWaiter, SentinelThief
      <4> QED  BY <1>2, <3>1, <4>1, <4>2 DEF Packed
    <3> QED  BY <3>2, FieldType, Unpack
  <2>2. CASE SetThief
    <3>1. runner - SentinelThief \in Int
      <4>1. runner \in Int  BY <1>1 DEF TypeOK
      <4> QED  BY <1>2, <4>1
    <3> QED  BY <1>1, <2>2, <3>1, FetchAdd DEF SetThief
  <2>3. CASE AnnounceWaiter
    <3>1. waiter * Field - SentinelWaiter \in Int
      <4>1. waiter \in Int  BY <1>1 DEF TypeOK
      <4>2. waiter * Field \in Int  BY <1>2, <4>1, SMT
      <4> QED  BY <1>2, <4>2
    <3> QED  BY <1>1, <2>3, <3>1, FetchAdd DEF AnnounceWaiter
  <2>4. CASE SetGcReady  BY <1>1, <1>2, <2>4, FetchAdd DEF SetGcReady
  <2>5. CASE UNCHANGED synchro  BY <2>5 DEF TypeOK
  <2> QED
    BY <2>1, <2>2, <2>3, <2>4, <2>5
    DEF Next, vars, Steal, RunnerStep, RunFn, RunFree, SetCompleted, LookForWaiter, WakeWaiter,
        Sync, WaiterStep, FutReady, PopOwn, PopNil, PopUnrelated, Leapfrog, Park, Unpark, Cleanup,
        ParkInterrupted
<1> HIDE DEF Worker
<1> QED
  <2> USE DEF TypeOK
  <2>1. CASE \E w \in Worker, future \in BOOLEAN : Spawn(w, future)  BY <1>3, <2>1 DEF Spawn
  <2>2. CASE \E w \in Worker : Steal(w)  BY <1>3, <2>2 DEF Steal
  <2>3. CASE SetThief \/ RunFn \/ RunFree \/ SetCompleted
    <3>1. CASE SetThief  BY <1>3, <3>1 DEF SetThief
    <3>2. CASE RunFn  BY <1>3, <3>2 DEF RunFn
    <3>3. CASE RunFree  BY <1>3, <3>3 DEF RunFree
    <3>4. CASE SetCompleted  BY <1>3, <3>4 DEF SetCompleted
    <3> QED  BY <2>3, <3>1, <3>2, <3>3, <3>4
  <2>4. CASE LookForWaiter \/ WakeWaiter \/ SetGcReady \/ Sync
    <3>1. CASE LookForWaiter  BY <1>3, <3>1 DEF LookForWaiter
    <3>2. CASE WakeWaiter  BY <1>3, <3>2 DEF WakeWaiter
    <3>3. CASE SetGcReady  BY <1>3, <3>3 DEF SetGcReady
    <3>4. CASE Sync  BY <1>3, <3>4 DEF Sync
    <3> QED  BY <2>4, <3>1, <3>2, <3>3, <3>4
  <2>5. CASE FutReady \/ PopOwn \/ PopNil \/ PopUnrelated
    BY <1>3, <2>5 DEF FutReady, PopOwn, PopNil, PopUnrelated
  <2>6. CASE Leapfrog \/ AnnounceWaiter
    BY <1>3, <2>6 DEF Leapfrog, AnnounceWaiter
  <2>8. CASE Park  BY <1>3, <2>8 DEF Park
  <2>9. CASE Unpark \/ Cleanup
    <3>1. CASE Unpark  BY <1>3, <3>1 DEF Unpark
    <3>2. CASE Cleanup  BY <1>3, <3>2, ZenonT(60) DEF Cleanup
    <3> QED  BY <2>9, <3>1, <3>2
  <2>10. CASE ParkInterrupted  BY <1>3, <2>10, ZenonT(60) DEF ParkInterrupted
  <2>7. CASE UNCHANGED vars  BY <2>7 DEF vars
  <2> QED
    BY <2>1, <2>2, <2>3, <2>4, <2>5, <2>6, <2>7, <2>8, <2>9, <2>10
    DEF Next, RunnerStep, WaiterStep

\* The memory passes from the runner to the waiter and is freed by the last of them.
LEMMA StepLife == IInv /\ [Next]_vars => Life' /\ Result' /\ Thieves'
<1> SUFFICES ASSUME IInv, [Next]_vars PROVE Life' /\ Result' /\ Thieves'  OBVIOUS
<1> USE DEF IInv, TypeOK, Life, Result, Thieves, Done
<1>1. CASE \E w \in Worker, future \in BOOLEAN : Spawn(w, future)  BY <1>1 DEF Spawn
<1>2. CASE \E w \in Worker : Steal(w)  BY <1>2 DEF Steal
<1>3. CASE SetThief \/ RunFn \/ RunFree \/ SetCompleted
  BY <1>3 DEF SetThief, RunFn, RunFree, SetCompleted
<1>4. CASE LookForWaiter \/ WakeWaiter  BY <1>4 DEF LookForWaiter, WakeWaiter
<1>10. CASE SetGcReady  BY <1>10 DEF SetGcReady
<1>11. CASE Sync  BY <1>11 DEF Sync
<1>5. CASE FutReady  BY <1>5 DEF FutReady
<1>6. CASE PopOwn \/ PopNil \/ PopUnrelated
  BY <1>6 DEF PopOwn, PopNil, PopUnrelated
<1>7. CASE Leapfrog \/ AnnounceWaiter \/ Park \/ Unpark \/ ParkInterrupted
  BY <1>7 DEF Leapfrog, AnnounceWaiter, Park, Unpark, ParkInterrupted
<1>8. CASE Cleanup
  <2>1. alive /\ hasFuture  BY <1>8 DEF Cleanup
  <2>2. rpc = "none"  BY <1>8, <2>1, WordFields DEF Cleanup
  <2> QED  BY <1>8, <2>2 DEF Cleanup
<1>9. CASE UNCHANGED vars  BY <1>9 DEF vars
<1> QED
  BY <1>1, <1>2, <1>3, <1>4, <1>5, <1>6, <1>7, <1>8, <1>9, <1>10, <1>11
  DEF Next, RunnerStep, WaiterStep

\* The fetchAdds change their own field only.
LEMMA StepWord == IInv /\ [Next]_vars => Word'
<1> SUFFICES ASSUME IInv, [Next]_vars, alive', hasFuture'
             PROVE  \E w \in {SentinelThief, waiter'} :
                       /\ ~Announced' => w = SentinelThief
                       /\ synchro' = Packed(Flag(rpc' = "none"), w, ThiefID')
  BY DEF Word
<1>1. waiter \in ID /\ runner \in ID /\ SentinelThief \in ID  BY FieldType DEF IInv, TypeOK
<1>2. CASE \E w \in Worker, future \in BOOLEAN : Spawn(w, future)
  <2>1. synchro' = SentinelWaiter + SentinelThief /\ rpc' = "queued"  BY <1>2 DEF Spawn
  <2>2. synchro' = Packed(0, SentinelThief, SentinelThief)
    <3>1. kCanBeFreed \in Int /\ SentinelThief \in Int /\ SentinelWaiter \in Int
      BY FieldType, WordSizeType DEF ID
    <3>2. 0 * kCanBeFreed = 0  BY <3>1, SMT
    <3>3. SentinelThief * Field = SentinelWaiter  BY DEF SentinelWaiter, SentinelThief
    <3> QED  BY <2>1, <3>1, <3>2, <3>3 DEF Packed
  <2>3. ThiefID' = SentinelThief /\ Flag(rpc' = "none") = 0  BY <2>1 DEF ThiefID, Flag
  <2> QED  BY <2>2, <2>3
<1>3. CASE alive /\ hasFuture /\ waiter' = waiter
  <2>1. PICK w \in {SentinelThief, waiter} :
           /\ ~Announced => w = SentinelThief
           /\ synchro = Packed(Flag(rpc = "none"), w, ThiefID)
    BY <1>3 DEF IInv, Word
  <2>2. w \in ID /\ ThiefID \in ID /\ Flag(rpc = "none") \in {0, 1}
    BY <1>1 DEF ThiefID, Flag
  <2>3. CASE SetThief
    <3>1. /\ synchro' = fetchAdd(synchro, runner - SentinelThief)
          /\ ThiefID = SentinelThief /\ ThiefID' = runner
          /\ (Announced' <=> Announced) /\ Flag(rpc' = "none") = Flag(rpc = "none")
      BY <2>3 DEF SetThief, ThiefID, Announced, Flag, IInv, Thieves
    <3>2. synchro' = Packed(Flag(rpc = "none"), w, runner)  BY <1>1, <2>1, <2>2, <3>1, PackedSteps
    <3> QED  BY <1>3, <2>1, <3>1, <3>2
  <2>4. CASE AnnounceWaiter
    <3>1. /\ synchro' = fetchAdd(synchro, waiter * Field - SentinelWaiter)
          /\ ThiefID' = ThiefID /\ Announced' /\ ~Announced /\ rpc' = rpc
      BY <2>4 DEF AnnounceWaiter, ThiefID, Announced
    <3>2. synchro' = Packed(Flag(rpc = "none"), waiter, ThiefID)
      BY <1>1, <2>1, <2>2, <3>1, PackedSteps
    <3> QED  BY <1>3, <3>1, <3>2
  <2>5. CASE SetGcReady
    <3>1. /\ synchro' = fetchAdd(synchro, kCanBeFreed)
          /\ Flag(rpc = "none") = 0 /\ Flag(rpc' = "none") = 1
          /\ ThiefID' = ThiefID /\ (Announced => Announced')
      BY <2>5 DEF SetGcReady, ThiefID, Announced, Flag
    <3>2. synchro' = Packed(1, w, ThiefID)  BY <1>1, <2>1, <2>2, <3>1, PackedSteps
    <3> QED  BY <1>3, <2>1, <3>1, <3>2
  <2>6. CASE UNCHANGED <<synchro, ThiefID>> /\ (Announced => Announced')
             /\ (rpc' = "none" <=> rpc = "none")
    BY <1>3, <2>1, <2>6 DEF Flag
  <2> USE DEF ThiefID, Announced
  <2>7. CASE \E v \in Worker : Steal(v)  BY <2>6, <2>7 DEF Steal
  <2>8. CASE RunFn \/ SetCompleted \/ LookForWaiter \/ WakeWaiter
    BY <2>6, <2>8 DEF RunFn, SetCompleted, LookForWaiter, WakeWaiter
  <2>9. CASE RunFree  BY <2>9, <1>3 DEF RunFree
  <2>10. CASE Sync \/ PopNil \/ PopUnrelated \/ Leapfrog
    BY <2>6, <2>10 DEF Sync, PopNil, PopUnrelated, Leapfrog
  <2>16. CASE FutReady  BY <2>6, <2>16 DEF FutReady, IInv, TypeOK
  <2>11. CASE PopOwn  BY <2>6, <2>11 DEF PopOwn
  <2>12. CASE Park \/ Unpark \/ ParkInterrupted
    BY <2>6, <2>12 DEF Park, Unpark, ParkInterrupted, IInv, TypeOK
  <2>13. CASE Cleanup  BY <2>13 DEF Cleanup
  <2>14. CASE UNCHANGED vars  BY <2>6, <2>14 DEF vars
  <2>15. ~ \E v \in Worker, future \in BOOLEAN : Spawn(v, future)  BY <1>3 DEF Spawn
  <2> HIDE DEF ThiefID, Announced
  <2> QED
    BY <2>3, <2>4, <2>5, <2>7, <2>8, <2>9, <2>10, <2>11, <2>12, <2>13, <2>14, <2>15, <2>16
    DEF Next, RunnerStep, WaiterStep
<1>4. (\E w \in Worker, future \in BOOLEAN : Spawn(w, future))
      \/ (alive /\ hasFuture /\ waiter' = waiter)
  BY DEF Next, vars, Steal, RunnerStep, SetThief, RunFn, RunFree, SetCompleted, LookForWaiter,
         WakeWaiter, SetGcReady, Sync, WaiterStep, FutReady, PopOwn, PopNil, PopUnrelated,
         Leapfrog, AnnounceWaiter, Park, Unpark, Cleanup, ParkInterrupted, IInv, Life
<1> QED  BY <1>2, <1>3, <1>4

LEMMA StepIInv == IInv /\ [Next]_vars => IInv'
BY StepTypeOK, StepLife, StepWord DEF IInv

LEMMA IInvHolds == Spec => []IInv
BY InitIInv, StepIInv, PTL DEF Spec

-----------------------------------------------------------------------------
(* Theorems. *)

\* Every variable keeps its type; the word of the task does not grow out of its width.
THEOREM TypeCorrect == Spec => []TypeOK
BY IInvHolds, PTL DEF IInv

\* The runner and the waiter are done with the memory of the task when it is freed, whatever
\* the order of setCompleted, the announcement, the wake, setGcReady and cleanup.
THEOREM MemorySafe == Spec => []NoUseAfterFree
<1>1. IInv => NoUseAfterFree  BY DEF IInv, Life, NoUseAfterFree
<1> QED  BY <1>1, IInvHolds, PTL

\* sync copies the result only after the runner has stored it.
THEOREM SyncHasResult == Spec => []SyncReturnsResult
<1>1. IInv => SyncReturnsResult  BY DEF IInv, Life, Result, SyncReturnsResult
<1> QED  BY <1>1, IInvHolds, PTL

\* For every width, the additions of setThief, sleepUntilComplete and setGcReady commute and
\* none carries into the field of another.
THEOREM FieldsApart == Spec => []SynchroFields
<1>1. IInv => SynchroFields  BY WordFields DEF SynchroFields, ThiefID
<1> QED  BY <1>1, IInvHolds, PTL
=============================================================================
