-------------------------- MODULE TaskqueueProofs --------------------------
(***************************************************************************)
(* Proofs about Taskqueue, for every number of tasks and thieves, every    *)
(* initial capacity and every length of the run.                           *)
(***************************************************************************)
EXTENDS Taskqueue, FiniteSetTheorems, SequenceTheorems, TLAPS

-----------------------------------------------------------------------------
(* Arithmetic: two indices closer than the capacity have different slots. *)

\* A positive multiple of c is at least c.
LEMMA NoSmallMultiple ==
    ASSUME NEW c \in Nat \ {0}, NEW q \in Int, 0 < c * q
    PROVE  c <= c * q
<1>1. q > 0
  <2>1. SUFFICES ASSUME q <= 0 PROVE c * q <= 0  OBVIOUS
  <2>2. QED BY <2>1, SMT
<1>2. q - 1 \in Nat  BY <1>1
<1>3. c * (q - 1) >= 0  BY <1>2, SMT
<1>4. c * q = c * (q - 1) + c  BY SMT
<1>5. QED  BY <1>3, <1>4

\* Division with remainder.
LEMMA DivMod ==
    ASSUME NEW c \in Nat \ {0}, NEW i \in Nat
    PROVE  /\ i = c * (i \div c) + (i % c)
           /\ i \div c \in Int
           /\ i % c \in 0 .. c - 1
BY SMT

\* Indices at a distance less than the capacity do not share a slot of the buffer.
LEMMA DistinctSlots ==
    ASSUME NEW c \in Nat \ {0}, NEW i \in Nat, NEW j \in Nat, i < j, j - i < c
    PROVE  i % c # j % c
<1> SUFFICES ASSUME i % c = j % c PROVE FALSE  OBVIOUS
<1> DEFINE a == i \div c
           b == j \div c
<1>1. i = c * a + (i % c) /\ a \in Int  BY DivMod
<1>2. j = c * b + (j % c) /\ b \in Int  BY DivMod
<1>3. i % c \in Int  BY DivMod
<1> HIDE DEF a, b
<1>4. j - i = c * b - c * a  BY <1>1, <1>2, <1>3, SMT
<1>5. c * b - c * a = c * (b - a)  BY <1>1, <1>2, SMT
<1>6. 0 < c * (b - a)  BY <1>4, <1>5
<1>7. c <= c * (b - a)  BY <1>1, <1>2, <1>6, NoSmallMultiple
<1>8. QED  BY <1>4, <1>5, <1>7

-----------------------------------------------------------------------------
(* Buffers. *)

Buffers == UNION {Buf(n) : n \in Nat \ {0}}

\* A buffer has a capacity and a slot for each index below it.
LEMMA BuffersType ==
    ASSUME NEW b \in Buffers
    PROVE  /\ b.capacity \in Nat \ {0}
           /\ b.raw \in [0 .. b.capacity - 1 -> Task \cup {Nil}]
           /\ b \in Buf(b.capacity)
<1>1. PICK n \in Nat \ {0} : b \in Buf(n)  BY DEF Buffers
<1>2. QED  BY <1>1 DEF Buf

\* newBuf returns a buffer of the capacity asked for.
LEMMA NewBufType ==
    ASSUME NEW n \in Nat \ {0}
    PROVE  newBuf(n) \in Buffers
<1>1. newBuf(n) \in Buf(n)  BY DEF newBuf, Buf
<1>2. QED  BY <1>1 DEF Buffers

\* Reading an entry of a buffer gives a task or nil.
LEMMA GetType ==
    ASSUME NEW b \in Buffers, NEW i \in Nat
    PROVE  get(b, i) \in Task \cup {Nil}
<1>1. b.capacity \in Nat \ {0} /\ b.raw \in [0 .. b.capacity - 1 -> Task \cup {Nil}]
  BY BuffersType
<1>2. i % b.capacity \in 0 .. b.capacity - 1  BY <1>1, DivMod
<1> QED  BY <1>1, <1>2 DEF get

\* The copy made by grow keeps every entry of the queue at its index.
LEMMA EnlargedCopies ==
    ASSUME NEW b \in Buffers, NEW first \in Nat, NEW last \in Nat,
           last - first <= b.capacity
    PROVE  LET e == Enlarged(b, first, last)
           IN  /\ e \in Buffers
               /\ e.capacity = 2 * b.capacity
               /\ \A i \in first .. last - 1 :
                     get(e, i) = get(b, i)
<1> DEFINE c == 2 * b.capacity
           At(j) == {i \in first .. last - 1 : i % c = j}
           raw == [j \in 0 .. c - 1 |->
                      IF At(j) = {} THEN Nil
                      ELSE get(b, CHOOSE i \in At(j) : TRUE)]
           e == Enlarged(b, first, last)
<1>1. b.capacity \in Nat \ {0} /\ b.raw \in [0 .. b.capacity - 1 -> Task \cup {Nil}]
  BY BuffersType
<1>2. c \in Nat \ {0}  BY <1>1
<1>3. e = [capacity |-> c, raw |-> raw]
  BY DEF Enlarged
<1>4. \A j \in 0 .. c - 1 : raw[j] \in Task \cup {Nil}
  <2> SUFFICES ASSUME NEW j \in 0 .. c - 1, At(j) # {} PROVE raw[j] \in Task \cup {Nil}
    OBVIOUS
  <2> DEFINE k == CHOOSE i \in At(j) : TRUE
  <2>1. k \in At(j)  OBVIOUS
  <2>2. k \in Nat  BY <2>1
  <2>3. get(b, k) \in Task \cup {Nil}  BY <2>2, GetType
  <2>4. raw[j] = get(b, k)  OBVIOUS
  <2> HIDE DEF k, raw
  <2> QED  BY <2>3, <2>4
<1>5. raw \in [0 .. c - 1 -> Task \cup {Nil}]
  <2> DEFINE val(j) == IF At(j) = {} THEN Nil
                       ELSE get(b, CHOOSE i \in At(j) : TRUE)
  <2>1. \A j \in 0 .. c - 1 : val(j) \in Task \cup {Nil}  BY <1>4
  <2> HIDE DEF val
  <2>2. [j \in 0 .. c - 1 |-> val(j)] \in [0 .. c - 1 -> Task \cup {Nil}]  BY <2>1
  <2> QED  BY <2>2 DEF val
<1>6. e \in Buf(c)
  <2> HIDE DEF raw, c
  <2> QED  BY <1>3, <1>5 DEF Buf
<1>7. e \in Buffers  BY <1>2, <1>6 DEF Buffers
<1>8. ASSUME NEW i \in first .. last - 1
      PROVE  raw[i % c] = get(b, i)
  <2> DEFINE j == i % c
             k == CHOOSE x \in At(j) : TRUE
  <2>1. j \in 0 .. c - 1
    <3>1. i \in Nat  OBVIOUS
    <3> HIDE DEF c
    <3> QED  BY <3>1, <1>2, DivMod
  <2>2. i \in At(j)  OBVIOUS
  <2>3. k \in At(j)  BY <2>2
  <2>4. k \in first .. last - 1 /\ k % c = i % c  BY <2>3
  <2>5. raw[j] = get(b, k)  BY <2>1, <2>2
  <2>6. k = i
    <3> HIDE DEF k
    <3>1. i \in Nat /\ k \in Nat /\ i - k < c /\ k - i < c  BY <2>4, <1>1
    <3>2. ~(i < k)  BY <3>1, <2>4, <1>2, DistinctSlots
    <3>3. ~(k < i)  BY <3>1, <2>4, <1>2, DistinctSlots
    <3> QED  BY <3>1, <3>2, <3>3
  <2> QED  BY <2>5, <2>6
<1>9. QED
  <2> HIDE DEF raw
  <2>1. e.capacity = c /\ e.raw = raw  BY <1>3
  <2> QED  BY <1>7, <1>8, <2>1 DEF get

\* Storing an entry keeps the capacity and the entries of the other slots.
LEMMA PutEffect ==
    ASSUME NEW b \in Buffers, NEW k \in Nat, NEW t \in Task \cup {Nil}
    PROVE  /\ put(b, k, t) \in Buffers
           /\ put(b, k, t).capacity = b.capacity
           /\ get(put(b, k, t), k) = t
           /\ \A i \in Nat : i % b.capacity # k % b.capacity
                 => get(put(b, k, t), i) = get(b, i)
<1>1. b.capacity \in Nat \ {0} /\ b.raw \in [0 .. b.capacity - 1 -> Task \cup {Nil}]
  BY BuffersType
<1>2. \A i \in Nat : i % b.capacity \in 0 .. b.capacity - 1  BY <1>1, DivMod
<1>3. put(b, k, t) \in Buf(b.capacity)  BY <1>1 DEF Buf, put
<1>4. put(b, k, t) \in Buffers  BY <1>1, <1>3 DEF Buffers
<1> QED  BY <1>1, <1>2, <1>4 DEF put, get

-----------------------------------------------------------------------------
(***************************************************************************)
(* The inductive invariant.                                                *)
(***************************************************************************)

\* Types.  The content of the queue is needed for them: a slot may hold nil, what a
\* worker takes from the queue may not.
Types ==
    /\ front \in Nat
    /\ back \in Int
    /\ bufs \in Seq(Buffers)
    /\ buf \in 0 .. Len(bufs)
    /\ Len(bufs) > 0
    /\ garbage \subseteq 1 .. Len(bufs)
    /\ opc \in {"idle", "push_grow", "push_collect", "push_store", "push_publish",
                "pop_front", "pop_cas", "pop_restore", "pop_collect", "down"}
    /\ of \in Nat
    /\ item \in Task \cup {Nil}
    /\ tpc \in [Thief -> {"idle", "steal_back", "steal_buf", "steal_read", "steal_cas",
                          "steal_mark"}]
    /\ tf \in [Thief -> Nat]
    /\ ta \in [Thief -> 1 .. Len(bufs)]
    /\ tr \in [Thief -> Task \cup {Nil}]
    /\ held \in [Worker -> SUBSET Task]
    /\ thiefID \in [Task -> Thief \cup {Nil}]

\* Where front and back are, depending on where the owner is.
Indices ==
    /\ front <= AbsBack
    /\ buf = 0 <=> opc = "down"
    /\ opc # "down" => AbsBack - front <= capacity
    /\ opc = "down" => front = back
    /\ opc = "push_grow" => of <= front /\ back - of = capacity
    /\ opc \in {"push_collect", "pop_collect"} => front = back
    /\ opc \in {"push_collect", "push_store", "push_publish"} => back - front < capacity
    /\ opc = "pop_cas" => of = back /\ back <= front
    /\ opc = "pop_restore" => front = back + 1

\* The entries of the queue, and the task in the owner's hands, are tasks.
Content ==
    /\ \A i \in front .. AbsBack - 1 : Slot(buf, i) \in Task
    /\ opc \in {"push_grow", "push_collect", "push_store", "push_publish", "pop_cas"}
          => item \in Task
    /\ opc = "push_publish" => Slot(buf, back) = item

\* A thief whose front is still current sees a queue that is not empty and reads the
\* front entry, in the current buffer or in a retired one.
Thieves ==
    \A th \in Thief :
        /\ tpc[th] # "idle" => opc # "down"
        /\ tpc[th] \in {"steal_back", "steal_buf", "steal_read", "steal_cas"} => tf[th] <= front
        /\ tpc[th] \in {"steal_buf", "steal_read", "steal_cas"} /\ tf[th] = front
              => front < AbsBack
        /\ tpc[th] = "steal_read" /\ tf[th] = front
              => Live(ta[th]) /\ Slot(ta[th], front) = Slot(buf, front)
        /\ tpc[th] = "steal_cas" /\ tf[th] = front => tr[th] = Slot(buf, front)
        /\ tpc[th] = "steal_mark" => tr[th] \in Task

IInv == Types /\ Indices /\ Content /\ Thieves

\* The invariant holds in the state init leaves.
LEMMA InitIInv == Init => IInv
<1> SUFFICES ASSUME Init PROVE IInv  OBVIOUS
<1>1. newBuf(InitialCapacity) \in Buffers /\ newBuf(InitialCapacity).capacity \in Nat \ {0}
  BY TaskqueueAssumption, NewBufType DEF newBuf
<1>2. Types  BY <1>1, TaskqueueAssumption DEF Init, Types, Worker
<1>3. Indices  BY <1>1 DEF Init, Indices, AbsBack, capacity
<1>4. Content  BY DEF Init, Content, AbsBack
<1>5. Thieves  BY DEF Init, Thieves
<1> QED  BY <1>2, <1>3, <1>4, <1>5 DEF IInv

\* What grow does: the new buffer holds the entries of the queue, and the old ones are
\* as they were.
LEMMA GrowEffect ==
    ASSUME IInv, Grow
    PROVE  /\ buf \in 1 .. Len(bufs) /\ capacity \in Nat \ {0}
           /\ of <= front /\ front <= back /\ back - of = capacity /\ back \in Nat
           /\ bufs' \in Seq(Buffers)
           /\ Len(bufs') = Len(bufs) + 1 /\ buf' = Len(bufs) + 1
           /\ capacity' = 2 * capacity
           /\ \A i \in front .. back - 1 : Slot(buf, i)' = Slot(buf, i)
           /\ \A x \in 1 .. Len(bufs), i \in Nat : Slot(x, i)' = Slot(x, i)
<1> USE DEF IInv
<1> DEFINE e == Enlarged(bufs[buf], of, back)
<1>1. buf \in 1 .. Len(bufs) /\ bufs[buf] \in Buffers /\ capacity \in Nat \ {0}
  BY BuffersType DEF Types, Indices, Grow, capacity
<1>2. of <= front /\ front <= back /\ back - of = capacity /\ back \in Nat
  BY <1>1 DEF Types, Indices, Grow, AbsBack
<1>3. /\ e \in Buffers
      /\ e.capacity = 2 * capacity
      /\ \A i \in of .. back - 1 : get(e, i) = get(bufs[buf], i)
  <2>1. of \in Nat /\ back - of <= bufs[buf].capacity
    BY <1>1, <1>2 DEF Types, capacity
  <2> QED  BY <1>1, <1>2, <2>1, EnlargedCopies DEF capacity
<1> HIDE DEF e
<1>4. bufs' = Append(bufs, e) /\ buf' = Len(bufs) + 1  BY DEF Grow, e
<1>5. /\ bufs' \in Seq(Buffers)
      /\ Len(bufs') = Len(bufs) + 1
      /\ bufs'[buf'] = e
      /\ \A x \in 1 .. Len(bufs) : bufs'[x] = bufs[x]
  BY <1>3, <1>4 DEF Types
<1>6. \A i \in front .. back - 1 : Slot(buf, i)' = Slot(buf, i)
  BY <1>2, <1>3, <1>5 DEF Slot, Types
<1>7. \A x \in 1 .. Len(bufs), i \in Nat : Slot(x, i)' = Slot(x, i)
  BY <1>5 DEF Slot
<1>8. capacity' = 2 * capacity  BY <1>3, <1>5 DEF capacity
<1> QED  BY <1>1, <1>2, <1>4, <1>5, <1>6, <1>7, <1>8

\* What the store of push does: the entry behind the last is the task, no entry of the
\* queue changes in any buffer.
LEMMA StoreEffect ==
    ASSUME IInv, StoreItem
    PROVE  /\ buf \in 1 .. Len(bufs) /\ capacity \in Nat \ {0}
           /\ front <= back /\ back - front < capacity /\ back \in Nat /\ item \in Task
           /\ bufs' \in Seq(Buffers)
           /\ Len(bufs') = Len(bufs) /\ buf' = buf
           /\ capacity' = capacity
           /\ \A x \in 1 .. Len(bufs), i \in front .. back - 1 : Slot(x, i)' = Slot(x, i)
           /\ \A i \in front .. back - 1 : Slot(buf, i)' = Slot(buf, i)
           /\ Slot(buf, back)' = item
<1> USE DEF IInv
<1> DEFINE new == put(bufs[buf], back, item)
<1>1. buf \in 1 .. Len(bufs) /\ bufs[buf] \in Buffers /\ capacity \in Nat \ {0}
  BY BuffersType DEF Types, Indices, StoreItem, capacity
<1>2. front <= back /\ back - front < capacity /\ back \in Nat /\ item \in Task
  BY <1>1 DEF Types, Indices, Content, StoreItem, AbsBack
<1>3. /\ new \in Buffers
      /\ new.capacity = capacity
      /\ get(new, back) = item
      /\ \A i \in Nat : i % capacity # back % capacity => get(new, i) = get(bufs[buf], i)
  <2>1. item \in Task \cup {Nil}  BY <1>2
  <2> QED  BY <1>1, <1>2, <2>1, PutEffect, SMTT(30) DEF capacity
<1> HIDE DEF new
<1>4. bufs' = [bufs EXCEPT ![buf] = new] /\ buf' = buf  BY DEF StoreItem, new
<1>5. /\ bufs' \in Seq(Buffers)
      /\ Len(bufs') = Len(bufs)
      /\ bufs'[buf] = new
      /\ \A x \in 1 .. Len(bufs) : x # buf => bufs'[x] = bufs[x]
  BY <1>1, <1>3, <1>4 DEF Types
<1>6. \A i \in front .. back - 1 : get(new, i) = get(bufs[buf], i)
  <2> SUFFICES ASSUME NEW i \in front .. back - 1
               PROVE  get(new, i) = get(bufs[buf], i)
    OBVIOUS
  <2>1. i \in Nat /\ i < back /\ back - i < capacity  BY <1>1, <1>2 DEF Types
  <2>2. i % capacity # back % capacity  BY <1>1, <1>2, <2>1, DistinctSlots
  <2> QED  BY <1>3, <2>1, <2>2
<1>7. \A x \in 1 .. Len(bufs), i \in front .. back - 1 : Slot(x, i)' = Slot(x, i)
  BY <1>5, <1>6 DEF Slot
<1>8. \A i \in front .. back - 1 : Slot(buf, i)' = Slot(buf, i)
  BY <1>1, <1>4, <1>5, <1>6 DEF Slot
<1>9. Slot(buf, back)' = item
  BY <1>3, <1>4, <1>5 DEF Slot, StoreItem
<1>10. capacity' = capacity  BY <1>3, <1>4, <1>5 DEF capacity
<1> QED  BY <1>1, <1>2, <1>4, <1>5, <1>7, <1>8, <1>9, <1>10

\* Every step of the owner and of a thief keeps the invariant.
LEMMA StepIInv == IInv /\ [Next]_vars => IInv'
<1> SUFFICES ASSUME IInv, [Next]_vars PROVE IInv'  OBVIOUS
<1> USE TaskqueueAssumption DEF IInv
<1>0. /\ Len(bufs) \in Nat /\ 1 \in 1 .. Len(bufs)
      /\ opc # "down" => buf \in 1 .. Len(bufs) /\ capacity \in Nat \ {0}
  BY BuffersType DEF Types, Indices, capacity
<1>a. ASSUME buf' = buf, bufs' = bufs PROVE capacity' = capacity
  BY <1>a DEF capacity
<1>b. ASSUME UNCHANGED <<front, back, buf, bufs, ownerVars>> PROVE Indices' /\ Content'
  BY <1>b DEF Indices, Content, AbsBack, capacity, Slot, ownerVars
<1>1. ASSUME NEW t \in Task, Push(t) PROVE IInv'
  <2>1. Types'  BY <1>1 DEF Types, Push, thiefVars, Worker
  <2>2. Indices'
    <3>1. /\ front \in Nat /\ back \in Int /\ capacity \in Nat \ {0}
          /\ front <= back /\ back - front <= capacity /\ buf # 0
      BY <1>0, <1>1 DEF Types, Indices, Push, AbsBack
    <3>2. /\ capacity' = capacity /\ of' = front
          /\ UNCHANGED <<front, back, buf>>
          /\ \/ opc' = "push_grow" /\ back - front > capacity - 1
             \/ opc' = "push_collect" /\ front = back /\ ~(back - front > capacity - 1)
             \/ opc' = "push_store" /\ ~(back - front > capacity - 1)
      BY <1>a, <1>1 DEF Push
    <3> QED  BY <3>1, <3>2 DEF Indices, AbsBack
  <2>3. Content'  BY <1>1 DEF Types, Indices, Content, Push, AbsBack, Slot
  <2>4. Thieves'  BY <1>1 DEF Types, Indices, Thieves, Push, thiefVars, AbsBack, Slot, Live
  <2> QED  BY <2>1, <2>2, <2>3, <2>4
<1>2. ASSUME PushCollect PROVE IInv'
  <2>1. Types'  BY <1>2 DEF Types, PushCollect, thiefVars
  <2>2. Indices'  BY <1>0, <1>a, <1>2 DEF Types, Indices, PushCollect, AbsBack
  <2>3. Content'  BY <1>2 DEF Types, Indices, Content, PushCollect, AbsBack, Slot
  <2>4. Thieves'  BY <1>2 DEF Types, Indices, Thieves, PushCollect, thiefVars, AbsBack, Slot, Live
  <2> QED  BY <2>1, <2>2, <2>3, <2>4
<1>3. ASSUME PublishBack PROVE IInv'
  <2>1. Types'  BY <1>3 DEF Types, PublishBack, thiefVars
  <2>2. Indices'  BY <1>0, <1>a, <1>3 DEF Types, Indices, PublishBack, AbsBack
  <2>3. Content'  BY <1>3 DEF Types, Indices, Content, PublishBack, AbsBack, Slot
  <2>4. Thieves'  BY <1>3 DEF Types, Indices, Thieves, PublishBack, thiefVars, AbsBack, Slot, Live
  <2> QED  BY <2>1, <2>2, <2>3, <2>4
<1>4. ASSUME Pop PROVE IInv'
  <2>1. Types'  BY <1>4 DEF Types, Pop, thiefVars
  <2>2. Indices'  BY <1>0, <1>a, <1>4 DEF Types, Indices, Pop, AbsBack
  <2>3. Content'  BY <1>4 DEF Types, Indices, Content, Pop, AbsBack, Slot
  <2>4. Thieves'  BY <1>4 DEF Types, Indices, Thieves, Pop, thiefVars, AbsBack, Slot, Live
  <2> QED  BY <2>1, <2>2, <2>3, <2>4
<1>5. ASSUME PopLoadFront PROVE IInv'
  <2>0. front <= back => Slot(buf, back) \in Task
    BY <1>5 DEF Types, Content, PopLoadFront, AbsBack
  <2>1. Types'  BY <1>5, <2>0 DEF Types, PopLoadFront, thiefVars, Worker
  <2>2. Indices'  BY <1>0, <1>a, <1>5 DEF Types, Indices, PopLoadFront, AbsBack
  <2>3. Content'  BY <1>5 DEF Types, Indices, Content, PopLoadFront, AbsBack, Slot
  <2>4. Thieves'  BY <1>5 DEF Types, Indices, Thieves, PopLoadFront, thiefVars, AbsBack, Slot, Live
  <2> QED  BY <2>1, <2>2, <2>3, <2>4
<1>6. ASSUME PopCas PROVE IInv'
  <2>0. item \in Task  BY <1>6 DEF Content, PopCas
  <2>1. Types'  BY <1>6, <2>0 DEF Types, PopCas, thiefVars, Worker
  <2>2. Indices'  BY <1>0, <1>a, <1>6 DEF Types, Indices, PopCas, AbsBack
  <2>3. Content'  BY <1>6 DEF Types, Indices, Content, PopCas, AbsBack, Slot
  <2>4. Thieves'  BY <1>6 DEF Types, Indices, Thieves, PopCas, thiefVars, AbsBack, Slot, Live
  <2> QED  BY <2>1, <2>2, <2>3, <2>4
<1>7. ASSUME PopRestore PROVE IInv'
  <2>1. Types'  BY <1>7 DEF Types, PopRestore, thiefVars
  <2>2. Indices'  BY <1>0, <1>a, <1>7 DEF Types, Indices, PopRestore, AbsBack
  <2>3. Content'  BY <1>7 DEF Types, Indices, Content, PopRestore, AbsBack, Slot
  <2>4. Thieves'  BY <1>7 DEF Types, Indices, Thieves, PopRestore, thiefVars, AbsBack, Slot, Live
  <2> QED  BY <2>1, <2>2, <2>3, <2>4
<1>8. ASSUME PopCollect PROVE IInv'
  <2>1. Types'  BY <1>8 DEF Types, PopCollect, thiefVars
  <2>2. Indices'  BY <1>0, <1>a, <1>8 DEF Types, Indices, PopCollect, AbsBack
  <2>3. Content'  BY <1>8 DEF Types, Indices, Content, PopCollect, AbsBack, Slot
  <2>4. Thieves'  BY <1>8 DEF Types, Indices, Thieves, PopCollect, thiefVars, AbsBack, Slot, Live
  <2> QED  BY <2>1, <2>2, <2>3, <2>4
<1>9. ASSUME NEW th \in Thief, StealFront(th) PROVE IInv'
  <2>1. Types'  BY <1>0, <1>9 DEF Types, StealFront, ownerVars
  <2>2. Indices' /\ Content'  BY <1>b, <1>9 DEF StealFront
  <2>3. Thieves'  BY <1>9 DEF Types, Indices, Thieves, StealFront, ownerVars, AbsBack, Slot, Live
  <2> QED  BY <2>1, <2>2, <2>3
<1>10. ASSUME NEW th \in Thief, StealBack(th) PROVE IInv'
  <2>1. Types'
    <3>1. CASE tpc' = [tpc EXCEPT ![th] = "steal_buf"] /\ UNCHANGED <<tf, ta, tr>>
      BY <1>10, <3>1 DEF Types, StealBack, ownerVars
    <3>2. CASE StealReturns(th)
      BY <1>0, <1>10, <3>2 DEF Types, StealBack, ownerVars, StealReturns
    <3> QED  BY <1>10, <3>1, <3>2 DEF StealBack
  <2>2. Indices' /\ Content'  BY <1>b, <1>10 DEF StealBack
  <2>3. Thieves'  BY <1>10 DEF Types, Indices, Thieves, StealBack, ownerVars, AbsBack, Slot, Live, StealReturns
  <2> QED  BY <2>1, <2>2, <2>3
<1>11. ASSUME NEW th \in Thief, StealBuf(th) PROVE IInv'
  <2>1. Types'  BY <1>0, <1>11 DEF Types, StealBuf, ownerVars, Thieves
  <2>2. Indices' /\ Content'  BY <1>b, <1>11 DEF StealBuf
  <2>3. Thieves'  BY <1>11 DEF Types, Indices, Thieves, StealBuf, ownerVars, AbsBack, Slot, Live
  <2> QED  BY <2>1, <2>2, <2>3
<1>12. ASSUME NEW th \in Thief, StealRead(th) PROVE IInv'
  <2>0. Slot(ta[th], tf[th]) \in Task \cup {Nil}
    <3>1. bufs[ta[th]] \in Buffers /\ tf[th] \in Nat  BY DEF Types
    <3> QED  BY <3>1, GetType DEF Slot
  <2>1. Types'  BY <1>0, <1>12, <2>0 DEF Types, StealRead, ownerVars
  <2>2. Indices' /\ Content'  BY <1>b, <1>12 DEF StealRead
  <2>3. Thieves'  BY <1>12 DEF Types, Indices, Thieves, StealRead, ownerVars, AbsBack, Slot, Live
  <2> QED  BY <2>1, <2>2, <2>3
<1>13. ASSUME NEW th \in Thief, StealCas(th) PROVE IInv'
  <2>1. CASE front = tf[th]
    <3>1. front < AbsBack /\ tr[th] \in Task
      BY <1>13, <2>1 DEF Types, Thieves, Content, AbsBack, StealCas
    <3>2. /\ front' = front + 1
          /\ held' = [held EXCEPT ![th] = @ \cup {tr[th]}]
          /\ tpc' = [tpc EXCEPT ![th] = "steal_mark"]
          /\ UNCHANGED <<tf, ta, tr, back, buf, bufs, garbage, ownerVars, thiefID>>
      BY <1>13, <2>1 DEF StealCas
    <3>3. Types'  BY <3>1, <3>2 DEF Types, ownerVars, Worker
    <3>4. Indices'  BY <1>0, <1>a, <3>1, <3>2 DEF Types, Indices, ownerVars, AbsBack
    <3>5. Content'  BY <3>1, <3>2 DEF Types, Content, ownerVars, AbsBack, Slot
    <3>6. Thieves'
      <4>1. ASSUME NEW u \in Thief, u # th
            PROVE  tpc'[u] = tpc[u] /\ tf'[u] = tf[u] /\ tf[u] \in Nat /\ tr'[u] = tr[u]
        BY <3>2, <4>1 DEF Types
      <4>2. tpc'[th] = "steal_mark" /\ tr'[th] \in Task  BY <3>1, <3>2 DEF Types
      <4>3. opc' = opc /\ front' = front + 1 /\ front \in Nat /\ opc # "down"
        BY <1>13, <3>2 DEF Types, Thieves, StealCas, ownerVars
      <4> QED  BY <4>1, <4>2, <4>3 DEF Thieves
    <3> QED  BY <3>3, <3>4, <3>5, <3>6
  <2>2. CASE front # tf[th]
    <3>1. StealReturns(th) /\ UNCHANGED <<front, held, back, buf, bufs, garbage, ownerVars, thiefID>>
      BY <1>13, <2>2 DEF StealCas
    <3>2. Types'  BY <1>0, <3>1 DEF Types, ownerVars, StealReturns
    <3>3. Indices' /\ Content'  BY <1>b, <3>1
    <3>4. Thieves'
      BY <3>1 DEF Types, Thieves, ownerVars, AbsBack, Slot, Live, StealReturns
    <3> QED  BY <3>2, <3>3, <3>4
  <2> QED  BY <2>1, <2>2
<1>14. ASSUME NEW th \in Thief, StealSetThief(th) PROVE IInv'
  <2>1. Types'  BY <1>0, <1>14 DEF Types, StealSetThief, ownerVars, Thieves, StealReturns
  <2>2. Indices' /\ Content'  BY <1>b, <1>14 DEF StealSetThief
  <2>3. Thieves'  BY <1>14 DEF Types, Indices, Thieves, StealSetThief, ownerVars, AbsBack, Slot, Live, StealReturns
  <2> QED  BY <2>1, <2>2, <2>3
<1>15. ASSUME NEW th \in Thief, NEW t \in Task, Recycle(th, t) PROVE IInv'
  <2>1. Types'  BY <1>0, <1>15 DEF Types, Recycle, ownerVars, thiefVars, Worker
  <2>2. Indices' /\ Content'  BY <1>b, <1>15 DEF Recycle
  <2>3. Thieves'  BY <1>15 DEF Types, Indices, Thieves, Recycle, ownerVars, AbsBack, Slot, Live, thiefVars
  <2> QED  BY <2>1, <2>2, <2>3
<1>16. ASSUME Teardown PROVE IInv'
  <2>1. Types'  BY <1>16 DEF Types, Teardown, thiefVars
  <2>2. Indices'  BY <1>0, <1>a, <1>16 DEF Types, Indices, Teardown, AbsBack
  <2>3. Content'  BY <1>16 DEF Types, Indices, Content, Teardown, AbsBack, Slot
  <2>4. Thieves'  BY <1>16 DEF Types, Indices, Thieves, Teardown, thiefVars, AbsBack, Slot, Live
  <2> QED  BY <2>1, <2>2, <2>3, <2>4
<1>17. ASSUME Grow PROVE IInv'
  <2>1. Types'
    <3>1. garbage' \subseteq 1 .. Len(bufs')  BY <1>0, <1>17, GrowEffect DEF Types, Grow
    <3>2. ta' \in [Thief -> 1 .. Len(bufs')]
      BY <1>0, <1>17, GrowEffect DEF Types, Grow, thiefVars
    <3>3. buf' \in 0 .. Len(bufs') /\ Len(bufs') > 0  BY <1>0, <1>17, GrowEffect
    <3> QED  BY <1>17, <3>1, <3>2, <3>3, GrowEffect DEF Types, Grow, thiefVars
  <2>2. Indices'
    BY <1>0, <1>17, GrowEffect, SMTT(30) DEF Types, Indices, Grow, AbsBack
  <2>3. Content'
    BY <1>17, GrowEffect DEF Types, Indices, Content, Grow, AbsBack
  <2>4. Thieves'
    <3> SUFFICES ASSUME NEW th \in Thief
                 PROVE  /\ tpc[th] # "idle" => opc' # "down"
                        /\ tpc[th] \in {"steal_back", "steal_buf", "steal_read", "steal_cas"}
                              => tf[th] <= front
                        /\ tpc[th] \in {"steal_buf", "steal_read", "steal_cas"} /\ tf[th] = front
                              => front < AbsBack'
                        /\ tpc[th] = "steal_read" /\ tf[th] = front
                              => Live(ta[th])' /\ Slot(ta[th], front)' = Slot(buf, front)'
                        /\ tpc[th] = "steal_cas" /\ tf[th] = front => tr[th] = Slot(buf, front)'
                        /\ tpc[th] = "steal_mark" => tr[th] \in Task
      BY <1>17 DEF Thieves, Grow, thiefVars
    <3>1. AbsBack' = AbsBack /\ AbsBack = back  BY <1>17 DEF Grow, AbsBack
    <3>2. ta[th] \in 1 .. Len(bufs)  BY DEF Types
    <3>3. Live(ta[th]) => Live(ta[th])'  BY <1>17 DEF Grow, Live, thiefVars
    <3>4. front < AbsBack => Slot(buf, front)' = Slot(buf, front)
      <4>1. front' = front  BY <1>17 DEF Grow
      <4> QED  BY <1>17, GrowEffect, <3>1, <4>1 DEF Types
    <3>5. Slot(ta[th], front)' = Slot(ta[th], front)
      <4>1. front' = front /\ ta' = ta  BY <1>17 DEF Grow, thiefVars
      <4> QED  BY <1>17, GrowEffect, <3>2, <4>1 DEF Types
    <3> QED  BY <1>17, <3>1, <3>3, <3>4, <3>5 DEF Thieves, Grow
  <2> QED  BY <2>1, <2>2, <2>3, <2>4
<1>18. ASSUME StoreItem PROVE IInv'
  <2>1. Types'
    BY <1>18, StoreEffect DEF Types, StoreItem, ownerVars, thiefVars
  <2>2. Indices'
    BY <1>18, StoreEffect DEF Types, Indices, StoreItem, AbsBack
  <2>3. Content'
    BY <1>18, StoreEffect DEF Types, Indices, Content, StoreItem, AbsBack
  <2>4. Thieves'
    <3>1. ASSUME NEW th \in Thief, front < back
          PROVE  /\ Slot(ta[th], front)' = Slot(ta[th], front)
                 /\ Slot(buf, front)' = Slot(buf, front)
      <4>1. ta[th] \in 1 .. Len(bufs) /\ front \in front .. back - 1
        BY <1>18, StoreEffect, <3>1 DEF Types
      <4>2. front' = front /\ ta' = ta /\ buf' = buf  BY <1>18 DEF StoreItem, thiefVars
      <4> QED  BY <1>18, StoreEffect, <4>1, <4>2
    <3>2. AbsBack' = AbsBack /\ AbsBack = back  BY <1>18 DEF StoreItem, AbsBack
    <3> QED  BY <1>18, <3>1, <3>2 DEF Types, Thieves, StoreItem, thiefVars, Live
  <2> QED  BY <2>1, <2>2, <2>3, <2>4
<1>19. CASE UNCHANGED vars
  BY <1>19 DEF vars, ownerVars, thiefVars, Types, Indices, Content, Thieves, AbsBack, capacity,
               Slot, Live
<1> QED
  BY <1>1, <1>2, <1>3, <1>4, <1>5, <1>6, <1>7, <1>8, <1>9, <1>10, <1>11, <1>12, <1>13,
     <1>14, <1>15, <1>16, <1>17, <1>18, <1>19
  DEF Next, OwnerStep, ThiefStep

-----------------------------------------------------------------------------
(* Theorems. *)

\* The invariant is an invariant.
LEMMA IInvHolds == Spec => []IInv
BY InitIInv, StepIInv, PTL DEF Spec

\* Every variable of the queue keeps its type; in particular pop and a successful
\* steal never return nil as a task.
THEOREM TypeCorrect == Spec => []TypeOK
<1>1. IInv => TypeOK
  <2> SUFFICES ASSUME IInv PROVE TypeOK  OBVIOUS
  <2>1. \A a \in 1 .. Len(bufs) : /\ bufs[a].capacity \in Nat \ {0}
                                 /\ bufs[a] \in Buf(bufs[a].capacity)
    BY BuffersType DEF IInv, Types
  <2> QED  BY <2>1 DEF IInv, Types, TypeOK
<1> QED  BY <1>1, IInvHolds, PTL

\* garbageCollect is only ever called on an empty queue.
THEOREM CollectSafe == Spec => []CollectsOnlyWhenEmpty
<1>1. IInv => CollectsOnlyWhenEmpty  BY DEF IInv, Indices, CollectsOnlyWhenEmpty
<1> QED  BY <1>1, IInvHolds, PTL

\* A thief that reads a buffer freed under it cannot win its compareExchange, so what
\* it read is discarded: freeing retired buffers on an empty queue never leaks a
\* stale task to a thief.
THEOREM StaleReadsHarmless == Spec => []StaleReadsLose
<1>1. IInv => StaleReadsLose  BY DEF IInv, Types, Thieves, StaleReadsLose
<1> QED  BY <1>1, IInvHolds, PTL

\* A thief that wins its compareExchange returns the task at the front of the queue.
THEOREM StealTakesHead == Spec => []StealReadsHead
<1>1. IInv => StealReadsHead
  <2> SUFFICES ASSUME IInv, NEW th \in Thief, tpc[th] = "steal_cas", front = tf[th]
               PROVE  Queue # << >> /\ tr[th] = Queue[1]
    BY DEF StealReadsHead
  <2>1. front < AbsBack /\ tr[th] = Slot(buf, front)  BY DEF IInv, Thieves
  <2>2. front \in Nat /\ AbsBack \in Int  BY DEF IInv, Types, AbsBack
  <2>3. 1 \in DOMAIN Queue  BY <2>1, <2>2 DEF Queue
  <2>4. Queue[1] = Slot(buf, front + 1 - 1)  BY <2>3 DEF Queue
  <2> HIDE DEF Queue
  <2>5. Queue # << >>
    <3>1. DOMAIN << >> = {}  OBVIOUS
    <3> QED  BY <2>3, <3>1
  <2>6. front + 1 - 1 = front  BY <2>2
  <2> QED  BY <2>1, <2>4, <2>5, <2>6
<1> QED  BY <1>1, IInvHolds, PTL

-----------------------------------------------------------------------------
(***************************************************************************)
(* Where the tasks are: the queue loses and doubles none, the thief field  *)
(* of a task is written once per life, and the queue implements            *)
(* WorkStealingDeque.  The proofs rest on the invariant above, which says  *)
(* what front, back and the buffers hold.                                  *)
(***************************************************************************)

-----------------------------------------------------------------------------
(* The inductive invariant. *)

Entries == front .. AbsBack - 1

Pushing == opc \in {"push_grow", "push_collect", "push_store", "push_publish"}

\* A task is in one worker's hands, in one entry, or in flight between the two.
Ownership ==
    /\ \A v, w \in Worker : \A t \in held[v] : t \in held[w] => v = w
    /\ \A i, j \in Entries : Slot(buf, i) = Slot(buf, j) => i = j
    /\ \A w \in Worker : \A i \in Entries : Slot(buf, i) \notin held[w]
    /\ Pushing => /\ \A w \in Worker : item \notin held[w]
                  /\ \A i \in Entries : Slot(buf, i) # item

\* A task is somewhere.
Kept ==
    \A t \in Task :
        \/ \E w \in Worker : t \in held[w]
        \/ \E i \in Entries : Slot(buf, i) = t
        \/ Pushing /\ item = t

\* The last entry does not change while the owner fights for it.
LastEntry == opc = "pop_cas" => item = Slot(buf, back)

\* A task has a thief only in the hands of that thief, after setThief.
Marks ==
    /\ \A th \in Thief : tpc[th] = "steal_mark"
                            => tr[th] \in held[th] /\ thiefID[tr[th]] = Nil
    /\ \A t \in held[Owner] : thiefID[t] = Nil
    /\ \A i \in Entries : thiefID[Slot(buf, i)] = Nil
    /\ Pushing => thiefID[item] = Nil

OInv == Ownership /\ Kept /\ LastEntry /\ Marks

LEMMA InitOInv == Init => OInv
<1> SUFFICES ASSUME Init PROVE OInv  OBVIOUS
<1>1. Entries = {}  BY DEF Init, Entries, AbsBack
<1>2. Ownership  BY <1>1, TaskqueueAssumption DEF Init, Ownership, Worker, Pushing
<1>3. Kept  BY DEF Init, Kept, Worker
<1>4. LastEntry  BY DEF Init, LastEntry
<1>5. Marks  BY <1>1, TaskqueueAssumption DEF Init, Marks, Worker, Pushing
<1> QED  BY <1>2, <1>3, <1>4, <1>5 DEF OInv

\* Steps that move no task: the entries, the hands, the task in flight and the thief
\* fields stay, and no thief gets to setThief.
Quiet ==
    /\ front' = front /\ AbsBack' = AbsBack
    /\ \A i \in Entries : Slot(buf, i)' = Slot(buf, i)
    /\ held' = held /\ thiefID' = thiefID
    /\ (Pushing' <=> Pushing) /\ (Pushing => item' = item)
    /\ opc' = "pop_cas" => item' = Slot(buf, back)'
    /\ \A th \in Thief : tpc'[th] = "steal_mark" => tpc[th] = "steal_mark" /\ tr'[th] = tr[th]

LEMMA QuietKeeps == OInv /\ Quiet => OInv'
<1> SUFFICES ASSUME OInv, Quiet PROVE OInv'  OBVIOUS
<1> USE DEF OInv, Quiet, Entries
<1>1. Ownership'  BY DEF Ownership
<1>2. Kept'  BY DEF Kept
<1>3. LastEntry'  BY DEF LastEntry
<1>4. Marks'  BY DEF Marks
<1> QED  BY <1>1, <1>2, <1>3, <1>4

\* The calls of the queue that move no task are quiet.
LEMMA OwnerQuiet ==
    ASSUME IInv, OInv,
           Grow \/ PushCollect \/ StoreItem \/ Pop \/ PopRestore \/ PopCollect
    PROVE  Quiet
<1> USE DEF IInv, Quiet, Pushing, thiefVars
<1>1. CASE Grow
  <2>1. AbsBack' = back /\ AbsBack = back /\ front' = front  BY <1>1 DEF Grow, AbsBack
  <2> QED  BY <1>1, <2>1, GrowEffect DEF Grow, Entries
<1>2. CASE PushCollect
  BY <1>2 DEF PushCollect, Entries, AbsBack, Slot
<1>3. CASE StoreItem
  <2>1. AbsBack' = back /\ AbsBack = back /\ front' = front  BY <1>3 DEF StoreItem, AbsBack
  <2> QED  BY <1>3, <2>1, StoreEffect DEF StoreItem, Entries
<1>4. CASE Pop
  <2>1. AbsBack' = AbsBack  BY <1>4 DEF Pop, AbsBack, Types
  <2> QED  BY <1>4, <2>1 DEF Pop, Entries, Slot
<1>5. CASE PopRestore
  <2>1. AbsBack' = AbsBack  BY <1>5 DEF PopRestore, AbsBack, Types
  <2> QED  BY <1>5, <2>1 DEF PopRestore, Entries, Slot
<1>6. CASE PopCollect
  BY <1>6 DEF PopCollect, Entries, AbsBack, Slot
<1> QED  BY <1>1, <1>2, <1>3, <1>4, <1>5, <1>6

LEMMA ThiefQuiet ==
    ASSUME IInv, OInv, NEW th \in Thief,
           \/ StealFront(th) \/ StealBack(th) \/ StealBuf(th) \/ StealRead(th)
           \/ StealCas(th) /\ front # tf[th]
    PROVE  Quiet
<1>1. /\ UNCHANGED <<front, back, buf, bufs, ownerVars, held, thiefID>>
      /\ \A u \in Thief : tpc'[u] = "steal_mark" => tpc[u] = "steal_mark" /\ tr'[u] = tr[u]
  BY DEF IInv, Types, StealFront, StealBack, StealBuf, StealRead, StealCas, StealReturns, ownerVars
<1>2. /\ front' = front /\ AbsBack' = AbsBack /\ (Pushing' <=> Pushing) /\ item' = item
      /\ \A i \in Entries : Slot(buf, i)' = Slot(buf, i)
      /\ opc' = opc /\ Slot(buf, back)' = Slot(buf, back)
  BY <1>1 DEF Entries, AbsBack, Slot, Pushing, ownerVars
<1> QED  BY <1>1, <1>2 DEF Quiet, OInv, LastEntry

-----------------------------------------------------------------------------
(* Steps that move a task. *)

\* Entry k leaves the queue and its task goes to worker w: the end of a pop or of a steal.
Take(k, w) ==
    /\ k \in Entries
    /\ Entries' = Entries \ {k}
    /\ \A i \in Entries \ {k} : Slot(buf, i)' = Slot(buf, i)
    /\ held' = [held EXCEPT ![w] = @ \cup {Slot(buf, k)}]
    /\ thiefID' = thiefID
    /\ (Pushing' <=> Pushing) /\ (Pushing => item' = item)

LEMMA TakeKeeps ==
    ASSUME IInv, OInv, NEW k, NEW w \in Worker, Take(k, w)
    PROVE  /\ Ownership' /\ Kept'
           /\ Slot(buf, k) \in held'[w]
           /\ \A v \in Worker : held[v] \subseteq held'[v]
           /\ \A t \in held'[Owner] : thiefID'[t] = Nil
           /\ \A i \in Entries' : thiefID'[Slot(buf, i)'] = Nil
           /\ Pushing' => thiefID'[item'] = Nil
<1> USE DEF OInv, Take
<1>1. held \in [Worker -> SUBSET Task] /\ Owner \in Worker  BY DEF IInv, Types, Worker
<1>2. \A v \in Worker : held'[v] = IF v = w THEN held[v] \cup {Slot(buf, k)} ELSE held[v]
  BY <1>1
<1>3. Ownership'
  <2>1. \A u, v \in Worker : \A t \in held'[u] : t \in held'[v] => u = v
    BY <1>2 DEF Ownership
  <2>2. \A i, j \in Entries' : Slot(buf, i)' = Slot(buf, j)' => i = j
    BY DEF Ownership
  <2>3. \A v \in Worker : \A i \in Entries' : Slot(buf, i)' \notin held'[v]
    BY <1>2 DEF Ownership
  <2>4. Pushing' => /\ \A v \in Worker : item' \notin held'[v]
                    /\ \A i \in Entries' : Slot(buf, i)' # item'
    BY <1>2 DEF Ownership
  <2> QED  BY <2>1, <2>2, <2>3, <2>4 DEF Ownership
<1>4. Kept'
  <2> SUFFICES ASSUME NEW t \in Task
               PROVE  \/ \E v \in Worker : t \in held'[v]
                      \/ \E i \in Entries' : Slot(buf, i)' = t
                      \/ Pushing' /\ item' = t
    BY DEF Kept
  <2>1. CASE \E v \in Worker : t \in held[v]  BY <1>2, <2>1
  <2>2. CASE \E i \in Entries : Slot(buf, i) = t
    <3>1. PICK i \in Entries : Slot(buf, i) = t  BY <2>2
    <3>2. CASE i = k  BY <1>2, <3>1, <3>2
    <3>3. CASE i # k  BY <3>1, <3>3
    <3> QED  BY <3>2, <3>3
  <2>3. CASE Pushing /\ item = t  BY <2>3
  <2> QED  BY <2>1, <2>2, <2>3 DEF Kept
<1>5. \A t \in held'[Owner] : thiefID'[t] = Nil
  BY <1>1, <1>2 DEF Marks
<1> QED  BY <1>1, <1>2, <1>3, <1>4, <1>5 DEF Marks

LEMMA PushKeeps ==
    ASSUME IInv, OInv, NEW t \in Task, Push(t)
    PROVE  OInv'
<1> USE DEF OInv
<1>1. held \in [Worker -> SUBSET Task] /\ Owner \in Worker  BY DEF IInv, Types, Worker
<1>2. /\ Entries' = Entries
      /\ \A i \in Entries : Slot(buf, i)' = Slot(buf, i)
      /\ thiefID' = thiefID /\ tpc' = tpc /\ tr' = tr
      /\ Pushing' /\ ~Pushing /\ item' = t /\ t \in held[Owner] /\ opc' # "pop_cas"
  BY DEF Push, Entries, AbsBack, Slot, Pushing, thiefVars
<1>3. \A v \in Worker : held'[v] = IF v = Owner THEN held[v] \ {t} ELSE held[v]
  BY <1>1 DEF Push
<1>4. Ownership'
  <2>1. \A u, v \in Worker : \A x \in held'[u] : x \in held'[v] => u = v
    BY <1>3 DEF Ownership
  <2>2. \A v \in Worker : item' \notin held'[v]  BY <1>1, <1>2, <1>3 DEF Ownership
  <2>3. \A i \in Entries' : Slot(buf, i)' # item'  BY <1>1, <1>2 DEF Ownership
  <2>4. \A v \in Worker : \A i \in Entries' : Slot(buf, i)' \notin held'[v]
    <3>1. \A v \in Worker : held'[v] \subseteq held[v]  BY <1>3
    <3> QED  BY <1>2, <3>1 DEF Ownership
  <2>5. \A i, j \in Entries' : Slot(buf, i)' = Slot(buf, j)' => i = j
    BY <1>2 DEF Ownership
  <2> QED  BY <2>1, <2>2, <2>3, <2>4, <2>5 DEF Ownership
<1>5. Kept'  BY <1>2, <1>3 DEF Kept
<1>6. LastEntry'  BY <1>2 DEF LastEntry
<1>7. Marks'
  <2>1. \A th \in Thief : th \in Worker /\ th # Owner  BY TaskqueueAssumption DEF Worker
  <2>2. \A th \in Thief : tpc'[th] = "steal_mark"
                            => tr'[th] \in held'[th] /\ thiefID'[tr'[th]] = Nil
    BY <1>2, <1>3, <2>1 DEF Marks
  <2>3. (\A x \in held'[Owner] : thiefID'[x] = Nil) /\ thiefID'[item'] = Nil
    BY <1>1, <1>2, <1>3 DEF Marks
  <2>4. \A i \in Entries' : thiefID'[Slot(buf, i)'] = Nil
    BY <1>2 DEF Marks
  <2> QED  BY <2>2, <2>3, <2>4 DEF Marks
<1> QED  BY <1>4, <1>5, <1>6, <1>7

LEMMA PublishKeeps ==
    ASSUME IInv, OInv, PublishBack
    PROVE  OInv'
<1> USE DEF OInv
<1>1. /\ AbsBack = back /\ AbsBack' = back + 1 /\ front \in Nat /\ back \in Int /\ front <= back
      /\ front' = front
  BY DEF IInv, Types, Indices, PublishBack, AbsBack
<1>2. /\ Entries' = Entries \cup {back} /\ back \notin Entries
      /\ \A i \in Entries' : Slot(buf, i)' = Slot(buf, i)
      /\ Slot(buf, back) = item
      /\ thiefID' = thiefID /\ tpc' = tpc /\ tr' = tr /\ held' = held
      /\ ~Pushing' /\ Pushing /\ opc' # "pop_cas"
  BY <1>1 DEF IInv, Content, PublishBack, Entries, Slot, Pushing, thiefVars
<1>3. Ownership'  BY <1>2 DEF Ownership
<1>4. Kept'  BY <1>2 DEF Kept
<1>5. LastEntry'  BY <1>2 DEF LastEntry
<1>6. Marks'  BY <1>2 DEF Marks
<1> QED  BY <1>3, <1>4, <1>5, <1>6

LEMMA PopLoadFrontKeeps ==
    ASSUME IInv, OInv, PopLoadFront
    PROVE  OInv' /\ (Quiet \/ Take(back, Owner))
<1>1. /\ AbsBack = back + 1 /\ front \in Nat /\ back \in Int /\ ~Pushing /\ ~Pushing'
      /\ UNCHANGED <<front, back, buf, bufs, tpc, tr, thiefID>>
      /\ \A i \in Entries : Slot(buf, i)' = Slot(buf, i)
      /\ Slot(buf, back)' = Slot(buf, back)
      /\ Owner \in Worker
  BY DEF IInv, Types, PopLoadFront, AbsBack, Pushing, thiefVars, Slot, Worker
<1>2. CASE front < back
  <2>1. held' = [held EXCEPT ![Owner] = @ \cup {Slot(buf, back)}] /\ opc' = "idle"
    BY <1>1, <1>2 DEF PopLoadFront
  <2>2. AbsBack' = back  BY <1>1, <2>1 DEF AbsBack
  <2>3. Take(back, Owner)  BY <1>1, <1>2, <2>1, <2>2 DEF Take, Entries
  <2>4. LastEntry'  BY <2>1 DEF LastEntry
  <2>5. Marks'  BY <1>1, <2>3, TakeKeeps DEF OInv, Marks, Worker
  <2> QED  BY <1>1, <2>3, <2>4, <2>5, TakeKeeps DEF OInv
<1>3. CASE ~(front < back)
  <2>1. /\ held' = held /\ opc' \in {"pop_cas", "pop_restore"}
        /\ opc' = "pop_cas" => item' = Slot(buf, back)
    BY <1>1, <1>3 DEF PopLoadFront
  <2>2. AbsBack' = AbsBack  BY <1>1, <2>1 DEF AbsBack
  <2>3. Quiet  BY <1>1, <2>1, <2>2 DEF Quiet, Entries
  <2> QED  BY <2>3, QuietKeeps
<1> QED  BY <1>2, <1>3

LEMMA PopCasKeeps ==
    ASSUME IInv, OInv, PopCas
    PROVE  OInv' /\ (Quiet \/ (front = back /\ Take(front, Owner)))
<1>1. /\ AbsBack = back + 1 /\ AbsBack' = back + 1 /\ front \in Nat /\ back \in Int
      /\ ~Pushing /\ ~Pushing' /\ opc' = "pop_restore"
      /\ of = back /\ item = Slot(buf, back)
      /\ UNCHANGED <<back, buf, bufs, tpc, tr, thiefID>>
      /\ \A i \in Entries : Slot(buf, i)' = Slot(buf, i)
      /\ Owner \in Worker
  BY DEF IInv, OInv, Types, Indices, LastEntry, PopCas, AbsBack, Pushing, thiefVars, Slot, Worker
<1>2. CASE front = of
  <2>1. front' = front + 1 /\ held' = [held EXCEPT ![Owner] = @ \cup {Slot(buf, front)}]
    BY <1>1, <1>2 DEF PopCas
  <2>2. Take(front, Owner)  BY <1>1, <1>2, <2>1 DEF Take, Entries
  <2>3. LastEntry'  BY <1>1 DEF LastEntry
  <2>4. Marks'  BY <1>1, <2>2, TakeKeeps DEF OInv, Marks, Worker
  <2> QED  BY <1>1, <1>2, <2>2, <2>3, <2>4, TakeKeeps DEF OInv
<1>3. CASE front # of
  <2>1. front' = front /\ held' = held  BY <1>3 DEF PopCas
  <2>2. Quiet  BY <1>1, <2>1 DEF Quiet, Entries
  <2> QED  BY <2>2, QuietKeeps
<1> QED  BY <1>2, <1>3

LEMMA StealCasKeeps ==
    ASSUME IInv, OInv, NEW th \in Thief, StealCas(th)
    PROVE  OInv' /\ (Quiet \/ Take(front, th))
<1>1. CASE front = tf[th]
  <2>1. /\ front \in Nat /\ AbsBack \in Int /\ front < AbsBack /\ tr[th] = Slot(buf, front)
        /\ th \in Worker
    BY <1>1 DEF IInv, Types, Thieves, StealCas, AbsBack, Worker
  <2>2. /\ front' = front + 1
        /\ held' = [held EXCEPT ![th] = @ \cup {Slot(buf, front)}]
        /\ tpc' = [tpc EXCEPT ![th] = "steal_mark"]
        /\ UNCHANGED <<tr, back, buf, bufs, opc, item, thiefID>>
    BY <1>1, <2>1 DEF StealCas, ownerVars
  <2>3. Take(front, th)  BY <2>1, <2>2 DEF Take, Entries, AbsBack, Slot, Pushing
  <2>4. LastEntry'  BY <2>2 DEF OInv, LastEntry, Slot
  <2>5. Marks'
    <3>1. \A u \in Thief : tpc'[u] = "steal_mark"
                              => tr'[u] \in held'[u] /\ thiefID'[tr'[u]] = Nil
      <4> SUFFICES ASSUME NEW u \in Thief, tpc'[u] = "steal_mark"
                   PROVE  tr'[u] \in held'[u] /\ thiefID'[tr'[u]] = Nil
        OBVIOUS
      <4>1. u \in Worker /\ tr' = tr /\ thiefID' = thiefID  BY <2>2 DEF Worker
      <4>2. CASE u = th
        <5>1. tr[th] \in held'[th]  BY <2>1, <2>3, TakeKeeps
        <5>2. thiefID[tr[th]] = Nil  BY <2>1, <2>3 DEF OInv, Marks, Take
        <5> QED  BY <4>1, <4>2, <5>1, <5>2
      <4>3. CASE u # th
        <5>1. tpc[u] = "steal_mark"  BY <2>2, <4>3 DEF IInv, Types
        <5>2. tr[u] \in held[u] /\ thiefID[tr[u]] = Nil  BY <5>1 DEF OInv, Marks
        <5>3. held[u] \subseteq held'[u]  BY <2>1, <2>3, <4>1, TakeKeeps
        <5> QED  BY <4>1, <5>2, <5>3
      <4> QED  BY <4>2, <4>3
    <3> QED  BY <2>1, <2>3, <3>1, TakeKeeps DEF Marks
  <2> QED  BY <2>1, <2>3, <2>4, <2>5, TakeKeeps DEF OInv
<1>2. CASE front # tf[th]
  BY <1>2, ThiefQuiet, QuietKeeps
<1> QED  BY <1>1, <1>2

LEMMA StealSetThiefKeeps ==
    ASSUME IInv, OInv, NEW th \in Thief, StealSetThief(th)
    PROVE  OInv'
<1> USE DEF OInv
<1> DEFINE t == tr[th]
<1>1. /\ t \in held[th] /\ t \in Task /\ th \in Worker /\ Owner \in Worker /\ th # Owner
      /\ held \in [Worker -> SUBSET Task] /\ thiefID \in [Task -> Thief \cup {Nil}]
  BY TaskqueueAssumption DEF IInv, Types, Thieves, Marks, StealSetThief, Worker
<1>2. /\ thiefID' = [thiefID EXCEPT ![t] = th]
      /\ UNCHANGED <<front, back, buf, bufs, opc, item, held>>
      /\ \A u \in Thief : tpc'[u] = "steal_mark" => u # th /\ tpc[u] = "steal_mark"
                                                     /\ tr'[u] = tr[u]
  BY DEF IInv, Types, StealSetThief, StealReturns, ownerVars
<1>3. /\ Entries' = Entries /\ (Pushing' <=> Pushing)
      /\ \A i \in Entries : Slot(buf, i)' = Slot(buf, i)
      /\ Slot(buf, back)' = Slot(buf, back)
  BY <1>2 DEF Entries, AbsBack, Slot, Pushing
<1> HIDE DEF t
<1>4. \A x \in Task : x # t => thiefID'[x] = thiefID[x]  BY <1>1, <1>2
<1>5. Ownership'  BY <1>2, <1>3 DEF Ownership
<1>6. Kept'  BY <1>2, <1>3 DEF Kept
<1>7. LastEntry'  BY <1>2, <1>3 DEF LastEntry
<1>8. Marks'
  <2>1. ASSUME NEW u \in Thief, tpc'[u] = "steal_mark"
        PROVE  tr'[u] \in held'[u] /\ thiefID'[tr'[u]] = Nil
    <3>1. /\ tr'[u] = tr[u] /\ tr[u] \in held[u] /\ thiefID[tr[u]] = Nil /\ u # th
          /\ u \in Worker
      BY <1>2, <2>1 DEF Marks, Worker
    <3>2. tr[u] # t /\ tr[u] \in Task  BY <1>1, <3>1 DEF Ownership
    <3> QED  BY <1>2, <1>4, <3>1, <3>2
  <2>2. \A x \in held'[Owner] : thiefID'[x] = Nil
    BY <1>1, <1>2, <1>4 DEF Marks, Ownership
  <2>3. \A i \in Entries' : thiefID'[Slot(buf, i)'] = Nil
    <3>1. \A i \in Entries : Slot(buf, i) \in Task  BY DEF IInv, Content, Entries
    <3> QED  BY <1>1, <1>3, <1>4, <3>1 DEF Marks, Ownership
  <2>4. Pushing' => thiefID'[item'] = Nil
    <3>1. Pushing => item \in Task  BY DEF IInv, Content, Pushing
    <3> QED  BY <1>1, <1>2, <1>3, <1>4, <3>1 DEF Marks, Ownership
  <2> QED  BY <2>1, <2>2, <2>3, <2>4 DEF Marks
<1> QED  BY <1>5, <1>6, <1>7, <1>8

LEMMA RecycleKeeps ==
    ASSUME IInv, OInv, NEW th \in Thief, NEW t \in Task, Recycle(th, t)
    PROVE  OInv'
<1> USE DEF OInv
<1>1. /\ t \in held[th] /\ tpc[th] = "idle" /\ th \in Worker /\ Owner \in Worker /\ th # Owner
      /\ held \in [Worker -> SUBSET Task] /\ thiefID \in [Task -> Thief \cup {Nil}]
  BY TaskqueueAssumption DEF IInv, Types, Recycle, Worker
<1>2. /\ thiefID' = [thiefID EXCEPT ![t] = Nil]
      /\ held' = [held EXCEPT ![th] = @ \ {t}, ![Owner] = @ \cup {t}]
      /\ UNCHANGED <<front, back, buf, bufs, opc, item, tpc, tr>>
  BY DEF Recycle, ownerVars, thiefVars
<1>3. /\ Entries' = Entries /\ (Pushing' <=> Pushing)
      /\ \A i \in Entries : Slot(buf, i)' = Slot(buf, i)
      /\ Slot(buf, back)' = Slot(buf, back)
  BY <1>2 DEF Entries, AbsBack, Slot, Pushing
<1>4. \A w \in Worker : held'[w] = IF w = th THEN held[w] \ {t}
                                   ELSE IF w = Owner THEN held[w] \cup {t} ELSE held[w]
  BY <1>1, <1>2
<1>5. \A x \in Task : thiefID'[x] = IF x = t THEN Nil ELSE thiefID[x]  BY <1>1, <1>2
<1>6. Ownership'
  <2>1. \A v, w \in Worker : \A x \in held'[v] : x \in held'[w] => v = w
    <3> SUFFICES ASSUME NEW v \in Worker, NEW w \in Worker, NEW x \in held'[v], x \in held'[w]
                 PROVE  v = w
      OBVIOUS
    <3>1. CASE x = t
      <4>1. \A u \in Worker : t \in held[u] => u = th  BY <1>1 DEF Ownership
      <4> QED  BY <1>4, <3>1, <4>1
    <3>2. CASE x # t  BY <1>4, <3>2 DEF Ownership
    <3> QED  BY <3>1, <3>2
  <2>2. \A i, j \in Entries' : Slot(buf, i)' = Slot(buf, j)' => i = j
    BY <1>3 DEF Ownership
  <2>3. \A w \in Worker : \A i \in Entries' : Slot(buf, i)' \notin held'[w]
    <3>1. \A i \in Entries : Slot(buf, i) # t  BY <1>1 DEF Ownership
    <3>2. \A w \in Worker : held'[w] \subseteq held[w] \cup {t}  BY <1>4
    <3> QED  BY <1>3, <3>1, <3>2 DEF Ownership
  <2>4. Pushing' => /\ \A w \in Worker : item' \notin held'[w]
                    /\ \A i \in Entries' : Slot(buf, i)' # item'
    BY <1>1, <1>2, <1>3, <1>4 DEF Ownership
  <2> QED  BY <2>1, <2>2, <2>3, <2>4 DEF Ownership
<1>7. Kept'
  <2> SUFFICES ASSUME NEW x \in Task
               PROVE  \/ \E w \in Worker : x \in held'[w]
                      \/ \E i \in Entries' : Slot(buf, i)' = x
                      \/ Pushing' /\ item' = x
    BY DEF Kept
  <2>1. CASE x = t  BY <1>1, <1>4, <2>1
  <2>2. CASE x # t
    <3>1. \A w \in Worker : x \in held[w] => x \in held'[w]  BY <1>4, <2>2
    <3> QED  BY <1>2, <1>3, <3>1 DEF Kept
  <2> QED  BY <2>1, <2>2
<1>8. LastEntry'  BY <1>2, <1>3 DEF LastEntry
<1>9. Marks'
  <2>1. \A u \in Thief : tpc'[u] = "steal_mark"
                            => tr'[u] \in held'[u] /\ thiefID'[tr'[u]] = Nil
    <3>1. \A u \in Thief : u \in Worker /\ u # Owner  BY TaskqueueAssumption DEF Worker
    <3> QED  BY <1>1, <1>2, <1>4, <1>5, <3>1 DEF Marks
  <2>2. \A x \in held'[Owner] : thiefID'[x] = Nil
    <3>1. \A x \in held'[Owner] : x \in Task /\ (x = t \/ x \in held[Owner])  BY <1>1, <1>4
    <3> QED  BY <1>5, <3>1 DEF Marks
  <2>3. \A i \in Entries' : thiefID'[Slot(buf, i)'] = Nil
    <3>1. \A i \in Entries : Slot(buf, i) \in Task  BY DEF IInv, Content, Entries
    <3> QED  BY <1>3, <1>5, <3>1 DEF Marks
  <2>4. Pushing' => thiefID'[item'] = Nil
    <3>1. Pushing => item \in Task  BY DEF IInv, Content, Pushing
    <3> QED  BY <1>2, <1>3, <1>5, <3>1 DEF Marks
  <2> QED  BY <2>1, <2>2, <2>3, <2>4 DEF Marks
<1> QED  BY <1>6, <1>7, <1>8, <1>9

LEMMA TeardownQuiet ==
    ASSUME IInv, Teardown
    PROVE  Quiet /\ Entries = {}
<1>1. /\ AbsBack = back /\ AbsBack' = back /\ front' = front /\ front = back /\ back \in Int
      /\ ~Pushing /\ ~Pushing' /\ opc' = "down"
      /\ UNCHANGED <<held, thiefID, tpc, tr>>
  BY DEF IInv, Types, Teardown, AbsBack, Pushing, thiefVars
<1> QED  BY <1>1 DEF Quiet, Entries

LEMMA StutterQuiet ==
    ASSUME OInv, UNCHANGED vars
    PROVE  Quiet
BY DEF OInv, LastEntry, Quiet, vars, ownerVars, thiefVars, Entries, AbsBack, Slot, Pushing

\* Every step of the owner and of a thief keeps the whereabouts of all tasks.
LEMMA StepOInv == IInv /\ OInv /\ [Next]_vars => OInv'
BY PushKeeps, PublishKeeps, PopLoadFrontKeeps, PopCasKeeps, StealCasKeeps, StealSetThiefKeeps,
   RecycleKeeps, TeardownQuiet, StutterQuiet, OwnerQuiet, ThiefQuiet, QuietKeeps
   DEF Next, OwnerStep, ThiefStep

LEMMA OInvHolds == Spec => []OInv
BY InitOInv, StepOInv, IInvHolds, PTL DEF Spec

-----------------------------------------------------------------------------
(* The queue as a sequence. *)

QueueShape ==
    /\ front \in Nat /\ AbsBack \in Int /\ front <= AbsBack
    /\ Queue \in Seq(Task)
    /\ Len(Queue) = AbsBack - front
    /\ \A i \in 1 .. Len(Queue) : front + i - 1 \in Entries
                                 /\ Queue[i] = Slot(buf, front + i - 1)
    /\ \A k \in Entries : k - front + 1 \in 1 .. Len(Queue)
                          /\ Queue[k - front + 1] = Slot(buf, k)

LEMMA QueueIsSeq == IInv => QueueShape
<1> SUFFICES ASSUME IInv PROVE QueueShape  OBVIOUS
<1> DEFINE n == AbsBack - front
<1>1. front \in Nat /\ AbsBack \in Int /\ front <= AbsBack
  BY DEF IInv, Types, Indices, AbsBack
<1>2. n \in Nat  BY <1>1
<1>3. \A i \in 1 .. n : front + i - 1 \in Entries /\ Slot(buf, front + i - 1) \in Task
  BY <1>1 DEF IInv, Content, Entries
<1>4. Queue = [i \in 1 .. n |-> Slot(buf, front + i - 1)]  BY DEF Queue
<1> HIDE DEF n
<1>5. Queue \in [1 .. n -> Task]  BY <1>3, <1>4
<1>6. Queue \in Seq(Task) /\ Len(Queue) = n  BY <1>2, <1>5
<1>7. \A k \in Entries : k - front + 1 \in 1 .. n /\ front + (k - front + 1) - 1 = k
  BY <1>1 DEF n, Entries
<1>8. \A k \in Entries : Queue[k - front + 1] = Slot(buf, k)
  BY <1>4, <1>7
<1> QED  BY <1>1, <1>3, <1>4, <1>6, <1>7, <1>8 DEF n, QueueShape

LEMMA QueueIsSeqNext == IInv' => QueueShape'
BY QueueIsSeq, PTL

-----------------------------------------------------------------------------
(* Theorems. *)

\* No interleaving of push, pop, steal and grow loses a task or hands it out twice.
THEOREM EachTaskInOnePlace == Spec => []NoTaskLostOrDoubled
<1>1. IInv /\ OInv => NoTaskLostOrDoubled
  <2> SUFFICES ASSUME IInv, OInv, NEW t \in Task
               PROVE  Cardinality({w \in Worker : t \in held[w]})
                        + Cardinality({i \in 1 .. Len(Queue) : Queue[i] = t})
                        + Cardinality({t} \cap InFlight) = 1
    BY DEF NoTaskLostOrDoubled
  <2> DEFINE H == {w \in Worker : t \in held[w]}
             Q == {i \in 1 .. Len(Queue) : Queue[i] = t}
             F == {t} \cap InFlight
  <2>1. QueueShape  BY QueueIsSeq
  <2>2. H = {} \/ \E w : H = {w}
    <3>1. \A v, w \in H : v = w  BY DEF OInv, Ownership
    <3> QED  BY <3>1
  <2>3. Q = {} \/ \E i : Q = {i}
    <3>1. \A i, j \in Q : i = j
      <4> SUFFICES ASSUME NEW i \in Q, NEW j \in Q PROVE i = j  OBVIOUS
      <4>1. front + i - 1 \in Entries /\ front + j - 1 \in Entries
            /\ Slot(buf, front + i - 1) = Slot(buf, front + j - 1)
        BY <2>1 DEF QueueShape
      <4>2. front + i - 1 = front + j - 1  BY <4>1 DEF OInv, Ownership
      <4> QED  BY <2>1, <4>2 DEF QueueShape
    <3> QED  BY <3>1
  <2>4. F = IF Pushing /\ item = t THEN {t} ELSE {}  BY DEF InFlight, Pushing
  <2>10. \A i \in Q : \E k \in Entries : Slot(buf, k) = t  BY <2>1 DEF QueueShape
  <2>5. ASSUME H # {} PROVE Q = {} /\ F = {}
    <3>1. PICK w \in Worker : t \in held[w]  BY <2>5
    <3>2. Q = {}  BY <2>10, <3>1 DEF OInv, Ownership
    <3>3. ~(Pushing /\ item = t)  BY <3>1 DEF OInv, Ownership
    <3> QED  BY <2>4, <3>2, <3>3
  <2>6. ASSUME Q # {} PROVE F = {}
    <3>1. PICK k \in Entries : Slot(buf, k) = t  BY <2>10, <2>6
    <3>2. ~(Pushing /\ item = t)  BY <3>1 DEF OInv, Ownership
    <3> QED  BY <2>4, <3>2
  <2>7. H # {} \/ Q # {} \/ F # {}
    <3>1. CASE \E w \in Worker : t \in held[w]  BY <3>1
    <3>2. CASE \E k \in Entries : Slot(buf, k) = t
      <4>1. PICK k \in Entries : Slot(buf, k) = t  BY <3>2
      <4>2. k - front + 1 \in Q  BY <2>1, <4>1 DEF QueueShape
      <4> QED  BY <4>2
    <3>3. CASE Pushing /\ item = t  BY <2>4, <3>3
    <3> QED  BY <3>1, <3>2, <3>3 DEF OInv, Kept
  <2> HIDE DEF H, Q, F
  <2>8. Cardinality({}) = 0 /\ \A x : Cardinality({x}) = 1  BY FS_EmptySet, FS_Singleton
  <2>9. Cardinality(H) + Cardinality(Q) + Cardinality(F) = 1
    <3>1. CASE H # {}
      <4>1. Cardinality(H) = 1  BY <2>2, <2>8, <3>1
      <4>2. Cardinality(Q) = 0 /\ Cardinality(F) = 0  BY <2>5, <2>8, <3>1
      <4> QED  BY <4>1, <4>2
    <3>2. CASE H = {} /\ Q # {}
      <4>1. Cardinality(Q) = 1  BY <2>3, <2>8, <3>2
      <4>2. Cardinality(H) = 0 /\ Cardinality(F) = 0  BY <2>6, <2>8, <3>2
      <4> QED  BY <4>1, <4>2
    <3>3. CASE H = {} /\ Q = {}
      <4>1. F = {t}  BY <2>4, <2>7, <3>3
      <4>2. Cardinality(H) = 0 /\ Cardinality(Q) = 0 /\ Cardinality(F) = 1
        BY <2>8, <3>3, <4>1
      <4> QED  BY <4>2
    <3> QED  BY <3>1, <3>2, <3>3
  <2> QED  BY <2>9 DEF H, Q, F
<1> QED  BY <1>1, IInvHolds, OInvHolds, PTL

\* setThief, which adds to the thief field, finds the sentinel there, and whoever takes a
\* task from the queue gets one without a thief.
THEOREM ThiefSetOnce == Spec => []StolenOnce
<1>1. IInv /\ OInv => StolenOnce
  <2> SUFFICES ASSUME IInv, OInv PROVE StolenOnce  OBVIOUS
  <2>1. QueueShape  BY QueueIsSeq
  <2>2. ASSUME NEW i \in 1 .. Len(Queue)
        PROVE  Queue[i] \in Task /\ thiefID[Queue[i]] = Nil
    <3>1. front + i - 1 \in Entries /\ Queue[i] = Slot(buf, front + i - 1)
      BY <2>1 DEF QueueShape
    <3>2. Queue[i] \in Task  BY <2>1 DEF QueueShape
    <3>3. thiefID[Queue[i]] = Nil  BY <3>1 DEF OInv, Marks
    <3> QED  BY <3>2, <3>3
  <2> QED  BY <2>2 DEF StolenOnce, OInv, Marks
<1> QED  BY <1>1, IInvHolds, OInvHolds, PTL
-----------------------------------------------------------------------------
(* The refinement. *)

\* The hands and the entries are what the abstract deque consists of: a quiet step
\* leaves both alone.
LEMMA QuietQueue ==
    ASSUME IInv, IInv', Quiet
    PROVE  UNCHANGED <<Queue, held>>
<1>1. QueueShape /\ QueueShape'  BY QueueIsSeq, QueueIsSeqNext
<1>2. Len(Queue') = Len(Queue)  BY <1>1 DEF QueueShape, Quiet
<1>3. \A i \in 1 .. Len(Queue) : Queue'[i] = Queue[i]
  BY <1>1, <1>2 DEF QueueShape, Quiet
<1>4. Queue' = Queue
  BY <1>1, <1>2, <1>3, SeqEqual DEF QueueShape
<1> QED  BY <1>4 DEF Quiet

LEMMA PushRefines ==
    ASSUME IInv, IInv', NEW t \in Task, Push(t)
    PROVE  Deque!Leave(t)
<1>1. QueueShape /\ QueueShape'  BY QueueIsSeq, QueueIsSeqNext
<1>2. /\ front' = front /\ AbsBack' = AbsBack
      /\ \A i \in Entries : Slot(buf, i)' = Slot(buf, i)
  BY DEF Push, AbsBack, Slot
<1>3. Len(Queue') = Len(Queue)  BY <1>1, <1>2 DEF QueueShape
<1>4. \A i \in 1 .. Len(Queue) : Queue'[i] = Queue[i]
  BY <1>1, <1>2, <1>3 DEF QueueShape
<1>5. Queue' = Queue  BY <1>1, <1>3, <1>4, SeqEqual DEF QueueShape
<1> QED  BY <1>5 DEF Push, Deque!Leave

LEMMA PublishRefines ==
    ASSUME IInv, IInv', OInv, PublishBack
    PROVE  item \in Task /\ Deque!Push(item)
<1>1. QueueShape /\ QueueShape'  BY QueueIsSeq, QueueIsSeqNext
<1>2. /\ Pushing /\ item \in Task /\ Slot(buf, back) = item
      /\ AbsBack = back /\ AbsBack' = back + 1
      /\ front' = front /\ held' = held
      /\ \A i : Slot(buf, i)' = Slot(buf, i)
  BY DEF IInv, Types, Content, PublishBack, AbsBack, Pushing, Slot
<1>3. \A w \in Worker : item \notin held[w]  BY <1>2 DEF OInv, Ownership
<1>4. \A i \in 1 .. Len(Queue) : Queue[i] # item
  BY <1>1, <1>2 DEF QueueShape, OInv, Ownership
<1> DEFINE q == Append(Queue, item)
<1>5. /\ q \in Seq(Task) /\ Len(q) = Len(Queue) + 1 /\ q[Len(Queue) + 1] = item
      /\ \A i \in 1 .. Len(Queue) : q[i] = Queue[i]
  BY <1>1, <1>2, AppendProperties DEF QueueShape
<1> HIDE DEF q
<1>6. Len(Queue') = Len(Queue) + 1 /\ Len(Queue) \in Nat /\ Len(Queue) = back - front
      /\ back \in Int /\ front \in Int
  BY <1>1, <1>2 DEF QueueShape
<1>7. ASSUME NEW i \in 1 .. Len(Queue') PROVE Queue'[i] = q[i]
  <2>1. Queue'[i] = Slot(buf, front + i - 1)  BY <1>1, <1>2 DEF QueueShape
  <2>2. CASE i = Len(Queue) + 1
    <3>1. front + i - 1 = back  BY <1>6, <2>2
    <3> QED  BY <1>2, <1>5, <2>1, <2>2, <3>1
  <2>3. CASE i # Len(Queue) + 1
    <3>1. i \in 1 .. Len(Queue)  BY <1>6, <2>3
    <3> QED  BY <1>1, <1>5, <2>1, <3>1 DEF QueueShape
  <2> QED  BY <2>2, <2>3
<1>8. Queue' = q  BY <1>1, <1>5, <1>6, <1>7, SeqEqual DEF QueueShape
<1> QED  BY <1>2, <1>3, <1>4, <1>8 DEF Deque!Push, Deque!Worker, Worker, q

\* A step that takes the last entry for the owner is a pop of the deque.
LEMMA TakeLastRefines ==
    ASSUME IInv, IInv', front' = front, AbsBack' = AbsBack - 1, Take(AbsBack - 1, Owner)
    PROVE  Deque!Pop
<1>1. QueueShape /\ QueueShape'  BY QueueIsSeq, QueueIsSeqNext
<1> DEFINE n == Len(Queue)
           q == SubSeq(Queue, 1, n - 1)
<1>2. n \in Nat /\ n > 0 /\ AbsBack \in Int /\ front \in Int /\ n = AbsBack - front
  BY <1>1 DEF QueueShape, Take, Entries
<1>3. Queue # << >>  BY <1>2
<1>4. Queue[n] = Slot(buf, AbsBack - 1)
  <2>1. front + n - 1 = AbsBack - 1 /\ n \in 1 .. n  BY <1>2
  <2> QED  BY <1>1, <2>1 DEF QueueShape
<1>5. /\ q \in Seq(Task) /\ Len(q) = n - 1 /\ \A i \in 1 .. n - 1 : q[i] = Queue[i]
  BY <1>1, <1>2 DEF QueueShape
<1>6. Len(Queue') = n - 1  BY <1>1, <1>2 DEF QueueShape
<1> HIDE DEF n, q
<1>7. ASSUME NEW i \in 1 .. n - 1 PROVE Queue'[i] = q[i]
  <2>1. Queue'[i] = Slot(buf, front + i - 1)'  BY <1>1, <1>6 DEF QueueShape
  <2>2. i \in 1 .. n /\ front + i - 1 \in Entries \ {AbsBack - 1}  BY <1>2 DEF Entries
  <2>3. Slot(buf, front + i - 1)' = Slot(buf, front + i - 1)  BY <2>2 DEF Take
  <2>4. Queue[i] = Slot(buf, front + i - 1)  BY <1>1, <2>2 DEF QueueShape, n
  <2> QED  BY <1>5, <2>1, <2>3, <2>4
<1>8. Queue' = q  BY <1>1, <1>5, <1>6, <1>7, SeqEqual DEF QueueShape
<1> QED  BY <1>3, <1>4, <1>8 DEF Take, Deque!Pop, q, n

\* A step that takes the first entry for a thief is a steal of the deque.
LEMMA TakeFirstRefines ==
    ASSUME IInv, IInv', NEW th \in Thief, front' = front + 1, AbsBack' = AbsBack,
           Take(front, th)
    PROVE  Deque!Steal(th)
<1>1. QueueShape /\ QueueShape'  BY QueueIsSeq, QueueIsSeqNext
<1> DEFINE n == Len(Queue)
           q == Tail(Queue)
<1>2. n \in Nat /\ n > 0 /\ AbsBack \in Int /\ front \in Int /\ n = AbsBack - front
  BY <1>1 DEF QueueShape, Take, Entries
<1>3. Queue # << >>  BY <1>2
<1>4. Head(Queue) = Slot(buf, front)
  <2>1. front + 1 - 1 = front /\ 1 \in 1 .. n  BY <1>2
  <2>2. Head(Queue) = Queue[1]  BY <1>1, <1>3 DEF QueueShape
  <2> QED  BY <1>1, <2>1, <2>2 DEF QueueShape
<1>5. /\ q \in Seq(Task) /\ Len(q) = n - 1 /\ \A i \in 1 .. n - 1 : q[i] = Queue[i + 1]
  BY <1>1, <1>2, <1>3, HeadTailProperties DEF QueueShape
<1>6. Len(Queue') = n - 1  BY <1>1, <1>2 DEF QueueShape
<1> HIDE DEF n, q
<1>7. ASSUME NEW i \in 1 .. n - 1 PROVE Queue'[i] = q[i]
  <2>1. PICK k \in Int : k = front + i  BY <1>2
  <2>2. /\ i + 1 \in 1 .. n /\ k \in Entries \ {front} /\ k \in Entries'
        /\ k - front' + 1 = i /\ k - front + 1 = i + 1
    BY <1>2, <2>1 DEF Entries
  <2>3. Queue'[i] = Slot(buf, k)'
    <3>1. Queue'[k - front' + 1] = Slot(buf, k)'  BY <1>1, <2>2 DEF QueueShape
    <3> QED  BY <2>2, <3>1
  <2>4. Slot(buf, k)' = Slot(buf, k)  BY <2>2 DEF Take
  <2>5. Queue[i + 1] = Slot(buf, k)
    <3>1. Queue[k - front + 1] = Slot(buf, k)  BY <1>1, <2>2 DEF QueueShape
    <3> QED  BY <2>2, <3>1
  <2> QED  BY <1>5, <2>3, <2>4, <2>5
<1>8. Queue' = q  BY <1>1, <1>5, <1>6, <1>7, SeqEqual DEF QueueShape
<1> QED  BY <1>3, <1>4, <1>8 DEF Take, Deque!Steal, q
LEMMA PopLoadFrontRefines ==
    ASSUME IInv, IInv', OInv, PopLoadFront
    PROVE  [Deque!Next]_(Deque!vars)
<1>1. CASE Quiet  BY <1>1, QuietQueue DEF Deque!vars
<1>2. CASE Take(back, Owner)
  <2>1. /\ AbsBack = back + 1 /\ back \in Int /\ front' = front /\ back' = back
        /\ back \in Entries /\ opc' \in {"idle", "pop_cas", "pop_restore"}
    BY <1>2 DEF IInv, Types, PopLoadFront, AbsBack, Take
  <2>2. front \in Int /\ front <= back  BY <2>1 DEF IInv, Types, Entries
  <2>3. AbsBack' = back
    <3>1. back \notin Entries'  BY <1>2 DEF Take
    <3>2. AbsBack' # back + 1  BY <2>1, <2>2, <3>1 DEF Entries
    <3> QED  BY <2>1, <3>2 DEF AbsBack
  <2>4. AbsBack - 1 = back /\ AbsBack' = AbsBack - 1  BY <2>1, <2>3
  <2>5. Deque!Pop  BY <1>2, <2>1, <2>4, TakeLastRefines
  <2> QED  BY <2>5 DEF Deque!Next
<1> QED  BY <1>1, <1>2, PopLoadFrontKeeps

LEMMA PopCasRefines ==
    ASSUME IInv, IInv', OInv, PopCas
    PROVE  [Deque!Next]_(Deque!vars)
<1>1. CASE Quiet  BY <1>1, QuietQueue DEF Deque!vars
<1>2. CASE front = back /\ Take(front, Owner)
  <2>1. /\ AbsBack = back + 1 /\ AbsBack' = back + 1 /\ back \in Int
        /\ front' \in {front, front + 1}
    BY DEF IInv, Types, PopCas, AbsBack
  <2>2. QueueShape /\ QueueShape'  BY QueueIsSeq, QueueIsSeqNext
  <2>3. front' = front + 1
    <3>1. front \notin Entries'  BY <1>2 DEF Take
    <3> QED  BY <1>2, <2>1, <2>2, <3>1 DEF Entries, QueueShape
  <2>4. Len(Queue) = 1 /\ Len(Queue') = 0 /\ Queue[1] = Slot(buf, front)
        /\ Queue \in Seq(Task) /\ Queue' \in Seq(Task)
    <3>1. Len(Queue) = 1 /\ Len(Queue') = 0  BY <1>2, <2>1, <2>2, <2>3 DEF QueueShape
    <3>4. front \in Nat  BY <2>2 DEF QueueShape
    <3>2. 1 \in 1 .. Len(Queue) /\ front + 1 - 1 = front  BY <3>1, <3>4
    <3>3. Queue[1] = Slot(buf, front + 1 - 1)  BY <2>2, <3>2 DEF QueueShape
    <3> QED  BY <2>2, <3>1, <3>2, <3>3 DEF QueueShape
  <2>5. Queue # << >> /\ Queue' = << >> /\ SubSeq(Queue, 1, Len(Queue) - 1) = << >>
    BY <2>4
  <2>6. Deque!Pop  BY <1>2, <2>4, <2>5 DEF Take, Deque!Pop
  <2> QED  BY <2>6 DEF Deque!Next
<1> QED  BY <1>1, <1>2, PopCasKeeps

LEMMA StealCasRefines ==
    ASSUME IInv, IInv', OInv, NEW th \in Thief, StealCas(th)
    PROVE  [Deque!Next]_(Deque!vars)
<1>1. CASE Quiet  BY <1>1, QuietQueue DEF Deque!vars
<1>2. CASE Take(front, th)
  <2>1. AbsBack' = AbsBack /\ front' \in {front, front + 1}
    BY DEF StealCas, AbsBack, ownerVars
  <2>2. front' = front + 1
    <3>1. front \in Entries /\ front \notin Entries'  BY <1>2 DEF Take
    <3> QED  BY <2>1, <3>1 DEF Entries
  <2>3. Deque!Steal(th)  BY <1>2, <2>1, <2>2, TakeFirstRefines
  <2> QED  BY <2>3 DEF Deque!Next
<1> QED  BY <1>1, <1>2, StealCasKeeps

\* setThief writes the thief field only, and a recycled task moves between two hands.
LEMMA UsersRefine ==
    ASSUME IInv, IInv', NEW th \in Thief, NEW t \in Task, StealSetThief(th) \/ Recycle(th, t)
    PROVE  [Deque!Next]_(Deque!vars)
<1>1. UNCHANGED <<front, back, buf, bufs, opc>>
  BY DEF StealSetThief, Recycle, ownerVars
<1>2. Queue' = Queue  BY <1>1 DEF Queue, AbsBack, Slot
<1>3. CASE StealSetThief(th)  BY <1>2, <1>3 DEF StealSetThief, Deque!vars
<1>4. CASE Recycle(th, t)
  <2>1. Deque!Recycle(th, t)  BY <1>2, <1>4 DEF Recycle, Deque!Recycle
  <2> QED  BY <2>1 DEF Deque!Next
<1> QED  BY <1>3, <1>4

\* Every step of the queue is a step of the deque, or changes nothing of it.
LEMMA StepRefines ==
    ASSUME IInv, IInv', OInv, [Next]_vars
    PROVE  [Deque!Next]_(Deque!vars)
<1> USE DEF OwnerStep, ThiefStep
<1>1. CASE \E t \in Task : Push(t)  BY <1>1, PushRefines DEF Deque!Next
<1>2. CASE PublishBack  BY <1>2, PublishRefines DEF Deque!Next
<1>3. CASE PopLoadFront  BY <1>3, PopLoadFrontRefines
<1>4. CASE PopCas  BY <1>4, PopCasRefines
<1>5. CASE \E th \in Thief : StealCas(th)  BY <1>5, StealCasRefines
<1>6. CASE \E th \in Thief : StealSetThief(th)
  <2>1. PICK th \in Thief : StealSetThief(th)  BY <1>6
  <2>2. tr[th] \in Task  BY <2>1 DEF IInv, Thieves, StealSetThief
  <2> QED  BY <2>1, <2>2, UsersRefine
<1>7. CASE \E th \in Thief : \E t \in Task : Recycle(th, t)  BY <1>7, UsersRefine
<1>8. CASE Quiet  BY <1>8, QuietQueue DEF Deque!vars
<1>9. CASE Grow \/ PushCollect \/ StoreItem \/ Pop \/ PopRestore \/ PopCollect
  BY <1>8, <1>9, OwnerQuiet
<1>10. CASE \E th \in Thief : \/ StealFront(th) \/ StealBack(th) \/ StealBuf(th) \/ StealRead(th)
  BY <1>8, <1>10, ThiefQuiet
<1>11. CASE Teardown  BY <1>8, <1>11, TeardownQuiet
<1>12. CASE UNCHANGED vars  BY <1>8, <1>12, StutterQuiet
<1> QED  BY <1>1, <1>2, <1>3, <1>4, <1>5, <1>6, <1>7, <1>9, <1>10, <1>11, <1>12 DEF Next

\* push, pop and steal are linearizable: for any number of thieves, through any number of
\* grows, the queue behaves as a deque whose operations take effect in one instant.
THEOREM QueueIsADeque == Spec => ImplementsDeque
<1>1. Init => Deque!Init
  <2> SUFFICES ASSUME Init PROVE Deque!Init  OBVIOUS
  <2>1. AbsBack - front = 0  BY DEF Init, AbsBack
  <2>2. Queue = << >>  BY <2>1 DEF Queue
  <2> QED  BY <2>2 DEF Init, Deque!Init, Deque!Worker, Worker
<1>2. IInv /\ IInv' /\ OInv /\ [Next]_vars => [Deque!Next]_(Deque!vars)
  BY StepRefines
<1> QED  BY <1>1, <1>2, IInvHolds, OInvHolds, PTL DEF Spec, ImplementsDeque, Deque!Spec
=============================================================================
