---------------------------- MODULE Partitioners ----------------------------
(* The static chunking of threadpool/partitioners.nim, which the parallel    *)
(* multi-scalar multiplication and the batch conversions use.                *)
EXTENDS Integers, Sequences, SequencesExt, FiniteSetsExt

ChunkDescriptor(start, numSteps, numChunks) ==
  [start |-> start, numSteps |-> numSteps, numChunks |-> numChunks,
   baseChunkSize |-> numSteps \div numChunks, cutoff |-> numSteps % numChunks]

(* A faulty variant: the first cutoff + 1 chunks are large.                  *)
itemsOneMoreLarge(c) ==
  [k \in 1 .. c.numChunks |->
     LET large == k - 1 <= c.cutoff
         offset == c.start + (c.baseChunkSize + (IF large THEN 1 ELSE 0)) * (k - 1)
                     + (IF large THEN 0 ELSE c.cutoff)
     IN  [start |-> offset,
          size |-> Min({c.baseChunkSize + (IF large THEN 1 ELSE 0), c.numSteps - offset})]]

(* The chunks, each with its start and size.                                 *)
items(c) ==
  [k \in 1 .. c.numChunks |->
     LET chunkID == k - 1
         large == chunkID < c.cutoff
         offset == c.start + (c.baseChunkSize + (IF large THEN 1 ELSE 0)) * chunkID
                     + (IF large THEN 0 ELSE c.cutoff)
         chunkSize == c.baseChunkSize + (IF large THEN 1 ELSE 0)
     IN  [start |-> offset, size |-> Min({chunkSize, c.numSteps - offset})]]

ceilDiv(a, b) == (a + b - 1) \div b

balancedChunksPrioNumber(start, stopEx, numChunks) ==
  ChunkDescriptor(start, stopEx - start, numChunks)

balancedChunksPrioSize(start, stopEx, minChunkSize, maxChunkSize, numChunksHint) ==
  LET numSteps == stopEx - start
      hint == Max({numChunksHint, 1})
      base == numSteps \div hint
      cutoff == numSteps % hint
  IN  ChunkDescriptor(start, numSteps,
        CASE base < minChunkSize -> Max({numSteps \div minChunkSize, 1})
          [] base >= minChunkSize
               /\ (base > maxChunkSize \/ (base = maxChunkSize /\ cutoff # 0)) ->
               ceilDiv(numSteps, maxChunkSize)
          [] OTHER -> hint)

-----------------------------------------------------------------------------
(* Chunks that follow each other without gap or overlap from start to stopEx *)
(* and whose sizes differ by at most one.                                    *)
Tiles(chunks, start, stopEx) ==
  /\ chunks # <<>>
  /\ chunks[1].start = start
  /\ \A k \in DOMAIN chunks :
       chunks[k].start + chunks[k].size
         = IF k = Len(chunks) THEN stopEx ELSE chunks[k + 1].start
  /\ \A j, k \in DOMAIN chunks : chunks[j].size <= chunks[k].size + 1

(* Both partitioners tile a range of n steps from 0, where all their callers *)
(* start, and the one that is given bounds for the chunk size keeps to them  *)
(* unless the range is too short for one chunk or minChunkSize so close to   *)
(* maxChunkSize that what is left over cannot be spread over the chunks.     *)
PartitionsTile(n) ==
  /\ \A chunks \in 1..6 : Tiles(items(balancedChunksPrioNumber(0, n, chunks)), 0, n)
  /\ \A min \in 1..4, max \in 1..8, hint \in 0..6 :
       min <= max =>
         LET chunks == items(balancedChunksPrioSize(0, n, min, max, hint))
         IN  /\ Tiles(chunks, 0, n)
             /\ n >= min /\ max >= min + ceilDiv(min - 1, n \div min) =>
                  \A k \in DOMAIN chunks : chunks[k].size \in min..max
=============================================================================
