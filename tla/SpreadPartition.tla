---------------------------- MODULE SpreadPartition ----------------------------
(***************************************************************************)
(* How spread_the_sweat cuts its iterations into chunks: the arithmetic of *)
(* shop::spread_work, shop::dispatch_workers, shop::configure_hmp          *)
(* (impls/generic.cpp), of chunked_spread (spread_chunked.cpp) and of the  *)
(* platform shops.  Chunks are half-open intervals [from, to).             *)
(*                                                                         *)
(* A plan is what spread_work computes before it hands anything out:       *)
(*   parts       number_of_work_parts, the caller's own part included      *)
(*   dispatched  number_of_dispatched_work_parts                           *)
(*   perPart     iterations_per_part                                       *)
(*   extra       parts_with_extra_iteration, after the caller's part       *)
(*   callerEnd   caller_thread_end_iteration: the caller runs [0, it)      *)
(*   wait        queue_and_wait: no free worker, the caller only waits     *)
(***************************************************************************)
EXTENDS Integers, Sequences, Functions

Larger(a, b)  == IF a > b THEN a ELSE b
Smaller(a, b) == IF a < b THEN a ELSE b

Chunk(from, to) == [from |-> from, to |-> to]

\* The single-core path: in a busy shop without workers the caller does everything.
\* Compiled for Linux other than Android only ("for other platforms assume no single
\* core systems actually exist"); elsewhere a pool always has a worker.
CallerAlone(iterations) ==
  [parts |-> 1, dispatched |-> 0, perPart |-> iterations, extra |-> 0,
   callerEnd |-> iterations, wait |-> FALSE]

\* spread_work up to the choice of a dispatch path.  workerThreads is the pool's
\* size, the caller comes on top of it.
Plan(iterations, cost, workerThreads, itemsInShop) ==
  IF itemsInShop > 0 /\ workerThreads = 0 THEN CallerAlone(iterations) ELSE
  LET free    == Larger(0, workerThreads + 1 - itemsInShop)
      parts   == Smaller(Larger(1, iterations \div cost),
                         IF free > 0 THEN free ELSE workerThreads)
      perPart == iterations \div parts
      extra   == iterations % parts
      carry   == IF extra > 0 THEN 1 ELSE 0
  IN  [parts      |-> parts,
       dispatched |-> IF free > 0 THEN parts - 1 ELSE parts,
       perPart    |-> perPart,
       extra      |-> IF free > 0 THEN extra - carry ELSE extra,
       callerEnd  |-> IF free > 0 THEN perPart + carry ELSE 0,
       wait       |-> free = 0]

\* slice_div: into how many slices a part is cut for stealing.
SliceDiv(division, perPart) == Smaller(division, Larger(perPart, 1))

\* Where part k (counted from 0) starts when the first `extra` parts are one longer.
PartStart(first, perPart, extra, k) == first + k * perPart + Smaller(k, extra)

\* Mutant: the remainder goes to every slice's start but not to the first slice.
SlicesOfRemainderLost(start, size, div) ==
  LET each == size \div div
  IN  [k \in 1..(IF each = 0 THEN 1 ELSE div) |->
         Chunk(start + (k - 1) * each, start + k * each)]

\* The inner loop of dispatch_workers: the first slice takes the remainder.  A
\* part shorter than slice_div is one slice, made of the remainder alone.
SlicesOf(start, size, div) ==
  LET each == size \div div
      rest == size % div
  IN  [k \in 1..(IF each = 0 THEN 1 ELSE div) |->
         Chunk(start + (IF k = 1 THEN 0 ELSE rest + (k - 1) * each),
               start + rest + k * each)]

\* dispatch_workers: the slices of each part that is handed out, one sequence per
\* worker; the loop ends early when the iterations have run out.
WorkerParts(plan, iterations, division) ==
  LET start(k) == PartStart(plan.callerEnd, plan.perPart, plan.extra, k)
      used     == {k \in 0..(plan.dispatched - 1) :
                     \A j \in 0..k : start(j) # iterations}
  IN  [k \in {j + 1 : j \in used} |->
         SlicesOf(start(k - 1), start(k) - start(k - 1),
                  SliceDiv(division, plan.perPart))]

\* The shared-queue path of an otherwise idle shop cuts every part again.
BulkPlan(plan, division) ==
  LET div == SliceDiv(division, plan.perPart)
  IN  [plan EXCEPT !.extra = @ + (plan.perPart % div) * plan.dispatched,
                   !.perPart = @ \div div,
                   !.dispatched = @ * div]

\* The chunks of the shared-queue path: one per dispatched part.
BulkChunks(plan) ==
  LET start(k) == PartStart(plan.callerEnd, plan.perPart, plan.extra, k)
  IN  [k \in 1..plan.dispatched |-> Chunk(start(k - 1), start(k))]

\* Mutant: the extra iterations are not counted into the start.
ChunkRangeDrifting(iterations, numberOfChunks, chunkIndex, width) ==
  LET each  == iterations \div numberOfChunks
      extra == (iterations % numberOfChunks) % width
      index == chunkIndex % width
      start == index * each
  IN  Chunk(start, start + each + (IF index < extra THEN 1 ELSE 0))

\* chunked_spread, and its chunk_range: the number of longer chunks and the index are
\* cast to hardware_concurrency_t, a type of `width` values.
ChunkRange(iterations, numberOfChunks, chunkIndex, width) ==
  LET each  == iterations \div numberOfChunks
      extra == (iterations % numberOfChunks) % width
      index == chunkIndex % width
      long  == Smaller(index, extra)
      start == long * (each + 1) + (index - long) * each
  IN  Chunk(start, start + each + (IF index < extra THEN 1 ELSE 0))

\* impls/windows.hpp and impls/apple.hpp make up to four chunks per core, ...
ChunksOfFour(iterations, cores) == Smaller(iterations, 4 * cores)

WindowsCut(iterations, cores, width) ==
  LET chunks == ChunksOfFour(iterations, cores)
  IN  [k \in 1..chunks |-> ChunkRange(iterations, chunks, k - 1, width)]

\* ... where the latter cuts for all of them but hands out no more than iterations, ...
AppleCut(iterations, cores, width) ==
  [k \in 1..ChunksOfFour(iterations, cores) |-> ChunkRange(iterations, 4 * cores, k - 1, width)]

\* ... and impls/libuv.cpp no more than the type can count.
LibuvCut(iterations, cores, width) ==
  LET chunks == Smaller(ChunksOfFour(iterations, cores), width - 1)
  IN  [k \in 1..chunks |-> ChunkRange(iterations, chunks, k - 1, width)]

\* impls/openmp.hpp
OpenMPCut(iterations, team) ==
  LET each == iterations \div team + 1
  IN  [k \in 1..((iterations + each - 1) \div each) |->
         Chunk((k - 1) * each, Smaller(iterations, k * each))]

\* spread_chunked's worker: the iterations of a run of chunk indices.
ChunkedWork(iterations, numberOfChunks, c, width) ==
  Chunk(ChunkRange(iterations, numberOfChunks, c.from, width).from,
        ChunkRange(iterations, numberOfChunks, c.to - 1, width).to)
--------------------------------------------------------------------------------
(* Heterogeneous cores (PSI_SWEATER_HMP): clusters of unequal power, the strongest
   first *)

MaxPower == 128

SumOf(f) == FoldFunction(+, 0, f)

\* configure_hmp: the capacities scaled to MaxPower; what the truncation loses goes to
\* the first cluster, what it has too much comes off the last.
HmpPowers(capacities) ==
  LET last   == Len(capacities)
      scaled == [c \in 1..last |-> (capacities[c] * MaxPower) \div SumOf(capacities)]
      err    == MaxPower - SumOf(scaled)
  IN  [scaled EXCEPT ![1] = @ + Larger(0, err), ![last] = @ - Larger(0, -err)]

\* spread_work: how many iterations the first c clusters have been given.  A cluster
\* gets its share (a product of the given width), or enough for all of its cores, of
\* what is left.
HmpGiven(iterations, cost, cores, powers, width) ==
  LET given[c \in 0..Len(cores)] ==
        IF c = 0 THEN 0
        ELSE given[c - 1] + Smaller(iterations - given[c - 1],
                                    Larger(((iterations * powers[c]) % width) \div MaxPower,
                                           cost * cores[c]))
  IN  given

\* Mutant: what the rounding leaves over is lost.
HmpDistributionRounded(iterations, cost, cores, powers, width) ==
  LET given == HmpGiven(iterations, cost, cores, powers, width)
  IN  [c \in {k \in 1..Len(cores) : given[k] > given[k - 1]} |-> given[c] - given[c - 1]]

\* The iterations of each cluster that gets any; what the rounding leaves over goes to
\* the strongest one.  The code asserts here that what is left over is less than the last
\* share.  It need not be: of 8 iterations, clusters of 1, 1 and 2 equal cores get 2
\* each, and 2 are left over.  A release build goes on, and so does this definition.
HmpDistribution(iterations, cost, cores, powers, width) ==
  LET given == HmpGiven(iterations, cost, cores, powers, width)
  IN  [c \in {k \in 1..Len(cores) : given[k] > given[k - 1]} |->
         given[c] - given[c - 1] + IF c = 1 THEN iterations - given[Len(cores)] ELSE 0]

\* What the caller and the cores of each cluster get: a plan for dispatch_workers per
\* cluster.  The caller is a core of the first one.
HmpPlans(distribution, cores) ==
  [c \in DOMAIN distribution |->
     LET before  == SumOf([k \in 1..(c - 1) |-> distribution[k]])
         perPart == distribution[c] \div cores[c]
         extra   == distribution[c] % cores[c]
         carry   == IF extra > 0 THEN 1 ELSE 0
     IN  [callerEnd  |-> IF c = 1 THEN perPart + carry ELSE before,
          dispatched |-> IF c = 1 THEN cores[c] - 1 ELSE cores[c],
          perPart    |-> perPart,
          extra      |-> IF c = 1 THEN extra - carry ELSE extra]]
================================================================================
