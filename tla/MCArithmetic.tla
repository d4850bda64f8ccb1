------------------------------ MODULE MCArithmetic ------------------------------
(***************************************************************************)
(* The arithmetic of the spreads and of the CPU limits over bounded        *)
(* inputs.  A behaviour has one topic and fixes the machine and the load;  *)
(* a spread's behaviour then raises the number of iterations one by one,   *)
(* so that TLC checks every combination of inputs.                         *)
(***************************************************************************)
EXTENDS SpreadPartition, CpuLimits, FiniteSets

CONSTANTS Topics,          \* of {"pool", "clusters", "limits"}
          MaxIterations,   \* bound: iterations 1..MaxIterations
          Pools,           \* worker threads in the pool
          Loads,           \* items_in_shop
          Costs,           \* parallelizable_iterations_count
          Divisions,       \* spread_work_stealing_division
          HCRange,         \* number of values of hardware_concurrency_t
          ProductRange     \* number of values of iterations * cluster_power

\* Clusters of cores and their capacities, the strongest first.
Machines == {<<[cores |-> 3, capacity |-> 10]>>,
             <<[cores |-> 2, capacity |-> 2], [cores |-> 4, capacity |-> 1]>>,
             <<[cores |-> 4, capacity |-> 100], [cores |-> 4, capacity |-> 1]>>,
             <<[cores |-> 1, capacity |-> 3], [cores |-> 3, capacity |-> 2], [cores |-> 4, capacity |-> 1]>>,
             <<[cores |-> 1, capacity |-> 7], [cores |-> 1, capacity |-> 7], [cores |-> 2, capacity |-> 7]>>}

\* A directory without a quota, and quotas for less than one, for one and a half and
\* for three and a half CPUs.
Quotas == {NoQuota, [quota |-> 40, period |-> 100], [quota |-> 15, period |-> 10],
           [quota |-> 350, period |-> 100]}

Paths      == {<<>>, <<"a">>, <<"a", "b">>}
ALine(controllers, path) == [controllers |-> controllers, path |-> path]
LinesOf(controllers)     == {<<>>} \cup {<<ALine(controllers, path)>> : path \in Paths}

\* /proc/self/cgroup, with another controller's line first.
ProcSelf == {<<ALine(<<"cpuset">>, <<"a", "b">>)>> \o v1 \o v2 :
               v1 \in LinesOf(<<"cpu", "cpuacct">>), v2 \in LinesOf(<<>>)}

NoMachine == <<>>
NoLimits  == [lines |-> <<>>]
Limits    == [lines : ProcSelf, v2 : [Paths -> Quotas], v1 : [Paths -> Quotas]]

VARIABLE input

topic      == input.topic
iterations == input.iterations
pool       == input.pool
load       == input.load
cost       == input.cost
division   == input.division
machine    == input.machine
limits     == input.limits

\* A behaviour of another topic has nothing to cut.
Inputs(t) ==
  LET spread == t \in {"pool", "clusters"}
  IN  [topic : {t}, iterations : {1},
       pool     : IF t = "pool"     THEN Pools     ELSE {0},
       load     : IF t = "pool"     THEN Loads     ELSE {0},
       cost     : IF spread         THEN Costs     ELSE {1},
       division : IF spread         THEN Divisions ELSE {1},
       machine  : IF t = "clusters" THEN Machines  ELSE {NoMachine},
       limits   : IF t = "limits"   THEN Limits    ELSE {NoLimits}]

Init == \E t \in Topics : input \in Inputs(t)

OneMore == /\ topic \in {"pool", "clusters"} /\ iterations < MaxIterations
           /\ input' = [input EXCEPT !.iterations = @ + 1]

Next == OneMore

Spec == Init /\ [][Next]_input

ThePlan == Plan(iterations, cost, pool, load)

\* Reference definition: consecutive non-empty intervals from 0 up to n.
Tiles(chunks, n) ==
  /\ chunks # <<>> /\ chunks[1].from = 0 /\ chunks[Len(chunks)].to = n
  /\ \A k \in 1..Len(chunks) : chunks[k].from < chunks[k].to
  /\ \A k \in 1..(Len(chunks) - 1) : chunks[k].to = chunks[k + 1].from

CallerChunk == IF ThePlan.callerEnd > 0 THEN <<Chunk(0, ThePlan.callerEnd)>> ELSE <<>>

\* Whichever way the parts are handed out, the caller's part and the others' chunks
\* cover every iteration exactly once and none is empty (the worker asserts
\* start_iteration < end_iteration).
\* - Slices in the workers' own queues: no worker beyond the pool gets a part, and
\*   no part has more slices than the array they are built in.
\* - The shared queue: in an idle shop (slow_thread_signals) the second cut keeps the
\*   total, in a busy one the caller takes a part or only waits.
PartsTile ==
  topic = "pool" =>
  /\ load = 0 =>
       LET parts == WorkerParts(ThePlan, iterations, division)
       IN  /\ Tiles(CallerChunk \o FlattenSeq(parts), iterations)
           /\ Len(parts) <= pool
           /\ \A k \in 1..Len(parts) : Len(parts[k]) <= SliceDiv(division, ThePlan.perPart)
  /\ LET plan == IF load = 0 /\ ThePlan.dispatched > 0 THEN BulkPlan(ThePlan, division)
                 ELSE ThePlan
     IN  Tiles(CallerChunk \o BulkChunks(plan), iterations)

\* The shops that cut without looking at the load: spread_chunked, however the spread
\* cuts the chunk indices, and the cuts of the Windows, Apple, libuv and OpenMP shops,
\* into no more parts than they have contexts, requests or threads for.  The index of a
\* chunk is a hardware_concurrency_t: of Windows and Apple this holds as long as it can
\* tell four chunks per core apart (64 cores, where it has 8 bits); libuv "clamp[s] the
\* chunk count to the type's range as well", and holds for any number of cores.
ChunkedTiles ==
  topic = "pool" /\ load = 0 =>
    LET cores   == pool + 1
        indices == Smaller(cores, iterations)
        plan    == Plan(indices, 1, pool, 0)
        cut     == <<Chunk(0, plan.callerEnd)>> \o FlattenSeq(WorkerParts(plan, indices, division))
        byFour  == (IF 4 * cores <= HCRange
                      THEN {WindowsCut(iterations, cores, HCRange), AppleCut(iterations, cores, HCRange)}
                      ELSE {}) \cup {LibuvCut(iterations, cores, HCRange)}
    IN  /\ Tiles([k \in 1..Len(cut) |-> ChunkedWork(iterations, cores, cut[k], HCRange)], iterations)
        /\ \A parts \in byFour : Tiles(parts, iterations) /\ Len(parts) <= 4 * cores
        /\ Tiles(OpenMPCut(iterations, cores), iterations)
        /\ Len(OpenMPCut(iterations, cores)) <= cores

Cores  == [c \in DOMAIN machine |-> machine[c].cores]
Powers == HmpPowers([c \in DOMAIN machine |-> machine[c].capacity])
Given  == HmpGiven(iterations, cost, Cores, Powers, ProductRange)

\* Clusters of unequal power: the powers add up ("final_total_power == max_power"),
\* the plans of all clusters together cover every iteration once, though the product
\* that shares them out may wrap, and there is a worker for every part.  The rounding
\* leaves over less than one iteration per cluster, unless the product wraps.  (That is
\* not what the code asserts, which fails on the last of the machines: HmpDistribution.)
HmpTiles ==
  topic = "clusters" =>
    LET plans == HmpPlans(HmpDistribution(iterations, cost, Cores, Powers, ProductRange), Cores)
        parts == [c \in DOMAIN plans |-> WorkerParts(plans[c], iterations, division)]
    IN  /\ SumOf(Powers) = MaxPower
        /\ Tiles(<<Chunk(0, plans[1].callerEnd)>> \o FlattenSeq(FlattenSeq(parts)), iterations)
        /\ SumOf([c \in DOMAIN parts |-> Len(parts[c])]) <= SumOf(Cores) - 1
        /\ (\A c \in DOMAIN Powers : iterations * Powers[c] < ProductRange) =>
             iterations - Given[Len(Cores)] < Len(Cores)

\* Reference definition: the quotas of the directories on the process's own branches.
Constraints ==
  UNION {{limits.v2[path] : path \in {p \in Paths : IsPrefix(p, SelfCgroup(limits.lines, TRUE))}},
         {limits.v1[path] : path \in {p \in Paths : IsPrefix(p, SelfCgroup(limits.lines, FALSE))}}}
    \ {NoQuota}

\* "A quota on any ancestor constrains us too, hence the most restrictive one found
\* wins": the process counts on no more CPUs than any quota of its branches, rounded,
\* grants it (but on one), and on as many as one of them grants; on all of them when
\* there is no quota; whatever other branches say.
LimitExact ==
  topic = "limits" =>
    LET cpus(configured) == HardwareConcurrencyMax(DockerLimit(limits.lines, limits.v2, limits.v1),
                                                   configured, HCRange)
    IN  IF Constraints = {} THEN cpus(8) = 8
        ELSE /\ cpus(8) >= 1
             /\ \A c \in Constraints : cpus(8) = 1 \/ 2 * cpus(8) * c.period <= 2 * c.quota + c.period
             /\ \E c \in Constraints : 2 * cpus(8) * c.period > 2 * c.quota - c.period

\* "has to be limited (among other reasons) not to overflow hardware_concurrency_t":
\* the chunks of a spread can be counted in that type, in which work_items_ and the
\* barrier's actives() count them.
ChunkCountFits ==
  load = 0 => Len(FlattenSeq(WorkerParts(ThePlan, iterations, division))) < HCRange
================================================================================
