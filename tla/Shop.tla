---------------------------------- MODULE Shop ----------------------------------
(***************************************************************************)
(* impls/generic.{hpp,cpp}: the sweat shop with its own worker threads, in *)
(* its default configuration (exact worker selection, the caller takes     *)
(* part, no HMP, no slow_thread_signals).                                  *)
(*                                                                         *)
(* Threads 0..pool-1 are the pool, the Callers are user threads.           *)
(* Every thread has a stack of frames: the worker loop at the bottom of a  *)
(* worker's, above it the work being run and the shop's operations being   *)
(* executed; work may call the shop again.                                 *)
(*                                                                         *)
(* pool       pool_.size()         setup     the instance and its bounds    *)
(* queue      the moodycamel queue, one FIFO per producer: the workers'    *)
(*            producer tokens and the implicit producers of user threads   *)
(* tokens     event_ of every worker, as its specification (Semaphore)     *)
(* workItems  work_items_          inFlight  g_in_flight, both wrap around *)
(* rotor      dispatch_rotor_                                              *)
(* brexit     brexit_              division  spread_work_stealing_division *)
(* barrier    counter_ of the completion barrier of every spread           *)
(* stack      what every thread is doing                                   *)
(* History: firer (who fired an item, NoOne before that), accepted (items  *)
(* whose fire returned true), ran (how often an item ran), calls (state of *)
(* every spread call), hits (how often each of its iterations ran).        *)
(***************************************************************************)
EXTENDS Integers, Sequences, FiniteSets, SequencesExt, SpreadPartition

CONSTANTS Setups,          \* the instances: the workers of the pool, the faults of the queue,
                           \* the iterations of a spread, the user threads that call, what
                           \* else they call, and a bound on the calls made
          PoolSizes,       \* what set_max_allowed_threads may ask for
          NumCallers,      \* bound: user threads
          Items,           \* bound: the items that get fired, each once
          Spreads,         \* bound: the spread calls that get made
          MaxDepth,        \* bound: depth of calls from within work
          StickyDepth,     \* sticky_dispatch_depth
          DivisionMin, DivisionMax,  \* spread_work_stealing_division_min / max
          HCRange,         \* values of hardware_concurrency_t
          SizeRange        \* values of size_t

\* The queue may run out of memory: in a fire, in dispatch_workers ("part"), in a bulk
\* enqueue; and a consumer without a token may see a queue as empty ("look").
Faults == {"fire", "part", "bulk", "look"}

ASSUME ShopAssumption ==
  /\ Setups \subseteq [workers : Nat, faults : SUBSET Faults, iterations : SUBSET (Nat \ {0}),
                        callers : Nat, may : SUBSET {"fire", "resize", "stop"}, calls : Nat]
  /\ PoolSizes \subseteq Nat /\ NumCallers \in Nat \ {0}
  /\ IsFiniteSet(PoolSizes) /\ IsFiniteSet({s.workers : s \in Setups})
  /\ DivisionMin \in Nat \ {0} /\ DivisionMax \in Nat /\ DivisionMin <= DivisionMax
  /\ HCRange \in Nat \ {0} /\ SizeRange \in Nat \ {0}

VARIABLES setup, pool, queue, tokens, workItems, inFlight, rotor, brexit, division, barrier,
          stack, firer, accepted, ran, calls, hits

shared  == <<workItems, inFlight, rotor, brexit, division>>
history == <<firer, accepted, ran, calls, hits>>
vars == <<setup, pool, queue, tokens, shared, barrier, stack, history>>

Most    == Max(PoolSizes \cup {s.workers : s \in Setups})
Workers == 0..(pool - 1)
Callers == Most..(Most + NumCallers - 1)
Threads == 0..(Most + NumCallers - 1)
NoOne   == -1

ItemWork(i)     == [kind |-> "item", id |-> i]
ChunkWork(s, c) == [kind |-> "chunk", id |-> s, from |-> c.from, to |-> c.to]

WorkerFrame(pc)  == [pc |-> pc, seen |-> {}]
RunFrame(w)      == [pc |-> "body", work |-> w]
FireFrame(pc, i, w, ok) == [pc |-> pc, item |-> i, target |-> w, ok |-> ok]

\* The next step of a thread; "idle" outside of any call.
Top(t) == stack[t][Len(stack[t])]
pc(t)  == IF stack[t] = <<>> THEN "idle" ELSE Top(t).pc

Goto(t, f)        == stack' = [stack EXCEPT ![t] = Append(Front(@), f)]
GotoPc(t, l)      == Goto(t, [Top(t) EXCEPT !.pc = l])
Enter(t, f)       == stack' = [stack EXCEPT ![t] = Append(@, f)]
GotoEnter(t, f, g) == stack' = [stack EXCEPT ![t] = Append(Append(Front(@), f), g)]
Leave(t)          == stack' = [stack EXCEPT ![t] = Front(@)]

Notify(w) == tokens' = [tokens EXCEPT ![w] = @ + 1]

AddItems(n)  == workItems' = (workItems + n) % HCRange
AddFlight(n) == inFlight' = (inFlight + n) % SizeRange

Init ==
  /\ setup \in Setups /\ pool = setup.workers
  /\ queue = [t \in Threads |-> <<>>]
  /\ tokens = [w \in 0..(Most - 1) |-> 0]
  /\ workItems = 0 /\ inFlight = 0 /\ rotor = 0 /\ brexit = FALSE
  /\ division = DivisionMin
  /\ barrier = [s \in Spreads |-> 0]
  /\ stack = [t \in Threads |-> IF t \in Workers THEN <<WorkerFrame("own")>> ELSE <<>>]
  /\ firer = [i \in Items |-> NoOne]
  /\ accepted = {}
  /\ ran = [i \in Items |-> 0]
  /\ calls = [s \in Spreads |-> "new"]
  /\ hits = [s \in Spreads |-> <<>>]
--------------------------------------------------------------------------------
(* The worker loop *)

\* dequeue_from_producer( work, *producer_token ), then the stealing loop.
OwnDequeue(w) ==
  /\ w \in Workers /\ pc(w) = "own"
  /\ IF queue[w] # <<>>
       THEN /\ Enter(w, RunFrame(Head(queue[w])))
            /\ queue' = [queue EXCEPT ![w] = Tail(@)]
       ELSE Goto(w, WorkerFrame("steal")) /\ UNCHANGED queue
  /\ UNCHANGED <<setup, pool, tokens, shared, barrier, history>>

\* dequeue( work, consumer_token ): takes the oldest work of any producer ...
StealTake(t) ==
  /\ pc(t) \in {"steal", "caller_steal"}
  /\ \E p \in Threads :
       /\ queue[p] # <<>>
       /\ queue' = [queue EXCEPT ![p] = Tail(@)]
       /\ GotoEnter(t, [Top(t) EXCEPT !.seen = {}], RunFrame(Head(queue[p])))
  /\ UNCHANGED <<setup, pool, tokens, shared, barrier, history>>

\* Mutant: a thread of a shop that is told to stop walks past everything.
StealLookExiting(t) ==
  /\ pc(t) \in {"steal", "caller_steal"} /\ Top(t).seen # Threads
  /\ LET passed == {p \in Threads : queue[p] = <<>> \/ brexit}
     IN  /\ ~(passed \subseteq Top(t).seen)
         /\ Goto(t, [Top(t) EXCEPT !.seen = @ \cup passed])
  /\ UNCHANGED <<setup, pool, queue, tokens, shared, barrier, history>>

\* ... or walks past those that are empty when it looks at them.
StealLook(t) ==
  /\ pc(t) \in {"steal", "caller_steal"} /\ Top(t).seen # Threads
  /\ LET passed == {p \in Threads : queue[p] = <<>> \/ "look" \in setup.faults}
     IN  /\ ~(passed \subseteq Top(t).seen)
         /\ Goto(t, [Top(t) EXCEPT !.seen = @ \cup passed])
  /\ UNCHANGED <<setup, pool, queue, tokens, shared, barrier, history>>

\* Every producer was empty at some moment of the walk: the dequeue fails.
StealEnds(t) ==
  /\ pc(t) \in {"steal", "caller_steal"} /\ Top(t).seen = Threads
  /\ Goto(t, [Top(t) EXCEPT !.seen = {}, !.pc = IF @ = "steal" THEN "exit" ELSE "join"])
  /\ UNCHANGED <<setup, pool, queue, tokens, shared, barrier, history>>

ExitCheck(w) ==
  /\ pc(w) = "exit"
  /\ GotoPc(w, IF brexit THEN "gone" ELSE "wait")
  /\ UNCHANGED <<setup, pool, queue, tokens, shared, barrier, history>>

\* work_event.wait( worker_spin_count )
Wait(w) ==
  /\ pc(w) = "wait" /\ tokens[w] > 0
  /\ tokens' = [tokens EXCEPT ![w] = @ - 1]
  /\ GotoPc(w, "woken")
  /\ UNCHANGED <<setup, pool, queue, shared, barrier, history>>

\* The loop resumes after a wake-up: number_of_items, then propagate_spread_wake.
Woken(w) ==
  /\ pc(w) = "woken"
  /\ GotoPc(w, IF workItems # 0 /\ 2 * w + 1 < pool THEN "left" ELSE "own")
  /\ UNCHANGED <<setup, pool, queue, tokens, shared, barrier, history>>

WakeLeft(w) ==
  /\ pc(w) = "left"
  /\ Notify(2 * w + 1)
  /\ GotoPc(w, IF 2 * w + 2 < pool THEN "right" ELSE "own")
  /\ UNCHANGED <<setup, pool, queue, shared, barrier, history>>

WakeRight(w) ==
  /\ pc(w) = "right"
  /\ Notify(2 * w + 2)
  /\ GotoPc(w, "own")
  /\ UNCHANGED <<setup, pool, queue, shared, barrier, history>>

WorkerStep(w) == \/ OwnDequeue(w) \/ ExitCheck(w) \/ Wait(w)
                 \/ Woken(w) \/ WakeLeft(w) \/ WakeRight(w)
--------------------------------------------------------------------------------
(* Running work: on a worker, on a stealing caller, or the caller's own part *)

\* The functor returns: a fired item counts itself out of g_in_flight, a chunk
\* arrives at its spread's barrier.
FinishBody(t) ==
  /\ pc(t) = "body"
  /\ LET w == Top(t).work
     IN  IF w.kind = "item"
           THEN /\ ran' = [ran EXCEPT ![w.id] = @ + 1]
                /\ AddFlight(-1)
                /\ UNCHANGED <<setup, pool, barrier, hits>>
           ELSE /\ hits' = [hits EXCEPT ![w.id] =
                     [i \in DOMAIN @ |-> IF i \in (w.from + 1)..w.to THEN @[i] + 1 ELSE @[i]]]
                /\ barrier' = [barrier EXCEPT ![w.id] = @ - 1]
                /\ UNCHANGED <<setup, pool, ran, inFlight>>
  /\ GotoPc(t, "completed")
  /\ UNCHANGED <<setup, pool, queue, tokens, workItems, rotor, brexit, division, firer, accepted, calls>>

\* Mutant: the counter is not taken down.
WorkCompletedDropped(t) ==
  /\ pc(t) = "completed"
  /\ Leave(t)
  /\ UNCHANGED <<setup, pool, queue, tokens, shared, barrier, history>>

\* work_completed()
WorkCompleted(t) ==
  /\ pc(t) = "completed"
  /\ AddItems(-1)
  /\ Leave(t)
  /\ UNCHANGED <<setup, pool, queue, tokens, inFlight, rotor, brexit, division, barrier, history>>

RunStep(t) == FinishBody(t) \/ WorkCompleted(t)

\* Nobody is destroying the shop, or its pool.
InService == \A c \in Callers : pc(c) \notin {"stop", "stop_wake", "create", "stopped"}

MoreCalls == Cardinality({i \in Items : firer[i] # NoOne}) + Cardinality({s \in Spreads : calls[s] # "new"})
               + (IF pool = setup.workers THEN 0 ELSE 1) < setup.calls

Users == {c \in Callers : c < Most + setup.callers}

\* User code runs: a user thread outside the shop (which must exist, and not be
\* in its destructor), or the body of work.
UserCode(t) ==
  \/ t \in Users /\ pc(t) = "idle" /\ InService
  \/ pc(t) = "body" /\ Len(stack[t]) <= MaxDepth
--------------------------------------------------------------------------------
(* fire_and_forget, fire_with_after, dispatch*: create_fire_and_destroy *)

FireCall(t, i) ==
  /\ UserCode(t) /\ "fire" \in setup.may /\ firer[i] = NoOne /\ pool > 0 /\ MoreCalls
  /\ firer' = [firer EXCEPT ![i] = t]
  /\ Enter(t, FireFrame("target", i, NoOne, FALSE))
  /\ UNCHANGED <<setup, pool, queue, tokens, shared, barrier, accepted, ran, calls, hits>>

\* next_dispatch_target: stay on the rotor's worker unless its backlog is deep ...
FireTarget(t) ==
  /\ pc(t) = "target"
  /\ LET target == rotor % pool
     IN  Goto(t, FireFrame(IF tokens[target] > StickyDepth THEN "spill" ELSE "enqueue",
                           Top(t).item, target, FALSE))
  /\ UNCHANGED <<setup, pool, queue, tokens, shared, barrier, history>>

\* ... and else advance the rotor, from wherever it is by now.
FireSpill(t) ==
  /\ pc(t) = "spill"
  /\ rotor' = rotor + 1
  /\ Goto(t, FireFrame("enqueue", Top(t).item, rotor' % pool, FALSE))
  /\ UNCHANGED <<setup, pool, queue, tokens, workItems, inFlight, brexit, division, barrier, history>>

\* worker_thread::enqueue: the queue's answer, and then notify() in any case.
FireEnqueue(t) ==
  /\ pc(t) = "enqueue"
  /\ LET f == Top(t)
     IN  \/ /\ queue' = [queue EXCEPT ![f.target] = Append(@, ItemWork(f.item))]
            /\ Goto(t, FireFrame("notify", f.item, f.target, TRUE))
         \/ /\ "fire" \in setup.faults
            /\ UNCHANGED queue
            /\ Goto(t, FireFrame("notify", f.item, f.target, FALSE))
  /\ UNCHANGED <<setup, pool, tokens, shared, barrier, history>>

\* Mutant: no wake-up.
FireNotifyDropped(t) ==
  /\ pc(t) = "notify"
  /\ GotoPc(t, "count")
  /\ UNCHANGED <<setup, pool, queue, tokens, shared, barrier, history>>

FireNotify(t) ==
  /\ pc(t) = "notify"
  /\ Notify(Top(t).target)
  /\ GotoPc(t, "count")
  /\ UNCHANGED <<setup, pool, queue, shared, barrier, history>>

\* work_added( enqueue_succeeded ): work_items_, then in_flight_inc.
FireCount(t) ==
  /\ pc(t) = "count"
  /\ AddItems(IF Top(t).ok THEN 1 ELSE 0)
  /\ GotoPc(t, "track")
  /\ UNCHANGED <<setup, pool, queue, tokens, inFlight, rotor, brexit, division, barrier, history>>

FireTrack(t) ==
  /\ pc(t) = "track"
  /\ AddFlight(IF Top(t).ok THEN 1 ELSE 0)
  /\ accepted' = IF Top(t).ok THEN accepted \cup {Top(t).item} ELSE accepted
  /\ Leave(t)
  /\ UNCHANGED <<setup, pool, queue, tokens, workItems, rotor, brexit, division, barrier,
                 firer, ran, calls, hits>>

FireStep(t) == \/ FireTarget(t) \/ FireSpill(t) \/ FireEnqueue(t) \/ FireNotify(t)
               \/ FireCount(t) \/ FireTrack(t)
--------------------------------------------------------------------------------
(* spread_the_sweat: spread_work *)

SpreadFrame(l, s, chunks, callerEnd, wait) ==
  [pc |-> l, id |-> s, chunks |-> chunks, k |-> 1, callerEnd |-> callerEnd,
   wait |-> wait, seen |-> {}]

SpreadCall(t, s, n) ==
  /\ UserCode(t) /\ calls[s] = "new" /\ MoreCalls
  /\ calls' = [calls EXCEPT ![s] = "active"]
  /\ hits' = [hits EXCEPT ![s] = [i \in 1..n |-> 0]]
  /\ Enter(t, SpreadFrame("look", s, <<>>, n, FALSE))
  /\ UNCHANGED <<setup, pool, queue, tokens, shared, barrier, firer, accepted, ran>>

\* The path that a spread takes, by number_of_items() at its start: a recursive
\* call of a busy shop, or any call of a busy one without workers, keeps everything
\* to itself; an idle shop gets slices in the workers' own queues; a busy one gets
\* its parts through the shared queue.
SpreadPath(t, s, n, items) ==
  LET plan == Plan(n, 1, pool, items)
  IN  IF items > 0 /\ (pool = 0 \/ t \in Workers)
        THEN SpreadFrame("alone", s, <<>>, n, FALSE)
      ELSE IF items = 0
        THEN LET parts == WorkerParts(plan, n, division)
             IN  SpreadFrame(IF parts = <<>> THEN "own_work" ELSE "part",
                             s, parts, plan.callerEnd, FALSE)
      ELSE SpreadFrame(IF plan.dispatched = 0 THEN "own_work" ELSE "bulk_init",
                       s, BulkChunks(plan), plan.callerEnd, plan.wait)

SpreadLook(t) ==
  /\ pc(t) = "look"
  /\ Goto(t, SpreadPath(t, Top(t).id, Top(t).callerEnd, workItems))
  /\ UNCHANGED <<setup, pool, queue, tokens, shared, barrier, history>>

\* dispatch_workers, one part: its slices are counted, ...  (One after the other in the
\* code.  Only work_items_ shows it: another spread that looks in between may be cut
\* into more parts; nothing is concluded from the number that it reads.)
PartCount(t) ==
  /\ pc(t) = "part"
  /\ LET f == Top(t)
         m == Len(f.chunks[f.k])
     IN  /\ barrier' = [barrier EXCEPT ![f.id] = @ + m]
         /\ AddItems(m)
  /\ GotoPc(t, "part_enqueue")
  /\ UNCHANGED <<setup, pool, queue, tokens, inFlight, rotor, brexit, division, history>>

NextPart(f) == IF f.k = Len(f.chunks) THEN [f EXCEPT !.pc = "own_work"]
               ELSE [f EXCEPT !.pc = "part", !.k = @ + 1]

\* Mutant: the slices of every part go to the first worker.
PartEnqueueFirst(t) ==
  /\ pc(t) = "part_enqueue"
  /\ LET f == Top(t)
     IN  /\ queue' = [queue EXCEPT ![0] =
              @ \o [j \in 1..Len(f.chunks[1]) |-> ChunkWork(f.id, f.chunks[1][j])]]
         /\ Goto(t, IF f.k = 1 THEN [f EXCEPT !.pc = "part_notify"] ELSE NextPart(f))
  /\ UNCHANGED <<setup, pool, tokens, shared, barrier, history>>

\* ... put into the worker's queue, whose refusal nothing looks at, and the first
\* worker only is woken.
PartEnqueue(t) ==
  /\ pc(t) = "part_enqueue"
  /\ LET f == Top(t)
     IN  /\ \/ queue' = [queue EXCEPT ![f.k - 1] =
                 @ \o [j \in 1..Len(f.chunks[f.k]) |-> ChunkWork(f.id, f.chunks[f.k][j])]]
            \/ "part" \in setup.faults /\ UNCHANGED queue
         /\ Goto(t, IF f.k = 1 THEN [f EXCEPT !.pc = "part_notify"] ELSE NextPart(f))
  /\ UNCHANGED <<setup, pool, tokens, shared, barrier, history>>

PartNotify(t) ==
  /\ pc(t) = "part_notify"
  /\ Notify(0)
  /\ Goto(t, NextPart(Top(t)))
  /\ UNCHANGED <<setup, pool, queue, shared, barrier, history>>

\* The shared queue: count, initialize the barrier, enqueue_bulk ...
BulkInit(t) ==
  /\ pc(t) = "bulk_init"
  /\ AddItems(Len(Top(t).chunks))
  /\ barrier' = [barrier EXCEPT ![Top(t).id] = Len(Top(t).chunks)]
  /\ GotoPc(t, "bulk_enqueue")
  /\ UNCHANGED <<setup, pool, queue, tokens, inFlight, rotor, brexit, division, history>>

BulkEnqueue(t) ==
  /\ pc(t) = "bulk_enqueue"
  /\ LET f == Top(t)
     IN  \/ /\ queue' = [queue EXCEPT ![t] =
                 @ \o [j \in 1..Len(f.chunks) |-> ChunkWork(f.id, f.chunks[j])]]
            /\ GotoPc(t, "bulk_wake")
         \/ /\ "bulk" \in setup.faults
            /\ UNCHANGED queue
            /\ GotoPc(t, "bulk_undo")
  /\ UNCHANGED <<setup, pool, tokens, shared, barrier, history>>

\* ... wake_all_workers ...
BulkWake(t) ==
  /\ pc(t) = "bulk_wake"
  /\ Notify(Top(t).k - 1)
  /\ Goto(t, IF Top(t).k = pool THEN [Top(t) EXCEPT !.pc = "own_work"]
             ELSE [Top(t) EXCEPT !.k = @ + 1])
  /\ UNCHANGED <<setup, pool, queue, shared, barrier, history>>

\* ... or, with nothing enqueued, the caller does it all; the items stay counted.
BulkUndo(t) ==
  /\ pc(t) = "bulk_undo"
  /\ barrier' = [barrier EXCEPT ![Top(t).id] = 0]
  /\ Goto(t, [Top(t) EXCEPT !.pc = "own_work", !.callerEnd = Len(hits[Top(t).id])])
  /\ UNCHANGED <<setup, pool, queue, tokens, shared, history>>

\* Mutant: the caller's own part is not expected at the barrier.
CallerWorkUnexpected(t) ==
  /\ pc(t) \in {"alone", "own_work"} /\ Top(t).callerEnd > 0
  /\ LET f == Top(t)
     IN  /\ AddItems(1)
         /\ GotoEnter(t, [f EXCEPT !.pc = IF @ = "alone" THEN "return"
                                          ELSE IF f.wait THEN "join" ELSE "caller_steal"],
                      RunFrame(ChunkWork(f.id, Chunk(0, f.callerEnd))))
  /\ UNCHANGED <<setup, pool, queue, tokens, inFlight, rotor, brexit, division, barrier, history>>

\* perform_caller_work, for the whole of a recursive spread or for the caller's part.
CallerWork(t) ==
  /\ pc(t) \in {"alone", "own_work"} /\ Top(t).callerEnd > 0
  /\ LET f == Top(t)
     IN  /\ barrier' = [barrier EXCEPT ![f.id] = @ + 1]
         /\ AddItems(1)
         /\ GotoEnter(t, [f EXCEPT !.pc = IF @ = "alone" THEN "return"
                                          ELSE IF f.wait THEN "join" ELSE "caller_steal"],
                      RunFrame(ChunkWork(f.id, Chunk(0, f.callerEnd))))
  /\ UNCHANGED <<setup, pool, queue, tokens, inFlight, rotor, brexit, division, history>>

\* queue_and_wait: no part for the caller and no stealing.
CallerWaits(t) ==
  /\ pc(t) = "own_work" /\ Top(t).callerEnd = 0
  /\ GotoPc(t, "join")
  /\ UNCHANGED <<setup, pool, queue, tokens, shared, barrier, history>>

\* everyone_arrived() looks at the counter through hardware_concurrency_t, wait()
\* at the futex word itself.
EveryoneArrived(f) ==
  IF f.wait THEN barrier[f.id] = 0 ELSE barrier[f.id] % HCRange = 0

\* Mutant: the caller does not wait.
JoinEarly(t) ==
  /\ pc(t) = "join"
  /\ GotoPc(t, "return")
  /\ UNCHANGED <<setup, pool, queue, tokens, shared, barrier, history>>

\* The join: at once, after a wait, or, having spun, with the adaptive division
\* raised (a lost compare-exchange, or a join that did not stall, leaves it).
Join(t) ==
  /\ pc(t) = "join" /\ EveryoneArrived(Top(t))
  /\ division' \in IF Top(t).wait THEN {division}
                   ELSE {division, Smaller(division + 1, DivisionMax)}
  /\ GotoPc(t, "return")
  /\ UNCHANGED <<setup, pool, queue, tokens, workItems, inFlight, rotor, brexit, barrier, history>>

SpreadReturn(t) ==
  /\ pc(t) = "return"
  /\ calls' = [calls EXCEPT ![Top(t).id] = "returned"]
  /\ Leave(t)
  /\ UNCHANGED <<setup, pool, queue, tokens, shared, barrier, firer, accepted, ran, hits>>

SpreadStep(t) ==
  \/ SpreadLook(t) \/ PartCount(t) \/ PartEnqueue(t) \/ PartNotify(t)
  \/ BulkInit(t) \/ BulkEnqueue(t) \/ BulkWake(t) \/ BulkUndo(t)
  \/ CallerWork(t) \/ CallerWaits(t) \/ Join(t) \/ SpreadReturn(t)
--------------------------------------------------------------------------------
(* stop_and_destroy_pool: by the destructor, or by set_max_allowed_threads, which
   creates another pool.  No other user thread is inside the shop. *)

StopFrame(l, then) == [pc |-> l, k |-> 0, then |-> then]

\* The callers are done with the shop.
StopCall(t) ==
  /\ t \in Users /\ "stop" \in setup.may /\ \A c \in Callers : pc(c) = "idle"
  /\ Enter(t, StopFrame("stop", "stopped"))
  /\ UNCHANGED <<setup, pool, queue, tokens, shared, barrier, history>>

\* "Cannot change parallelism level while items are in queue" (they may be running);
\* bound: done once.
ResizeCall(t) ==
  /\ t \in Users /\ "resize" \in setup.may /\ \A c \in Callers : pc(c) = "idle"
  /\ pool = setup.workers /\ PoolSizes \ {pool} # {} /\ MoreCalls
  /\ \A p \in Threads : queue[p] = <<>>
  /\ Enter(t, StopFrame("stop", "create"))
  /\ UNCHANGED <<setup, pool, queue, tokens, shared, barrier, history>>

StopFlag(t) ==
  /\ pc(t) = "stop"
  /\ brexit' = TRUE
  /\ GotoPc(t, "stop_wake")
  /\ UNCHANGED <<setup, pool, queue, tokens, workItems, inFlight, rotor, division, barrier, history>>

\* Mutant: the last worker is not woken.
StopWakeOneShort(t) ==
  /\ pc(t) = "stop_wake" /\ Top(t).k < pool
  /\ IF Top(t).k = pool - 1 THEN UNCHANGED tokens ELSE Notify(Top(t).k)
  /\ Goto(t, [Top(t) EXCEPT !.k = @ + 1])
  /\ UNCHANGED <<setup, pool, queue, shared, barrier, history>>

\* wake_all_workers
StopWake(t) ==
  /\ pc(t) = "stop_wake" /\ Top(t).k < pool
  /\ Notify(Top(t).k)
  /\ Goto(t, [Top(t) EXCEPT !.k = @ + 1])
  /\ UNCHANGED <<setup, pool, queue, shared, barrier, history>>

\* The threads are joined; create_pool clears the flag, unless it has nothing to make,
\* and makes other workers ...
StopJoin(t) ==
  /\ pc(t) = "stop_wake" /\ Top(t).k = pool
  /\ \A w \in Workers : pc(w) = "gone"
  /\ IF Top(t).then = "stopped" THEN GotoPc(t, "stopped") /\ UNCHANGED <<pool, tokens, brexit>>
     ELSE /\ pool' \in PoolSizes \ {pool}
          /\ tokens' = [w \in DOMAIN tokens |-> 0]
          /\ brexit' = (pool' = 0)
          /\ stack' = [p \in Threads |-> IF p \in Workers THEN <<>>
                                         ELSE IF p = t THEN <<StopFrame("create", "")>> ELSE stack[p]]
  /\ UNCHANGED <<setup, queue, workItems, inFlight, rotor, division, barrier, history>>

\* ... which it starts one by one.
CreateNext(t) ==
  /\ pc(t) = "create"
  /\ LET k == Top(t).k
     IN  IF k < pool THEN stack' = [stack EXCEPT ![t] = <<[Top(t) EXCEPT !.k = @ + 1]>>,
                                                 ![k] = <<WorkerFrame("own")>>]
                     ELSE Leave(t)
  /\ UNCHANGED <<setup, pool, queue, tokens, shared, barrier, history>>

StopStep(t) == StopFlag(t) \/ StopWake(t) \/ StopJoin(t) \/ CreateNext(t)
--------------------------------------------------------------------------------
\* What a thread does once it has been called; user functors return in the end.
Progress(t) == \/ WorkerStep(t) \/ StealTake(t) \/ StealLook(t) \/ StealEnds(t) \/ RunStep(t)
               \/ FireStep(t) \/ SpreadStep(t) \/ StopStep(t)

Call(t) == \/ \E i \in Items : FireCall(t, i)
           \/ \E s \in Spreads, n \in setup.iterations : SpreadCall(t, s, n)
           \/ StopCall(t) \/ ResizeCall(t)

Next == \E t \in Threads : Progress(t) \/ Call(t)

SafeSpec == Init /\ [][Next]_vars

Spec == SafeSpec /\ \A t \in Threads : WF_vars(Progress(t))
--------------------------------------------------------------------------------
\* Nothing is run twice, neither an item nor an iteration that an owner, a late wake or
\* several thieves go for; and a spread that returns has run every iteration.
SpreadComplete ==
  /\ \A i \in Items : ran[i] <= 1
  /\ \A s \in Spreads : \A i \in DOMAIN hits[s] :
       hits[s][i] <= 1 /\ (calls[s] = "returned" => hits[s][i] = 1)

Bodies(t) == {k \in 1..Len(stack[t]) : stack[t][k].pc = "body"}

\* The barrier and the functor live on the stack of the spreading thread: work that
\* still refers to them, queued or running, belongs to a spread that has not returned.
WorkOutlivesNoSpread ==
  \A t \in Threads :
    /\ \A w \in ToSet(queue[t]) : w.kind = "chunk" => calls[w.id] = "active"
    /\ \A k \in Bodies(t) : LET w == stack[t][k].work
                            IN  w.kind = "chunk" => calls[w.id] = "active"

ChunkOf(w, s) == w.kind = "chunk" /\ w.id = s

Queued(s) == UNION {{t} \X {k \in 1..Len(queue[t]) : ChunkOf(queue[t][k], s)} : t \in Threads}

Running(s) == UNION {{t} \X {k \in Bodies(t) : ChunkOf(stack[t][k].work, s)} : t \in Threads}

\* Counted at the barrier, not queued yet (or refused, and not taken back yet).
Counted(s) ==
  UNION {{t} \X (IF pc(t) = "part_enqueue" /\ Top(t).id = s THEN 1..Len(Top(t).chunks[Top(t).k])
                  ELSE IF pc(t) \in {"bulk_enqueue", "bulk_undo"} /\ Top(t).id = s
                         THEN 1..Len(Top(t).chunks)
                  ELSE {}) : t \in Threads}

\* dispatch_workers takes the enqueue for granted (BOOST_VERIFY): what a spread's
\* barrier expects is there, in a queue or running, and nothing else is.
BarrierExact ==
  \A s \in Spreads :
    barrier[s] = Cardinality(Queued(s)) + Cardinality(Running(s)) + Cardinality(Counted(s))

Asleep(w) == pc(w) = "wait" /\ tokens[w] = 0
Joins(t)  == pc(t) = "join" /\ ~EveryoneArrived(Top(t))

\* The pool sleeps, and the user threads are outside of the shop or wait for work that is
\* not done.
Stuck ==
  /\ \A w \in Workers : Asleep(w)
  /\ \A c \in Callers : pc(c) # "idle" => Joins(c)

\* When the pool sleeps and the user threads are done or wait, no work is left in a queue
\* and nobody waits for any: no wake-up of a fire or of a bulk was lost, and no two user
\* threads wait for work that is under the other one's wait.  A worker that waits does not
\* sleep: that is NoDeadlock.  And consumers find what is queued here; where they may miss
\* it the wake tree has to do, and does not: SkippedWorkDone.
NoStrandedWork ==
  Stuck => /\ \A t \in Threads : queue[t] = <<>>
           /\ \A c \in Callers : pc(c) = "idle"

\* A worker has been told of work: somebody is about to notify it.
BeingWoken(w) ==
  \E t \in Threads : (pc(t) = "notify" /\ Top(t).target = w) \/ (pc(t) = "part_notify" /\ w = 0)

\* What a worker is woken for by whoever queues it: an item, or the first worker's part
\* of a spread.  No worker sleeps on it, whatever consumers miss and queues refuse: its
\* wake-up has been sent, or is about to be, after the work was queued.
WakesArrive ==
  \A w \in Workers :
    Asleep(w) /\ (\E x \in ToSet(queue[w]) : x.kind = "item" \/ w = 0) => BeingWoken(w)

\* propagate_spread_wake: "a chain that skips a worker [...] simply means the remaining
\* work is done by the already-awake threads and the (always-participating,
\* work-stealing) caller": they do not all sleep, or wait for it, with it undone.
SkippedWorkDone ==
  ~ \E c \in Callers : Joins(c) /\ \A w \in Workers : Asleep(w)

\* The two counters, which wrap below zero when an item runs before it is counted,
\* are back at zero when the shop is at rest.
CountersSettle == Stuck => workItems = 0 /\ inFlight = 0

\* A worker leaves only when what work on the pool has fired is done: an item fired
\* from within a worker's work is run before the pool is gone.
NestedFiresDrained ==
  (\A w \in Workers : pc(w) = "gone") =>
    \A i \in accepted : firer[i] \notin Callers => ran[i] = 1

\* dispatch_tracking.hpp: fire_and_forget "increments before the work is queued", so
\* that a count of zero means that what has been fired is done.
IdleMeansDone == inFlight = 0 => \A i \in accepted : ran[i] = 1

\* The shop is destroyed: what a user thread fired last may be left behind.
Destroyed == \E c \in Callers : pc(c) \in {"stop", "stop_wake", "stopped"} /\ Top(c).then = "stopped"

\* The number of calls is bounded, so what comes to pass again and again comes to pass
\* after the last of them, too.
\* Every accepted item is run in the end, by this pool or by the next one.
ItemsRun == []<>(Destroyed \/ \A i \in accepted : ran[i] = 1)

\* "A dispatcher which supports concurrent and recursive dispatches": not everyone who is
\* in the shop waits for another, a worker of the pool neither.
NoDeadlock ==
  (\E t \in Threads : Joins(t)) =>
    \E t \in Threads : ~(pc(t) = "idle" \/ Asleep(t) \/ Joins(t))

\* Every one of two spreads returns in the end, one inside or beside the other; with three
\* and a race they need not (NoDeadlock).
SpreadsReturn == []<>(\A s \in Spreads : calls[s] # "active")

\* The join of the pool comes to an end: the shop is gone, or another pool in service.
StopTerminates == []<>(InService \/ \E c \in Callers : pc(c) = "stopped")
================================================================================
