# A TLA+ model of sweater

sweater (`psi::sweater`, `psi::thrd_lite`) is a C++ library with a fork-join
thread pool ("sweat shop") and the small synchronisation primitives it is built
on. This directory models its concurrent core, checks it with TLC on small
instances and proves most of it with TLAPS: both semaphores and both completion barriers,
which implement what they promise, the reader-writer mutexes, the start of a thread,
promises and futures, and the spreads and items of every shop. Paths
below are relative to `include/psi/sweater/` of the repository.

## 1. Inventory

| Part | State | Operations | Used by |
|---|---|---|---|
| futex (`threading/futex.hpp`, per platform) | a 32-bit word | `wait_if_equal`, `wake_one`, `wake`, `wake_all(bits)` | the three below |
| futex semaphore (`futex_semaphore.cpp`) | `value_`, `credits_`, `sleepers_` | `signal(n)`, `wait()`, `wait(spin)` | a worker's `event_`, `future_state::completion_` |
| futex rw mutex (`futex_rw_mutex.*`), writer- and reader-preferring | one word: writer-locked, writer-waiting and reader-parked bits, reader count | `acquire/try_acquire/release` for `ro` and `rw` | users |
| futex barrier (`futex_barrier.*`) | `counter_`, `spin_wait_`, on the spreading thread's stack | `initialize`, `add_expected_arrival`, `arrive`, `spin_wait`, `wait` | every spread |
| partition (`impls/generic.cpp`, `spread_chunked.*`) | none | cutting a range into parts, slices and chunks | every spread |
| generic shop (`impls/generic.*`) | the moodycamel queue, `work_items_`, `dispatch_rotor_`, `brexit_`, the adaptive division, a semaphore per worker | worker loop, `fire_and_forget`, `spread_the_sweat`, `dispatch*`, destructor | users; work may call it again |
| dispatch tracking (`dispatch_tracking.hpp`) | `g_in_flight` | `in_flight_inc/dec`, `wait_until_idle` | the generic, Windows, Apple and libuv shops |
| promise and future (`future.hpp`, `outcome_future.hpp`) | a slot: result, completion semaphore, `waited_`, `owners_` | `run`, `set_*`, `abandon`, `wait`, `get`, `release` | `dispatch_lite`, `dispatch_outcome` |
| libuv shop (`impls/libuv.*`) | `loop_`, `pending_`, a `spread_node` per spread, a latch per spread | `spread_the_sweat`, `fire_with_after`, `bind_loop`, `unbind_loop`, the loop's callbacks | Node.js embedders |
| condvar semaphore and barrier (`generic_semaphore.cpp`, `generic_barrier.*`) | mutex, condition variable, counters | as their futex twins | platforms without futex |
| rw mutexes over the OS (`rw_mutex.hpp`, `rrw_mutex.hpp`, `read_recursion_registry.hpp`) | the OS's lock, per-thread list of held mutexes and depths | `acquire/try_acquire/release`, `enter`, `leave`, `bump_if_held` | users |
| Windows, Apple, OpenMP, single-threaded shop (`impls/*.hpp`) | per spread: chunk contexts, a latch; per item: its functor, `g_in_flight` | `spread_the_sweat`, `fire_and_forget`, `fire_with_after`, `dispatch*` | users on those platforms |
| thread (`threading/thread.hpp`) | start-up context in the starter's frame: flag, mutex, condition | `operator=( functor )`, `create`, `join` | the generic shop, users |
| hardware concurrency (`threading/hardware_concurrency.cpp`) | one constant | CPU quotas of the cgroups | all shops |
| OS mutexes and condition variables, spin lock, build | the platform's | thin calls | |

How the parts interact: a fire puts work into one worker's sub-queue, signals
that worker's semaphore and counts the item; a spread cuts its range, counts the
pieces at a barrier on its own stack, hands them to the workers' queues, wakes
worker 0 (which wakes 1 and 2, and so on: the wake tree), runs its own part,
steals, and joins the barrier. Everybody may take anybody's work. A future is a
slot that the worker completes and the dispatcher waits for; the last of the two
deletes it.

What is hard in it, and where no test reaches reliably (PROJECT.json,
"hazards", has each with its line):

- lost wake-ups: registration against signal, announce bits against releases,
  parking against the last arrival, the wake tree against a counter that is
  already back at zero;
- lifetime: a barrier on a stack, a slot that both sides leave, a node that the
  caller, the queuer and libuv share;
- work that runs before it is counted; counters that wrap;
- a queue, an allocation or a request that is refused half way through;
- nested calls: spreads from work, read locks taken twice, spreads from the
  only thread of a pool or from the loop;
- rounding: remainders of parts and slices, shares of unequal clusters, quotas;
  8-bit counts;
- a pool that is replaced while work still runs, or that has no workers at all;
- a thread that is started from a frame, or cannot be started.

## 2. Modules

| Module | Models | Notes |
|---|---|---|
| `Futex` | what the primitives rely on: parks only if the word is as expected, wakes at least those it has to | every backend's outcomes, a wake of all listeners where bitsets are not supported |
| `Semaphore` | abstract counting semaphore | the promise of `semaphore.hpp` |
| `FutexSemaphore` | `futex_semaphore.cpp` | one action per atomic access; refines `Semaphore` |
| `GenericSemaphore` | `generic_semaphore.cpp` | mutex and condition variable; refines `Semaphore` |
| `Counting`, `CountingLemmas` | cardinalities of thread sets; stacks of frames, and the claims these have | the lemmas most proofs share |
| `FutexSemaphoreProofs` | the proofs about both semaphores, and those about either | |
| `FutexRWMutex` | both rw mutexes | `readerPreferring` is chosen in `Init` |
| `RRWMutex` | `posix/` and `windows/rw_mutex.hpp`, `rrw_mutex.hpp`, `read_recursion_registry.hpp` | the operating system's lock by what it may do |
| `FutexRWMutexProofs` | the proofs about all rw mutexes, and about whichever it is | |
| `Barrier` | abstract completion barrier | the promise of `barrier.hpp`: a join returns when all that was expected has arrived |
| `FutexBarrier` | barrier, its owner and workers, reuse of the address | refines `Barrier` |
| `GenericBarrier` | `generic_barrier.*`; EXTENDS `FutexBarrier` | `arrive` and `wait` under the mutex, the rest shared; refines `Barrier` |
| `BarrierProofs` | the proofs about both barriers and the start of threads | |
| `ThreadStart` | the assignment of a functor to a `thread` | |
| `SpreadPartition` | the arithmetic of `spread_work`, `dispatch_workers`, `configure_hmp`, `chunked_spread` and the platform shops' cuts | no state |
| `CpuLimits` | `hardware_concurrency.cpp` with container limits | no state |
| `Shop` | the generic shop; EXTENDS `SpreadPartition` | composes queue, semaphores (as their abstract specification), barriers (as their counter), partition |
| `ShopInvariant` | the proof that the cuts tile, and that of the inductive invariant of `Shop` | |
| `ShopProofs` | the proofs of what the invariant says about spreads, barriers and items | |
| `Future` | promise and future, by operations on a slot | no `Next` of its own |
| `PlatformShop` | the Windows, Apple, OpenMP and single-threaded shops, and every `dispatch`; EXTENDS `Future`, instantiates `SpreadPartition` | the system's pool by what it promises |
| `PlatformShopProofs` | the proofs about `PlatformShop`: promises and futures, spreads, items | |
| `Libuv` | the libuv shop | libuv itself by what the code relies on |
| `LibuvProofs` | the proofs about the libuv shop | |
| `MCSemaphore`, `MCRWMutex` | the alternatives of one interface: which one it is is chosen in the initial state, as the build or the caller chooses it | the state space is the sum of theirs |
| `MCArithmetic` | the enumeration of the inputs of `SpreadPartition` and `CpuLimits`, and the reference definitions | one variable, the input |
| `MCForkJoin` | what a spread is made of: its cuts (`MCArithmetic`), the start of threads, both barriers | which one is chosen in the initial state |
| other `MC*` | model values, and the machines of the shop's instances | |

State and steps:

- **FutexSemaphore.** `value`, `credits`, `sleepers` are the three atomics, `pc`
  the line a thread is at. `buffered` is the set of threads whose registration
  (an acquire read-modify-write) the signal side cannot see yet; the `seq_cst`
  fence (`WaitFence`) is enabled only once it is visible. Without it the model
  has the store-load reordering the fence is there for.
- **GenericSemaphore.** A critical section of the mutex is one step, because
  nothing but the `if ( to_wake < waiters_ )` of `signal()` looks at its state from
  outside; that read is a data race, and either branch may follow
  (`SignalChoose`). Two consequences are assumed: who asks for the mutex gets it in
  the end, and the macro `PSI_SWEATER_EXACT_WORKER_SELECTION` is 0 in this file, as
  none of its headers defines it (section 5).
- **RRWMutex.** The registry is the vector it is, with the swap of `leave()`, and
  shared by all mutexes of a thread. A mutex is plain (a debug build, where
  `on_ro_acquire` refuses a nested read), recursive (nested reads are counted) or
  the reader-preferring one of glibc, without a registry. The operating system's lock
  may make readers wait behind a waiting writer or not, which is all that POSIX and
  Windows say; only the reader-preferring one never does. Callers use it as they may:
  balanced, no read under an own write lock, and no blocking for a write lock while
  they hold something.
- **FutexRWMutex.** `word` is the state word as a record, `observed` each
  thread's local copy, which goes stale between load, compare-exchange and park.
  The wake of a release is a step of its own. A spurious failure of
  `compare_exchange_weak` is the same as a later load.
- **FutexBarrier.** The owner constructs one barrier after another at one
  address; `arrive` is the decrement, and then, for the last one, a `wake_one`
  that may come when the next barrier is already there.
- **GenericBarrier.** `lock` is the last arrival between its decrement and the end
  of `arrive()`. The owner's and the workers' other steps, which only touch the
  counter and `spin_wait_`, are `FutexBarrier`'s.
- **Shop.** Each thread has a stack of frames, so that work can fire and spread
  again. `queue[p]` is the sub-queue of producer token `p` (workers) or of a user
  thread's implicit producer. A stealing dequeue walks the producers and may pass
  each when it is empty *at that moment* (`StealLook`), so that the walk as a
  whole can miss work. With the fault "look" of its setup it may also pass one that is not
  empty, as the comment at `generic.cpp:218` grants. `workItems`, `inFlight` wrap.
  A part is counted before it is enqueued and a fire after it, as in the code; the code counts
  a part slice by slice (`generic.cpp:593`), `PartCount` in one step, which nothing can
  tell apart but a reader of `work_items_` that sees a smaller number above zero.
  `Setups` gives the machines of one run (workers, what may fail, iterations, how many user
  threads call, and whether they fire, resize and stop), one of which `Init` chooses. `ResizeCall` is `set_max_allowed_threads`: the pool is
  stopped and joined, and another is made. It may be called whenever the queue is
  empty, as the code asserts, which does not mean that nothing runs. A pool may have
  no workers: then a spread in a busy shop runs on its caller.
- **ThreadStart.** One starter makes one thread after another, so that a later
  start's context is at the address of an earlier one's. A notification comes
  after the flag that lets the starter leave, so that the condition may be gone by then,
  which is undefined. `Notifies` has two of its outcomes, that it reaches whoever waits at that
  address, or nobody; damage to what else may be there is not modelled (section 5). Every functor's way (pointer, frame, heap) is chosen by the
  caller's type in the code and freely here.
- **Future.** `set_value` up to the point where `wait()` can pass is one step
  (`RunWork`), what `signal()` still does to the slot after it another
  (`SignalTail`). The shops call these operations: a work item that runs completes its
  promise, one that is destroyed unrun abandons it.
- **PlatformShop.** `backend` is the shop. A callback that the system has accepted is
  in `queued`, and a thread of its own once it starts. Functors are followed from
  where they are put (packed in the context pointer, on the heap, in the caller's
  frame) to their destruction; contexts, latch and functor of a spread are in the
  caller's frame and must not be used after its return. `TrySubmitThreadpoolCallback` and the
  allocation may fail where the code handles it. `std::promise` and `std::async` (by which
  `dispatch()` completes) are external. Fires of the OpenMP and single-threaded shops
  are not counted in `g_in_flight`, although `dispatch_tracking.hpp:4` says that
  every fire is; `IdleMeansDone` speaks of the shops that do (`Tracked`).
- **SpreadPartition, CpuLimits** are operators. The capacities of clusters, floats in the
  code, are integers here; the product `iterations * power` has its width
  (`ProductRange`); the index of a chunk and the number of longer chunks are narrowed to
  `hardware_concurrency_t` (`ChunkRange`). `CallerAlone`, the path of a busy shop without
  workers, is compiled for Linux other than Android only; elsewhere the code assumes that a pool has a
  worker. A cgroup hierarchy is a function from paths to quotas.
- **Libuv.** The pool's queue, the after-work queue and the coalescing async
  flag are the environment. Claims of chunks are critical sections of the
  node's spin lock and therefore single steps. The push on `pending_` is one
  step (its retry loop touches only the caller's own node); the push and
  `uv_async_send` are two. An item is `called` when it is counted and `accepted` when it
  is queued.

## 3. Runs

| Run | Bounds | Shows |
|---|---|---|
| `semaphore` | 3 threads, `signal(1)`, `signal(2)`, at most 1 token in hand, futex or condvar | types, exact credits, no missed wake-up, exactness at rest (both), refinement of `Semaphore` with its fairness (both) |
| `rw_mutex` | 3 threads, read depth 2; the futex lock in both policies, or 2 mutexes over the OS's lock, one recursive and one of any kind | exclusion (all); word and registry tell who is inside; nested reads never wait (reader preference, registry) or are refused (plain); who is parked is announced; an announced writer gets in; parked threads wake (futex) |
| `fork_join` | 3 workers, 4 parts, 3 barriers in a row, futex or condvar; or 2 threads started; or a cut: up to 40 iterations, pools 0, 1, 2, 3, 5, loads, costs, divisions; 5 machines of 1 to 3 clusters; 2 cgroup hierarchies of depth 2, 4 quotas | the owner leaves last, no missed wake-up, refinement of `Barrier` with its fairness (both): every join returns; nobody is inside `arrive()` of a condvar barrier that has ended; a functor reaches its thread and is freed once; every cut tiles the range, on equal cores, in the platform shops, and on clusters even when the product wraps; the CPU limit is the most restrictive quota |
| `shop_calls` | 1 worker, replaced by 2, 1 user thread, 2 items, fired from work too, destructor; or 1 worker or none, 2 user threads, 2 spreads of 2, nested | accepted items run, counters settle, what work fires is drained, barriers are exact, nothing is stranded, spreads return, the join of the workers ends |
| `shop_spread` | 2 workers, a fired item and a spread of 4, nested, every enqueue may be refused, fallible stealing; or 3 workers, a spread of 3 | a spread that returns is complete, nothing ran twice and nothing refers to it; no worker sleeps on what it is woken for |
| `platform_shop` | 6 shops, 1 user thread, 2 calls of: 2 spreads of 0 or 3, an item, a dispatch; from work too; memory and submission may fail | slot lifetime, results, a spread that returns is complete, idle means done, calls and spreads return |
| `libuv` | 1 pool thread, loop, 1 other thread, 2 spreads of 3 chunks, 1 item, refusals | node lifetime, each chunk once, idle means done, spreads return |
| `shop_tracking` (violation) | 1 worker, 2 user threads, 2 items | `wait_until_idle` can see 0 while an accepted item has not run |
| `partition_width` (violation) | 64 workers | the slices of one spread do not fit 8 bits |
| `shop_nested` (violation) | 1 worker, 1 user thread, 1 item, 3 spreads of 2 | a worker and a user thread wait for each other for ever |
| `shop_wake_tree` (violation) | 2 workers, a spread of 3, stealing may miss work | the wake tree skips a worker, and the caller joins for ever |
| `thread_start` (violation) | 2 threads, creation may fail | the start of a thread need not end |

Why the bounds suffice: three threads are the least with a holder, a parked
thread and a third that overtakes it; two workers and a caller are the least with
a victim, a thief and an owner, three workers the least with both children in the
wake tree; two spreads the least with one inside, or beside, another. One pool
thread is the *hardest* libuv case: a nested spread occupies the whole pool.
Two workers are the least with one that the wake tree has to reach, and enough to show that
it need not (`shop_wake_tree`). Where consumers find what is queued the tree is not
needed: whoever is awake steals every part. The instances of `shop_calls` and `shop_spread`
therefore do not show that it works; the one of three workers has its steps
among thieves. One thread that starts two threads is the least with a late
notification at a reused address. `HCRange`, `SizeRange` and `ProductRange` are small
so that wrapping happens. `ChunkedTiles` has both sides of the chunk index's limit: with
the 16 values of `fork_join` up to 4 cores, at which four chunks per core are all that can be told apart, for
the Windows and the Apple cut, and 6 cores, at which libuv clamps, for the libuv cut. `StickyDepth` is 0
where the code has 2, so that the rotor moves with two items.
`CHECK_DEADLOCK FALSE` stands where the bounded calls run out and the system
stops; whether it stops in a good state is what `NoStrandedWork`,
`CountersSettle`, `NodeLifetime` and the liveness properties say. The first two speak of
the states in which everyone in `Shop` sleeps or waits at a join (`Stuck`).
`ItemsRun`, `SpreadsReturn` and `StopTerminates` have the form "again and again": the number
of calls is bounded, so that they hold after the last one. `SpreadsReturn` is claimed for
two spreads; with three it fails, and `shop_nested` shows how.
One type invariant is kept (`FutexSemaphore`'s, which is proved); in the other modules the
properties are stronger, and a value of the wrong type breaks one.

Fairness is weak and per thread: a thread that can take its next step does so in
the end, and user functors return. That is what an operating system's scheduler
gives. No strong fairness is used; the condvar models assume that a mutex is
granted in the end (critical sections are single steps). `FutexRWMutex` also assumes that holders
release (weak fairness of `Release`), without which no lock admits anybody. `Libuv` does not even assume that the host runs the loop:
only what the loop's thread has begun is finished. `PlatformShop` assumes that *some*
thread that can go on does so: with finitely many calls nobody is passed over for ever, and
it holds because the systems' pools start another thread when theirs are blocked.
`ThreadStart` assumes no spurious wake-up, nor excludes one.

## 4. Proofs

`FutexSemaphoreProofs` proves, for any finite set of threads, any set of signal
counts and any `HCRange` greater than the number of threads:

- `Invariance`: `IInv` is inductive; `TypeCorrect`, `CreditsExact`,
  `WakeupNotMissed`, `QuiescenceExact` follow from it;
- `Refinement`: every step is a step of `Semaphore` or a stutter (its safety part).

`IInv` is the type invariant, "only a thread at the fence has an invisible
registration", `ExactCredits`, `ExactSleepers` and `WakeCover`. `NoMissedWakeup`
is not inductive: a waker that sleeps through while another thread takes the
credit it deposited has to be counted, not just known to exist. `WakeCover`
counts: as long as somebody is parked, every credit has either a wake still to be
issued for it or an awake debtor. The argument for `SignalGate` (which skips the
wake) needs `ExactSleepers` and the fence: no sleeper visible and a thread parked
contradict each other. `ExactCredits` also shows that the debt stays below the
number of threads, so that the cast to `hardware_concurrency_t` in `signal()` is
harmless. `CountingLemmas` has the facts on cardinalities that a step of one
thread needs (moving one thread between locations changes a count by one).

The assumption `Cardinality(Threads) < HCRange` is the type's purpose.

The same module proves for the condvar semaphore, under the same assumptions
(`Setting`): `CvSemaphoreInvariance`, `CvQuiescence` (at rest no grant is held back from
a sleeper) and `CvSemaphoreRefinement` (the safety part of `Semaphore`). `IInv` balances
the debt against what `value_` and `to_release_` say, and `waiters_` against the threads
registered; that much would still allow a grant beside a sleeper nobody will notify.
`GrantCover` counts: while somebody is parked, every grant has an awake waiter or a
notification still to be issued. `signal()` reads `waiters_` after it has released the
mutex; the proof shows that either answer (one by one, or all) keeps the cover.

`BarrierProofs` proves, for any finite set of workers, any number of parts and of
barriers one after another:

- `BarrierInvariance`: `IInv` is inductive for the futex barrier;
  `BarrierTypeCorrect`, `BarrierCountExact`, `BarrierLeavesLast` and
  `BarrierWakeupNotMissed` follow;
- `CvInvariance`: `CvInv` is inductive for the condvar barrier; `CvCorrect` (the
  same three) and `CvNotifiesBeforeEnd` follow;
- `BarrierRefinement`, `CvRefinement`: every step of either barrier is a step of `Barrier`
  or a stutter. Pending are the parts that wait, those that run, and the owner's own while it
  arrives; the proofs need `CountExact` (who sees the counter at zero has nothing
  pending) for the join's return.

`IInv` adds to the properties that only an owner that does not spin goes to sleep
(otherwise the last arrival would not see that it has to wake), that it parks
against a word that was not zero, and that a barrier that does not spin expects
nothing before `initialize`. `CvInv` adds that the last arrival keeps the mutex only
while the owner is not past its `wait()`. The lemmas are one per kind of step, and
the two barriers share those for the steps they share. The assumption
`MaxParts + Cardinality(Workers) < HCRange` (what a spread expects fits
`hardware_concurrency_t`) is needed for `spin_wait`, which narrows the counter; the
run `partition_width` shows a pool for which the shop does not keep it.

`FutexRWMutexProofs` proves, for any finite set of threads, any depth of nested reads and
both policies, `RWMutexInvariance`, and from it `RWMutualExclusion`, `RWWordExact`,
`RWAnnouncedWhileParked` and `RWNestedReadNeverBlocks`. `IInv` is the conjunction of these
with two facts about a thread inside a call: who asks for a read lock may hold one more
(`Asking`), and a try goes for the word only if it looked free (`Tries`). The
four need each other: an exchange that succeeds does so on the word it observed, and only
`WordExact` turns that word's bits into who is inside.

It also proves, for any threads and mutexes and any depth, `RRWInvariance`,
`RRWMutualExclusion`, `RRWRegistryExact` and `RRWNestedReadNeverBlocks` for the three
kinds of mutex over the operating system's lock. `OsRegisters(h, d)` says that the vector
`h` has one entry for each mutex with a depth in `d` and no other; `OsBumped`, `OsNoted` and
`OsRemoved` are the lemmas on what the registry's operations do to it, the last one about
the removal that moves the last entry. `IInv` says that each registry has what its thread
reads, plus a read it is blocked in, and that the lock underneath is read once for all of
them.

`PlatformShopProofs` proves, for any numbers of dispatches, threads and calls, whatever may be
refused, and every shop of `PlatformShop`: `FutureInvariance`, and from it
`FutureSlotLifetime` and `FutureGetSeesResult`. First, a step of a shop is, for the
pairs, one operation of one pair or none (`ShopSteps`). Then `IInv`: a slot has as many
owners as sides that are not through (`Sides`), is deleted with the last, and nothing
has been signalled, waited for or got without a result; what lets the consumer leave is
the token, which only a completed slot has.

The same module proves `PlatformSpreadComplete` and `PlatformIdleMeansDone`. Their invariant,
`ShopInv`, says who has which work: a chunk or an item that is still to run waits in
`queued`, or is claimed by exactly one frame of one stack (`Disjoint`: those that run, the
ones a `submit` frame has not handed out yet, the item of a `fire`). The latch of a
spread counts its chunks that have not run, each of them is in somebody's hand, and
`inFlight` counts the items that fly. A step takes at most one frame off a stack, puts at most
two there, and changes the queue; the lemma `Trading` of `CountingLemmas` says that when what
the old frame and the queue had is what the new ones have, but for something new and something
let go, then still no two have the same. With that every action is a short case.

`LibuvProofs` proves, for any pool, callers, spreads, items, depths and refusals,
`LibuvInvariance`, and from it `LibuvNodeLifetime`, `LibuvSpreadComplete` and
`LibuvIdleMeansDone`: all the safety properties of the run `libuv`. The argument is the same,
about *shares*: the caller's, the queuer's and each request's share in the node of a spread;
each chunk and each item, which is its own share, that of whoever is to run it; and the
caller's own chunk until it begins. A share is with one frame, or waits in one of the three
queues (`SharesOf`). `RefsOK` says that `refs` is the number of node shares in hand, so that
whoever can touch the node keeps it; `SharesOK` and `ChunksOK` that a chunk is handed out
once, by a change of its `state` from pending, and that the latch counts the chunks that have
not run, so that a call which sees it at zero has nothing running. The theorem then counts the
holders: each of the three sets of `NodeLifetime` has as many elements as its kind of share
(`CallerCount`, `QueuerCount`, `RequestCount`). That the queues hold no request twice
(`QueuesOK`) is what makes `uv_cancel` harmless: the request that is moved has one claimant.

`ShopInvariant` proves, for any pool sizes, callers, items, spreads, iterations, depths of
calls, replacements of the pool and faults of the queue, `ShopInvariance`: `ShopInv` is
inductive. The argument is again about shares, and there are more kinds of them: to run an
iteration (`iter`), to arrive at a barrier (`count`), to be the caller of a spread (`call`), to
take a chunk out of `work_items_` (`ran`); for an item, to queue it (`todo`), to run it
(`item`), to count it out (`over`) and to count it in (`owed`, `track`). `Claims` says which
ones a frame has, `WorkShares` which go with an element of a queue. `ShopInv` then says

- that no two of them have the same share (`Disjoint`), so that nothing is run twice;
- what a share says of the spread or the item (`SharesOK`, `ItemOK`), and that `barrier` covers
  the `count` shares in hand (`BarrierOK`), with equality unless a queue refused a part;
- of each frame, what its operation relies on (`FrameOK`): that the chunks that are still to be
  handed out overlap neither each other nor the caller's own part, and how far the barrier can
  have been raised;
- of each stack, that a worker's loop is at its bottom (`StackOK`), that a call which returns
  has nothing left to wait for (`ReturnOK`), and that whoever stops the pool is alone (`StopOK`).

`FrameOK` needs that the chunks which a spread cuts tile its iterations. The module proves it for
every number of iterations, workers, items in the shop and slices: first that the parts
of `Plan` are consecutive, then that `SlicesOf` and `ChunkRange` cut each of them without
a gap or an overlap, then `WorkerParts` and `BulkChunks`. Where these need induction, it is on the
least counterexample (`Least`, a consequence of the library's well-founded order on the naturals).

The hypothesis `WideEnough` (`Most * DivisionMax + 1 < HCRange`) says that the type that counts
the slices of a spread can count those of all workers. `EveryoneArrived` compares the barrier
through that type. The run `partition_width` shows a pool that violates it.

`ShopProofs` draws the consequences. `SpreadsComplete` and `SpreadOutlivesWork` follow from
`ShopInv` alone. `BarriersExact` needs to know in addition that nothing lies on top of a frame
that is handing out work (`Nest`: which frame can lie on which, proved to be invariant from what a
step of each operation makes of the top of the stack); its proof maps the three sets that
`BarrierExact` counts to the `count` shares that wait, run, or are being handed out. It is stated for
queues that do not refuse a part, which `dispatch_workers` takes for granted; a part that is
refused is expected for good (section 5).

`NestedDrained` is about who still looks. `Seeks(w, p)` says that worker `w`, before it can leave,
will look into the queue of `p`: it runs work, or it is on a walk which has not passed `p` yet.
Its invariant, `DrainInv`, says that what is urgent is sought (`Drains`), where urgent is an item
that work has fired and, while the pool is replaced, whatever is queued; that workers are gone
only when they were told to leave (`Exits`, `Flagged`); and that an empty pool has no items
of its own (`Manned`). `Nest` gives the step of the worker that fires: it has its own loop below
the work, with no queue seen. Once all workers are gone none of them seeks, so nothing
urgent is left (`NobodyLeft`). Stated for consumers that find what is in a queue: one that may miss it
("look") may walk past an item and leave.

`WakesArriving` is about a worker's own queue, for all faults at once: the enqueue comes before
the notification, so that who sleeps on an item has a notification coming. The
invariant, `Rousing`, speaks of every worker that has seen its queue empty since it was last
woken (`Drowses`: it steals, looks at the exit flag or waits): if there is something to
wake it for in its queue (`Told`), it has a token or somebody is about to notify it. A dequeue of
the worker's own token that fails means here that its queue was empty, which is where a
consumer that misses work is not assumed to err: it misses the work of others.
`BulkByUsers` says that nothing else comes into that queue. Of the parts of a
spread only the first worker's is announced in this way. The others depend on the wake tree,
and `shop_wake_tree` shows that it may skip one.

`NothingStranded` is the stronger statement for a narrower shop: when all workers sleep and
the user threads are outside or at a join, no queue has work, whoever's, and nobody is at a
join. It is stated for consumers that find what is in a queue, and for spreads whose
parts are queued; only the queue of a fire may refuse. Such a shop does not need its wake tree, so
the theorem says nothing about it: with the fallible consumers for whose sake the code has it
the statement is false. Nor does it cover a worker that is blocked at a join, which does
not sleep; that deadlock is `NoDeadlock`'s, and real (`shop_nested`). What it does say is that no
wake-up of a fire or a bulk is lost, over replacements of the pool, and that user threads do
not wait for each other alone. It has two
more invariants: while a queue is not empty, a token is there to be taken or some thread *cares*
(`Tended`), which is a worker that will look into the queue before it sleeps, a thread about to
send a wake-up, or a caller that has still to steal (`Willing`); and the spreads can be ranked
such that a spread called from a chunk has a lower rank than the chunk's own (`Ranked`: a new
call gets the lowest). `Keen` and `Hurries` say what each step does for the first: it forgets
nothing that is queued, and what it puts into an empty queue it is about to announce. At rest nobody
cares, so the queues are empty; of the callers that still waited, the one for the spread of least
rank would wait for a chunk under another wait, of a lesser rank.

`CountersSettled` adds what the two counters stand for (`CountersOK`): `workItems` is, but for
wrapping around, the shares of work that waits, runs or is to be counted out, less the items
that are still `owed`; `inFlight` is the items that have not run, less those that are to be
counted in (`track`). Each step changes a counter by as much as the shares that come and go
(`Follows`, `FollowsTally`). A bulk that is refused and a part that is lost stay counted, so this
is stated without them. At rest nobody has a share, as `NothingStranded` has emptied the
queues, and the only multiple of its range that a counter can be is zero.

The MC modules choose one of several implementations in the initial state; the theorems about
the run's own property follow from the parts': `EitherAtRestExact` and `EitherRefinement`
(`FutexSemaphoreProofs`), `EitherExclusion`, `EitherInsideExact`, `EitherNestedReadsNeverBlock`
(`FutexRWMutexProofs`, over the futex lock and the three of `RRWMutex`). `BarrierProofs` also
proves `StartFunctorLifetime`: who owns the functor of a started thread follows from how far
starter and thread are, whatever the notifications do (`StartInv`).

The abstract specifications' fairness, all other liveness, and what recursive functions
compute (the folds of `CpuLimits` and of the cluster shares) are out of the prover's reach
and stay with TLC. So do, for now, the properties of `fork_join` that are about arithmetic: the tilings of the platform shops'
cuts, and those of the generic shop as one property, although `ShopInvariant` proves the lemmas
for the latter.

## 5. Observations

Five disagreements between code and comments are checked as violations:

- **In-flight tracking** (`impls/generic.hpp:531`): an item is counted after it
  was enqueued, although `dispatch_tracking.hpp:4` says before. If item B runs
  before it is counted, it takes item A out of the count, and `wait_until_idle()`
  of the thread that fired A returns before A has run. `libuv.hpp:135` counts
  first, and there the same property holds.
- **Slice count** (`impls/generic.cpp:577`): `uint8_t` on ARM and Apple. 16
  workers at the greatest division, or 64 at the least, make 256 slices, which
  `everyone_arrived()` reads as 0.
- **Nested spreads** (`impls/generic.cpp:968`): a spread that finds no free worker
  (`queue_and_wait`, `:668`) queues its parts and does not steal while it waits, which
  deadlocks if nobody else is left to run them, although `:533` asks for the queue because
  it "is required for a dispatcher which supports concurrent and recursive dispatches". The
  shortest trace has one worker and 30 states. The worker runs an item before its fire has
  counted it; a spread in that item therefore takes the idle path, not the recursive one of
  `:648`, and leaves a slice in the worker's own queue. A user thread, stealing at the end of
  a spread of its own, takes the slice, whose body spreads again, queues and waits. The
  worker waits at its join for the slice, the user thread for the worker. It takes three
  spreads; that two cannot do it is `NoStrandedWork` and `SpreadsReturn`.
- **Wake tree** (`impls/generic.cpp:600`): the caller notifies the first worker right after
  queuing its part, and the others are woken by workers that find `work_items_` above zero when they
  wake up. A worker 0 that is awake takes the first part unnotified, finishes it and goes to
  sleep; the notification finds `work_items_` at zero, since the second part is not counted yet, and
  is not passed on. That part is left to the caller, whose stealing may miss it, as the
  comment at `:218` says of moodycamel's consumers ("a join deadlock"): it joins, and everybody
  sleeps. The comment at `:1080` says that a chain that skips a worker, "a worker draining the queue
  early" by name, "simply means the remaining work is done by the already-awake threads and the
  (always-participating, work-stealing) caller". The trace has 30 states, 2 workers and 3
  iterations. With consumers that miss nothing it does not happen.
- **Thread start** (`threading/thread.hpp:66`): a thread that cannot be created is
  reported by an exception (`:194`), which on its way out of the assignment runs
  `~synchronized_invocation()`; that waits for the thread that does not exist. Without
  any refusal (`MayFail = FALSE`) the start can hang as well: `notify()` sets the flag
  and notifies without the mutex (`:75`), so that both can come between the starter's
  look at the flag and its wait. Only functors that are started from the frame are
  concerned; `worker_loop` (`generic.cpp:96`) is made small enough to travel in a
  pointer.

Others, which the models show as well and the properties are worded around:

- `generic.cpp:600`: a refused enqueue of a part is ignored (`BOOST_VERIFY`);
  its slices stay expected, and the spread waits for ever. It never returns
  *incomplete*, which is what `SpreadComplete` says under refusals.
- `generic.cpp:881`: after a refused `enqueue_bulk` the barrier, which still
  counts the refused parts, is initialized again (`futex_barrier.cpp:35` asserts
  otherwise) and `work_items_` keeps the count: the shop looks busy from then on.
- `generic.cpp:206`: the exit flag is read after a dequeue that failed before.
  What a user thread fired in between is left behind, although README.md:84 says
  that the queue is drained. What *work* fires is drained (`NestedFiresDrained`).
- `generic.cpp:730` asserts that what the rounding of the cluster shares leaves over is less
  than the last share. It need not be: of 8 iterations, with a cost of 1, clusters of 1, 1 and 2
  equally strong cores get 2 each, and 2 are left over. A debug build stops there. A release
  build goes on, and the strongest cluster gets the rest, as `HmpDistribution` has it; the
  iterations are all handed out (`HmpTiles`, whose machines include this one). What holds, and is
  checked, is that less than one iteration per cluster is left over, unless the product wraps.
- `apple.hpp:85`, `windows.hpp:112`: the index of a chunk is narrowed to
  `hardware_concurrency_t`, as is the number of longer chunks (`spread_chunked.cpp:30`), but the number of
  chunks, four per core, is not limited to what the type can count. `libuv.cpp:176` names this
  overflow and clamps. With more than 64 cores and 8 bits (Apple; with 16 bits it takes more than
  16384) iterations are lost, or run twice: of 256 iterations on 65 cores no chunk has any, as
  256 % 260 longer chunks are 0 of 8 bits. `ChunkRange` narrows as the code does, and `ChunkedTiles`
  claims the Windows and Apple cuts only up to that number of cores; without the condition
  TLC finds it violated.
- `thread.hpp:76`: `notify()` sets the flag and then notifies. As it does so
  without the mutex, the starter may see the flag and leave in between, and the condition is notified
  after its end. `fork_join` shows that the functors come to no harm by a notification
  that reaches nobody, or the next start's wait; what else an access to a
  dead frame may do is beyond the model.
- `generic.hpp:332`, `:366`: a refused dispatch assigns a replacement future to
  one whose promise is lost; releasing the old one waits for ever. `CallsReturn`
  therefore speaks of accepted work.
- `generic_semaphore.cpp:70`: the branch for exact worker selection grants a
  release whenever `value_` was not positive, even if nobody is in debt: the token
  counts twice, and a later `wait()` returns without one. It is compiled only if the
  macro is defined on the command line (`generic_config.hpp` is not included there);
  `GenericSemaphore` models the other branch. A worker copes with such a return.
- `futex_rw_mutex.hpp:77` says "Free state is exactly 0"; the announce bits can
  outlive the holders, and the code does treat such a word as free.
- `libuv.cpp:134`: `unbind_loop` can leave a node of a call that has already
  returned in `pending_`, with nobody to release it. `NodeLifetime` allows
  exactly this one.
- `windows.hpp:178`: without memory for the functor `fire_and_forget` returns false, and
  `dispatch*` does not look at it. The promise is destroyed with the closure and thereby
  abandoned, although `windows.hpp:271` says that it never is. The call still returns, and
  the future says so (`GetSeesResult`).
- `generic.cpp:404`: `create_pool( 0 )` returns before it clears `brexit_`. A later
  pool clears it, and a pool of nobody does not read it.
- `generic.cpp:398`: `set_max_allowed_threads` asserts that the *queue* is empty. Items
  that still run when it is called may fire others; those are drained by the old workers
  before they end (`ItemsRun`).
- `generic.cpp:1033`: a fire takes the rotor modulo the number of workers, which
  the code assumes not to be 0 (`BOOST_ASSUME`). The model makes no fires
  without workers, only spreads.
- `hardware_concurrency.cpp`: 256 CPUs are 0 in a `hardware_concurrency_t` of 8 bits.

## 6. Not modelled

- The semaphore's branch for exact worker selection on the condvar; the shared-queue build
  of the generic shop (no exact worker selection; `slow_thread_signals`), of which only the
  arithmetic (`BulkPlan`) is here; the hand-out of a spread over clusters (its arithmetic is
  `HmpPlans`, its steps are those of `dispatch_workers`).
- The RAII guards and the `std::shared_lock` interfaces: each is one call of an
  operation that is modelled.
- The OS's mutexes, condition variables and semaphores, thread ids, affinity and priority:
  calls without state of their own. The spin lock (a test-and-set), which the code holds only
  around single steps of the models.
- The statistics counters of the semaphore; `wait_until_idle`'s timeout, which only gives up;
  the reader count's overflow in the rw mutex, which the code asserts against.
- Reading the files, the number of CPUs and their topology; build, configuration, tests.

## 7. Plan

Next modules: the exact-selection branch of `GenericSemaphore`; the shared-queue build of
`Shop`, whose fast path bypasses the workers' own queues.

Next proofs: that the cuts of the platform shops tile, for every number of iterations.
