--------------------------------- MODULE Libuv ---------------------------------
(***************************************************************************)
(* impls/libuv.{hpp,cpp}: the shop that works on the thread pool and event *)
(* loop of an embedder (Node.js).  spread_the_sweat may be called from any *)
(* thread, but only the loop's thread may queue work: the others hand it   *)
(* a request, and take back whatever the pool has not started.             *)
(*                                                                         *)
(* Of libuv itself: a pool of PoolSize threads over one FIFO, uv_cancel of *)
(* what is still in it, after-work callbacks and a coalescing uv_async on  *)
(* the loop's thread.                                                      *)
(*                                                                         *)
(* loop      loop_: not bound yet, bound, or closed by unbind_loop         *)
(* async     uv_async_send was called and its callback has not begun       *)
(* pending   pending_, the list of spread_nodes, newest first              *)
(* refs      spread_node::refs, 0 before create and after the deletion     *)
(* state     req_bundle::state of every chunk but the caller's own         *)
(* latch     the std::latch on the spreading thread's stack                *)
(* poolQueue, afterQueue   requests not started; run or cancelled ones     *)
(* inFlight  g_in_flight                                                   *)
(* stack     what every thread is doing: calls, and the work they run      *)
(* History: calls (state of a spread call), hits (how often each of its    *)
(* chunks ran), fired (how far a fire_with_after has come).                *)
(***************************************************************************)
EXTENDS Integers, Sequences, FiniteSets, SequencesExt

CONSTANTS Pool,           \* the threads of libuv's pool
          Callers,        \* threads that are neither the pool's nor the loop's
          Loop,           \* the loop's thread
          Spreads,        \* bound: the spread calls that get made
          Items,          \* bound: the fire_with_after calls that get made
          Iterations,     \* the numbers of iterations of a spread
          MaxChunks,      \* greatest hardware_concurrency_t
          MaxDepth,       \* bound: depth of calls from within work
          MaxOpen,        \* bound: spreads and fired items open at a time
          MayFail         \* what may fail: an allocation, uv_queue_work, uv_async_init

ASSUME LibuvAssumption ==
  /\ IsFiniteSet(Pool) /\ Pool # {} /\ Pool \cap Callers = {}
  /\ Loop \notin Pool \cup Callers
  /\ Iterations \subseteq Nat \ {0} /\ MaxChunks \in Nat \ {0} /\ MaxDepth \in Nat
  /\ MaxOpen \in Nat \ {0}
  /\ MayFail \subseteq {"node", "context", "queue", "bind"}

VARIABLES loop, async, pending, refs, state, latch, poolQueue, afterQueue, inFlight,
          stack, calls, hits, fired

node == <<refs, state, latch>>
uv   == <<loop, async, poolQueue, afterQueue>>
vars == <<uv, pending, node, inFlight, stack, calls, hits, fired>>

Threads == Pool \cup Callers \cup {Loop}

Top(t) == Last(stack[t])
pc(t)  == IF stack[t] = <<>> THEN "idle" ELSE Top(t).pc

Goto(t, f)         == stack' = [stack EXCEPT ![t] = Append(Front(@), f)]
GotoPc(t, l)       == Goto(t, [Top(t) EXCEPT !.pc = l])
Enter(t, f)        == stack' = [stack EXCEPT ![t] = Append(@, f)]
GotoEnter(t, f, g) == stack' = [stack EXCEPT ![t] = Append(Append(Front(@), f), g)]
Leave(t)           == stack' = [stack EXCEPT ![t] = Front(@)]

Chunk(s, c) == [kind |-> "chunk", id |-> s, c |-> c]
Item(i)     == [kind |-> "item", id |-> i, c |-> 0]

\* Work that runs: on the pool, inline on a thread that has claimed it, as a whole
\* (serial), or an item's after-work callback.
Body(how, w)        == [pc |-> how, work |-> w]
SpreadFrame(l, s)   == [pc |-> l, id |-> s, k |-> 0]
QueueFrame(s)       == [pc |-> "queue", id |-> s, k |-> 1]
AsyncFrame(list)    == [pc |-> "async", list |-> list]

Running == {"pool", "inline", "serial", "after"}

Smallest(a, b) == IF a < b THEN a ELSE b

\* num_chunks of spread_impl
NumChunks(n) == Smallest(n, Smallest(4 * Cardinality(Pool), MaxChunks))

\* spread_node::release
Release(s) == refs' = [refs EXCEPT ![s] = @ - 1]

Init ==
  /\ loop = "new" /\ async = FALSE /\ pending = <<>>
  /\ refs = [s \in Spreads |-> 0]
  /\ state = [s \in Spreads |-> <<>>]
  /\ latch = [s \in Spreads |-> 0]
  /\ poolQueue = <<>> /\ afterQueue = <<>>
  /\ inFlight = 0
  /\ stack = [t \in Threads |-> <<>>]
  /\ calls = [s \in Spreads |-> "new"]
  /\ hits = [s \in Spreads |-> <<>>]
  /\ fired = [i \in Items |-> "new"]
--------------------------------------------------------------------------------
(* bind_loop, unbind_loop: on the loop's thread, between its callbacks *)

\* An async handle that cannot be set up leaves the shop without a loop.
Bind ==
  /\ pc(Loop) = "idle" /\ loop = "new"
  /\ loop' \in {"bound"} \cup IF "bind" \in MayFail THEN {"closed"} ELSE {}
  /\ UNCHANGED <<async, poolQueue, afterQueue, pending, node, inFlight, stack,
                 calls, hits, fired>>

\* The host has quiesced the dispatchers and drained what was fired.
Unbind ==
  /\ pc(Loop) = "idle" /\ loop = "bound"
  /\ \A s \in Spreads : calls[s] # "active"
  /\ inFlight = 0
  /\ loop' = "closed"
  /\ UNCHANGED <<async, poolQueue, afterQueue, pending, node, inFlight, stack,
                 calls, hits, fired>>
--------------------------------------------------------------------------------
(* spread_the_sweat: spread_impl *)

Open == {s \in Spreads : calls[s] = "active"} \cup {i \in Items : fired[i] \in {"accepted", "ran"}}

\* A user's thread, the loop's between callbacks, or work that is running.
UserCode(t) ==
  /\ \/ t \in Callers \cup {Loop} /\ pc(t) = "idle"
     \/ pc(t) \in Running /\ Len(stack[t]) <= MaxDepth
  /\ Cardinality(Open) < MaxOpen

\* No loop, a single chunk or no memory: everything in one call on this thread.
SpreadSerial(t, s, n) ==
  /\ UserCode(t) /\ calls[s] = "new"
  /\ loop # "bound" \/ NumChunks(n) <= 1 \/ "node" \in MayFail
  /\ calls' = [calls EXCEPT ![s] = "active"]
  /\ hits' = [hits EXCEPT ![s] = <<0>>]
  /\ Enter(t, Body("serial", Chunk(s, 1)))
  /\ UNCHANGED <<uv, pending, node, inFlight, fired>>

\* The node, referenced by the caller and the queuer, and the latch; on the loop's
\* thread queue_chunks follows at once.
SpreadCall(t, s, n) ==
  /\ UserCode(t) /\ calls[s] = "new" /\ loop = "bound" /\ NumChunks(n) > 1
  /\ calls' = [calls EXCEPT ![s] = "active"]
  /\ hits' = [hits EXCEPT ![s] = [c \in 1..NumChunks(n) |-> 0]]
  /\ refs' = [refs EXCEPT ![s] = 2]
  /\ state' = [state EXCEPT ![s] = [c \in 1..(NumChunks(n) - 1) |-> "pending"]]
  /\ latch' = [latch EXCEPT ![s] = NumChunks(n)]
  /\ stack' = [stack EXCEPT ![t] = @ \o IF t = Loop THEN <<SpreadFrame("tail", s), QueueFrame(s)>>
                                                    ELSE <<SpreadFrame("submit", s)>>]
  /\ UNCHANGED <<uv, pending, inFlight, fired>>

\* On another thread: push the node (a lost compare-exchange starts over), then wake the loop.
Submit(t) ==
  /\ pc(t) = "submit"
  /\ pending' = <<Top(t).id>> \o pending
  /\ GotoPc(t, "send")
  /\ UNCHANGED <<uv, node, inFlight, calls, hits, fired>>

Send(t) ==
  /\ pc(t) = "send"
  /\ async' = TRUE
  /\ GotoPc(t, "tail")
  /\ UNCHANGED <<loop, poolQueue, afterQueue, pending, node, inFlight, calls, hits, fired>>

\* The caller's own chunk, then the others from the last to the first.
TailChunk(t) ==
  /\ pc(t) = "tail"
  /\ LET f == Top(t)
         m == Len(state[f.id])
     IN  GotoEnter(t, [f EXCEPT !.pc = "steal", !.k = m], Body("inline", Chunk(f.id, m + 1)))
  /\ UNCHANGED <<uv, pending, node, inFlight, calls, hits, fired>>

\* Mutant: chunks that are not queued yet are left to the loop.
StealPendingNever(t) ==
  /\ pc(t) = "steal" /\ Top(t).k > 0
  /\ state[Top(t).id][Top(t).k] = "pending"
  /\ Goto(t, [Top(t) EXCEPT !.k = @ - 1])
  /\ UNCHANGED <<uv, pending, node, inFlight, calls, hits, fired>>

\* The claim, under the node's spin lock: a chunk not queued yet ...
StealPending(t) ==
  /\ pc(t) = "steal" /\ Top(t).k > 0
  /\ LET f == Top(t)
     IN  /\ state[f.id][f.k] = "pending"
         /\ state' = [state EXCEPT ![f.id][f.k] = "done_inline"]
         /\ GotoEnter(t, [f EXCEPT !.k = @ - 1], Body("inline", Chunk(f.id, f.k)))
  /\ UNCHANGED <<uv, pending, refs, latch, inFlight, calls, hits, fired>>

Queued(w) == w \in ToSet(poolQueue)

\* ... a queued one that uv_cancel still gets, whose callback comes all the same ...
StealQueued(t) ==
  /\ pc(t) = "steal" /\ Top(t).k > 0
  /\ LET f == Top(t)
         w == Chunk(f.id, f.k)
     IN  /\ state[f.id][f.k] = "queued"
         /\ \E i \in DOMAIN poolQueue : poolQueue[i] = w /\ poolQueue' = RemoveAt(poolQueue, i)
         /\ afterQueue' = Append(afterQueue, w)
         /\ state' = [state EXCEPT ![f.id][f.k] = "done_inline"]
         /\ GotoEnter(t, [f EXCEPT !.k = @ - 1], Body("inline", w))
  /\ UNCHANGED <<loop, async, pending, refs, latch, inFlight, calls, hits, fired>>

\* ... or nothing to claim.
StealNothing(t) ==
  /\ pc(t) = "steal" /\ Top(t).k > 0
  /\ LET f == Top(t)
     IN  /\ state[f.id][f.k] # "pending"
         /\ state[f.id][f.k] = "queued" => ~Queued(Chunk(f.id, f.k))
         /\ Goto(t, [f EXCEPT !.k = @ - 1])
  /\ UNCHANGED <<uv, pending, node, inFlight, calls, hits, fired>>

\* Mutant: the call does not wait.
SpreadWaitSkipped(t) ==
  /\ pc(t) = "steal" /\ Top(t).k = 0
  /\ GotoPc(t, "release")
  /\ UNCHANGED <<uv, pending, node, inFlight, calls, hits, fired>>

SpreadWait(t) ==
  /\ pc(t) = "steal" /\ Top(t).k = 0
  /\ latch[Top(t).id] = 0
  /\ GotoPc(t, "release")
  /\ UNCHANGED <<uv, pending, node, inFlight, calls, hits, fired>>

SpreadReturn(t) ==
  /\ pc(t) = "release"
  /\ Release(Top(t).id)
  /\ calls' = [calls EXCEPT ![Top(t).id] = "returned"]
  /\ Leave(t)
  /\ UNCHANGED <<uv, pending, state, latch, inFlight, hits, fired>>

SpreadStep(t) ==
  \/ Submit(t) \/ Send(t) \/ TailChunk(t)
  \/ StealPending(t) \/ StealQueued(t) \/ StealNothing(t)
  \/ SpreadWait(t) \/ SpreadReturn(t)
--------------------------------------------------------------------------------
(* The loop's side: on_spread_async and queue_chunks *)

\* The loop gets to the async handle, and later to its callback's exchange.
AsyncFires ==
  /\ pc(Loop) = "idle" /\ loop = "bound" /\ async
  /\ async' = FALSE
  /\ Enter(Loop, [pc |-> "exchange"])
  /\ UNCHANGED <<loop, poolQueue, afterQueue, pending, node, inFlight, calls, hits, fired>>

AsyncExchange ==
  /\ pc(Loop) = "exchange"
  /\ pending' = <<>>
  /\ Goto(Loop, AsyncFrame(pending))
  /\ UNCHANGED <<uv, node, inFlight, calls, hits, fired>>

\* `next` is read before queue_chunks gives the node up.
AsyncNext ==
  /\ pc(Loop) = "async" /\ Top(Loop).list # <<>>
  /\ GotoEnter(Loop, AsyncFrame(Tail(Top(Loop).list)), QueueFrame(Head(Top(Loop).list)))
  /\ UNCHANGED <<uv, pending, node, inFlight, calls, hits, fired>>

AsyncEnds ==
  /\ pc(Loop) = "async" /\ Top(Loop).list = <<>>
  /\ Leave(Loop)
  /\ UNCHANGED <<uv, pending, node, inFlight, calls, hits, fired>>

Unqueued(f) == f.k <= Len(state[f.id]) /\ state[f.id][f.k] = "pending"

NextChunk(f) == [f EXCEPT !.k = @ + 1]

QueueSkip ==
  /\ pc(Loop) = "queue" /\ Top(Loop).k <= Len(state[Top(Loop).id]) /\ ~Unqueued(Top(Loop))
  /\ Goto(Loop, NextChunk(Top(Loop)))
  /\ UNCHANGED <<uv, pending, node, inFlight, calls, hits, fired>>

\* Mutant: no reference for the callback.
QueueChunkUnreferenced ==
  /\ pc(Loop) = "queue" /\ Unqueued(Top(Loop))
  /\ LET f == Top(Loop)
     IN  /\ poolQueue' = Append(poolQueue, Chunk(f.id, f.k))
         /\ state' = [state EXCEPT ![f.id][f.k] = "queued"]
         /\ Goto(Loop, NextChunk(f))
  /\ UNCHANGED <<loop, async, afterQueue, pending, refs, latch, inFlight, calls, hits, fired>>

\* Under the lock: a reference for the callback, uv_queue_work, the mark.
QueueChunk ==
  /\ pc(Loop) = "queue" /\ Unqueued(Top(Loop))
  /\ LET f == Top(Loop)
     IN  /\ refs' = [refs EXCEPT ![f.id] = @ + 1]
         /\ poolQueue' = Append(poolQueue, Chunk(f.id, f.k))
         /\ state' = [state EXCEPT ![f.id][f.k] = "queued"]
         /\ Goto(Loop, NextChunk(f))
  /\ UNCHANGED <<loop, async, afterQueue, pending, latch, inFlight, calls, hits, fired>>

\* uv_queue_work fails: the reference is taken back, the chunk runs here.
QueueRefused ==
  /\ pc(Loop) = "queue" /\ Unqueued(Top(Loop)) /\ "queue" \in MayFail
  /\ LET f == Top(Loop)
     IN  /\ state' = [state EXCEPT ![f.id][f.k] = "done_inline"]
         /\ GotoEnter(Loop, NextChunk(f), Body("inline", Chunk(f.id, f.k)))
  /\ UNCHANGED <<uv, pending, refs, latch, inFlight, calls, hits, fired>>

QueueEnds ==
  /\ pc(Loop) = "queue" /\ Top(Loop).k > Len(state[Top(Loop).id])
  /\ Release(Top(Loop).id)
  /\ Leave(Loop)
  /\ UNCHANGED <<uv, pending, state, latch, inFlight, calls, hits, fired>>

QueueStep == \/ AsyncExchange \/ AsyncNext \/ AsyncEnds
             \/ QueueSkip \/ QueueChunk \/ QueueRefused \/ QueueEnds
--------------------------------------------------------------------------------
(* The pool and the after-work callbacks *)

PoolTakes(t) ==
  /\ t \in Pool /\ pc(t) = "idle" /\ poolQueue # <<>>
  /\ poolQueue' = Tail(poolQueue)
  /\ Enter(t, Body("pool", Head(poolQueue)))
  /\ UNCHANGED <<loop, async, afterQueue, pending, node, inFlight, calls, hits, fired>>

\* A chunk has run: spread_work_cb and an inline run count the latch down ...
ChunkEnds(t) ==
  /\ pc(t) \in {"pool", "inline"} /\ Top(t).work.kind = "chunk"
  /\ LET w == Top(t).work
     IN  /\ hits' = [hits EXCEPT ![w.id][w.c] = @ + 1]
         /\ latch' = [latch EXCEPT ![w.id] = @ - 1]
  /\ IF pc(t) = "pool" THEN GotoPc(t, "post") ELSE Leave(t)
  /\ UNCHANGED <<uv, pending, refs, state, inFlight, calls, fired>>

\* ... and libuv hands the request to the loop.
Post(t) ==
  /\ pc(t) = "post"
  /\ afterQueue' = Append(afterQueue, Top(t).work)
  /\ Leave(t)
  /\ UNCHANGED <<loop, async, poolQueue, pending, node, inFlight, calls, hits, fired>>

\* The whole of a spread has run on its caller, which returns.
SerialEnds(t) ==
  /\ pc(t) = "serial"
  /\ hits' = [hits EXCEPT ![Top(t).work.id][1] = @ + 1]
  /\ calls' = [calls EXCEPT ![Top(t).work.id] = "returned"]
  /\ Leave(t)
  /\ UNCHANGED <<uv, pending, node, inFlight, fired>>

\* A fired item has run; libuv hands the request to the loop.
WorkEnds(t) ==
  /\ pc(t) = "pool" /\ Top(t).work.kind = "item"
  /\ fired' = [fired EXCEPT ![Top(t).work.id] = "ran"]
  /\ afterQueue' = Append(afterQueue, Top(t).work)
  /\ Leave(t)
  /\ UNCHANGED <<loop, async, poolQueue, pending, node, inFlight, calls, hits>>

\* spread_after_cb
SpreadAfter ==
  /\ pc(Loop) = "idle" /\ afterQueue # <<>> /\ Head(afterQueue).kind = "chunk"
  /\ afterQueue' = Tail(afterQueue)
  /\ Release(Head(afterQueue).id)
  /\ UNCHANGED <<loop, async, poolQueue, pending, state, latch, inFlight, stack,
                 calls, hits, fired>>

\* Mutant: counted out before `after` has run.
ItemAfterCountsOut ==
  /\ pc(Loop) = "idle" /\ afterQueue # <<>> /\ Head(afterQueue).kind = "item"
  /\ afterQueue' = Tail(afterQueue)
  /\ Enter(Loop, Body("after", Head(afterQueue)))
  /\ inFlight' = inFlight - 1
  /\ UNCHANGED <<loop, async, poolQueue, pending, node, calls, hits, fired>>

\* The callback of fire_with_after: `after`, which is user code, ...
ItemAfter ==
  /\ pc(Loop) = "idle" /\ afterQueue # <<>> /\ Head(afterQueue).kind = "item"
  /\ afterQueue' = Tail(afterQueue)
  /\ Enter(Loop, Body("after", Head(afterQueue)))
  /\ UNCHANGED <<loop, async, poolQueue, pending, node, inFlight, calls, hits, fired>>

\* ... then in_flight_dec and the deletion.
AfterEnds ==
  /\ pc(Loop) = "after"
  /\ fired' = [fired EXCEPT ![Top(Loop).work.id] = "over"]
  /\ inFlight' = inFlight - 1
  /\ Leave(Loop)
  /\ UNCHANGED <<uv, pending, node, calls, hits>>

WorkStep(t) == \/ PoolTakes(t) \/ ChunkEnds(t) \/ Post(t) \/ SerialEnds(t) \/ WorkEnds(t)
               \/ (t = Loop /\ AfterEnds)
--------------------------------------------------------------------------------
(* fire_with_after, on the loop's thread; fire_and_forget has an empty `after` *)

\* The context is allocated (or the call returns false) and counted ...
FireCall(i) ==
  /\ UserCode(Loop) /\ fired[i] = "new" /\ loop = "bound"
  /\ \/ /\ inFlight' = inFlight + 1
        /\ fired' = [fired EXCEPT ![i] = "called"]
        /\ Enter(Loop, [pc |-> "fire", item |-> i])
     \/ /\ "context" \in MayFail
        /\ fired' = [fired EXCEPT ![i] = "refused"]
        /\ UNCHANGED <<inFlight, stack>>
  /\ UNCHANGED <<uv, pending, node, calls, hits>>

\* ... before it is queued ...
FireQueue ==
  /\ pc(Loop) = "fire"
  /\ poolQueue' = Append(poolQueue, Item(Top(Loop).item))
  /\ fired' = [fired EXCEPT ![Top(Loop).item] = "accepted"]
  /\ Leave(Loop)
  /\ UNCHANGED <<loop, async, afterQueue, pending, node, inFlight, calls, hits>>

\* ... or counted out again.
FireRefused ==
  /\ pc(Loop) = "fire" /\ "queue" \in MayFail
  /\ inFlight' = inFlight - 1
  /\ fired' = [fired EXCEPT ![Top(Loop).item] = "refused"]
  /\ Leave(Loop)
  /\ UNCHANGED <<uv, pending, node, calls, hits>>
--------------------------------------------------------------------------------
\* What a thread does once it is called; user code returns in the end.
Progress(t) == \/ SpreadStep(t) \/ WorkStep(t)
               \/ t = Loop /\ (QueueStep \/ FireQueue \/ FireRefused)

\* What the loop's thread begins when the host runs the loop.
LoopEvent == Bind \/ Unbind \/ AsyncFires \/ SpreadAfter \/ ItemAfter

\* The names of the calls are interchangeable: they are used in a fixed order.
Unused == {s \in Spreads : calls[s] = "new"}
NextCall == IF Unused = {} THEN {} ELSE {CHOOSE s \in Unused : TRUE}

Call(t) == \/ \E s \in NextCall, n \in Iterations : SpreadSerial(t, s, n) \/ SpreadCall(t, s, n)
           \/ t = Loop /\ \E i \in Items : FireCall(i)

Next == (\E t \in Threads : Progress(t) \/ Call(t)) \/ LoopEvent

SafeSpec == Init /\ [][Next]_vars

\* The threads run, but the host need not run the loop.
Spec == SafeSpec /\ \A t \in Threads : WF_vars(Progress(t))
--------------------------------------------------------------------------------
\* The frames on all stacks, and those that satisfy a test.
Frames == UNION {{t} \X DOMAIN stack[t] : t \in Threads}
FramesWith(Test(_)) == {f \in Frames : Test(stack[f[1]][f[2]])}

\* Who holds a reference to the node of spread s: the call, from its creation to its
\* release; the queuer, from the caller who has not handed it over yet to the end of
\* queue_chunks; every request that libuv has.
CallerRefs(s) ==
  FramesWith(LAMBDA f : f.pc \in {"submit", "send", "tail", "steal", "release"} /\ f.id = s)

QueuerRefs(s) ==
  FramesWith(LAMBDA f : \/ f.pc \in {"submit", "queue"} /\ f.id = s
                        \/ f.pc = "async" /\ s \in ToSet(f.list))
  \cup (IF s \in ToSet(pending) THEN {"pending"} ELSE {})

RequestRefs(s) ==
  FramesWith(LAMBDA f : f.pc \in {"pool", "post"} /\ f.work.kind = "chunk" /\ f.work.id = s)
  \cup {w \in ToSet(poolQueue) \cup ToSet(afterQueue) : w.kind = "chunk" /\ w.id = s}

AtRest == /\ \A t \in Threads : stack[t] = <<>>
          /\ poolQueue = <<>> /\ afterQueue = <<>>

\* "freed when the last reference drops: caller + queuer + one per successfully queued
\* chunk, so no participant can ever observe freed state": the count is the number of
\* those who can still touch the node, so that it is neither freed under them nor
\* leaked.  At rest only a node whose notification is still to be served is left, or
\* one that unbind_loop has cut off from it.
NodeLifetime ==
  /\ \A s \in Spreads :
       refs[s] = Cardinality(CallerRefs(s)) + Cardinality(QueuerRefs(s)) + Cardinality(RequestRefs(s))
  /\ AtRest => \A s \in Spreads : refs[s] # 0 => s \in ToSet(pending) /\ (async \/ loop = "closed")

\* "each chunk executes exactly once, here or on a worker", and when the call returns
\* all of them have, and nobody has its latch or its functor any more.
SpreadComplete ==
  \A s \in Spreads :
    /\ \A c \in DOMAIN hits[s] : hits[s][c] <= 1
    /\ calls[s] = "returned" =>
         /\ \A c \in DOMAIN hits[s] : hits[s][c] = 1
         /\ FramesWith(LAMBDA f : /\ f.pc \in Running
                                  /\ f.work.kind = "chunk" /\ f.work.id = s) = {}

\* wait_until_idle(): when nothing is in flight, whatever fire_with_after has accepted
\* has run, with its callback.
IdleMeansDone == inFlight = 0 => \A i \in Items : fired[i] \notin {"accepted", "ran"}

\* "the call can never deadlock waiting on slots it occupies": every spread returns,
\* from a saturated pool and from the loop's thread too, and even when the loop never
\* gets to the request.
SpreadsReturn == \A s \in Spreads : (calls[s] = "active") ~> (calls[s] = "returned")
================================================================================
