------------------------------- MODULE PlatformShop -------------------------------
(***************************************************************************)
(* The shops that have no workers of their own: impls/windows.hpp (the     *)
(* system's thread pool), impls/apple.hpp (GCD), impls/openmp.hpp and      *)
(* impls/single_threaded.hpp; with the promises that dispatch_lite and     *)
(* dispatch_outcome hand to their work, also in the generic shop, of which *)
(* only the dispatch is here ("generic"; Shop has the rest).               *)
(*                                                                         *)
(* "threads" and "inline" are the single-threaded shop, where there are    *)
(* threads and where there are none.                                       *)
(*                                                                         *)
(* Of the systems: a callback that was accepted gets a thread in the end,  *)
(* the pools grow.  A callback is its own thread here.                     *)
(*                                                                         *)
(* queued    callbacks accepted by the system, not started                 *)
(* latch     chunks that a spread still waits for                          *)
(* closure   where the functor of an item is: not made, packed in the      *)
(*           context pointer, on the heap, in the caller's frame, or gone  *)
(* inFlight  g_in_flight                                                   *)
(* stack     what every thread is doing                                    *)
(* History: calls (state of a spread call), hits (how often each chunk     *)
(* ran), life (how far an item has come).                                  *)
(***************************************************************************)
EXTENDS Future, Sequences, FiniteSets, SequencesExt

CONSTANTS Backends,        \* the shops of the instance
          Callers,         \* the user's threads
          Fires,           \* bound: the calls of fire_and_forget and fire_with_after
          Spreads,         \* bound: the calls of spread_the_sweat
          Iterations,      \* the numbers of iterations of a spread
          Cores,           \* hardware_concurrency_max
          MaxDepth,        \* bound: depth of calls from within work
          MaxCalls,        \* bound: calls that get made, of any kind
          MayFail          \* what may fail: memory, the submission of a callback

ASSUME PlatformAssumption ==
  /\ Backends \subseteq {"windows", "apple", "openmp", "threads", "inline", "generic"}
  /\ IsFiniteSet(Callers) /\ Fires \cap Dispatches = {}
  /\ Iterations \subseteq Nat /\ Cores \in Nat \ {0}
  /\ MaxDepth \in Nat /\ MaxCalls \in Nat
  /\ MayFail \subseteq {"memory", "submit"}

VARIABLES backend, queued, latch, closure, inFlight, stack, calls, hits, life

spreading == <<latch, calls, hits>>
items     == <<closure, inFlight, life>>
vars      == <<futureVars, backend, queued, stack, spreading, items>>

Items == Fires \cup Dispatches

Chunk(s, c) == [kind |-> "chunk", id |-> s, c |-> c]
Item(i)     == [kind |-> "item", id |-> i, c |-> 0]

\* No spread has more chunks than iterations.
Callbacks == {Chunk(s, c) : s \in Spreads, c \in UNION {1..n : n \in Iterations}} \cup {Item(i) : i \in Items}
Threads   == Callers \cup Callbacks

Top(t) == Last(stack[t])
pc(t)  == IF stack[t] = <<>> THEN "idle" ELSE Top(t).pc

Goto(t, f)         == stack' = [stack EXCEPT ![t] = Append(Front(@), f)]
GotoPc(t, l)       == Goto(t, [Top(t) EXCEPT !.pc = l])
Enter(t, f)        == stack' = [stack EXCEPT ![t] = Append(@, f)]
GotoEnter(t, f, g) == stack' = [stack EXCEPT ![t] = Append(Append(Front(@), f), g)]
Leave(t)           == stack' = [stack EXCEPT ![t] = Front(@)]

\* Work that runs, and the call of a spread or of a fire.
Body(how, w)      == [pc |-> how, work |-> w]
SpreadFrame(l, s) == [pc |-> l, id |-> s, k |-> 1]
FireFrame(l, i)   == [pc |-> l, id |-> i]

Running == {"pool", "inline", "after"}

Smallest(a, b) == IF a < b THEN a ELSE b

\* fire_and_forget counts what it accepts.
Tracked == {"windows", "apple"}

Init ==
  /\ FutureInit
  /\ backend \in Backends
  /\ queued = {}
  /\ latch = [s \in Spreads |-> 0]
  /\ closure = [i \in Items |-> "none"]
  /\ inFlight = 0
  /\ stack = [t \in Threads |-> <<>>]
  /\ calls = [s \in Spreads |-> "new"]
  /\ hits = [s \in Spreads |-> <<>>]
  /\ life = [i \in Items |-> "new"]

Made == {s \in Spreads : calls[s] # "new"} \cup {i \in Items : life[i] # "new"}

\* A user's thread, or work that is running, makes a call.
UserCode(t) ==
  /\ \/ t \in Callers /\ pc(t) = "idle"
     \/ pc(t) \in Running /\ Len(stack[t]) <= MaxDepth
  /\ Cardinality(Made) < MaxCalls
--------------------------------------------------------------------------------
(* spread_the_sweat *)

Partition == INSTANCE SpreadPartition

\* Into how many chunks a spread is cut; an OpenMP team may be any size up to the
\* greatest (a nested region's is 1).  (Which iterations are in a chunk: WindowsCut,
\* AppleCut and OpenMPCut, of which the first two also say for how many cores.)
NumsOfChunks(n) ==
  CASE backend \in {"windows", "apple"} -> {Partition!ChunksOfFour(n, Cores)}
    [] backend = "openmp"  -> {Len(Partition!OpenMPCut(n, team)) : team \in 1..Cores}
    [] OTHER -> {Smallest(n, 1)}

\* Windows sets a latch and then submits chunk by chunk; dispatch_apply_f, "omp for"
\* and the single-threaded shop have all chunks at hand at once.
SpreadCall(t, s, n, chunks) ==
  /\ UserCode(t) /\ calls[s] = "new" /\ backend # "generic" /\ chunks \in NumsOfChunks(n)
  /\ calls' = [calls EXCEPT ![s] = "active"]
  /\ hits' = [hits EXCEPT ![s] = [c \in 1..chunks |-> 0]]
  /\ latch' = [latch EXCEPT ![s] = chunks]
  /\ Enter(t, SpreadFrame(IF backend = "windows" THEN "submit" ELSE "apply", s))
  /\ queued' = queued \cup IF backend = "windows" THEN {} ELSE {Chunk(s, c) : c \in 1..chunks}
  /\ UNCHANGED <<futureVars, backend, items>>

Submitting(t) == pc(t) = "submit" /\ Top(t).k <= Len(hits[Top(t).id])

Submit(t) ==
  /\ Submitting(t)
  /\ queued' = queued \cup {Chunk(Top(t).id, Top(t).k)}
  /\ Goto(t, [Top(t) EXCEPT !.k = @ + 1])
  /\ UNCHANGED <<futureVars, backend, spreading, items>>

\* Mutant: a refused chunk is left to nobody.
SubmitRefusedForgotten(t) ==
  /\ Submitting(t) /\ "submit" \in MayFail
  /\ Goto(t, [Top(t) EXCEPT !.k = @ + 1])
  /\ UNCHANGED <<futureVars, backend, queued, spreading, items>>

\* "Pool exhausted - run inline on the caller rather than hang."
SubmitRefused(t) ==
  /\ Submitting(t) /\ "submit" \in MayFail
  /\ GotoEnter(t, [Top(t) EXCEPT !.k = @ + 1], Body("inline", Chunk(Top(t).id, Top(t).k)))
  /\ UNCHANGED <<futureVars, backend, queued, spreading, items>>

\* The caller of dispatch_apply_f, or of a parallel region, works as well.
ApplyHere(t) ==
  /\ pc(t) = "apply"
  /\ \E c \in DOMAIN hits[Top(t).id] :
       LET w == Chunk(Top(t).id, c)
       IN  /\ w \in queued
           /\ queued' = queued \ {w}
           /\ Enter(t, Body("inline", w))
  /\ UNCHANGED <<futureVars, backend, spreading, items>>

\* Mutant: the call does not wait.
SpreadReturnEarly(t) ==
  /\ pc(t) \in {"submit", "apply"} /\ ~Submitting(t)
  /\ calls' = [calls EXCEPT ![Top(t).id] = "returned"]
  /\ Leave(t)
  /\ UNCHANGED <<futureVars, backend, queued, latch, hits, items>>

\* sync.wait(), the return of dispatch_apply_f, the end of the region.
SpreadReturn(t) ==
  /\ pc(t) \in {"submit", "apply"} /\ ~Submitting(t)
  /\ latch[Top(t).id] = 0
  /\ calls' = [calls EXCEPT ![Top(t).id] = "returned"]
  /\ Leave(t)
  /\ UNCHANGED <<futureVars, backend, queued, latch, hits, items>>

\* A chunk has run ...
ChunkRuns(t) ==
  /\ pc(t) \in {"pool", "inline"} /\ Top(t).work.kind = "chunk"
  /\ hits' = [hits EXCEPT ![Top(t).work.id][Top(t).work.c] = @ + 1]
  /\ GotoPc(t, "count")
  /\ UNCHANGED <<futureVars, backend, queued, latch, calls, items>>

\* ... and is counted down, which is the last use of its context.
ChunkCountsDown(t) ==
  /\ pc(t) = "count"
  /\ latch' = [latch EXCEPT ![Top(t).work.id] = @ - 1]
  /\ Leave(t)
  /\ UNCHANGED <<futureVars, backend, queued, calls, hits, items>>

SpreadStep(t) == \/ Submit(t) \/ SubmitRefused(t) \/ ApplyHere(t) \/ SpreadReturn(t)
                 \/ ChunkRuns(t) \/ ChunkCountsDown(t)
--------------------------------------------------------------------------------
(* fire_and_forget, fire_with_after; dispatch, dispatch_lite and dispatch_outcome
   fire work that has a promise *)

Promised(i) == i \in Dispatches

\* The future of a dispatch is there when the work has been handed over.
Handed(i) == IF Promised(i) THEN DispatchReturns(i) ELSE UNCHANGED futureVars

\* Common to every fire: made, accepted, and the pair of a dispatch.
Accept(t, i, where) ==
  /\ UserCode(t) /\ life[i] = "new"
  /\ closure' = [closure EXCEPT ![i] = where]
  /\ life' = [life EXCEPT ![i] = "accepted"]
  /\ IF Promised(i) THEN PairMade(i) ELSE UNCHANGED futureVars

\* A functor that fits into the context pointer is packed there (one with a promise is
\* not trivially copyable), and counted ...
FirePacked(t, i) ==
  /\ backend \in Tracked /\ ~Promised(i)
  /\ Accept(t, i, "packed")
  /\ inFlight' = inFlight + 1
  /\ Enter(t, FireFrame("fire", i))
  /\ UNCHANGED <<backend, queued, spreading>>

\* Mutant: not counted before it is submitted.
FireHeapUncounted(t, i) ==
  /\ backend \in Tracked
  /\ Accept(t, i, "heap")
  /\ Enter(t, FireFrame("fire", i))
  /\ UNCHANGED <<backend, queued, inFlight, spreading>>

\* ... any other is moved to the heap, and counted, ...
FireHeap(t, i) ==
  /\ backend \in Tracked
  /\ Accept(t, i, "heap")
  /\ inFlight' = inFlight + 1
  /\ Enter(t, FireFrame("fire", i))
  /\ UNCHANGED <<backend, queued, spreading>>

\* ... before it is submitted.
FireSubmit(t) ==
  /\ pc(t) = "fire"
  /\ queued' = queued \cup {Item(Top(t).id)}
  /\ Handed(Top(t).id)
  /\ Leave(t)
  /\ UNCHANGED <<backend, spreading, items>>

\* Windows may refuse the callback: the work runs here.
FireRefused(t) ==
  /\ pc(t) = "fire" /\ backend = "windows" /\ "submit" \in MayFail
  /\ Goto(t, Body("inline", Item(Top(t).id)))
  /\ UNCHANGED <<futureVars, backend, queued, spreading, items>>

\* On Windows no memory means false, and the caller's functor is destroyed as it is;
\* a dispatch looks at neither.  A std::thread that cannot be started throws.  (On
\* Apple the exception ends the program.)
FireNoMemory(t, i) ==
  /\ UserCode(t) /\ life[i] = "new" /\ "memory" \in MayFail
  /\ backend = "windows" \/ (backend \in {"openmp", "threads"} /\ ~Promised(i))
  /\ life' = [life EXCEPT ![i] = "refused"]
  /\ IF Promised(i) THEN PairMade(i) /\ Enter(t, FireFrame("unwind", i))
                    ELSE UNCHANGED <<futureVars, stack>>
  /\ UNCHANGED <<backend, queued, spreading, closure, inFlight>>

Unwind(t) ==
  /\ pc(t) = "unwind"
  /\ IF producer[Top(t).id] = "done" THEN DispatchReturns(Top(t).id) /\ Leave(t)
     ELSE /\ Drop(Top(t).id) \/ SignalTail(Top(t).id) \/ Abandon(Top(t).id)
          /\ UNCHANGED stack
  /\ UNCHANGED <<backend, queued, spreading, items>>

\* A detached std::thread owns the functor; nothing counts it.
FireDetached(t, i) ==
  /\ backend \in {"openmp", "threads"} /\ ~Promised(i)
  /\ Accept(t, i, "heap")
  /\ queued' = queued \cup {Item(i)}
  /\ UNCHANGED <<backend, stack, spreading, inFlight>>

\* Without threads the work is called, ...
FireInline(t, i) ==
  /\ backend = "inline" /\ ~Promised(i)
  /\ Accept(t, i, "frame")
  /\ Enter(t, Body("inline", Item(i)))
  /\ UNCHANGED <<backend, queued, spreading, inFlight>>

\* ... and a dispatch fires work with a promise.  (With threads it is std::async.)
DispatchInline(t, i) ==
  /\ backend = "inline" /\ Promised(i)
  /\ Accept(t, i, "frame")
  /\ Enter(t, Body("inline", Item(i)))
  /\ UNCHANGED <<backend, queued, spreading, inFlight>>

\* The generic shop's dispatch: its queue takes the work, ...
GenericDispatch(t, i) ==
  /\ backend = "generic" /\ Promised(i)
  /\ Accept(t, i, "heap")
  /\ Enter(t, FireFrame("fire", i))
  /\ UNCHANGED <<backend, queued, spreading, inFlight>>

\* ... or refuses it.
GenericRefused(t, i) ==
  /\ UserCode(t) /\ life[i] = "new" /\ backend = "generic" /\ Promised(i)
  /\ "memory" \in MayFail /\ DispatchRefused(i)
  /\ life' = [life EXCEPT ![i] = "refused"]
  /\ UNCHANGED <<backend, queued, stack, spreading, closure, inFlight>>

Fire(t, i) == \/ FirePacked(t, i) \/ FireHeap(t, i) \/ FireNoMemory(t, i)
              \/ FireDetached(t, i) \/ FireInline(t, i) \/ DispatchInline(t, i)
              \/ GenericDispatch(t, i) \/ GenericRefused(t, i)
--------------------------------------------------------------------------------
(* The callback of an item *)

RunsItem(t) == pc(t) \in {"pool", "inline", "after"} /\ Top(t).work.kind = "item"

\* The work runs; fire_with_after has a second functor.  A promise's run() completes it.
ItemRuns(t) ==
  /\ RunsItem(t)
  /\ LET i == Top(t).work.id
     IN  /\ IF Promised(i) THEN RunWork(i) ELSE UNCHANGED futureVars
         /\ \/ /\ life' = [life EXCEPT ![i] = "ran"]
               /\ GotoPc(t, "destroy")
            \/ /\ i \in Fires /\ pc(t) # "after" /\ backend = "windows"
               /\ GotoPc(t, "after")
               /\ UNCHANGED life
  /\ UNCHANGED <<backend, queued, spreading, closure, inFlight>>

\* The functor is destroyed, and its promise with it.
ItemDestroys(t) ==
  /\ pc(t) = "destroy"
  /\ LET i == Top(t).work.id
     IN  IF Promised(i) /\ producer[i] # "done"
         THEN /\ SignalTail(i) \/ Abandon(i)
              /\ UNCHANGED <<stack, closure>>
         ELSE /\ closure' = [closure EXCEPT ![i] = "gone"]
              /\ GotoPc(t, "uncount")
              /\ UNCHANGED futureVars
  /\ UNCHANGED <<backend, queued, spreading, life, inFlight>>

\* in_flight_guard; a dispatch whose work ran inline returns now.
ItemEnds(t) ==
  /\ pc(t) = "uncount"
  /\ LET i == Top(t).work.id
     IN  /\ life' = [life EXCEPT ![i] = "over"]
         /\ IF Promised(i) /\ consumer[i] = "calling" THEN DispatchReturns(i) ELSE UNCHANGED futureVars
  /\ inFlight' = IF backend \in Tracked THEN inFlight - 1 ELSE inFlight
  /\ Leave(t)
  /\ UNCHANGED <<backend, queued, spreading, closure>>

ItemStep(t) == \/ FireSubmit(t) \/ FireRefused(t) \/ Unwind(t)
               \/ ItemRuns(t) \/ ItemDestroys(t) \/ ItemEnds(t)

\* The system starts a callback; the single-threaded shop's chunk has no other thread.
CallbackStarts(w) ==
  /\ w \in queued /\ (w.kind = "chunk" => backend \in {"windows", "apple", "openmp"})
  /\ queued' = queued \ {w}
  /\ Enter(w, Body("pool", w))
  /\ UNCHANGED <<futureVars, backend, spreading, items>>
--------------------------------------------------------------------------------
shopVars == <<backend, queued, stack, spreading, items>>

\* What a thread does once it is called or started; user code returns in the end.
Progress(t) == SpreadStep(t) \/ ItemStep(t) \/ (t \in Callbacks /\ CallbackStarts(t))

\* The names of the calls are interchangeable: they are used in a fixed order.
Unused   == {s \in Spreads : calls[s] = "new"}
NextCall == IF Unused = {} THEN {} ELSE {CHOOSE s \in Unused : TRUE}

Call(t) == \/ \E s \in NextCall, n \in Iterations : \E chunks \in NumsOfChunks(n) : SpreadCall(t, s, n, chunks)
           \/ \E i \in Items : Fire(t, i)

\* The future's owner.
UseFuture(d) == (\E op \in Operations : FutureCall(d, op)) /\ UNCHANGED shopVars

OwnerStep(d) == ConsumerStep(d) /\ UNCHANGED shopVars

Next == \/ \E t \in Threads : Progress(t) \/ Call(t)
        \/ \E d \in Dispatches : UseFuture(d) \/ OwnerStep(d)

Spec == /\ Init /\ [][Next]_vars
        /\ WF_vars(\E t \in Threads : Progress(t))
        /\ \A d \in Dispatches : WF_vars(OwnerStep(d))
--------------------------------------------------------------------------------
Frames == UNION {{t} \X DOMAIN stack[t] : t \in Threads}

\* Whether some thread has a frame that works on w, or will.
InUse(w) == \/ w \in queued
            \/ \E f \in Frames : LET frame == stack[f[1]][f[2]]
                                IN  "work" \in DOMAIN frame /\ frame.work = w

\* "safe because sync.wait() keeps this frame alive": when a spread returns, each of
\* its chunks has run once, a refused one on the caller, and no callback has its
\* context, latch or functor any more.
SpreadComplete ==
  \A s \in Spreads :
    /\ \A c \in DOMAIN hits[s] : hits[s][c] <= 1
    /\ calls[s] = "returned" =>
         \A c \in DOMAIN hits[s] : hits[s][c] = 1 /\ ~InUse(Chunk(s, c))

\* wait_until_idle() on the shops that count: with nothing in flight every functor
\* that was accepted has run, has been destroyed, "exactly once, on the worker,
\* sequenced after execution", and has given its promise up; and with nothing to do
\* nothing is in flight.
IdleMeansDone ==
  backend \in Tracked =>
    /\ inFlight = 0 =>
         /\ \A i \in Items : life[i] \notin {"accepted", "ran"} /\ closure[i] # "heap"
         /\ \A d \in Dispatches : life[d] # "refused" => producer[d] \in {"none", "done"}
    /\ (queued = {} /\ \A t \in Threads : stack[t] = <<>>) => inFlight = 0

\* Every spread returns: refused chunks run on the caller, and dispatch_apply_f and
\* the parallel region do with the caller alone what nobody else takes.
SpreadsReturn == \A s \in Spreads : (calls[s] = "active") ~> (calls[s] = "returned")
================================================================================
