-------------------------------- MODULE ShopProofs --------------------------------
(***************************************************************************)
(* TLAPS proofs of what the generic shop promises, from its invariant.     *)
(***************************************************************************)
EXTENDS ShopInvariant

--------------------------------------------------------------------------------
(* What the invariant says of the spreads *)

LEMMA CompleteFollows ==
  ASSUME ShopInv
  PROVE  SpreadComplete
<1>1. \A i \in Items : ran[i] <= 1
  <2>1. \A i \in Items : ran[i] \in {0, 1}
    BY DEF ShopInv, Typed
  <2> QED
    BY <2>1
<1>2. ASSUME NEW s \in Spreads, NEW i \in DOMAIN hits[s]
      PROVE  hits[s][i] <= 1 /\ (calls[s] = "returned" => hits[s][i] = 1)
  <2>1. hits[s] \in Seq({0, 1}) /\ BarrierOK(s)
    BY DEF ShopInv, Typed
  <2>2. hits[s][i] \in {0, 1}
    BY <1>2, <2>1, ElementOfSeq
  <2> QED
    BY <1>2, <2>1, <2>2 DEF BarrierOK
<1> QED
  BY <1>1, <1>2 DEF SpreadComplete

\* No item or iteration is run twice, and a spread that has returned has run all of its own.
THEOREM SpreadsComplete ==
  ASSUME WideEnough
  PROVE  SafeSpec => []SpreadComplete
<1>1. ShopInv => SpreadComplete
  BY CompleteFollows
<1> QED
  BY <1>1, ShopInvariance, PTL

\* A work in a queue has its shares.
LEMMA QueuedHas ==
  ASSUME ShopInv, NEW t \in Threads, NEW k \in 1..Len(queue[t]), NEW w, w = queue[t][k]
  PROVE  w \in Works /\ WorkShares(w) \subseteq Waiting /\ WorkShares(w) \subseteq InHand
<1>1. queue \in [Threads -> Seq(Works)]
  BY DEF ShopInv, Typed
<1>2. DOMAIN Queues[t] = 1..Len(queue[t]) /\ w \in Works /\ Queues[t][k] = WorkShares(w)
  BY <1>1, QueueHeld, QueueHolds
<1>3. WorkShares(w) \subseteq Waiting
  BY <1>2 DEF Waiting, Taken
<1> QED
  BY <1>2, <1>3 DEF InHand, Taken

LEMMA OutlivesFollows ==
  ASSUME ShopInv
  PROVE  WorkOutlivesNoSpread
<1>1. ASSUME NEW w \in Works, WorkShares(w) \subseteq InHand, w.kind = "chunk"
      PROVE  calls[w.id] = "active"
  <2>1. w.id \in Spreads /\ WorkShares(w) = Iters(w.id, Its(w)) \cup Counts(w.id, {w.to})
    BY <1>1, WorkShape DEF WorkShares
  <2>2. Share("count", w.id, w.to) \in InHand /\ SharesOK(w.id)
    BY <1>1, <2>1 DEF Counts, ShopInv
  <2> QED
    BY <2>2 DEF SharesOK
<1>2. ASSUME NEW t \in Threads, NEW w \in ToSet(queue[t]), w.kind = "chunk"
      PROVE  calls[w.id] = "active"
  <2>1. queue[t] \in Seq(Works)
    BY DEF ShopInv, Typed
  <2>2. PICK k \in 1..Len(queue[t]) : w = queue[t][k]
    BY <1>2, <2>1 DEF ToSet
  <2> QED
    BY <1>1, <1>2, <2>2, QueuedHas
<1>3. ASSUME NEW t \in Threads, NEW k \in Bodies(t), stack[t][k].work.kind = "chunk"
      PROVE  calls[stack[t][k].work.id] = "active"
  <2>1. PICK f, w : f = stack[t][k] /\ w = f.work
    OBVIOUS
  <2>2. On(t, k, f) /\ f.pc = "body"
    BY <1>3, <2>1 DEF On, Bodies
  <2>3. f \in Frame /\ Claims(f) \subseteq InHand
    BY <2>2, EveryFrame
  <2>4. w \in Works /\ Claims(f) = WorkShares(w)
    BY <2>1, <2>2, <2>3, RunShape, ClaimsAt DEF RunPcs
  <2> QED
    BY <1>1, <1>3, <2>1, <2>3, <2>4
<1> QED
  BY <1>2, <1>3 DEF WorkOutlivesNoSpread

\* Whatever refers to a spread's barrier is gone before the spread returns.
THEOREM SpreadOutlivesWork ==
  ASSUME WideEnough
  PROVE  SafeSpec => []WorkOutlivesNoSpread
<1>1. ShopInv => WorkOutlivesNoSpread
  BY OutlivesFollows
<1> QED
  BY <1>1, ShopInvariance, PTL

--------------------------------------------------------------------------------
(* What a step makes of a stack *)

LEMMA Came ==
  ASSUME stack \in [Threads -> Seq(Frame)], stack' \in [Threads -> Seq(Frame)], NEW t \in Threads
  PROVE  /\ \A f : Enter(t, f) => f \in Frame
         /\ pc(t) # "idle" => \A f : Goto(t, f) => f \in Frame
         /\ pc(t) # "idle" => \A f, g : GotoEnter(t, f, g) => f \in Frame /\ g \in Frame
<1>1. PICK s, n : s = stack[t] /\ n = Len(stack[t])
  OBVIOUS
<1>2. s \in Seq(Frame) /\ stack'[t] \in Seq(Frame) /\ n \in Nat
  BY <1>1
<1>3. pc(t) # "idle" => s # <<>>
  BY <1>1 DEF pc
<1>4. ASSUME NEW f, NEW g
      PROVE  /\ Enter(t, f) => f \in Frame
             /\ s # <<>> => (Goto(t, f) => f \in Frame) /\ (GotoEnter(t, f, g) => f \in Frame /\ g \in Frame)
  <2>1. PICK F : F = Frame \cup {f, g}
    OBVIOUS
  <2>2. f \in F /\ g \in F /\ s \in Seq(F) /\ stack \in [Threads -> Seq(F)]
    BY <1>2, <2>1
  <2>3. ASSUME NEW i \in Nat \ {0}, i <= Len(stack'[t])
        PROVE  stack'[t][i] \in Frame
    BY <1>2, <2>3, ElementOfSeq
  <2>4. Enter(t, f) => f \in Frame
    <3>1. Enter(t, f) => Shift(F, Threads, stack, stack', t, n, <<f>>)
      BY <1>1, <2>2, Shifts DEF Enter
    <3>2. Enter(t, f) => Len(stack'[t]) = n + 1 /\ stack'[t][n + 1] = f
      BY <3>1, Tuples DEF Shift
    <3> QED
      BY <1>2, <2>3, <3>2
  <2>5. s # <<>> /\ Goto(t, f) => f \in Frame
    <3>1. s # <<>> /\ Goto(t, f) => Shift(F, Threads, stack, stack', t, n - 1, <<f>>)
      BY <1>1, <2>2, Shifts DEF Goto, Front
    <3>2. s # <<>> /\ Goto(t, f) => Len(stack'[t]) = n /\ stack'[t][n] = f
      BY <1>2, <3>1, Tuples DEF Shift
    <3>3. s # <<>> => n # 0
      BY <1>1, <1>2
    <3> QED
      BY <1>2, <2>3, <3>2, <3>3
  <2>6. s # <<>> /\ GotoEnter(t, f, g) => f \in Frame /\ g \in Frame
    <3>1. s # <<>> /\ GotoEnter(t, f, g) => Shift(F, Threads, stack, stack', t, n - 1, <<f, g>>)
      BY <1>1, <2>2, Shifts DEF GotoEnter, Front
    <3>2. s # <<>> /\ GotoEnter(t, f, g) => Len(stack'[t]) = n + 1 /\ stack'[t][n] = f /\ stack'[t][n + 1] = g
      BY <1>2, <3>1, Tuples DEF Shift
    <3>3. s # <<>> => n # 0
      BY <1>1, <1>2
    <3> QED
      BY <1>2, <2>3, <3>2, <3>3
  <2> QED
    BY <2>4, <2>5, <2>6
<1> QED
  BY <1>3, <1>4

--------------------------------------------------------------------------------
(* What may lie on top of what: work under the calls that it makes, a loop or a join
   under the work that it runs; and only who steals has a walk under way *)

Walks == {"steal", "caller_steal"}

Neat(f) == /\ f.pc \in (WorkerPcs \cup SpreadPcs) \ Walks => f.seen = {}
           /\ "bulk" \notin setup.faults => f.pc # "bulk_undo"

Upon(f, g) ==
  \/ f.pc = "body" /\ g.pc \in FirePcs \cup SpreadPcs
  \/ f.pc \in {"own", "steal", "caller_steal", "join", "return"} /\ f.seen = {} /\ g.pc \in RunPcs

Nest == \A t \in Threads : /\ \A i \in 1..Len(stack[t]) : Neat(stack[t][i])
                           /\ \A i \in 1..(Len(stack[t]) - 1) : Upon(stack[t][i], stack[t][i + 1])

\* The frame f goes on as g.
Turned(f, g) ==
  /\ Neat(g) /\ g.pc # "body" /\ (g.pc = "gone" => brexit)
  /\ \/ f.pc \in RunPcs /\ g.pc \in RunPcs
     \/ f.pc \in FirePcs /\ g.pc \in FirePcs
     \/ f.pc \in SpreadPcs /\ g.pc \in SpreadPcs /\ g.id = f.id
     \/ f.pc \in WorkerPcs /\ g.pc \in WorkerPcs
     \/ /\ <<f.pc, g.pc>> \in {<<"stop", "stop_wake">>, <<"stop_wake", "stop_wake">>, <<"stop_wake", "stopped">>}
        /\ g.then = f.then

\* Who will look into the queue p, a worker or a caller that is free to steal; and
\* who waits, whatever is in it.
Looks(f, p)  == f.pc \in {"own", "woken", "left", "right"} \/ (f.pc = "steal" /\ p \notin f.seen)
Eager(f, p)  == \/ f.pc \in PartPcs
                \/ f.pc = "own_work" /\ ~f.wait
                \/ f.pc = "caller_steal" /\ p \notin f.seen
Blocks(f, p) == \/ f.pc = "join"
                \/ f.pc = "own_work" /\ f.wait
                \/ f.pc = "caller_steal" /\ p \in f.seen

\* A wake-up that is owed, and one that has been sent.
Waking == {"notify", "part_notify", "bulk_wake"}
Alert  == \E w \in Workers : tokens[w] > 0

\* What is in a queue is not forgotten, ...
Keen(f, g) ==
  "look" \notin setup.faults =>
    \A p \in Threads : queue[p] # <<>> =>
      /\ Looks(f, p) => Looks(g, p)
      /\ \/ "bulk" \in setup.faults
         \/ Alert'
         \/ /\ Eager(f, p) => Eager(g, p)
            /\ Blocks(g, p) => Blocks(f, p)
            /\ f.pc \in Waking => g.pc \in Waking

\* ... and neither is what is put there.
Hurries(g) == \A p \in Threads : queue[p] = <<>> /\ queue'[p] # <<>> => g.pc \in Waking \/ Eager(g, p)
NoneAdded  == \A p \in Threads : queue[p] = <<>> => queue'[p] = <<>>

Goes(t) == /\ pc(t) \notin {"idle", "gone"}
           /\ \E g \in Frame : Goto(t, g) /\ Turned(Top(t), g) /\ Keen(Top(t), g) /\ Hurries(g)

Picks(t) == /\ pc(t) \in {"steal", "caller_steal", "alone", "own_work"} /\ NoneAdded
            /\ \E g, h \in Frame : /\ GotoEnter(t, g, h) /\ Turned(Top(t), g) /\ Keen(Top(t), g)
                                   /\ h.pc = "body" /\ Upon(g, h)

Begins(t) == /\ NoneAdded
             /\ \E g \in Frame : /\ Enter(t, g) /\ g.pc \in {"body", "target", "look", "stop"} /\ Neat(g)
                                 /\ pc(t) # "idle" => Upon(Top(t), g)
                                 /\ g.pc \in SpreadPcs => calls[g.id] = "new"
                                 /\ g.pc = "stop" /\ g.then # "stopped" => \A p \in Threads : queue[p] = <<>>

Quits(t) == pc(t) \in {"completed", "track", "return", "create"} /\ NoneAdded /\ Leave(t)

\* The pool is replaced, or a worker started: who is concerned has only its loop, or the stop.
Renews == \A u \in Threads :
  \/ stack'[u] = stack[u]
  \/ /\ Len(stack'[u]) <= 1
     /\ \A i \in 1..Len(stack'[u]) : stack'[u][i].pc \in {"own", "create"} /\ Neat(stack'[u][i])

Acts(t)   == Goes(t) \/ Picks(t) \/ Begins(t) \/ Quits(t)
Effect(t) == Acts(t) \/ Renews

LEMMA RunIsBody == "body" \in RunPcs /\ "completed" \in RunPcs
BY DEF RunPcs

\* A junction of two frames stays one when the upper one goes on.
LEMMA UponTurned ==
  ASSUME NEW e, NEW f, NEW g, Upon(e, f), Turned(f, g)
  PROVE  Upon(e, g)
BY Kinds DEF Upon, Turned, StopPcs, RunPcs

\* What lies on a stack after a step.
LEMMA NestShift ==
  ASSUME ShopInv, Nest, setup' = setup, NEW t \in Threads, NEW b, NEW G, Len(G) \in 0..2,
         Shift(Frame, Threads, stack, stack', t, b, G),
         \A i \in 1..Len(G) : Neat(G[i]),
         b # 0 /\ Len(G) # 0 => Upon(stack[t][b], G[1]),
         Len(G) = 2 => Upon(G[1], G[2])
  PROVE  Nest'
<1>1. /\ b \in Nat /\ Len(stack[t]) \in {b, b + 1} /\ Len(stack'[t]) = b + Len(G)
      /\ \A u \in Threads : u # t => stack'[u] = stack[u]
      /\ \A i \in 1..b : i \in 1..Len(stack[t]) /\ stack'[t][i] = stack[t][i]
      /\ \A i \in 1..Len(G) : stack'[t][b + i] = G[i]
      /\ \A i \in 1..Len(stack'[t]) : \/ i \in 1..b
                                      \/ i - b \in 1..Len(G) /\ b + (i - b) = i /\ stack'[t][i] = G[i - b]
  BY Whence
<1>2. \A f : Neat(f)' <=> Neat(f)
  BY DEF Neat
<1>3. \A f, g : Upon(f, g)' <=> Upon(f, g)
  BY DEF Upon
<1>4. ASSUME NEW i \in 1..Len(stack'[t])
      PROVE  Neat(stack'[t][i])
  <2>1. CASE i \in 1..b
    BY <1>1, <2>1 DEF Nest
  <2>2. CASE i - b \in 1..Len(G) /\ stack'[t][i] = G[i - b]
    BY <2>2
  <2> QED
    BY <1>1, <2>1, <2>2
<1>5. ASSUME NEW i \in 1..(Len(stack'[t]) - 1)
      PROVE  Upon(stack'[t][i], stack'[t][i + 1])
  <2>1. CASE i + 1 <= b
    <3>1. i \in 1..b /\ i + 1 \in 1..b /\ i \in 1..(Len(stack[t]) - 1)
      BY <1>1, <2>1
    <3> QED
      BY <1>1, <3>1 DEF Nest
  <2>2. CASE i = b
    <3>1. b # 0 /\ Len(G) # 0 /\ 1 \in 1..Len(G) /\ b \in 1..b
      BY <1>1, <2>2
    <3>2. stack'[t][b + 1] = G[1] /\ stack'[t][b] = stack[t][b]
      BY <1>1, <3>1
    <3> QED
      BY <2>2, <3>1, <3>2
  <2>3. CASE i = b + 1
    <3>1. Len(G) = 2 /\ 1 \in 1..Len(G) /\ 2 \in 1..Len(G) /\ i + 1 = b + 2
      BY <1>1, <2>3
    <3>2. stack'[t][b + 1] = G[1] /\ stack'[t][b + 2] = G[2]
      BY <1>1, <3>1
    <3> QED
      BY <2>3, <3>1, <3>2
  <2> QED
    BY <1>1, <2>1, <2>2, <2>3
<1> QED
  <2>1. ASSUME NEW u \in Threads
        PROVE  /\ \A i \in 1..Len(stack'[u]) : Neat(stack'[u][i])
               /\ \A i \in 1..(Len(stack'[u]) - 1) : Upon(stack'[u][i], stack'[u][i + 1])
    <3>1. CASE u = t
      BY <1>4, <1>5, <3>1
    <3>2. CASE u # t
      BY <1>1, <3>2 DEF Nest
    <3> QED
      BY <3>1, <3>2
  <2> QED
    BY <1>2, <1>3, <2>1 DEF Nest

\* What is under the frame on top.
LEMMA NestTop ==
  ASSUME ShopInv, Nest, NEW t \in Threads, pc(t) # "idle", NEW n, n = Len(stack[t])
  PROVE  /\ n \in Nat \ {0} /\ n - 1 \in Nat /\ Top(t) = stack[t][n] /\ Top(t) \in Frame
         /\ pc(t) = Top(t).pc /\ Neat(Top(t))
         /\ n - 1 # 0 => Upon(stack[t][n - 1], Top(t))
<1>1. stack \in [Threads -> Seq(Frame)]
  BY DEF ShopInv, Typed
<1>2. /\ n \in Nat \ {0} /\ Top(t) = stack[t][n] /\ Top(t) \in Frame /\ pc(t) = Top(t).pc
  BY <1>1, Turns
<1>3. Neat(Top(t))
  BY <1>2 DEF Nest
<1>4. n - 1 # 0 => Upon(stack[t][n - 1], stack[t][n])
  <2>1. \A m \in Nat \ {0} : m - 1 # 0 => m - 1 \in 1..(m - 1) /\ (m - 1) + 1 = m
    OBVIOUS
  <2>2. n - 1 # 0 => n - 1 \in 1..(Len(stack[t]) - 1) /\ (n - 1) + 1 = n
    BY <1>2, <2>1
  <2> QED
    BY <2>2 DEF Nest
<1> QED
  BY <1>2, <1>3, <1>4

LEMMA NestStep ==
  ASSUME ShopInv, ShopInv', Nest, setup' = setup, NEW t \in Threads, Effect(t)
  PROVE  Nest'
<1>1. PICK n : n = Len(stack[t])
  OBVIOUS
<1>2. /\ stack \in [Threads -> Seq(Frame)] /\ stack[t] \in Seq(Frame) /\ n \in Nat
      /\ \A f \in Frame : Enter(t, f) => Shift(Frame, Threads, stack, stack', t, n, <<f>>)
      /\ pc(t) # "idle" =>
           /\ Leave(t) => Shift(Frame, Threads, stack, stack', t, n - 1, <<>>)
           /\ \A f \in Frame : Goto(t, f) => Shift(Frame, Threads, stack, stack', t, n - 1, <<f>>)
           /\ \A f, g \in Frame :
                GotoEnter(t, f, g) => Shift(Frame, Threads, stack, stack', t, n - 1, <<f, g>>)
  BY <1>1, Turns DEF ShopInv, Typed
<1>3. pc(t) # "idle" /\ n - 1 # 0 => Upon(stack[t][n - 1], Top(t))
  BY <1>1, NestTop
<1>4. CASE Goes(t)
  <2>1. PICK g \in Frame : pc(t) # "idle" /\ Goto(t, g) /\ Turned(Top(t), g)
    BY <1>4 DEF Goes
  <2>2. PICK G : G = <<g>>
    OBVIOUS
  <2>3. Len(G) = 1 /\ G[1] = g /\ 1..Len(G) = {1}
    BY <2>2, Tuples
  <2>4. Shift(Frame, Threads, stack, stack', t, n - 1, G)
    BY <1>2, <2>1, <2>2
  <2>5. Neat(g) /\ (n - 1 # 0 => Upon(stack[t][n - 1], g))
    BY <1>3, <2>1, UponTurned DEF Turned
  <2> QED
    BY <2>3, <2>4, <2>5, NestShift
<1>5. CASE Picks(t)
  <2>1. PICK g \in Frame, h \in Frame : pc(t) # "idle" /\ GotoEnter(t, g, h) /\ Turned(Top(t), g)
                                        /\ Upon(g, h) /\ h.pc = "body"
    BY <1>5 DEF Picks
  <2>2. PICK G : G = <<g, h>>
    OBVIOUS
  <2>3. Len(G) = 2 /\ G[1] = g /\ G[2] = h /\ 1..Len(G) = {1, 2}
    BY <2>2, Tuples
  <2>4. Shift(Frame, Threads, stack, stack', t, n - 1, G)
    BY <1>2, <2>1, <2>2
  <2>5. Neat(g) /\ Neat(h) /\ (n - 1 # 0 => Upon(stack[t][n - 1], g))
    <3>1. Neat(h)
      BY <2>1 DEF Neat, WorkerPcs, SpreadPcs, PartPcs, BulkPcs
    <3> QED
      BY <1>3, <2>1, <3>1, UponTurned DEF Turned
  <2> QED
    BY <2>1, <2>3, <2>4, <2>5, NestShift
<1>6. CASE Begins(t)
  <2>1. PICK g \in Frame : Enter(t, g) /\ Neat(g) /\ (pc(t) # "idle" => Upon(Top(t), g))
    BY <1>6 DEF Begins
  <2>2. PICK G : G = <<g>>
    OBVIOUS
  <2>3. Len(G) = 1 /\ G[1] = g /\ 1..Len(G) = {1}
    BY <2>2, Tuples
  <2>4. Shift(Frame, Threads, stack, stack', t, n, G)
    BY <1>2, <2>1, <2>2
  <2>5. n # 0 => pc(t) # "idle"
    <3>1. n # 0 => stack[t] # <<>> /\ n \in 1..Len(stack[t])
      BY <1>1, <1>2
    <3>2. n # 0 => stack[t][n] \in Frame
      BY <1>2, <3>1, ElementOfSeq
    <3> QED
      BY <1>1, <3>1, <3>2, Kinds DEF pc, Top
  <2>6. n # 0 => Upon(stack[t][n], g)
    BY <1>1, <2>1, <2>5, NestTop
  <2> QED
    BY <2>1, <2>3, <2>4, <2>6, NestShift
<1>7. CASE Quits(t)
  <2>1. pc(t) # "idle" /\ Leave(t)
    BY <1>7 DEF Quits
  <2>2. PICK G : G = <<>>
    OBVIOUS
  <2>3. Len(G) = 0 /\ 1..Len(G) = {}
    BY <2>2, Tuples
  <2>4. Shift(Frame, Threads, stack, stack', t, n - 1, G)
    BY <1>2, <2>1, <2>2
  <2> QED
    BY <2>3, <2>4, NestShift
<1>8. CASE Renews
  <2>1. \A f : Neat(f)' <=> Neat(f)
    BY DEF Neat
  <2>2. \A f, g : Upon(f, g)' <=> Upon(f, g)
    BY DEF Upon
  <2>3. stack' \in [Threads -> Seq(Frame)]
    BY DEF ShopInv, Typed
  <2>4. ASSUME NEW u \in Threads
        PROVE  /\ \A i \in 1..Len(stack'[u]) : Neat(stack'[u][i])
               /\ \A i \in 1..(Len(stack'[u]) - 1) : Upon(stack'[u][i], stack'[u][i + 1])
    <3>1. CASE stack'[u] = stack[u]
      BY <3>1 DEF Nest
    <3>2. CASE stack'[u] # stack[u]
      <4>1. Len(stack'[u]) \in Nat /\ Len(stack'[u]) <= 1
        BY <1>8, <2>3, <3>2 DEF Renews
      <4> QED
        BY <1>8, <3>2, <4>1 DEF Renews
    <3> QED
      BY <3>1, <3>2
  <2> QED
    BY <2>1, <2>2, <2>4 DEF Nest
<1> QED
  BY <1>4, <1>5, <1>6, <1>7, <1>8 DEF Effect, Acts

\* Queues that nothing is added to.
LEMMA Unhurried ==
  ASSUME ShopInv
  PROVE  /\ queue' = queue => NoneAdded
         /\ \A p \in Threads : queue[p] # <<>> /\ queue' = [queue EXCEPT ![p] = Tail(@)] => NoneAdded
         /\ NoneAdded => \A g : Hurries(g)
<1>1. queue \in [Threads -> Seq(Works)]
  BY DEF ShopInv, Typed
<1>2. ASSUME NEW p \in Threads, queue[p] # <<>>, queue' = [queue EXCEPT ![p] = Tail(@)]
      PROVE  NoneAdded
  <2>1. \A u \in Threads : u # p => queue'[u] = queue[u]
    BY <1>1, <1>2
  <2> QED
    BY <1>2, <2>1 DEF NoneAdded
<1> QED
  BY <1>2 DEF NoneAdded, Hurries

LEMMA GoesAs ==
  ASSUME ShopInv, ShopInv', NEW t \in Threads, pc(t) \notin {"idle", "gone"}, NEW g, Goto(t, g),
         Turned(Top(t), g), Keen(Top(t), g), Hurries(g)
  PROVE  Acts(t)
<1>1. g \in Frame
  BY Came DEF ShopInv, Typed
<1> QED
  BY <1>1 DEF Acts, Goes

LEMMA BeginsAs ==
  ASSUME ShopInv, ShopInv', NEW t \in Threads, NEW g, Enter(t, g), NoneAdded,
         g.pc \in {"body", "target", "look", "stop"}, Neat(g),
         pc(t) # "idle" => Upon(Top(t), g),
         g.pc \in SpreadPcs => calls[g.id] = "new",
         g.pc = "stop" /\ g.then # "stopped" => \A p \in Threads : queue[p] = <<>>
  PROVE  Acts(t)
<1>1. g \in Frame
  BY Came DEF ShopInv, Typed
<1> QED
  BY <1>1 DEF Acts, Begins

\* A loop or a join goes to run a work.
LEMMA PicksAs ==
  ASSUME ShopInv, ShopInv', NEW t \in Threads, pc(t) \in {"steal", "caller_steal", "alone", "own_work"},
         NEW g, NEW w, GotoEnter(t, g, RunFrame(w)), Turned(Top(t), g), Keen(Top(t), g), NoneAdded,
         g.pc \in {"steal", "caller_steal", "join", "return"}, g.seen = {}
  PROVE  Acts(t)
<1>1. PICK h : h = RunFrame(w)
  OBVIOUS
<1>2. h.pc = "body"
  BY <1>1 DEF RunFrame
<1>3. Upon(g, h)
  BY <1>2 DEF Upon, RunPcs
<1>4. g \in Frame /\ h \in Frame
  BY <1>1, Came DEF ShopInv, Typed
<1> QED
  BY <1>1, <1>2, <1>3, <1>4 DEF Acts, Picks

LEMMA WorkerEffect ==
  ASSUME ShopInv, ShopInv', Nest, NEW t \in Threads, WorkerStep(t)
  PROVE  Acts(t)
<1>1. pc(t) \in WorkerPcs /\ pc(t) # "steal" /\ pc(t) \notin {"idle", "gone"}
  BY DEF WorkerStep, OwnDequeue, ExitCheck, Wait, Woken, WakeLeft, WakeRight, WorkerPcs
<1>2. PICK f : f = Top(t)
  OBVIOUS
<1>3. f \in Frame /\ f.pc = pc(t) /\ Neat(f)
  BY <1>1, <1>2, NestTop
<1>4. f.seen = {}
  BY <1>1, <1>3 DEF Neat, Walks, WorkerPcs
<1>5. CASE OwnDequeue(t)
  <2>0. queue \in [Threads -> Seq(Works)]
    BY DEF ShopInv, Typed
  <2>1. CASE queue[t] # <<>>
    <3>1. PICK g : g = RunFrame(Head(queue[t]))
      OBVIOUS
    <3>2. Enter(t, g) /\ g.pc = "body" /\ pc(t) = "own"
      BY <1>5, <2>1, <3>1 DEF OwnDequeue, RunFrame
    <3>3. Upon(f, g)
      BY <1>3, <1>4, <3>2 DEF Upon, RunPcs
    <3>4. Neat(g) /\ g.pc \notin SpreadPcs
      BY <3>2 DEF Neat, WorkerPcs, SpreadPcs, PartPcs, BulkPcs
    <3>5. NoneAdded
      BY <1>5, <2>1, Unhurried DEF OwnDequeue
    <3> QED
      BY <1>2, <3>2, <3>3, <3>4, <3>5, BeginsAs
  <2>2. CASE queue[t] = <<>>
    <3>1. PICK g : g = WorkerFrame("steal")
      OBVIOUS
    <3>2. Goto(t, g) /\ g.pc = "steal" /\ g.seen = {} /\ pc(t) = "own" /\ queue' = queue
      BY <1>5, <2>2, <3>1 DEF OwnDequeue, WorkerFrame
    <3>3. Turned(f, g)
      BY <1>1, <1>3, <3>2 DEF Turned, Neat, WorkerPcs, SpreadPcs, PartPcs, BulkPcs, Walks
    <3>4. Keen(f, g)
      BY <1>3, <3>2 DEF Keen, Looks, Eager, Blocks, Waking, PartPcs
    <3> QED
      BY <1>1, <1>2, <3>2, <3>3, <3>4, Unhurried, GoesAs
  <2> QED
    BY <2>1, <2>2
<1>6. CASE ~OwnDequeue(t)
  <2>1. PICK l \in WorkerPcs : /\ GotoPc(t, l) /\ l # "steal" /\ queue' = queue
                               /\ l = "gone" => brexit
                               /\ pc(t) \in {"woken", "left", "right"} => l \in {"left", "right", "own"}
                               /\ pc(t) \in {"exit", "wait", "woken", "left", "right"}
    <3>1. CASE ExitCheck(t)
      BY <3>1 DEF ExitCheck, WorkerPcs
    <3>2. CASE Wait(t)
      BY <3>2 DEF Wait, WorkerPcs
    <3>3. CASE Woken(t)
      BY <3>3 DEF Woken, WorkerPcs
    <3>4. CASE WakeLeft(t)
      BY <3>4 DEF WakeLeft, WorkerPcs
    <3>5. CASE WakeRight(t)
      BY <3>5 DEF WakeRight, WorkerPcs
    <3> QED
      BY <1>6, <3>1, <3>2, <3>3, <3>4, <3>5 DEF WorkerStep
  <2>2. PICK g : g = StealRec(l, {})
    OBVIOUS
  <2>3. [f EXCEPT !.pc = l] = g
    <3>1. \A k : [f EXCEPT !.pc = k] = StealRec(k, f.seen)
      BY Zenon, <1>1, <1>3, WorkerShape
    <3> QED
      BY <1>4, <2>2, <3>1
  <2>4. Goto(t, g)
    BY <1>2, <2>1, <2>3 DEF GotoPc
  <2>5. g.pc = l /\ g.seen = {}
    BY <2>2 DEF StealRec
  <2>6. Turned(f, g)
    <3>1. Neat(g)
      BY <2>1, <2>5 DEF Neat, WorkerPcs
    <3>2. g.pc # "body"
      BY <2>1, <2>5 DEF WorkerPcs
    <3> QED
      BY <1>1, <1>3, <2>1, <2>5, <3>1, <3>2 DEF Turned
  <2>7. Keen(f, g)
    BY <1>3, <2>1, <2>5 DEF Keen, Looks, Eager, Blocks, Waking, PartPcs, WorkerPcs
  <2> QED
    BY <1>1, <1>2, <2>1, <2>4, <2>6, <2>7, Unhurried, GoesAs
<1> QED
  BY <1>5, <1>6

\* A thief's frame goes on with its walk, or has ended it.
WalksOn(f, g, z) == g = [f EXCEPT !.seen = z]
WalkDone(f, g)   == g = [f EXCEPT !.seen = {}, !.pc = IF @ = "steal" THEN "exit" ELSE "join"]

LEMMA WalkOn ==
  ASSUME NEW f \in Frame, f.pc \in Walks
  PROVE  /\ \A g, z : WalksOn(f, g, z) => Turned(f, g) /\ g.pc = f.pc /\ g.seen = z
         /\ \A g : WalkDone(f, g) => Turned(f, g) /\ g.pc = IF f.pc = "steal" THEN "exit" ELSE "join"
<1>1. CASE f.pc = "steal"
  <2>1. f.pc \in WorkerPcs
    BY <1>1 DEF WorkerPcs
  <2>2. /\ \A z : [f EXCEPT !.seen = z] = StealRec(f.pc, z)
        /\ [f EXCEPT !.seen = {}, !.pc = "exit"] = StealRec("exit", {})
    <3>1. \A l, z : [f EXCEPT !.seen = z, !.pc = l] = StealRec(l, z)
      BY Zenon, <2>1, WorkerShape
    <3>2. [f EXCEPT !.seen = {}, !.pc = "exit"] = StealRec("exit", {})
      BY ONLY <3>1, Zenon
    <3> QED
      BY Zenon, <2>1, <3>2, WorkerShape
  <2>3. ASSUME NEW g, NEW z, WalksOn(f, g, z)
        PROVE  Turned(f, g) /\ g.pc = f.pc /\ g.seen = z
    <3>1. g = StealRec("steal", z)
      BY <1>1, <2>2, <2>3 DEF WalksOn
    <3>2. g.pc = "steal" /\ g.seen = z
      BY <3>1 DEF StealRec
    <3> QED
      BY <1>1, <2>1, <3>2 DEF Turned, Neat, Walks
  <2>4. ASSUME NEW g, WalkDone(f, g)
        PROVE  Turned(f, g) /\ g.pc = "exit"
    <3>1. g = StealRec("exit", {})
      <4>1. g = [f EXCEPT !.seen = {}, !.pc = "exit"]
        BY <1>1, <2>4 DEF WalkDone
      <4> QED
        BY <2>2, <4>1
    <3>2. g.pc = "exit" /\ g.seen = {}
      BY <3>1 DEF StealRec
    <3> QED
      BY <1>1, <2>1, <3>2 DEF Turned, Neat, WorkerPcs
  <2> QED
    BY <1>1, <2>3, <2>4
<1>2. CASE f.pc = "caller_steal"
  <2>1. f.pc \in SpreadPcs
    BY <1>2 DEF SpreadPcs
  <2>2. /\ \A z : [f EXCEPT !.seen = z] = SpreadRec(f.pc, f.id, f.chunks, f.k, f.callerEnd, f.wait, z)
        /\ [f EXCEPT !.seen = {}, !.pc = "join"] = SpreadRec("join", f.id, f.chunks, f.k, f.callerEnd, f.wait, {})
    <3>1. \A l, z : [f EXCEPT !.seen = z, !.pc = l] = SpreadRec(l, f.id, f.chunks, f.k, f.callerEnd, f.wait, z)
      BY Zenon, <2>1, SpreadShape
    <3>2. [f EXCEPT !.seen = {}, !.pc = "join"] = SpreadRec("join", f.id, f.chunks, f.k, f.callerEnd, f.wait, {})
      BY ONLY <3>1, Zenon
    <3> QED
      BY Zenon, <2>1, <3>2, SpreadShape
  <2>3. ASSUME NEW g, NEW z, WalksOn(f, g, z)
        PROVE  Turned(f, g) /\ g.pc = f.pc /\ g.seen = z
    <3>1. g = SpreadRec(f.pc, f.id, f.chunks, f.k, f.callerEnd, f.wait, z)
      BY <2>2, <2>3 DEF WalksOn
    <3>2. g.pc = f.pc /\ g.seen = z /\ g.id = f.id
      BY <3>1 DEF SpreadRec
    <3> QED
      BY <1>2, <2>1, <3>2 DEF Turned, Neat, Walks
  <2>4. ASSUME NEW g, WalkDone(f, g)
        PROVE  Turned(f, g) /\ g.pc = "join"
    <3>1. g = SpreadRec("join", f.id, f.chunks, f.k, f.callerEnd, f.wait, {})
      <4>1. g = [f EXCEPT !.seen = {}, !.pc = "join"]
        BY <1>2, <2>4 DEF WalkDone
      <4> QED
        BY <2>2, <4>1
    <3>2. g.pc = "join" /\ g.seen = {} /\ g.id = f.id
      BY <3>1 DEF SpreadRec
    <3> QED
      BY <1>2, <2>1, <3>2 DEF Turned, Neat, SpreadPcs
  <2> QED
    BY <1>2, <2>3, <2>4
<1> QED
  BY <1>1, <1>2 DEF Walks

LEMMA StealEffect ==
  ASSUME ShopInv, ShopInv', NEW t \in Threads, StealTake(t) \/ StealLook(t) \/ StealEnds(t)
  PROVE  Acts(t)
<1>1. PICK f : f = Top(t)
  OBVIOUS
<1>2. pc(t) \in Walks
  BY DEF StealTake, StealLook, StealEnds, Walks
<1>3. f \in Frame /\ f.pc = pc(t) /\ pc(t) \notin {"idle", "gone"}
  BY <1>1, <1>2, Mine DEF Walks
<1>4. CASE StealTake(t)
  <2>0. PICK p \in Threads : /\ GotoEnter(t, [f EXCEPT !.seen = {}], RunFrame(Head(queue[p])))
                             /\ queue[p] # <<>> /\ queue' = [queue EXCEPT ![p] = Tail(@)]
    BY <1>1, <1>4 DEF StealTake
  <2>1. PICK w : /\ w = Head(queue[p]) /\ GotoEnter(t, [f EXCEPT !.seen = {}], RunFrame(w))
                 /\ queue[p] # <<>> /\ queue' = [queue EXCEPT ![p] = Tail(@)]
    BY <2>0
  <2>2. PICK g, z : z = {} /\ g = [f EXCEPT !.seen = z]
    OBVIOUS
  <2>3. Turned(f, g) /\ g.pc = f.pc /\ g.seen = {}
    BY <1>2, <1>3, <2>2, WalkOn DEF WalksOn
  <2>4. GotoEnter(t, g, RunFrame(w))
    BY <2>1, <2>2
  <2>5. Keen(f, g)
    BY <1>2, <1>3, <2>3 DEF Keen, Looks, Eager, Blocks, Waking, PartPcs, Walks
  <2>6. NoneAdded
    BY <2>1, Unhurried
  <2> QED
    BY <1>1, <1>2, <1>3, <2>3, <2>4, <2>5, <2>6, PicksAs DEF Walks
<1>5. CASE StealLook(t)
  <2>1. PICK T : T = {p \in Threads : queue[p] = <<>> \/ "look" \in setup.faults}
    OBVIOUS
  <2>2. Goto(t, [f EXCEPT !.seen = @ \cup T]) /\ queue' = queue
    BY <1>1, <1>5, <2>1 DEF StealLook
  <2>3. PICK g, z : z = f.seen \cup T /\ g = [f EXCEPT !.seen = z]
    OBVIOUS
  <2>4. Turned(f, g) /\ g.pc = f.pc /\ g.seen = z
    BY <1>2, <1>3, <2>3, WalkOn DEF WalksOn
  <2>5. Keen(f, g)
    <3>1. "look" \notin setup.faults => \A p \in Threads : queue[p] # <<>> => (p \in g.seen <=> p \in f.seen)
      BY <2>1, <2>3, <2>4
    <3> QED
      BY <1>2, <1>3, <2>4, <3>1 DEF Keen, Looks, Eager, Blocks, Waking, PartPcs, Walks
  <2>6. Goto(t, g)
    BY <2>2, <2>3
  <2> QED
    BY <1>1, <1>3, <2>2, <2>4, <2>5, <2>6, Unhurried, GoesAs
<1>6. CASE StealEnds(t)
  <2>1. PICK g : g = [f EXCEPT !.seen = {}, !.pc = IF @ = "steal" THEN "exit" ELSE "join"]
    OBVIOUS
  <2>2. Goto(t, g) /\ queue' = queue /\ f.seen = Threads
    BY <1>1, <1>6, <2>1 DEF StealEnds
  <2>3. Turned(f, g) /\ g.pc = IF f.pc = "steal" THEN "exit" ELSE "join"
    <3>1. WalkDone(f, g)
      BY <2>1 DEF WalkDone
    <3> QED
      BY <1>2, <1>3, <3>1, WalkOn
  <2>4. Keen(f, g)
    BY <1>2, <1>3, <2>2, <2>3 DEF Keen, Looks, Eager, Blocks, Waking, PartPcs, Walks
  <2> QED
    BY <1>1, <1>3, <2>2, <2>3, <2>4, Unhurried, GoesAs
<1> QED
  BY <1>4, <1>5, <1>6

\* A spread's frame goes on, at l.
Advanced(f, g, l) == \E k \in Nat, e \in Nat : g = SpreadRec(l, f.id, f.chunks, k, e, f.wait, f.seen)

LEMMA Advances ==
  ASSUME NEW f \in Frame, f.pc \in SpreadPcs, NEW l, NEW g, Advanced(f, g, l)
  PROVE  g.pc = l /\ g.id = f.id /\ g.wait = f.wait /\ g.seen = f.seen
<1>1. PICK k \in Nat, e \in Nat : g = SpreadRec(l, f.id, f.chunks, k, e, f.wait, f.seen)
  BY DEF Advanced
<1> QED
  BY <1>1, SpreadFields

LEMMA AdvancedAs ==
  ASSUME NEW f \in Frame, f.pc \in SpreadPcs
  PROVE  /\ \A l : Advanced(f, [f EXCEPT !.pc = l], l)
         /\ Advanced(f, [f EXCEPT !.k = @ + 1], f.pc)
         /\ \A l : Advanced(f, [f EXCEPT !.pc = l, !.k = @ + 1], l)
         /\ \A l, e : e \in Nat => Advanced(f, [f EXCEPT !.pc = l, !.callerEnd = e], l)
<1>1. f.k \in Nat /\ f.k + 1 \in Nat /\ f.callerEnd \in Nat
  <2>1. f.k \in Nat /\ f.callerEnd \in Nat
    BY Zenon, SpreadShape
  <2> QED
    BY <2>1
<1>2. ASSUME NEW l
      PROVE  Advanced(f, [f EXCEPT !.pc = l], l)
  <2>1. [f EXCEPT !.pc = l] = SpreadRec(l, f.id, f.chunks, f.k, f.callerEnd, f.wait, f.seen)
    BY Zenon, SpreadShape
  <2> QED
    BY <1>1, <2>1 DEF Advanced
<1>3. Advanced(f, [f EXCEPT !.k = @ + 1], f.pc)
  <2>1. [f EXCEPT !.k = @ + 1] = SpreadRec(f.pc, f.id, f.chunks, f.k + 1, f.callerEnd, f.wait, f.seen)
    BY Zenon, SpreadShape
  <2> QED
    BY <1>1, <2>1 DEF Advanced
<1>4. ASSUME NEW l
      PROVE  Advanced(f, [f EXCEPT !.pc = l, !.k = @ + 1], l)
  <2>1. \A m, k : [f EXCEPT !.pc = m, !.k = k] = SpreadRec(m, f.id, f.chunks, k, f.callerEnd, f.wait, f.seen)
    BY Zenon, SpreadShape
  <2>2. [f EXCEPT !.pc = l, !.k = f.k + 1] = SpreadRec(l, f.id, f.chunks, f.k + 1, f.callerEnd, f.wait, f.seen)
    BY ONLY <2>1, Zenon
  <2>3. [f EXCEPT !.pc = l, !.k = @ + 1] = [f EXCEPT !.pc = l, !.k = f.k + 1]
    OBVIOUS
  <2> QED
    BY <1>1, <2>2, <2>3 DEF Advanced
<1>5. ASSUME NEW l, NEW e \in Nat
      PROVE  Advanced(f, [f EXCEPT !.pc = l, !.callerEnd = e], l)
  <2>1. \A m, d : [f EXCEPT !.pc = m, !.callerEnd = d] = SpreadRec(m, f.id, f.chunks, f.k, d, f.wait, f.seen)
    BY Zenon, SpreadShape
  <2>2. [f EXCEPT !.pc = l, !.callerEnd = e] = SpreadRec(l, f.id, f.chunks, f.k, e, f.wait, f.seen)
    BY ONLY <2>1, Zenon
  <2> QED
    BY SMTT(20), <1>1, <2>2 DEF Advanced
<1> QED
  BY Zenon, <1>2, <1>3, <1>4, <1>5

LEMMA AdvanceOn ==
  ASSUME ShopInv, Nest, NEW t \in Threads, pc(t) \in SpreadPcs \ Walks, NEW f, f = Top(t),
         NEW l \in SpreadPcs, l = "bulk_undo" => "bulk" \in setup.faults, NEW g, Advanced(f, g, l)
  PROVE  /\ Turned(f, g) /\ f.pc = pc(t) /\ g.pc = l /\ g.wait = f.wait /\ g.seen = {}
         /\ pc(t) \notin {"idle", "gone"}
<1>1. pc(t) \notin {"idle", "gone"}
  BY DEF SpreadPcs, PartPcs, BulkPcs
<1>2. f \in Frame /\ f.pc = pc(t) /\ Neat(f)
  BY <1>1, NestTop
<1>3. f.seen = {}
  BY <1>2 DEF Neat
<1>4. g.pc = l /\ g.id = f.id /\ g.wait = f.wait /\ g.seen = f.seen
  BY <1>2, Advances
<1>5. g.pc # "body" /\ g.pc # "gone"
  BY <1>4 DEF SpreadPcs, PartPcs, BulkPcs
<1>6. Neat(g)
  BY <1>3, <1>4 DEF Neat
<1> QED
  BY <1>1, <1>2, <1>3, <1>4, <1>5, <1>6 DEF Turned

\* A wake-up is sent.
LEMMA NotifyAlerts ==
  ASSUME ShopInv, NEW k \in Workers, Notify(k), pool' = pool
  PROVE  Alert'
<1>1. k \in 0..(Most - 1) /\ tokens \in [0..(Most - 1) -> Nat]
  BY PoolThreads DEF ShopInv, Typed, Workers
<1>2. tokens'[k] = tokens[k] + 1 /\ tokens[k] \in Nat
  BY <1>1 DEF Notify
<1>3. k \in Workers'
  BY DEF Workers
<1> QED
  BY <1>2, <1>3 DEF Alert

\* The frame goes on, and nothing was to look, to take part or to be told.
LEMMA KeenPlain ==
  ASSUME NEW f, NEW g, f.pc \notin WorkerPcs \cup SpreadPcs, g.pc \notin WorkerPcs \cup SpreadPcs,
         f.pc \in Waking => g.pc \in Waking \/ Alert'
  PROVE  Keen(f, g)
BY DEF Keen, Looks, Eager, Blocks, WorkerPcs, SpreadPcs, PartPcs

\* One that is in the middle of a spread does.
LEMMA KeenSpread ==
  ASSUME NEW f, NEW g, f.pc \in SpreadPcs,
         \/ "bulk" \in setup.faults
         \/ Alert'
         \/ \A p : /\ Eager(f, p) => Eager(g, p)
                   /\ Blocks(g, p) => Blocks(f, p)
                   /\ f.pc \in Waking => g.pc \in Waking
  PROVE  Keen(f, g)
<1>1. \A p : ~Looks(f, p)
  BY DEF Looks, SpreadPcs, PartPcs, BulkPcs
<1> QED
  BY <1>1 DEF Keen

LEMMA RunEffect ==
  ASSUME ShopInv, ShopInv', NEW t \in Threads, RunStep(t)
  PROVE  Acts(t)
<1>1. PICK f : f = Top(t)
  OBVIOUS
<1>2. pc(t) \in RunPcs /\ queue' = queue
  BY DEF RunStep, FinishBody, WorkCompleted, RunPcs
<1>3. f \in Frame /\ f.pc = pc(t) /\ pc(t) # "idle"
  BY <1>1, <1>2, RunsIt
<1>4. CASE FinishBody(t)
  <2>1. PICK g : g = [f EXCEPT !.pc = "completed"]
    OBVIOUS
  <2>2. Goto(t, g)
    BY <1>1, <1>4, <2>1 DEF FinishBody, GotoPc
  <2>3. g.pc = "completed"
    <3>1. \A l \in RunPcs : LET r == [f EXCEPT !.pc = l] IN r.pc = l
      BY <1>1, <1>2, RunsIt
    <3>2. "completed" \in RunPcs
      BY DEF RunPcs
    <3> QED
      BY <2>1, <3>1, <3>2
  <2>4. Turned(f, g)
    BY <1>2, <1>3, <2>3, Kinds DEF Turned, Neat, RunPcs
  <2>5. Keen(f, g)
    <3>1. f.pc \notin WorkerPcs \cup SpreadPcs /\ g.pc \notin WorkerPcs \cup SpreadPcs /\ f.pc \notin Waking
      BY <1>2, <1>3, <2>3, Kinds DEF RunPcs, Waking
    <3> QED
      BY <3>1, KeenPlain
  <2> QED
    BY <1>1, <1>2, <1>3, <2>2, <2>4, <2>5, Unhurried, GoesAs DEF RunPcs
<1>5. CASE WorkCompleted(t)
  BY <1>2, <1>5, Unhurried DEF WorkCompleted, Acts, Quits
<1> QED
  BY <1>4, <1>5 DEF RunStep

LEMMA FireEffect ==
  ASSUME ShopInv, ShopInv', NEW t \in Threads, FireStep(t)
  PROVE  Acts(t)
<1>1. PICK f : f = Top(t)
  OBVIOUS
<1>2. pc(t) \in FirePcs
  BY DEF FireStep, FireTarget, FireSpill, FireEnqueue, FireNotify, FireCount, FireTrack, FirePcs
<1>3. /\ f \in Frame /\ f.pc = pc(t) /\ pc(t) \notin {"idle", "gone"}
      /\ f.pc \in {"spill", "enqueue", "notify"} => f.target \in Workers
      /\ \A l : [f EXCEPT !.pc = l] = FireFrame(l, f.item, f.target, f.ok)
  BY <1>1, <1>2, Firing DEF FirePcs, Workers
<1>4. ASSUME NEW g, NEW l \in FirePcs, g.pc = l, Goto(t, g), f.pc = "notify" => Alert',
             queue' = queue \/ l = "notify"
      PROVE  Acts(t)
  <2>1. Turned(f, g)
    BY <1>2, <1>3, <1>4, Kinds DEF Turned, Neat, FirePcs
  <2>2. Keen(f, g)
    <3>1. f.pc \notin WorkerPcs \cup SpreadPcs /\ g.pc \notin WorkerPcs \cup SpreadPcs
      BY <1>2, <1>3, <1>4, Kinds
    <3>2. f.pc \in Waking => f.pc = "notify"
      BY <1>2, <1>3 DEF FirePcs, Waking
    <3> QED
      BY <1>4, <3>1, <3>2, KeenPlain
  <2>3. Hurries(g)
    BY <1>4, Unhurried DEF Hurries, Waking
  <2> QED
    BY <1>1, <1>3, <1>4, <2>1, <2>2, <2>3, GoesAs
<1>5. \A l, i, w, b : FireFrame(l, i, w, b).pc = l
  BY DEF FireFrame
<1>6. \A l : [f EXCEPT !.pc = l].pc = l
  BY <1>3, <1>5
<1>7. CASE FireTarget(t)
  <2>1. PICK l, g : /\ l = IF tokens[rotor % pool] > StickyDepth THEN "spill" ELSE "enqueue"
                    /\ g = FireFrame(l, Top(t).item, rotor % pool, FALSE)
    OBVIOUS
  <2>2. Goto(t, g)
    BY <1>7, <2>1 DEF FireTarget
  <2>3. g.pc = l /\ l \in FirePcs
    <3>1. g.pc = l
      BY ONLY Zenon, <1>5, <2>1
    <3>2. l \in {"spill", "enqueue"}
      BY ONLY <2>1
    <3> QED
      BY ONLY <3>1, <3>2 DEF FirePcs
  <2> QED
    BY <1>3, <1>4, <1>7, <2>2, <2>3 DEF FireTarget
<1>8. CASE FireSpill(t)
  <2>1. PICK w, i : Goto(t, FireFrame("enqueue", i, w, FALSE))
    BY <1>8 DEF FireSpill
  <2>2. PICK g : g = FireFrame("enqueue", i, w, FALSE)
    OBVIOUS
  <2>3. g.pc = "enqueue" /\ Goto(t, g) /\ "enqueue" \in FirePcs
    BY <1>5, <2>1, <2>2 DEF FirePcs
  <2> QED
    BY <1>3, <1>4, <1>8, <2>3 DEF FireSpill
<1>9. CASE FireEnqueue(t)
  <2>0. PICK x, y : x = FireFrame("notify", f.item, f.target, TRUE) /\ y = FireFrame("notify", f.item, f.target, FALSE)
    OBVIOUS
  <2>1. Goto(t, x) \/ Goto(t, y)
    BY <1>1, <1>9, <2>0 DEF FireEnqueue
  <2>2. x.pc = "notify" /\ y.pc = "notify" /\ "notify" \in FirePcs
    BY <1>5, <2>0 DEF FirePcs
  <2> QED
    BY <1>3, <1>4, <1>9, <2>1, <2>2 DEF FireEnqueue
<1>10. CASE FireNotify(t)
  <2>1. Alert'
    BY <1>1, <1>3, <1>10, NotifyAlerts DEF FireNotify
  <2>2. PICK g, l : l \in FirePcs /\ g.pc = l /\ Goto(t, g)
    BY <1>1, <1>6, <1>10 DEF FireNotify, FirePcs, GotoPc
  <2> QED
    BY <1>4, <1>10, <2>1, <2>2 DEF FireNotify
<1>11. CASE FireCount(t)
  <2>1. PICK g, l : l \in FirePcs /\ g.pc = l /\ Goto(t, g)
    BY <1>1, <1>6, <1>11 DEF FireCount, FirePcs, GotoPc
  <2> QED
    BY <1>3, <1>4, <1>11, <2>1 DEF FireCount
<1>12. CASE FireTrack(t)
  BY <1>12, Unhurried DEF FireTrack, Acts, Quits
<1> QED
  BY <1>7, <1>8, <1>9, <1>10, <1>11, <1>12 DEF FireStep

\* A spread that has handed nothing out has a part of its own, and takes part.
LEMMA PathWait ==
  ASSUME ShopInv, NEW t \in Threads, NEW s \in Spreads, NEW n \in Nat \ {0},
         NEW g, g = SpreadPath(t, s, n, workItems)
  PROVE  /\ g.pc \in {"alone", "own_work", "part", "bulk_init"} /\ g.id = s /\ g.seen = {}
         /\ g.pc = "own_work" => ~g.wait
<1>1. PICK plan, cs, parts : /\ plan = Plan(n, 1, pool, workItems)
                             /\ cs = BulkChunks(plan) /\ parts = WorkerParts(plan, n, division)
  OBVIOUS
<1>2. workItems \in Nat /\ pool \in Nat /\ 1 \in Nat \ {0}
  BY Bounds DEF ShopInv, Typed
<1>3. PlanOK(plan, n, pool)
  BY <1>1, <1>2, PlanFacts
<1>4. plan.wait <=> plan.callerEnd = 0
  BY <1>3 DEF PlanOK
<1>5. plan.dispatched = 0 => ~plan.wait
  <2>1. StartsOf(plan)[0] = plan.callerEnd /\ StartsOf(plan)[plan.dispatched] = n
    BY <1>2, <1>3, StartsRise
  <2> QED
    BY <1>4, <2>1
<1>6. g = IF workItems > 0 /\ (pool = 0 \/ t \in Workers) THEN SpreadFrame("alone", s, <<>>, n, FALSE)
          ELSE IF workItems = 0
            THEN SpreadFrame(IF parts = <<>> THEN "own_work" ELSE "part", s, parts, plan.callerEnd, FALSE)
          ELSE SpreadFrame(IF plan.dispatched = 0 THEN "own_work" ELSE "bulk_init", s, cs, plan.callerEnd, plan.wait)
  BY <1>1 DEF SpreadPath
<1>7. ASSUME NEW l, NEW x, NEW e, NEW w, g = SpreadFrame(l, s, x, e, w)
      PROVE  g.pc = l /\ g.id = s /\ g.seen = {} /\ g.wait = w
  BY ONLY <1>7 DEF SpreadFrame
<1>8. CASE workItems > 0 /\ (pool = 0 \/ t \in Workers)
  <2>1. g = SpreadFrame("alone", s, <<>>, n, FALSE)
    BY <1>6, <1>8
  <2> QED
    BY <1>7, <2>1
<1>9. CASE workItems = 0
  <2>1. PICK l : l = IF parts = <<>> THEN "own_work" ELSE "part"
    OBVIOUS
  <2>2. ~(workItems > 0)
    BY <1>9
  <2>3. g = SpreadFrame(l, s, parts, plan.callerEnd, FALSE)
    BY <1>6, <1>9, <2>1, <2>2, Zenon
  <2> QED
    BY <1>7, <2>1, <2>3
<1>10. CASE workItems > 0 /\ ~(pool = 0 \/ t \in Workers)
  <2>1. PICK l : l = IF plan.dispatched = 0 THEN "own_work" ELSE "bulk_init"
    OBVIOUS
  <2>2. workItems # 0
    BY <1>10
  <2>3. g = SpreadFrame(l, s, cs, plan.callerEnd, plan.wait)
    BY <1>6, <1>10, <2>1, <2>2, Zenon
  <2>4. g.pc = l /\ g.id = s /\ g.seen = {} /\ g.wait = plan.wait
    BY <1>7, <2>3
  <2> QED
    BY <1>5, <2>1, <2>4
<1> QED
  BY <1>2, <1>8, <1>9, <1>10

LEMMA SpreadLookEffect ==
  ASSUME ShopInv, ShopInv', NEW t \in Threads, SpreadLook(t)
  PROVE  Acts(t)
<1>1. PICK f, g : f = Top(t) /\ g = SpreadPath(t, f.id, f.callerEnd, workItems)
  OBVIOUS
<1>2. pc(t) = "look" /\ pc(t) \in SpreadPcs /\ Goto(t, g) /\ queue' = queue
  BY <1>1 DEF SpreadLook, SpreadPcs
<1>3. /\ f \in Frame /\ f.pc = "look" /\ f.id \in Spreads /\ FrameOK(t, f) /\ f.callerEnd \in Nat
      /\ pc(t) \notin {"idle", "gone"}
  BY <1>1, <1>2, Spreading
<1>4. f.callerEnd \in Nat \ {0}
  BY <1>3 DEF FrameOK
<1>5. /\ g.pc \in {"alone", "own_work", "part", "bulk_init"} /\ g.id = f.id /\ g.seen = {}
      /\ g.pc = "own_work" => ~g.wait
  BY <1>1, <1>3, <1>4, PathWait
<1>6. Turned(f, g)
  <2>1. g.pc \in SpreadPcs /\ f.pc \in SpreadPcs
    BY <1>2, <1>3, <1>5 DEF SpreadPcs, PartPcs, BulkPcs
  <2> QED
    BY <1>5, <2>1 DEF Turned, Neat
<1>7. Keen(f, g)
  <2>1. \A p : (Eager(f, p) => Eager(g, p)) /\ (Blocks(g, p) => Blocks(f, p))
    BY <1>3, <1>5 DEF Eager, Blocks, PartPcs
  <2>2. f.pc \in SpreadPcs /\ f.pc \notin Waking
    BY <1>2, <1>3 DEF Waking
  <2> QED
    BY <2>1, <2>2, KeenSpread
<1> QED
  BY <1>1, <1>2, <1>3, <1>6, <1>7, Unhurried, GoesAs

\* A spread that goes on to l, with what is in the queues kept in mind.
LEMMA AdvanceEffect ==
  ASSUME ShopInv, ShopInv', Nest, NEW t \in Threads, pc(t) \in SpreadPcs \ Walks, NEW f, f = Top(t),
         NEW l \in SpreadPcs, l = "bulk_undo" => "bulk" \in setup.faults, NEW g, Advanced(f, g, l),
         Goto(t, g),
         \/ "bulk" \in setup.faults
         \/ Alert'
         \/ /\ f.pc \in PartPcs \/ (f.pc = "own_work" /\ ~f.wait) =>
                 l \in PartPcs \/ (l = "own_work" /\ ~f.wait)
            /\ l = "join" \/ (l = "own_work" /\ f.wait) => f.pc = "join" \/ (f.pc = "own_work" /\ f.wait)
            /\ f.pc \in Waking => l \in Waking,
         \/ queue' = queue
         \/ l \in Waking \cup PartPcs \/ (l = "own_work" /\ ~f.wait)
  PROVE  Acts(t)
<1>1. /\ Turned(f, g) /\ f.pc = pc(t) /\ g.pc = l /\ g.wait = f.wait /\ g.seen = {}
      /\ pc(t) \notin {"idle", "gone"}
  BY AdvanceOn
<1>2. Keen(f, g)
  <2>1. \A p : /\ Eager(f, p) <=> f.pc \in PartPcs \/ (f.pc = "own_work" /\ ~f.wait)
               /\ l \in PartPcs \/ (l = "own_work" /\ ~f.wait) => Eager(g, p)
               /\ Blocks(g, p) => l = "join" \/ (l = "own_work" /\ f.wait)
               /\ f.pc = "join" \/ (f.pc = "own_work" /\ f.wait) => Blocks(f, p)
    BY <1>1 DEF Eager, Blocks, Walks
  <2>2. f.pc \in SpreadPcs
    BY <1>1
  <2>3. \/ "bulk" \in setup.faults
        \/ Alert'
        \/ \A p : /\ Eager(f, p) => Eager(g, p)
                  /\ Blocks(g, p) => Blocks(f, p)
                  /\ f.pc \in Waking => g.pc \in Waking
    BY <1>1, <2>1
  <2> QED
    BY <2>2, <2>3, KeenSpread
<1>3. Hurries(g)
  <2>1. CASE queue' = queue
    BY <2>1, Unhurried
  <2>2. CASE l \in Waking \cup PartPcs \/ (l = "own_work" /\ ~f.wait)
    BY <1>1, <2>2 DEF Hurries, Eager
  <2> QED
    BY <2>1, <2>2
<1> QED
  BY <1>1, <1>2, <1>3, GoesAs

\* A part goes on to the next, or to the caller's own.
LEMMA NextPartAdvances ==
  ASSUME NEW f \in Frame, f.pc \in SpreadPcs, NEW g, g = NextPart(f)
  PROVE  Advanced(f, g, "own_work") \/ Advanced(f, g, "part")
<1>1. CASE f.k = Len(f.chunks)
  <2>1. g = [f EXCEPT !.pc = "own_work"]
    BY <1>1 DEF NextPart
  <2> QED
    BY Zenon, <2>1, AdvancedAs
<1>2. CASE f.k # Len(f.chunks)
  <2>1. g = [f EXCEPT !.pc = "part", !.k = @ + 1]
    BY <1>2 DEF NextPart
  <2> QED
    BY Zenon, <2>1, AdvancedAs
<1> QED
  BY <1>1, <1>2

LEMMA PartEffect ==
  ASSUME ShopInv, ShopInv', Nest, NEW t \in Threads, PartCount(t) \/ PartEnqueue(t) \/ PartNotify(t)
  PROVE  Acts(t)
<1>1. PICK f : f = Top(t)
  BY SMTT(20)
<1>2. /\ pc(t) \in PartPcs /\ pc(t) \in SpreadPcs \ Walks
      /\ \A l \in {"part", "part_enqueue", "part_notify", "own_work"} : l \in SpreadPcs /\ l # "bulk_undo"
      /\ {"part", "part_enqueue", "part_notify"} \subseteq PartPcs
  BY DEF PartCount, PartEnqueue, PartNotify, PartPcs, SpreadPcs, Walks
<1>3. f \in Frame /\ f.pc = pc(t) /\ FrameOK(t, f) /\ f.pc \in SpreadPcs
  BY <1>1, <1>2, Spreading
<1>4. ~f.wait /\ pool > 0
  <2>1. PartsOK(f)
    BY <1>2, <1>3 DEF FrameOK
  <2>2. Len(f.chunks) \in Nat
    BY <2>1 DEF PartsOK
  <2> QED
    BY <2>1, <2>2, Bounds DEF PartsOK
<1>5. ASSUME NEW l \in PartPcs \cup {"own_work"}, NEW g, Advanced(f, g, l), Goto(t, g),
             Alert' \/ f.pc # "part_notify"
      PROVE  Acts(t)
  <2>1. l \in SpreadPcs /\ l # "bulk_undo" /\ l # "join"
    BY <1>2 DEF PartPcs
  <2>2. f.pc \in Waking => f.pc = "part_notify"
    BY <1>2, <1>3 DEF PartPcs, Waking
  <2>3. \/ Alert'
        \/ /\ f.pc \in PartPcs \/ (f.pc = "own_work" /\ ~f.wait) =>
                l \in PartPcs \/ (l = "own_work" /\ ~f.wait)
           /\ l = "join" \/ (l = "own_work" /\ f.wait) => f.pc = "join" \/ (f.pc = "own_work" /\ f.wait)
           /\ f.pc \in Waking => l \in Waking
    BY <1>4, <1>5, <2>1, <2>2
  <2>4. l \in Waking \cup PartPcs \/ (l = "own_work" /\ ~f.wait)
    BY <1>4
  <2> QED
    BY <1>1, <1>2, <1>5, <2>1, <2>3, <2>4, AdvanceEffect
<1>6. CASE PartCount(t)
  <2>1. PICK g : g = [f EXCEPT !.pc = "part_enqueue"]
    OBVIOUS
  <2>2. Goto(t, g) /\ f.pc # "part_notify"
    BY <1>1, <1>3, <1>6, <2>1 DEF PartCount, GotoPc
  <2>3. Advanced(f, g, "part_enqueue")
    BY Zenon, <1>3, <2>1, AdvancedAs
  <2> QED
    BY <1>2, <1>5, <2>2, <2>3
<1>7. CASE PartEnqueue(t)
  <2>1. PICK g, h : g = [f EXCEPT !.pc = "part_notify"] /\ h = NextPart(f)
    BY Zenon
  <2>2. f.pc # "part_notify" /\ (Goto(t, g) \/ Goto(t, h))
    BY Zenon, <1>1, <1>3, <1>7, <2>1 DEF PartEnqueue
  <2>3. Advanced(f, g, "part_notify")
    BY Zenon, <1>3, <2>1, AdvancedAs
  <2>4. Advanced(f, h, "own_work") \/ Advanced(f, h, "part")
    BY <1>3, <2>1, NextPartAdvances
  <2> QED
    BY <1>2, <1>5, <2>2, <2>3, <2>4
<1>8. CASE PartNotify(t)
  <2>1. PICK h : h = NextPart(f)
    OBVIOUS
  <2>2. Goto(t, h) /\ Notify(0) /\ pool' = pool
    BY <1>1, <1>8, <2>1 DEF PartNotify
  <2>3. Alert'
    <3>1. 0 \in Workers
      BY <1>4, Bounds DEF Workers
    <3> QED
      BY <2>2, <3>1, NotifyAlerts
  <2>4. Advanced(f, h, "own_work") \/ Advanced(f, h, "part")
    BY <1>3, <2>1, NextPartAdvances
  <2> QED
    BY <1>2, <1>5, <2>2, <2>3, <2>4
<1> QED
  BY <1>6, <1>7, <1>8

LEMMA BulkEffect ==
  ASSUME ShopInv, ShopInv', Nest, NEW t \in Threads,
         BulkInit(t) \/ BulkEnqueue(t) \/ BulkWake(t) \/ BulkUndo(t)
  PROVE  Acts(t)
<1>1. PICK f : f = Top(t)
  OBVIOUS
<1>2. /\ pc(t) \in {"bulk_init", "bulk_enqueue", "bulk_wake", "bulk_undo"} /\ pc(t) \in SpreadPcs \ Walks
      /\ \A l \in {"bulk_enqueue", "bulk_wake", "bulk_undo", "own_work"} : l \in SpreadPcs
      /\ pc(t) \notin PartPcs
  BY DEF BulkInit, BulkEnqueue, BulkWake, BulkUndo, PartPcs, BulkPcs, SpreadPcs, Walks
<1>3. f \in Frame /\ f.pc = pc(t) /\ FrameOK(t, f) /\ f.pc \in SpreadPcs /\ f.k \in Nat \ {0} /\ f.id \in Spreads
  BY <1>1, <1>2, Spreading
<1>4. CASE BulkInit(t)
  <2>1. PICK g : g = [f EXCEPT !.pc = "bulk_enqueue"]
    OBVIOUS
  <2>2. Goto(t, g) /\ queue' = queue /\ f.pc = "bulk_init"
    BY <1>1, <1>3, <1>4, <2>1 DEF BulkInit, GotoPc
  <2>3. Advanced(f, g, "bulk_enqueue")
    BY Zenon, <1>3, <2>1, AdvancedAs
  <2>4. f.pc \notin Waking
    BY <2>2 DEF Waking
  <2> QED
    BY <1>1, <1>2, <1>3, <2>2, <2>3, <2>4, AdvanceEffect
<1>5. CASE BulkEnqueue(t)
  <2>1. f.pc = "bulk_enqueue" /\ f.pc \notin Waking /\ "bulk_wake" \in Waking
    BY <1>3, <1>5 DEF BulkEnqueue, Waking
  <2>2. CASE GotoPc(t, "bulk_wake")
    <3>1. PICK g : g = [f EXCEPT !.pc = "bulk_wake"]
      OBVIOUS
    <3>2. Goto(t, g)
      BY <1>1, <2>2, <3>1 DEF GotoPc
    <3>3. Advanced(f, g, "bulk_wake")
      BY Zenon, <1>3, <3>1, AdvancedAs
    <3> QED
      BY <1>1, <1>2, <1>3, <2>1, <3>2, <3>3, AdvanceEffect
  <2>3. CASE GotoPc(t, "bulk_undo") /\ "bulk" \in setup.faults /\ queue' = queue
    <3>1. PICK g : g = [f EXCEPT !.pc = "bulk_undo"]
      OBVIOUS
    <3>2. Goto(t, g)
      BY <1>1, <2>3, <3>1 DEF GotoPc
    <3>3. Advanced(f, g, "bulk_undo")
      BY Zenon, <1>3, <3>1, AdvancedAs
    <3> QED
      BY <1>1, <1>2, <1>3, <2>3, <3>2, <3>3, AdvanceEffect
  <2> QED
    BY <1>1, <1>5, <2>2, <2>3 DEF BulkEnqueue
<1>6. CASE BulkWake(t)
  <2>1. PICK g : g = IF f.k = pool THEN [f EXCEPT !.pc = "own_work"] ELSE [f EXCEPT !.k = @ + 1]
    OBVIOUS
  <2>2. Goto(t, g) /\ queue' = queue /\ f.pc = "bulk_wake" /\ Notify(f.k - 1) /\ pool' = pool
    BY <1>1, <1>3, <1>6, <2>1 DEF BulkWake
  <2>3. Alert'
    <3>1. f.k <= pool
      BY <1>3, <2>2 DEF FrameOK
    <3>2. f.k - 1 \in Workers
      <4>1. \A m \in Nat \ {0} : m <= pool => m - 1 \in 0..(pool - 1)
        BY Bounds
      <4> QED
        BY <1>3, <3>1, <4>1 DEF Workers
    <3> QED
      BY <2>2, <3>2, NotifyAlerts
  <2>4. Advanced(f, g, "own_work") \/ Advanced(f, g, "bulk_wake")
    <3>1. CASE f.k = pool
      BY Zenon, <1>3, <2>1, <3>1, AdvancedAs
    <3>2. CASE f.k # pool
      BY Zenon, <1>3, <2>1, <2>2, <3>2, AdvancedAs
    <3> QED
      BY <3>1, <3>2
  <2> QED
    BY <1>1, <1>2, <2>2, <2>3, <2>4, AdvanceEffect
<1>7. CASE BulkUndo(t)
  <2>1. PICK e, g : e = Len(hits[f.id]) /\ g = [f EXCEPT !.pc = "own_work", !.callerEnd = e]
    BY Zenon
  <2>2. Goto(t, g) /\ queue' = queue /\ f.pc = "bulk_undo"
    BY <1>1, <1>3, <1>7, <2>1 DEF BulkUndo
  <2>3. e \in Nat
    BY <1>1, <1>2, <2>1, Spreading
  <2>4. Advanced(f, g, "own_work")
    BY Zenon, <1>3, <2>1, <2>3, AdvancedAs
  <2>5. "bulk" \in setup.faults
    <3>1. pc(t) # "idle"
      BY <1>2
    <3>2. Neat(f)
      BY <1>1, <3>1, NestTop
    <3> QED
      BY <2>2, <3>2 DEF Neat
  <2> QED
    BY <1>1, <1>2, <2>2, <2>4, <2>5, AdvanceEffect
<1> QED
  BY <1>4, <1>5, <1>6, <1>7

LEMMA JoinEffect ==
  ASSUME ShopInv, ShopInv', Nest, NEW t \in Threads, CallerWaits(t) \/ Join(t) \/ SpreadReturn(t)
  PROVE  Acts(t)
<1>1. PICK f : f = Top(t)
  OBVIOUS
<1>2. /\ pc(t) \in {"own_work", "join", "return"} /\ pc(t) \in SpreadPcs \ Walks /\ pc(t) \notin PartPcs
      /\ {"join", "return"} \subseteq SpreadPcs /\ queue' = queue
      /\ pc(t) \notin Waking
  BY DEF CallerWaits, Join, SpreadReturn, PartPcs, BulkPcs, SpreadPcs, Walks, Waking
<1>3. f \in Frame /\ f.pc = pc(t) /\ FrameOK(t, f) /\ f.pc \in SpreadPcs
  BY <1>1, <1>2, Spreading
<1>4. CASE CallerWaits(t)
  <2>1. PICK g : g = [f EXCEPT !.pc = "join"]
    OBVIOUS
  <2>2. Goto(t, g) /\ f.pc = "own_work" /\ f.callerEnd = 0
    BY <1>1, <1>3, <1>4, <2>1 DEF CallerWaits, GotoPc
  <2>3. Advanced(f, g, "join")
    BY Zenon, <1>3, <2>1, AdvancedAs
  <2>4. f.wait
    BY <1>3, <2>2 DEF FrameOK
  <2> QED
    BY <1>1, <1>2, <1>3, <2>2, <2>3, <2>4, AdvanceEffect
<1>5. CASE Join(t)
  <2>1. PICK g : g = [f EXCEPT !.pc = "return"]
    OBVIOUS
  <2>2. Goto(t, g) /\ f.pc = "join"
    BY <1>1, <1>3, <1>5, <2>1 DEF Join, GotoPc
  <2>3. Advanced(f, g, "return")
    BY Zenon, <1>3, <2>1, AdvancedAs
  <2> QED
    BY <1>1, <1>2, <1>3, <2>2, <2>3, AdvanceEffect
<1>6. CASE SpreadReturn(t)
  BY <1>2, <1>6, Unhurried DEF SpreadReturn, Acts, Quits
<1> QED
  BY <1>4, <1>5, <1>6

LEMMA CallerWorkEffect ==
  ASSUME ShopInv, ShopInv', Nest, NEW t \in Threads, CallerWork(t)
  PROVE  Acts(t)
<1>1. PICK f : f = Top(t)
  OBVIOUS
<1>2. /\ pc(t) \in {"alone", "own_work"} /\ pc(t) \in SpreadPcs \ Walks
      /\ {"join", "return", "caller_steal"} \subseteq SpreadPcs
      /\ queue' = queue /\ pc(t) \notin Waking /\ pc(t) \notin PartPcs
  BY DEF CallerWork, PartPcs, BulkPcs, SpreadPcs, Walks, Waking
<1>3. f \in Frame /\ f.pc = pc(t) /\ f.pc \in SpreadPcs
  BY <1>1, <1>2, Spreading
<1>4. PICK l, w : /\ l = IF f.pc = "alone" THEN "return" ELSE IF f.wait THEN "join" ELSE "caller_steal"
                  /\ w = ChunkWork(f.id, Chunk(0, f.callerEnd))
  OBVIOUS
<1>5. PICK g : g = [f EXCEPT !.pc = l]
  OBVIOUS
<1>6. GotoEnter(t, g, RunFrame(w))
  BY <1>1, <1>4, <1>5 DEF CallerWork
<1>7. l \in SpreadPcs /\ l # "bulk_undo" /\ l \in {"return", "join", "caller_steal"}
  BY <1>2, <1>4
<1>8. Advanced(f, g, l)
  BY Zenon, <1>3, <1>5, AdvancedAs
<1>9. Turned(f, g) /\ g.pc = l /\ g.wait = f.wait /\ g.seen = {}
  BY <1>1, <1>2, <1>7, <1>8, AdvanceOn
<1>10. Keen(f, g)
  <2>1. \A p : /\ Eager(f, p) => Eager(g, p)
               /\ Blocks(g, p) => Blocks(f, p)
    BY <1>2, <1>3, <1>4, <1>9 DEF Eager, Blocks
  <2> QED
    BY <1>2, <1>3, <2>1, KeenSpread
<1> QED
  BY <1>1, <1>2, <1>6, <1>7, <1>9, <1>10, Unhurried, PicksAs

LEMMA SpreadEffect ==
  ASSUME ShopInv, ShopInv', Nest, NEW t \in Threads, SpreadStep(t)
  PROVE  Acts(t)
BY SpreadLookEffect, PartEffect, BulkEffect, CallerWorkEffect, JoinEffect DEF SpreadStep

\* Frames of a worker's loop or of a stop are neat.
LEMMA NeatStop ==
  ASSUME NEW f, f.pc \in StopPcs \cup {"own"}, f.pc = "own" => f.seen = {}
  PROVE  Neat(f)
<1>1. f.pc \notin SpreadPcs /\ f.pc # "bulk_undo" /\ (f.pc \in WorkerPcs => f.pc = "own")
  BY DEF StopPcs, SpreadPcs, PartPcs, BulkPcs, WorkerPcs
<1> QED
  BY <1>1 DEF Neat

\* What becomes of a stop: one step of it, or a worker started, or the pool replaced.
LEMMA StopCases ==
  ASSUME ShopInv, ShopInv', NEW t \in Threads, StopStep(t)
  PROVE  \/ Acts(t) /\ pool' = pool /\ (brexit' = brexit \/ pc(t) = "stop")
         \/ Renews /\ CreateNext(t) /\ Top(t).k < pool
         \/ Renews /\ StopJoin(t) /\ Top(t).then # "stopped"
<1>1. PICK f : f = Top(t)
  OBVIOUS
<1>2. pc(t) \in StopPcs /\ queue' = queue
  BY Zenon DEF StopStep, StopFlag, StopWake, StopJoin, CreateNext, StopPcs
<1>3. /\ f \in Frame /\ f.pc = pc(t) /\ pc(t) \notin {"idle", "gone"}
      /\ Len(stack[t]) = 1 /\ t \in Callers /\ \A c \in Callers : c # t => stack[c] = <<>>
      /\ stack \in [Threads -> Seq(Frame)]
  BY <1>1, <1>2, StopAlone, Stopping DEF StopPcs, ShopInv, Typed
<1>4. ASSUME NEW g, Goto(t, g), g.then = f.then,
             <<f.pc, g.pc>> \in {<<"stop", "stop_wake">>, <<"stop_wake", "stop_wake">>, <<"stop_wake", "stopped">>}
      PROVE  Acts(t)
  <2>1. Turned(f, g)
    BY <1>2, <1>3, <1>4, NeatStop DEF Turned, StopPcs
  <2>2. Keen(f, g)
    <3>1. f.pc \notin WorkerPcs \cup SpreadPcs /\ g.pc \notin WorkerPcs \cup SpreadPcs /\ f.pc \notin Waking
      BY <1>2, <1>3, <1>4, Kinds DEF StopPcs, Waking
    <3> QED
      BY <3>1, KeenPlain
  <2> QED
    BY <1>1, <1>2, <1>3, <1>4, <2>1, <2>2, Unhurried, GoesAs
<1>5. \A l \in StopPcs : LET r == [f EXCEPT !.pc = l]
                         IN  r.pc = l /\ r.then = f.then
  BY <1>2, <1>3, StopOn
<1>6. LET r == [f EXCEPT !.k = @ + 1] IN r.pc = f.pc /\ r.then = f.then
  BY <1>2, <1>3, StopOn
<1>7. CASE StopFlag(t)
  <2>1. PICK g : g = [f EXCEPT !.pc = "stop_wake"]
    OBVIOUS
  <2>2. Goto(t, g) /\ g.pc = "stop_wake" /\ g.then = f.then
    BY <1>1, <1>5, <1>7, <2>1 DEF StopFlag, GotoPc, StopPcs
  <2>3. pc(t) = "stop"
    BY <1>7 DEF StopFlag
  <2>4. <<f.pc, g.pc>> = <<"stop", "stop_wake">>
    BY <1>3, <2>2, <2>3
  <2>5. Acts(t)
    BY <1>4, <2>2, <2>4
  <2> QED
    BY <1>7, <2>3, <2>5 DEF StopFlag
<1>8. CASE StopWake(t)
  <2>1. PICK g : g = [f EXCEPT !.k = @ + 1]
    OBVIOUS
  <2>2. Goto(t, g) /\ g.pc = f.pc /\ g.then = f.then
    BY <1>1, <1>6, <1>8, <2>1 DEF StopWake
  <2>3. pc(t) = "stop_wake"
    BY <1>8 DEF StopWake
  <2>4. <<f.pc, g.pc>> = <<"stop_wake", "stop_wake">>
    BY <1>3, <2>2, <2>3
  <2>5. Acts(t)
    BY <1>4, <2>2, <2>4
  <2> QED
    BY <1>8, <2>5 DEF StopWake, shared
<1>9. CASE StopJoin(t)
  <2>1. CASE GotoPc(t, "stopped") /\ UNCHANGED <<pool, brexit>>
    <3>1. PICK g : g = [f EXCEPT !.pc = "stopped"]
      OBVIOUS
    <3>2. Goto(t, g) /\ g.pc = "stopped" /\ g.then = f.then
      BY <1>1, <1>5, <2>1, <3>1 DEF GotoPc, StopPcs
    <3>3. pc(t) = "stop_wake"
      BY Zenon, <1>9 DEF StopJoin
    <3>4. <<f.pc, g.pc>> = <<"stop_wake", "stopped">>
      BY <1>3, <3>2, <3>3
    <3>5. Acts(t)
      BY <1>4, <3>2, <3>4
    <3> QED
      BY <2>1, <3>5
  <2>2. CASE f.then # "stopped" /\ stack' = [p \in Threads |-> IF p \in Workers THEN <<>>
                                                              ELSE IF p = t THEN <<StopFrame("create", "")>>
                                                              ELSE stack[p]]
    <3>1. PICK g : g = StopFrame("create", "")
      BY Zenon
    <3>2. g.pc = "create" /\ Neat(g)
      BY Zenon, <3>1, NeatStop DEF StopFrame, StopPcs
    <3>3. ASSUME NEW u \in Threads
          PROVE  \/ stack'[u] = stack[u]
                 \/ /\ Len(stack'[u]) <= 1
                    /\ \A i \in 1..Len(stack'[u]) : stack'[u][i].pc \in {"own", "create"} /\ Neat(stack'[u][i])
      <4>1. stack'[u] \in {<<>>, <<g>>, stack[u]}
        BY Zenon, <2>2, <3>1
      <4>2. CASE stack'[u] = <<>>
        BY <4>2
      <4>3. CASE stack'[u] = <<g>>
        <5>1. Len(stack'[u]) = 1 /\ stack'[u][1] = g /\ 1..Len(stack'[u]) = {1}
          BY <4>3, Tuples
        <5> QED
          BY <3>2, <5>1 DEF StopPcs
      <4> QED
        BY <4>1, <4>2, <4>3
    <3> QED
      BY Zenon, <1>1, <1>9, <2>2, <3>3 DEF Renews
  <2> QED
    BY Zenon, <1>1, <1>9, <2>1, <2>2 DEF StopJoin
<1>10. CASE CreateNext(t) /\ f.k < pool
  <2>1. PICK g, h : g = [f EXCEPT !.k = @ + 1] /\ h = WorkerFrame("own")
    OBVIOUS
  <2>2. stack' = [stack EXCEPT ![t] = <<g>>, ![f.k] = <<h>>]
    BY <1>1, <1>10, <2>1 DEF CreateNext
  <2>3. g.pc = "create" /\ h.pc = "own" /\ h.seen = {}
    BY <1>2, <1>3, <1>6, <1>10, <2>1 DEF WorkerFrame, CreateNext
  <2>4. Neat(g) /\ Neat(h)
    BY <2>3, NeatStop, Kinds DEF WorkerPcs, StopPcs
  <2>5. ASSUME NEW u \in Threads
        PROVE  \/ stack'[u] = stack[u]
               \/ /\ Len(stack'[u]) <= 1
                  /\ \A i \in 1..Len(stack'[u]) : stack'[u][i].pc \in {"own", "create"} /\ Neat(stack'[u][i])
    <3>1. stack'[u] \in {<<h>>, <<g>>, stack[u]}
      BY <1>3, <2>2
    <3>2. CASE stack'[u] = <<h>>
      <4>1. Len(stack'[u]) = 1 /\ stack'[u][1] = h /\ 1..Len(stack'[u]) = {1}
        BY <3>2, Tuples
      <4> QED
        BY <2>3, <2>4, <4>1
    <3>3. CASE stack'[u] = <<g>>
      <4>1. Len(stack'[u]) = 1 /\ stack'[u][1] = g /\ 1..Len(stack'[u]) = {1}
        BY <3>3, Tuples
      <4> QED
        BY <2>3, <2>4, <4>1
    <3> QED
      BY <3>1, <3>2, <3>3
  <2> QED
    BY <1>1, <1>10, <2>5 DEF Renews
<1>11. CASE CreateNext(t) /\ ~(f.k < pool)
  <2>1. Leave(t) /\ pc(t) = "create"
    BY <1>1, <1>11 DEF CreateNext
  <2> QED
    BY <1>2, <1>11, <2>1, Unhurried DEF Acts, Quits, CreateNext, shared
<1> QED
  BY <1>7, <1>8, <1>9, <1>10, <1>11 DEF StopStep

LEMMA StopEffect ==
  ASSUME ShopInv, ShopInv', NEW t \in Threads, StopStep(t)
  PROVE  Effect(t)
BY StopCases DEF Effect

\* A call is made outside of the shop, or by work.
LEMMA UserAt ==
  ASSUME ShopInv, NEW t \in Threads, UserCode(t), NEW g, g.pc \in FirePcs \cup SpreadPcs
  PROVE  pc(t) # "idle" => Upon(Top(t), g)
<1>1. pc(t) # "idle" => pc(t) = "body"
  BY DEF UserCode
<1>2. pc(t) # "idle" => pc(t) = Top(t).pc
  BY Mine
<1> QED
  BY <1>1, <1>2 DEF Upon

LEMMA CallEffect ==
  ASSUME ShopInv, ShopInv', NEW t \in Threads, Call(t)
  PROVE  Acts(t)
<1>1. queue' = queue
  BY DEF Call, FireCall, SpreadCall, StopCall, ResizeCall
<1>2. ASSUME NEW i \in Items, FireCall(t, i)
      PROVE  Acts(t)
  <2>1. PICK g : g = FireFrame("target", i, NoOne, FALSE)
    OBVIOUS
  <2>2. Enter(t, g) /\ UserCode(t)
    BY <1>2, <2>1 DEF FireCall
  <2>3. g.pc = "target" /\ g.pc \in FirePcs /\ g.pc \notin SpreadPcs /\ g.pc \notin WorkerPcs
    BY <2>1 DEF FireFrame, FirePcs, SpreadPcs, WorkerPcs, PartPcs, BulkPcs
  <2>4. Neat(g)
    BY <2>3 DEF Neat
  <2> QED
    BY <1>1, <2>2, <2>3, <2>4, UserAt, Unhurried, BeginsAs
<1>3. ASSUME NEW s \in Spreads, NEW n \in setup.iterations, SpreadCall(t, s, n)
      PROVE  Acts(t)
  <2>1. PICK g : g = SpreadFrame("look", s, <<>>, n, FALSE)
    OBVIOUS
  <2>2. Enter(t, g) /\ UserCode(t) /\ calls[s] = "new"
    BY <1>3, <2>1 DEF SpreadCall
  <2>3. g.pc = "look" /\ g.pc \in SpreadPcs /\ g.seen = {} /\ g.id = s
    BY <2>1 DEF SpreadFrame, SpreadPcs
  <2>4. Neat(g)
    BY <2>3 DEF Neat
  <2> QED
    BY <1>1, <2>2, <2>3, <2>4, UserAt, Unhurried, BeginsAs
<1>4. CASE StopCall(t) \/ ResizeCall(t)
  <2>1. PICK g, l : /\ g = StopFrame("stop", l) /\ Enter(t, g)
                    /\ l # "stopped" => \A p \in Threads : queue[p] = <<>>
    BY <1>4 DEF StopCall, ResizeCall
  <2>2. g.pc = "stop" /\ g.then = l /\ g.pc \notin SpreadPcs
    BY <2>1 DEF StopFrame, SpreadPcs, PartPcs, BulkPcs
  <2>3. Neat(g)
    BY <2>2, NeatStop DEF StopPcs
  <2>4. pc(t) = "idle"
    BY <1>4 DEF StopCall, ResizeCall, Users
  <2> QED
    BY <1>1, <2>1, <2>2, <2>3, <2>4, Unhurried, BeginsAs
<1> QED
  BY <1>2, <1>3, <1>4 DEF Call

LEMMA SetupStays ==
  ASSUME NEW t \in Threads, Progress(t) \/ Call(t)
  PROVE  setup' = setup
<1>1. Progress(t) => setup' = setup
  BY Zenon DEF Progress, WorkerStep, OwnDequeue, ExitCheck, Wait, Woken, WakeLeft, WakeRight,
         StealTake, StealLook, StealEnds, RunStep, FinishBody, WorkCompleted,
         FireStep, FireTarget, FireSpill, FireEnqueue, FireNotify, FireCount, FireTrack,
         SpreadStep, SpreadLook, PartCount, PartEnqueue, PartNotify, BulkInit, BulkEnqueue, BulkWake, BulkUndo,
         CallerWork, CallerWaits, Join, SpreadReturn, StopStep, StopFlag, StopWake, StopJoin, CreateNext
<1>2. Call(t) => setup' = setup
  BY DEF Call, FireCall, SpreadCall, StopCall, ResizeCall
<1> QED
  BY SMTT(20), <1>1, <1>2

LEMMA EffectOf ==
  ASSUME ShopInv, ShopInv', Nest, NEW t \in Threads, Progress(t) \/ Call(t)
  PROVE  Effect(t)
BY WorkerEffect, StealEffect, RunEffect, FireEffect, SpreadEffect, StopEffect, CallEffect DEF Progress, Effect

\* The stacks of a shop that starts.
LEMMA NestInit ==
  ASSUME Init
  PROVE  Nest
<1>1. ASSUME NEW t \in Threads
      PROVE  /\ \A i \in 1..Len(stack[t]) : Neat(stack[t][i])
             /\ \A i \in 1..(Len(stack[t]) - 1) : Upon(stack[t][i], stack[t][i + 1])
  <2>1. PICK h : h = WorkerFrame("own")
    OBVIOUS
  <2>2. stack[t] \in {<<h>>, <<>>}
    BY <2>1 DEF Init
  <2>3. h.pc = "own" /\ h.seen = {}
    BY <2>1 DEF WorkerFrame
  <2>4. Neat(h)
    BY <2>3, NeatStop
  <2>5. CASE stack[t] = <<h>>
    <3>1. Len(stack[t]) = 1 /\ stack[t][1] = h /\ 1..Len(stack[t]) = {1} /\ 1..(Len(stack[t]) - 1) = {}
      BY <2>5, Tuples
    <3> QED
      BY <2>4, <3>1
  <2>6. CASE stack[t] = <<>>
    BY <2>6
  <2> QED
    BY <2>2, <2>5, <2>6
<1> QED
  BY <1>1 DEF Nest

LEMMA NestStill ==
  ASSUME Nest, UNCHANGED vars
  PROVE  Nest'
<1>1. setup' = setup /\ stack' = stack /\ Threads' = Threads
  BY DEF vars
<1>2. (\A f : Neat(f)' <=> Neat(f)) /\ \A f, g : Upon(f, g)' <=> Upon(f, g)
  BY <1>1 DEF Neat, Upon
<1> QED
  BY <1>1, <1>2 DEF Nest

LEMMA NestKeeps ==
  ASSUME WideEnough, ShopInv, Nest, [Next]_vars
  PROVE  ShopInv' /\ Nest'
<1>1. ShopInv'
  BY NextKeeps
<1>2. CASE UNCHANGED vars
  BY <1>1, <1>2, NestStill
<1>3. CASE Next
  <2>1. PICK t \in Threads : Progress(t) \/ Call(t)
    BY <1>3 DEF Next
  <2> QED
    BY <1>1, <2>1, SetupStays, EffectOf, NestStep
<1> QED
  BY <1>1, <1>2, <1>3

\* What lies on what, in every state.
LEMMA NestInvariance ==
  ASSUME WideEnough
  PROVE  SafeSpec => [](ShopInv /\ Nest)
<1>1. ASSUME ShopInv /\ Nest, [Next]_vars PROVE (ShopInv /\ Nest)'
  BY <1>1, NestKeeps
<1>2. Init => ShopInv /\ Nest
  BY InitKeeps, NestInit
<1> QED
  BY <1>1, <1>2, PTL DEF SafeSpec

--------------------------------------------------------------------------------
(* What a barrier expects is there *)

\* As many places as there are shares in them.
LEMMA Numbered ==
  ASSUME NEW P, NEW X, IsFiniteSet(X), NEW F \in [P -> X],
         \A a, b \in P : F[a] = F[b] => a = b, \A x \in X : \E a \in P : F[a] = x
  PROVE  IsFiniteSet(P) /\ Cardinality(P) = Cardinality(X)
<1>1. F \in Injection(P, X)
  BY DEF Injection, IsInjective
<1>2. F \in Surjection(P, X)
  BY DEF Surjection
<1> QED
  BY <1>1, <1>2, FS_Injection

CountsThat(s) == CountsOf(s) \cap Waiting
CountsRun(s)  == {x \in CountsOf(s) : \E u, i, f : On(u, i, f) /\ f.pc = "body" /\ x \in Claims(f)}
CountsHad(s)  == {x \in CountsOf(s) : \E u, i, f : On(u, i, f) /\ f.pc \in SpreadPcs /\ x \in Claims(f)}

\* A count is that of the end of its chunk.
LEMMA CountOf ==
  ASSUME ShopInv, NEW s, NEW x \in CountsOf(s), NEW w \in Works, x \in WorkShares(w)
  PROVE  ChunkOf(w, s) /\ x = Share("count", s, w.to)
<1>1. x.kind = "count" /\ x.id = s
  BY DEF CountsOf
<1>2. w.kind = "chunk"
  <2>1. w.kind # "chunk" => x = Share("item", w.id, 0)
    BY DEF WorkShares
  <2> QED
    BY <1>1, <2>1, ShareFields
<1>3. x \in Iters(w.id, Its(w)) \cup Counts(w.id, {w.to})
  BY <1>2 DEF WorkShares
<1>4. x \in Counts(w.id, {w.to})
  BY <1>1, <1>3, IterIs
<1>5. x.id = w.id /\ x = Share("count", w.id, w.to)
  BY <1>4, CountIs
<1> QED
  BY <1>1, <1>2, <1>5 DEF ChunkOf

LEMMA ChunkCounts ==
  ASSUME NEW w, NEW s, ChunkOf(w, s)
  PROVE  Share("count", s, w.to) \in WorkShares(w)
BY DEF ChunkOf, WorkShares, Counts

LEMMA QueuedCounts ==
  ASSUME ShopInv, NEW s
  PROVE  Cardinality(Queued(s)) = Cardinality(CountsThat(s))
<1>1. queue \in [Threads -> Seq(Works)] /\ IsFiniteSet(InHand) /\ Disjoint(Threads, Queues, {})
  BY DEF ShopInv, Typed
<1>2. \A t \in Threads : /\ Len(queue[t]) \in Nat /\ DOMAIN Queues[t] = 1..Len(queue[t])
                         /\ \A k \in 1..Len(queue[t]) :
                              queue[t][k] \in Works /\ Queues[t][k] = WorkShares(queue[t][k])
  BY <1>1, QueueHeld, QueueHolds
<1>3. PICK P : P = Queued(s)
  OBVIOUS
<1>4. /\ \A p \in P : p[1] \in Threads /\ p[2] \in 1..Len(queue[p[1]]) /\ p = <<p[1], p[2]>>
                      /\ ChunkOf(queue[p[1]][p[2]], s)
      /\ \A t \in Threads : \A k \in 1..Len(queue[t]) : ChunkOf(queue[t][k], s) => <<t, k>> \in P
  BY <1>3 DEF Queued
<1>5. PICK F : F = [p \in P |-> Share("count", s, queue[p[1]][p[2]].to)]
  OBVIOUS
<1>6. \A p \in P : F[p] \in Queues[p[1]][p[2]]
  BY <1>2, <1>4, <1>5, ChunkCounts
<1>7. F \in [P -> CountsThat(s)]
  <2>1. ASSUME NEW p \in P
        PROVE  F[p] \in CountsThat(s)
    <3>1. F[p] \in Waiting
      BY <1>2, <1>4, <1>6 DEF Waiting, Taken
    <3>2. F[p] \in InHand
      BY <3>1 DEF InHand, Taken
    <3>3. F[p].kind = "count" /\ F[p].id = s
      BY <1>5, ShareFields
    <3> QED
      BY <3>1, <3>2, <3>3 DEF CountsThat, CountsOf
  <2> QED
    BY <1>5, <2>1
<1>8. ASSUME NEW a \in P, NEW b \in P, F[a] = F[b]
      PROVE  a = b
  <2>1. F[a] \in Queues[a[1]][a[2]] \cap Queues[b[1]][b[2]]
    BY <1>6, <1>8
  <2>2. a[1] \in Threads /\ b[1] \in Threads /\ a[2] \in DOMAIN Queues[a[1]] /\ b[2] \in DOMAIN Queues[b[1]]
    BY <1>2, <1>4
  <2>3. a[1] = b[1] /\ a[2] = b[2]
    BY <1>1, <2>1, <2>2 DEF Disjoint
  <2> QED
    BY <1>4, <2>3
<1>9. ASSUME NEW x \in CountsThat(s)
      PROVE  \E a \in P : F[a] = x
  <2>1. x \in CountsOf(s) /\ x \in Waiting
    BY DEF CountsThat
  <2>2. PICK t \in Threads : \E k \in DOMAIN Queues[t] : x \in Queues[t][k]
    BY <2>1 DEF Waiting, Taken
  <2>3. PICK k \in DOMAIN Queues[t] : x \in Queues[t][k]
    BY <2>2
  <2>4. k \in 1..Len(queue[t]) /\ queue[t][k] \in Works /\ x \in WorkShares(queue[t][k])
    BY <1>2, <2>3
  <2>5. ChunkOf(queue[t][k], s) /\ x = Share("count", s, queue[t][k].to)
    BY <2>1, <2>4, CountOf
  <2>6. <<t, k>> \in P
    BY <1>4, <2>4, <2>5
  <2> QED
    BY <1>5, <2>5, <2>6
<1>10. IsFiniteSet(CountsThat(s))
  BY <1>1, FS_Subset DEF CountsThat, CountsOf
<1> QED
  BY <1>3, <1>7, <1>8, <1>9, <1>10, Numbered

LEMMA RunningCounts ==
  ASSUME ShopInv, NEW s
  PROVE  Cardinality(Running(s)) = Cardinality(CountsRun(s))
<1>1. stack \in [Threads -> Seq(Frame)] /\ IsFiniteSet(InHand)
  BY DEF ShopInv, Typed
<1>2. PICK P : P = Running(s)
  OBVIOUS
<1>3. /\ \A p \in P : /\ p[1] \in Threads /\ p[2] \in 1..Len(stack[p[1]]) /\ p = <<p[1], p[2]>>
                      /\ On(p[1], p[2], stack[p[1]][p[2]]) /\ stack[p[1]][p[2]].pc = "body"
                      /\ ChunkOf(stack[p[1]][p[2]].work, s)
      /\ \A t, k, f : On(t, k, f) /\ f.pc = "body" /\ ChunkOf(f.work, s) => <<t, k>> \in P
  BY <1>2 DEF Running, Bodies, On
<1>4. PICK F : F = [p \in P |-> Share("count", s, stack[p[1]][p[2]].work.to)]
  OBVIOUS
<1>5. ASSUME NEW p \in P
      PROVE  F[p] \in Claims(stack[p[1]][p[2]]) /\ F[p] \in InHand /\ F[p].kind = "count" /\ F[p].id = s
  <2>1. PICK f : f = stack[p[1]][p[2]]
    OBVIOUS
  <2>2. On(p[1], p[2], f) /\ f.pc = "body" /\ ChunkOf(f.work, s) /\ F[p] = Share("count", s, f.work.to)
    BY <1>3, <1>4, <2>1
  <2>3. F[p] \in Claims(f) /\ Claims(f) \subseteq InHand
    BY <2>2, ChunkRuns
  <2> QED
    BY <2>1, <2>2, <2>3, ShareFields
<1>6. F \in [P -> CountsRun(s)]
  <2>1. ASSUME NEW p \in P
        PROVE  F[p] \in CountsRun(s)
    <3>1. F[p] \in CountsOf(s)
      BY <1>5 DEF CountsOf
    <3> QED
      BY <1>3, <1>5, <3>1 DEF CountsRun
  <2> QED
    BY <1>4, <2>1
<1>7. ASSUME NEW a \in P, NEW b \in P, F[a] = F[b]
      PROVE  a = b
  <2>1. F[a] \in Claims(stack[a[1]][a[2]]) \cap Claims(stack[b[1]][b[2]])
    BY <1>5, <1>7
  <2>2. On(a[1], a[2], stack[a[1]][a[2]]) /\ On(b[1], b[2], stack[b[1]][b[2]])
    BY <1>3
  <2>3. a[1] = b[1] /\ a[2] = b[2]
    BY <2>1, <2>2, Own
  <2> QED
    BY <1>3, <2>3
<1>8. ASSUME NEW x \in CountsRun(s)
      PROVE  \E a \in P : F[a] = x
  <2>1. x \in CountsOf(s)
    BY DEF CountsRun
  <2>2. PICK t, k, f : On(t, k, f) /\ f.pc = "body" /\ x \in Claims(f)
    BY DEF CountsRun
  <2>3. f \in Frame /\ f.work \in Works /\ Claims(f) = WorkShares(f.work)
    <3>1. f \in Frame
      BY <2>2, EveryFrame
    <3> QED
      BY <2>2, <3>1, RunShape, ClaimsAt DEF RunPcs
  <2>4. ChunkOf(f.work, s) /\ x = Share("count", s, f.work.to)
    BY <2>1, <2>2, <2>3, CountOf
  <2>5. <<t, k>> \in P /\ f = stack[t][k]
    BY <1>3, <2>2, <2>4 DEF On
  <2> QED
    BY <1>4, <2>4, <2>5
<1>9. IsFiniteSet(CountsRun(s))
  BY <1>1, FS_Subset DEF CountsRun, CountsOf
<1> QED
  BY <1>2, <1>6, <1>7, <1>8, <1>9, Numbered

\* Who has counted chunks that it has not handed out yet, and those.
Handing == {"part_enqueue", "bulk_enqueue", "bulk_undo"}
Owed(f) == IF f.pc = "part_enqueue" THEN f.chunks[f.k] ELSE f.chunks

LEMMA OwedIs ==
  ASSUME ShopInv, NEW t, NEW i, NEW f, On(t, i, f), f.pc \in Handing
  PROVE  /\ Owed(f) \in Seq(Ranges) /\ Apart(Owed(f)) /\ Owes(f) = Ends(Owed(f))
         /\ f \in Frame /\ f.id \in Spreads /\ Claims(f) = SpreadShares(f) /\ Claims(f) \subseteq InHand
<1>1. f \in Frame /\ FrameOK(t, f) /\ Claims(f) \subseteq InHand /\ f.pc \in SpreadPcs
  BY SMTT(20), EveryFrame DEF Handing, SpreadPcs, PartPcs, BulkPcs
<1>2. f.id \in Spreads /\ Claims(f) = SpreadShares(f)
  BY Zenon, <1>1, SpreadShape, ClaimsAt
<1>3. Owes(f) = Ends(Owed(f))
  BY HasAt DEF Handing, Owed
<1>4. CASE f.pc = "part_enqueue"
  <2>1. PartsOK(f)
    BY <1>1, <1>4 DEF FrameOK, PartPcs
  <2>2. f.chunks[f.k] \in Seq(Ranges) /\ Apart(f.chunks[f.k])
    BY <2>1, PartApart, Bounds
  <2> QED
    BY <1>1, <1>2, <1>3, <1>4, <2>2 DEF Owed
<1>5. CASE f.pc # "part_enqueue"
  <2>1. BulkOK(f)
    BY <1>1, <1>5 DEF FrameOK, BulkPcs, Handing
  <2> QED
    BY <1>1, <1>2, <1>3, <1>5, <2>1 DEF Owed, BulkOK
<1> QED
  BY <1>4, <1>5

\* They have nothing on top of them.
LEMMA HandingTop ==
  ASSUME ShopInv, Nest, NEW t, NEW i, NEW f, On(t, i, f), f.pc \in Handing
  PROVE  i = Len(stack[t]) /\ pc(t) = f.pc /\ f = Top(t)
<1>1. stack \in [Threads -> Seq(Frame)] /\ t \in Threads /\ i \in 1..Len(stack[t]) /\ f = stack[t][i]
  BY DEF ShopInv, Typed, On
<1>2. Len(stack[t]) \in Nat /\ stack[t] # <<>>
  BY <1>1
<1>3. ~(i \in 1..(Len(stack[t]) - 1))
  <2>1. i \in 1..(Len(stack[t]) - 1) => Upon(f, stack[t][i + 1])
    BY <1>1 DEF Nest
  <2> QED
    BY <2>1 DEF Upon, Handing
<1>4. i = Len(stack[t])
  BY <1>1, <1>2, <1>3
<1> QED
  BY <1>1, <1>2, <1>4 DEF pc, Top

LEMMA CountedAt ==
  ASSUME ShopInv, Nest, NEW s
  PROVE  /\ \A p \in Counted(s) : \E f : /\ On(p[1], Len(stack[p[1]]), f) /\ f.pc \in Handing /\ f.id = s
                                         /\ p = <<p[1], p[2]>> /\ p[2] \in 1..Len(Owed(f))
         /\ \A t, i, f : On(t, i, f) /\ f.pc \in Handing /\ f.id = s =>
              \A j \in 1..Len(Owed(f)) : <<t, j>> \in Counted(s)
<1>1. stack \in [Threads -> Seq(Frame)]
  BY DEF ShopInv, Typed
<1>2. ASSUME NEW p \in Counted(s)
      PROVE  \E f : /\ On(p[1], Len(stack[p[1]]), f) /\ f.pc \in Handing /\ f.id = s
                    /\ p = <<p[1], p[2]>> /\ p[2] \in 1..Len(Owed(f))
  <2>1. PICK t \in Threads :
          p \in {t} \X (IF pc(t) = "part_enqueue" /\ Top(t).id = s THEN 1..Len(Top(t).chunks[Top(t).k])
                        ELSE IF pc(t) \in {"bulk_enqueue", "bulk_undo"} /\ Top(t).id = s
                               THEN 1..Len(Top(t).chunks)
                        ELSE {})
    BY <1>2 DEF Counted
  <2>2. p[1] = t /\ p = <<p[1], p[2]>> /\ pc(t) \in Handing /\ Top(t).id = s
    BY <2>1 DEF Handing
  <2>3. pc(t) # "idle" /\ pc(t) \notin WorkerPcs
    BY <2>2 DEF Handing, WorkerPcs
  <2>4. On(t, Len(stack[t]), Top(t)) /\ Top(t).pc = pc(t)
    BY <2>3, Below1
  <2>5. p[2] \in 1..Len(Owed(Top(t)))
    <3>1. CASE pc(t) = "part_enqueue"
      BY <2>1, <2>4, <3>1 DEF Owed
    <3>2. CASE pc(t) # "part_enqueue"
      BY <2>1, <2>4, <3>2 DEF Owed
    <3> QED
      BY <3>1, <3>2
  <2> QED
    BY <2>2, <2>4, <2>5
<1>3. ASSUME NEW t, NEW i, NEW f, On(t, i, f), f.pc \in Handing, f.id = s, NEW j \in 1..Len(Owed(f))
      PROVE  <<t, j>> \in Counted(s)
  <2>1. i = Len(stack[t]) /\ pc(t) = f.pc /\ f = Top(t) /\ t \in Threads
    BY <1>3, HandingTop DEF On
  <2>2. CASE f.pc = "part_enqueue"
    <3>1. j \in 1..Len(Top(t).chunks[Top(t).k]) /\ pc(t) = "part_enqueue" /\ Top(t).id = s
      BY <1>3, <2>1, <2>2 DEF Owed
    <3> QED
      BY <2>1, <3>1 DEF Counted
  <2>3. CASE f.pc # "part_enqueue"
    <3>1. j \in 1..Len(Top(t).chunks) /\ pc(t) # "part_enqueue" /\ pc(t) \in {"bulk_enqueue", "bulk_undo"}
          /\ Top(t).id = s
      BY <1>3, <2>1, <2>3 DEF Owed, Handing
    <3> QED
      BY <2>1, <3>1 DEF Counted
  <2> QED
    BY <2>2, <2>3
<1> QED
  BY <1>2, <1>3

\* The counts that frames of spreads have.
LEMMA CountHeld ==
  ASSUME ShopInv, NEW s, NEW x \in CountsOf(s), NEW t, NEW i, NEW f, On(t, i, f), f.pc \in SpreadPcs,
         x \in Claims(f)
  PROVE  f.pc \in Handing /\ f.id = s /\ \E j \in 1..Len(Owed(f)) : x = Share("count", s, Owed(f)[j].to)
<1>1. x.kind = "count" /\ x.id = s /\ Claims(f) = SpreadShares(f)
  BY ClaimsAt DEF CountsOf
<1>2. x \in Counts(f.id, Owes(f))
  <2>1. x \in {Share("call", f.id, 0)} \cup Iters(f.id, Has(f)) \cup Counts(f.id, Owes(f))
    BY <1>1 DEF SpreadShares
  <2>2. x # Share("call", f.id, 0)
    BY <1>1, ShareFields
  <2> QED
    BY <1>1, <2>1, <2>2, IterIs
<1>3. x.at \in Owes(f) /\ f.id = s /\ x = Share("count", s, x.at)
  BY <1>1, <1>2, CountIs
<1>4. f.pc \in Handing
  BY <1>3 DEF Owes, Handing
<1>5. Owes(f) = Ends(Owed(f)) /\ Owed(f) \in Seq(Ranges)
  BY <1>4, OwedIs
<1>6. PICK j \in DOMAIN Owed(f) : x.at = Owed(f)[j].to
  BY <1>3, <1>5 DEF Ends
<1>7. j \in 1..Len(Owed(f))
  BY <1>5, <1>6
<1> QED
  BY <1>3, <1>4, <1>6, <1>7

LEMMA CountedCounts ==
  ASSUME ShopInv, Nest, NEW s
  PROVE  Cardinality(Counted(s)) = Cardinality(CountsHad(s))
<1>1. PICK P : P = Counted(s)
  OBVIOUS
<1>2. PICK E : E = [p \in P |-> Top(p[1])]
  OBVIOUS
<1>3. ASSUME NEW p \in P
      PROVE  /\ On(p[1], Len(stack[p[1]]), E[p]) /\ E[p].pc \in Handing /\ E[p].id = s
             /\ p = <<p[1], p[2]>> /\ p[2] \in 1..Len(Owed(E[p]))
  <2>1. PICK f : /\ On(p[1], Len(stack[p[1]]), f) /\ f.pc \in Handing /\ f.id = s
                 /\ p = <<p[1], p[2]>> /\ p[2] \in 1..Len(Owed(f))
    BY <1>1, CountedAt
  <2>2. f = Top(p[1])
    BY <2>1 DEF On, Top
  <2> QED
    BY <1>2, <2>1, <2>2
<1>4. PICK F : F = [p \in P |-> Share("count", s, Owed(E[p])[p[2]].to)]
  OBVIOUS
<1>5. ASSUME NEW p \in P
      PROVE  F[p] \in Claims(E[p]) /\ F[p] \in CountsOf(s)
  <2>1. PICK f : f = E[p]
    OBVIOUS
  <2>2. On(p[1], Len(stack[p[1]]), f) /\ f.pc \in Handing /\ f.id = s /\ p[2] \in 1..Len(Owed(f))
        /\ F[p] = Share("count", s, Owed(f)[p[2]].to)
    BY <1>3, <1>4, <2>1
  <2>3. /\ Owed(f) \in Seq(Ranges) /\ Owes(f) = Ends(Owed(f)) /\ Claims(f) = SpreadShares(f)
        /\ Claims(f) \subseteq InHand
    BY <2>2, OwedIs
  <2>4. Owed(f)[p[2]].to \in Owes(f)
    BY <2>2, <2>3 DEF Ends
  <2>5. F[p] \in Claims(f)
    BY <2>2, <2>3, <2>4 DEF SpreadShares, Counts
  <2> QED
    BY <2>1, <2>2, <2>3, <2>5, ShareFields DEF CountsOf
<1>6. \A l \in Handing : l \in SpreadPcs
  BY DEF Handing, SpreadPcs, PartPcs, BulkPcs
<1>7. F \in [P -> CountsHad(s)]
  <2>1. \A p \in P : F[p] \in CountsHad(s)
    BY <1>3, <1>5, <1>6 DEF CountsHad
  <2> QED
    BY <1>4, <2>1
<1>8. ASSUME NEW a \in P, NEW b \in P, F[a] = F[b]
      PROVE  a = b
  <2>1. F[a] \in Claims(E[a]) \cap Claims(E[b])
    BY <1>5, <1>8
  <2>2. a[1] = b[1]
    BY <1>3, <2>1, Own
  <2>3. PICK f : f = E[a]
    OBVIOUS
  <2>4. f = E[b] /\ a[2] \in 1..Len(Owed(f)) /\ b[2] \in 1..Len(Owed(f)) /\ f.pc \in Handing
        /\ On(a[1], Len(stack[a[1]]), f)
    BY <1>2, <1>3, <2>2, <2>3
  <2>5. Owed(f)[a[2]].to = Owed(f)[b[2]].to
    <3>1. F[a] = Share("count", s, Owed(f)[a[2]].to) /\ F[b] = Share("count", s, Owed(f)[b[2]].to)
      BY <1>4, <2>3, <2>4
    <3>2. F[a].at = Owed(f)[a[2]].to /\ F[b].at = Owed(f)[b[2]].to
      BY <3>1, ShareFields
    <3> QED
      BY <1>8, <3>2
  <2>6. Owed(f) \in Seq(Ranges) /\ Apart(Owed(f))
    BY <2>4, OwedIs
  <2>7. \A j \in 1..Len(Owed(f)) : Owed(f)[j].to \in Its(Owed(f)[j])
    BY <2>6, EndsIn
  <2>8. a[2] = b[2]
    BY <2>4, <2>5, <2>6, <2>7 DEF Apart
  <2> QED
    BY <1>3, <2>2, <2>8
<1>9. ASSUME NEW x \in CountsHad(s)
      PROVE  \E a \in P : F[a] = x
  <2>1. x \in CountsOf(s)
    BY DEF CountsHad
  <2>2. PICK t, i, f : On(t, i, f) /\ f.pc \in SpreadPcs /\ x \in Claims(f)
    BY DEF CountsHad
  <2>3. f.pc \in Handing /\ f.id = s
    BY <2>1, <2>2, CountHeld
  <2>4. PICK j \in 1..Len(Owed(f)) : x = Share("count", s, Owed(f)[j].to)
    BY <2>1, <2>2, CountHeld
  <2>5. <<t, j>> \in P
    BY <1>1, <2>2, <2>3, <2>4, CountedAt
  <2>6. f = Top(t)
    BY <2>2, <2>3, HandingTop
  <2>7. E[<<t, j>>] = f
    BY <1>2, <2>5, <2>6
  <2>8. F[<<t, j>>] = x
    BY <1>4, <2>4, <2>5, <2>7
  <2> QED
    BY <2>5, <2>8
<1>10. IsFiniteSet(CountsHad(s))
  BY FS_Subset DEF CountsHad, CountsOf, ShopInv
<1> QED
  BY <1>1, <1>7, <1>8, <1>9, <1>10, Numbered

\* Every count is in a queue, runs, or is had by who is handing it out.
LEMMA CountsParted ==
  ASSUME ShopInv, NEW s
  PROVE  /\ CountsOf(s) = CountsThat(s) \cup CountsRun(s) \cup CountsHad(s)
         /\ CountsThat(s) \cap CountsRun(s) = {} /\ CountsThat(s) \cap CountsHad(s) = {}
         /\ CountsRun(s) \cap CountsHad(s) = {}
<1>1. ASSUME NEW x \in CountsOf(s)
      PROVE  x \in CountsThat(s) \cup CountsRun(s) \cup CountsHad(s)
  <2>1. x \in InHand /\ x.kind = "count" /\ x.id = s
    BY DEF CountsOf
  <2>2. ASSUME NEW w \in Works, x \in WorkShares(w), WorkShares(w) \subseteq Waiting
        PROVE  x \in CountsThat(s)
    BY <2>2 DEF CountsThat
  <2>3. ASSUME NEW u, NEW i, NEW f, On(u, i, f), x \in Claims(f)
        PROVE  x \in CountsRun(s) \cup CountsHad(s)
    <3>1. f \in Frame
      BY <2>3, EveryFrame
    <3>2. f.pc \notin {"body"} \cup SpreadPcs => x \notin Claims(f)
      <4>1. f.pc = "completed" => Claims(f) = DoneShares(f.work)
        BY ClaimsAt
      <4>2. \A y \in DoneShares(f.work) : y.kind \in {"ran", "over"}
        BY ShareFields DEF DoneShares
      <4>3. f.pc \in FirePcs => Claims(f) = FireShares(f)
        BY Kinds DEF Claims, FirePcs
      <4>4. \A y \in FireShares(f) : y.kind \in {"todo", "track", "owed"}
        BY ShareFields DEF FireShares
      <4>5. f.pc \in WorkerPcs \cup StopPcs => Claims(f) = {}
        BY ClaimsAt
      <4>6. f.pc \in WorkerPcs \cup RunPcs \cup FirePcs \cup SpreadPcs \cup StopPcs
        BY <3>1, Kinds
      <4>7. f.pc \in RunPcs => f.pc \in {"body", "completed"}
        BY DEF RunPcs
      <4> QED
        BY <2>1, <4>1, <4>2, <4>3, <4>4, <4>5, <4>6, <4>7
    <3> QED
      BY <2>3, <3>2 DEF CountsRun, CountsHad
  <2> QED
    BY <2>1, <2>2, <2>3, Holder
<1>2. CountsThat(s) \cup CountsRun(s) \cup CountsHad(s) \subseteq CountsOf(s)
  BY DEF CountsThat, CountsRun, CountsHad
<1>3. \A x : x \in CountsThat(s) => x \in Waiting
  BY DEF CountsThat
<1>4. \A x : x \in CountsRun(s) \cup CountsHad(s) => x \notin Waiting
  <2>1. \A u, i, f : On(u, i, f) => Claims(f) \cap Waiting = {}
    BY EveryFrame
  <2> QED
    BY <2>1 DEF CountsRun, CountsHad
<1>5. CountsRun(s) \cap CountsHad(s) = {}
  <2>1. SUFFICES ASSUME NEW x \in CountsRun(s), x \in CountsHad(s)
                 PROVE  FALSE
    OBVIOUS
  <2>2. PICK u, i, f : On(u, i, f) /\ f.pc = "body" /\ x \in Claims(f)
    BY DEF CountsRun
  <2>3. PICK v, j, g : On(v, j, g) /\ g.pc \in SpreadPcs /\ x \in Claims(g)
    BY <2>1 DEF CountsHad
  <2>4. u # v \/ i # j
    <3>1. "body" \notin SpreadPcs
      BY DEF SpreadPcs, PartPcs, BulkPcs
    <3> QED
      BY <2>2, <2>3, <3>1 DEF On
  <2> QED
    BY <2>2, <2>3, <2>4, Own
<1> QED
  BY <1>1, <1>2, <1>3, <1>4, <1>5

LEMMA ExactFollows ==
  ASSUME ShopInv, Nest, "part" \notin setup.faults
  PROVE  BarrierExact
<1>1. ASSUME NEW s \in Spreads
      PROVE  barrier[s] = Cardinality(Queued(s)) + Cardinality(Running(s)) + Cardinality(Counted(s))
  <2>1. PICK X, Y, Z : X = CountsThat(s) /\ Y = CountsRun(s) /\ Z = CountsHad(s)
    OBVIOUS
  <2>2. CountsOf(s) = X \cup Y \cup Z /\ X \cap Y = {} /\ X \cap Z = {} /\ Y \cap Z = {}
    BY <2>1, CountsParted
  <2>3. IsFiniteSet(X) /\ IsFiniteSet(Y) /\ IsFiniteSet(Z)
    <3>1. IsFiniteSet(InHand) /\ X \subseteq InHand /\ Y \subseteq InHand /\ Z \subseteq InHand
      BY <2>1 DEF ShopInv, CountsThat, CountsRun, CountsHad, CountsOf
    <3> QED
      BY <3>1, FS_Subset
  <2>4. Cardinality(X \cup Y) = Cardinality(X) + Cardinality(Y) /\ IsFiniteSet(X \cup Y)
    <3>1. /\ IsFiniteSet(X \cup Y) /\ Cardinality(X \cup Y) = Cardinality(X) + Cardinality(Y) - Cardinality(X \cap Y)
          /\ Cardinality({}) = 0
      BY <2>3, FS_Union, FS_EmptySet
    <3>2. Cardinality(X) \in Nat /\ Cardinality(Y) \in Nat
      BY <2>3, FS_CardinalityType
    <3>3. Cardinality(X \cap Y) = 0
      BY <2>2, <3>1, Zenon
    <3> QED
      BY ONLY <3>1, <3>2, <3>3
  <2>5. Cardinality((X \cup Y) \cup Z) = Cardinality(X \cup Y) + Cardinality(Z)
    <3>1. /\ Cardinality((X \cup Y) \cup Z) = Cardinality(X \cup Y) + Cardinality(Z) - Cardinality((X \cup Y) \cap Z)
          /\ Cardinality({}) = 0
      BY <2>3, <2>4, FS_Union, FS_EmptySet
    <3>2. Cardinality(X \cup Y) \in Nat /\ Cardinality(Z) \in Nat
      BY <2>3, <2>4, FS_CardinalityType
    <3>3. (X \cup Y) \cap Z = {}
      BY <2>2
    <3>4. Cardinality((X \cup Y) \cap Z) = 0
      BY <3>1, <3>3, Zenon
    <3> QED
      BY ONLY <3>1, <3>2, <3>4
  <2>6. barrier[s] = Cardinality(CountsOf(s))
    BY DEF ShopInv, BarrierOK
  <2>7. /\ Cardinality(Queued(s)) = Cardinality(X) /\ Cardinality(Running(s)) = Cardinality(Y)
        /\ Cardinality(Counted(s)) = Cardinality(Z)
    BY <2>1, QueuedCounts, RunningCounts, CountedCounts
  <2> QED
    BY <2>2, <2>4, <2>5, <2>6, <2>7
<1> QED
  BY <1>1 DEF BarrierExact

\* What a barrier expects is in a queue, runs, or is being put there by the caller: an
\* arrival too few would hang the join, one too many would let it through.  A part that
\* a queue refuses is expected for good.
THEOREM BarriersExact ==
  ASSUME WideEnough, \A s \in Setups : "part" \notin s.faults
  PROVE  SafeSpec => []BarrierExact
<1>1. ShopInv => "part" \notin setup.faults
  BY DEF ShopInv, Typed
<1>2. ShopInv /\ Nest => BarrierExact
  BY <1>1, ExactFollows
<1> QED
  BY <1>2, NestInvariance, PTL

--------------------------------------------------------------------------------
(* What a step makes of the stack of its thread, by places *)

Keeps(t, n) == \A i \in 1..n : stack'[t][i] = stack[t][i]

Went(t, n) ==
  /\ n # 0 /\ Len(stack'[t]) = n /\ Keeps(t, n - 1)
  /\ \E f, g \in Frame : /\ f = stack[t][n] /\ g = stack'[t][n] /\ f = Top(t) /\ pc(t) = f.pc /\ pc(t) # "gone"
                         /\ Turned(f, g) /\ Keen(f, g) /\ Hurries(g)

Picked(t, n) ==
  /\ n # 0 /\ Len(stack'[t]) = n + 1 /\ Keeps(t, n - 1) /\ NoneAdded
  /\ \E f, g, h \in Frame : /\ f = stack[t][n] /\ g = stack'[t][n] /\ h = stack'[t][n + 1]
                            /\ pc(t) = f.pc /\ pc(t) \in {"steal", "caller_steal", "alone", "own_work"}
                            /\ Turned(f, g) /\ Keen(f, g) /\ h.pc = "body" /\ Upon(g, h)

Begun(t, n) ==
  /\ Len(stack'[t]) = n + 1 /\ Keeps(t, n) /\ NoneAdded
  /\ \E g \in Frame : /\ g = stack'[t][n + 1] /\ g.pc \in {"body", "target", "look", "stop"} /\ Neat(g)
                      /\ n # 0 => Upon(stack[t][n], g)
                      /\ n = 0 => pc(t) = "idle"
                      /\ g.pc \in SpreadPcs => calls[g.id] = "new"
                      /\ g.pc = "stop" /\ g.then # "stopped" => \A p \in Threads : queue[p] = <<>>

Quit(t, n) ==
  /\ n # 0 /\ Len(stack'[t]) = n - 1 /\ Keeps(t, n - 1) /\ NoneAdded
  /\ stack[t][n].pc \in {"completed", "track", "return", "create"} /\ pc(t) = stack[t][n].pc

\* An empty stack is that of a thread that is outside.
LEMMA IdleIs ==
  ASSUME ShopInv, NEW t \in Threads, NEW n, n = Len(stack[t])
  PROVE  n \in Nat /\ stack[t] \in Seq(Frame) /\ (n # 0 <=> pc(t) # "idle")
<1>1. stack \in [Threads -> Seq(Frame)]
  BY DEF ShopInv, Typed
<1>2. n # 0 => stack[t] # <<>> /\ n \in 1..Len(stack[t])
  BY <1>1
<1>3. n # 0 => stack[t][n] \in Frame
  BY <1>1, <1>2, ElementOfSeq
<1>4. n = 0 => stack[t] = <<>>
  <2>1. stack[t] \in Seq(Frame)
    BY <1>1
  <2> QED
    BY <2>1, EmptySeq
<1> QED
  BY <1>1, <1>2, <1>3, <1>4, Kinds DEF pc, Top

LEMMA ActsIs ==
  ASSUME ShopInv, ShopInv', Nest, NEW t \in Threads, Acts(t), NEW n, n = Len(stack[t])
  PROVE  /\ \A u \in Threads : u # t => stack'[u] = stack[u]
         /\ Went(t, n) \/ Picked(t, n) \/ Begun(t, n) \/ Quit(t, n)
<1>2. /\ stack \in [Threads -> Seq(Frame)] /\ stack[t] \in Seq(Frame) /\ n \in Nat
      /\ \A f \in Frame : Enter(t, f) => Shift(Frame, Threads, stack, stack', t, n, <<f>>)
      /\ pc(t) # "idle" =>
           /\ n # 0 /\ Top(t) = stack[t][n] /\ pc(t) = Top(t).pc /\ Top(t) \in Frame
           /\ Leave(t) => Shift(Frame, Threads, stack, stack', t, n - 1, <<>>)
           /\ \A f \in Frame : Goto(t, f) => Shift(Frame, Threads, stack, stack', t, n - 1, <<f>>)
           /\ \A f, g \in Frame :
                GotoEnter(t, f, g) => Shift(Frame, Threads, stack, stack', t, n - 1, <<f, g>>)
  BY Turns DEF ShopInv, Typed
<1>3. n # 0 <=> pc(t) # "idle"
  BY IdleIs
<1>4. CASE Goes(t)
  <2>1. PICK g \in Frame : /\ pc(t) # "idle" /\ pc(t) # "gone" /\ Goto(t, g)
                           /\ Turned(Top(t), g) /\ Keen(Top(t), g) /\ Hurries(g)
    BY <1>4 DEF Goes
  <2>2. PICK G : G = <<g>>
    OBVIOUS
  <2>3. Len(G) = 1 /\ G[1] = g /\ 1 \in 1..Len(G)
    BY <2>2, Tuples
  <2>4. Shift(Frame, Threads, stack, stack', t, n - 1, G)
    BY <1>2, <2>1, <2>2
  <2>5. Len(G) \in 0..2
    BY <2>3
  <2>6. PICK b : b = n - 1
    OBVIOUS
  <2>7. /\ Len(stack'[t]) = b + Len(G)
        /\ \A u \in Threads : u # t => stack'[u] = stack[u]
        /\ \A i \in 1..b : stack'[t][i] = stack[t][i]
        /\ \A i \in 1..Len(G) : stack'[t][b + i] = G[i]
    <3>1. Shift(Frame, Threads, stack, stack', t, b, G)
      BY <2>4, <2>6
    <3>2. ShopInv /\ t \in Threads
      OBVIOUS
    <3> QED
      BY ONLY <2>5, <3>1, <3>2, Whence
  <2>8. /\ Len(stack'[t]) = b + 1 /\ stack'[t][b + 1] = g
        /\ \A u \in Threads : u # t => stack'[u] = stack[u]
        /\ Keeps(t, b)
    BY <2>3, <2>7 DEF Keeps
  <2>9. n # 0 /\ b + 1 = n
    BY <1>2, <2>1, <2>6
  <2>10. Went(t, n)
    BY <1>2, <2>1, <2>6, <2>8, <2>9 DEF Went
  <2> QED
    BY <2>8, <2>10
<1>5. CASE Picks(t)
  <2>1. PICK g \in Frame, h \in Frame :
               /\ pc(t) \in {"steal", "caller_steal", "alone", "own_work"} /\ NoneAdded
               /\ GotoEnter(t, g, h) /\ Turned(Top(t), g) /\ Keen(Top(t), g)
               /\ Upon(g, h) /\ h.pc = "body"
    BY <1>5 DEF Picks
  <2>2. PICK G : G = <<g, h>>
    OBVIOUS
  <2>3. Len(G) = 2 /\ G[1] = g /\ G[2] = h /\ 1 \in 1..Len(G) /\ 2 \in 1..Len(G)
    BY <2>2, Tuples
  <2>4. Shift(Frame, Threads, stack, stack', t, n - 1, G)
    BY <1>2, <2>1, <2>2
  <2>5. Len(G) \in 0..2
    BY <2>3
  <2>6. PICK b : b = n - 1
    OBVIOUS
  <2>7. /\ Len(stack'[t]) = b + Len(G)
        /\ \A u \in Threads : u # t => stack'[u] = stack[u]
        /\ \A i \in 1..b : stack'[t][i] = stack[t][i]
        /\ \A i \in 1..Len(G) : stack'[t][b + i] = G[i]
    <3>1. Shift(Frame, Threads, stack, stack', t, b, G)
      BY <2>4, <2>6
    <3>2. ShopInv /\ t \in Threads
      OBVIOUS
    <3> QED
      BY ONLY <2>5, <3>1, <3>2, Whence
  <2>8. /\ Len(stack'[t]) = b + 2 /\ stack'[t][b + 1] = g /\ stack'[t][b + 2] = h
        /\ \A u \in Threads : u # t => stack'[u] = stack[u]
        /\ Keeps(t, b)
    BY <2>3, <2>7 DEF Keeps
  <2>9. n # 0 /\ b + 1 = n /\ b + 2 = n + 1
    BY <1>2, <2>1, <2>6
  <2>10. Picked(t, n)
    BY <1>2, <2>1, <2>6, <2>8, <2>9 DEF Picked
  <2> QED
    BY <2>8, <2>10
<1>6. CASE Begins(t)
  <2>1. PICK g \in Frame : /\ NoneAdded /\ Enter(t, g) /\ g.pc \in {"body", "target", "look", "stop"} /\ Neat(g)
                           /\ pc(t) # "idle" => Upon(Top(t), g)
                           /\ g.pc \in SpreadPcs => calls[g.id] = "new"
                           /\ g.pc = "stop" /\ g.then # "stopped" => \A p \in Threads : queue[p] = <<>>
    BY <1>6 DEF Begins
  <2>2. PICK G : G = <<g>>
    OBVIOUS
  <2>3. Len(G) = 1 /\ G[1] = g /\ 1 \in 1..Len(G)
    BY <2>2, Tuples
  <2>4. Shift(Frame, Threads, stack, stack', t, n, G)
    BY <1>2, <2>1, <2>2
  <2>5. Len(G) \in 0..2
    BY <2>3
  <2>6. PICK b : b = n
    OBVIOUS
  <2>7. /\ Len(stack'[t]) = b + Len(G)
        /\ \A u \in Threads : u # t => stack'[u] = stack[u]
        /\ \A i \in 1..b : stack'[t][i] = stack[t][i]
        /\ \A i \in 1..Len(G) : stack'[t][b + i] = G[i]
    <3>1. Shift(Frame, Threads, stack, stack', t, b, G)
      BY <2>4, <2>6
    <3>2. ShopInv /\ t \in Threads
      OBVIOUS
    <3> QED
      BY ONLY <2>5, <3>1, <3>2, Whence
  <2>8. /\ Len(stack'[t]) = b + 1 /\ stack'[t][b + 1] = g
        /\ \A u \in Threads : u # t => stack'[u] = stack[u]
        /\ Keeps(t, b)
    BY <2>3, <2>7 DEF Keeps
  <2>10. Begun(t, n)
    BY <1>2, <1>3, <2>1, <2>6, <2>8 DEF Begun
  <2> QED
    BY <2>8, <2>10
<1>7. CASE Quits(t)
  <2>1. pc(t) \in {"completed", "track", "return", "create"} /\ NoneAdded /\ Leave(t)
    BY <1>7 DEF Quits
  <2>2. PICK G : G = <<>>
    OBVIOUS
  <2>3. Len(G) = 0
    BY <2>2, Tuples
  <2>4. Shift(Frame, Threads, stack, stack', t, n - 1, G)
    BY <1>2, <2>1, <2>2
  <2>5. Len(G) \in 0..2
    BY <2>3
  <2>6. PICK b : b = n - 1
    OBVIOUS
  <2>7. /\ Len(stack'[t]) = b + Len(G)
        /\ \A u \in Threads : u # t => stack'[u] = stack[u]
        /\ \A i \in 1..b : stack'[t][i] = stack[t][i]
        /\ \A i \in 1..Len(G) : stack'[t][b + i] = G[i]
    <3>1. Shift(Frame, Threads, stack, stack', t, b, G)
      BY <2>4, <2>6
    <3>2. ShopInv /\ t \in Threads
      OBVIOUS
    <3> QED
      BY ONLY <2>5, <3>1, <3>2, Whence
  <2>8. /\ Len(stack'[t]) = b + 0
        /\ \A u \in Threads : u # t => stack'[u] = stack[u]
        /\ Keeps(t, b)
    BY <2>3, <2>7 DEF Keeps
  <2>9. n # 0 /\ b + 0 = n - 1
    BY <1>2, <2>1, <2>6
  <2>10. Quit(t, n)
    BY <1>2, <2>1, <2>6, <2>8, <2>9 DEF Quit
  <2> QED
    BY <2>8, <2>10
<1> QED
  BY <1>4, <1>5, <1>6, <1>7 DEF Acts

\* Who is looking for work goes on looking for it, or has some.
Seeks(t, p) == Len(stack[t]) >= 2 \/ (Len(stack[t]) = 1 /\ Looks(stack[t][1], p))

\* Someone who has work on top of its loop came from it.
LEMMA LoopBelow ==
  ASSUME ShopInv, Nest, NEW t \in Threads, t \notin Callers, NEW n, n = Len(stack[t]), n # 0
  PROVE  /\ n \in Nat /\ t \in Workers /\ stack[t][1].pc \in WorkerPcs
         /\ n >= 2 => \A p : Looks(stack[t][1], p)
         /\ n >= 2 => pc(t) \notin WorkerPcs
<1>1. n \in Nat /\ 1 \in 1..Len(stack[t])
  BY IdleIs
<1>2. Fits(t, stack[t][1], 1, Len(stack[t]))
  BY <1>1 DEF ShopInv, StackOK
<1>3. stack[t][1].pc \in WorkerPcs /\ t \in Workers
  BY <1>2 DEF Fits
<1>4. ASSUME n >= 2
      PROVE  /\ \A p : Looks(stack[t][1], p)
             /\ pc(t) \notin WorkerPcs
  <2>1. 1 \in 1..(Len(stack[t]) - 1) /\ n \in 1..Len(stack[t])
    BY <1>1, <1>4
  <2>2. Upon(stack[t][1], stack[t][2])
    BY <2>1 DEF Nest
  <2>3. Fits(t, stack[t][n], n, Len(stack[t]))
    BY <2>1 DEF ShopInv, StackOK
  <2>4. stack[t][n].pc \notin WorkerPcs
    BY <1>1, <1>4, <2>3 DEF Fits
  <2>5. pc(t) = stack[t][n].pc
    BY <1>1, IdleIs, NestTop
  <2> QED
    BY <1>3, <2>2, <2>4, <2>5 DEF Upon, Looks, WorkerPcs
<1> QED
  BY <1>1, <1>3, <1>4

LEMMA SeeksOn ==
  ASSUME ShopInv, ShopInv', Nest, NEW t \in Threads, Acts(t), "look" \notin setup.faults,
         NEW w \in Workers, w \in Threads, w \notin Callers, NEW p \in Threads, queue[p] # <<>>, Seeks(w, p)
  PROVE  Seeks(w, p)'
<1>1. PICK n : n = Len(stack[t])
  OBVIOUS
<1>2. /\ \A u \in Threads : u # t => stack'[u] = stack[u]
      /\ Went(t, n) \/ Picked(t, n) \/ Begun(t, n) \/ Quit(t, n)
  BY <1>1, ActsIs
<1>3. n \in Nat
  BY <1>1, IdleIs
<1>4. \A f : Looks(f, p)' <=> Looks(f, p)
  BY DEF Looks
<1>5. CASE w # t
  <2>1. stack'[w] = stack[w]
    BY <1>2, <1>5
  <2> QED
    BY <1>4, <2>1 DEF Seeks
<1>6. CASE w = t
  <2>1. n >= 2 \/ (n = 1 /\ Looks(stack[t][1], p))
    BY <1>1, <1>6 DEF Seeks
  <2>2. CASE Went(t, n)
    <3>1. Len(stack'[t]) = n /\ (n = 1 => Keen(stack[t][1], stack'[t][1]))
      BY <2>2 DEF Went
    <3>2. n = 1 => Looks(stack'[t][1], p)
      BY <2>1, <3>1 DEF Keen
    <3> QED
      BY <1>4, <1>6, <2>1, <3>1, <3>2 DEF Seeks
  <2>3. CASE Picked(t, n) \/ Begun(t, n)
    <3>1. Len(stack'[t]) = n + 1
      BY <2>3 DEF Picked, Begun
    <3> QED
      BY <1>3, <1>6, <2>1, <3>1 DEF Seeks
  <2>4. CASE Quit(t, n)
    <3>1. Len(stack'[t]) = n - 1 /\ Keeps(t, n - 1) /\ stack[t][n].pc \in {"completed", "track", "return", "create"}
      BY <2>4 DEF Quit
    <3>2. n # 1
      BY <2>1, <3>1 DEF Looks
    <3>3. n >= 2 /\ 1 \in 1..(n - 1)
      BY <1>3, <2>1, <3>2
    <3>4. stack'[t][1] = stack[t][1]
      BY <3>1, <3>3 DEF Keeps
    <3>5. Looks(stack[t][1], p)
      <4>1. t \notin Callers /\ n # 0
        BY <1>6, <3>3
      <4>2. n >= 2 => \A q : Looks(stack[t][1], q)
        BY <1>1, <4>1, LoopBelow
      <4> QED
        BY <3>3, <4>2
    <3> QED
      BY <1>3, <1>4, <1>6, <3>1, <3>3, <3>4, <3>5 DEF Seeks
  <2> QED
    BY <1>2, <2>2, <2>3, <2>4
<1> QED
  BY <1>5, <1>6

--------------------------------------------------------------------------------
(* What a step adds to the queues and to the shares, and what it leaves alone *)

\* Who puts work into a queue.
Putting == {"enqueue", "part_enqueue", "bulk_enqueue"}

LEMMA Joined ==
  ASSUME NEW S, NEW a \in Seq(S), NEW b \in Seq(S), NEW w, w \in ToSet(a \o b)
  PROVE  w \in ToSet(a) \/ \E j \in 1..Len(b) : w = b[j]
<1>1. /\ Len(a) \in Nat /\ Len(b) \in Nat /\ DOMAIN a = 1..Len(a) /\ DOMAIN b = 1..Len(b)
      /\ a \o b \in Seq(S) /\ Len(a \o b) = Len(a) + Len(b)
  OBVIOUS
<1>2. PICK i \in 1..(Len(a) + Len(b)) : w = (a \o b)[i]
  <2>1. DOMAIN (a \o b) = 1..Len(a \o b)
    BY <1>1
  <2> QED
    BY <1>1, <2>1 DEF ToSet
<1>3. CASE i <= Len(a)
  <2>1. (a \o b)[i] = a[i] /\ i \in 1..Len(a)
    BY <1>1, <1>3
  <2> QED
    BY <1>1, <1>2, <2>1 DEF ToSet
<1>4. CASE i > Len(a)
  <2>1. (a \o b)[i] = b[i - Len(a)] /\ i - Len(a) \in 1..Len(b)
    BY <1>1, <1>4
  <2> QED
    BY <1>2, <2>1
<1> QED
  BY <1>1, <1>3, <1>4

LEMMA QueueFrom ==
  ASSUME ShopInv, NEW t \in Threads, Progress(t) \/ Call(t), NEW p \in Threads,
         NEW w, w \in ToSet(queue'[p]), w \notin ToSet(queue[p])
  PROVE  /\ pc(t) \in Putting
         /\ w.kind = "chunk" \/ (pc(t) = "enqueue" /\ w = ItemWork(Top(t).item))
<1>1. queue \in [Threads -> Seq(Works)]
  BY DEF ShopInv, Typed
<1>2. ASSUME NEW u \in Threads, queue[u] # <<>>, queue' = [queue EXCEPT ![u] = Tail(@)]
      PROVE  FALSE
  <2>1. CASE u = p
    <3>1. queue[p] \in Seq(Works) /\ queue'[p] = Tail(queue[p])
      BY <1>1, <1>2, <2>1
    <3>2. /\ DOMAIN Tail(queue[p]) = 1..(Len(queue[p]) - 1) /\ Len(queue[p]) \in Nat
          /\ \A i \in 1..(Len(queue[p]) - 1) : Tail(queue[p])[i] = queue[p][i + 1] /\ i + 1 \in DOMAIN queue[p]
      BY <1>2, <2>1, <3>1
    <3> QED
      BY <3>1, <3>2 DEF ToSet
  <2>2. CASE u # p
    BY <1>1, <1>2, <2>2
  <2> QED
    BY <2>1, <2>2
<1>3. ASSUME NEW u, NEW ws \in Seq(Works), queue' = [queue EXCEPT ![u] = @ \o ws]
      PROVE  \E j \in 1..Len(ws) : w = ws[j]
  <2>1. queue'[p] = queue[p] \o ws
    BY <1>1, <1>3
  <2>2. queue[p] \in Seq(Works)
    BY <1>1
  <2> QED
    BY <2>1, <2>2, Joined
<1>4. CASE FireEnqueue(t)
  <2>1. PICK f, a, v : f = Top(t) /\ a = ItemWork(f.item) /\ v = <<a>>
    OBVIOUS
  <2>2. pc(t) = "enqueue" /\ queue' = [queue EXCEPT ![f.target] = Append(@, a)]
    BY <1>4, <2>1 DEF FireEnqueue
  <2>3. f.item \in Items
    BY <2>1, <2>2, Firing DEF FirePcs
  <2>4. a \in Works
    BY <2>1, <2>3, WorkShape
  <2>5. v \in Seq(Works) /\ Len(v) = 1 /\ v[1] = a
    BY <2>1, <2>4, Tuples
  <2>6. queue'[p] = queue[p] \o v
    <3>1. queue'[p] = Append(queue[p], a)
      BY <1>1, <2>2
    <3>2. queue[p] \in Seq(Works)
      BY <1>1
    <3> QED
      BY <2>1, <2>4, <3>1, <3>2
  <2>7. \E j \in 1..Len(v) : w = v[j]
    <3>1. queue[p] \in Seq(Works)
      BY <1>1
    <3> QED
      BY <2>5, <2>6, <3>1, Joined
  <2>8. w = a
    BY <2>5, <2>7
  <2> QED
    BY <2>1, <2>2, <2>8 DEF Putting
<1>5. CASE PartEnqueue(t) \/ BulkEnqueue(t)
  <2>1. PICK f, cs, v : f = Top(t) /\ cs = Owed(f) /\ v = [j \in 1..Len(cs) |-> ChunkWork(f.id, cs[j])]
    BY Zenon
  <2>2. pc(t) \in {"part_enqueue", "bulk_enqueue"} /\ pc(t) # "idle"
    BY Zenon, <1>5 DEF PartEnqueue, BulkEnqueue
  <2>3. On(t, Len(stack[t]), f) /\ f.pc = pc(t)
    BY <2>1, <2>2, Below1
  <2>4. cs \in Seq(Ranges) /\ Apart(cs) /\ f.id \in Spreads
    BY <2>1, <2>2, <2>3, OwedIs DEF Handing
  <2>5. v \in Seq(Works) /\ Len(v) = Len(cs)
    BY <2>1, <2>4, ChunkWorks
  <2>6. \E u : queue' = [queue EXCEPT ![u] = @ \o v]
    <3>1. CASE PartEnqueue(t)
      BY Zenon, <2>1, <2>3, <3>1 DEF PartEnqueue, Owed
    <3>2. CASE BulkEnqueue(t)
      BY <2>1, <2>3, <3>2 DEF BulkEnqueue, Owed
    <3> QED
      BY SMTT(20), <1>5, <3>1, <3>2
  <2>7. PICK j \in 1..Len(cs) : w = v[j]
    BY <1>3, <2>5, <2>6
  <2>8. w.kind = "chunk"
    BY <2>1, <2>7 DEF ChunkWork
  <2> QED
    BY <2>2, <2>8 DEF Putting
<1>6. CASE ~(FireEnqueue(t) \/ PartEnqueue(t) \/ BulkEnqueue(t))
  <2>1. queue' # queue
    OBVIOUS
  <2>2. ~\E u \in Threads : queue[u] # <<>> /\ queue' = [queue EXCEPT ![u] = Tail(@)]
    BY <1>2
  <2>3. ~Call(t)
    BY <2>1 DEF Call, FireCall, SpreadCall, StopCall, ResizeCall
  <2>4. ~WorkerStep(t)
    BY <2>1, <2>2 DEF WorkerStep, OwnDequeue, ExitCheck, Wait, Woken, WakeLeft, WakeRight
  <2>5. ~(StealTake(t) \/ StealLook(t) \/ StealEnds(t))
    BY <2>1, <2>2 DEF StealTake, StealLook, StealEnds
  <2>6. ~(RunStep(t) \/ StopStep(t))
    BY Zenon, <2>1 DEF RunStep, FinishBody, WorkCompleted, StopStep, StopFlag, StopWake, StopJoin, CreateNext
  <2>7. ~FireStep(t)
    BY <1>6, <2>1 DEF FireStep, FireTarget, FireSpill, FireNotify, FireCount, FireTrack
  <2>8. ~SpreadStep(t)
    BY <1>6, <2>1 DEF SpreadStep, SpreadLook, PartCount, PartNotify, BulkInit, BulkWake, BulkUndo,
                      CallerWork, CallerWaits, Join, SpreadReturn
  <2> QED
    BY <2>3, <2>4, <2>5, <2>6, <2>7, <2>8 DEF Progress
<1> QED
  BY <1>4, <1>5, <1>6

\* Only a fire makes an item that somebody is to run.
LEMMA ItemsFrom ==
  ASSUME WideEnough, ShopInv, NEW t \in Threads, Progress(t) \/ Call(t),
         NEW x, x \in InHand', x \notin InHand, x.kind = "item"
  PROVE  pc(t) = "enqueue"
<1>1. \A s, E : \A y \in Counts(s, E) : y.kind = "count"
  BY CountIs
<1>2. \A s, J : \A y \in Iters(s, J) : y.kind = "iter"
  BY IterIs
<1>3. CASE WorkerStep(t)
  BY <1>3, OwnDequeueKeeps, LoopKeeps DEF WorkerStep
<1>4. CASE StealTake(t) \/ StealLook(t) \/ StealEnds(t)
  BY <1>4, StealTakeKeeps, StealLookKeeps, StealEndsKeeps
<1>5. CASE RunStep(t)
  <2>1. PICK w : w = Top(t).work
    OBVIOUS
  <2>2. CASE FinishBody(t)
    <3>1. x \in DoneShares(w) \/ x \in InHand
      <4>1. w.kind \in {"item", "chunk"}
        <5>1. w \in Works
          BY <2>1, <2>2, RunsIt DEF FinishBody, RunPcs
        <5> QED
          BY <5>1, WorkShape
      <4>2. CASE w.kind = "item"
        <5>1. x \in InHand \cup {Share("over", w.id, 0)}
          BY <2>1, <2>2, <4>2, ItemRan
        <5> QED
          BY <4>2, <5>1 DEF DoneShares
      <4>3. CASE w.kind = "chunk"
        BY <2>1, <2>2, <4>3, ChunkRan
      <4> QED
        BY <4>1, <4>2, <4>3
    <3> QED
      BY <3>1, ShareFields DEF DoneShares
  <2>3. CASE WorkCompleted(t)
    BY <2>1, <2>3, WorkCompletedKeeps
  <2> QED
    BY <1>5, <2>2, <2>3 DEF RunStep
<1>6. CASE FireStep(t)
  <2>1. CASE FireEnqueue(t)
    BY <2>1 DEF FireEnqueue
  <2>2. CASE FireCount(t) \/ FireTrack(t)
    BY <2>2, FireCountKeeps, FireTrackKeeps
  <2> QED
    BY <1>6, <2>1, <2>2, FireTargetKeeps, FireSpillKeeps, FireNotifyKeeps DEF FireStep
<1>7. CASE SpreadStep(t)
  <2>1. PICK f, cs, ds : f = Top(t) /\ cs = f.chunks /\ ds = f.chunks[f.k]
    OBVIOUS
  <2>2. CASE PartCount(t)
    BY <1>1, <2>1, <2>2, PartCountKeeps
  <2>3. CASE BulkInit(t)
    BY <1>1, <2>1, <2>3, BulkInitKeeps
  <2>4. CASE BulkUndo(t)
    BY <2>1, <2>4, BulkUndoKeeps
  <2>5. CASE CallerWork(t)
    <3>1. PICK y : y = Share("count", f.id, f.callerEnd)
      OBVIOUS
    <3>2. x \in InHand \cup {y}
      BY <2>1, <2>5, <3>1, CallerWorkKeeps
    <3> QED
      BY <3>1, <3>2, ShareFields
  <2>6. CASE SpreadReturn(t)
    BY <2>1, <2>6, SpreadReturnKeeps
  <2>7. CASE ~(PartCount(t) \/ BulkInit(t) \/ BulkUndo(t) \/ CallerWork(t) \/ SpreadReturn(t))
    BY <1>7, <2>7, SpreadLookKeeps, PartEnqueueKeeps, PartNotifyKeeps, BulkEnqueueKeeps, BulkWakeKeeps,
       CallerWaitsKeeps, JoinKeeps DEF SpreadStep
  <2> QED
    BY <2>2, <2>3, <2>4, <2>5, <2>6, <2>7
<1>8. CASE StopStep(t)
  BY <1>8, StopStepKeeps
<1>9. CASE Call(t)
  <2>1. ASSUME NEW i \in Items, FireCall(t, i)
        PROVE  FALSE
    <3>1. x \in InHand \cup {Share("todo", i, 0)}
      BY <2>1, FireCallKeeps
    <3> QED
      BY <3>1, ShareFields
  <2>2. ASSUME NEW s \in Spreads, NEW m \in setup.iterations, SpreadCall(t, s, m)
        PROVE  FALSE
    <3>1. PICK new : new = {Share("call", s, 0)} \cup Iters(s, 1..m)
      OBVIOUS
    <3>2. x \in new
      BY <2>2, <3>1, SpreadCallKeeps
    <3> QED
      BY <1>2, <3>1, <3>2, ShareFields
  <2> QED
    BY <1>9, <2>1, <2>2, StopCallKeeps DEF Call
<1> QED
  BY <1>3, <1>4, <1>5, <1>6, <1>7, <1>8, <1>9 DEF Progress

\* Only a stop replaces the pool, or sets the flag.
LEMMA PoolFrom ==
  ASSUME NEW t, Progress(t) \/ Call(t), ~StopStep(t)
  PROVE  pool' = pool /\ brexit' = brexit
<1>1. Call(t) => UNCHANGED <<pool, shared>>
  BY DEF Call, FireCall, SpreadCall, StopCall, ResizeCall
<1>2. WorkerStep(t) => UNCHANGED <<pool, shared>>
  BY DEF WorkerStep, OwnDequeue, ExitCheck, Wait, Woken, WakeLeft, WakeRight
<1>3. StealTake(t) \/ StealLook(t) \/ StealEnds(t) => UNCHANGED <<pool, shared>>
  BY DEF StealTake, StealLook, StealEnds
<1>4. RunStep(t) => pool' = pool /\ brexit' = brexit
  BY DEF RunStep, FinishBody, WorkCompleted
<1>5. FireStep(t) => pool' = pool /\ brexit' = brexit
  BY Zenon DEF FireStep, FireTarget, FireSpill, FireEnqueue, FireNotify, FireCount, FireTrack, shared
<1>6. SpreadStep(t) => pool' = pool /\ brexit' = brexit
  BY Zenon DEF SpreadStep, SpreadLook, PartCount, PartEnqueue, PartNotify, BulkInit, BulkEnqueue, BulkWake, BulkUndo,
         CallerWork, CallerWaits, Join, SpreadReturn, shared
<1> QED
  BY <1>1, <1>2, <1>3, <1>4, <1>5, <1>6 DEF Progress, shared

\* An item is fired once.
LEMMA FirerFrom ==
  ASSUME NEW t, Progress(t) \/ Call(t), firer \in [Items -> Threads \cup {NoOne}],
         NEW i \in Items, firer[i] # NoOne
  PROVE  firer'[i] = firer[i]
<1>1. Progress(t) => firer' = firer
  BY Zenon DEF Progress, WorkerStep, OwnDequeue, ExitCheck, Wait, Woken, WakeLeft, WakeRight,
         StealTake, StealLook, StealEnds, RunStep, FinishBody, WorkCompleted,
         FireStep, FireTarget, FireSpill, FireEnqueue, FireNotify, FireCount, FireTrack,
         SpreadStep, SpreadLook, PartCount, PartEnqueue, PartNotify, BulkInit, BulkEnqueue, BulkWake, BulkUndo,
         CallerWork, CallerWaits, Join, SpreadReturn, StopStep, StopFlag, StopWake, StopJoin, CreateNext, history
<1>2. ASSUME NEW j \in Items, FireCall(t, j)
      PROVE  firer'[i] = firer[i]
  BY <1>2 DEF FireCall
<1>3. ASSUME NEW s \in Spreads, NEW m \in setup.iterations, SpreadCall(t, s, m)
      PROVE  firer' = firer
  BY <1>3 DEF SpreadCall
<1>4. StopCall(t) \/ ResizeCall(t) => firer' = firer
  BY DEF StopCall, ResizeCall, history
<1> QED
  BY SMTT(20), <1>1, <1>2, <1>3, <1>4 DEF Call

--------------------------------------------------------------------------------
(* What work on the pool has fired is run before the pool is gone *)

\* The pool is being replaced, or the shop destroyed; the workers are told to leave.
Resizing == \E c \in Callers : pc(c) \in {"stop", "stop_wake"} /\ Top(c).then # "stopped"
Shutting == \E c \in Callers : pc(c) \in {"stop_wake", "stopped"}

\* Work that is not to be left behind, and who will come to look for it.
Urgent(p) == \E w \in ToSet(queue[p]) : Resizing \/ (w.kind = "item" /\ firer[w.id] \notin Callers)
Sought(p) == \E w \in Workers : Seeks(w, p)

Exits   == \A w \in Workers : pc(w) = "gone" => Shutting
Flagged == brexit => Shutting \/ pool = 0
Drains  == \A p \in Threads : Urgent(p) => Sought(p)
Manned  == pool = 0 => \A i \in Items : Share("item", i, 0) \in InHand => firer[i] \in Callers

DrainInv == Exits /\ Flagged /\ Drains /\ Manned

LEMMA Members ==
  ASSUME NEW S, NEW q \in Seq(S)
  PROVE  /\ \A x : x \in ToSet(q) <=> \E k \in 1..Len(q) : x = q[k]
         /\ q = <<>> => ToSet(q) = {}
         /\ q # <<>> => Len(q) \in Nat \ {0}
         /\ Len(q) \in Nat
<1>1. DOMAIN q = 1..Len(q) /\ Len(q) \in Nat
  OBVIOUS
<1>2. \A x : x \in ToSet(q) <=> \E k \in 1..Len(q) : x = q[k]
  BY <1>1 DEF ToSet
<1>3. q = <<>> => 1..Len(q) = {}
  OBVIOUS
<1>4. q # <<>> => Len(q) # 0
  BY EmptySeq
<1> QED
  BY <1>1, <1>2, <1>3, <1>4

LEMMA WorkersAre ==
  ASSUME ShopInv, NEW w \in Workers
  PROVE  w \in Threads /\ w \notin Callers /\ w \in Nat
<1>1. pool \in Nat /\ pool <= Most /\ Most \in Nat /\ NumCallers \in Nat
  BY MostIs, ShopAssumption DEF ShopInv, Typed
<1> QED
  BY <1>1 DEF Workers, Threads, Callers

\* The next step of a thread, from its stack.
LEMMA TopNext ==
  ASSUME NEW t, NEW n \in Nat \ {0}, n = Len(stack'[t])
  PROVE  /\ pc(t)' = stack'[t][n].pc
         /\ Top(t)' = stack'[t][n]
BY DEF pc, Top

LEMMA IdleNext ==
  ASSUME NEW t, stack' \in [Threads -> Seq(Frame)], t \in Threads, Len(stack'[t]) = 0
  PROVE  pc(t)' = "idle"
<1>1. stack'[t] \in Seq(Frame)
  OBVIOUS
<1>2. stack'[t] = <<>>
  BY <1>1, EmptySeq
<1> QED
  BY <1>2 DEF pc

LEMMA SamePc ==
  ASSUME NEW u, stack'[u] = stack[u]
  PROVE  pc(u)' = pc(u) /\ Top(u)' = Top(u) /\ \A p : Seeks(u, p)' <=> Seeks(u, p)
<1>1. \A f, p : Looks(f, p)' <=> Looks(f, p)
  BY DEF Looks
<1> QED
  BY <1>1 DEF pc, Top, Seeks

\* An item in a queue has been fired, and not run.
LEMMA QueuedItem ==
  ASSUME ShopInv, NEW p \in Threads, NEW w \in ToSet(queue[p]), w.kind = "item"
  PROVE  w.id \in Items /\ Share("item", w.id, 0) \in InHand /\ firer[w.id] # NoOne
<1>1. queue[p] \in Seq(Works)
  BY DEF ShopInv, Typed
<1>2. PICK k \in 1..Len(queue[p]) : w = queue[p][k]
  BY <1>1, Members
<1>3. w \in Works /\ WorkShares(w) \subseteq InHand
  BY <1>2, QueuedHas
<1>4. w.id \in Items
  BY <1>3, WorkShape
<1>5. Share("item", w.id, 0) \in InHand
  BY <1>3 DEF WorkShares
<1>6. ItemOK(w.id)
  BY <1>4 DEF ShopInv
<1> QED
  BY <1>4, <1>5, <1>6 DEF ItemOK

\* The share of an item that waits is that of an item in a queue.
LEMMA ItemQueued ==
  ASSUME ShopInv, NEW i \in Items, Share("item", i, 0) \in Waiting
  PROVE  \E p \in Threads : \E w \in ToSet(queue[p]) : w.kind = "item" /\ w.id = i
<1>1. PICK x : x = Share("item", i, 0)
  OBVIOUS
<1>2. PICK p \in Threads : \E k \in DOMAIN Queues[p] : x \in Queues[p][k]
  BY <1>1 DEF Waiting, Taken
<1>3. PICK k \in DOMAIN Queues[p] : x \in Queues[p][k]
  BY <1>2
<1>4. queue \in [Threads -> Seq(Works)] /\ queue[p] \in Seq(Works)
  BY DEF ShopInv, Typed
<1>5. /\ DOMAIN Queues[p] = 1..Len(queue[p])
      /\ \A j \in 1..Len(queue[p]) : queue[p][j] \in Works /\ Queues[p][j] = WorkShares(queue[p][j])
  BY SMTT(20), <1>4, QueueHeld, QueueHolds
<1>6. PICK w : w = queue[p][k]
  OBVIOUS
<1>7. w \in Works /\ x \in WorkShares(w) /\ w \in ToSet(queue[p])
  BY <1>3, <1>4, <1>5, <1>6, Members
<1>8. x.kind = "item" /\ x.id = i
  BY <1>1, ShareFields
<1>9. CASE w.kind = "chunk"
  <2>1. x \in Iters(w.id, Its(w)) \cup Counts(w.id, {w.to})
    BY <1>7, <1>9 DEF WorkShares
  <2> QED
    BY <1>8, <2>1, IterIs, CountIs
<1>10. CASE w.kind # "chunk"
  <2>1. x = Share("item", w.id, 0)
    BY <1>7, <1>10 DEF WorkShares
  <2>2. w.id = i /\ w.kind = "item"
    BY <1>7, <1>8, <1>10, <2>1, ShareFields, WorkShape
  <2> QED
    BY <1>7, <2>2
<1> QED
  BY <1>9, <1>10

\* Who is gone is not looking for anything.
LEMMA GoneSeeks ==
  ASSUME ShopInv, NEW w \in Workers, pc(w) = "gone", NEW p
  PROVE  ~Seeks(w, p)
<1>1. w \in Threads
  BY WorkersAre
<1>2. PICK n : n = Len(stack[w])
  OBVIOUS
<1>3. n \in Nat \ {0} /\ On(w, n, Top(w)) /\ Top(w) = stack[w][n] /\ pc(w) = Top(w).pc
  BY <1>1, <1>2, Below1
<1>4. n = 1
  BY <1>2, <1>3, EveryFrame DEF Fits, WorkerPcs
<1> QED
  BY <1>2, <1>3, <1>4 DEF Seeks, Looks

\* The workers are gone: what is left was fired by user threads, and after a resize
\* nothing is.
LEMMA NobodyLeft ==
  ASSUME ShopInv, Drains, NEW t \in Threads, pc(t) \in StopPcs, \A w \in Workers : pc(w) = "gone"
  PROVE  /\ \A i \in Items : Share("item", i, 0) \in InHand => firer[i] \in Callers
         /\ Resizing => \A p \in Threads : queue[p] = <<>>
<1>1. \A p \in Threads : ~Sought(p)
  BY GoneSeeks DEF Sought
<1>2. \A p \in Threads : ~Urgent(p)
  BY <1>1 DEF Drains
<1>3. ASSUME NEW i \in Items, Share("item", i, 0) \in InHand
      PROVE  firer[i] \in Callers
  <2>1. PICK x : x = Share("item", i, 0)
    OBVIOUS
  <2>2. x \in Waiting
    <3>1. SUFFICES ASSUME x \notin Waiting PROVE FALSE
      OBVIOUS
    <3>2. PICK u, j, f : On(u, j, f) /\ x \in Claims(f)
      <4>1. \A w \in Works : ~(x \in WorkShares(w) /\ WorkShares(w) \subseteq Waiting)
        BY <3>1
      <4> QED
        BY <1>3, <2>1, <4>1, Holder
    <3>3. u \in Threads /\ j \in 1..Len(stack[u]) /\ f = stack[u][j]
      BY <3>2 DEF On
    <3>4. CASE u = t
      <4>1. Len(stack[t]) = 1 /\ stack[t][1] = Top(t) /\ Claims(Top(t)) = {}
        BY StopAlone
      <4>2. j = 1
        BY <3>3, <3>4, <4>1
      <4> QED
        BY <3>2, <3>3, <3>4, <4>1, <4>2
    <3>5. CASE u # t
      BY <3>2, <3>3, <3>5, StoppedStacks
    <3> QED
      BY <3>4, <3>5
  <2>3. PICK p \in Threads : \E w \in ToSet(queue[p]) : w.kind = "item" /\ w.id = i
    BY <2>1, <2>2, ItemQueued
  <2> QED
    BY <1>2, <2>3 DEF Urgent
<1>4. ASSUME Resizing, NEW p \in Threads
      PROVE  queue[p] = <<>>
  <2>1. queue[p] \in Seq(Works)
    BY DEF ShopInv, Typed
  <2>2. ToSet(queue[p]) = {}
    BY <1>2, <1>4 DEF Urgent
  <2>3. queue[p] # <<>> => 1 \in 1..Len(queue[p])
    BY <2>1, Members
  <2>4. queue[p] # <<>> => queue[p][1] \in ToSet(queue[p])
    BY <2>1, <2>3, Members
  <2> QED
    BY <2>2, <2>4
<1> QED
  BY <1>3, <1>4

\* Who puts work into a queue has something below, if it is a worker.
LEMMA LongerOn ==
  ASSUME ShopInv, ShopInv', Nest, NEW t \in Threads, t \notin Callers, Acts(t), pc(t) \in Putting, NEW p
  PROVE  t \in Workers /\ Seeks(t, p)'
<1>1. PICK n : n = Len(stack[t])
  OBVIOUS
<1>2. pc(t) # "idle" /\ pc(t) \notin WorkerPcs
  BY DEF Putting, WorkerPcs
<1>3. n \in Nat /\ n # 0 /\ On(t, n, Top(t)) /\ Top(t) = stack[t][n] /\ pc(t) = Top(t).pc
  BY <1>1, <1>2, Below1
<1>4. t \in Workers /\ stack[t][1].pc \in WorkerPcs
  BY <1>1, <1>3, LoopBelow
<1>5. n # 1
  BY <1>2, <1>3, <1>4
<1>6. Went(t, n) \/ Picked(t, n) \/ Begun(t, n) \/ Quit(t, n)
  BY <1>1, ActsIs
<1>7. CASE Went(t, n)
  <2>1. Len(stack'[t]) = n
    BY <1>7 DEF Went
  <2> QED
    BY <1>3, <1>4, <1>5, <2>1 DEF Seeks
<1>8. CASE Picked(t, n) \/ Begun(t, n)
  <2>1. Len(stack'[t]) = n + 1
    BY <1>8 DEF Picked, Begun
  <2> QED
    BY <1>3, <1>4, <2>1 DEF Seeks
<1>9. CASE Quit(t, n)
  <2>1. pc(t) \in {"completed", "track", "return", "create"}
    BY <1>9 DEF Quit
  <2> QED
    BY <2>1 DEF Putting
<1> QED
  BY <1>6, <1>7, <1>8, <1>9

\* What is on top of a stack after a step.
LEMMA TopAfter ==
  ASSUME ShopInv, ShopInv', Nest, NEW t \in Threads, Acts(t), pc(t)' # "idle"
  PROVE  \/ \E f, g \in Frame : /\ f = Top(t) /\ pc(t) = f.pc /\ g = Top(t)' /\ pc(t)' = g.pc /\ Turned(f, g)
         \/ pc(t)' = "body"
         \/ \E g \in Frame : /\ g = Top(t)' /\ pc(t)' = g.pc /\ g.pc \in {"body", "target", "look", "stop"}
                             /\ g.pc = "stop" => pc(t) = "idle"
                             /\ g.pc = "stop" /\ g.then # "stopped" => \A p \in Threads : queue[p] = <<>>
         \/ /\ pc(t) \in {"completed", "track", "return", "create"}
            /\ pc(t)' \in {"body", "own", "steal", "caller_steal", "join", "return"}
<1>1. PICK n : n = Len(stack[t])
  OBVIOUS
<1>2. Went(t, n) \/ Picked(t, n) \/ Begun(t, n) \/ Quit(t, n)
  BY <1>1, ActsIs
<1>3. n \in Nat /\ (n # 0 <=> pc(t) # "idle") /\ stack' \in [Threads -> Seq(Frame)]
  BY <1>1, IdleIs DEF ShopInv, Typed
<1>4. PICK m : m = Len(stack'[t])
  OBVIOUS
<1>5. m \in Nat \ {0}
  <2>1. stack'[t] \in Seq(Frame)
    BY <1>3
  <2>2. m \in Nat
    BY <1>4, <2>1
  <2> QED
    BY <1>3, <1>4, <2>2, IdleNext
<1>6. pc(t)' = stack'[t][m].pc /\ Top(t)' = stack'[t][m]
  BY <1>4, <1>5, TopNext
<1>7. CASE Went(t, n)
  <2>1. m = n /\ \E f, g \in Frame : /\ g = stack'[t][n] /\ f = Top(t) /\ pc(t) = f.pc /\ Turned(f, g)
    BY <1>4, <1>7 DEF Went
  <2> QED
    BY <1>6, <2>1
<1>8. CASE Picked(t, n)
  <2>1. m = n + 1 /\ stack'[t][n + 1].pc = "body"
    BY <1>4, <1>8 DEF Picked
  <2> QED
    BY <1>6, <2>1
<1>9. CASE Begun(t, n)
  <2>1. PICK g \in Frame : /\ g = stack'[t][n + 1] /\ g.pc \in {"body", "target", "look", "stop"}
                           /\ n # 0 => Upon(stack[t][n], g)
                           /\ n = 0 => pc(t) = "idle"
                           /\ g.pc = "stop" /\ g.then # "stopped" => \A p \in Threads : queue[p] = <<>>
    BY <1>9 DEF Begun
  <2>2. m = n + 1
    BY <1>4, <1>9 DEF Begun
  <2>3. g.pc = "stop" => pc(t) = "idle"
    BY <2>1 DEF Upon, FirePcs, SpreadPcs, PartPcs, BulkPcs, RunPcs
  <2> QED
    BY <1>6, <2>1, <2>2, <2>3
<1>10. CASE Quit(t, n)
  <2>1. m = n - 1 /\ n # 0 /\ pc(t) \in {"completed", "track", "return", "create"} /\ Keeps(t, n - 1)
    BY <1>4, <1>10 DEF Quit
  <2>2. n - 1 \in 1..(n - 1) /\ (n - 1) + 1 = n /\ n - 1 \in 1..(Len(stack[t]) - 1)
    <3>1. \A a \in Nat : a - 1 \in Nat \ {0} => a - 1 \in 1..(a - 1) /\ (a - 1) + 1 = a
      OBVIOUS
    <3>2. n - 1 \in Nat \ {0}
      BY <1>5, <2>1
    <3> QED
      BY <1>1, <1>3, <3>1, <3>2
  <2>3. stack'[t][m] = stack[t][n - 1]
    BY <2>1, <2>2 DEF Keeps
  <2>4. Upon(stack[t][n - 1], stack[t][n])
    BY <2>2 DEF Nest
  <2> QED
    BY <1>6, <2>1, <2>3, <2>4 DEF Upon
<1> QED
  BY <1>2, <1>7, <1>8, <1>9, <1>10

\* A stop goes on, once it is under way.
LEMMA ShuttingOn ==
  ASSUME ShopInv, ShopInv', Nest, NEW t \in Threads, Acts(t), Shutting
  PROVE  Shutting'
<1>1. PICK c \in Callers : pc(c) \in {"stop_wake", "stopped"}
  BY DEF Shutting
<1>2. c \in Threads
  BY MostIs DEF ShopInv, Typed
<1>3. PICK n : n = Len(stack[t])
  OBVIOUS
<1>4. CASE c # t
  <2>1. stack'[c] = stack[c]
    BY <1>2, <1>3, <1>4, ActsIs
  <2>2. pc(c)' = pc(c)
    BY <2>1, SamePc
  <2> QED
    BY <1>1, <2>2 DEF Shutting
<1>5. CASE c = t
  <2>1. Went(t, n) \/ Picked(t, n) \/ Begun(t, n) \/ Quit(t, n)
    BY <1>3, ActsIs
  <2>2. n \in Nat /\ n # 0 /\ pc(t) = stack[t][n].pc
    BY <1>1, <1>3, <1>5, Below1
  <2>3. CASE Went(t, n)
    <3>1. PICK f, g \in Frame : f = stack[t][n] /\ g = stack'[t][n] /\ Turned(f, g)
      BY <2>3 DEF Went
    <3>2. f.pc \in {"stop_wake", "stopped"}
      BY <1>1, <1>5, <2>2, <3>1
    <3>3. g.pc \in {"stop_wake", "stopped"}
      BY <3>1, <3>2 DEF Turned, RunPcs, FirePcs, SpreadPcs, PartPcs, BulkPcs, WorkerPcs
    <3>4. Len(stack'[t]) = n
      BY <2>3 DEF Went
    <3>5. pc(t)' = g.pc
      BY <2>2, <3>1, <3>4, TopNext
    <3> QED
      BY <1>5, <3>3, <3>5 DEF Shutting
  <2>4. CASE Picked(t, n)
    <3>1. pc(t) \in {"steal", "caller_steal", "alone", "own_work"}
      BY <2>4 DEF Picked
    <3> QED
      BY <1>1, <1>5, <3>1
  <2>5. CASE Begun(t, n)
    <3>1. \E g : Upon(stack[t][n], g)
      BY <2>2, <2>5 DEF Begun
    <3> QED
      BY <1>1, <1>5, <2>2, <3>1 DEF Upon
  <2>6. CASE Quit(t, n)
    <3>1. pc(t) \in {"completed", "track", "return", "create"}
      BY <2>6 DEF Quit
    <3> QED
      BY <1>1, <1>5, <3>1
  <2> QED
    BY <2>1, <2>3, <2>4, <2>5, <2>6
<1> QED
  BY <1>4, <1>5

\* The shop is put out of service when nothing is queued.
LEMMA ResizingFrom ==
  ASSUME ShopInv, ShopInv', Nest, NEW t \in Threads, Acts(t), Resizing'
  PROVE  Resizing \/ (pc(t) = "idle" /\ \A p \in Threads : queue[p] = <<>>)
<1>1. PICK c \in Callers : pc(c)' \in {"stop", "stop_wake"} /\ Top(c)'.then # "stopped"
  BY DEF Resizing
<1>2. c \in Threads
  BY MostIs DEF ShopInv, Typed
<1>3. CASE c # t
  <2>1. PICK n : n = Len(stack[t])
    OBVIOUS
  <2>2. stack'[c] = stack[c]
    BY <1>2, <1>3, <2>1, ActsIs
  <2>3. pc(c)' = pc(c) /\ Top(c)' = Top(c)
    BY <2>2, SamePc
  <2> QED
    BY <1>1, <2>3 DEF Resizing
<1>4. CASE c = t
  <2>1. pc(t)' # "idle" /\ pc(t)' \in {"stop", "stop_wake"}
    BY <1>1, <1>4
  <2>2. ASSUME NEW f \in Frame, NEW g \in Frame, f = Top(t), pc(t) = f.pc, g = Top(t)', pc(t)' = g.pc, Turned(f, g)
        PROVE  Resizing
    <3>1. f.pc \in {"stop", "stop_wake"} /\ f.then = g.then
      BY <2>1, <2>2 DEF Turned, RunPcs, FirePcs, SpreadPcs, PartPcs, BulkPcs, WorkerPcs
    <3>2. pc(c) \in {"stop", "stop_wake"} /\ Top(c).then # "stopped"
      BY <1>1, <1>4, <2>2, <3>1
    <3> QED
      BY <3>2 DEF Resizing
  <2>3. ASSUME NEW g \in Frame, g = Top(t)', pc(t)' = g.pc, g.pc = "stop" => pc(t) = "idle",
               g.pc \in {"body", "target", "look", "stop"},
               g.pc = "stop" /\ g.then # "stopped" => \A p \in Threads : queue[p] = <<>>
        PROVE  pc(t) = "idle" /\ \A p \in Threads : queue[p] = <<>>
    BY <1>1, <1>4, <2>1, <2>3
  <2> QED
    BY <2>1, <2>2, <2>3, TopAfter
<1> QED
  BY <1>3, <1>4

\* A worker that leaves has been told to.
LEMMA GoneFrom ==
  ASSUME ShopInv, ShopInv', Nest, NEW t \in Threads, Acts(t), NEW w \in Threads, pc(w)' = "gone"
  PROVE  pc(w) = "gone" \/ brexit
<1>1. CASE w # t
  <2>1. PICK n : n = Len(stack[t])
    OBVIOUS
  <2>2. stack'[w] = stack[w]
    BY <1>1, <2>1, ActsIs
  <2> QED
    BY <2>2, SamePc
<1>2. CASE w = t
  <2>1. pc(t)' = "gone"
    BY <1>2
  <2> QED
    BY <2>1, TopAfter DEF Turned
<1> QED
  BY <1>1, <1>2

LEMMA DrainsOn ==
  ASSUME WideEnough, ShopInv, ShopInv', Nest, Drains, "look" \notin setup.faults,
         NEW t \in Threads, Progress(t) \/ Call(t), Acts(t), pool' = pool
  PROVE  Drains'
<1>1. SUFFICES ASSUME NEW p \in Threads, Urgent(p)' PROVE Sought(p)'
  BY DEF Drains
<1>2. queue[p] \in Seq(Works) /\ queue'[p] \in Seq(Works) /\ firer \in [Items -> Threads \cup {NoOne}]
  BY DEF ShopInv, Typed
<1>3. Workers' = Workers
  BY DEF Workers
<1>4. CASE Urgent(p)
  <2>1. PICK w \in Workers : Seeks(w, p)
    BY <1>4 DEF Drains, Sought
  <2>2. ToSet(queue[p]) # {}
    BY <1>4 DEF Urgent
  <2>3. queue[p] # <<>>
    BY <1>2, <2>2, Members
  <2>4. Seeks(w, p)'
    BY <2>1, <2>3, WorkersAre, SeeksOn
  <2> QED
    BY <1>3, <2>1, <2>4 DEF Sought
<1>5. CASE ~Urgent(p)
  <2>1. PICK x \in ToSet(queue'[p]) : Resizing' \/ (x.kind = "item" /\ firer'[x.id] \notin Callers)
    BY <1>1 DEF Urgent
  <2>2. CASE x \in ToSet(queue[p])
    <3>1. queue[p] # <<>>
      BY <1>2, <2>2, Members
    <3>2. ~Resizing'
      <4>1. ~Resizing
        BY <1>5, <2>2 DEF Urgent
      <4> QED
        BY <3>1, <4>1, ResizingFrom
    <3>3. x.kind = "item" /\ firer'[x.id] \notin Callers
      BY <2>1, <3>2
    <3>4. firer'[x.id] = firer[x.id]
      BY <1>2, <2>2, <3>3, QueuedItem, FirerFrom
    <3> QED
      BY <1>5, <2>2, <3>3, <3>4 DEF Urgent
  <2>3. CASE x \notin ToSet(queue[p])
    <3>1. pc(t) \in Putting /\ (x.kind = "chunk" \/ (pc(t) = "enqueue" /\ x = ItemWork(Top(t).item)))
      BY <2>1, <2>3, QueueFrom
    <3>2. CASE t \notin Callers
      <4>1. t \in Workers /\ Seeks(t, p)'
        BY <3>1, <3>2, LongerOn
      <4> QED
        BY <1>3, <4>1 DEF Sought
    <3>3. CASE t \in Callers
      <4>1. ~Resizing'
        <5>1. pc(t) # "idle" /\ pc(t) \notin StopPcs
          BY <3>1 DEF Putting, StopPcs
        <5>2. ASSUME NEW c \in Callers, pc(c) \in {"stop", "stop_wake"}
              PROVE  FALSE
          <6>1. c \in Threads /\ pc(c) \in StopPcs
            BY <5>2, MostIs DEF ShopInv, Typed, StopPcs
          <6>2. t # c => stack[t] = <<>>
            BY <3>3, <6>1, Stopping
          <6> QED
            BY <5>1, <6>1, <6>2 DEF pc
        <5>3. ~Resizing
          BY <5>2 DEF Resizing
        <5> QED
          BY <5>1, <5>3, ResizingFrom
      <4>2. x.kind = "item" /\ firer'[x.id] \notin Callers
        BY <2>1, <4>1
      <4>3. pc(t) = "enqueue" /\ x = ItemWork(Top(t).item)
        BY <3>1, <4>2
      <4>4. Top(t).item \in Items /\ firer[Top(t).item] = t /\ t # NoOne
        BY <4>3, Firing DEF FirePcs
      <4>5. x.id = Top(t).item
        BY <4>3, WorkShape
      <4>6. firer'[x.id] = t
        BY <1>2, <4>4, <4>5, FirerFrom
      <4> QED
        BY <3>3, <4>2, <4>6
    <3> QED
      BY <3>2, <3>3
  <2> QED
    BY <2>2, <2>3
<1> QED
  BY <1>4, <1>5

LEMMA MannedOn ==
  ASSUME WideEnough, ShopInv, Manned, NEW t \in Threads, Progress(t) \/ Call(t), pool' = pool
  PROVE  Manned'
<1>1. SUFFICES ASSUME pool' = 0, NEW i \in Items, Share("item", i, 0) \in InHand'
               PROVE  firer'[i] \in Callers
  BY DEF Manned
<1>2. PICK x : x = Share("item", i, 0)
  OBVIOUS
<1>3. pc(t) \notin FirePcs
  BY <1>1, Firing
<1>4. x \in InHand
  BY <1>1, <1>2, <1>3, ItemsFrom, ShareFields DEF FirePcs
<1>5. firer[i] \in Callers
  BY <1>1, <1>2, <1>4 DEF Manned
<1>6. firer[i] # NoOne /\ firer \in [Items -> Threads \cup {NoOne}]
  <2>1. ItemOK(i)
    BY DEF ShopInv
  <2> QED
    BY <1>2, <1>4, <2>1 DEF ItemOK, ShopInv, Typed
<1> QED
  BY <1>5, <1>6, FirerFrom

LEMMA LeavingOn ==
  ASSUME ShopInv, ShopInv', Nest, Exits, Flagged, NEW t \in Threads, Acts(t), pool' = pool,
         brexit' = brexit \/ pc(t) = "stop"
  PROVE  Exits' /\ Flagged'
<1>1. Workers' = Workers
  BY DEF Workers
<1>2. ASSUME pc(t) = "stop"
      PROVE  Shutting'
  <2>1. pc(t) \in StopPcs /\ pc(t) # "idle"
    BY <1>2 DEF StopPcs
  <2>2. t \in Callers
    BY <2>1, Stopping
  <2>3. PICK n : n = Len(stack[t])
    OBVIOUS
  <2>4. n \in Nat \ {0} /\ pc(t) = stack[t][n].pc
    BY <2>1, <2>3, Below1
  <2>5. Went(t, n) \/ Picked(t, n) \/ Begun(t, n) \/ Quit(t, n)
    BY <2>3, ActsIs
  <2>6. ~Picked(t, n) /\ ~Quit(t, n) /\ ~Begun(t, n)
    <3>1. ~Picked(t, n) /\ ~Quit(t, n)
      BY <1>2 DEF Picked, Quit
    <3>2. \A g : ~Upon(stack[t][n], g)
      BY <1>2, <2>4 DEF Upon
    <3> QED
      BY <2>4, <3>1, <3>2 DEF Begun
  <2>7. PICK f, g \in Frame : f = stack[t][n] /\ g = stack'[t][n] /\ Turned(f, g) /\ Len(stack'[t]) = n
    BY <2>5, <2>6 DEF Went
  <2>8. f.pc = "stop"
    BY <1>2, <2>4, <2>7
  <2>9. g.pc = "stop_wake"
    BY <2>7, <2>8 DEF Turned, RunPcs, FirePcs, SpreadPcs, PartPcs, BulkPcs, WorkerPcs
  <2>10. pc(t)' = g.pc
    BY <2>4, <2>7, TopNext
  <2> QED
    BY <2>2, <2>9, <2>10 DEF Shutting
<1>3. Flagged'
  BY <1>2, ShuttingOn DEF Flagged
<1>4. ASSUME NEW w \in Workers, pc(w)' = "gone"
      PROVE  Shutting'
  <2>1. pc(w) = "gone" \/ brexit
    BY <1>4, WorkersAre, GoneFrom
  <2>2. Shutting
    <3>1. pool # 0
      BY WorkersAre DEF Workers, ShopInv, Typed
    <3> QED
      BY <2>1, <3>1 DEF Exits, Flagged
  <2> QED
    BY <2>2, ShuttingOn
<1> QED
  BY <1>1, <1>3, <1>4 DEF Exits

LEMMA WorkersNext ==
  ASSUME ShopInv'
  PROVE  \A w \in Workers' : w \in Threads /\ w \notin Callers
<1>1. pool' \in Nat /\ pool' <= Most /\ Most \in Nat /\ NumCallers \in Nat
  BY MostIs, ShopAssumption DEF ShopInv, Typed
<1>2. \A n, m, c \in Nat : n <= m => \A w \in 0..(n - 1) : w \in 0..(m + c - 1) /\ w \notin m..(m + c - 1)
  BY SMT
<1>3. \A w \in 0..(pool' - 1) : w \in Threads /\ w \notin Callers
  BY <1>1, <1>2 DEF Threads, Callers
<1>4. Workers' = 0..(pool' - 1)
  BY DEF Workers
<1> QED
  BY <1>3, <1>4

\* A step that is not one of a stop is one of work, a call or a loop.
LEMMA ActsOf ==
  ASSUME ShopInv, ShopInv', Nest, NEW t \in Threads, Progress(t) \/ Call(t), ~StopStep(t)
  PROVE  Acts(t)
BY WorkerEffect, StealEffect, RunEffect, FireEffect, SpreadEffect, CallEffect DEF Progress

\* A worker is started.
LEMMA StartedDrains ==
  ASSUME ShopInv, ShopInv', DrainInv, NEW t \in Threads, CreateNext(t), Top(t).k < pool, InHand' = InHand
  PROVE  DrainInv'
<1>1. PICK f, k : f = Top(t) /\ k = Top(t).k
  OBVIOUS
<1>2. pc(t) = "create" /\ pc(t) \in StopPcs /\ pc(t) # "idle"
  BY DEF CreateNext, StopPcs
<1>3. f \in Frame /\ f.pc = pc(t) /\ t \in Callers /\ \A c \in Callers : c # t => stack[c] = <<>>
  BY <1>1, <1>2, StopAlone, Stopping
<1>4. k \in Nat
  BY <1>1, <1>2, <1>3, StopOn
<1>5. PICK g, h : g = [f EXCEPT !.k = @ + 1] /\ h = WorkerFrame("own")
  OBVIOUS
<1>6. /\ stack' = [stack EXCEPT ![t] = <<g>>, ![k] = <<h>>]
      /\ pool' = pool /\ queue' = queue /\ brexit' = brexit /\ firer' = firer
  BY <1>1, <1>5 DEF CreateNext, shared, history
<1>7. g.pc = "create" /\ h.pc = "own"
  BY <1>2, <1>3, <1>5, StopOn DEF WorkerFrame
<1>8. k \in Workers /\ k \in Threads /\ k \notin Callers
  <2>1. pool \in Nat
    BY DEF ShopInv, Typed
  <2>2. k < pool
    BY ONLY <1>1, Top(t).k < pool
  <2>3. k \in Workers
    BY ONLY <1>4, <2>1, <2>2 DEF Workers
  <2> QED
    BY <2>3, WorkersAre
<1>9. stack[k] = <<>>
  <2>1. \A w \in Threads : w \notin Callers /\ Top(t).k <= w => stack[w] = <<>>
    BY <1>2, <1>3 DEF ShopInv, StopOK
  <2> QED
    BY <1>1, <1>4, <1>8, <2>1
<1>10. \A u \in Threads : u # t /\ u # k => stack'[u] = stack[u]
  BY <1>6 DEF ShopInv, Typed
<1>11. stack'[t] = <<g>> /\ stack'[k] = <<h>>
  BY <1>3, <1>6, <1>8 DEF ShopInv, Typed
<1>12. pc(t)' = "create" /\ pc(k)' = "own"
  <2>1. Len(<<g>>) = 1 /\ <<g>>[1] = g /\ Len(<<h>>) = 1 /\ <<h>>[1] = h
    BY Tuples
  <2>2. PICK n \in Nat \ {0} : n = 1
    OBVIOUS
  <2>3. /\ n = Len(stack'[t]) /\ stack'[t][n] = g
        /\ n = Len(stack'[k]) /\ stack'[k][n] = h
    BY <1>11, <2>1, <2>2
  <2> QED
    BY <1>7, <2>2, <2>3, TopNext
<1>13. Callers \subseteq Threads
  BY MostIs DEF ShopInv, Typed
<1>14. \A c \in Callers : pc(c) \notin {"stop", "stop_wake", "stopped"}
  BY <1>2, <1>3 DEF pc
<1>15. \A c \in Callers : pc(c)' \notin {"stop", "stop_wake", "stopped"}
  <2>1. ASSUME NEW c \in Callers, c # t
        PROVE  pc(c)' = pc(c)
    BY <1>8, <1>10, <1>13, <2>1, SamePc
  <2> QED
    BY <1>12, <1>14, <2>1
<1>16. ~Shutting /\ ~Shutting' /\ ~Resizing /\ ~Resizing'
  BY <1>14, <1>15 DEF Shutting, Resizing
<1>17. Workers' = Workers
  BY <1>6 DEF Workers
<1>18. \A w \in Workers : w # k => pc(w)' = pc(w) /\ \A p : Seeks(w, p)' <=> Seeks(w, p)
  BY <1>3, <1>10, WorkersAre, SamePc
<1>19. Exits'
  BY <1>12, <1>16, <1>17, <1>18 DEF DrainInv, Exits
<1>20. Flagged'
  BY <1>6, <1>16 DEF DrainInv, Flagged
<1>21. Drains'
  <2>1. ASSUME NEW p \in Threads, Urgent(p)'
        PROVE  Sought(p)'
    <3>1. Urgent(p)
      BY <1>6, <1>16, <2>1 DEF Urgent
    <3>2. PICK w \in Workers : Seeks(w, p)
      BY <3>1 DEF DrainInv, Drains, Sought
    <3>3. w # k
      BY <1>9, <3>2 DEF Seeks
    <3> QED
      BY <1>17, <1>18, <3>2, <3>3 DEF Sought
  <2> QED
    BY <2>1 DEF Drains
<1>22. Manned'
  BY <1>6 DEF DrainInv, Manned
<1> QED
  BY <1>19, <1>20, <1>21, <1>22 DEF DrainInv

\* The pool is replaced.
LEMMA ReplacedDrains ==
  ASSUME ShopInv, ShopInv', DrainInv, NEW t \in Threads, StopJoin(t), Top(t).then # "stopped", InHand' = InHand
  PROVE  DrainInv'
<1>1. pc(t) = "stop_wake" /\ pc(t) \in StopPcs
  BY Zenon DEF StopJoin, StopPcs
<1>2. t \in Callers
  BY <1>1, Stopping
<1>3. /\ \A w \in Workers : pc(w) = "gone"
      /\ brexit' = (pool' = 0) /\ queue' = queue /\ firer' = firer
      /\ stack' = [p \in Threads |-> IF p \in Workers THEN <<>>
                                     ELSE IF p = t THEN <<StopFrame("create", "")>> ELSE stack[p]]
  BY Zenon DEF StopJoin, history
<1>4. Resizing
  BY <1>1, <1>2 DEF Resizing
<1>5. /\ \A i \in Items : Share("item", i, 0) \in InHand => firer[i] \in Callers
      /\ \A p \in Threads : queue[p] = <<>>
  BY Zenon, <1>1, <1>3, <1>4, NobodyLeft DEF DrainInv
<1>6. Drains'
  <2>1. ASSUME NEW p \in Threads
        PROVE  ~Urgent(p)'
    <3>1. queue'[p] = <<>> /\ queue'[p] \in Seq(Works)
      BY Zenon, <1>3, <1>5 DEF ShopInv, Typed
    <3>2. ToSet(queue'[p]) = {}
      BY <3>1, Members
    <3> QED
      BY <3>2 DEF Urgent
  <2> QED
    BY <2>1 DEF Drains
<1>7. Manned'
  BY Zenon, <1>3, <1>5 DEF Manned
<1>8. Flagged'
  BY Zenon, <1>3 DEF Flagged
<1>9. Exits'
  <2>1. ASSUME NEW w \in Threads, w \notin Callers
        PROVE  pc(w)' # "gone"
    <3>1. stack'[w] = <<>>
      <4>1. w # t
        BY <1>2, <2>1
      <4>2. CASE w \in Workers
        BY Zenon, <1>3, <4>2
      <4>3. CASE w \notin Workers
        <5>1. Len(stack[w]) \in Nat /\ stack[w] \in Seq(Frame)
          BY SMTT(20) DEF ShopInv, Typed
        <5>2. Len(stack[w]) # 0 => Fits(w, stack[w][1], 1, Len(stack[w]))
          <6>1. Len(stack[w]) # 0 => 1 \in 1..Len(stack[w])
            BY <5>1
          <6> QED
            BY <6>1 DEF ShopInv, StackOK
        <5>3. Len(stack[w]) = 0
          BY <2>1, <4>3, <5>2 DEF Fits
        <5>4. stack[w] = <<>>
          BY <5>1, <5>3, EmptySeq
        <5> QED
          BY Zenon, <1>3, <4>1, <4>3, <5>4
      <4> QED
        BY <4>2, <4>3
    <3> QED
      BY <3>1 DEF pc
  <2>2. \A w \in Workers' : w \in Threads /\ w \notin Callers
    BY WorkersNext
  <2> QED
    BY <2>1, <2>2 DEF Exits
<1> QED
  BY <1>6, <1>7, <1>8, <1>9 DEF DrainInv

LEMMA DrainKeeps ==
  ASSUME WideEnough, ShopInv, Nest, DrainInv, "look" \notin setup.faults, [Next]_vars
  PROVE  DrainInv'
<1>1. ShopInv'
  BY NextKeeps
<1>2. CASE UNCHANGED vars
  <2>1. /\ stack' = stack /\ queue' = queue /\ pool' = pool /\ brexit' = brexit /\ firer' = firer
    BY <1>2 DEF vars, shared, history
  <2>2. (\A u : pc(u)' = pc(u) /\ Top(u)' = Top(u)) /\ Workers' = Workers /\ Callers' = Callers
    BY <2>1 DEF pc, Top, Workers
  <2>3. \A f, p : Looks(f, p)' <=> Looks(f, p)
    BY DEF Looks
  <2>4. InHand' = InHand
    BY <2>1 DEF InHand, Waiting, Claimed, Queues
  <2>5. Shutting' = Shutting /\ Resizing' = Resizing
    BY <2>1, <2>2 DEF Shutting, Resizing
  <2>6. \A p : (Urgent(p)' <=> Urgent(p)) /\ (Sought(p)' <=> Sought(p))
    BY <2>1, <2>2, <2>3, <2>5 DEF Urgent, Sought, Seeks
  <2> QED
    BY <2>1, <2>2, <2>4, <2>5, <2>6 DEF DrainInv, Exits, Flagged, Drains, Manned
<1>3. CASE Next
  <2>1. PICK t \in Threads : Progress(t) \/ Call(t)
    BY <1>3 DEF Next
  <2>2. CASE Acts(t) /\ pool' = pool /\ (brexit' = brexit \/ pc(t) = "stop")
    BY <1>1, <2>1, <2>2, DrainsOn, MannedOn, LeavingOn DEF DrainInv
  <2>3. CASE StopStep(t)
    <3>1. InHand' = InHand
      BY <2>3, StopStepKeeps
    <3>2. CASE CreateNext(t) /\ Top(t).k < pool
      BY <1>1, <3>1, <3>2, StartedDrains
    <3>3. CASE StopJoin(t) /\ Top(t).then # "stopped"
      BY <1>1, <3>1, <3>3, ReplacedDrains
    <3> QED
      BY <1>1, <2>2, <2>3, <3>2, <3>3, StopCases
  <2>4. CASE ~StopStep(t)
    <3>1. pool' = pool /\ brexit' = brexit
      BY <2>1, <2>4, PoolFrom
    <3>2. Acts(t)
      BY <1>1, <2>1, <2>4, ActsOf
    <3> QED
      BY <2>2, <3>1, <3>2
  <2> QED
    BY <2>3, <2>4
<1> QED
  BY <1>2, <1>3

LEMMA DrainStart ==
  ASSUME Init
  PROVE  DrainInv
<1>1. ShopInv /\ InHand = {}
  BY InitKeeps
<1>2. \A t \in Threads : pc(t) \in {"own", "idle"}
  <2>1. PICK h : h = WorkerFrame("own")
    OBVIOUS
  <2>2. h.pc = "own"
    BY <2>1 DEF WorkerFrame
  <2>3. ASSUME NEW t \in Threads
        PROVE  pc(t) \in {"own", "idle"}
    <3>1. stack[t] \in {<<h>>, <<>>}
      BY <2>1 DEF Init
    <3>2. Len(<<h>>) = 1 /\ <<h>>[1] = h
      BY Tuples
    <3> QED
      BY <2>2, <3>1, <3>2 DEF pc, Top
  <2> QED
    BY <2>3
<1>3. Exits
  BY <1>1, <1>2, WorkersAre DEF Exits
<1>4. Flagged
  BY DEF Init, Flagged
<1>5. \A p \in Threads : ~Urgent(p)
  <2>1. ASSUME NEW p \in Threads
        PROVE  ToSet(queue[p]) = {}
    <3>1. queue[p] = <<>> /\ queue[p] \in Seq(Works)
      BY <1>1 DEF Init, ShopInv, Typed
    <3> QED
      BY <3>1, Members
  <2> QED
    BY <2>1 DEF Urgent
<1>6. Drains
  BY <1>5 DEF Drains
<1>7. Manned
  BY <1>1 DEF Manned
<1> QED
  BY <1>3, <1>4, <1>6, <1>7 DEF DrainInv

LEMMA DrainedFollows ==
  ASSUME ShopInv, DrainInv
  PROVE  NestedFiresDrained
<1>1. SUFFICES ASSUME \A w \in Workers : pc(w) = "gone", NEW i \in accepted, firer[i] \notin Callers
               PROVE  ran[i] = 1
  BY DEF NestedFiresDrained
<1>2. i \in Items
  BY DEF ShopInv, Typed
<1>3. ran[i] = 1 \/ Share("item", i, 0) \in InHand
  <2>1. ItemOK(i)
    BY <1>2 DEF ShopInv
  <2> QED
    BY <2>1 DEF ItemOK
<1>4. ASSUME Share("item", i, 0) \in InHand
      PROVE  FALSE
  <2>1. pool \in Nat \ {0}
    BY <1>1, <1>2, <1>4 DEF DrainInv, Manned, ShopInv, Typed
  <2>2. 0 \in Workers
    BY <2>1 DEF Workers
  <2>3. PICK c \in Callers : pc(c) \in {"stop_wake", "stopped"}
    BY <1>1, <2>2 DEF DrainInv, Exits, Shutting
  <2>4. c \in Threads /\ pc(c) \in StopPcs
    BY <2>3, MostIs DEF ShopInv, Typed, StopPcs
  <2> QED
    BY <1>1, <1>2, <1>4, <2>4, NobodyLeft DEF DrainInv
<1> QED
  BY <1>3, <1>4

\* An item that work on the pool fires is run before the pool is gone: the worker that runs
\* the work has its loop below it, and the loop leaves only after a walk past empty queues.
\* A consumer that may see a full queue as empty would break that.
THEOREM NestedDrained ==
  ASSUME WideEnough, \A s \in Setups : "look" \notin s.faults
  PROVE  SafeSpec => []NestedFiresDrained
<1>1. ShopInv => "look" \notin setup.faults
  BY DEF ShopInv, Typed
<1>2. Init => DrainInv
  BY DrainStart
<1>3. ASSUME ShopInv /\ Nest, DrainInv, [Next]_vars
      PROVE  DrainInv'
  BY <1>1, <1>3, DrainKeeps
<1>4. ShopInv /\ Nest /\ DrainInv => NestedFiresDrained
  BY DrainedFollows
<1> QED
  BY <1>2, <1>3, <1>4, NestInvariance, PTL DEF SafeSpec

--------------------------------------------------------------------------------
(* No work is left in a queue with nobody awake who will look into it *)

\* A thread that will look into the queue p before it waits for anything else.
Willing(t, p) == \E i \in 1..Len(stack[t]) :
                   Eager(stack[t][i], p) /\ \A j \in i..Len(stack[t]) : ~Blocks(stack[t][j], p)

\* A worker that is yet to be started, or gone, counts as one who looks.
Cares(t, p) == \/ t \in Workers /\ (stack[t] = <<>> \/ pc(t) = "gone" \/ Seeks(t, p))
               \/ pc(t) \in Waking
               \/ Willing(t, p)

Tended == \A p \in Threads : queue[p] # <<>> => Alert \/ \E t \in Threads : Cares(t, p)

LEMMA WillingNext ==
  ASSUME NEW t, NEW p, NEW i \in 1..Len(stack'[t]), Eager(stack'[t][i], p),
         \A j \in i..Len(stack'[t]) : ~Blocks(stack'[t][j], p)
  PROVE  Willing(t, p)'
<1>1. \A f : (Eager(f, p)' <=> Eager(f, p)) /\ (Blocks(f, p)' <=> Blocks(f, p))
  BY DEF Eager, Blocks
<1> QED
  BY <1>1 DEF Willing

LEMMA SameCares ==
  ASSUME NEW t, stack'[t] = stack[t], pool' = pool, NEW p, Cares(t, p)
  PROVE  Cares(t, p)'
<1>1. /\ Workers' = Workers /\ pc(t)' = pc(t) /\ (Seeks(t, p)' <=> Seeks(t, p))
  BY SamePc DEF Workers
<1>2. Willing(t, p) => Willing(t, p)'
  BY WillingNext DEF Willing
<1> QED
  BY <1>1, <1>2 DEF Cares

\* A thread that will look does so, or goes on being willing to.
LEMMA WillingOn ==
  ASSUME ShopInv, ShopInv', Nest, NEW t \in Threads, Acts(t), setup.faults \cap {"look", "bulk"} = {},
         NEW p \in Threads, queue[p] # <<>>, Willing(t, p), ~Alert'
  PROVE  Willing(t, p)'
<1>1. PICK n : n = Len(stack[t])
  OBVIOUS
<1>2. n \in Nat
  BY <1>1, IdleIs
<1>3. Went(t, n) \/ Picked(t, n) \/ Begun(t, n) \/ Quit(t, n)
  BY <1>1, ActsIs
<1>4. PICK i \in 1..n : Eager(stack[t][i], p) /\ \A j \in i..n : ~Blocks(stack[t][j], p)
  BY <1>1 DEF Willing
<1>5. ASSUME Keeps(t, n - 1), NEW f, NEW g, f = stack[t][n], g = stack'[t][n], Keen(f, g)
      PROVE  Eager(stack'[t][i], p) /\ \A j \in i..n : ~Blocks(stack'[t][j], p)
  <2>1. (Eager(f, p) => Eager(g, p)) /\ (Blocks(g, p) => Blocks(f, p))
    BY <1>5 DEF Keen
  <2>2. \A j \in 1..n : j = n \/ j \in 1..(n - 1)
    BY <1>2
  <2>3. \A j \in 1..n : j # n => stack'[t][j] = stack[t][j]
    BY <1>5, <2>2 DEF Keeps
  <2>4. \A j \in i..n : j \in 1..n
    BY <1>2
  <2> QED
    BY <1>2, <1>4, <1>5, <2>1, <2>3, <2>4
<1>6. CASE Went(t, n)
  <2>1. /\ Len(stack'[t]) = n /\ Keeps(t, n - 1)
        /\ \E f, g \in Frame : f = stack[t][n] /\ g = stack'[t][n] /\ Keen(f, g)
    BY <1>6 DEF Went
  <2> QED
    BY <1>5, <2>1, WillingNext
<1>7. CASE Picked(t, n)
  <2>1. PICK h : /\ Len(stack'[t]) = n + 1 /\ Keeps(t, n - 1) /\ h = stack'[t][n + 1] /\ h.pc = "body"
                 /\ \E f, g \in Frame : f = stack[t][n] /\ g = stack'[t][n] /\ Keen(f, g)
    BY <1>7 DEF Picked
  <2>2. Eager(stack'[t][i], p) /\ \A j \in i..n : ~Blocks(stack'[t][j], p)
    BY <1>5, <2>1
  <2>3. ~Blocks(h, p)
    BY <2>1 DEF Blocks
  <2>4. i \in 1..(n + 1) /\ \A j \in i..(n + 1) : j \in i..n \/ j = n + 1
    BY <1>2
  <2> QED
    BY <2>1, <2>2, <2>3, <2>4, WillingNext
<1>8. CASE Begun(t, n)
  <2>1. PICK h : /\ Len(stack'[t]) = n + 1 /\ Keeps(t, n) /\ h = stack'[t][n + 1]
                 /\ h.pc \in {"body", "target", "look", "stop"}
    BY <1>8 DEF Begun
  <2>2. ~Blocks(h, p)
    BY <2>1 DEF Blocks
  <2>3. i \in 1..(n + 1) /\ \A j \in i..(n + 1) : j \in i..n \/ j = n + 1
    BY <1>2
  <2>4. stack'[t][i] = stack[t][i] /\ \A j \in i..n : stack'[t][j] = stack[t][j]
    <3>1. \A j \in i..n : j \in 1..n
      BY <1>2
    <3> QED
      BY <2>1, <3>1 DEF Keeps
  <2> QED
    BY <1>4, <2>1, <2>2, <2>3, <2>4, WillingNext
<1>9. CASE Quit(t, n)
  <2>1. /\ Len(stack'[t]) = n - 1 /\ Keeps(t, n - 1)
        /\ stack[t][n].pc \in {"completed", "track", "return", "create"}
    BY <1>9 DEF Quit
  <2>2. i # n
    BY <1>4, <2>1 DEF Eager, PartPcs
  <2>3. i \in 1..(n - 1) /\ \A j \in i..(n - 1) : j \in i..n /\ j \in 1..(n - 1)
    BY <1>2, <2>2
  <2>4. stack'[t][i] = stack[t][i] /\ \A j \in i..(n - 1) : stack'[t][j] = stack[t][j]
    BY <2>1, <2>3 DEF Keeps
  <2> QED
    BY <1>4, <2>1, <2>3, <2>4, WillingNext
<1> QED
  BY <1>3, <1>6, <1>7, <1>8, <1>9

\* Who is about to send a wake-up still is, or has sent it.
LEMMA WakingOn ==
  ASSUME ShopInv, ShopInv', Nest, NEW t \in Threads, Acts(t), setup.faults \cap {"look", "bulk"} = {},
         NEW p \in Threads, queue[p] # <<>>, pc(t) \in Waking, ~Alert'
  PROVE  pc(t)' \in Waking
<1>1. PICK n : n = Len(stack[t])
  OBVIOUS
<1>2. Went(t, n) \/ Picked(t, n) \/ Begun(t, n) \/ Quit(t, n)
  BY <1>1, ActsIs
<1>3. pc(t) # "idle"
  BY DEF Waking
<1>4. n \in Nat \ {0} /\ pc(t) = stack[t][n].pc
  BY <1>1, <1>3, Below1
<1>5. ~Picked(t, n) /\ ~Quit(t, n)
  BY DEF Waking, Picked, Quit
<1>6. ~Begun(t, n)
  <2>1. \A g : ~Upon(stack[t][n], g)
    BY <1>4 DEF Upon, Waking
  <2> QED
    BY <1>4, <2>1 DEF Begun
<1>7. /\ n = Len(stack'[t]) /\ Keen(stack[t][n], stack'[t][n])
  BY <1>2, <1>5, <1>6 DEF Went
<1>8. stack'[t][n].pc \in Waking
  BY <1>4, <1>7 DEF Keen
<1> QED
  BY <1>4, <1>7, <1>8, TopNext

LEMMA CaresOn ==
  ASSUME ShopInv, ShopInv', Nest, NEW t \in Threads, Acts(t), setup.faults \cap {"look", "bulk"} = {},
         pool' = pool, NEW p \in Threads, queue[p] # <<>>, NEW u \in Threads, Cares(u, p), ~Alert'
  PROVE  Cares(u, p)'
<1>1. PICK n : n = Len(stack[t])
  OBVIOUS
<1>2. /\ \A v \in Threads : v # t => stack'[v] = stack[v]
      /\ Went(t, n) \/ Picked(t, n) \/ Begun(t, n) \/ Quit(t, n)
  BY <1>1, ActsIs
<1>3. CASE u # t
  BY <1>2, <1>3, SameCares
<1>4. CASE u = t
  <2>1. Workers' = Workers
    BY DEF Workers
  <2>2. CASE Willing(t, p)
    BY <1>4, <2>2, WillingOn DEF Cares
  <2>3. CASE pc(t) \in Waking
    BY <1>4, <2>3, WakingOn DEF Cares
  <2>4. CASE t \in Workers /\ Seeks(t, p)
    <3>1. Seeks(t, p)'
      BY <2>4, WorkersAre, SeeksOn
    <3> QED
      BY <1>4, <2>1, <2>4, <3>1 DEF Cares
  <2>5. CASE t \in Workers /\ stack[t] = <<>>
    <3>1. n = 0 /\ pc(t) = "idle" /\ t \notin Callers
      BY <1>1, <2>5, WorkersAre DEF pc
    <3>2. Begun(t, n)
      BY <1>2, <3>1 DEF Went, Picked, Quit
    <3>3. Len(stack'[t]) = 1 /\ stack'[t][1].pc \in {"body", "target", "look", "stop"}
      BY <3>1, <3>2 DEF Begun
    <3>4. stack' \in [Threads -> Seq(Frame)] /\ 1 \in 1..Len(stack'[t])
      BY <3>3 DEF ShopInv, Typed
    <3>5. \A i \in 1..Len(stack'[t]) : i = 1 => stack'[t][i].pc \in WorkerPcs
      <4>1. StackOK(t)'
        BY DEF ShopInv
      <4> QED
        BY <3>1, <4>1 DEF StackOK, Fits
    <3>6. stack'[t][1].pc \in WorkerPcs
      BY <3>4, <3>5
    <3> QED
      BY <3>3, <3>6 DEF WorkerPcs
  <2>6. CASE t \in Workers /\ pc(t) = "gone"
    <3>1. pc(t) # "idle"
      BY <2>6
    <3>2. n \in Nat \ {0} /\ pc(t) = stack[t][n].pc
      BY <1>1, <3>1, Below1
    <3>3. ~Went(t, n) /\ ~Picked(t, n) /\ ~Quit(t, n)
      BY <2>6 DEF Went, Picked, Quit
    <3>4. ~Begun(t, n)
      <4>1. \A g : ~Upon(stack[t][n], g)
        BY <2>6, <3>2 DEF Upon
      <4> QED
        BY <3>2, <4>1 DEF Begun
    <3> QED
      BY <1>2, <3>3, <3>4
  <2> QED
    BY <1>4, <2>2, <2>3, <2>4, <2>5, <2>6 DEF Cares
<1> QED
  BY <1>3, <1>4

\* Only a worker that wakes up takes a token away.
LEMMA TokensFrom ==
  ASSUME ShopInv, NEW t \in Threads, Progress(t) \/ Call(t), pool' = pool, Alert, ~Alert'
  PROVE  Wait(t)
<1>1. PICK w \in Workers : tokens[w] > 0
  BY DEF Alert
<1>2. w \in 0..(Most - 1) /\ tokens \in [0..(Most - 1) -> Nat]
  <2>1. pool \in Nat /\ pool <= Most /\ Most \in Nat
    BY MostIs DEF ShopInv, Typed
  <2> QED
    BY <2>1 DEF Workers, ShopInv, Typed
<1>3. Workers' = Workers
  BY DEF Workers
<1>4. tokens' # tokens
  BY <1>1, <1>3 DEF Alert
<1>5. ASSUME NEW v, Notify(v)
      PROVE  FALSE
  <2>1. tokens'[w] = IF w = v THEN tokens[w] + 1 ELSE tokens[w]
    BY <1>2, <1>5 DEF Notify
  <2>2. tokens'[w] > 0
    BY <1>1, <1>2, <2>1
  <2> QED
    BY <1>1, <1>3, <2>2 DEF Alert
<1>6. ~Call(t)
  BY <1>4 DEF Call, FireCall, SpreadCall, StopCall, ResizeCall
<1>7. WorkerStep(t) => Wait(t)
  BY <1>4, <1>5 DEF WorkerStep, OwnDequeue, ExitCheck, Woken, WakeLeft, WakeRight
<1>8. ~(StealTake(t) \/ StealLook(t) \/ StealEnds(t) \/ RunStep(t))
  BY <1>4 DEF StealTake, StealLook, StealEnds, RunStep, FinishBody, WorkCompleted
<1>9. ~FireStep(t)
  BY <1>4, <1>5 DEF FireStep, FireTarget, FireSpill, FireEnqueue, FireNotify, FireCount, FireTrack
<1>10. ~SpreadStep(t)
  BY <1>4, <1>5 DEF SpreadStep, SpreadLook, PartCount, PartEnqueue, PartNotify, BulkInit, BulkEnqueue, BulkWake,
                    BulkUndo, CallerWork, CallerWaits, Join, SpreadReturn
<1>11. ~StopStep(t)
  BY <1>4, <1>5 DEF StopStep, StopFlag, StopWake, StopJoin, CreateNext
<1> QED
  BY <1>6, <1>7, <1>8, <1>9, <1>10, <1>11 DEF Progress

LEMMA AlertOn ==
  ASSUME ShopInv, ShopInv', Nest, NEW t \in Threads, Progress(t) \/ Call(t), Acts(t), pool' = pool,
         Alert, ~Alert', NEW p
  PROVE  Cares(t, p)'
<1>1. Wait(t)
  BY TokensFrom
<1>2. PICK n, g : n = Len(stack[t]) /\ g = [Top(t) EXCEPT !.pc = "woken"]
  OBVIOUS
<1>3. pc(t) = "wait" /\ Goto(t, g) /\ pc(t) # "idle"
  BY <1>1, <1>2 DEF Wait, GotoPc
<1>4. n \in Nat \ {0} /\ On(t, n, Top(t)) /\ Top(t) = stack[t][n] /\ pc(t) = Top(t).pc
  BY <1>2, <1>3, Below1
<1>5. n = 1 /\ t \in Workers
  BY <1>2, <1>3, <1>4, EveryFrame DEF Fits, WorkerPcs
<1>6. stack \in [Threads -> Seq(Frame)] /\ stack' \in [Threads -> Seq(Frame)]
  BY DEF ShopInv, Typed
<1>7. g \in Frame
  BY <1>3, <1>6, Came
<1>8. g.pc = "woken"
  <2>1. Top(t) \in Frame /\ Top(t).pc \in WorkerPcs
    BY <1>3, <1>4, EveryFrame DEF WorkerPcs
  <2> QED
    BY Zenon, <1>2, <2>1, WorkerShape DEF StealRec
<1>9. PICK G : G = <<g>>
  OBVIOUS
<1>10. Len(G) = 1 /\ G[1] = g
  BY <1>9, Tuples
<1>11. Shift(Frame, Threads, stack, stack', t, n - 1, G)
  BY <1>2, <1>3, <1>6, <1>7, <1>9, Turns
<1>12. Len(stack'[t]) = 1 /\ stack'[t][1] = g
  BY <1>5, <1>10, <1>11 DEF Shift
<1>13. Seeks(t, p)'
  <2>1. \A f : Looks(f, p)' <=> Looks(f, p)
    BY DEF Looks
  <2> QED
    BY <1>8, <1>12, <2>1 DEF Seeks, Looks
<1> QED
  BY <1>5, <1>13 DEF Cares, Workers

\* Who puts work into an empty queue is about to wake somebody, or is willing itself.
LEMMA AddedOn ==
  ASSUME ShopInv, ShopInv', Nest, NEW t \in Threads, Acts(t),
         NEW p \in Threads, queue[p] = <<>>, queue'[p] # <<>>
  PROVE  Cares(t, p)'
<1>1. PICK n : n = Len(stack[t])
  OBVIOUS
<1>2. Went(t, n) \/ Picked(t, n) \/ Begun(t, n) \/ Quit(t, n)
  BY <1>1, ActsIs
<1>3. n \in Nat
  BY <1>1, IdleIs
<1>4. Went(t, n)
  BY <1>2 DEF Picked, Begun, Quit, NoneAdded
<1>5. PICK g : n # 0 /\ n = Len(stack'[t]) /\ g = stack'[t][n] /\ Hurries(g)
  BY <1>4 DEF Went
<1>6. g.pc \in Waking \/ Eager(g, p)
  BY <1>5 DEF Hurries
<1>7. CASE g.pc \in Waking
  <2>1. pc(t)' = g.pc
    BY <1>3, <1>5, TopNext
  <2> QED
    BY <1>7, <2>1 DEF Cares
<1>8. CASE Eager(g, p)
  <2>1. ~Blocks(g, p)
    BY <1>8 DEF Eager, Blocks, PartPcs
  <2>2. n \in 1..n /\ \A j \in n..n : j = n
    BY <1>3, <1>5
  <2>3. Willing(t, p)'
    BY <1>5, <1>8, <2>1, <2>2, WillingNext
  <2> QED
    BY <2>3 DEF Cares
<1> QED
  BY <1>6, <1>7, <1>8

LEMMA TendedOn ==
  ASSUME ShopInv, ShopInv', Nest, Tended, setup.faults \cap {"look", "bulk"} = {},
         NEW t \in Threads, Progress(t) \/ Call(t), Acts(t), pool' = pool
  PROVE  Tended'
<1>1. SUFFICES ASSUME NEW p \in Threads, queue'[p] # <<>>, ~Alert'
               PROVE  \E u \in Threads : Cares(u, p)'
  BY DEF Tended
<1>2. CASE queue[p] = <<>>
  BY <1>1, <1>2, AddedOn
<1>3. CASE queue[p] # <<>> /\ Alert
  BY <1>1, <1>3, AlertOn
<1>4. CASE queue[p] # <<>> /\ ~Alert
  <2>1. PICK u \in Threads : Cares(u, p)
    BY <1>4 DEF Tended
  <2>2. Cares(u, p)'
    BY <1>1, <1>4, <2>1, CaresOn
  <2> QED
    BY <2>2
<1> QED
  BY <1>2, <1>3, <1>4

LEMMA StartedTended ==
  ASSUME ShopInv, ShopInv', Tended, NEW t \in Threads, CreateNext(t), Top(t).k < pool
  PROVE  Tended'
<1>1. PICK f, k : f = Top(t) /\ k = Top(t).k
  OBVIOUS
<1>2. pc(t) = "create" /\ pc(t) \in StopPcs /\ pc(t) # "idle"
  BY DEF CreateNext, StopPcs
<1>3. f \in Frame /\ f.pc = pc(t) /\ t \in Callers
  BY <1>1, <1>2, StopAlone, Stopping
<1>4. k \in Nat
  BY <1>1, <1>2, <1>3, StopOn
<1>5. PICK h : h = WorkerFrame("own")
  OBVIOUS
<1>6. k \in Workers /\ k \in Threads /\ k \notin Callers
  <2>1. pool \in Nat
    BY DEF ShopInv, Typed
  <2>2. k < pool
    BY ONLY <1>1, Top(t).k < pool
  <2>3. k \in Workers
    BY ONLY <1>4, <2>1, <2>2 DEF Workers
  <2> QED
    BY <2>3, WorkersAre
<1>7. /\ stack'[k] = <<h>>
      /\ \A u \in Threads : u # t /\ u # k => stack'[u] = stack[u]
      /\ pool' = pool /\ queue' = queue /\ tokens' = tokens
  BY <1>1, <1>3, <1>5, <1>6 DEF CreateNext, ShopInv, Typed
<1>8. Workers' = Workers /\ (Alert' <=> Alert)
  BY <1>7 DEF Workers, Alert
<1>9. ASSUME NEW p
      PROVE  Cares(k, p)'
  <2>1. Len(stack'[k]) = 1 /\ stack'[k][1] = h /\ h.pc = "own"
    BY <1>5, <1>7, Tuples DEF WorkerFrame
  <2>2. \A g : Looks(g, p)' <=> Looks(g, p)
    BY DEF Looks
  <2>3. Seeks(k, p)'
    BY <2>1, <2>2 DEF Seeks, Looks
  <2> QED
    BY <1>6, <1>8, <2>3 DEF Cares
<1>10. ASSUME NEW p, Cares(t, p)
       PROVE  FALSE
  <2>1. Len(stack[t]) = 1 /\ stack[t][1] = Top(t)
    BY <1>2, StopAlone
  <2>2. t \notin Workers
    BY <1>3, WorkersAre
  <2>3. ~Willing(t, p)
    BY <1>1, <1>2, <1>3, <2>1 DEF Willing, Eager, PartPcs
  <2> QED
    BY <1>2, <1>10, <2>2, <2>3 DEF Cares, Waking
<1>11. ASSUME NEW p \in Threads, queue[p] # <<>>, ~Alert
       PROVE  \E u \in Threads : Cares(u, p)'
  <2>1. PICK u \in Threads : Cares(u, p)
    BY <1>11 DEF Tended
  <2>2. u # t
    BY <1>10, <2>1
  <2>3. CASE u = k
    BY <1>9, <2>3
  <2>4. CASE u # k
    <3>1. stack'[u] = stack[u]
      BY <1>7, <2>2, <2>4
    <3> QED
      BY <1>7, <2>1, <3>1, SameCares
  <2> QED
    BY <2>3, <2>4
<1> QED
  BY <1>7, <1>8, <1>11 DEF Tended

LEMMA TendedKeeps ==
  ASSUME WideEnough, ShopInv, Nest, DrainInv, Tended, setup.faults \cap {"look", "bulk"} = {}, [Next]_vars
  PROVE  Tended'
<1>1. ShopInv'
  BY NextKeeps
<1>2. CASE UNCHANGED vars
  <2>1. stack' = stack /\ queue' = queue /\ pool' = pool /\ tokens' = tokens
    BY <1>2 DEF vars
  <2>2. Alert' <=> Alert
    BY <2>1 DEF Alert, Workers
  <2>3. \A u \in Threads : \A p : Cares(u, p) => Cares(u, p)'
    BY <2>1, SameCares
  <2> QED
    BY <2>1, <2>2, <2>3 DEF Tended
<1>3. CASE Next
  <2>1. PICK t \in Threads : Progress(t) \/ Call(t)
    BY <1>3 DEF Next
  <2>2. CASE Acts(t) /\ pool' = pool
    BY <1>1, <2>1, <2>2, TendedOn
  <2>3. CASE CreateNext(t) /\ Top(t).k < pool
    BY <1>1, <2>3, StartedTended
  <2>4. CASE StopJoin(t) /\ Top(t).then # "stopped"
    <3>1. pc(t) = "stop_wake" /\ pc(t) \in StopPcs /\ queue' = queue /\ \A w \in Workers : pc(w) = "gone"
      BY Zenon, <2>4 DEF StopJoin, StopPcs
    <3>2. t \in Callers
      BY <3>1, Stopping
    <3>3. Resizing
      BY <2>4, <3>1, <3>2 DEF Resizing
    <3>4. \A p \in Threads : queue[p] = <<>>
      BY <3>1, <3>3, NobodyLeft DEF DrainInv
    <3> QED
      BY <3>1, <3>4 DEF Tended
  <2>5. CASE StopStep(t)
    BY <1>1, <2>2, <2>3, <2>4, <2>5, StopCases
  <2>6. CASE ~StopStep(t)
    <3>1. pool' = pool
      BY <2>1, <2>6, PoolFrom
    <3>2. Acts(t)
      BY <1>1, <2>1, <2>6, ActsOf
    <3> QED
      BY <2>2, <3>1, <3>2
  <2> QED
    BY <2>5, <2>6
<1> QED
  BY <1>2, <1>3

\* A thread that is neither a worker nor a user's has nothing to do.
LEMMA OutsideIdle ==
  ASSUME ShopInv, NEW t \in Threads, t \notin Workers, t \notin Callers
  PROVE  pc(t) = "idle"
<1>1. PICK n : n = Len(stack[t])
  OBVIOUS
<1>2. n \in Nat /\ (n # 0 <=> pc(t) # "idle")
  BY <1>1, IdleIs
<1>3. ASSUME n # 0
      PROVE  FALSE
  <2>1. 1 \in 1..Len(stack[t])
    BY <1>1, <1>2, <1>3
  <2>2. Fits(t, stack[t][1], 1, Len(stack[t]))
    BY <2>1 DEF ShopInv, StackOK
  <2> QED
    BY <2>2 DEF Fits
<1> QED
  BY <1>2, <1>3

\* At rest nobody cares, so nothing is left.
LEMMA RestIsEmpty ==
  ASSUME ShopInv, Tended, Stuck
  PROVE  \A p \in Threads : queue[p] = <<>>
<1>1. ~Alert
  <2>1. \A w \in Workers : tokens[w] = 0
    BY DEF Stuck, Asleep
  <2> QED
    BY <2>1 DEF Alert
<1>2. ASSUME NEW t \in Threads, NEW p, Cares(t, p)
      PROVE  FALSE
  <2>1. PICK n : n = Len(stack[t])
    OBVIOUS
  <2>2. CASE t \in Workers
    <3>1. pc(t) = "wait" /\ pc(t) # "idle"
      BY <2>2 DEF Stuck, Asleep
    <3>2. n \in Nat \ {0} /\ On(t, n, Top(t)) /\ Top(t) = stack[t][n] /\ pc(t) = Top(t).pc
      BY <2>1, <3>1, Below1
    <3>3. n = 1
      BY <2>1, <3>1, <3>2, EveryFrame DEF Fits, WorkerPcs
    <3>4. ~Seeks(t, p)
      BY <2>1, <3>1, <3>2, <3>3 DEF Seeks, Looks
    <3>5. ~Willing(t, p)
      BY <2>1, <3>1, <3>2, <3>3 DEF Willing, Eager, PartPcs
    <3>6. stack[t] # <<>>
      BY <3>1 DEF pc
    <3> QED
      BY <1>2, <3>1, <3>4, <3>5, <3>6 DEF Cares, Waking
  <2>3. CASE t \notin Workers
    <3>1. n \in Nat /\ (n # 0 <=> pc(t) # "idle")
      BY <2>1, IdleIs
    <3>2. Willing(t, p) /\ n # 0
      <4>1. pc(t) \notin Waking
        <5>1. CASE t \in Callers
          BY <5>1 DEF Stuck, Joins, Waking
        <5>2. CASE t \notin Callers
          BY <2>3, <5>2, OutsideIdle DEF Waking
        <5> QED
          BY <5>1, <5>2
      <4>2. Willing(t, p)
        BY <1>2, <2>3, <4>1 DEF Cares
      <4> QED
        BY <2>1, <3>1, <4>2 DEF Willing
    <3>3. t \in Callers /\ pc(t) = "join"
      <4>1. pc(t) # "idle"
        BY <3>1, <3>2
      <4>2. t \in Callers
        BY <2>3, <4>1, OutsideIdle
      <4> QED
        BY <4>1, <4>2 DEF Stuck, Joins
    <3>4. pc(t) = stack[t][n].pc
      BY <2>1, <3>1, <3>2, Below1
    <3>5. \A i \in 1..n : n \in i..n
      BY <3>1
    <3>6. Blocks(stack[t][n], p)
      BY <3>3, <3>4 DEF Blocks
    <3> QED
      BY <2>1, <3>2, <3>5, <3>6 DEF Willing
  <2> QED
    BY <2>2, <2>3
<1> QED
  BY <1>1, <1>2 DEF Tended

\* A spread that is called by a chunk has to return before the chunk's own spread does: the
\* spreads can be ranked by that.
Ranks(r, f, g) == f.pc = "body" /\ f.work.kind = "chunk" /\ g.pc \in SpreadPcs => r[g.id] < r[f.work.id]

Orders(r) == \A u \in Threads : \A i, j \in 1..Len(stack[u]) : i < j => Ranks(r, stack[u][i], stack[u][j])

Ranked == \E r \in [Spreads -> Nat] : Orders(r)

LEMMA RankedNext ==
  ASSUME NEW r \in [Spreads -> Nat],
         \A u \in Threads : \A i, j \in 1..Len(stack'[u]) : i < j => Ranks(r, stack'[u][i], stack'[u][j])
  PROVE  Ranked'
<1>1. \A f, g : Ranks(r, f, g)' <=> Ranks(r, f, g)
  BY DEF Ranks
<1>2. Orders(r)'
  BY <1>1 DEF Orders
<1> QED
  BY <1>2 DEF Ranked

\* A frame that goes on is that of the same spread.
LEMMA RanksTurned ==
  ASSUME NEW r, NEW e, NEW f \in Frame, NEW g \in Frame, Turned(f, g), Ranks(r, e, f)
  PROVE  Ranks(r, e, g)
<1>1. g.pc \in SpreadPcs => f.pc \in SpreadPcs /\ g.id = f.id
  BY Kinds DEF Turned, StopPcs
<1> QED
  BY <1>1 DEF Ranks

\* A chunk that runs is of a spread that has been called.
LEMMA ChunkCalled ==
  ASSUME ShopInv, NEW u \in Threads, NEW i \in 1..Len(stack[u]), stack[u][i].pc = "body",
         stack[u][i].work.kind = "chunk"
  PROVE  stack[u][i].work.id \in Spreads /\ calls[stack[u][i].work.id] = "active"
<1>1. stack[u] \in Seq(Frame)
  BY DEF ShopInv, Typed
<1>2. PICK f : f = stack[u][i] /\ f \in Frame
  BY <1>1
<1>3. f.work \in Works
  BY Zenon, <1>2 DEF Frame, WorkerPcs, RunPcs, FirePcs, SpreadPcs, PartPcs, BulkPcs, StopPcs
<1>4. f.work.id \in Spreads
  BY <1>2, <1>3, WorkShape
<1>5. calls[f.work.id] = "active"
  BY <1>2, OutlivesFollows DEF WorkOutlivesNoSpread, Bodies
<1> QED
  BY <1>2, <1>4, <1>5

LEMMA RankedOn ==
  ASSUME ShopInv, ShopInv', Nest, NEW t \in Threads, Acts(t), Ranked
  PROVE  Ranked'
<1>1. PICK n : n = Len(stack[t])
  OBVIOUS
<1>2. /\ \A u \in Threads : u # t => stack'[u] = stack[u]
      /\ Went(t, n) \/ Picked(t, n) \/ Begun(t, n) \/ Quit(t, n)
  BY <1>1, ActsIs
<1>3. n \in Nat
  BY <1>1, IdleIs
<1>4. PICK r \in [Spreads -> Nat] : Orders(r)
  BY DEF Ranked
<1>5. \A i, j \in 1..n : i < j => Ranks(r, stack[t][i], stack[t][j])
  BY <1>1, <1>4 DEF Orders
<1>6. SUFFICES ASSUME ~Ranked' PROVE FALSE
  OBVIOUS
<1>7. PICK i \in 1..Len(stack'[t]), j \in 1..Len(stack'[t]) : i < j /\ ~Ranks(r, stack'[t][i], stack'[t][j])
  <2>1. PICK u \in Threads : \E a, b \in 1..Len(stack'[u]) : a < b /\ ~Ranks(r, stack'[u][a], stack'[u][b])
    BY <1>6, RankedNext
  <2>2. u = t
    BY <1>2, <1>4, <2>1 DEF Orders
  <2> QED
    BY <2>1, <2>2
<1>8. ASSUME Keeps(t, n - 1), NEW f \in Frame, NEW g \in Frame, f = stack[t][n], g = stack'[t][n], Turned(f, g),
             i \in 1..n, j \in 1..n
      PROVE  FALSE
  <2>1. i \in 1..(n - 1)
    BY <1>3, <1>7, <1>8
  <2>2. stack'[t][i] = stack[t][i]
    BY <1>8, <2>1 DEF Keeps
  <2>3. Ranks(r, stack[t][i], stack[t][j])
    BY <1>5, <1>7, <1>8
  <2>4. CASE j = n
    BY <1>7, <1>8, <2>2, <2>3, <2>4, RanksTurned
  <2>5. CASE j # n
    <3>1. j \in 1..(n - 1)
      BY <1>3, <1>8, <2>5
    <3>2. stack'[t][j] = stack[t][j]
      BY <1>8, <3>1 DEF Keeps
    <3> QED
      BY <1>7, <2>2, <2>3, <3>2
  <2> QED
    BY <2>4, <2>5
<1>9. CASE Went(t, n)
  BY <1>7, <1>8, <1>9 DEF Went
<1>10. CASE Picked(t, n)
  <2>1. PICK h : /\ Len(stack'[t]) = n + 1 /\ Keeps(t, n - 1) /\ h = stack'[t][n + 1] /\ h.pc = "body"
                 /\ \E f, g \in Frame : f = stack[t][n] /\ g = stack'[t][n] /\ Turned(f, g)
    BY <1>10 DEF Picked
  <2>2. j # n + 1
    BY <1>7, <2>1 DEF Ranks, SpreadPcs, PartPcs, BulkPcs
  <2>3. i \in 1..n /\ j \in 1..n
    BY <1>3, <1>7, <2>1, <2>2
  <2> QED
    BY <1>8, <2>1, <2>3
<1>11. CASE Begun(t, n)
  <2>1. PICK g \in Frame : /\ Len(stack'[t]) = n + 1 /\ Keeps(t, n) /\ g = stack'[t][n + 1]
                           /\ g.pc \in SpreadPcs => calls[g.id] = "new"
    BY <1>11 DEF Begun
  <2>2. \A k \in 1..n : stack'[t][k] = stack[t][k]
    BY <2>1 DEF Keeps
  <2>3. g.pc \in SpreadPcs
    <3>1. SUFFICES ASSUME g.pc \notin SpreadPcs PROVE FALSE
      OBVIOUS
    <3>2. j # n + 1
      BY <1>7, <2>1, <3>1 DEF Ranks
    <3>3. i \in 1..n /\ j \in 1..n
      BY SMTT(20), <1>3, <1>7, <2>1, <3>2
    <3> QED
      BY <1>5, <1>7, <2>2, <3>3
  <2>4. g.id \in Spreads
    BY Zenon, <2>3, SpreadShape
  <2>5. PICK q \in [Spreads -> Nat] : \A s \in Spreads : q[s] = IF s = g.id THEN 0 ELSE r[s] + 1
    <3>1. PICK x : x = [s \in Spreads |-> IF s = g.id THEN 0 ELSE r[s] + 1]
      OBVIOUS
    <3> QED
      BY <3>1
  <2>6. ASSUME NEW u \in Threads, NEW a \in 1..Len(stack[u]), NEW h, h.pc \in SpreadPcs => h.id \in Spreads,
               h = g \/ Ranks(r, stack[u][a], h)
        PROVE  Ranks(q, stack[u][a], h)
    <3>1. SUFFICES ASSUME stack[u][a].pc = "body", stack[u][a].work.kind = "chunk", h.pc \in SpreadPcs
                   PROVE  q[h.id] < q[stack[u][a].work.id]
      BY DEF Ranks
    <3>2. PICK s : s = stack[u][a].work.id
      OBVIOUS
    <3>3. s \in Spreads /\ calls[s] = "active"
      BY <3>1, <3>2, ChunkCalled
    <3>4. s # g.id
      BY <2>1, <2>3, <3>3
    <3>5. q[s] = r[s] + 1 /\ r[s] \in Nat
      BY <2>5, <3>3, <3>4
    <3>6. CASE h.id = g.id
      BY <2>4, <2>5, <3>2, <3>5, <3>6
    <3>7. CASE h.id # g.id
      <4>1. r[h.id] < r[s] /\ h.id \in Spreads
        BY <2>6, <3>1, <3>2, <3>7 DEF Ranks
      <4>2. q[h.id] = r[h.id] + 1 /\ r[h.id] \in Nat
        BY <2>5, <3>7, <4>1
      <4> QED
        BY <3>2, <3>5, <4>1, <4>2
    <3> QED
      BY <3>6, <3>7
  <2>7. ASSUME NEW u \in Threads, NEW a \in 1..Len(stack'[u]), NEW b \in 1..Len(stack'[u]), a < b
        PROVE  Ranks(q, stack'[u][a], stack'[u][b])
    <3>1. stack' \in [Threads -> Seq(Frame)] /\ stack'[u] \in Seq(Frame)
      BY DEF ShopInv, Typed
    <3>2. stack'[u][b] \in Frame
      BY <3>1
    <3>3. stack'[u][b].pc \in SpreadPcs => stack'[u][b].id \in Spreads
      BY Zenon, <3>2, SpreadShape
    <3>4. CASE u # t
      <4>1. stack'[u] = stack[u]
        BY <1>2, <3>4
      <4>2. Ranks(r, stack[u][a], stack[u][b])
        BY <1>4, <2>7, <4>1 DEF Orders
      <4> QED
        BY <2>6, <3>3, <4>1, <4>2
    <3>5. CASE u = t
      <4>1. a \in 1..n /\ b \in 1..(n + 1)
        BY <1>3, <2>1, <2>7, <3>5
      <4>2. stack'[u][a] = stack[u][a] /\ a \in 1..Len(stack[u])
        BY <1>1, <2>2, <3>5, <4>1
      <4>3. stack'[u][b] = g \/ Ranks(r, stack[u][a], stack'[u][b])
        <5>1. CASE b = n + 1
          BY <2>1, <3>5, <5>1
        <5>2. CASE b \in 1..n
          BY <1>5, <2>2, <2>7, <3>5, <4>1, <5>2
        <5> QED
          BY <1>3, <4>1, <5>1, <5>2
      <4> QED
        BY <2>6, <3>3, <4>2, <4>3
    <3> QED
      BY <3>4, <3>5
  <2> QED
    BY <1>6, <2>7, RankedNext
<1>12. CASE Quit(t, n)
  <2>1. Len(stack'[t]) = n - 1 /\ \A k \in 1..(n - 1) : stack'[t][k] = stack[t][k]
    BY <1>12 DEF Quit, Keeps
  <2>2. i \in 1..n /\ j \in 1..n /\ stack'[t][i] = stack[t][i] /\ stack'[t][j] = stack[t][j]
    BY <1>3, <1>7, <2>1
  <2> QED
    BY <1>5, <1>7, <2>2
<1> QED
  BY <1>2, <1>9, <1>10, <1>11, <1>12

LEMMA RankedRenewed ==
  ASSUME ShopInv, ShopInv', Ranked, Renews
  PROVE  Ranked'
<1>1. PICK r \in [Spreads -> Nat] : Orders(r)
  BY DEF Ranked
<1>2. ASSUME NEW u \in Threads, NEW i \in 1..Len(stack'[u]), NEW j \in 1..Len(stack'[u]), i < j
      PROVE  Ranks(r, stack'[u][i], stack'[u][j])
  <2>1. stack' \in [Threads -> Seq(Frame)] /\ stack'[u] \in Seq(Frame)
    BY DEF ShopInv, Typed
  <2>2. ~(Len(stack'[u]) <= 1)
    BY <1>2, <2>1
  <2>3. stack'[u] = stack[u]
    BY <2>2 DEF Renews
  <2> QED
    BY <1>1, <1>2, <2>3 DEF Orders
<1> QED
  BY <1>2, RankedNext

LEMMA RankedKeeps ==
  ASSUME WideEnough, ShopInv, Nest, Ranked, [Next]_vars
  PROVE  Ranked'
<1>1. ShopInv'
  BY NextKeeps
<1>2. CASE UNCHANGED vars
  <2>1. stack' = stack
    BY <1>2 DEF vars
  <2>2. PICK r \in [Spreads -> Nat] : Orders(r)
    BY DEF Ranked
  <2> QED
    BY <2>1, <2>2, RankedNext DEF Orders
<1>3. CASE Next
  <2>1. PICK t \in Threads : Progress(t) \/ Call(t)
    BY <1>3 DEF Next
  <2>2. Effect(t)
    BY <1>1, <2>1, EffectOf
  <2> QED
    BY <1>1, <2>2, RankedOn, RankedRenewed DEF Effect
<1> QED
  BY <1>2, <1>3

LEMMA RestStart ==
  ASSUME Init
  PROVE  Tended /\ Ranked
<1>1. Tended
  BY DEF Init, Tended
<1>2. PICK h : h = WorkerFrame("own")
  OBVIOUS
<1>3. \A u \in Threads : stack[u] \in {<<h>>, <<>>}
  BY <1>2 DEF Init
<1>4. Len(<<h>>) = 1 /\ Len(<<>>) = 0
  BY Tuples
<1>5. \A u \in Threads : Len(stack[u]) \in {0, 1}
  BY <1>3, <1>4
<1>6. PICK r : r = [s \in Spreads |-> 0]
  OBVIOUS
<1>7. Orders(r)
  BY <1>5 DEF Orders
<1>8. r \in [Spreads -> Nat]
  BY <1>6
<1> QED
  BY <1>1, <1>7, <1>8 DEF Ranked

\* At rest somebody would wait for the spread of least rank; what that one waits for is not
\* in a queue, and it does not lie under another wait.
LEMMA RestFollows ==
  ASSUME ShopInv, Nest, Tended, Ranked, "part" \notin setup.faults
  PROVE  NoStrandedWork
<1>1. SUFFICES ASSUME Stuck, \E c \in Callers : pc(c) # "idle" PROVE FALSE
  BY RestIsEmpty DEF NoStrandedWork
<1>2. PICK r \in [Spreads -> Nat] : Orders(r)
  BY DEF Ranked
<1>3. \A p \in Threads : queue[p] = <<>>
  BY <1>1, RestIsEmpty
<1>4. Callers \subseteq Threads
  BY SMTT(20), MostIs DEF ShopInv, Typed
<1>5. ASSUME NEW c \in Callers, Joins(c)
      PROVE  Top(c).id \in Spreads /\ barrier[Top(c).id] # 0
  <2>1. pc(c) = "join" /\ pc(c) # "idle"
    BY <1>5 DEF Joins
  <2>2. On(c, Len(stack[c]), Top(c)) /\ pc(c) = Top(c).pc
    BY <1>4, <2>1, Below1
  <2>3. Top(c) \in Frame /\ Top(c).pc \in SpreadPcs
    BY <2>1, <2>2, EveryFrame DEF SpreadPcs
  <2>4. 0 % HCRange = 0
    BY ShopAssumption
  <2> QED
    BY Zenon, <1>5, <2>3, <2>4, SpreadShape DEF Joins, EveryoneArrived
<1>6. PICK T : T = {r[Top(c).id] : c \in {d \in Callers : Joins(d)}}
  OBVIOUS
<1>7. T \in SUBSET Nat /\ T # {}
  <2>1. \E c \in Callers : Joins(c)
    BY <1>1 DEF Stuck
  <2> QED
    BY <1>5, <1>6, <2>1
<1>8. PICK m \in T : \A k \in T : m <= k
  BY <1>7, Least
<1>9. PICK c \in Callers : Joins(c) /\ m = r[Top(c).id]
  BY <1>6, <1>8
<1>10. PICK s \in Spreads : s = Top(c).id /\ barrier[s] # 0
  BY <1>5, <1>9
<1>11. ASSUME NEW t \in Threads
       PROVE  pc(t) \in {"wait", "idle", "join"}
  BY <1>1, OutsideIdle DEF Stuck, Asleep, Joins
<1>12. Queued(s) = {}
  <2>1. \A t \in Threads : 1..Len(queue[t]) = {}
    <3>1. Len(<<>>) = 0 /\ 1..0 = {}
      BY Tuples
    <3> QED
      BY <1>3, <3>1
  <2>2. \A t \in Threads : {k \in 1..Len(queue[t]) : ChunkOf(queue[t][k], s)} = {}
    BY <2>1
  <2> QED
    BY <2>2 DEF Queued
<1>13. Counted(s) = {}
  BY <1>11 DEF Counted
<1>14. Running(s) # {}
  <2>1. SUFFICES ASSUME Running(s) = {} PROVE FALSE
    OBVIOUS
  <2>2. barrier[s] = Cardinality({}) + Cardinality({}) + Cardinality({})
    <3>1. BarrierExact
      BY ExactFollows
    <3> QED
      BY <1>12, <1>13, <2>1, <3>1 DEF BarrierExact
  <2> QED
    BY <1>10, <2>2, FS_EmptySet
<1>15. PICK t \in Threads : \E k \in Bodies(t) : ChunkOf(stack[t][k].work, s)
  BY <1>14 DEF Running
<1>16. PICK k \in Bodies(t) : ChunkOf(stack[t][k].work, s)
  BY <1>15
<1>17. PICK n : n = Len(stack[t])
  OBVIOUS
<1>18. n \in Nat /\ k \in 1..n /\ stack[t][k].pc = "body" /\ pc(t) # "idle"
  <2>1. n \in Nat /\ (n # 0 <=> pc(t) # "idle")
    BY <1>17, IdleIs
  <2>2. k \in 1..n /\ stack[t][k].pc = "body"
    BY <1>16, <1>17 DEF Bodies
  <2> QED
    BY <2>1, <2>2
<1>19. On(t, n, Top(t)) /\ Top(t) = stack[t][n] /\ pc(t) = Top(t).pc
  BY <1>17, <1>18, Below1
<1>20. CASE pc(t) = "wait"
  <2>1. n = 1
    BY <1>17, <1>19, <1>20, EveryFrame DEF Fits, WorkerPcs
  <2>2. k = n
    BY <1>18, <2>1
  <2>3. stack[t][k].pc = "wait"
    BY <1>19, <1>20, <2>2
  <2> QED
    BY <1>18, <2>3
<1>21. CASE pc(t) = "join"
  <2>1. k < n /\ n \in 1..n
    <3>1. k # n
      <4>1. stack[t][n].pc = "join"
        BY <1>19, <1>21
      <4> QED
        BY <1>18, <4>1
    <3> QED
      BY <1>18, <3>1
  <2>2. Ranks(r, stack[t][k], stack[t][n])
    BY <1>2, <1>17, <1>18, <2>1 DEF Orders
  <2>3. r[Top(t).id] < r[s]
    BY <1>16, <1>18, <1>19, <1>21, <2>2 DEF Ranks, ChunkOf, SpreadPcs
  <2>4. t \in Callers /\ Joins(t)
    BY <1>1, <1>18, <1>21, OutsideIdle DEF Stuck, Asleep
  <2>5. r[Top(t).id] \in T
    BY <1>6, <2>4
  <2>6. r[Top(t).id] \in Nat /\ r[s] \in Nat /\ r[s] <= r[Top(t).id]
    BY <1>7, <1>8, <1>9, <1>10, <2>5
  <2> QED
    BY <2>3, <2>6
<1> QED
  BY <1>11, <1>18, <1>20, <1>21

\* When the pool sleeps and the user threads are done or wait, no work is left in a queue
\* and nobody waits: in a shop whose consumers find what is queued, whose spreads get their
\* parts queued (a refused part hangs its join), and whose fires may be refused.  It needs
\* no wake tree for this, as whoever is awake finds every part.  Where consumers may miss
\* work the tree is there to help and the theorem is false (SkippedWorkDone); what is left
\* of it then is WakesArriving.  And a worker that waits at a join is not asleep: the
\* deadlock of nested spreads is NoDeadlock's.
THEOREM NothingStranded ==
  ASSUME WideEnough, \A s \in Setups : s.faults \subseteq {"fire"}
  PROVE  SafeSpec => []NoStrandedWork
<1>1. ShopInv => setup.faults \cap {"look", "part", "bulk"} = {}
  BY DEF ShopInv, Typed
<1>2. Init => DrainInv /\ Tended /\ Ranked
  BY DrainStart, RestStart
<1>3. ASSUME ShopInv /\ Nest, DrainInv /\ Tended /\ Ranked, [Next]_vars
      PROVE  (DrainInv /\ Tended /\ Ranked)'
  <2>1. "look" \notin setup.faults /\ setup.faults \cap {"look", "bulk"} = {}
    BY <1>1, <1>3
  <2> QED
    BY <1>3, <2>1, DrainKeeps, TendedKeeps, RankedKeeps
<1>4. ShopInv /\ Nest /\ DrainInv /\ Tended /\ Ranked => NoStrandedWork
  <2>1. ShopInv => "part" \notin setup.faults
    BY <1>1
  <2> QED
    BY <2>1, RestFollows
<1> QED
  BY <1>2, <1>3, <1>4, NestInvariance, PTL DEF SafeSpec

--------------------------------------------------------------------------------
(* The two counters of the shop, which wrap around *)

\* Equal but for wrapping around.
EqualMod(x, e, m) == \E q \in Int : x = e + q * m

LEMMA Rewrapped ==
  ASSUME NEW x \in Int, NEW e \in Int, NEW c \in Int, NEW m \in Nat \ {0}, EqualMod(x, e, m)
  PROVE  EqualMod((x + c) % m, e + c, m)
<1> SUFFICES ASSUME NEW q \in Int, x = e + q * m
             PROVE  \E p \in Int : (x + c) % m = e + c + p * m
  BY DEF EqualMod
<1>1. PICK y \in Int : y = x + c
  OBVIOUS
<1>2. PICK d \in Int : d = y \div m
  OBVIOUS
<1>3. y = m * d + (y % m) /\ y % m \in Int
  BY <1>2
<1>4. PICK p \in Int : p = q - d
  OBVIOUS
<1>5. (q - d) * m = q * m - m * d
  OBVIOUS
<1>6. PICK u \in Int, v \in Int, z \in Int, w \in Int : u = q * m /\ v = m * d /\ z = y % m /\ w = p * m
  BY <1>3
<1>7. w = u - v /\ y = v + z /\ x = e + u
  BY <1>3, <1>4, <1>5, <1>6
<1>8. z = e + c + w
  BY ONLY <1>1, <1>6, <1>7, x \in Int, e \in Int, c \in Int
<1> QED
  BY <1>1, <1>6, <1>8

LEMMA NoMultiple ==
  ASSUME NEW q \in Int, NEW m \in Nat \ {0}, 0 <= q * m, q * m < m
  PROVE  q * m = 0
<1>1. q >= 1 => q * m >= m
  OBVIOUS
<1>2. q <= -1 => q * m <= -1
  OBVIOUS
<1>3. q = 0
  BY <1>1, <1>2
<1> QED
  BY <1>3

\* The elements of a set of shares that are of some kinds.
Of(S, K) == {x \in S : x.kind \in K}

LEMMA OfOne ==
  ASSUME NEW x, NEW K
  PROVE  /\ x.kind \in K => Of({x}, K) = {x} /\ IsFiniteSet(Of({x}, K)) /\ Cardinality(Of({x}, K)) = 1
         /\ x.kind \notin K => Of({x}, K) = {} /\ IsFiniteSet(Of({x}, K)) /\ Cardinality(Of({x}, K)) = 0
<1>1. x.kind \in K => Of({x}, K) = {x}
  BY DEF Of
<1>2. x.kind \notin K => Of({x}, K) = {}
  BY DEF Of
<1> QED
  BY <1>1, <1>2, FS_Singleton, FS_EmptySet

LEMMA OfNone ==
  ASSUME NEW S, NEW K, \A x \in S : x.kind \notin K
  PROVE  IsFiniteSet(Of(S, K)) /\ Cardinality(Of(S, K)) = 0
<1>1. Of(S, K) = {}
  BY DEF Of
<1> QED
  BY <1>1, FS_EmptySet

LEMMA OfAll ==
  ASSUME NEW S, NEW K, \A x \in S : x.kind \in K
  PROVE  Of(S, K) = S
BY DEF Of

\* What a step does to the number of shares of some kinds.
LEMMA Recount ==
  ASSUME ShopInv, NEW K, NEW new, NEW gone, InHand' = (InHand \cup new) \ gone, new \cap InHand = {},
         gone \subseteq InHand, IsFiniteSet(Of(new, K))
  PROVE  /\ OfKinds(K)' = OfKinds(K) + Cardinality(Of(new, K)) - Cardinality(Of(gone, K))
         /\ OfKinds(K) \in Nat /\ OfKinds(K)' \in Nat
<1>1. PICK A, B, N, G : /\ A = {x \in InHand : x.kind \in K} /\ B = {x \in InHand' : x.kind \in K}
                        /\ N = Of(new, K) /\ G = Of(gone, K)
  OBVIOUS
<1>2. OfKinds(K) = Cardinality(A) /\ OfKinds(K)' = Cardinality(B)
  BY <1>1 DEF OfKinds
<1>3. B = (A \cup N) \ G /\ A \cap N = {} /\ G \subseteq A \cup N /\ A \subseteq InHand
  BY <1>1 DEF Of
<1>4. IsFiniteSet(A) /\ IsFiniteSet(N)
  <2>1. IsFiniteSet(InHand)
    BY DEF ShopInv
  <2> QED
    BY <1>1, <1>3, <2>1, FS_Subset
<1>5. IsFiniteSet(A \cup N) /\ Cardinality(A \cup N) = Cardinality(A) + Cardinality(N)
  <2>1. /\ IsFiniteSet(A \cup N) /\ Cardinality(A \cup N) = Cardinality(A) + Cardinality(N) - Cardinality(A \cap N)
        /\ Cardinality({}) = 0
    BY <1>4, FS_Union, FS_EmptySet
  <2>2. Cardinality(A) \in Nat /\ Cardinality(N) \in Nat
    BY <1>4, FS_CardinalityType
  <2>3. Cardinality(A \cap N) = 0
    BY <1>3, <2>1, Zenon
  <2> QED
    BY ONLY <2>1, <2>2, <2>3
<1>6. IsFiniteSet(B) /\ IsFiniteSet(G) /\ Cardinality(B) = Cardinality(A \cup N) - Cardinality(G)
  <2>1. IsFiniteSet(G)
    BY <1>3, <1>5, FS_Subset
  <2>2. /\ IsFiniteSet((A \cup N) \ G)
        /\ Cardinality((A \cup N) \ G) = Cardinality(A \cup N) - Cardinality((A \cup N) \cap G)
    BY <1>5, <2>1, FS_Difference
  <2>3. (A \cup N) \cap G = G
    BY <1>3
  <2> QED
    BY <1>3, <2>1, <2>2, <2>3
<1>7. Cardinality(A) \in Nat /\ Cardinality(N) \in Nat /\ Cardinality(G) \in Nat /\ Cardinality(B) \in Nat
  BY <1>4, <1>6, FS_CardinalityType
<1> QED
  BY <1>1, <1>2, <1>5, <1>6, <1>7

\* Whoever has these has work that is counted, or is to be; or an item that is.
InWork == {"item", "count", "over", "ran"}

\* The counters follow the shares.
Follows(c, d) ==
  /\ workItems' = (workItems + c) % HCRange \/ (c = 0 /\ workItems' = workItems)
  /\ inFlight' = (inFlight + d) % SizeRange \/ (d = 0 /\ inFlight' = inFlight)
  /\ OfKinds(InWork)' - OfKinds({"owed"})' = OfKinds(InWork) - OfKinds({"owed"}) + c
  /\ OfKinds({"item"})' - OfKinds({"track"})' = OfKinds({"item"}) - OfKinds({"track"}) + d

LEMMA FollowsWrapped ==
  ASSUME ShopInv, CountersOK, setup' = setup, NEW c \in Int, NEW d \in Int, Follows(c, d)
  PROVE  CountersOK'
<1>1. SUFFICES ASSUME setup.faults \cap {"part", "bulk"} = {}
               PROVE  /\ \E q \in Int : workItems' = OfKinds(InWork)' - OfKinds({"owed"})' + q * HCRange
                      /\ \E q \in Int : inFlight' = OfKinds({"item"})' - OfKinds({"track"})' + q * SizeRange
  BY DEF CountersOK, InWork
<1>2. /\ workItems \in Int /\ inFlight \in Int /\ HCRange \in Nat \ {0} /\ SizeRange \in Nat \ {0}
  BY ShopAssumption DEF ShopInv, Typed
<1>3. \A K : OfKinds(K) \in Nat
  <2>1. ASSUME NEW K
        PROVE  Cardinality({x \in InHand : x.kind \in K}) \in Nat
    <3>1. IsFiniteSet(InHand) /\ {x \in InHand : x.kind \in K} \subseteq InHand
      BY DEF ShopInv
    <3> QED
      BY <3>1, FS_Subset, FS_CardinalityType
  <2> QED
    BY <2>1 DEF OfKinds
<1>4. PICK e \in Int, f \in Int : e = OfKinds(InWork) - OfKinds({"owed"}) /\ f = OfKinds({"item"}) - OfKinds({"track"})
  BY <1>3
<1>5. EqualMod(workItems, e, HCRange) /\ EqualMod(inFlight, f, SizeRange)
  BY <1>1, <1>4 DEF CountersOK, InWork, EqualMod
<1>6. EqualMod(workItems', e + c, HCRange)
  <2>1. EqualMod((workItems + c) % HCRange, e + c, HCRange)
    BY <1>2, <1>4, <1>5, Rewrapped
  <2>2. c = 0 => e + c = e
    OBVIOUS
  <2> QED
    BY <1>5, <2>1, <2>2 DEF Follows
<1>7. EqualMod(inFlight', f + d, SizeRange)
  <2>1. EqualMod((inFlight + d) % SizeRange, f + d, SizeRange)
    BY <1>2, <1>4, <1>5, Rewrapped
  <2>2. d = 0 => f + d = f
    OBVIOUS
  <2> QED
    BY <1>5, <2>1, <2>2 DEF Follows
<1> QED
  BY <1>4, <1>6, <1>7 DEF Follows, EqualMod

\* A step that changes neither.
LEMMA FollowsStill ==
  ASSUME ShopInv, InHand' = InHand, workItems' = workItems, inFlight' = inFlight
  PROVE  Follows(0, 0)
<1>1. \A K : OfKinds(K)' = OfKinds(K)
  BY DEF OfKinds
<1>2. \A K : OfKinds(K) \in Nat
  <2>1. ASSUME NEW K
        PROVE  Cardinality({x \in InHand : x.kind \in K}) \in Nat
    <3>1. IsFiniteSet(InHand) /\ {x \in InHand : x.kind \in K} \subseteq InHand
      BY DEF ShopInv
    <3> QED
      BY <3>1, FS_Subset, FS_CardinalityType
  <2> QED
    BY <2>1 DEF OfKinds
<1> QED
  BY <1>1, <1>2 DEF Follows

\* A step by which shares come and go, of which so many are of the four sorts.
FollowsCount(new, gone, a, b, i, t) ==
  /\ InHand' = (InHand \cup new) \ gone /\ new \cap InHand = {} /\ gone \subseteq InHand
  /\ \A K \in {InWork, {"owed"}, {"item"}, {"track"}} : IsFiniteSet(Of(new, K))
  /\ Cardinality(Of(new, InWork)) - Cardinality(Of(gone, InWork)) = a
  /\ Cardinality(Of(new, {"owed"})) - Cardinality(Of(gone, {"owed"})) = b
  /\ Cardinality(Of(new, {"item"})) - Cardinality(Of(gone, {"item"})) = i
  /\ Cardinality(Of(new, {"track"})) - Cardinality(Of(gone, {"track"})) = t

LEMMA FollowsBy ==
  ASSUME ShopInv, NEW new, NEW gone, NEW a \in Int, NEW b \in Int, NEW i \in Int, NEW t \in Int,
         FollowsCount(new, gone, a, b, i, t),
         workItems' = (workItems + (a - b)) % HCRange \/ (a = b /\ workItems' = workItems),
         inFlight' = (inFlight + (i - t)) % SizeRange \/ (i = t /\ inFlight' = inFlight)
  PROVE  Follows(a - b, i - t)
<1>1. ASSUME NEW K \in {InWork, {"owed"}, {"item"}, {"track"}}
      PROVE  /\ OfKinds(K)' = OfKinds(K) + (Cardinality(Of(new, K)) - Cardinality(Of(gone, K)))
             /\ OfKinds(K) \in Nat /\ OfKinds(K)' \in Nat
  <2>1. InHand' = (InHand \cup new) \ gone /\ new \cap InHand = {} /\ gone \subseteq InHand /\ IsFiniteSet(Of(new, K))
    BY DEF FollowsCount
  <2>2. Cardinality(Of(new, K)) \in Nat
    BY <2>1, FS_CardinalityType
  <2>3. Cardinality(Of(gone, K)) \in Nat
    <3>1. IsFiniteSet(InHand) /\ Of(gone, K) \subseteq InHand
      BY <2>1 DEF ShopInv, Of
    <3> QED
      BY <3>1, FS_Subset, FS_CardinalityType
  <2>4. /\ OfKinds(K)' = OfKinds(K) + Cardinality(Of(new, K)) - Cardinality(Of(gone, K))
        /\ OfKinds(K) \in Nat /\ OfKinds(K)' \in Nat
    BY <2>1, Recount
  <2> QED
    BY <2>2, <2>3, <2>4
<1>2. /\ OfKinds(InWork)' = OfKinds(InWork) + a /\ OfKinds({"owed"})' = OfKinds({"owed"}) + b
      /\ OfKinds({"item"})' = OfKinds({"item"}) + i /\ OfKinds({"track"})' = OfKinds({"track"}) + t
  BY <1>1 DEF FollowsCount
<1>3. OfKinds(InWork) \in Nat /\ OfKinds({"owed"}) \in Nat /\ OfKinds({"item"}) \in Nat /\ OfKinds({"track"}) \in Nat
  BY <1>1
<1>4. /\ OfKinds(InWork)' - OfKinds({"owed"})' = OfKinds(InWork) - OfKinds({"owed"}) + (a - b)
      /\ OfKinds({"item"})' - OfKinds({"track"})' = OfKinds({"item"}) - OfKinds({"track"}) + (i - t)
  BY <1>2, <1>3
<1>5. (a = b => a - b = 0) /\ (i = t => i - t = 0)
  OBVIOUS
<1> QED
  BY <1>4, <1>5 DEF Follows

\* How many shares of a set are of the sorts that the counters are about.
Tally(S, a, b, i, t) ==
  /\ \A K \in {InWork, {"owed"}, {"item"}, {"track"}} : IsFiniteSet(Of(S, K))
  /\ Cardinality(Of(S, InWork)) = a /\ Cardinality(Of(S, {"owed"})) = b
  /\ Cardinality(Of(S, {"item"})) = i /\ Cardinality(Of(S, {"track"})) = t

LEMMA TallyNone ==
  ASSUME NEW S, \A x \in S : x.kind \notin InWork \cup {"owed", "track"}
  PROVE  Tally(S, 0, 0, 0, 0)
<1>1. \A K \in {InWork, {"owed"}, {"item"}, {"track"}} : IsFiniteSet(Of(S, K)) /\ Cardinality(Of(S, K)) = 0
  <2>1. ASSUME NEW K \in {InWork, {"owed"}, {"item"}, {"track"}}
        PROVE  \A x \in S : x.kind \notin K
    BY DEF InWork
  <2> QED
    BY <2>1, OfNone
<1> QED
  BY <1>1 DEF Tally

LEMMA TallyOne ==
  ASSUME NEW x, NEW k, x.kind = k
  PROVE  /\ k \in {"count", "over", "ran"} => Tally({x}, 1, 0, 0, 0)
         /\ k = "owed" => Tally({x}, 0, 1, 0, 0)
         /\ k = "item" => Tally({x}, 1, 0, 1, 0)
         /\ k = "track" => Tally({x}, 0, 0, 0, 1)
<1>1. ASSUME NEW K
      PROVE  /\ IsFiniteSet(Of({x}, K))
             /\ k \in K => Cardinality(Of({x}, K)) = 1
             /\ k \notin K => Cardinality(Of({x}, K)) = 0
  BY OfOne
<1> QED
  BY <1>1 DEF Tally, InWork

\* So many shares at a barrier.
LEMMA TallyCounts ==
  ASSUME NEW s, NEW cs \in Seq(Ranges), Apart(cs), NEW S, S = Counts(s, Ends(cs))
  PROVE  Tally(S, Len(cs), 0, 0, 0)
<1>1. IsFiniteSet(S) /\ Cardinality(S) = Len(cs)
  BY CountsMany
<1>2. \A x \in S : x.kind = "count"
  BY ShareFields DEF Counts
<1>3. Of(S, InWork) = S
  BY <1>2, OfAll DEF InWork
<1>4. ASSUME NEW K \in {{"owed"}, {"item"}, {"track"}}
      PROVE  IsFiniteSet(Of(S, K)) /\ Cardinality(Of(S, K)) = 0
  <2>1. \A x \in S : x.kind \notin K
    BY <1>2
  <2> QED
    BY <2>1, OfNone
<1> QED
  BY <1>1, <1>3, <1>4 DEF Tally

\* Two sets that are disjoint.
LEMMA TallyBoth ==
  ASSUME NEW S, NEW T, S \cap T = {}, NEW a, NEW b, NEW i, NEW t, NEW e, NEW f, NEW j, NEW u,
         Tally(S, a, b, i, t), Tally(T, e, f, j, u)
  PROVE  Tally(S \cup T, a + e, b + f, i + j, t + u)
<1>1. ASSUME NEW K \in {InWork, {"owed"}, {"item"}, {"track"}}
      PROVE  /\ IsFiniteSet(Of(S \cup T, K))
             /\ Cardinality(Of(S \cup T, K)) = Cardinality(Of(S, K)) + Cardinality(Of(T, K))
  <2>1. PICK A, B, C : A = Of(S, K) /\ B = Of(T, K) /\ C = Of(S \cup T, K)
    OBVIOUS
  <2>2. C = A \cup B /\ A \cap B = {}
    BY <2>1 DEF Of
  <2>3. IsFiniteSet(A) /\ IsFiniteSet(B)
    BY <2>1 DEF Tally
  <2>4. /\ IsFiniteSet(A \cup B) /\ Cardinality(A \cup B) = Cardinality(A) + Cardinality(B) - Cardinality(A \cap B)
        /\ Cardinality({}) = 0
    BY <2>3, FS_Union, FS_EmptySet
  <2>5. Cardinality(A) \in Nat /\ Cardinality(B) \in Nat
    BY <2>3, FS_CardinalityType
  <2>6. Cardinality(A \cap B) = 0
    BY <2>2, <2>4, Zenon
  <2>7. Cardinality(A \cup B) = Cardinality(A) + Cardinality(B)
    BY ONLY <2>4, <2>5, <2>6
  <2> QED
    BY <2>1, <2>2, <2>4, <2>7
<1> QED
  BY <1>1 DEF Tally

\* What the counters are followed by.
Followed == \E c, d \in Int : Follows(c, d)

\* Shares that come, and shares that go.
Moved(new, gone) == InHand' = (InHand \cup new) \ gone /\ new \cap InHand = {} /\ gone \subseteq InHand

Recounted(c, d) ==
  /\ c \in Int /\ d \in Int
  /\ workItems' = (workItems + c) % HCRange \/ (c = 0 /\ workItems' = workItems)
  /\ inFlight' = (inFlight + d) % SizeRange \/ (d = 0 /\ inFlight' = inFlight)

LEMMA FollowsTally ==
  ASSUME ShopInv, NEW new, NEW gone, Moved(new, gone),
         NEW a \in Int, NEW b \in Int, NEW i \in Int, NEW t \in Int, Tally(new, a, b, i, t),
         NEW e \in Int, NEW f \in Int, NEW j \in Int, NEW u \in Int, Tally(gone, e, f, j, u),
         NEW c, NEW d, Recounted(c, d), c = (a - e) - (b - f), d = (i - j) - (t - u)
  PROVE  Followed
<1>1. PICK A \in Int, B \in Int, I \in Int, T \in Int : A = a - e /\ B = b - f /\ I = i - j /\ T = t - u
  OBVIOUS
<1>2. FollowsCount(new, gone, A, B, I, T)
  BY <1>1 DEF FollowsCount, Tally, Moved
<1>3. c = A - B /\ d = I - T /\ (c = 0 => A = B) /\ (d = 0 => I = T)
  BY <1>1
<1>4. /\ workItems' = (workItems + (A - B)) % HCRange \/ (A = B /\ workItems' = workItems)
      /\ inFlight' = (inFlight + (I - T)) % SizeRange \/ (I = T /\ inFlight' = inFlight)
  BY <1>3 DEF Recounted
<1>5. Follows(A - B, I - T)
  BY <1>2, <1>4, FollowsBy
<1>6. A - B \in Int /\ I - T \in Int
  OBVIOUS
<1> QED
  BY <1>5, <1>6 DEF Followed

\* Nothing changes hands, and nothing is counted.
LEMMA FollowedStill ==
  ASSUME ShopInv, InHand' = InHand, workItems' = workItems, inFlight' = inFlight
  PROVE  Followed
BY FollowsStill DEF Followed

\* What nobody counts changes hands.
LEMMA FollowedLoosely ==
  ASSUME ShopInv, NEW new, NEW gone, InHand' = (InHand \cup new) \ gone, new \cap InHand = {}, gone \subseteq InHand,
         \A x \in new \cup gone : x.kind \notin InWork \cup {"owed", "track"},
         workItems' = workItems, inFlight' = inFlight
  PROVE  Followed
<1>1. Tally(new, 0, 0, 0, 0) /\ Tally(gone, 0, 0, 0, 0)
  BY TallyNone
<1>2. Moved(new, gone) /\ Recounted(0, 0)
  BY DEF Moved, Recounted
<1>3. 0 = (0 - 0) - (0 - 0)
  OBVIOUS
<1> QED
  BY ONLY <1>1, <1>2, <1>3, ShopInv, FollowsTally

LEMMA CallFollowed ==
  ASSUME ShopInv, NEW t \in Threads, Call(t)
  PROVE  Followed
<1>1. workItems' = workItems /\ inFlight' = inFlight
  BY DEF Call, FireCall, SpreadCall, StopCall, ResizeCall, shared
<1>2. CASE StopCall(t) \/ ResizeCall(t)
  BY <1>1, <1>2, StopCallKeeps, FollowedStill
<1>3. ASSUME NEW i \in Items, FireCall(t, i)
      PROVE  Followed
  <2>1. PICK new : new = {Share("todo", i, 0)}
    OBVIOUS
  <2>2. InHand' = (InHand \cup new) \ {} /\ new \cap InHand = {}
    BY <1>3, <2>1, FireCallKeeps
  <2>3. \A x \in new \cup {} : x.kind \notin InWork \cup {"owed", "track"}
    BY <2>1, ShareFields DEF InWork
  <2> QED
    BY <1>1, <2>2, <2>3, FollowedLoosely
<1>4. ASSUME NEW s \in Spreads, NEW n \in setup.iterations, SpreadCall(t, s, n)
      PROVE  Followed
  <2>1. PICK new : new = {Share("call", s, 0)} \cup Iters(s, 1..n)
    OBVIOUS
  <2>2. InHand' = (InHand \cup new) \ {} /\ new \cap InHand = {}
    BY <1>4, <2>1, SpreadCallKeeps
  <2>3. \A x \in new \cup {} : x.kind \notin InWork \cup {"owed", "track"}
    BY <2>1, ShareFields DEF InWork, Iters
  <2> QED
    BY <1>1, <2>2, <2>3, FollowedLoosely
<1> QED
  BY <1>2, <1>3, <1>4 DEF Call

\* A fire has its item counted only after it has been queued, when it may have been run.
LEMMA FireFollowed ==
  ASSUME ShopInv, NEW t \in Threads, FireStep(t)
  PROVE  Followed
<1>1. PICK f, i : f = Top(t) /\ i = f.item
  OBVIOUS
<1>2. CASE FireTarget(t) \/ FireSpill(t) \/ FireNotify(t)
  <2>1. workItems' = workItems /\ inFlight' = inFlight
    BY <1>2 DEF FireTarget, FireSpill, FireNotify, shared
  <2> QED
    BY <1>2, <2>1, FireTargetKeeps, FireSpillKeeps, FireNotifyKeeps, FollowedStill
<1>3. CASE FireEnqueue(t)
  <2>1. /\ pc(t) = "enqueue" /\ workItems' = workItems /\ inFlight' = inFlight
        /\ UNCHANGED <<setup, pool, tokens, shared, barrier, history>>
    BY <1>3 DEF FireEnqueue, shared
  <2>2. CASE /\ queue' = [queue EXCEPT ![f.target] = Append(@, ItemWork(i))]
             /\ Goto(t, FireFrame("notify", i, f.target, TRUE))
    <3>1. PICK x, y, z, o : x = Share("item", i, 0) /\ y = Share("owed", i, 0) /\ z = Share("track", i, 0)
                            /\ o = Share("todo", i, 0)
      OBVIOUS
    <3>2. /\ InHand' = (InHand \cup {x, y, z}) \ {o} /\ x \notin InHand /\ y \notin InHand /\ z \notin InHand
          /\ o \in InHand
      BY <1>1, <2>1, <2>2, <3>1, FireQueued
    <3>3. x.kind = "item" /\ y.kind = "owed" /\ z.kind = "track" /\ o.kind = "todo"
      BY <3>1, ShareFields
    <3>4. Tally({x}, 1, 0, 1, 0) /\ Tally({y}, 0, 1, 0, 0) /\ Tally({z}, 0, 0, 0, 1)
      BY <3>3, TallyOne
    <3>5. Tally({x} \cup {y}, 1 + 0, 0 + 1, 1 + 0, 0 + 0)
      <4>1. {x} \cap {y} = {}
        BY <3>3
      <4> QED
        BY <3>4, <4>1, TallyBoth, Zenon
    <3>6. Tally(({x} \cup {y}) \cup {z}, 1 + 0 + 0, 0 + 1 + 0, 1 + 0 + 0, 0 + 0 + 1)
      <4>1. ({x} \cup {y}) \cap {z} = {}
        BY <3>3
      <4> QED
        BY <3>4, <3>5, <4>1, TallyBoth, Zenon
    <3>7. Tally({x, y, z}, 1, 1, 1, 1)
      <4>1. ({x} \cup {y}) \cup {z} = {x, y, z}
        OBVIOUS
      <4> QED
        BY <3>6, <4>1
    <3>8. Tally({o}, 0, 0, 0, 0)
      BY <3>3, TallyNone DEF InWork
    <3>9. Moved({x, y, z}, {o}) /\ Recounted(0, 0)
      BY <2>1, <3>2 DEF Moved, Recounted
    <3>10. 0 = (1 - 0) - (1 - 0)
      OBVIOUS
    <3> QED
      BY ONLY <3>7, <3>8, <3>9, <3>10, ShopInv, FollowsTally
  <2>3. CASE UNCHANGED queue /\ Goto(t, FireFrame("notify", i, f.target, FALSE))
    <3>1. PICK o : o = Share("todo", i, 0)
      OBVIOUS
    <3>2. InHand' = InHand \ {o}
      BY <1>1, <2>1, <2>3, <3>1, FireRefused
    <3>3. o \in InHand
      <4>1. Claims(f) \subseteq InHand /\ f.pc = "enqueue"
        BY <1>1, <2>1, Firing DEF FirePcs
      <4> QED
        BY <1>1, <3>1, <4>1, ClaimsAt
    <3>4. o.kind = "todo"
      BY <3>1, ShareFields
    <3>5. InHand' = (InHand \cup {}) \ {o} /\ {} \cap InHand = {} /\ {o} \subseteq InHand
      BY <3>2, <3>3
    <3>6. \A x \in {} \cup {o} : x.kind \notin InWork \cup {"owed", "track"}
      BY <3>4 DEF InWork
    <3> QED
      BY <2>1, <3>5, <3>6, FollowedLoosely
  <2> QED
    BY <1>1, <1>3, <2>2, <2>3 DEF FireEnqueue
<1>4. CASE FireCount(t)
  <2>1. inFlight' = inFlight
    BY <1>4 DEF FireCount
  <2>2. CASE ~f.ok
    BY <1>1, <1>4, <2>1, <2>2, FireCountKeeps, FollowedStill
  <2>3. CASE f.ok
    <3>1. PICK o : o = Share("owed", i, 0)
      OBVIOUS
    <3>2. o \in InHand /\ InHand' = InHand \ {o} /\ workItems' = (workItems + 1) % HCRange
      BY <1>1, <1>4, <2>3, <3>1, FireCountKeeps
    <3>3. Tally({o}, 0, 1, 0, 0)
      BY <3>1, ShareFields, TallyOne
    <3>4. Moved({}, {o}) /\ Recounted(1, 0)
      BY <2>1, <3>2 DEF Moved, Recounted
    <3>5. Tally({}, 0, 0, 0, 0) /\ 1 = (0 - 0) - (0 - 1) /\ 0 = (0 - 0) - (0 - 0)
      BY TallyNone
    <3> QED
      BY ONLY <3>3, <3>4, <3>5, ShopInv, FollowsTally
  <2> QED
    BY <2>2, <2>3
<1>5. CASE FireTrack(t)
  <2>1. workItems' = workItems
    BY <1>5 DEF FireTrack
  <2>2. CASE ~f.ok
    BY <1>1, <1>5, <2>1, <2>2, FireTrackKeeps, FollowedStill
  <2>3. CASE f.ok
    <3>1. PICK o : o = Share("track", i, 0)
      OBVIOUS
    <3>2. o \in InHand /\ InHand' = InHand \ {o} /\ inFlight' = (inFlight + 1) % SizeRange
      BY <1>1, <1>5, <2>3, <3>1, FireTrackKeeps
    <3>3. Tally({o}, 0, 0, 0, 1)
      BY <3>1, ShareFields, TallyOne
    <3>4. Moved({}, {o}) /\ Recounted(0, 1)
      BY <2>1, <3>2 DEF Moved, Recounted
    <3>5. Tally({}, 0, 0, 0, 0) /\ 0 = (0 - 0) - (0 - 0) /\ 1 = (0 - 0) - (0 - 1)
      BY TallyNone
    <3> QED
      BY ONLY <3>3, <3>4, <3>5, ShopInv, FollowsTally
  <2> QED
    BY <2>2, <2>3
<1> QED
  BY <1>2, <1>3, <1>4, <1>5 DEF FireStep

\* Work that has run is counted out only afterwards.
LEMMA RunFollowed ==
  ASSUME ShopInv, NEW t \in Threads, RunStep(t)
  PROVE  Followed
<1>1. PICK w : w = Top(t).work
  OBVIOUS
<1>2. \A x \in Int : x + (-1) = x - 1
  OBVIOUS
<1>3. workItems \in Int /\ inFlight \in Int
  BY ShopAssumption DEF ShopInv, Typed
<1>4. CASE FinishBody(t) /\ w.kind = "item"
  <2>1. PICK x, y : x = Share("over", w.id, 0) /\ y = Share("item", w.id, 0)
    OBVIOUS
  <2>2. Moved({x}, {y}) /\ inFlight' = (inFlight - 1) % SizeRange /\ workItems' = workItems
    BY <1>1, <1>4, <2>1, ItemRan DEF Moved
  <2>3. Tally({x}, 1, 0, 0, 0) /\ Tally({y}, 1, 0, 1, 0)
    BY <2>1, ShareFields, TallyOne
  <2>4. Recounted(0, -1)
    BY <1>2, <1>3, <2>2 DEF Recounted
  <2>5. 0 = (1 - 1) - (0 - 0) /\ -1 = (0 - 1) - (0 - 0)
    OBVIOUS
  <2> QED
    BY ONLY <2>2, <2>3, <2>4, <2>5, ShopInv, FollowsTally
<1>5. CASE FinishBody(t) /\ w.kind = "chunk"
  <2>1. PICK x, y, I : /\ x = Share("ran", w.id, w.to) /\ y = Share("count", w.id, w.to)
                       /\ I = Iters(w.id, Its(w))
    OBVIOUS
  <2>2. DoneShares(w) = {x} /\ WorkShares(w) = I \cup {y}
    BY <1>5, <2>1 DEF DoneShares, WorkShares, Counts
  <2>3. /\ WorkShares(w) \subseteq InHand /\ DoneShares(w) \cap InHand = {}
        /\ InHand' = (InHand \cup DoneShares(w)) \ WorkShares(w)
        /\ inFlight' = inFlight /\ workItems' = workItems
    BY <1>1, <1>5, ChunkRan
  <2>4. Moved({x}, I \cup {y})
    BY <2>2, <2>3 DEF Moved
  <2>5. Recounted(0, 0)
    BY <2>3 DEF Recounted
  <2>6. x.kind = "ran" /\ y.kind = "count" /\ \A z \in I : z.kind = "iter"
    BY <2>1, ShareFields DEF Iters
  <2>7. Tally({x}, 1, 0, 0, 0) /\ Tally({y}, 1, 0, 0, 0) /\ Tally(I, 0, 0, 0, 0)
    <3>1. \A z \in I : z.kind \notin InWork \cup {"owed", "track"}
      BY <2>6 DEF InWork
    <3> QED
      BY <2>6, <3>1, TallyOne, TallyNone
  <2>8. Tally(I \cup {y}, 0 + 1, 0 + 0, 0 + 0, 0 + 0)
    <3>1. I \cap {y} = {}
      BY <2>6
    <3> QED
      BY <2>7, <3>1, TallyBoth, Zenon
  <2>9. Tally(I \cup {y}, 1, 0, 0, 0) /\ 0 = (1 - 1) - (0 - 0) /\ 0 = (0 - 0) - (0 - 0)
    BY <2>8
  <2> QED
    BY ONLY <2>4, <2>5, <2>7, <2>9, ShopInv, FollowsTally
<1>6. CASE WorkCompleted(t)
  <2>1. /\ InHand' = InHand \ DoneShares(w) /\ DoneShares(w) \subseteq InHand
        /\ workItems' = (workItems - 1) % HCRange /\ inFlight' = inFlight
    BY <1>1, <1>6, WorkCompletedKeeps
  <2>2. PICK x : DoneShares(w) = {x} /\ x.kind \in {"over", "ran"}
    BY ShareFields DEF DoneShares
  <2>3. Moved({}, {x})
    BY <2>1, <2>2 DEF Moved
  <2>4. Recounted(-1, 0)
    BY <1>2, <1>3, <2>1 DEF Recounted
  <2>5. Tally({x}, 1, 0, 0, 0) /\ Tally({}, 0, 0, 0, 0)
    BY <2>2, TallyOne, TallyNone
  <2>6. -1 = (0 - 1) - (0 - 0) /\ 0 = (0 - 0) - (0 - 0)
    OBVIOUS
  <2> QED
    BY ONLY <2>3, <2>4, <2>5, <2>6, ShopInv, FollowsTally
<1>7. FinishBody(t) => w.kind \in {"item", "chunk"}
  <2>1. FinishBody(t) => pc(t) = "body" /\ pc(t) # "idle"
    BY DEF FinishBody
  <2>2. pc(t) = "body" => Top(t) \in Frame /\ Top(t).pc = "body"
    <3>1. pc(t) = "body" => On(t, Len(stack[t]), Top(t)) /\ pc(t) = Top(t).pc
      BY Below1
    <3> QED
      BY <3>1, EveryFrame
  <2>3. FinishBody(t) => w \in Works
    BY <1>1, <2>1, <2>2, RunShape, RunIsBody
  <2> QED
    BY <2>3 DEF Works, Chunked, ChunkWork, ItemWork
<1> QED
  BY <1>4, <1>5, <1>6, <1>7 DEF RunStep

\* A spread counts its chunks before it hands them out.
LEMMA SpreadFollowed ==
  ASSUME WideEnough, ShopInv, Nest, setup.faults \cap {"part", "bulk"} = {}, NEW t \in Threads, SpreadStep(t)
  PROVE  Followed
<1>1. PICK f, s : f = Top(t) /\ s = f.id
  OBVIOUS
<1>2. CASE \/ SpreadLook(t) \/ PartNotify(t) \/ BulkWake(t) \/ CallerWaits(t)
           \/ PartEnqueue(t) \/ BulkEnqueue(t) \/ Join(t)
  <2>1. workItems' = workItems /\ inFlight' = inFlight
    BY <1>2 DEF SpreadLook, PartNotify, BulkWake, CallerWaits, PartEnqueue, BulkEnqueue, Join, shared
  <2>2. InHand' = InHand
    BY <1>2, SpreadLookKeeps, PartNotifyKeeps, BulkWakeKeeps, CallerWaitsKeeps, PartEnqueueKeeps,
       BulkEnqueueKeeps, JoinKeeps
  <2> QED
    BY SMTT(20), <2>1, <2>2, FollowedStill
<1>3. ASSUME NEW cs \in Seq(Ranges), Apart(cs), InHand' = InHand \cup Counts(s, Ends(cs)),
             Counts(s, Ends(cs)) \cap InHand = {}, workItems' = (workItems + Len(cs)) % HCRange, inFlight' = inFlight
      PROVE  Followed
  <2>1. PICK new, m : new = Counts(s, Ends(cs)) /\ m = Len(cs)
    OBVIOUS
  <2>2. m \in Int /\ Tally(new, m, 0, 0, 0)
    BY <1>3, <2>1, TallyCounts
  <2>3. Moved(new, {}) /\ Recounted(m, 0)
    BY <1>3, <2>1, <2>2 DEF Moved, Recounted
  <2>4. Tally({}, 0, 0, 0, 0) /\ m = (m - 0) - (0 - 0) /\ 0 = (0 - 0) - (0 - 0)
    BY <2>2, TallyNone
  <2> QED
    BY ONLY <2>2, <2>3, <2>4, ShopInv, FollowsTally
<1>4. CASE PartCount(t)
  BY <1>1, <1>3, <1>4, PartCountKeeps
<1>5. CASE BulkInit(t)
  BY <1>1, <1>3, <1>5, BulkInitKeeps
<1>6. CASE CallerWork(t)
  <2>1. PICK x : x = Share("count", f.id, f.callerEnd)
    OBVIOUS
  <2>2. /\ InHand' = InHand \cup {x} /\ x \notin InHand
        /\ workItems' = (workItems + 1) % HCRange /\ inFlight' = inFlight
    BY <1>1, <1>6, <2>1, CallerWorkKeeps
  <2>3. Moved({x}, {}) /\ Recounted(1, 0)
    BY <2>2 DEF Moved, Recounted
  <2>4. Tally({x}, 1, 0, 0, 0) /\ Tally({}, 0, 0, 0, 0)
    BY <2>1, ShareFields, TallyOne, TallyNone
  <2>5. 1 = (1 - 0) - (0 - 0) /\ 0 = (0 - 0) - (0 - 0)
    OBVIOUS
  <2> QED
    BY ONLY <2>3, <2>4, <2>5, ShopInv, FollowsTally
<1>7. CASE SpreadReturn(t)
  <2>1. PICK x : x = Share("call", f.id, 0)
    OBVIOUS
  <2>2. InHand' = InHand \ {x} /\ workItems' = workItems /\ inFlight' = inFlight
    BY <1>1, <1>7, <2>1, SpreadReturnKeeps
  <2>3. x.kind = "call"
    BY <2>1, ShareFields
  <2>4. CASE x \in InHand
    <3>1. InHand' = (InHand \cup {}) \ {x} /\ {} \cap InHand = {} /\ {x} \subseteq InHand
      BY <2>2, <2>4
    <3>2. \A y \in {} \cup {x} : y.kind \notin InWork \cup {"owed", "track"}
      BY <2>3 DEF InWork
    <3> QED
      BY <2>2, <3>1, <3>2, FollowedLoosely
  <2>5. CASE x \notin InHand
    <3>1. InHand' = InHand
      BY <2>2, <2>5
    <3> QED
      BY <2>2, <3>1, FollowedStill
  <2> QED
    BY <2>4, <2>5
<1>8. ~BulkUndo(t)
  <2>1. SUFFICES ASSUME pc(t) = "bulk_undo" PROVE FALSE
    BY DEF BulkUndo
  <2>2. On(t, Len(stack[t]), Top(t)) /\ pc(t) = Top(t).pc
    BY <2>1, Below1
  <2>3. Neat(Top(t))
    BY <2>2 DEF Nest, On
  <2> QED
    BY <2>1, <2>2, <2>3 DEF Neat
<1> QED
  BY <1>2, <1>4, <1>5, <1>6, <1>7, <1>8 DEF SpreadStep

LEMMA ProgressFollowed ==
  ASSUME WideEnough, ShopInv, Nest, setup.faults \cap {"part", "bulk"} = {}, NEW t \in Threads, Progress(t)
  PROVE  Followed
<1>1. CASE WorkerStep(t) \/ StealTake(t) \/ StealLook(t) \/ StealEnds(t) \/ StopStep(t)
  <2>1. InHand' = InHand
    BY <1>1, OwnDequeueKeeps, LoopKeeps, StealTakeKeeps, StealLookKeeps, StealEndsKeeps, StopStepKeeps
       DEF WorkerStep
  <2>2. workItems' = workItems /\ inFlight' = inFlight
    <3>1. CASE WorkerStep(t)
      BY <3>1 DEF WorkerStep, OwnDequeue, ExitCheck, Wait, Woken, WakeLeft, WakeRight, shared
    <3>2. CASE StealTake(t) \/ StealLook(t) \/ StealEnds(t)
      BY <3>2 DEF StealTake, StealLook, StealEnds, shared
    <3>3. CASE StopStep(t)
      BY Zenon, <3>3 DEF StopStep, StopFlag, StopWake, StopJoin, CreateNext, shared
    <3> QED
      BY <1>1, <3>1, <3>2, <3>3
  <2> QED
    BY <2>1, <2>2, FollowedStill
<1> QED
  BY <1>1, RunFollowed, FireFollowed, SpreadFollowed DEF Progress

LEMMA CountersKeeps ==
  ASSUME WideEnough, ShopInv, ShopInv', Nest, CountersOK, setup.faults \cap {"part", "bulk"} = {}, [Next]_vars
  PROVE  CountersOK'
<1>1. CASE UNCHANGED vars
  <2>1. InHand' = InHand
    BY <1>1, StillKeeps
  <2>2. setup' = setup /\ workItems' = workItems /\ inFlight' = inFlight
    BY <1>1 DEF vars, shared
  <2>3. Follows(0, 0)
    BY <2>1, <2>2, FollowsStill
  <2> QED
    BY <2>2, <2>3, FollowsWrapped
<1>2. ASSUME NEW t \in Threads, Progress(t) \/ Call(t)
      PROVE  CountersOK'
  <2>1. setup' = setup
    BY <1>2, SetupStays
  <2>2. Followed
    BY <1>2, ProgressFollowed, CallFollowed
  <2>3. PICK c \in Int, d \in Int : Follows(c, d)
    BY <2>2 DEF Followed
  <2> QED
    BY <2>1, <2>3, FollowsWrapped
<1> QED
  BY <1>1, <1>2 DEF Next

\* Nothing is counted in a shop that starts.
LEMMA CountersStart ==
  ASSUME Init
  PROVE  CountersOK
<1>1. InHand = {}
  BY InitKeeps
<1>2. \A K : OfKinds(K) = 0
  BY <1>1, FS_EmptySet DEF OfKinds
<1>3. workItems = 0 /\ inFlight = 0
  BY DEF Init
<1>4. \A m \in Nat : 0 = 0 - 0 + 0 * m
  OBVIOUS
<1>5. HCRange \in Nat /\ SizeRange \in Nat
  BY ShopAssumption
<1>6. 0 \in Int
  OBVIOUS
<1> QED
  BY <1>2, <1>3, <1>4, <1>5, <1>6 DEF CountersOK

\* At rest nobody has anything.
LEMMA RestHasNothing ==
  ASSUME ShopInv, Stuck, NoStrandedWork
  PROVE  InHand = {}
<1>1. SUFFICES ASSUME NEW x \in InHand PROVE FALSE
  OBVIOUS
<1>2. \A p \in Threads : queue[p] = <<>>
  BY DEF NoStrandedWork
<1>3. Waiting = {}
  <2>1. ASSUME NEW y \in Waiting PROVE FALSE
    <3>1. PICK u \in Threads : \E i \in DOMAIN Queues[u] : y \in Queues[u][i]
      BY <2>1 DEF Waiting, Taken
    <3>2. DOMAIN Queues[u] = 1..Len(queue[u])
      BY <3>1 DEF Queues, Holdings
    <3>3. 1..Len(queue[u]) = {}
      <4>1. queue[u] = <<>> /\ Len(<<>>) = 0 /\ 1..0 = {}
        BY <1>2, <3>1, Tuples
      <4> QED
        BY <4>1
    <3> QED
      BY <3>1, <3>2, <3>3
  <2> QED
    BY <2>1
<1>4. ASSUME NEW u, NEW i, NEW f, On(u, i, f), x \in Claims(f)
      PROVE  FALSE
  <2>1. u \in Threads /\ i \in 1..Len(stack[u]) /\ f = stack[u][i]
    BY <1>4 DEF On
  <2>2. pc(u) \in {"wait", "idle"}
    BY <2>1, OutsideIdle DEF Stuck, Asleep, NoStrandedWork
  <2>3. pc(u) # "idle"
    <3>1. Len(stack[u]) \in Nat /\ (Len(stack[u]) # 0 <=> pc(u) # "idle")
      BY <2>1, IdleIs
    <3> QED
      BY <2>1, <3>1
  <2>4. PICK n : n = Len(stack[u])
    OBVIOUS
  <2>5. n \in Nat \ {0} /\ On(u, n, Top(u)) /\ Top(u) = stack[u][n] /\ Top(u).pc = "wait"
    BY <2>1, <2>2, <2>3, <2>4, Below1
  <2>6. n = 1
    BY <2>4, <2>5, EveryFrame DEF Fits, WorkerPcs
  <2>7. f.pc = "wait" /\ f \in Frame
    BY <2>1, <2>4, <2>5, <2>6, EveryFrame
  <2>8. Claims(f) = {}
    BY <2>7 DEF Claims, FirePcs, SpreadPcs, PartPcs, BulkPcs
  <2> QED
    BY <1>4, <2>8
<1>5. ASSUME NEW w \in Works, x \in WorkShares(w), WorkShares(w) \subseteq Waiting
      PROVE  FALSE
  BY <1>3, <1>5
<1> QED
  BY <1>4, <1>5, Holder

LEMMA RestSettles ==
  ASSUME ShopInv, CountersOK, setup.faults \cap {"part", "bulk"} = {}, NoStrandedWork
  PROVE  CountersSettle
<1>1. SUFFICES ASSUME Stuck PROVE workItems = 0 /\ inFlight = 0
  BY DEF CountersSettle
<1>2. \A K : OfKinds(K) = 0
  BY <1>1, RestHasNothing, FS_EmptySet DEF OfKinds
<1>3. PICK p \in Int, q \in Int : workItems = 0 - 0 + p * HCRange /\ inFlight = 0 - 0 + q * SizeRange
  BY <1>2 DEF CountersOK
<1>4. HCRange \in Nat \ {0} /\ SizeRange \in Nat \ {0}
  BY ShopAssumption
<1>5. workItems \in 0..(HCRange - 1) /\ inFlight \in 0..(SizeRange - 1)
  BY DEF ShopInv, Typed
<1>6. \A z \in Int : \A m \in Nat \ {0} : \A x \in 0..(m - 1) : x = 0 - 0 + z * m => x = 0
  <2>1. ASSUME NEW z \in Int, NEW m \in Nat \ {0}, NEW x \in 0..(m - 1), x = 0 - 0 + z * m
        PROVE  x = 0
    <3>1. x = z * m /\ 0 <= z * m /\ z * m < m
      BY <2>1
    <3> QED
      BY <3>1, NoMultiple
  <2> QED
    BY <2>1
<1> QED
  BY <1>3, <1>4, <1>5, <1>6

\* Whatever was fired, spread or stopped, and however far the counters have wrapped, both
\* are back at zero when the pool sleeps and the user threads are done or wait: in a shop
\* as in NothingStranded, where only the queue of a fire may refuse.
THEOREM CountersSettled ==
  ASSUME WideEnough, \A s \in Setups : s.faults \subseteq {"fire"}
  PROVE  SafeSpec => []CountersSettle
<1>1. ShopInv => setup.faults \cap {"part", "bulk"} = {}
  BY DEF ShopInv, Typed
<1>2. ASSUME ShopInv /\ Nest, (ShopInv /\ Nest)', CountersOK, [Next]_vars
      PROVE  CountersOK'
  BY <1>1, <1>2, CountersKeeps
<1>3. ShopInv /\ Nest /\ CountersOK /\ NoStrandedWork => CountersSettle
  BY <1>1, RestSettles
<1>4. SafeSpec => []NoStrandedWork
  BY NothingStranded
<1> QED
  BY <1>2, <1>3, <1>4, CountersStart, NestInvariance, PTL DEF SafeSpec
--------------------------------------------------------------------------------
(* No worker sleeps on what it is woken for *)

\* The workers of any pool.
Places == 0..(Most - 1)

\* A worker that has seen its own queue empty since it was woken, and sleeps or may go to
\* sleep; what it is to be woken for; and that this comes about.
Drowses(w) == Len(stack[w]) # 0 /\ stack[w][1].pc \in {"steal", "exit", "wait"}
Told(w)    == \E x \in ToSet(queue[w]) : x.kind = "item" \/ w = 0
Roused(w)  == tokens[w] > 0 \/ BeingWoken(w)

Rousing     == \A w \in Places : Drowses(w) /\ Told(w) => Roused(w)
\* The shared queue of a thread is its own: a worker puts nothing there.
BulkByUsers == \A t \in Threads : pc(t) \in {"bulk_init", "bulk_enqueue"} => t \in Callers

LEMMA PlacesAre ==
  ASSUME ShopInv, NEW w \in Places
  PROVE  /\ w \in Threads /\ w \notin Callers /\ w \in Nat
         /\ tokens \in [Places -> Nat] /\ tokens[w] \in Nat
<1>1. Most \in Nat /\ NumCallers \in Nat
  BY MostIs, ShopAssumption DEF ShopInv, Typed
<1>2. w \in Threads /\ w \notin Callers /\ w \in Nat
  BY <1>1 DEF Places, Threads, Callers
<1> QED
  BY <1>2 DEF Places, ShopInv, Typed

\* A frame in the place of the one on top.
LEMMA GoesTo ==
  ASSUME ShopInv, ShopInv', NEW t \in Threads, pc(t) # "idle", NEW g, Goto(t, g), NEW n, n = Len(stack[t])
  PROVE  /\ n \in Nat \ {0} /\ Len(stack'[t]) = n /\ stack'[t][n] = g /\ g \in Frame
         /\ pc(t)' = g.pc /\ Top(t)' = g
<1>1. stack \in [Threads -> Seq(Frame)] /\ stack' \in [Threads -> Seq(Frame)]
  BY DEF ShopInv, Typed
<1>2. g \in Frame
  BY <1>1, Came
<1>3. PICK G : G = <<g>>
  OBVIOUS
<1>4. Len(G) = 1 /\ G[1] = g /\ 1 \in 1..Len(G)
  BY <1>3, Tuples
<1>5. n \in Nat \ {0} /\ Shift(Frame, Threads, stack, stack', t, n - 1, G)
  BY <1>1, <1>2, <1>3, Turns
<1>6. Len(stack'[t]) = (n - 1) + 1 /\ stack'[t][(n - 1) + 1] = g
  BY <1>4, <1>5 DEF Shift
<1>7. (n - 1) + 1 = n
  BY <1>5
<1>8. Len(stack'[t]) = n /\ stack'[t][n] = g
  BY <1>6, <1>7
<1> QED
  BY <1>2, <1>5, <1>8, TopNext

\* The actions of the loop of a worker, by their places in it.
LEMMA LoopActs ==
  ASSUME NEW t, Progress(t) \/ Call(t), pc(t) \in {"own", "woken", "left", "right", "gone"}
  PROVE  OwnDequeue(t) \/ Woken(t) \/ WakeLeft(t) \/ WakeRight(t)
<1>1. ~Call(t)
  BY DEF Call, FireCall, SpreadCall, StopCall, ResizeCall, UserCode, Users
<1>2. ~(StealTake(t) \/ StealLook(t) \/ StealEnds(t) \/ RunStep(t) \/ FireStep(t) \/ StopStep(t))
  BY Zenon DEF StealTake, StealLook, StealEnds, RunStep, FinishBody, WorkCompleted, FireStep, FireTarget, FireSpill,
         FireEnqueue, FireNotify, FireCount, FireTrack, StopStep, StopFlag, StopWake, StopJoin, CreateNext
<1>3. ~SpreadStep(t)
  BY DEF SpreadStep, SpreadLook, PartCount, PartEnqueue, PartNotify, BulkInit, BulkEnqueue, BulkWake,
         BulkUndo, CallerWork, CallerWaits, Join, SpreadReturn
<1>4. ~(ExitCheck(t) \/ Wait(t))
  BY DEF ExitCheck, Wait
<1> QED
  BY <1>1, <1>2, <1>3, <1>4 DEF Progress, WorkerStep

\* The actions that put work into a queue or wake a worker, likewise.
LEMMA PutActs ==
  ASSUME NEW t, Progress(t) \/ Call(t)
  PROVE  /\ pc(t) = "enqueue" => FireEnqueue(t)
         /\ pc(t) = "part_enqueue" => PartEnqueue(t)
         /\ pc(t) = "bulk_enqueue" => BulkEnqueue(t)
         /\ pc(t) = "notify" => FireNotify(t)
         /\ pc(t) = "part_notify" => PartNotify(t)
         /\ pc(t) = "look" => SpreadLook(t)
<1> SUFFICES ASSUME pc(t) \in {"enqueue", "part_enqueue", "bulk_enqueue", "notify", "part_notify", "look"}
             PROVE  FireEnqueue(t) \/ PartEnqueue(t) \/ BulkEnqueue(t) \/ FireNotify(t) \/ PartNotify(t)
                      \/ SpreadLook(t)
  BY DEF FireEnqueue, PartEnqueue, BulkEnqueue, FireNotify, PartNotify, SpreadLook
<1>1. ~Call(t)
  BY DEF Call, FireCall, SpreadCall, StopCall, ResizeCall, UserCode, Users
<1>2. ~(StealTake(t) \/ StealLook(t) \/ StealEnds(t) \/ RunStep(t) \/ StopStep(t))
  BY Zenon DEF StealTake, StealLook, StealEnds, RunStep, FinishBody, WorkCompleted, StopStep, StopFlag, StopWake,
         StopJoin, CreateNext
<1>3. ~(FireTarget(t) \/ FireSpill(t) \/ FireCount(t) \/ FireTrack(t))
  BY DEF FireTarget, FireSpill, FireCount, FireTrack
<1>4. ~(PartCount(t) \/ BulkInit(t) \/ BulkWake(t) \/ BulkUndo(t) \/ CallerWork(t) \/ CallerWaits(t)
          \/ Join(t) \/ SpreadReturn(t))
  BY DEF PartCount, BulkInit, BulkWake, BulkUndo, CallerWork, CallerWaits, Join, SpreadReturn
<1>5. ~WorkerStep(t)
  BY DEF WorkerStep, OwnDequeue, ExitCheck, Wait, Woken, WakeLeft, WakeRight
<1> QED
  BY <1>1, <1>2, <1>3, <1>4, <1>5 DEF Progress, FireStep, SpreadStep

\* A worker's loop is drowsy only when it was before, or has just found its queue empty.
LEMMA DrowsesFrom ==
  ASSUME ShopInv, ShopInv', Nest, NEW t \in Threads, Progress(t) \/ Call(t), Acts(t),
         NEW w \in Places, Drowses(w)'
  PROVE  Drowses(w) \/ ~Told(w)'
<1>1. w \in Threads /\ w \notin Callers
  BY PlacesAre
<1>2. PICK n : n = Len(stack[t])
  OBVIOUS
<1>3. /\ \A u \in Threads : u # t => stack'[u] = stack[u]
      /\ Went(t, n) \/ Picked(t, n) \/ Begun(t, n) \/ Quit(t, n)
  BY <1>2, ActsIs
<1>4. CASE w # t
  BY <1>1, <1>3, <1>4 DEF Drowses
<1>5. n \in Nat /\ (n # 0 <=> pc(t) # "idle")
  BY <1>2, IdleIs
<1>6. ASSUME n # 0, stack'[t][1] = stack[t][1], w = t
      PROVE  Drowses(w)
  BY <1>2, <1>6 DEF Drowses
<1>7. CASE w = t /\ n = 0
  <2>1. PICK g : g = stack'[t][n + 1] /\ g.pc \in {"body", "target", "look", "stop"}
    BY <1>3, <1>7 DEF Went, Picked, Begun, Quit
  <2>2. g = stack'[w][1]
    BY <1>7, <2>1
  <2> QED
    BY <2>1, <2>2 DEF Drowses
<1>8. CASE w = t /\ n >= 2
  <2>1. Keeps(t, n - 1)
    <3>1. Begun(t, n) => Keeps(t, n)
      BY DEF Begun
    <3>2. Keeps(t, n) => Keeps(t, n - 1)
      BY <1>5 DEF Keeps
    <3> QED
      BY <1>3, <3>1, <3>2 DEF Went, Picked, Quit
  <2>2. 1 \in 1..(n - 1)
    BY <1>5, <1>8
  <2>3. stack'[t][1] = stack[t][1]
    BY <2>1, <2>2 DEF Keeps
  <2> QED
    BY <1>6, <1>8, <2>3
<1>9. CASE w = t /\ n = 1
  <2>1. PICK f : f = stack[t][1]
    OBVIOUS
  <2>2. pc(t) # "idle"
    BY <1>5, <1>9
  <2>3. On(t, 1, f) /\ f = Top(t) /\ pc(t) = f.pc
    <3>1. On(t, n, Top(t)) /\ Top(t) = stack[t][n] /\ pc(t) = Top(t).pc
      BY <1>2, <2>2, Below1
    <3> QED
      BY <1>9, <2>1, <3>1
  <2>4. f.pc \in WorkerPcs
    <3>1. Fits(t, f, 1, Len(stack[t]))
      BY <2>3, EveryFrame
    <3> QED
      BY <1>1, <1>9, <3>1 DEF Fits
  <2>5. CASE f.pc \in {"steal", "exit", "wait"}
    BY <1>2, <1>9, <2>1, <2>5 DEF Drowses
  <2>6. CASE f.pc \in {"own", "woken", "left", "right", "gone"}
    <3>1. OwnDequeue(t) \/ Woken(t) \/ WakeLeft(t) \/ WakeRight(t)
      BY <2>3, <2>6, LoopActs
    <3>2. CASE OwnDequeue(t) /\ queue[t] = <<>>
      <4>1. queue' = queue
        BY <3>2 DEF OwnDequeue
      <4>2. ToSet(queue'[w]) = {}
        <5>1. queue'[w] = <<>>
          BY <1>9, <3>2, <4>1
        <5> QED
          BY <5>1 DEF ToSet
      <4> QED
        BY <4>2 DEF Told
    <3>3. CASE OwnDequeue(t) /\ queue[t] # <<>>
      <4>1. ~Went(t, n) /\ ~Quit(t, n)
        <5>1. Len(stack'[t]) = n + 1
          <6>1. Enter(t, RunFrame(Head(queue[t])))
            BY <3>3 DEF OwnDequeue
          <6>2. stack \in [Threads -> Seq(Frame)] /\ stack' \in [Threads -> Seq(Frame)]
            BY SMTT(20) DEF ShopInv, Typed
          <6>3. stack[t] \in Seq(Frame) /\ stack'[t] = Append(stack[t], RunFrame(Head(queue[t])))
            BY <6>1, <6>2 DEF Enter
          <6> QED
            BY <1>2, <6>3
        <5> QED
          BY <1>5, <5>1 DEF Went, Quit
      <4>2. ~Picked(t, n)
        BY <3>3 DEF Picked, OwnDequeue
      <4>3. Keeps(t, n) /\ 1 \in 1..n
        BY <1>3, <1>9, <4>1, <4>2 DEF Begun
      <4> QED
        BY <1>6, <1>9, <4>3 DEF Keeps
    <3>4. CASE Woken(t) \/ WakeLeft(t) \/ WakeRight(t)
      <4>1. PICK l \in {"left", "right", "own"} : GotoPc(t, l)
        BY <3>4 DEF Woken, WakeLeft, WakeRight
      <4>2. PICK g : g = [Top(t) EXCEPT !.pc = l]
        OBVIOUS
      <4>3. Goto(t, g)
        BY <4>1, <4>2 DEF GotoPc
      <4>4. stack'[t][1] = g
        BY <1>2, <1>9, <2>2, <4>3, GoesTo
      <4>5. g.pc = l
        <5>1. f \in Frame
          BY <2>3, EveryFrame
        <5>2. [f EXCEPT !.pc = l] = StealRec(l, f.seen)
          BY Zenon, <2>4, <5>1, WorkerShape
        <5> QED
          BY <2>3, <4>2, <5>2 DEF StealRec
      <4> QED
        BY <1>9, <4>4, <4>5 DEF Drowses
    <3> QED
      BY <3>1, <3>2, <3>3, <3>4
  <2> QED
    BY <2>4, <2>5, <2>6 DEF WorkerPcs
<1> QED
  BY <1>4, <1>5, <1>7, <1>8, <1>9

\* Whoever puts into a worker's queue what it is to be woken for goes on to wake it.
LEMMA ToldFrom ==
  ASSUME ShopInv, ShopInv', BulkByUsers, NEW t \in Threads, Progress(t) \/ Call(t), NEW w \in Places,
         Told(w)', ~Told(w)
  PROVE  BeingWoken(w)'
<1>1. w \in Threads /\ w \notin Callers /\ w \in Nat
  BY PlacesAre
<1>2. PICK x \in ToSet(queue'[w]) : x.kind = "item" \/ w = 0
  BY DEF Told
<1>3. x \notin ToSet(queue[w])
  BY <1>2 DEF Told
<1>4. pc(t) \in Putting /\ (x.kind = "chunk" \/ pc(t) = "enqueue")
  BY <1>1, <1>3, QueueFrom
<1>5. PICK f : f = Top(t)
  OBVIOUS
<1>6. pc(t) # "idle"
  BY <1>4 DEF Putting
<1>7. f \in Frame /\ f.pc = pc(t)
  BY <1>5, <1>6, Mine
<1>8. queue'[w] # queue[w] /\ queue \in [Threads -> Seq(Works)]
  BY <1>3 DEF ShopInv, Typed
<1>9. ASSUME NEW v, NEW q, queue' = [queue EXCEPT ![v] = q], w # v
      PROVE  FALSE
  BY <1>1, <1>8, <1>9
<1>10. CASE pc(t) = "enqueue"
  <2>1. FireEnqueue(t)
    BY <1>10, PutActs
  <2>2. PICK g : g = FireFrame("notify", f.item, f.target, TRUE)
    OBVIOUS
  <2>3. queue' = [queue EXCEPT ![f.target] = Append(queue[f.target], ItemWork(f.item))] /\ Goto(t, g)
    BY <1>5, <1>8, <2>1, <2>2 DEF FireEnqueue
  <2>4. w = f.target
    BY <1>9, <2>3
  <2>5. pc(t)' = g.pc /\ Top(t)' = g
    BY <1>6, <2>3, GoesTo
  <2>6. g.pc = "notify" /\ g.target = w
    BY <2>2, <2>4 DEF FireFrame
  <2> QED
    BY <2>5, <2>6 DEF BeingWoken
<1>11. CASE pc(t) = "part_enqueue"
  <2>1. PartEnqueue(t) /\ w = 0
    BY <1>2, <1>4, <1>11, PutActs
  <2>2. f.k = 1
    <3>1. \E q : queue' = [queue EXCEPT ![f.k - 1] = q]
      BY <1>5, <1>8, <2>1 DEF PartEnqueue
    <3>2. w = f.k - 1
      BY <1>9, <3>1
    <3>3. f.k \in Nat
      BY Zenon, <1>7, <1>11, SpreadShape DEF SpreadPcs, PartPcs
    <3> QED
      BY SMTT(20), <2>1, <3>2, <3>3
  <2>3. PICK g : g = [f EXCEPT !.pc = "part_notify"]
    OBVIOUS
  <2>4. Goto(t, g)
    BY <1>5, <2>1, <2>2, <2>3 DEF PartEnqueue
  <2>5. g.pc = "part_notify"
    <3>1. f.pc \in SpreadPcs /\ "part_notify" \in SpreadPcs
      BY <1>7, <1>11 DEF SpreadPcs, PartPcs
    <3> QED
      BY Zenon, <1>7, <2>3, <3>1, SpreadOn
  <2>6. pc(t)' = "part_notify"
    BY <1>6, <2>4, <2>5, GoesTo
  <2> QED
    BY <2>1, <2>6 DEF BeingWoken
<1>12. CASE pc(t) = "bulk_enqueue"
  <2>1. BulkEnqueue(t) /\ t \in Callers
    BY <1>12, PutActs DEF BulkByUsers
  <2>2. \E q : queue' = [queue EXCEPT ![t] = q]
    BY <1>8, <2>1 DEF BulkEnqueue
  <2> QED
    BY <1>1, <1>9, <2>1, <2>2
<1> QED
  BY <1>4, <1>10, <1>11, <1>12 DEF Putting

\* Who is about to wake it has done so, or still is to.
LEMMA RousedOn ==
  ASSUME ShopInv, ShopInv', Nest, NEW t \in Threads, Progress(t) \/ Call(t), Acts(t),
         NEW w \in Places, BeingWoken(w)
  PROVE  Roused(w)'
<1>1. tokens \in [Places -> Nat] /\ tokens[w] \in Nat
  BY PlacesAre
<1>2. PICK u \in Threads : \/ pc(u) = "notify" /\ Top(u).target = w
                           \/ pc(u) = "part_notify" /\ w = 0
  BY DEF BeingWoken
<1>3. CASE u # t
  <2>1. stack'[u] = stack[u]
    BY <1>3, ActsIs
  <2>2. pc(u)' = pc(u) /\ Top(u)' = Top(u)
    BY <2>1, SamePc
  <2> QED
    BY <1>2, <2>2 DEF Roused, BeingWoken
<1>4. CASE u = t
  <2>1. Notify(w)
    BY <1>2, <1>4, PutActs DEF FireNotify, PartNotify
  <2>2. tokens'[w] = tokens[w] + 1
    BY <1>1, <2>1 DEF Notify
  <2> QED
    BY <1>1, <2>2 DEF Roused
<1> QED
  BY <1>3, <1>4

\* Only the worker itself uses its wake-up.
LEMMA TokenOn ==
  ASSUME ShopInv, ShopInv', NEW t \in Threads, Progress(t) \/ Call(t), pool' = pool,
         StopJoin(t) => tokens' = tokens, NEW w \in Places, tokens[w] > 0, ~(tokens'[w] > 0)
  PROVE  ~Drowses(w)'
<1>1. tokens \in [Places -> Nat] /\ tokens[w] \in Nat /\ w \in Threads /\ w \notin Callers
  BY PlacesAre
<1>2. tokens' # tokens
  OBVIOUS
<1>3. ASSUME NEW v, Notify(v)
      PROVE  FALSE
  <2>1. tokens'[w] = IF w = v THEN tokens[w] + 1 ELSE tokens[w]
    BY <1>1, <1>3 DEF Notify
  <2> QED
    BY <1>1, <2>1
<1>4. ~Call(t)
  BY <1>2 DEF Call, FireCall, SpreadCall, StopCall, ResizeCall
<1>5. WorkerStep(t) => Wait(t)
  BY <1>2, <1>3 DEF WorkerStep, OwnDequeue, ExitCheck, Woken, WakeLeft, WakeRight
<1>6. ~(StealTake(t) \/ StealLook(t) \/ StealEnds(t) \/ RunStep(t))
  BY <1>2 DEF StealTake, StealLook, StealEnds, RunStep, FinishBody, WorkCompleted
<1>7. ~FireStep(t)
  BY <1>2, <1>3 DEF FireStep, FireTarget, FireSpill, FireEnqueue, FireNotify, FireCount, FireTrack
<1>8. ~SpreadStep(t)
  BY <1>2, <1>3 DEF SpreadStep, SpreadLook, PartCount, PartEnqueue, PartNotify, BulkInit, BulkEnqueue, BulkWake,
                    BulkUndo, CallerWork, CallerWaits, Join, SpreadReturn
<1>9. ~StopStep(t)
  BY <1>2, <1>3 DEF StopStep, StopFlag, StopWake, CreateNext
<1>10. Wait(t)
  BY <1>4, <1>5, <1>6, <1>7, <1>8, <1>9 DEF Progress
<1>11. t = w
  BY <1>1, <1>10 DEF Wait
<1>12. PICK n, f, g : n = Len(stack[t]) /\ f = Top(t) /\ g = [f EXCEPT !.pc = "woken"]
  OBVIOUS
<1>13. pc(t) # "idle" /\ pc(t) = "wait" /\ Goto(t, g)
  BY <1>10, <1>12 DEF Wait, GotoPc
<1>14. On(t, n, f) /\ pc(t) = f.pc
  BY <1>12, <1>13, Below1
<1>15. f \in Frame /\ f.pc \in WorkerPcs /\ n = 1
  BY <1>13, <1>14, EveryFrame DEF Fits, WorkerPcs
<1>16. g.pc = "woken"
  <2>1. [f EXCEPT !.pc = "woken"] = StealRec("woken", f.seen)
    BY Zenon, <1>15, WorkerShape
  <2> QED
    BY <1>12, <2>1 DEF StealRec
<1>17. stack'[t][1] = g
  BY <1>12, <1>13, <1>15, GoesTo
<1> QED
  BY <1>11, <1>16, <1>17 DEF Drowses

LEMMA RousingOn ==
  ASSUME ShopInv, ShopInv', Nest, Rousing, BulkByUsers, NEW t \in Threads, Progress(t) \/ Call(t), Acts(t),
         pool' = pool, StopJoin(t) => tokens' = tokens
  PROVE  Rousing'
<1>1. SUFFICES ASSUME NEW w \in Places, Drowses(w)', Told(w)'
               PROVE  Roused(w)'
  BY DEF Rousing, Places
<1>2. Drowses(w)
  BY <1>1, DrowsesFrom
<1>3. CASE ~Told(w)
  BY <1>1, <1>3, ToldFrom DEF Roused
<1>4. CASE tokens[w] > 0
  BY <1>1, <1>4, TokenOn DEF Roused
<1>5. CASE BeingWoken(w)
  BY <1>5, RousedOn
<1> QED
  BY <1>2, <1>3, <1>4, <1>5 DEF Rousing, Roused

\* A frame in the place of the one on top, and another on it.
LEMMA GoesOver ==
  ASSUME ShopInv, ShopInv', NEW t \in Threads, pc(t) # "idle", NEW g, NEW h, GotoEnter(t, g, h)
  PROVE  pc(t)' = h.pc
<1>1. stack \in [Threads -> Seq(Frame)] /\ stack' \in [Threads -> Seq(Frame)]
  BY DEF ShopInv, Typed
<1>2. g \in Frame /\ h \in Frame
  BY <1>1, Came
<1>3. PICK n, G : n = Len(stack[t]) /\ G = <<g, h>>
  OBVIOUS
<1>4. Len(G) = 2 /\ G[2] = h /\ 2 \in 1..Len(G)
  BY <1>3
<1>5. n \in Nat \ {0} /\ Shift(Frame, Threads, stack, stack', t, n - 1, G)
  BY <1>1, <1>2, <1>3, Turns
<1>6. Len(stack'[t]) = (n - 1) + 2 /\ stack'[t][(n - 1) + 2] = h
  BY <1>4, <1>5 DEF Shift
<1>7. n + 1 \in Nat \ {0} /\ (n - 1) + 2 = n + 1
  BY <1>5
<1>8. Len(stack'[t]) = n + 1 /\ stack'[t][n + 1] = h
  BY <1>6, <1>7
<1> QED
  BY <1>7, <1>8, TopNext

\* What a return from a spread leaves on top.
LEMMA ReturnsTo ==
  ASSUME ShopInv, ShopInv', Nest, NEW t \in Threads, SpreadReturn(t)
  PROVE  pc(t)' \in {"idle", "body", "own", "steal", "caller_steal", "join", "return"}
<1>1. pc(t) = "return" /\ pc(t) # "idle" /\ Leave(t)
  BY DEF SpreadReturn
<1>2. PICK n : n = Len(stack[t])
  OBVIOUS
<1>3. /\ n \in Nat \ {0} /\ n - 1 \in Nat
      /\ n - 1 # 0 => Upon(stack[t][n - 1], Top(t))
  BY <1>1, <1>2, NestTop
<1>4. stack \in [Threads -> Seq(Frame)] /\ stack' \in [Threads -> Seq(Frame)]
  BY DEF ShopInv, Typed
<1>5. Shift(Frame, Threads, stack, stack', t, n - 1, <<>>)
  BY <1>1, <1>2, <1>4, Turns
<1>6. Len(stack'[t]) = n - 1 /\ \A i \in 1..(n - 1) : stack'[t][i] = stack[t][i]
  BY <1>3, <1>5 DEF Shift
<1>7. CASE n - 1 = 0
  BY <1>4, <1>6, <1>7, IdleNext
<1>8. CASE n - 1 # 0
  <2>1. n - 1 \in 1..(n - 1) /\ n - 1 \in Nat \ {0}
    BY <1>3, <1>8
  <2>2. pc(t)' = stack[t][n - 1].pc
    BY <1>6, <2>1, TopNext
  <2> QED
    BY <1>3, <1>8, <2>2 DEF Upon
<1> QED
  BY <1>7, <1>8

\* Where a spread goes that is past its look, and not at the shared queue yet.
LEMMA SpreadGoes ==
  ASSUME ShopInv, ShopInv', Nest, NEW t \in Threads, Progress(t) \/ Call(t), pc(t) \in SpreadPcs,
         pc(t) \notin {"look", "bulk_init", "bulk_enqueue"}
  PROVE  pc(t)' \notin {"bulk_init", "bulk_enqueue"}
<1>1. PICK f : f = Top(t)
  OBVIOUS
<1>2. f \in Frame /\ f.pc = pc(t) /\ f.pc \in SpreadPcs /\ pc(t) # "idle" /\ pc(t) \notin RunPcs
        /\ pc(t) \notin FirePcs /\ pc(t) \notin StopPcs /\ pc(t) \notin WorkerPcs
  BY <1>1, Spreading, Kinds
<1>3. /\ \A l \in SpreadPcs : [f EXCEPT !.pc = l].pc = l
      /\ [f EXCEPT !.k = @ + 1].pc = f.pc
      /\ \A l \in SpreadPcs : \A e : [f EXCEPT !.pc = l, !.callerEnd = e].pc = l
      /\ \A z : [f EXCEPT !.seen = z].pc = f.pc
      /\ \A l, z : [f EXCEPT !.seen = z, !.pc = l].pc = l
  <2>1. /\ \A l, e : [f EXCEPT !.pc = l, !.callerEnd = e]
                       = SpreadRec(l, f.id, f.chunks, f.k, e, f.wait, f.seen)
        /\ \A z : [f EXCEPT !.seen = z] = SpreadRec(f.pc, f.id, f.chunks, f.k, f.callerEnd, f.wait, z)
        /\ \A l, z : [f EXCEPT !.seen = z, !.pc = l]
                       = SpreadRec(l, f.id, f.chunks, f.k, f.callerEnd, f.wait, z)
        /\ \A l : [f EXCEPT !.pc = l] = SpreadRec(l, f.id, f.chunks, f.k, f.callerEnd, f.wait, f.seen)
    BY Zenon, <1>2, SpreadShape
  <2>2. [f EXCEPT !.k = @ + 1].pc = f.pc
    BY <1>2, NextK
  <2>3. ASSUME NEW l, NEW e, NEW z
        PROVE  /\ [f EXCEPT !.pc = l, !.callerEnd = e].pc = l /\ [f EXCEPT !.seen = z].pc = f.pc
               /\ [f EXCEPT !.seen = z, !.pc = l].pc = l /\ [f EXCEPT !.pc = l].pc = l
    <3>1. /\ [f EXCEPT !.pc = l, !.callerEnd = e] = SpreadRec(l, f.id, f.chunks, f.k, e, f.wait, f.seen)
          /\ [f EXCEPT !.seen = z] = SpreadRec(f.pc, f.id, f.chunks, f.k, f.callerEnd, f.wait, z)
          /\ [f EXCEPT !.seen = z, !.pc = l] = SpreadRec(l, f.id, f.chunks, f.k, f.callerEnd, f.wait, z)
          /\ [f EXCEPT !.pc = l] = SpreadRec(l, f.id, f.chunks, f.k, f.callerEnd, f.wait, f.seen)
      BY ONLY Zenon, <2>1
    <3> QED
      BY ONLY <3>1 DEF SpreadRec
  <2> QED
    BY SMTT(20), <2>2, <2>3
<1>4. ASSUME NEW g, Goto(t, g), g.pc \notin {"bulk_init", "bulk_enqueue"}
      PROVE  pc(t)' \notin {"bulk_init", "bulk_enqueue"}
  BY <1>2, <1>4, GoesTo
<1>5. ASSUME NEW l \in SpreadPcs, GotoPc(t, l), l \notin {"bulk_init", "bulk_enqueue"}
      PROVE  pc(t)' \notin {"bulk_init", "bulk_enqueue"}
  <2>1. Goto(t, [f EXCEPT !.pc = l])
    BY <1>1, <1>5 DEF GotoPc
  <2> QED
    BY <1>4, <1>5, <1>3, <2>1
<1>6. CASE PartCount(t) \/ CallerWaits(t) \/ Join(t)
  <2>1. GotoPc(t, "part_enqueue") \/ GotoPc(t, "join") \/ GotoPc(t, "return")
    BY <1>6 DEF PartCount, CallerWaits, Join
  <2>2. "part_enqueue" \in SpreadPcs /\ "join" \in SpreadPcs /\ "return" \in SpreadPcs
    BY DEF SpreadPcs, PartPcs
  <2> QED
    BY <1>5, <2>1, <2>2
<1>7. CASE PartEnqueue(t) \/ PartNotify(t)
  <2>1. PICK g : g = NextPart(f)
    OBVIOUS
  <2>2. pc(t) \in {"part_enqueue", "part_notify"}
    BY <1>7 DEF PartEnqueue, PartNotify
  <2>3. g.pc \in {"part", "own_work"}
    BY <1>1, <2>1, <2>2, NextPartIs
  <2>4. [f EXCEPT !.pc = "part_notify"].pc = "part_notify"
    <3>1. "part_notify" \in SpreadPcs
      BY SMTT(20) DEF SpreadPcs, PartPcs
    <3> QED
      BY <1>3, <3>1
  <2>5. Goto(t, g) \/ Goto(t, [f EXCEPT !.pc = "part_notify"])
    BY <1>1, <1>7, <2>1 DEF PartEnqueue, PartNotify
  <2> QED
    BY <1>4, <2>3, <2>4, <2>5
<1>8. CASE BulkWake(t) \/ BulkUndo(t)
  <2>1. "own_work" \in SpreadPcs
    BY DEF SpreadPcs
  <2>2. PICK g, h, k : /\ g = [f EXCEPT !.pc = "own_work"] /\ h = [f EXCEPT !.k = @ + 1]
                       /\ k = [f EXCEPT !.pc = "own_work", !.callerEnd = Len(hits[f.id])]
    OBVIOUS
  <2>3. g.pc = "own_work" /\ h.pc = f.pc /\ k.pc = "own_work"
    BY <1>3, <2>1, <2>2
  <2>4. Goto(t, g) \/ Goto(t, h) \/ Goto(t, k)
    BY <1>1, <1>8, <2>2 DEF BulkWake, BulkUndo
  <2> QED
    BY <1>2, <1>4, <2>3, <2>4
<1>9. CASE CallerWork(t) \/ StealTake(t)
  <2>1. \E g, w : GotoEnter(t, g, RunFrame(w))
    BY <1>9 DEF CallerWork, StealTake
  <2>2. \A w : RunFrame(w).pc = "body"
    BY DEF RunFrame
  <2> QED
    BY <1>2, <2>1, <2>2, GoesOver
<1>10. CASE StealLook(t)
  <2>1. PICK z : Goto(t, [f EXCEPT !.seen = z])
    BY <1>1, <1>10 DEF StealLook
  <2>2. PICK g : g = [f EXCEPT !.seen = z]
    OBVIOUS
  <2>3. Goto(t, g)
    BY <2>1, <2>2
  <2>4. g.pc = f.pc
    BY <1>3, <2>2
  <2> QED
    BY <1>2, <1>4, <2>3, <2>4
<1>11. CASE StealEnds(t)
  <2>1. pc(t) = "caller_steal"
    BY <1>2, <1>11 DEF StealEnds, WorkerPcs
  <2>2. Goto(t, [f EXCEPT !.seen = {}, !.pc = "join"])
    BY <1>1, <1>2, <1>11, <2>1 DEF StealEnds
  <2> QED
    BY <1>4, <1>3, <2>2
<1>12. CASE SpreadReturn(t)
  BY <1>12, ReturnsTo
<1>13. ~Call(t) /\ ~WorkerStep(t) /\ ~RunStep(t) /\ ~FireStep(t) /\ ~StopStep(t)
  <2>1. ~Call(t)
    BY <1>2 DEF Call, FireCall, SpreadCall, StopCall, ResizeCall, UserCode, Users, RunPcs
  <2>2. ~WorkerStep(t)
    BY <1>2 DEF WorkerStep, OwnDequeue, ExitCheck, Wait, Woken, WakeLeft, WakeRight, WorkerPcs
  <2>3. ~RunStep(t) /\ ~FireStep(t)
    BY <1>2 DEF RunStep, FinishBody, WorkCompleted, FireStep, FireTarget, FireSpill, FireEnqueue, FireNotify,
                FireCount, FireTrack, RunPcs, FirePcs
  <2>4. ~StopStep(t)
    BY Zenon, <1>2 DEF StopStep, StopFlag, StopWake, StopJoin, CreateNext, StopPcs
  <2> QED
    BY <2>1, <2>2, <2>3, <2>4
<1>14. ~(SpreadLook(t) \/ BulkInit(t) \/ BulkEnqueue(t))
  BY DEF SpreadLook, BulkInit, BulkEnqueue
<1> QED
  BY <1>6, <1>7, <1>8, <1>9, <1>10, <1>11, <1>12, <1>13, <1>14 DEF Progress, SpreadStep

\* Nobody but a user thread goes to the shared queue.
LEMMA BulkOn ==
  ASSUME ShopInv, ShopInv', Nest, BulkByUsers, NEW t \in Threads, Progress(t) \/ Call(t), Acts(t)
  PROVE  BulkByUsers'
<1>1. SUFFICES ASSUME NEW u \in Threads, pc(u)' \in {"bulk_init", "bulk_enqueue"}, u \notin Callers
               PROVE  FALSE
  BY DEF BulkByUsers
<1>2. CASE u # t
  <2>1. stack'[u] = stack[u]
    BY <1>2, ActsIs
  <2>2. pc(u)' = pc(u)
    BY <2>1, SamePc
  <2> QED
    BY <1>1, <2>2 DEF BulkByUsers
<1>3. CASE u = t
  <2>1. pc(t)' # "idle" /\ pc(t)' \in SpreadPcs
    BY <1>1, <1>3 DEF SpreadPcs, BulkPcs
  <2>2. PICK f, g \in Frame : f = Top(t) /\ pc(t) = f.pc /\ g = Top(t)' /\ pc(t)' = g.pc /\ Turned(f, g)
    BY <1>1, <1>3, <2>1, TopAfter
  <2>3. pc(t) \in SpreadPcs
    <3>1. g.pc \in SpreadPcs /\ g.pc \notin WorkerPcs /\ g.pc \notin FirePcs /\ g.pc \notin RunPcs
      BY <2>1, <2>2, Kinds
    <3>2. g.pc \notin {"stop_wake", "stopped"}
      BY <3>1 DEF SpreadPcs, PartPcs, BulkPcs
    <3> QED
      BY <2>2, <3>1, <3>2 DEF Turned
  <2>4. CASE pc(t) = "look"
    <3>1. SpreadLook(t)
      BY <2>4, PutActs
    <3>2. PICK h : h = SpreadPath(t, Top(t).id, Top(t).callerEnd, workItems)
      OBVIOUS
    <3>3. Goto(t, h) /\ pc(t) # "idle"
      BY <2>4, <3>1, <3>2 DEF SpreadLook
    <3>4. pc(t)' = h.pc
      BY <3>3, GoesTo
    <3>5. t \in Workers
      BY <1>1, <1>3, <3>3, OutsideIdle
    <3>6. h.pc \in {"alone", "own_work", "part"}
      <4>1. workItems \in Nat
        BY ShopAssumption DEF ShopInv, Typed
      <4>2. workItems > 0 \/ workItems = 0
        BY <4>1
      <4> QED
        BY <3>2, <3>5, <4>2 DEF SpreadPath, SpreadFrame
    <3> QED
      BY <1>1, <1>3, <3>4, <3>6
  <2>5. CASE pc(t) \in {"bulk_init", "bulk_enqueue"}
    BY <1>1, <1>3, <2>5 DEF BulkByUsers
  <2>6. CASE pc(t) \notin {"look", "bulk_init", "bulk_enqueue"}
    BY <1>1, <1>3, <2>3, <2>6, SpreadGoes
  <2> QED
    BY <2>4, <2>5, <2>6
<1> QED
  BY <1>2, <1>3

\* The pool is replaced, or a worker started.
LEMMA RenewedBulk ==
  ASSUME ShopInv, ShopInv', BulkByUsers, Renews
  PROVE  BulkByUsers'
<1>1. SUFFICES ASSUME NEW u \in Threads, pc(u)' \in {"bulk_init", "bulk_enqueue"}
               PROVE  u \in Callers
  BY DEF BulkByUsers
<1>2. CASE stack'[u] = stack[u]
  <2>1. pc(u)' = pc(u)
    BY <1>2, SamePc
  <2> QED
    BY <1>1, <2>1 DEF BulkByUsers
<1>3. CASE stack'[u] # stack[u]
  <2>1. PICK n : n = Len(stack'[u])
    OBVIOUS
  <2>2. n <= 1 /\ \A i \in 1..n : stack'[u][i].pc \in {"own", "create"}
    BY <1>3, <2>1 DEF Renews
  <2>3. stack' \in [Threads -> Seq(Frame)]
    BY DEF ShopInv, Typed
  <2>4. stack'[u] \in Seq(Frame)
    BY <2>3
  <2>5. n \in Nat
    BY <2>1, <2>4
  <2>6. n # 0
    BY <1>1, <2>1, <2>3, IdleNext
  <2>7. n \in 1..n /\ n \in Nat \ {0}
    BY <2>5, <2>6
  <2>8. pc(u)' = stack'[u][n].pc
    BY <2>1, <2>7, TopNext
  <2> QED
    BY <1>1, <2>2, <2>7, <2>8
<1> QED
  BY <1>2, <1>3

LEMMA StartedRousing ==
  ASSUME ShopInv, ShopInv', Rousing, Renews, NEW t \in Threads, CreateNext(t), Top(t).k < pool
  PROVE  Rousing'
<1>1. PICK f, k : f = Top(t) /\ k = Top(t).k
  OBVIOUS
<1>2. pc(t) = "create" /\ pc(t) \in StopPcs /\ pc(t) # "idle"
  BY DEF CreateNext, StopPcs
<1>3. f \in Frame /\ f.pc = pc(t) /\ t \in Callers /\ \A c \in Callers : c # t => stack[c] = <<>>
  BY <1>1, <1>2, StopAlone, Stopping
<1>4. k \in Nat
  BY <1>1, <1>2, <1>3, StopOn
<1>5. k \in Threads /\ k \notin Callers /\ stack[k] = <<>>
  <2>1. pool \in Nat /\ k < pool
    BY <1>1 DEF ShopInv, Typed
  <2>2. k \in Workers
    BY ONLY <1>4, <2>1 DEF Workers
  <2>3. k \in Threads /\ k \notin Callers
    BY <2>2, WorkersAre
  <2>4. \A w \in Threads : w \notin Callers /\ Top(t).k <= w => stack[w] = <<>>
    BY <1>2, <1>3 DEF ShopInv, StopOK
  <2> QED
    BY <1>1, <1>4, <2>3, <2>4
<1>6. /\ \A u \in Threads : u # t /\ u # k => stack'[u] = stack[u]
      /\ queue' = queue /\ tokens' = tokens
  BY <1>1, <1>3, <1>5 DEF CreateNext, ShopInv, Typed
<1>7. SUFFICES ASSUME NEW w \in Places, Drowses(w)', Told(w)'
               PROVE  Roused(w)'
  BY DEF Rousing, Places
<1>8. w \in Threads
  BY PlacesAre
<1>9. Drowses(w)
  <2>1. CASE stack'[w] = stack[w]
    BY <1>7, <2>1 DEF Drowses
  <2>2. CASE stack'[w] # stack[w]
    <3>1. Len(stack'[w]) <= 1 /\ \A i \in 1..Len(stack'[w]) : stack'[w][i].pc \in {"own", "create"}
      BY <1>8, <2>2 DEF Renews
    <3>2. stack'[w] \in Seq(Frame)
      BY <1>8 DEF ShopInv, Typed
    <3>3. Len(stack'[w]) # 0 => 1 \in 1..Len(stack'[w])
      BY <3>2
    <3> QED
      BY <1>7, <3>1, <3>3 DEF Drowses
  <2> QED
    BY <2>1, <2>2
<1>10. Told(w)
  BY <1>6, <1>7 DEF Told
<1>11. CASE tokens[w] > 0
  BY <1>6, <1>11 DEF Roused
<1>12. CASE BeingWoken(w)
  <2>1. PICK u \in Threads : \/ pc(u) = "notify" /\ Top(u).target = w
                             \/ pc(u) = "part_notify" /\ w = 0
    BY <1>12 DEF BeingWoken
  <2>2. u # t
    BY <1>2, <2>1
  <2>3. u # k
    BY <1>5, <2>1 DEF pc
  <2>4. stack'[u] = stack[u]
    BY <1>6, <2>2, <2>3
  <2>5. pc(u)' = pc(u) /\ Top(u)' = Top(u)
    BY <2>4, SamePc
  <2> QED
    BY <2>1, <2>5 DEF Roused, BeingWoken
<1> QED
  BY <1>9, <1>10, <1>11, <1>12 DEF Rousing, Roused

LEMMA ReplacedRousing ==
  ASSUME ShopInv, ShopInv', BulkByUsers, NEW t \in Threads, StopJoin(t), Top(t).then # "stopped"
  PROVE  Rousing' /\ BulkByUsers'
<1>1. pc(t) = "stop_wake" /\ pc(t) \in StopPcs
  BY Zenon DEF StopJoin, StopPcs
<1>2. t \in Callers
  BY <1>1, Stopping
<1>3. stack' = [p \in Threads |-> IF p \in Workers THEN <<>>
                                  ELSE IF p = t THEN <<StopFrame("create", "")>> ELSE stack[p]]
  BY Zenon DEF StopJoin
<1>4. ASSUME NEW w \in Places
      PROVE  ~Drowses(w)'
  <2>1. w \in Threads /\ w \notin Callers /\ w # t
    BY <1>2, PlacesAre
  <2>2. Len(stack'[w]) = 0
    <3>1. CASE w \in Workers
      BY Zenon, <1>3, <2>1, <3>1
    <3>2. CASE w \notin Workers
      <4>1. pc(w) = "idle"
        BY <2>1, <3>2, OutsideIdle
      <4>2. Len(stack[w]) = 0
        BY <2>1, <4>1, IdleIs
      <4> QED
        BY Zenon, <1>3, <2>1, <3>2, <4>2
    <3> QED
      BY <3>1, <3>2
  <2> QED
    BY <2>2 DEF Drowses
<1>5. ASSUME NEW u \in Threads, pc(u)' \in {"bulk_init", "bulk_enqueue"}
      PROVE  u \in Callers
  <2>1. PICK g : g = StopFrame("create", "")
    BY Zenon
  <2>2. stack'[u] \in {<<>>, <<g>>, stack[u]}
    BY Zenon, <1>3, <2>1
  <2>3. CASE stack'[u] = stack[u]
    <3>1. pc(u)' = pc(u)
      BY <2>3, SamePc
    <3> QED
      BY <1>5, <3>1 DEF BulkByUsers
  <2>4. CASE stack'[u] = <<>>
    <3>1. pc(u)' = "idle"
      BY <2>4 DEF pc
    <3> QED
      BY <1>5, <3>1
  <2>5. CASE stack'[u] = <<g>>
    <3>1. Len(stack'[u]) = 1 /\ stack'[u][1] = g /\ stack'[u] # <<>>
      BY <2>5, Tuples
    <3>2. pc(u)' = g.pc
      BY <3>1 DEF pc, Top
    <3> QED
      BY Zenon, <1>5, <2>1, <3>2 DEF StopFrame
  <2> QED
    BY <2>2, <2>3, <2>4, <2>5
<1> QED
  BY <1>4, <1>5 DEF Rousing, Places, BulkByUsers

LEMMA RousingKeeps ==
  ASSUME WideEnough, ShopInv, Nest, Rousing, BulkByUsers, [Next]_vars
  PROVE  Rousing' /\ BulkByUsers'
<1>1. ShopInv'
  BY NextKeeps
<1>2. CASE UNCHANGED vars
  <2>1. stack' = stack /\ queue' = queue /\ tokens' = tokens
    BY <1>2 DEF vars
  <2>2. \A u : pc(u)' = pc(u) /\ Top(u)' = Top(u)
    BY <2>1 DEF pc, Top
  <2>3. \A w : /\ Drowses(w)' <=> Drowses(w)
               /\ Told(w)' <=> Told(w)
               /\ Roused(w)' <=> Roused(w)
    BY <2>1, <2>2 DEF Drowses, Told, Roused, BeingWoken
  <2> QED
    BY <2>2, <2>3 DEF Rousing, BulkByUsers, Places
<1>3. CASE Next
  <2>1. PICK t \in Threads : Progress(t) \/ Call(t)
    BY <1>3 DEF Next
  <2>2. CASE Acts(t) /\ pool' = pool /\ (StopJoin(t) => tokens' = tokens)
    BY <1>1, <2>1, <2>2, RousingOn, BulkOn
  <2>3. CASE Renews /\ CreateNext(t) /\ Top(t).k < pool
    BY <1>1, <2>3, StartedRousing, RenewedBulk
  <2>4. CASE StopJoin(t) /\ Top(t).then # "stopped"
    BY <1>1, <2>4, ReplacedRousing
  <2>5. CASE StopStep(t)
    <3>1. StopJoin(t) /\ Top(t).then = "stopped" => tokens' = tokens
      BY DEF StopJoin
    <3> QED
      BY <1>1, <2>2, <2>3, <2>4, <2>5, <3>1, StopCases
  <2>6. CASE ~StopStep(t)
    <3>1. pool' = pool
      BY <2>1, <2>6, PoolFrom
    <3>2. Acts(t) /\ ~StopJoin(t)
      BY <1>1, <2>1, <2>6, ActsOf DEF StopStep
    <3> QED
      BY <2>2, <3>1, <3>2
  <2> QED
    BY <2>5, <2>6
<1> QED
  BY <1>2, <1>3

LEMMA RousingStart ==
  ASSUME Init
  PROVE  Rousing /\ BulkByUsers
<1>1. ShopInv
  BY InitKeeps
<1>2. ASSUME NEW w \in Places
      PROVE  ~Told(w)
  <2>1. queue[w] = <<>>
    BY <1>1, PlacesAre DEF Init
  <2>2. ToSet(queue[w]) = {}
    BY <2>1 DEF ToSet
  <2> QED
    BY <2>2 DEF Told
<1>3. ASSUME NEW u \in Threads
      PROVE  pc(u) \in {"idle", "own"}
  <2>1. stack[u] = <<>> \/ stack[u] = <<WorkerFrame("own")>>
    BY DEF Init
  <2>2. stack[u] # <<>> => Len(stack[u]) = 1 /\ stack[u][1].pc = "own"
    <3>1. PICK g : g = WorkerFrame("own")
      OBVIOUS
    <3>2. Len(<<g>>) = 1 /\ <<g>>[1] = g
      BY Tuples
    <3>3. g.pc = "own"
      BY <3>1 DEF WorkerFrame
    <3> QED
      BY <2>1, <3>1, <3>2, <3>3
  <2> QED
    BY <2>2 DEF pc, Top
<1> QED
  BY <1>2, <1>3 DEF Rousing, BulkByUsers

\* What is queued for a worker to be woken for finds it awake, or its wake-up on the way:
\* an item, or the first part of a spread. For any pool, replaced or stopped as it may be,
\* and whatever the queues refuse or a consumer overlooks.
THEOREM WakesArriving ==
  ASSUME WideEnough
  PROVE  SafeSpec => []WakesArrive
<1>1. ASSUME ShopInv, Rousing
      PROVE  WakesArrive
  <2>1. SUFFICES ASSUME NEW w \in Workers, Asleep(w), Told(w)
                 PROVE  BeingWoken(w)
    BY DEF WakesArrive, Told
  <2>2. w \in Threads /\ w \notin Callers /\ w \in Places
    BY <1>1, WorkersAre, PoolThreads DEF Places
  <2>3. pc(w) = "wait" /\ pc(w) # "idle" /\ tokens[w] = 0
    BY <2>1 DEF Asleep
  <2>4. PICK n : n = Len(stack[w])
    OBVIOUS
  <2>5. n \in Nat \ {0} /\ On(w, n, Top(w)) /\ Top(w) = stack[w][n] /\ Top(w).pc = "wait"
    BY <1>1, <2>2, <2>3, <2>4, Below1
  <2>6. n = 1
    BY <1>1, <2>4, <2>5, EveryFrame DEF Fits, WorkerPcs
  <2>7. Drowses(w)
    BY <2>4, <2>5, <2>6 DEF Drowses
  <2> QED
    BY <1>1, <2>1, <2>2, <2>3, <2>7 DEF Rousing, Roused
<1>2. ASSUME ShopInv /\ Nest, Rousing /\ BulkByUsers, [Next]_vars
      PROVE  (Rousing /\ BulkByUsers)'
  BY <1>2, RousingKeeps
<1>3. Init => Rousing /\ BulkByUsers
  BY RousingStart
<1> QED
  BY <1>1, <1>2, <1>3, NestInvariance, PTL DEF SafeSpec
================================================================================
