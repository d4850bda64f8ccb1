------------------------------ MODULE LibuvProofs -------------------------------
(***************************************************************************)
(* TLAPS proofs about the libuv shop, for any pool, any callers, any       *)
(* numbers of spreads, items and iterations, whatever fails.               *)
(*                                                                         *)
(* The argument is about shares: who may still touch the node of a spread  *)
(* (the caller, the queuer, every request), who is to run which chunk, and *)
(* who has which item.  Every share is held by one frame of one stack, or  *)
(* waits in one of the queues; every step passes shares on, makes new ones *)
(* or lets some go, and what is counted follows from that.                 *)
(***************************************************************************)
EXTENDS Libuv, CountingLemmas

Chunks == {Chunk(s, c) : s \in Spreads, c \in Nat \ {0}}
Works  == Chunks \cup {Item(i) : i \in Items}

\* The frames of a call of spread_the_sweat.
Calling == {"submit", "send", "tail", "steal", "release"}

Frame == [pc : {"pool"}, work : Works]
           \cup [pc : {"inline", "serial", "post"}, work : Chunks]
           \cup [pc : {"after"}, work : {Item(i) : i \in Items}]
           \cup [pc : Calling \cup {"queue"}, id : Spreads, k : Nat]
           \cup [pc : {"async"}, list : Seq(Spreads)]
           \cup [pc : {"exchange"}]
           \cup [pc : {"fire"}, item : Items]

\* Shares in the node: the caller's, the queuer's, a request's.  A chunk and an item are
\* shares themselves: that of whoever is to run it.  The caller's own chunk is its own
\* until it begins it.
CallerShare(s)     == [kind |-> "caller", id |-> s, c |-> 0]
QueuerShare(s)     == [kind |-> "queuer", id |-> s, c |-> 0]
OwnShare(s)        == [kind |-> "own", id |-> s, c |-> 0]
RequestShare(s, c) == [kind |-> "request", id |-> s, c |-> c]

\* The shares of a request that the pool has, and of one that has run or was cancelled.
PoolShares(w)  == IF w.kind = "chunk" THEN {w, RequestShare(w.id, w.c)} ELSE {w}
AfterShares(w) == IF w.kind = "chunk" THEN {RequestShare(w.id, w.c)} ELSE {w}

Claims(f) ==
  CASE f.pc = "submit"                        -> {CallerShare(f.id), OwnShare(f.id), QueuerShare(f.id)}
    [] f.pc \in {"send", "tail"}              -> {CallerShare(f.id), OwnShare(f.id)}
    [] f.pc \in {"steal", "release"}          -> {CallerShare(f.id)}
    [] f.pc = "queue"                         -> {QueuerShare(f.id)}
    [] f.pc = "async"                         -> {QueuerShare(s) : s \in ToSet(f.list)}
    [] f.pc = "pool"                          -> PoolShares(f.work)
    [] f.pc = "post"                          -> AfterShares(f.work)
    [] f.pc \in {"inline", "serial", "after"} -> {f.work}
    [] f.pc = "fire"                          -> {Item(f.item)}
    [] OTHER                                  -> {}

ClaimOf == [f \in Frame |-> Claims(f)]
Claimed == Holdings(Threads, ClaimOf, stack)

\* The shares of the works of P in the pool's queue, of those of A in the other one, and
\* of the nodes of L in the list.
SharesOf(P, A, L) ==
  (UNION {PoolShares(w) : w \in P}) \cup (UNION {AfterShares(w) : w \in A})
    \cup {QueuerShare(s) : s \in L}

Waiting == SharesOf(ToSet(poolQueue), ToSet(afterQueue), ToSet(pending))
InHand  == Taken(Threads, Claimed, Waiting)

Distinct(s) == \A i, j \in 1..Len(s) : s[i] = s[j] => i = j

Marks == {"pending", "queued", "done_inline"}

Typed ==
  /\ stack \in [Threads -> Seq(Frame)]
  /\ poolQueue \in Seq(Works) /\ afterQueue \in Seq(Works) /\ pending \in Seq(Spreads)
  /\ refs \in [Spreads -> Int] /\ latch \in [Spreads -> Int] /\ inFlight \in Int
  /\ state \in [Spreads -> Seq(Marks)]
  /\ calls \in [Spreads -> {"new", "active", "returned"}]
  /\ DOMAIN hits = Spreads
  /\ \A s \in Spreads : \E n \in Nat : hits[s] \in [1..n -> {0, 1}]
  /\ fired \in [Items -> {"new", "called", "refused", "accepted", "ran", "over"}]

\* No request is in the queues twice, and no node in the list.
QueuesOK ==
  /\ Distinct(poolQueue) /\ Distinct(afterQueue) /\ Distinct(pending)
  /\ ToSet(poolQueue) \cap ToSet(afterQueue) = {}

\* The chunks that have still to run.
Unrun(s) == {c \in DOMAIN hits[s] : hits[s][c] = 0}

FrameOK(f) ==
  /\ f.pc = "steal" => calls[f.id] # "new" /\ f.k <= Len(state[f.id])
  /\ f.pc = "release" => calls[f.id] # "new" /\ Unrun(f.id) = {}
  /\ f.pc = "queue" => f.k >= 1
  /\ f.pc = "async" => Distinct(f.list)
  /\ f.pc = "inline" => calls[f.work.id] # "new" /\ Len(state[f.work.id]) # 0
  /\ f.pc = "serial" => /\ calls[f.work.id] # "new" /\ Len(state[f.work.id]) = 0
                        /\ f.work.c = 1 /\ DOMAIN hits[f.work.id] = {1}

\* What the shares say of the spread.
SharesOK(s) ==
  /\ \A c \in Nat : Chunk(s, c) \in InHand =>
       /\ calls[s] = "active" /\ c \in DOMAIN hits[s] /\ hits[s][c] = 0
       /\ c \in 1..Len(state[s]) => state[s][c] # "pending"
  /\ \A c \in Nat : RequestShare(s, c) \in InHand =>
       calls[s] # "new" /\ c \in 1..Len(state[s]) /\ state[s][c] # "pending"
  /\ CallerShare(s) \in InHand => calls[s] = "active" /\ Len(state[s]) # 0
  /\ QueuerShare(s) \in InHand => calls[s] # "new"
  /\ OwnShare(s) \in InHand =>
       /\ calls[s] = "active" /\ Len(state[s]) # 0
       /\ hits[s][Len(state[s]) + 1] = 0 /\ Chunk(s, Len(state[s]) + 1) \notin InHand

\* Chunks that are not handed out have not run; the latch counts those that have not.
ChunksOK(s) ==
  /\ calls[s] = "new" => DOMAIN hits[s] = {} /\ Len(state[s]) = 0
  /\ calls[s] = "returned" => Unrun(s) = {}
  /\ \A c \in 1..Len(state[s]) : state[s][c] = "pending" => hits[s][c] = 0
  /\ Len(state[s]) # 0 => /\ DOMAIN hits[s] = 1..(Len(state[s]) + 1)
                          /\ latch[s] = Cardinality(Unrun(s))

\* The shares in the node of s.
NodeShares(s) == {x \in InHand : x.kind \in {"caller", "queuer", "request"} /\ x.id = s}

RefsOK(s) == IsFiniteSet(NodeShares(s)) /\ refs[s] = Cardinality(NodeShares(s))

SpreadOK(s) == SharesOK(s) /\ ChunksOK(s) /\ RefsOK(s)

Flying == {i \in Items : fired[i] \in {"called", "accepted", "ran"}}

ItemsOK ==
  /\ IsFiniteSet(Flying) /\ inFlight = Cardinality(Flying)
  /\ \A i \in Items : Item(i) \in InHand <=> i \in Flying

\* Somebody is about to wake the loop for the list, or to take the list.
Heralds   == {"send", "exchange"}
Announced == \E t \in Threads : \E i \in 1..Len(stack[t]) : stack[t][i].pc \in Heralds

PendingOK == pending = <<>> \/ async \/ loop = "closed" \/ Announced

LibuvInv ==
  /\ Typed
  /\ Disjoint(Threads, Claimed, Waiting)
  /\ QueuesOK
  /\ \A t \in Threads : \A i \in 1..Len(stack[t]) : FrameOK(stack[t][i])
  /\ \A s \in Spreads : SpreadOK(s)
  /\ ItemsOK
  /\ PendingOK

--------------------------------------------------------------------------------
(* Frames, works and shares by their shapes *)

CallFrame(l, s, k) == [pc |-> l, id |-> s, k |-> k]

LEMMA CallShapes ==
  ASSUME NEW f \in Frame, f.pc \in Calling \cup {"queue"}
  PROVE  /\ f.id \in Spreads /\ f.k \in Nat
         /\ f = CallFrame(f.pc, f.id, f.k)
         /\ \A l : [f EXCEPT !.pc = l] = CallFrame(l, f.id, f.k)
         /\ \A k : [f EXCEPT !.k = k] = CallFrame(f.pc, f.id, k)
         /\ \A l, k : [f EXCEPT !.pc = l, !.k = k] = CallFrame(l, f.id, k)
<1>1. f \in [pc : Calling \cup {"queue"}, id : Spreads, k : Nat]
  BY DEF Frame, Calling
<1>2. f.id \in Spreads /\ f.k \in Nat
  BY <1>1
<1>3. f = CallFrame(f.pc, f.id, f.k)
  BY <1>1 DEF CallFrame
<1>4. \A l : [f EXCEPT !.pc = l] = CallFrame(l, f.id, f.k)
  BY <1>3 DEF CallFrame
<1>5. \A k : [f EXCEPT !.k = k] = CallFrame(f.pc, f.id, k)
  BY <1>3 DEF CallFrame
<1>6. \A l, k : [f EXCEPT !.pc = l, !.k = k] = CallFrame(l, f.id, k)
  <2> TAKE l, k
  <2>1. DOMAIN f = {"pc", "id", "k"}
    BY <1>1
  <2>2. [f EXCEPT !.pc = l, !.k = k] = [x \in {"pc", "id", "k"} |->
          IF x = "k" THEN k ELSE IF x = "pc" THEN l ELSE f[x]]
    BY <2>1
  <2> QED
    BY <2>2 DEF CallFrame
<1> QED
  BY <1>2, <1>3, <1>4, <1>5, <1>6

LEMMA Shapes ==
  /\ \A f \in Frame :
       /\ f.pc = "pool" => f.work \in Works
       /\ f.pc \in {"inline", "serial", "post"} => f.work \in Chunks
       /\ f.pc = "after" => f.work \in {Item(i) : i \in Items}
       /\ f.pc = "async" => f.list \in Seq(Spreads)
       /\ f.pc = "fire" => f.item \in Items
       /\ f.pc = "pool" => \A l : [f EXCEPT !.pc = l] = Body(l, f.work)
       /\ f.pc # "idle"
  /\ \A w \in Works : Body("pool", w) \in Frame
  /\ \A w \in Chunks : \A l \in {"inline", "serial", "post"} : Body(l, w) \in Frame
  /\ \A i \in Items : Body("after", Item(i)) \in Frame /\ [pc |-> "fire", item |-> i] \in Frame
  /\ \A l \in Calling \cup {"queue"}, s \in Spreads, k \in Nat : CallFrame(l, s, k) \in Frame
  /\ \A p \in Seq(Spreads) : AsyncFrame(p) \in Frame
  /\ [pc |-> "exchange"] \in Frame
<1> USE DEF Frame, Calling
<1>1. ASSUME NEW f \in Frame
      PROVE  /\ f.pc = "pool" => f.work \in Works
             /\ f.pc \in {"inline", "serial", "post"} => f.work \in Chunks
             /\ f.pc = "after" => f.work \in {Item(i) : i \in Items}
             /\ f.pc = "async" => f.list \in Seq(Spreads)
             /\ f.pc = "fire" => f.item \in Items
             /\ f.pc = "pool" => \A l : [f EXCEPT !.pc = l] = Body(l, f.work)
             /\ f.pc # "idle"
  <2>1. CASE f \in [pc : {"pool"}, work : Works]
    BY <2>1 DEF Body
  <2>2. CASE f \in [pc : {"inline", "serial", "post"}, work : Chunks]
    BY <2>2
  <2>3. CASE f \in [pc : {"after"}, work : {Item(i) : i \in Items}]
    BY <2>3
  <2>4. CASE f \in [pc : Calling \cup {"queue"}, id : Spreads, k : Nat]
    BY <2>4
  <2>5. CASE f \in [pc : {"async"}, list : Seq(Spreads)]
    BY <2>5
  <2>6. CASE f \in [pc : {"exchange"}]
    BY <2>6
  <2>7. CASE f \in [pc : {"fire"}, item : Items]
    BY <2>7
  <2> QED
    BY <2>1, <2>2, <2>3, <2>4, <2>5, <2>6, <2>7
<1>2. /\ \A w \in Works : Body("pool", w) \in Frame
      /\ \A w \in Chunks : \A l \in {"inline", "serial", "post"} : Body(l, w) \in Frame
  BY DEF Body
<1>3. \A i \in Items : Body("after", Item(i)) \in Frame /\ [pc |-> "fire", item |-> i] \in Frame
  BY DEF Body
<1>4. \A l \in Calling \cup {"queue"}, s \in Spreads, k \in Nat : CallFrame(l, s, k) \in Frame
  BY DEF CallFrame
<1>5. /\ \A p \in Seq(Spreads) : AsyncFrame(p) \in Frame
      /\ [pc |-> "exchange"] \in Frame
  BY DEF AsyncFrame
<1> QED
  BY <1>1, <1>2, <1>3, <1>4, <1>5

LEMMA FrameFields ==
  /\ \A l, w : Body(l, w).pc = l /\ Body(l, w).work = w
  /\ \A l, s, k : /\ CallFrame(l, s, k).pc = l /\ CallFrame(l, s, k).id = s
                  /\ CallFrame(l, s, k).k = k
  /\ \A p : AsyncFrame(p).pc = "async" /\ AsyncFrame(p).list = p
BY DEF Body, CallFrame, AsyncFrame

LEMMA WorkShapes ==
  /\ \A w \in Chunks : w.kind = "chunk" /\ w.id \in Spreads /\ w.c \in Nat \ {0} /\ w = Chunk(w.id, w.c)
  /\ \A w \in Works : \/ w \in Chunks
                      \/ w.kind = "item" /\ w.id \in Items /\ w = Item(w.id)
  /\ \A s \in Spreads, c \in Nat \ {0} : Chunk(s, c) \in Chunks /\ Chunk(s, c) \in Works
  /\ \A i \in Items : Item(i) \in Works
  /\ Chunks \subseteq Works
<1>1. ASSUME NEW w \in Chunks
      PROVE  w.kind = "chunk" /\ w.id \in Spreads /\ w.c \in Nat \ {0} /\ w = Chunk(w.id, w.c)
  <2>1. PICK s \in Spreads : \E c \in Nat \ {0} : w = Chunk(s, c)
    BY DEF Chunks
  <2>2. PICK c \in Nat \ {0} : w = Chunk(s, c)
    BY <2>1
  <2> QED
    BY <2>2 DEF Chunk
<1>2. ASSUME NEW w \in Works, w \notin Chunks
      PROVE  w.kind = "item" /\ w.id \in Items /\ w = Item(w.id)
  BY <1>2 DEF Works, Item
<1>3. \A s \in Spreads, c \in Nat \ {0} : Chunk(s, c) \in Chunks
  BY DEF Chunks
<1>4. (\A i \in Items : Item(i) \in Works) /\ Chunks \subseteq Works
  BY DEF Works
<1> QED
  BY <1>1, <1>2, <1>3, <1>4

LEMMA ShareShapes ==
  /\ \A s, c : Chunk(s, c).kind = "chunk" /\ Chunk(s, c).id = s /\ Chunk(s, c).c = c
  /\ \A s, c : /\ RequestShare(s, c).kind = "request" /\ RequestShare(s, c).id = s
               /\ RequestShare(s, c).c = c
  /\ \A s : CallerShare(s).kind = "caller" /\ CallerShare(s).id = s
  /\ \A s : QueuerShare(s).kind = "queuer" /\ QueuerShare(s).id = s
  /\ \A s : OwnShare(s).kind = "own" /\ OwnShare(s).id = s
  /\ \A i : Item(i).kind = "item" /\ Item(i).id = i
BY DEF Chunk, RequestShare, CallerShare, QueuerShare, OwnShare, Item

LEMMA SharesAt ==
  /\ \A s, c : /\ PoolShares(Chunk(s, c)) = {Chunk(s, c), RequestShare(s, c)}
               /\ AfterShares(Chunk(s, c)) = {RequestShare(s, c)}
  /\ \A i : PoolShares(Item(i)) = {Item(i)} /\ AfterShares(Item(i)) = {Item(i)}
BY ShareShapes DEF PoolShares, AfterShares

LEMMA ClaimsAt ==
  ASSUME NEW f
  PROVE  /\ f.pc = "submit" => Claims(f) = {CallerShare(f.id), OwnShare(f.id), QueuerShare(f.id)}
         /\ f.pc \in {"send", "tail"} => Claims(f) = {CallerShare(f.id), OwnShare(f.id)}
         /\ f.pc \in {"steal", "release"} => Claims(f) = {CallerShare(f.id)}
         /\ f.pc = "queue" => Claims(f) = {QueuerShare(f.id)}
         /\ f.pc = "async" => Claims(f) = {QueuerShare(s) : s \in ToSet(f.list)}
         /\ f.pc = "pool" => Claims(f) = PoolShares(f.work)
         /\ f.pc = "post" => Claims(f) = AfterShares(f.work)
         /\ f.pc \in {"inline", "serial", "after"} => Claims(f) = {f.work}
         /\ f.pc = "fire" => Claims(f) = {Item(f.item)}
         /\ f.pc = "exchange" => Claims(f) = {}
BY DEF Claims

--------------------------------------------------------------------------------
(* The queues *)

\* The sequence r has what s has, and x besides.
Gains(X, s, r, x) ==
  /\ r \in Seq(X) /\ ToSet(r) = ToSet(s) \cup {x}
  /\ Distinct(s) /\ x \notin ToSet(s) => Distinct(r)

LEMMA Appended ==
  ASSUME NEW X, NEW s \in Seq(X), NEW x \in X, NEW r, r = Append(s, x)
  PROVE  Gains(X, s, r, x)
<1>1. /\ r \in Seq(X) /\ Len(r) = Len(s) + 1 /\ r[Len(s) + 1] = x
      /\ \A i \in 1..Len(s) : r[i] = s[i]
  OBVIOUS
<1>2. Len(s) \in Nat /\ DOMAIN s = 1..Len(s) /\ DOMAIN r = 1..Len(r)
  BY <1>1
<1>3. 1..Len(r) = 1..Len(s) \cup {Len(s) + 1}
  BY <1>1, <1>2
<1>4. ToSet(r) = ToSet(s) \cup {x}
  BY <1>1, <1>2, <1>3 DEF ToSet
<1>5. ASSUME Distinct(s), x \notin ToSet(s), NEW i \in 1..Len(r), NEW j \in 1..Len(r), r[i] = r[j]
      PROVE  i = j
  <2>1. \A k \in 1..Len(s) : s[k] # x
    BY <1>2, <1>5 DEF ToSet
  <2> QED
    BY <1>1, <1>3, <1>5, <2>1 DEF Distinct
<1> QED
  BY <1>1, <1>4, <1>5 DEF Distinct, Gains

LEMMA Prepended ==
  ASSUME NEW X, NEW s \in Seq(X), NEW x \in X, NEW r, r = <<x>> \o s
  PROVE  /\ r \in Seq(X) /\ ToSet(r) = ToSet(s) \cup {x} /\ r # <<>>
         /\ Distinct(s) /\ x \notin ToSet(s) => Distinct(r)
<1>1. <<x>> \in Seq(X) /\ Len(<<x>>) = 1 /\ <<x>>[1] = x
  OBVIOUS
<1>2. r \in Seq(X) /\ Len(r) = Len(s) + 1 /\ r[1] = x /\ \A i \in 1..Len(s) : r[i + 1] = s[i]
  BY <1>1
<1>3. Len(s) \in Nat /\ DOMAIN s = 1..Len(s) /\ DOMAIN r = 1..Len(r)
  BY <1>2
<1>4. \A k \in 1..Len(r) : k = 1 \/ (k - 1 \in 1..Len(s) /\ r[k] = s[k - 1])
  <2> TAKE k \in 1..Len(r)
  <2>1. k # 1 => k - 1 \in 1..Len(s) /\ (k - 1) + 1 = k
    BY <1>2, <1>3
  <2> QED
    BY <1>2, <2>1
<1>5. ToSet(r) = ToSet(s) \cup {x}
  <2>1. ASSUME NEW y \in ToSet(r) PROVE y \in ToSet(s) \cup {x}
    BY <1>2, <1>3, <1>4, <2>1 DEF ToSet
  <2>2. ASSUME NEW y \in ToSet(s) PROVE y \in ToSet(r)
    <3>1. PICK i \in 1..Len(s) : y = s[i]
      BY <1>3, <2>2 DEF ToSet
    <3>2. i + 1 \in 1..Len(r) /\ r[i + 1] = y
      BY <1>2, <1>3, <3>1
    <3> QED
      BY <1>3, <3>2 DEF ToSet
  <2>3. x \in ToSet(r)
    <3>1. 1 \in 1..Len(r)
      BY <1>2, <1>3
    <3> QED
      BY <1>2, <1>3, <3>1 DEF ToSet
  <2> QED
    BY <2>1, <2>2, <2>3
<1>6. ASSUME Distinct(s), x \notin ToSet(s), NEW i \in 1..Len(r), NEW j \in 1..Len(r), r[i] = r[j]
      PROVE  i = j
  <2>1. \A k \in 1..Len(s) : s[k] # x
    BY <1>3, <1>6 DEF ToSet
  <2>2. i = 1 <=> j = 1
    BY <1>2, <1>4, <1>6, <2>1
  <2>3. ASSUME i # 1, j # 1 PROVE i - 1 = j - 1
    BY <1>4, <1>6, <2>3 DEF Distinct
  <2> QED
    BY <2>2, <2>3
<1> QED
  BY <1>2, <1>3, <1>5, <1>6 DEF Distinct

LEMMA Tailed ==
  ASSUME NEW X, NEW s \in Seq(X), s # <<>>, NEW r, r = Tail(s), NEW x, x = Head(s)
  PROVE  /\ r \in Seq(X) /\ x \in X /\ ToSet(s) = ToSet(r) \cup {x}
         /\ Distinct(s) => Distinct(r) /\ x \notin ToSet(r)
<1>1. /\ r \in Seq(X) /\ Len(r) = Len(s) - 1 /\ Len(s) \in Nat \ {0} /\ x = s[1] /\ x \in X
      /\ \A i \in 1..Len(r) : r[i] = s[i + 1]
  BY HeadTailProperties
<1>2. DOMAIN s = 1..Len(s) /\ DOMAIN r = 1..Len(r)
  BY <1>1
<1>3. \A i \in 1..Len(r) : i + 1 \in 1..Len(s) /\ i + 1 # 1
  BY <1>1
<1>4. \A i \in 1..Len(s) : i = 1 \/ (i - 1 \in 1..Len(r) /\ r[i - 1] = s[i])
  <2> TAKE i \in 1..Len(s)
  <2>1. i # 1 => i - 1 \in 1..Len(r) /\ (i - 1) + 1 = i
    BY <1>1
  <2> QED
    BY <1>1, <2>1
<1>5. ToSet(s) = ToSet(r) \cup {x}
  <2>1. ASSUME NEW y \in ToSet(s) PROVE y \in ToSet(r) \cup {x}
    <3>1. PICK i \in 1..Len(s) : y = s[i]
      BY <1>2, <2>1 DEF ToSet
    <3>2. i # 1 => i - 1 \in DOMAIN r /\ r[i - 1] = y
      BY <1>2, <1>4, <3>1
    <3> QED
      BY <1>1, <3>1, <3>2 DEF ToSet
  <2>2. ToSet(r) \subseteq ToSet(s)
    BY <1>1, <1>2, <1>3 DEF ToSet
  <2>3. 1 \in 1..Len(s)
    BY <1>1
  <2> QED
    BY <1>1, <1>2, <2>1, <2>2, <2>3 DEF ToSet
<1>6. ASSUME Distinct(s) PROVE Distinct(r) /\ x \notin ToSet(r)
  <2>1. ASSUME NEW i \in 1..Len(r), NEW j \in 1..Len(r), r[i] = r[j] PROVE i = j
    <3>1. i + 1 = j + 1
      BY <1>1, <1>3, <1>6, <2>1 DEF Distinct
    <3> QED
      BY <3>1
  <2>2. ASSUME NEW i \in 1..Len(r), r[i] = x PROVE FALSE
    <3>1. 1 \in 1..Len(s)
      BY <1>1
    <3> QED
      BY <1>1, <1>3, <1>6, <2>2, <3>1 DEF Distinct
  <2> QED
    BY <1>2, <2>1, <2>2 DEF Distinct, ToSet
<1> QED
  BY <1>1, <1>5, <1>6

LEMMA Removed ==
  ASSUME NEW X, NEW s \in Seq(X), NEW d \in 1..Len(s), NEW r, r = RemoveAt(s, d), NEW x, x = s[d]
  PROVE  /\ r \in Seq(X) /\ x \in X /\ ToSet(s) = ToSet(r) \cup {x}
         /\ Distinct(s) => Distinct(r) /\ x \notin ToSet(r)
<1>1. PICK a, b : a = SubSeq(s, 1, d - 1) /\ b = SubSeq(s, d + 1, Len(s))
  OBVIOUS
<1>2. Len(s) \in Nat /\ DOMAIN s = 1..Len(s) /\ \A i \in 1..Len(s) : s[i] \in X
  BY ElementOfSeq
<1>3. a \in Seq(X) /\ Len(a) = d - 1 /\ \A i \in 1..(d - 1) : a[i] = s[i]
  <2>1. /\ a \in Seq(X)
        /\ Len(a) = IF 1 <= d - 1 THEN d - 1 - 1 + 1 ELSE 0
        /\ \A i \in 1..(d - 1 - 1 + 1) : a[i] = s[1 + i - 1]
    <3>1. \A i \in 1..(d - 1) : s[i] \in X
      BY <1>2
    <3>2. d - 1 \in Int
      BY <1>2
    <3> QED
      BY <1>1, <3>1, <3>2, SubSeqProperties
  <2>2. \A n \in Nat \ {0} : (IF 1 <= n - 1 THEN n - 1 - 1 + 1 ELSE 0) = n - 1
    OBVIOUS
  <2>3. Len(a) = d - 1
    <3>1. d \in Nat \ {0}
      BY <1>2
    <3> QED
      BY <2>1, <2>2, <3>1, Zenon
  <2>4. ASSUME NEW i \in 1..(d - 1) PROVE a[i] = s[i]
    <3>1. i \in 1..(d - 1 - 1 + 1) /\ 1 + i - 1 = i
      BY <1>2
    <3> QED
      BY <2>1, <3>1
  <2> QED
    BY <2>1, <2>3, <2>4
<1>4. b \in Seq(X) /\ Len(b) = Len(s) - d /\ \A i \in 1..(Len(s) - d) : b[i] = s[d + i]
  <2>1. /\ b \in Seq(X)
        /\ Len(b) = IF d + 1 <= Len(s) THEN Len(s) - (d + 1) + 1 ELSE 0
        /\ \A i \in 1..(Len(s) - (d + 1) + 1) : b[i] = s[(d + 1) + i - 1]
    <3>1. \A i \in (d + 1)..Len(s) : s[i] \in X
      BY <1>2
    <3> QED
      BY <1>1, <1>2, <3>1, SubSeqProperties
  <2>2. \A m \in Nat : \A n \in 1..m : (IF n + 1 <= m THEN m - (n + 1) + 1 ELSE 0) = m - n
    OBVIOUS
  <2>3. Len(b) = Len(s) - d
    BY <1>2, <2>1, <2>2, Zenon
  <2>4. ASSUME NEW i \in 1..(Len(s) - d) PROVE b[i] = s[d + i]
    <3>1. i \in 1..(Len(s) - (d + 1) + 1) /\ (d + 1) + i - 1 = d + i
      BY <1>2
    <3> QED
      BY <2>1, <3>1
  <2> QED
    BY <2>1, <2>3, <2>4
<1>5. r = a \o b
  BY <1>1 DEF RemoveAt
<1>6. /\ r \in Seq(X) /\ Len(r) = Len(s) - 1
      /\ \A i \in 1..Len(r) : r[i] = IF i < d THEN s[i] ELSE s[i + 1]
  <2>1. /\ r \in Seq(X) /\ Len(r) = Len(a) + Len(b)
        /\ \A i \in 1..(Len(a) + Len(b)) : r[i] = IF i <= Len(a) THEN a[i] ELSE b[i - Len(a)]
    <3>1. Len(a) \in Nat /\ Len(b) \in Nat
      BY <1>3, <1>4
    <3>2. PICK m, n : m = Len(a) /\ n = Len(b)
      OBVIOUS
    <3>3. /\ a \o b \in Seq(X) /\ Len(a \o b) = m + n
          /\ \A i \in 1..(m + n) : (a \o b)[i] = IF i <= m THEN a[i] ELSE b[i - m]
      BY SMTT(30), <1>3, <1>4, <3>2, ConcatProperties, Zenon
    <3> QED
      BY <1>5, <3>2, <3>3
  <2>2. Len(r) = Len(s) - 1
    BY <1>2, <1>3, <1>4, <2>1
  <2>3. ASSUME NEW i \in 1..Len(r) PROVE r[i] = IF i < d THEN s[i] ELSE s[i + 1]
    <3>1. CASE i < d
      <4>1. i \in 1..(d - 1) /\ i <= Len(a)
        BY <1>2, <1>3, <3>1
      <4> QED
        BY <1>3, <2>1, <2>3, <3>1, <4>1
    <3>2. CASE ~(i < d)
      <4>1. i - (d - 1) \in 1..(Len(s) - d) /\ d + (i - (d - 1)) = i + 1 /\ ~(i <= d - 1)
        BY <1>2, <2>2, <3>2
      <4> QED
        BY <1>3, <1>4, <2>1, <2>3, <3>2, <4>1
    <3> QED
      BY <3>1, <3>2
  <2> QED
    BY <2>1, <2>2, <2>3
\* Where the elements of r come from, and where those of s go.
<1> DEFINE From(i) == IF i < d THEN i ELSE i + 1
<1>7. \A i \in 1..Len(r) : From(i) \in 1..Len(s) /\ From(i) # d /\ r[i] = s[From(i)]
  BY <1>2, <1>6
<1>8. \A i, j \in 1..Len(r) : From(i) = From(j) => i = j
  BY <1>2, <1>6
<1>9. \A j \in 1..Len(s) : j # d => \E i \in 1..Len(r) : From(i) = j
  <2> SUFFICES ASSUME NEW j \in 1..Len(s), j # d PROVE \E i \in 1..Len(r) : From(i) = j
    OBVIOUS
  <2>1. CASE j < d
    <3>1. j \in 1..Len(r) /\ From(j) = j
      BY <1>2, <1>6, <2>1
    <3> QED
      BY <3>1
  <2>2. CASE ~(j < d)
    <3>1. j - 1 \in 1..Len(r) /\ From(j - 1) = j
      BY <1>2, <1>6, <2>2
    <3> QED
      BY <3>1
  <2> QED
    BY <2>1, <2>2
<1> HIDE DEF From
<1>10. DOMAIN r = 1..Len(r)
  BY <1>6
<1>11. ToSet(s) = ToSet(r) \cup {x}
  <2>1. ASSUME NEW y \in ToSet(s) PROVE y \in ToSet(r) \cup {x}
    <3>1. PICK j \in 1..Len(s) : y = s[j]
      BY <1>2, <2>1 DEF ToSet
    <3>2. CASE j = d
      BY <3>1, <3>2
    <3>3. CASE j # d
      <4>1. PICK i \in 1..Len(r) : From(i) = j
        BY <1>9, <3>3
      <4> QED
        BY <1>7, <1>10, <3>1, <4>1 DEF ToSet
    <3> QED
      BY <3>2, <3>3
  <2>2. ToSet(r) \cup {x} \subseteq ToSet(s)
    BY <1>2, <1>7, <1>10 DEF ToSet
  <2> QED
    BY <2>1, <2>2
<1>12. ASSUME Distinct(s) PROVE Distinct(r) /\ x \notin ToSet(r)
  <2>1. ASSUME NEW i \in 1..Len(r), NEW j \in 1..Len(r), r[i] = r[j] PROVE i = j
    <3>1. From(i) = From(j)
      BY <1>7, <1>12, <2>1 DEF Distinct
    <3> QED
      BY <1>8, <3>1
  <2>2. ASSUME NEW i \in 1..Len(r), r[i] = x PROVE FALSE
    BY <1>7, <1>12, <2>2 DEF Distinct
  <2> QED
    BY <1>10, <2>1, <2>2 DEF Distinct, ToSet
<1> QED
  BY <1>2, <1>6, <1>11, <1>12

\* What waits, when one more request or node does, or one less.
LEMMA SharesGain ==
  ASSUME NEW P, NEW A, NEW L
  PROVE  /\ \A w : SharesOf(P \cup {w}, A, L) = SharesOf(P, A, L) \cup PoolShares(w)
         /\ \A w : SharesOf(P, A \cup {w}, L) = SharesOf(P, A, L) \cup AfterShares(w)
         /\ \A s : SharesOf(P, A, L \cup {s}) = SharesOf(P, A, L) \cup {QueuerShare(s)}
         /\ \A w \in P : PoolShares(w) \subseteq SharesOf(P, A, L)
         /\ \A w \in A : AfterShares(w) \subseteq SharesOf(P, A, L)
         /\ \A s \in L : QueuerShare(s) \in SharesOf(P, A, L)
BY DEF SharesOf

LEMMA SharesApart ==
  ASSUME NEW P \in SUBSET Works, NEW A \in SUBSET Works, NEW L
  PROVE  /\ \A w \in Works : w \notin P /\ w \notin A
              => /\ PoolShares(w) \cap SharesOf(P, A, L) = {}
                 /\ AfterShares(w) \cap SharesOf(P, A, L) = {}
         /\ \A s : s \notin L => QueuerShare(s) \notin SharesOf(P, A, L)
<1>1. ASSUME NEW x, NEW w \in Works, x \in PoolShares(w) \/ x \in AfterShares(w)
      PROVE  /\ x.kind \in {"chunk", "request", "item"} /\ x.id = w.id
             /\ x.kind = "item" => w = Item(x.id)
             /\ x.kind # "item" => w = Chunk(x.id, x.c)
  BY <1>1, WorkShapes, ShareShapes DEF PoolShares, AfterShares
<1>2. ASSUME NEW x, NEW v \in Works, NEW w \in Works,
             x \in PoolShares(v) \/ x \in AfterShares(v), x \in PoolShares(w) \/ x \in AfterShares(w)
      PROVE  v = w
  BY <1>1, <1>2
<1>3. ASSUME NEW w \in Works, w \notin P, w \notin A,
             NEW x, x \in PoolShares(w) \/ x \in AfterShares(w), x \in SharesOf(P, A, L)
      PROVE  FALSE
  <2>1. x.kind # "queuer"
    BY <1>1, <1>3
  <2>2. \A s : x # QueuerShare(s)
    BY <2>1, ShareShapes
  <2>3. PICK v \in P \cup A : x \in PoolShares(v) \/ x \in AfterShares(v)
    BY <1>3, <2>2 DEF SharesOf
  <2>4. v = w
    BY <1>2, <1>3, <2>3
  <2> QED
    BY <1>3, <2>3, <2>4
<1>4. ASSUME NEW s, s \notin L, QueuerShare(s) \in SharesOf(P, A, L)
      PROVE  FALSE
  <2>1. \A u \in L : QueuerShare(u) # QueuerShare(s)
    BY <1>4, ShareShapes
  <2>2. PICK v \in P \cup A : QueuerShare(s) \in PoolShares(v) \/ QueuerShare(s) \in AfterShares(v)
    BY <1>4, <2>1 DEF SharesOf
  <2>3. v \in Works
    BY <2>2
  <2> QED
    BY <1>1, <2>2, <2>3, ShareShapes
<1> QED
  BY <1>3, <1>4

\* The requests of the two queues, and the nodes of the list.
LEMMA QueueSets ==
  ASSUME Typed
  PROVE  /\ ToSet(poolQueue) \in SUBSET Works /\ ToSet(afterQueue) \in SUBSET Works
         /\ ToSet(pending) \in SUBSET Spreads
<1>1. \A S : \A q \in Seq(S) : ToSet(q) \in SUBSET S
  BY ElementOfSeq DEF ToSet
<1> QED
  BY <1>1 DEF Typed

\* A request whose after-work share is not there is in neither queue.
LEMMA NotQueued ==
  ASSUME Typed, NEW w \in Works, AfterShares(w) \cap Waiting = {}
  PROVE  w \notin ToSet(poolQueue) /\ w \notin ToSet(afterQueue)
<1>1. AfterShares(w) # {} /\ AfterShares(w) \subseteq PoolShares(w)
  BY DEF AfterShares, PoolShares
<1> QED
  BY <1>1, SharesGain DEF Waiting

LEMMA PoolGets ==
  ASSUME Typed, QueuesOK, NEW w \in Works, AfterShares(w) \cap Waiting = {},
         poolQueue' = Append(poolQueue, w), afterQueue' = afterQueue, pending' = pending
  PROVE  /\ poolQueue' \in Seq(Works) /\ QueuesOK'
         /\ Waiting' = Waiting \cup PoolShares(w)
<1>1. w \notin ToSet(poolQueue) /\ w \notin ToSet(afterQueue)
  BY NotQueued
<1>2. /\ poolQueue' \in Seq(Works) /\ ToSet(poolQueue') = ToSet(poolQueue) \cup {w}
      /\ Distinct(poolQueue')
  <2>1. PICK p, r : p = poolQueue /\ r = poolQueue'
    OBVIOUS
  <2>2. p \in Seq(Works) /\ Distinct(p) /\ r = Append(p, w) /\ w \notin ToSet(p)
    BY <1>1, <2>1 DEF Typed, QueuesOK
  <2>3. Gains(Works, p, r, w)
    BY <2>2, Appended
  <2> QED
    BY <2>1, <2>2, <2>3 DEF Gains
<1>3. Waiting' = Waiting \cup PoolShares(w)
  BY <1>2, SharesGain DEF Waiting
<1> QED
  BY <1>1, <1>2, <1>3 DEF QueuesOK

LEMMA AfterGets ==
  ASSUME Typed, QueuesOK, NEW w \in Works, AfterShares(w) \cap Waiting = {},
         afterQueue' = Append(afterQueue, w), poolQueue' = poolQueue, pending' = pending
  PROVE  /\ afterQueue' \in Seq(Works) /\ QueuesOK'
         /\ Waiting' = Waiting \cup AfterShares(w)
<1>1. w \notin ToSet(poolQueue) /\ w \notin ToSet(afterQueue)
  BY NotQueued
<1>2. /\ afterQueue' \in Seq(Works) /\ ToSet(afterQueue') = ToSet(afterQueue) \cup {w}
      /\ Distinct(afterQueue')
  <2>1. PICK p, r : p = afterQueue /\ r = afterQueue'
    OBVIOUS
  <2>2. p \in Seq(Works) /\ Distinct(p) /\ r = Append(p, w) /\ w \notin ToSet(p)
    BY <1>1, <2>1 DEF Typed, QueuesOK
  <2>3. Gains(Works, p, r, w)
    BY <2>2, Appended
  <2> QED
    BY <2>1, <2>2, <2>3 DEF Gains
<1>3. Waiting' = Waiting \cup AfterShares(w)
  BY <1>2, SharesGain DEF Waiting
<1> QED
  BY <1>1, <1>2, <1>3 DEF QueuesOK

LEMMA ListGets ==
  ASSUME Typed, QueuesOK, NEW s \in Spreads, QueuerShare(s) \notin Waiting,
         pending' = <<s>> \o pending, poolQueue' = poolQueue, afterQueue' = afterQueue
  PROVE  /\ pending' \in Seq(Spreads) /\ QueuesOK'
         /\ Waiting' = Waiting \cup {QueuerShare(s)}
<1>1. s \notin ToSet(pending)
  BY SharesGain DEF Waiting
<1>2. /\ pending' \in Seq(Spreads) /\ ToSet(pending') = ToSet(pending) \cup {s}
      /\ Distinct(pending')
  <2>1. PICK p, r : p = pending /\ r = pending'
    OBVIOUS
  <2>2. p \in Seq(Spreads) /\ Distinct(p) /\ r = <<s>> \o p /\ s \notin ToSet(p)
    BY <1>1, <2>1 DEF Typed, QueuesOK
  <2> QED
    BY ZenonT(40), <2>1, <2>2, Prepended
<1>3. Waiting' = Waiting \cup {QueuerShare(s)}
  BY <1>2, SharesGain DEF Waiting
<1> QED
  BY <1>2, <1>3 DEF QueuesOK

LEMMA PoolGives ==
  ASSUME Typed, QueuesOK, poolQueue # <<>>, NEW w, w = Head(poolQueue),
         poolQueue' = Tail(poolQueue), afterQueue' = afterQueue, pending' = pending
  PROVE  /\ w \in Works /\ poolQueue' \in Seq(Works) /\ QueuesOK'
         /\ PoolShares(w) \cap Waiting' = {} /\ Waiting = Waiting' \cup PoolShares(w)
<1>1. /\ w \in Works /\ poolQueue' \in Seq(Works) /\ ToSet(poolQueue) = ToSet(poolQueue') \cup {w}
      /\ Distinct(poolQueue') /\ w \notin ToSet(poolQueue')
  <2>1. PICK p, r : p = poolQueue /\ r = poolQueue'
    OBVIOUS
  <2>2. p \in Seq(Works) /\ Distinct(p) /\ p # <<>> /\ r = Tail(p) /\ w = Head(p)
    BY <2>1 DEF Typed, QueuesOK
  <2>3. r \in Seq(Works) /\ w \in Works /\ ToSet(p) = ToSet(r) \cup {w} /\ Distinct(r) /\ w \notin ToSet(r)
    BY ZenonT(40), <2>2, Tailed
  <2> QED
    BY <2>1, <2>3
<1>2. Waiting = Waiting' \cup PoolShares(w)
  <2>1. PICK P, A, L : P = ToSet(poolQueue') /\ A = ToSet(afterQueue) /\ L = ToSet(pending)
    OBVIOUS
  <2>2. Waiting = SharesOf(P \cup {w}, A, L) /\ Waiting' = SharesOf(P, A, L)
    BY <1>1, <2>1 DEF Waiting
  <2> QED
    BY <2>2, SharesGain
<1>3. /\ ToSet(poolQueue') \in SUBSET Works /\ ToSet(afterQueue') \in SUBSET Works
      /\ w \notin ToSet(afterQueue')
  BY <1>1, QueueSets DEF QueuesOK
<1>4. PoolShares(w) \cap Waiting' = {}
  BY <1>1, <1>3, SharesApart DEF Waiting
<1> QED
  BY <1>1, <1>2, <1>4 DEF QueuesOK

LEMMA AfterGives ==
  ASSUME Typed, QueuesOK, afterQueue # <<>>, NEW w, w = Head(afterQueue),
         afterQueue' = Tail(afterQueue), poolQueue' = poolQueue, pending' = pending
  PROVE  /\ w \in Works /\ afterQueue' \in Seq(Works) /\ QueuesOK'
         /\ AfterShares(w) \cap Waiting' = {} /\ Waiting = Waiting' \cup AfterShares(w)
<1>1. /\ w \in Works /\ afterQueue' \in Seq(Works)
      /\ ToSet(afterQueue) = ToSet(afterQueue') \cup {w}
      /\ Distinct(afterQueue') /\ w \notin ToSet(afterQueue')
  <2>1. PICK p, r : p = afterQueue /\ r = afterQueue'
    OBVIOUS
  <2>2. p \in Seq(Works) /\ Distinct(p) /\ p # <<>> /\ r = Tail(p) /\ w = Head(p)
    BY <2>1 DEF Typed, QueuesOK
  <2>3. r \in Seq(Works) /\ w \in Works /\ ToSet(p) = ToSet(r) \cup {w} /\ Distinct(r) /\ w \notin ToSet(r)
    BY ZenonT(40), <2>2, Tailed
  <2> QED
    BY <2>1, <2>3
<1>2. Waiting = Waiting' \cup AfterShares(w)
  BY <1>1, SharesGain DEF Waiting
<1>3. /\ ToSet(poolQueue') \in SUBSET Works /\ ToSet(afterQueue') \in SUBSET Works
      /\ w \notin ToSet(poolQueue')
  BY <1>1, QueueSets DEF QueuesOK
<1>4. AfterShares(w) \cap Waiting' = {}
  BY <1>1, <1>3, SharesApart DEF Waiting
<1> QED
  BY <1>1, <1>2, <1>4 DEF QueuesOK

\* A cancelled chunk goes from one queue to the other: what waits of it is the reference.
LEMMA PoolCancels ==
  ASSUME Typed, QueuesOK, NEW w \in Chunks, NEW d \in DOMAIN poolQueue, poolQueue[d] = w,
         poolQueue' = RemoveAt(poolQueue, d), afterQueue' = Append(afterQueue, w), pending' = pending
  PROVE  /\ poolQueue' \in Seq(Works) /\ afterQueue' \in Seq(Works) /\ QueuesOK'
         /\ w \in Waiting /\ Waiting' = Waiting \ {w}
<1>1. d \in 1..Len(poolQueue)
  BY DEF Typed
<1>2. /\ poolQueue' \in Seq(Works) /\ ToSet(poolQueue) = ToSet(poolQueue') \cup {w}
      /\ Distinct(poolQueue') /\ w \notin ToSet(poolQueue')
  <2>1. PICK p, r : p = poolQueue /\ r = poolQueue'
    OBVIOUS
  <2>2. p \in Seq(Works) /\ Distinct(p) /\ d \in 1..Len(p) /\ r = RemoveAt(p, d) /\ w = p[d]
    BY <1>1, <2>1 DEF Typed, QueuesOK
  <2>3. r \in Seq(Works) /\ w \in Works /\ ToSet(p) = ToSet(r) \cup {w} /\ Distinct(r) /\ w \notin ToSet(r)
    BY <2>2, Removed
  <2> QED
    BY <2>1, <2>3
<1>3. w \notin ToSet(afterQueue) /\ w \in Works
  BY <1>2, WorkShapes DEF QueuesOK
<1>4. /\ afterQueue' \in Seq(Works) /\ ToSet(afterQueue') = ToSet(afterQueue) \cup {w}
      /\ Distinct(afterQueue')
  <2>1. PICK p, r : p = afterQueue /\ r = afterQueue'
    OBVIOUS
  <2>2. p \in Seq(Works) /\ Distinct(p) /\ r = Append(p, w) /\ w \notin ToSet(p)
    BY <1>3, <2>1 DEF Typed, QueuesOK
  <2>3. Gains(Works, p, r, w)
    BY <1>3, <2>2, Appended
  <2> QED
    BY <2>1, <2>2, <2>3 DEF Gains
<1>5. PICK P, A, L : P = ToSet(poolQueue') /\ A = ToSet(afterQueue) /\ L = ToSet(pending)
  OBVIOUS
<1>6. Waiting = SharesOf(P, A, L) \cup PoolShares(w)
  <2>1. Waiting = SharesOf(P \cup {w}, A, L)
    BY <1>2, <1>5 DEF Waiting
  <2> QED
    BY <2>1, SharesGain
<1>7. Waiting' = SharesOf(P, A, L) \cup AfterShares(w)
  BY <1>4, <1>5, SharesGain DEF Waiting
<1>8. PoolShares(w) \cap SharesOf(P, A, L) = {}
  <2>1. P \in SUBSET Works /\ A \in SUBSET Works
    BY <1>2, <1>5, QueueSets
  <2> QED
    BY <1>2, <1>3, <1>5, <2>1, SharesApart
<1>9. PoolShares(w) = AfterShares(w) \cup {w} /\ w \notin AfterShares(w)
  <2>1. PoolShares(w) = {w, RequestShare(w.id, w.c)} /\ AfterShares(w) = {RequestShare(w.id, w.c)}
    BY WorkShapes DEF PoolShares, AfterShares
  <2>2. w # RequestShare(w.id, w.c)
    BY WorkShapes, ShareShapes
  <2> QED
    BY <2>1, <2>2
<1> QED
  BY <1>2, <1>3, <1>4, <1>6, <1>7, <1>8, <1>9 DEF QueuesOK

--------------------------------------------------------------------------------
(* The steps: what becomes of the frames and of the shares *)

LEMMA Turns ==
  ASSUME stack \in [Threads -> Seq(Frame)], NEW t \in Threads, NEW n, n = Len(stack[t])
  PROVE  /\ stack[t] \in Seq(Frame) /\ n \in Nat
         /\ pc(t) # "idle" => /\ n \in Nat \ {0} /\ Top(t) = stack[t][n]
                              /\ Top(t) \in Frame /\ pc(t) = Top(t).pc
         /\ \A f \in Frame : Enter(t, f) => Shift(Frame, Threads, stack, stack', t, n, <<f>>)
         /\ pc(t) # "idle" =>
              /\ Leave(t) => Shift(Frame, Threads, stack, stack', t, n - 1, <<>>)
              /\ \A f \in Frame : Goto(t, f) => Shift(Frame, Threads, stack, stack', t, n - 1, <<f>>)
              /\ \A f, g \in Frame :
                   GotoEnter(t, f, g) => Shift(Frame, Threads, stack, stack', t, n - 1, <<f, g>>)
         /\ \A f \in Frame : stack' = [stack EXCEPT ![t] = @ \o <<f>>]
                           => Shift(Frame, Threads, stack, stack', t, n, <<f>>)
         /\ \A f, g \in Frame : stack' = [stack EXCEPT ![t] = @ \o <<f, g>>]
                              => Shift(Frame, Threads, stack, stack', t, n, <<f, g>>)
         /\ UNCHANGED stack => Shift(Frame, Threads, stack, stack', t, n, <<>>)
<1>1. PICK s : s = stack[t]
  OBVIOUS
<1>2. s \in Seq(Frame) /\ n = Len(s) /\ n \in Nat
  BY <1>1
<1>3. pc(t) # "idle" => s # <<>> /\ n \in Nat \ {0} /\ Top(t) = s[n] /\ pc(t) = Top(t).pc
  BY <1>1, <1>2 DEF pc, Top, Last
<1>4. pc(t) # "idle" => Top(t) \in Frame
  BY <1>2, <1>3, ElementOfSeq
<1>5. ASSUME NEW f \in Frame, Enter(t, f)
      PROVE  Shift(Frame, Threads, stack, stack', t, n, <<f>>)
  <2>1. stack' = [stack EXCEPT ![t] = Append(s, f)]
    BY <1>1, <1>5 DEF Enter
  <2> QED
    BY <1>1, <1>2, <2>1, Shifts
<1>6. ASSUME pc(t) # "idle", Leave(t)
      PROVE  Shift(Frame, Threads, stack, stack', t, n - 1, <<>>)
  <2>1. stack' = [stack EXCEPT ![t] = SubSeq(s, 1, n - 1)]
    BY <1>1, <1>2, <1>6 DEF Leave, Front
  <2> QED
    BY <1>1, <1>2, <1>3, <1>6, <2>1, Shifts
<1>7. ASSUME pc(t) # "idle", NEW f \in Frame, Goto(t, f)
      PROVE  Shift(Frame, Threads, stack, stack', t, n - 1, <<f>>)
  <2>1. stack' = [stack EXCEPT ![t] = Append(SubSeq(s, 1, n - 1), f)]
    BY <1>1, <1>2, <1>7 DEF Goto, Front
  <2> QED
    BY <1>1, <1>2, <1>3, <1>7, <2>1, Shifts
<1>8. ASSUME pc(t) # "idle", NEW f \in Frame, NEW g \in Frame, GotoEnter(t, f, g)
      PROVE  Shift(Frame, Threads, stack, stack', t, n - 1, <<f, g>>)
  <2>1. stack' = [stack EXCEPT ![t] = Append(Append(SubSeq(s, 1, n - 1), f), g)]
    BY <1>1, <1>2, <1>8 DEF GotoEnter, Front
  <2> QED
    BY <1>1, <1>2, <1>3, <1>8, <2>1, Shifts
<1>9. ASSUME UNCHANGED stack
      PROVE  Shift(Frame, Threads, stack, stack', t, n, <<>>)
  BY <1>1, <1>2, <1>9, Tuples DEF Shift
<1>10. ASSUME NEW g \in Seq(Frame), stack' = [stack EXCEPT ![t] = @ \o g]
       PROVE  Shift(Frame, Threads, stack, stack', t, n, g)
  <2>1. PICK r, m : r = s \o g /\ m = Len(g)
    OBVIOUS
  <2>2. r \in Seq(Frame) /\ Len(r) = n + m /\ \A i \in 1..n : r[i] = s[i]
    BY <1>2, <2>1
  <2>3. ASSUME NEW i \in 1..m PROVE r[n + i] = g[i]
    <3>1. m \in Nat
      BY <2>1
    <3>2. n + i \in 1..(n + m) /\ ~(n + i <= n) /\ (n + i) - n = i
      BY <1>2, <3>1
    <3> QED
      BY <1>2, <2>1, <3>2, ConcatProperties
  <2>4. stack' = [stack EXCEPT ![t] = r]
    BY <1>1, <1>10, <2>1
  <2>5. stack' \in [Threads -> Seq(Frame)] /\ stack'[t] = r /\ \A u \in Threads \ {t} : stack'[u] = stack[u]
    BY <2>2, <2>4
  <2>6. n <= Len(stack[t]) /\ Len(stack[t]) <= n + 1
    BY <1>1, <1>2
  <2> QED
    BY <1>1, <1>2, <2>1, <2>2, <2>3, <2>5, <2>6 DEF Shift
<1>11. /\ \A f \in Frame : <<f>> \in Seq(Frame)
       /\ \A f, g \in Frame : <<f, g>> \in Seq(Frame)
  OBVIOUS
<1> QED
  BY <1>1, <1>2, <1>3, <1>4, <1>5, <1>6, <1>7, <1>8, <1>9, <1>10, <1>11


\* Nothing is taken back of a spread that has begun.
Steady ==
  \A s \in Spreads : calls[s] # "new" =>
    /\ calls'[s] # "new" /\ Len(state'[s]) = Len(state[s])
    /\ DOMAIN hits'[s] = DOMAIN hits[s] /\ \A c \in DOMAIN hits[s] : hits'[s][c] = 0 => hits[s][c] = 0

LEMMA FrameKept ==
  ASSUME Steady, NEW f \in Frame, FrameOK(f)
  PROVE  FrameOK(f)'
<1>1. CASE f.pc \in {"steal", "release"}
  <2>1. f.id \in Spreads /\ calls[f.id] # "new"
    BY <1>1, CallShapes DEF FrameOK, Calling
  <2>2. f.pc = "release" => Unrun(f.id)' = {}
    BY <2>1 DEF FrameOK, Steady, Unrun
  <2> QED
    BY <1>1, <2>1, <2>2 DEF FrameOK, Steady
<1>2. CASE f.pc \in {"inline", "serial"}
  <2>1. f.work.id \in Spreads /\ calls[f.work.id] # "new"
    BY <1>2, Shapes, WorkShapes DEF FrameOK
  <2> QED
    BY <1>2, <2>1 DEF FrameOK, Steady
<1>3. CASE f.pc \notin {"steal", "release", "inline", "serial"}
  BY <1>3 DEF FrameOK
<1> QED
  BY <1>1, <1>2, <1>3

\* A step that changes who has what: old is what the frame that it takes off the stack
\* had, x and y what the frames have that it puts there, new was nobody's, gone is done
\* with.
Trade(old, x, y, new, gone) ==
  Trades(Threads, Claimed, Waiting, Waiting', old, x, y, new, gone)

\* What a step leaves alone stays as it was.
Kept(new, gone) ==
  /\ stack' \in [Threads -> Seq(Frame)]
  /\ Disjoint(Threads, Claimed', Waiting')
  /\ InHand' = (InHand \cup new) \ gone
  /\ (\A u \in Threads : \A i \in 1..Len(stack[u]) : FrameOK(stack[u][i]))'

Step(t, b, G, new, gone) ==
  /\ Len(G) \in 0..2 /\ Shift(Frame, Threads, stack, stack', t, b, G)
  /\ Trade(Popped(ClaimOf, stack, t, b), First(ClaimOf, G), Second(ClaimOf, G), new, gone)
  /\ \A i \in 1..Len(G) : FrameOK(G[i])'

LEMMA StepKeeps ==
  ASSUME LibuvInv, Steady, NEW t \in Threads, NEW b, NEW G, NEW new, NEW gone,
         Step(t, b, G, new, gone)
  PROVE  Kept(new, gone)
<1>1. /\ b \in Nat /\ stack \in [Threads -> Seq(Frame)] /\ stack' \in [Threads -> Seq(Frame)]
      /\ Disjoint(Threads, Claimed, Waiting)
      /\ Len(G) \in 0..2 /\ Shift(Frame, Threads, stack, stack', t, b, G)
  BY DEF LibuvInv, Typed, Shift, Step
<1>2. Disjoint(Threads, Claimed', Waiting') /\ InHand' = (InHand \cup new) \ gone
  <2>1. PICK p, s, q, r : p = stack /\ s = stack' /\ q = Waiting /\ r = Waiting'
    OBVIOUS
  <2>2. Claimed = Holdings(Threads, ClaimOf, p) /\ Claimed' = Holdings(Threads, ClaimOf, s)
    BY <2>1 DEF Claimed, ClaimOf, Claims
  <2>3. /\ Shift(Frame, Threads, p, s, t, b, G) /\ p \in [Threads -> Seq(Frame)]
        /\ Disjoint(Threads, Holdings(Threads, ClaimOf, p), q)
        /\ Trades(Threads, Holdings(Threads, ClaimOf, p), q, r, Popped(ClaimOf, p, t, b),
                  First(ClaimOf, G), Second(ClaimOf, G), new, gone)
    BY <1>1, <2>1, <2>2 DEF Step, Trade
  <2>4. Exchanged(Threads, Holdings(Threads, ClaimOf, p), Holdings(Threads, ClaimOf, s), q, r, new, gone)
    BY <1>1, <2>3, Trading
  <2>5. Exchanged(Threads, Claimed, Claimed', Waiting, Waiting', new, gone)
    BY <2>1, <2>2, <2>4
  <2> QED
    BY <2>5 DEF Exchanged, InHand
<1>3. ASSUME NEW u \in Threads, NEW i \in 1..Len(stack'[u]), NEW g, g = stack'[u][i]
      PROVE  FrameOK(g)'
  <2>1. CASE u = t /\ i \notin 1..b
    <3>1. Len(stack'[t]) = b + Len(G)
      BY <1>1 DEF Shift
    <3>2. i - b \in 1..Len(G) /\ i = b + (i - b)
      BY <1>1, <2>1, <3>1
    <3>3. g = G[i - b]
      BY <1>1, <1>3, <2>1, <3>2 DEF Shift
    <3> QED
      BY <2>1, <3>2, <3>3 DEF Step
  <2>2. CASE u = t => i \in 1..b
    <3>1. i \in 1..Len(stack[u]) /\ stack'[u][i] = stack[u][i]
      BY <1>1, <2>2 DEF Shift
    <3>2. g = stack[u][i] /\ g \in Frame
      BY <1>1, <1>3, <3>1, ElementOfSeq
    <3>3. FrameOK(g)
      BY <3>1, <3>2 DEF LibuvInv
    <3> QED
      BY <3>2, <3>3, FrameKept
  <2> QED
    BY <2>1, <2>2
<1> QED
  BY <1>1, <1>2, <1>3 DEF Kept

\* The frame on top.
LEMMA Mine ==
  ASSUME LibuvInv, NEW t \in Threads, pc(t) # "idle", NEW f, f = Top(t)
  PROVE  /\ f \in Frame /\ pc(t) = f.pc /\ FrameOK(f)
         /\ Claims(f) \cap Waiting = {} /\ Claims(f) \subseteq InHand
<1>1. PICK n : n = Len(stack[t])
  OBVIOUS
<1>2. n \in Nat \ {0} /\ f = stack[t][n] /\ f \in Frame /\ pc(t) = f.pc
  BY <1>1, Turns DEF LibuvInv, Typed
<1>3. n \in 1..Len(stack[t])
  BY <1>1, <1>2
<1>4. n \in DOMAIN Claimed[t] /\ Claimed[t][n] = Claims(f)
  BY <1>2, <1>3 DEF Claimed, Holdings, ClaimOf
<1>5. FrameOK(f)
  BY <1>2, <1>3 DEF LibuvInv
<1>6. Claims(f) \cap Waiting = {} /\ Claims(f) \subseteq InHand
  BY <1>4 DEF LibuvInv, Disjoint, InHand, Taken
<1> QED
  BY <1>2, <1>5, <1>6

\* A herald stays where it is not what the step takes off.
LEMMA StepAnnounces ==
  ASSUME stack \in [Threads -> Seq(Frame)], NEW t \in Threads, NEW b, NEW G,
         Shift(Frame, Threads, stack, stack', t, b, G), Len(G) \in 0..2
  PROVE  /\ (Len(stack[t]) = b + 1 => stack[t][b + 1].pc \notin Heralds) /\ Announced => Announced'
         /\ Len(G) # 0 /\ G[1].pc \in Heralds => Announced'
<1>1. b \in Nat /\ Len(stack[t]) \in Nat /\ Len(stack[t]) \in {b, b + 1} /\ Len(stack'[t]) = b + Len(G)
  BY DEF Shift
<1>2. ASSUME Len(stack[t]) = b + 1 => stack[t][b + 1].pc \notin Heralds, Announced
      PROVE  Announced'
  <2>1. PICK u \in Threads : \E i \in 1..Len(stack[u]) : stack[u][i].pc \in Heralds
    BY <1>2 DEF Announced
  <2>2. PICK i \in 1..Len(stack[u]) : stack[u][i].pc \in Heralds
    BY <2>1
  <2>3. i \in 1..Len(stack'[u]) /\ stack'[u][i] = stack[u][i]
    <3>1. CASE u # t
      BY <3>1 DEF Shift
    <3>2. CASE u = t
      <4>1. i \in 1..b
        <5>1. \A m \in {b, b + 1} : i \in 1..m /\ (m = b + 1 => i # b + 1) => i \in 1..b
          BY <1>1
        <5>2. Len(stack[t]) = b + 1 => i # b + 1
          BY <1>2, <2>2, <3>2
        <5> QED
          BY <1>1, <3>2, <5>1, <5>2
      <4>2. \A m \in 0..2 : i \in 1..(b + m)
        BY <1>1, <4>1
      <4> QED
        BY <1>1, <3>2, <4>1, <4>2 DEF Shift
    <3> QED
      BY <3>1, <3>2
  <2> QED
    BY <2>2, <2>3 DEF Announced
<1>3. ASSUME Len(G) # 0, G[1].pc \in Heralds
      PROVE  Announced'
  <2>1. 1 \in 1..Len(G)
    <3>1. \A m \in 0..2 : m # 0 => 1 \in 1..m
      OBVIOUS
    <3> QED
      BY <1>3, <3>1
  <2>2. b + 1 \in 1..Len(stack'[t]) /\ stack'[t][b + 1] = G[1]
    BY <1>1, <2>1 DEF Shift
  <2> QED
    BY <1>3, <2>2 DEF Announced
<1> QED
  BY <1>2, <1>3

\* The ways to change a stack.
LEMMA StepStay ==
  ASSUME LibuvInv, Steady, NEW t \in Threads, UNCHANGED stack,
         NEW new, NEW gone, Trade({}, {}, {}, new, gone)
  PROVE  Kept(new, gone) /\ (Announced => Announced')
<1>1. PICK b, G : b = Len(stack[t]) /\ G = <<>>
  OBVIOUS
<1>2. Len(G) = 0 /\ 1..Len(G) = {}
  BY <1>1, Tuples
<1>3. /\ stack \in [Threads -> Seq(Frame)] /\ Shift(Frame, Threads, stack, stack', t, b, G)
      /\ b \in Nat /\ Len(stack[t]) = b
  <2>1. PICK n : n = Len(stack[t])
    OBVIOUS
  <2>2. stack \in [Threads -> Seq(Frame)]
    BY DEF LibuvInv, Typed
  <2>3. n \in Nat /\ Shift(Frame, Threads, stack, stack', t, n, G)
    BY <1>1, <2>1, <2>2, Turns
  <2> QED
    BY <1>1, <2>1, <2>2, <2>3
<1>4. /\ Popped(ClaimOf, stack, t, b) = {}
      /\ First(ClaimOf, G) = {} /\ Second(ClaimOf, G) = {}
  BY <1>2, <1>3 DEF Popped, First, Second, ClaimOf
<1>5. Step(t, b, G, new, gone)
  <2>1. Trade(Popped(ClaimOf, stack, t, b), First(ClaimOf, G), Second(ClaimOf, G), new, gone)
    BY <1>4, Zenon
  <2>2. Len(G) \in 0..2 /\ \A i \in 1..Len(G) : FrameOK(G[i])'
    BY <1>2
  <2> QED
    BY <1>3, <2>1, <2>2 DEF Step
<1>6. Len(G) \in 0..2
  BY <1>2
<1>7. Kept(new, gone)
  BY <1>5, StepKeeps
<1>8. Announced => Announced'
  <2>1. Len(stack[t]) # b + 1
    BY <1>3
  <2> QED
    BY <1>3, <1>6, <2>1, StepAnnounces
<1> QED
  BY <1>7, <1>8

LEMMA StepEnter ==
  ASSUME LibuvInv, Steady, NEW t \in Threads, NEW f \in Frame, Enter(t, f), FrameOK(f)',
         NEW new, NEW gone, Trade({}, Claims(f), {}, new, gone)
  PROVE  Kept(new, gone) /\ (Announced => Announced') /\ (f.pc \in Heralds => Announced')
<1>1. PICK b, G : b = Len(stack[t]) /\ G = <<f>>
  OBVIOUS
<1>2. Len(G) = 1 /\ 1..Len(G) = {1} /\ G[1] = f
  BY <1>1, Tuples
<1>3. /\ stack \in [Threads -> Seq(Frame)] /\ Shift(Frame, Threads, stack, stack', t, b, G)
      /\ b \in Nat /\ Len(stack[t]) = b
  <2>1. PICK n : n = Len(stack[t])
    OBVIOUS
  <2>2. stack \in [Threads -> Seq(Frame)]
    BY DEF LibuvInv, Typed
  <2>3. n \in Nat /\ Shift(Frame, Threads, stack, stack', t, n, G)
    BY <1>1, <2>1, <2>2, Turns
  <2> QED
    BY <1>1, <2>1, <2>2, <2>3
<1>4. /\ Popped(ClaimOf, stack, t, b) = {}
      /\ First(ClaimOf, G) = Claims(f) /\ Second(ClaimOf, G) = {}
  BY <1>2, <1>3 DEF Popped, First, Second, ClaimOf
<1>5. Step(t, b, G, new, gone)
  <2>1. Trade(Popped(ClaimOf, stack, t, b), First(ClaimOf, G), Second(ClaimOf, G), new, gone)
    BY <1>4, Zenon
  <2>2. Len(G) \in 0..2 /\ \A i \in 1..Len(G) : FrameOK(G[i])'
    BY <1>2
  <2> QED
    BY <1>3, <2>1, <2>2 DEF Step
<1>6. Len(G) \in 0..2
  BY <1>2
<1>7. Kept(new, gone)
  BY <1>5, StepKeeps
<1>8. Announced => Announced'
  <2>1. Len(stack[t]) # b + 1
    BY <1>3
  <2> QED
    BY <1>3, <1>6, <2>1, StepAnnounces
<1>9. ASSUME f.pc \in Heralds PROVE Announced'
  <2>1. Len(G) # 0 /\ G[1].pc \in Heralds
    BY <1>2, <1>9
  <2> QED
    BY <1>3, <1>6, <2>1, StepAnnounces
<1> QED
  BY <1>7, <1>8, <1>9

LEMMA StepCall ==
  ASSUME LibuvInv, Steady, NEW t \in Threads, NEW f \in Frame, stack' = [stack EXCEPT ![t] = @ \o <<f>>], FrameOK(f)',
         NEW new, NEW gone, Trade({}, Claims(f), {}, new, gone)
  PROVE  Kept(new, gone) /\ (Announced => Announced')
<1>1. PICK b, G : b = Len(stack[t]) /\ G = <<f>>
  OBVIOUS
<1>2. Len(G) = 1 /\ 1..Len(G) = {1} /\ G[1] = f
  BY <1>1, Tuples
<1>3. /\ stack \in [Threads -> Seq(Frame)] /\ Shift(Frame, Threads, stack, stack', t, b, G)
      /\ b \in Nat /\ Len(stack[t]) = b
  <2>1. PICK n : n = Len(stack[t])
    OBVIOUS
  <2>2. stack \in [Threads -> Seq(Frame)]
    BY DEF LibuvInv, Typed
  <2>3. n \in Nat /\ Shift(Frame, Threads, stack, stack', t, n, G)
    BY <1>1, <2>1, <2>2, Turns
  <2> QED
    BY <1>1, <2>1, <2>2, <2>3
<1>4. /\ Popped(ClaimOf, stack, t, b) = {}
      /\ First(ClaimOf, G) = Claims(f) /\ Second(ClaimOf, G) = {}
  BY <1>2, <1>3 DEF Popped, First, Second, ClaimOf
<1>5. Step(t, b, G, new, gone)
  <2>1. Trade(Popped(ClaimOf, stack, t, b), First(ClaimOf, G), Second(ClaimOf, G), new, gone)
    BY <1>4, Zenon
  <2>2. Len(G) \in 0..2 /\ \A i \in 1..Len(G) : FrameOK(G[i])'
    BY <1>2
  <2> QED
    BY <1>3, <2>1, <2>2 DEF Step
<1>6. Len(G) \in 0..2
  BY <1>2
<1>7. Kept(new, gone)
  BY <1>5, StepKeeps
<1>8. Announced => Announced'
  <2>1. Len(stack[t]) # b + 1
    BY <1>3
  <2> QED
    BY <1>3, <1>6, <2>1, StepAnnounces
<1> QED
  BY <1>7, <1>8

LEMMA StepCallTwo ==
  ASSUME LibuvInv, Steady, NEW t \in Threads, NEW f \in Frame, NEW g \in Frame, stack' = [stack EXCEPT ![t] = @ \o <<f, g>>], FrameOK(f)', FrameOK(g)',
         NEW new, NEW gone, Trade({}, Claims(f), Claims(g), new, gone)
  PROVE  Kept(new, gone) /\ (Announced => Announced')
<1>1. PICK b, G : b = Len(stack[t]) /\ G = <<f, g>>
  OBVIOUS
<1>2. Len(G) = 2 /\ 1..Len(G) = {1, 2} /\ G[1] = f /\ G[2] = g
  BY <1>1, Tuples
<1>3. /\ stack \in [Threads -> Seq(Frame)] /\ Shift(Frame, Threads, stack, stack', t, b, G)
      /\ b \in Nat /\ Len(stack[t]) = b
  <2>1. PICK n : n = Len(stack[t])
    OBVIOUS
  <2>2. stack \in [Threads -> Seq(Frame)]
    BY DEF LibuvInv, Typed
  <2>3. n \in Nat /\ Shift(Frame, Threads, stack, stack', t, n, G)
    BY <1>1, <2>1, <2>2, Turns
  <2> QED
    BY <1>1, <2>1, <2>2, <2>3
<1>4. /\ Popped(ClaimOf, stack, t, b) = {}
      /\ First(ClaimOf, G) = Claims(f) /\ Second(ClaimOf, G) = Claims(g)
  BY <1>2, <1>3 DEF Popped, First, Second, ClaimOf
<1>5. Step(t, b, G, new, gone)
  <2>1. Trade(Popped(ClaimOf, stack, t, b), First(ClaimOf, G), Second(ClaimOf, G), new, gone)
    BY <1>4, Zenon
  <2>2. Len(G) \in 0..2 /\ \A i \in 1..Len(G) : FrameOK(G[i])'
    BY <1>2
  <2> QED
    BY <1>3, <2>1, <2>2 DEF Step
<1>6. Len(G) \in 0..2
  BY <1>2
<1>7. Kept(new, gone)
  BY <1>5, StepKeeps
<1>8. Announced => Announced'
  <2>1. Len(stack[t]) # b + 1
    BY <1>3
  <2> QED
    BY <1>3, <1>6, <2>1, StepAnnounces
<1> QED
  BY <1>7, <1>8

LEMMA StepLeave ==
  ASSUME LibuvInv, Steady, NEW t \in Threads, pc(t) # "idle", Leave(t),
         NEW new, NEW gone, Trade(Claims(Top(t)), {}, {}, new, gone)
  PROVE  Kept(new, gone) /\ (pc(t) \notin Heralds /\ Announced => Announced')
<1>1. PICK b, G : b = Len(stack[t]) - 1 /\ G = <<>>
  OBVIOUS
<1>2. Len(G) = 0 /\ 1..Len(G) = {}
  BY <1>1, Tuples
<1>3. /\ stack \in [Threads -> Seq(Frame)] /\ Shift(Frame, Threads, stack, stack', t, b, G)
      /\ b \in Nat /\ Len(stack[t]) = b + 1 /\ Top(t) = stack[t][b + 1] /\ Top(t) \in Frame
      /\ pc(t) = Top(t).pc
  <2>1. PICK n : n = Len(stack[t])
    OBVIOUS
  <2>2. stack \in [Threads -> Seq(Frame)]
    BY DEF LibuvInv, Typed
  <2>3. n \in Nat \ {0} /\ Top(t) = stack[t][n] /\ Top(t) \in Frame /\ pc(t) = Top(t).pc
    BY <2>1, <2>2, Turns
  <2>4. Shift(Frame, Threads, stack, stack', t, n - 1, G)
    BY <1>1, <2>1, <2>2, Turns
  <2>5. b = n - 1 /\ b + 1 = n
    BY <1>1, <2>1, <2>3
  <2> QED
    BY <2>1, <2>2, <2>3, <2>4, <2>5
<1>4. /\ Popped(ClaimOf, stack, t, b) = Claims(Top(t))
      /\ First(ClaimOf, G) = {} /\ Second(ClaimOf, G) = {}
  <2>1. b + 1 # b
    BY <1>3
  <2> QED
    BY <1>2, <1>3, <2>1 DEF Popped, First, Second, ClaimOf
<1>5. Step(t, b, G, new, gone)
  <2>1. Trade(Popped(ClaimOf, stack, t, b), First(ClaimOf, G), Second(ClaimOf, G), new, gone)
    BY <1>4, Zenon
  <2>2. Len(G) \in 0..2 /\ \A i \in 1..Len(G) : FrameOK(G[i])'
    BY <1>2
  <2> QED
    BY <1>3, <2>1, <2>2 DEF Step
<1>6. Len(G) \in 0..2
  BY <1>2
<1>7. Kept(new, gone)
  BY <1>5, StepKeeps
<1>8. pc(t) \notin Heralds /\ Announced => Announced'
  BY <1>3, <1>6, StepAnnounces
<1> QED
  BY <1>7, <1>8

LEMMA StepGoto ==
  ASSUME LibuvInv, Steady, NEW t \in Threads, NEW f \in Frame, pc(t) # "idle", Goto(t, f), FrameOK(f)',
         NEW new, NEW gone, Trade(Claims(Top(t)), Claims(f), {}, new, gone)
  PROVE  Kept(new, gone) /\ (pc(t) \notin Heralds /\ Announced => Announced') /\ (f.pc \in Heralds => Announced')
<1>1. PICK b, G : b = Len(stack[t]) - 1 /\ G = <<f>>
  OBVIOUS
<1>2. Len(G) = 1 /\ 1..Len(G) = {1} /\ G[1] = f
  BY <1>1, Tuples
<1>3. /\ stack \in [Threads -> Seq(Frame)] /\ Shift(Frame, Threads, stack, stack', t, b, G)
      /\ b \in Nat /\ Len(stack[t]) = b + 1 /\ Top(t) = stack[t][b + 1] /\ Top(t) \in Frame
      /\ pc(t) = Top(t).pc
  <2>1. PICK n : n = Len(stack[t])
    OBVIOUS
  <2>2. stack \in [Threads -> Seq(Frame)]
    BY DEF LibuvInv, Typed
  <2>3. n \in Nat \ {0} /\ Top(t) = stack[t][n] /\ Top(t) \in Frame /\ pc(t) = Top(t).pc
    BY <2>1, <2>2, Turns
  <2>4. Shift(Frame, Threads, stack, stack', t, n - 1, G)
    BY <1>1, <2>1, <2>2, Turns
  <2>5. b = n - 1 /\ b + 1 = n
    BY <1>1, <2>1, <2>3
  <2> QED
    BY <2>1, <2>2, <2>3, <2>4, <2>5
<1>4. /\ Popped(ClaimOf, stack, t, b) = Claims(Top(t))
      /\ First(ClaimOf, G) = Claims(f) /\ Second(ClaimOf, G) = {}
  <2>1. b + 1 # b
    BY <1>3
  <2> QED
    BY <1>2, <1>3, <2>1 DEF Popped, First, Second, ClaimOf
<1>5. Step(t, b, G, new, gone)
  <2>1. Trade(Popped(ClaimOf, stack, t, b), First(ClaimOf, G), Second(ClaimOf, G), new, gone)
    BY <1>4, Zenon
  <2>2. Len(G) \in 0..2 /\ \A i \in 1..Len(G) : FrameOK(G[i])'
    BY <1>2
  <2> QED
    BY <1>3, <2>1, <2>2 DEF Step
<1>6. Len(G) \in 0..2
  BY <1>2
<1>7. Kept(new, gone)
  BY <1>5, StepKeeps
<1>8. pc(t) \notin Heralds /\ Announced => Announced'
  BY <1>3, <1>6, StepAnnounces
<1>9. ASSUME f.pc \in Heralds PROVE Announced'
  <2>1. Len(G) # 0 /\ G[1].pc \in Heralds
    BY <1>2, <1>9
  <2> QED
    BY <1>3, <1>6, <2>1, StepAnnounces
<1> QED
  BY <1>7, <1>8, <1>9

LEMMA StepGotoEnter ==
  ASSUME LibuvInv, Steady, NEW t \in Threads, NEW f \in Frame, NEW g \in Frame, pc(t) # "idle", GotoEnter(t, f, g), FrameOK(f)', FrameOK(g)',
         NEW new, NEW gone, Trade(Claims(Top(t)), Claims(f), Claims(g), new, gone)
  PROVE  Kept(new, gone) /\ (pc(t) \notin Heralds /\ Announced => Announced')
<1>1. PICK b, G : b = Len(stack[t]) - 1 /\ G = <<f, g>>
  OBVIOUS
<1>2. Len(G) = 2 /\ 1..Len(G) = {1, 2} /\ G[1] = f /\ G[2] = g
  BY <1>1, Tuples
<1>3. /\ stack \in [Threads -> Seq(Frame)] /\ Shift(Frame, Threads, stack, stack', t, b, G)
      /\ b \in Nat /\ Len(stack[t]) = b + 1 /\ Top(t) = stack[t][b + 1] /\ Top(t) \in Frame
      /\ pc(t) = Top(t).pc
  <2>1. PICK n : n = Len(stack[t])
    OBVIOUS
  <2>2. stack \in [Threads -> Seq(Frame)]
    BY DEF LibuvInv, Typed
  <2>3. n \in Nat \ {0} /\ Top(t) = stack[t][n] /\ Top(t) \in Frame /\ pc(t) = Top(t).pc
    BY <2>1, <2>2, Turns
  <2>4. Shift(Frame, Threads, stack, stack', t, n - 1, G)
    BY <1>1, <2>1, <2>2, Turns
  <2>5. b = n - 1 /\ b + 1 = n
    BY <1>1, <2>1, <2>3
  <2> QED
    BY <2>1, <2>2, <2>3, <2>4, <2>5
<1>4. /\ Popped(ClaimOf, stack, t, b) = Claims(Top(t))
      /\ First(ClaimOf, G) = Claims(f) /\ Second(ClaimOf, G) = Claims(g)
  <2>1. b + 1 # b
    BY <1>3
  <2> QED
    BY <1>2, <1>3, <2>1 DEF Popped, First, Second, ClaimOf
<1>5. Step(t, b, G, new, gone)
  <2>1. Trade(Popped(ClaimOf, stack, t, b), First(ClaimOf, G), Second(ClaimOf, G), new, gone)
    BY <1>4, Zenon
  <2>2. Len(G) \in 0..2 /\ \A i \in 1..Len(G) : FrameOK(G[i])'
    BY <1>2
  <2> QED
    BY <1>3, <2>1, <2>2 DEF Step
<1>6. Len(G) \in 0..2
  BY <1>2
<1>7. Kept(new, gone)
  BY <1>5, StepKeeps
<1>8. pc(t) \notin Heralds /\ Announced => Announced'
  BY <1>3, <1>6, StepAnnounces
<1> QED
  BY <1>7, <1>8

--------------------------------------------------------------------------------
(* What a step leaves alone *)

Untouched(s) ==
  /\ calls'[s] = calls[s] /\ hits'[s] = hits[s]
  /\ state'[s] = state[s] /\ latch'[s] = latch[s] /\ refs'[s] = refs[s]

\* Shares that are all of spread s, that are none of it, and that are none of any spread.
Of(s, S)    == \A x \in S : x.kind # "item" /\ x.id = s
NotOf(s, S) == \A x \in S : x.kind = "item" \/ x.id # s
OfItems(S)  == \A x \in S : x.kind = "item"

NodeKinds     == {"caller", "queuer", "request"}
NodePart(s, S) == {x \in S : x.kind \in NodeKinds /\ x.id = s}

LEMMA NodeMoves ==
  ASSUME NEW s, NEW new, NEW gone, InHand' = (InHand \cup new) \ gone
  PROVE  /\ NodeShares(s)' = (NodeShares(s) \cup NodePart(s, new)) \ NodePart(s, gone)
         /\ NodePart(s, new) \cap InHand = {} => NodePart(s, new) \cap NodeShares(s) = {}
BY DEF NodeShares, NodePart, NodeKinds

LEMMA SpreadKept ==
  ASSUME NEW s \in Spreads, SpreadOK(s), Untouched(s),
         NEW new, NEW gone, InHand' = (InHand \cup new) \ gone, NotOf(s, new), NotOf(s, gone)
  PROVE  SpreadOK(s)'
<1>1. ASSUME NEW x, x.kind # "item", x.id = s
      PROVE  x \in InHand' <=> x \in InHand
  BY <1>1 DEF NotOf
<1>2. /\ CallerShare(s) \in InHand' <=> CallerShare(s) \in InHand
      /\ QueuerShare(s) \in InHand' <=> QueuerShare(s) \in InHand
      /\ OwnShare(s) \in InHand' <=> OwnShare(s) \in InHand
      /\ \A c : Chunk(s, c) \in InHand' <=> Chunk(s, c) \in InHand
      /\ \A c : RequestShare(s, c) \in InHand' <=> RequestShare(s, c) \in InHand
  BY <1>1, ShareShapes
<1>3. SharesOK(s)'
  BY <1>2 DEF SpreadOK, SharesOK, Untouched
<1>4. ChunksOK(s)'
  BY DEF SpreadOK, ChunksOK, Untouched, Unrun
<1>5. NodeShares(s)' = NodeShares(s)
  BY <1>1 DEF NodeShares
<1>6. RefsOK(s)'
  BY <1>5 DEF SpreadOK, RefsOK, Untouched
<1> QED
  BY <1>3, <1>4, <1>6 DEF SpreadOK

LEMMA ItemsKept ==
  ASSUME ItemsOK, Flying' = Flying, inFlight' = inFlight,
         NEW new, NEW gone, InHand' = (InHand \cup new) \ gone,
         \A i \in Items : Item(i) \notin new /\ Item(i) \notin gone
  PROVE  ItemsOK'
BY DEF ItemsOK

\* A step that concerns one spread, and one that concerns items only.
LEMMA SpreadMoves ==
  ASSUME LibuvInv, NEW s \in Spreads, \A u \in Spreads \ {s} : Untouched(u), SpreadOK(s)',
         fired' = fired, inFlight' = inFlight,
         NEW new, NEW gone, Kept(new, gone), Of(s, new), Of(s, gone)
  PROVE  (\A u \in Spreads : SpreadOK(u))' /\ ItemsOK'
<1>1. InHand' = (InHand \cup new) \ gone
  BY DEF Kept
<1>2. ASSUME NEW u \in Spreads PROVE SpreadOK(u)'
  <2>1. CASE u = s
    BY <2>1
  <2>2. CASE u # s
    <3>1. NotOf(u, new) /\ NotOf(u, gone)
      BY <2>2 DEF Of, NotOf
    <3> QED
      BY <1>1, <2>2, <3>1, SpreadKept DEF LibuvInv
  <2> QED
    BY <2>1, <2>2
<1>3. \A i \in Items : Item(i) \notin new /\ Item(i) \notin gone
  BY ShareShapes DEF Of
<1>4. ItemsOK'
  BY <1>1, <1>3, ItemsKept DEF LibuvInv, Flying
<1> QED
  BY <1>2, <1>4

LEMMA ItemMoves ==
  ASSUME LibuvInv, UNCHANGED <<node, calls, hits>>,
         NEW new, NEW gone, Kept(new, gone), OfItems(new), OfItems(gone)
  PROVE  (\A u \in Spreads : SpreadOK(u))'
<1>1. InHand' = (InHand \cup new) \ gone
  BY DEF Kept
<1>2. ASSUME NEW u \in Spreads PROVE SpreadOK(u)'
  <2>1. NotOf(u, new) /\ NotOf(u, gone)
    BY DEF OfItems, NotOf
  <2>2. Untouched(u)
    BY DEF node, Untouched
  <2> QED
    BY <1>1, <2>1, <2>2, SpreadKept DEF LibuvInv
<1> QED
  BY <1>2

LEMMA SteadyStill ==
  ASSUME UNCHANGED <<state, calls, hits>>
  PROVE  Steady
BY DEF Steady

\* The list of nodes stays announced.
Calm == pending' = pending /\ (async => async') /\ (loop = "closed" => loop' = "closed")

LEMMA CalmPending ==
  ASSUME LibuvInv, Calm, Announced => Announced'
  PROVE  PendingOK'
BY DEF LibuvInv, PendingOK, Calm

\* The types of what waits.
QueuesTyped == poolQueue \in Seq(Works) /\ afterQueue \in Seq(Works) /\ pending \in Seq(Spreads)

LEMMA QueuesStill ==
  ASSUME LibuvInv, UNCHANGED <<poolQueue, afterQueue, pending>>
  PROVE  QueuesOK' /\ QueuesTyped' /\ Waiting' = Waiting
BY DEF LibuvInv, QueuesOK, Typed, Waiting, QueuesTyped

\* A step that only passes frames and shares on.
LEMMA Passed ==
  ASSUME LibuvInv, UNCHANGED <<node, inFlight, calls, hits, fired>>,
         Kept({}, {}), QueuesOK', QueuesTyped', PendingOK'
  PROVE  LibuvInv'
<1>1. (\A u \in Spreads : SpreadOK(u))'
  BY ItemMoves DEF OfItems
<1>2. ItemsOK'
  <2>1. InHand' = (InHand \cup {}) \ {}
    BY DEF Kept
  <2>2. ItemsOK /\ Flying' = Flying
    BY DEF LibuvInv, Flying
  <2> QED
    BY <2>1, <2>2, ItemsKept
<1>3. Typed'
  BY DEF LibuvInv, Typed, node, Kept, QueuesTyped
<1> QED
  BY <1>1, <1>2, <1>3 DEF LibuvInv, Kept

\* The references to a node.
LEMMA RefsSame ==
  ASSUME NEW s, RefsOK(s), refs'[s] = refs[s], NodeShares(s)' = NodeShares(s)
  PROVE  RefsOK(s)'
BY DEF RefsOK

LEMMA RefsMore ==
  ASSUME NEW s, RefsOK(s), NEW x, x \notin NodeShares(s), refs'[s] = refs[s] + 1,
         NodeShares(s)' = NodeShares(s) \cup {x}
  PROVE  RefsOK(s)'
BY FS_AddElement DEF RefsOK

LEMMA RefsLess ==
  ASSUME NEW s, RefsOK(s), NEW x, x \in NodeShares(s), refs'[s] = refs[s] - 1,
         NodeShares(s)' = NodeShares(s) \ {x}
  PROVE  RefsOK(s)'
BY FS_RemoveElement DEF RefsOK

--------------------------------------------------------------------------------
(* The steps that pass on what they have *)

LEMMA Apart ==
  ASSUME NEW s
  PROVE  /\ CallerShare(s) # OwnShare(s) /\ CallerShare(s) # QueuerShare(s)
         /\ OwnShare(s) # QueuerShare(s)
         /\ \A u, c : /\ Chunk(u, c) # CallerShare(s) /\ Chunk(u, c) # QueuerShare(s)
                      /\ Chunk(u, c) # OwnShare(s)
         /\ \A u, v, c, d : Chunk(u, c) # RequestShare(v, d)
         /\ \A u, c : RequestShare(u, c) # QueuerShare(s) /\ RequestShare(u, c) # CallerShare(s)
         /\ \A u : QueuerShare(u) = QueuerShare(s) => u = s
BY ShareShapes

\* The frame on top goes on, with the same shares.
LEMMA GoesOn ==
  ASSUME LibuvInv, NEW t \in Threads, pc(t) # "idle", NEW g \in Frame, Goto(t, g), FrameOK(g)',
         Claims(g) = Claims(Top(t)), UNCHANGED <<poolQueue, afterQueue, pending>>,
         UNCHANGED <<node, inFlight, calls, hits, fired>>
  PROVE  /\ PendingOK' => LibuvInv'
         /\ pc(t) \notin Heralds /\ Calm => LibuvInv'
<1>1. QueuesOK' /\ QueuesTyped' /\ Waiting' = Waiting
  BY QueuesStill
<1>2. Claims(Top(t)) \cap Waiting = {}
  BY Mine
<1>3. Trade(Claims(Top(t)), Claims(g), {}, {}, {})
  BY <1>1, <1>2 DEF Trade, Trades
<1>4. Steady
  BY SteadyStill DEF node
<1>5. Kept({}, {}) /\ (pc(t) \notin Heralds /\ Announced => Announced')
  BY <1>3, <1>4, StepGoto
<1> QED
  BY <1>1, <1>5, Passed, CalmPending

LEMMA SubmitKeeps ==
  ASSUME LibuvInv, NEW t \in Threads, Submit(t)
  PROVE  LibuvInv'
<1>1. PICK f, s, k : f = Top(t) /\ s = f.id /\ k = f.k
  OBVIOUS
<1>2. /\ pc(t) = "submit" /\ pc(t) # "idle" /\ pc(t) \notin Heralds
      /\ pending' = <<s>> \o pending
      /\ Goto(t, [f EXCEPT !.pc = "send"])
      /\ UNCHANGED <<poolQueue, afterQueue>> /\ UNCHANGED <<node, inFlight, calls, hits, fired>>
  BY <1>1 DEF Submit, GotoPc, uv, Heralds
<1>3. f \in Frame /\ f.pc = "submit" /\ Claims(f) \cap Waiting = {}
  BY <1>1, <1>2, Mine
<1>4. s \in Spreads /\ k \in Nat /\ [f EXCEPT !.pc = "send"] = CallFrame("send", s, k)
  BY <1>1, <1>3, CallShapes DEF Calling
<1>5. PICK g : g = CallFrame("send", s, k)
  OBVIOUS
<1>6. g \in Frame /\ g.pc = "send" /\ g.id = s /\ Goto(t, g)
  BY SMTT(30), <1>2, <1>4, <1>5, Shapes, FrameFields DEF Calling
<1>7. /\ Claims(f) = {CallerShare(s), OwnShare(s), QueuerShare(s)}
      /\ Claims(g) = {CallerShare(s), OwnShare(s)}
  BY <1>1, <1>3, <1>6, ClaimsAt
<1>8. FrameOK(g)'
  BY <1>6 DEF FrameOK
<1>9. pending' \in Seq(Spreads) /\ QueuesOK' /\ Waiting' = Waiting \cup {QueuerShare(s)}
  <2>1. QueuerShare(s) \notin Waiting
    BY <1>3, <1>7
  <2>2. Typed /\ QueuesOK /\ poolQueue' = poolQueue /\ afterQueue' = afterQueue
    BY <1>2 DEF LibuvInv
  <2> QED
    BY <1>2, <1>4, <2>1, <2>2, ListGets
<1>10. Trade(Claims(Top(t)), Claims(g), {}, {}, {})
  BY <1>1, <1>3, <1>7, <1>9, Apart DEF Trade, Trades
<1>11. Steady
  BY <1>2, SteadyStill DEF node
<1>12. Kept({}, {}) /\ Announced'
  BY <1>2, <1>6, <1>8, <1>10, <1>11, StepGoto DEF Heralds
<1>13. QueuesTyped'
  BY <1>2, <1>9 DEF LibuvInv, Typed, QueuesTyped
<1> QED
  BY <1>2, <1>9, <1>12, <1>13, Passed DEF PendingOK

LEMMA SendKeeps ==
  ASSUME LibuvInv, NEW t \in Threads, Send(t)
  PROVE  LibuvInv'
<1>1. PICK f, s, k : f = Top(t) /\ s = f.id /\ k = f.k
  OBVIOUS
<1>2. /\ pc(t) = "send" /\ pc(t) # "idle" /\ async' = TRUE
      /\ Goto(t, [f EXCEPT !.pc = "tail"])
      /\ UNCHANGED <<poolQueue, afterQueue, pending>>
      /\ UNCHANGED <<node, inFlight, calls, hits, fired>>
  BY <1>1 DEF Send, GotoPc
<1>3. f \in Frame /\ f.pc = "send"
  BY <1>1, <1>2, Mine
<1>4. s \in Spreads /\ k \in Nat /\ [f EXCEPT !.pc = "tail"] = CallFrame("tail", s, k)
  BY <1>1, <1>3, CallShapes DEF Calling
<1>5. PICK g : g = CallFrame("tail", s, k)
  OBVIOUS
<1>6. g \in Frame /\ g.pc = "tail" /\ g.id = s /\ Goto(t, g)
  BY <1>2, <1>4, <1>5, Shapes, FrameFields DEF Calling
<1>7. Claims(g) = Claims(Top(t))
  BY <1>1, <1>3, <1>6, ClaimsAt
<1>8. FrameOK(g)' /\ PendingOK'
  BY <1>2, <1>6 DEF FrameOK, PendingOK
<1> QED
  BY <1>2, <1>6, <1>7, <1>8, GoesOn

LEMMA StealNothingKeeps ==
  ASSUME LibuvInv, NEW t \in Threads, StealNothing(t)
  PROVE  LibuvInv'
<1>1. PICK f, s, k, j : f = Top(t) /\ s = f.id /\ k = f.k /\ j = k - 1
  OBVIOUS
<1>2. /\ pc(t) = "steal" /\ pc(t) # "idle" /\ pc(t) \notin Heralds /\ k > 0
      /\ Goto(t, [f EXCEPT !.k = j])
      /\ UNCHANGED <<poolQueue, afterQueue, pending>> /\ Calm
      /\ UNCHANGED <<node, inFlight, calls, hits, fired>>
  BY <1>1 DEF StealNothing, uv, Heralds, Calm
<1>3. f \in Frame /\ f.pc = "steal" /\ FrameOK(f)
  BY <1>1, <1>2, Mine
<1>4. s \in Spreads /\ k \in Nat /\ j \in Nat /\ [f EXCEPT !.k = j] = CallFrame("steal", s, j)
  <2>1. s \in Spreads /\ k \in Nat /\ \A m : [f EXCEPT !.k = m] = CallFrame(f.pc, f.id, m)
    BY <1>1, <1>3, CallShapes DEF Calling
  <2> QED
    BY <1>1, <1>2, <1>3, <2>1
<1>5. PICK g : g = CallFrame("steal", s, j)
  OBVIOUS
<1>6. g \in Frame /\ g.pc = "steal" /\ g.id = s /\ g.k = j /\ Goto(t, g)
  BY <1>2, <1>4, <1>5, Shapes, FrameFields DEF Calling
<1>7. Claims(g) = Claims(Top(t))
  BY <1>1, <1>3, <1>6, ClaimsAt
<1>8. FrameOK(g)'
  <2>1. calls[s] # "new" /\ k <= Len(state[s]) /\ Len(state[s]) \in Nat
    BY <1>1, <1>3, <1>4 DEF FrameOK, LibuvInv, Typed
  <2>2. calls'[s] # "new" /\ j <= Len(state'[s])
    BY <1>1, <1>2, <1>4, <2>1 DEF node
  <2> QED
    BY <1>6, <2>2 DEF FrameOK
<1> QED
  BY <1>2, <1>6, <1>7, <1>8, GoesOn

LEMMA ChunksFinite ==
  ASSUME Typed, NEW s \in Spreads
  PROVE  IsFiniteSet(DOMAIN hits[s]) /\ IsFiniteSet(Unrun(s)) /\ Unrun(s) \subseteq Nat \ {0}
<1>1. PICK n \in Nat : hits[s] \in [1..n -> {0, 1}]
  BY DEF Typed
<1>2. PICK D : D = 1..n
  OBVIOUS
<1>3. DOMAIN hits[s] = D /\ D \subseteq Nat \ {0}
  BY <1>1, <1>2
<1>4. IsFiniteSet(D)
  <2>1. n \in Int /\ 1 \in Int
    OBVIOUS
  <2> QED
    BY <1>2, <2>1, FS_Interval
<1>5. Unrun(s) \subseteq D
  BY <1>3 DEF Unrun
<1> QED
  BY <1>3, <1>4, <1>5, FS_Subset

LEMMA SpreadWaitKeeps ==
  ASSUME LibuvInv, NEW t \in Threads, SpreadWait(t)
  PROVE  LibuvInv'
<1>1. PICK f, s, k : f = Top(t) /\ s = f.id /\ k = f.k
  OBVIOUS
<1>2. /\ pc(t) = "steal" /\ pc(t) # "idle" /\ pc(t) \notin Heralds /\ latch[s] = 0
      /\ Goto(t, [f EXCEPT !.pc = "release"])
      /\ UNCHANGED <<poolQueue, afterQueue, pending>> /\ Calm
      /\ UNCHANGED <<node, inFlight, calls, hits, fired>>
  BY <1>1 DEF SpreadWait, GotoPc, uv, Heralds, Calm
<1>3. f \in Frame /\ f.pc = "steal" /\ Claims(f) \subseteq InHand
  BY <1>1, <1>2, Mine
<1>4. s \in Spreads /\ k \in Nat /\ [f EXCEPT !.pc = "release"] = CallFrame("release", s, k)
  BY <1>1, <1>3, CallShapes DEF Calling
<1>5. PICK g : g = CallFrame("release", s, k)
  OBVIOUS
<1>6. g \in Frame /\ g.pc = "release" /\ g.id = s /\ Goto(t, g)
  BY <1>2, <1>4, <1>5, Shapes, FrameFields DEF Calling
<1>7. Claims(g) = Claims(Top(t)) /\ CallerShare(s) \in InHand
  BY <1>1, <1>3, <1>6, ClaimsAt
<1>8. calls[s] = "active" /\ Len(state[s]) # 0 /\ ChunksOK(s)
  BY <1>4, <1>7 DEF LibuvInv, SpreadOK, SharesOK
<1>9. Unrun(s) = {}
  <2>1. DOMAIN hits[s] = 1..(Len(state[s]) + 1) /\ Cardinality(Unrun(s)) = 0
    BY <1>2, <1>8 DEF ChunksOK
  <2>2. IsFiniteSet(Unrun(s))
    BY <1>4, ChunksFinite DEF LibuvInv
  <2> QED
    BY <2>1, <2>2, FS_EmptySet
<1>10. FrameOK(g)'
  <2>1. calls'[s] # "new" /\ Unrun(s)' = {}
    BY <1>2, <1>8, <1>9 DEF Unrun
  <2> QED
    BY <1>6, <2>1 DEF FrameOK
<1> QED
  BY <1>2, <1>6, <1>7, <1>10, GoesOn

LEMMA QueueSkipKeeps ==
  ASSUME LibuvInv, QueueSkip
  PROVE  LibuvInv'
<1>1. PICK t, f, s, k, j : t = Loop /\ f = Top(t) /\ s = f.id /\ k = f.k /\ j = k + 1
  OBVIOUS
<1>2. /\ t \in Threads /\ pc(t) = "queue" /\ pc(t) # "idle" /\ pc(t) \notin Heralds
      /\ Goto(t, [f EXCEPT !.k = j])
      /\ UNCHANGED <<poolQueue, afterQueue, pending>> /\ Calm
      /\ UNCHANGED <<node, inFlight, calls, hits, fired>>
  BY <1>1 DEF QueueSkip, NextChunk, uv, Heralds, Calm, Threads
<1>3. f \in Frame /\ f.pc = "queue" /\ FrameOK(f)
  BY <1>1, <1>2, Mine
<1>4. s \in Spreads /\ j \in Nat /\ j >= 1 /\ [f EXCEPT !.k = j] = CallFrame("queue", s, j)
  <2>1. s \in Spreads /\ k \in Nat /\ \A m : [f EXCEPT !.k = m] = CallFrame(f.pc, f.id, m)
    BY <1>1, <1>3, CallShapes
  <2> QED
    BY <1>1, <1>2, <1>3, <2>1
<1>5. PICK g : g = CallFrame("queue", s, j)
  OBVIOUS
<1>6. g \in Frame /\ g.pc = "queue" /\ g.id = s /\ g.k = j /\ Goto(t, g)
  <2>1. g \in Frame
    BY <1>4, <1>5, Shapes
  <2> QED
    BY <1>2, <1>4, <1>5, <2>1, FrameFields
<1>7. Claims(g) = Claims(Top(t))
  BY <1>1, <1>3, <1>6, ClaimsAt
<1>8. FrameOK(g)'
  BY <1>4, <1>6 DEF FrameOK
<1> QED
  BY <1>2, <1>6, <1>7, <1>8, GoesOn

\* Nothing of what is modelled but the threads' places, the host's part of libuv and the
\* handle of the loop.
Idle == UNCHANGED <<node, inFlight, calls, hits, fired>>

LEMMA AsyncFiresKeeps ==
  ASSUME LibuvInv, AsyncFires
  PROVE  LibuvInv'
<1>1. PICK t, g : t = Loop /\ g = [pc |-> "exchange"]
  OBVIOUS
<1>2. /\ t \in Threads /\ Enter(t, g) /\ UNCHANGED <<poolQueue, afterQueue, pending>> /\ Idle
  BY <1>1 DEF AsyncFires, Threads, Idle
<1>3. g \in Frame /\ g.pc = "exchange"
  BY <1>1, Shapes
<1>4. FrameOK(g)' /\ Claims(g) = {}
  BY <1>3, ClaimsAt DEF FrameOK
<1>5. QueuesOK' /\ QueuesTyped' /\ Waiting' = Waiting
  BY <1>2, QueuesStill
<1>6. Trade({}, Claims(g), {}, {}, {})
  BY <1>4, <1>5 DEF Trade, Trades
<1>7. Steady
  BY <1>2, SteadyStill DEF Idle, node
<1>8. Kept({}, {}) /\ Announced'
  BY <1>2, <1>3, <1>4, <1>6, <1>7, StepEnter DEF Heralds
<1> QED
  BY <1>2, <1>5, <1>8, Passed DEF PendingOK, Idle

LEMMA AsyncExchangeKeeps ==
  ASSUME LibuvInv, AsyncExchange
  PROVE  LibuvInv'
<1>1. PICK t, p, g : t = Loop /\ p = pending /\ g = AsyncFrame(p)
  OBVIOUS
<1>2. /\ t \in Threads /\ pc(t) = "exchange" /\ pc(t) # "idle" /\ Goto(t, g)
      /\ UNCHANGED <<poolQueue, afterQueue>> /\ pending' = <<>> /\ Idle
  BY <1>1 DEF AsyncExchange, Threads, Idle, uv
<1>3. p \in Seq(Spreads) /\ Distinct(p)
  BY <1>1 DEF LibuvInv, Typed, QueuesOK
<1>4. g \in Frame /\ g.pc = "async" /\ g.list = p
  BY <1>1, <1>3, Shapes, FrameFields
<1>5. FrameOK(g)'
  BY <1>3, <1>4 DEF FrameOK, Distinct
<1>6. /\ Claims(Top(t)) = {} /\ Claims(g) = {QueuerShare(s) : s \in ToSet(p)}
  <2>1. Top(t).pc = "exchange"
    BY <1>2, Mine
  <2> QED
    BY <1>4, <2>1, ClaimsAt
<1>7. Len(pending') = 0 /\ pending' \in Seq(Spreads) /\ ToSet(pending') = {}
  BY <1>2 DEF ToSet
<1>8. QueuesOK' /\ QueuesTyped' /\ PendingOK'
  BY <1>2, <1>7 DEF LibuvInv, QueuesOK, Typed, QueuesTyped, Distinct, PendingOK
<1>9. Waiting = Waiting' \cup Claims(g) /\ Claims(g) \cap Waiting' = {}
  <2>1. PICK P, A, L : P = ToSet(poolQueue) /\ A = ToSet(afterQueue) /\ L = ToSet(pending)
    OBVIOUS
  <2>2. Waiting = SharesOf(P, A, L) /\ Waiting' = SharesOf(P, A, {})
    BY <1>2, <1>7, <2>1 DEF Waiting
  <2>3. Waiting = Waiting' \cup Claims(g)
    BY <1>1, <1>6, <2>1, <2>2 DEF SharesOf
  <2>4. P \in SUBSET Works /\ A \in SUBSET Works
    BY <2>1, QueueSets DEF LibuvInv
  <2>5. \A s : QueuerShare(s) \notin Waiting'
    BY <2>2, <2>4, SharesApart
  <2> QED
    BY <1>6, <2>3, <2>5
<1>10. Trade(Claims(Top(t)), Claims(g), {}, {}, {})
  BY <1>6, <1>9 DEF Trade, Trades
<1>11. Steady
  BY <1>2, SteadyStill DEF Idle, node
<1>12. Kept({}, {})
  BY <1>2, <1>4, <1>5, <1>10, <1>11, StepGoto
<1> QED
  BY <1>2, <1>8, <1>12, Passed DEF Idle

LEMMA AsyncNextKeeps ==
  ASSUME LibuvInv, AsyncNext
  PROVE  LibuvInv'
<1>1. PICK t, f, p : t = Loop /\ f = Top(t) /\ p = f.list
  OBVIOUS
<1>2. PICK r, s : r = Tail(p) /\ s = Head(p)
  OBVIOUS
<1>3. PICK g, h : g = AsyncFrame(r) /\ h = QueueFrame(s)
  OBVIOUS
<1>4. /\ t \in Threads /\ pc(t) = "async" /\ pc(t) # "idle" /\ pc(t) \notin Heralds /\ p # <<>>
      /\ GotoEnter(t, g, h)
      /\ UNCHANGED <<poolQueue, afterQueue, pending>> /\ Calm /\ Idle
  BY <1>1, <1>2, <1>3 DEF AsyncNext, Threads, Idle, uv, Calm, Heralds
<1>5. f \in Frame /\ f.pc = "async" /\ FrameOK(f) /\ Claims(f) \cap Waiting = {}
  BY <1>1, <1>4, Mine
<1>6. p \in Seq(Spreads) /\ Distinct(p)
  BY <1>1, <1>5, Shapes DEF FrameOK
<1>7. /\ r \in Seq(Spreads) /\ s \in Spreads /\ ToSet(p) = ToSet(r) \cup {s}
      /\ Distinct(r) /\ s \notin ToSet(r)
  BY <1>2, <1>4, <1>6, Tailed
<1>8. /\ g \in Frame /\ g.pc = "async" /\ g.list = r
      /\ h \in Frame /\ h.pc = "queue" /\ h.id = s /\ h.k = 1
  <2>1. h = CallFrame("queue", s, 1)
    BY <1>3 DEF QueueFrame, CallFrame
  <2>2. g \in Frame /\ h \in Frame
    BY SMTT(30), <1>3, <1>7, <2>1, Shapes
  <2> QED
    BY <1>3, <2>1, <2>2, FrameFields
<1>9. FrameOK(g)' /\ FrameOK(h)'
  BY <1>7, <1>8 DEF FrameOK, Distinct
<1>10. /\ Claims(Top(t)) = {QueuerShare(u) : u \in ToSet(r)} \cup {QueuerShare(s)}
       /\ Claims(g) = {QueuerShare(u) : u \in ToSet(r)} /\ Claims(h) = {QueuerShare(s)}
  <2>1. Claims(Top(t)) = {QueuerShare(u) : u \in ToSet(p)}
    BY <1>1, <1>5, ClaimsAt
  <2> QED
    BY <1>7, <1>8, <2>1, ClaimsAt
<1>11. Claims(g) \cap Claims(h) = {}
  BY <1>7, <1>10, Apart
<1>12. QueuesOK' /\ QueuesTyped' /\ Waiting' = Waiting
  BY <1>4, QueuesStill
<1>13. Trade(Claims(Top(t)), Claims(g), Claims(h), {}, {})
  BY <1>1, <1>5, <1>10, <1>11, <1>12 DEF Trade, Trades
<1>14. Steady
  BY <1>4, SteadyStill DEF Idle, node
<1>15. Kept({}, {}) /\ (Announced => Announced')
  BY <1>4, <1>8, <1>9, <1>13, <1>14, StepGotoEnter
<1> QED
  BY <1>4, <1>12, <1>15, CalmPending, Passed DEF Idle

LEMMA AsyncEndsKeeps ==
  ASSUME LibuvInv, AsyncEnds
  PROVE  LibuvInv'
<1>1. PICK t, f : t = Loop /\ f = Top(t)
  OBVIOUS
<1>2. /\ t \in Threads /\ pc(t) = "async" /\ pc(t) # "idle" /\ pc(t) \notin Heralds /\ f.list = <<>>
      /\ Leave(t)
      /\ UNCHANGED <<poolQueue, afterQueue, pending>> /\ Calm /\ Idle
  BY <1>1 DEF AsyncEnds, Threads, Idle, uv, Calm, Heralds
<1>3. Claims(Top(t)) = {}
  <2>1. f.pc = "async"
    BY <1>1, <1>2, Mine
  <2>2. ToSet(f.list) = {}
    BY <1>2 DEF ToSet
  <2> QED
    BY <1>1, <2>1, <2>2, ClaimsAt
<1>4. QueuesOK' /\ QueuesTyped' /\ Waiting' = Waiting
  BY <1>2, QueuesStill
<1>5. Trade(Claims(Top(t)), {}, {}, {}, {})
  BY <1>3, <1>4 DEF Trade, Trades
<1>6. Steady
  BY <1>2, SteadyStill DEF Idle, node
<1>7. Kept({}, {}) /\ (Announced => Announced')
  BY <1>2, <1>5, <1>6, StepLeave
<1> QED
  BY <1>2, <1>4, <1>7, CalmPending, Passed DEF Idle

LEMMA PoolTakesKeeps ==
  ASSUME LibuvInv, NEW t \in Threads, PoolTakes(t)
  PROVE  LibuvInv'
<1>1. PICK w, g : w = Head(poolQueue) /\ g = Body("pool", w)
  OBVIOUS
<1>2. /\ poolQueue # <<>> /\ poolQueue' = Tail(poolQueue) /\ Enter(t, g)
      /\ UNCHANGED <<afterQueue, pending>> /\ Calm /\ Idle
  BY <1>1 DEF PoolTakes, Idle, Calm
<1>3. /\ w \in Works /\ poolQueue' \in Seq(Works) /\ QueuesOK'
      /\ PoolShares(w) \cap Waiting' = {} /\ Waiting = Waiting' \cup PoolShares(w)
  BY <1>1, <1>2, PoolGives DEF LibuvInv
<1>4. QueuesTyped'
  BY <1>2, <1>3 DEF QueuesTyped, LibuvInv, Typed
<1>5. g \in Frame /\ g.pc = "pool" /\ g.work = w
  BY <1>1, <1>3, Shapes, FrameFields
<1>6. Claims(g) = PoolShares(w) /\ FrameOK(g)'
  BY <1>5, ClaimsAt DEF FrameOK
<1>7. Trade({}, Claims(g), {}, {}, {})
  BY <1>3, <1>6 DEF Trade, Trades
<1>8. Steady
  BY <1>2, SteadyStill DEF Idle, node
<1>9. Kept({}, {}) /\ (Announced => Announced')
  BY <1>2, <1>5, <1>6, <1>7, <1>8, StepEnter
<1> QED
  BY <1>2, <1>3, <1>4, <1>9, CalmPending, Passed DEF Idle

LEMMA PostKeeps ==
  ASSUME LibuvInv, NEW t \in Threads, Post(t)
  PROVE  LibuvInv'
<1>1. PICK f, w : f = Top(t) /\ w = f.work
  OBVIOUS
<1>2. /\ pc(t) = "post" /\ pc(t) # "idle" /\ pc(t) \notin Heralds
      /\ afterQueue' = Append(afterQueue, w) /\ Leave(t)
      /\ UNCHANGED <<poolQueue, pending>> /\ Calm /\ Idle
  BY <1>1 DEF Post, Idle, Calm, Heralds
<1>3. f \in Frame /\ f.pc = "post" /\ Claims(f) \cap Waiting = {}
  BY <1>1, <1>2, Mine
<1>4. w \in Works /\ Claims(f) = AfterShares(w)
  BY <1>1, <1>3, Shapes, WorkShapes, ClaimsAt
<1>5. afterQueue' \in Seq(Works) /\ QueuesOK' /\ Waiting' = Waiting \cup AfterShares(w)
  BY <1>2, <1>3, <1>4, AfterGets DEF LibuvInv
<1>6. QueuesTyped'
  BY <1>2, <1>5 DEF QueuesTyped, LibuvInv, Typed
<1>7. Trade(Claims(Top(t)), {}, {}, {}, {})
  BY <1>1, <1>4, <1>5 DEF Trade, Trades
<1>8. Steady
  BY <1>2, SteadyStill DEF Idle, node
<1>9. Kept({}, {}) /\ (Announced => Announced')
  BY <1>2, <1>7, <1>8, StepLeave
<1> QED
  BY <1>2, <1>5, <1>6, <1>9, CalmPending, Passed DEF Idle

LEMMA ItemAfterKeeps ==
  ASSUME LibuvInv, ItemAfter
  PROVE  LibuvInv'
<1>1. PICK t, w, g : t = Loop /\ w = Head(afterQueue) /\ g = Body("after", w)
  OBVIOUS
<1>2. /\ t \in Threads /\ afterQueue # <<>> /\ w.kind = "item"
      /\ afterQueue' = Tail(afterQueue) /\ Enter(t, g)
      /\ UNCHANGED <<poolQueue, pending>> /\ Calm /\ Idle
  BY <1>1 DEF ItemAfter, Idle, Calm, Threads
<1>3. /\ w \in Works /\ afterQueue' \in Seq(Works) /\ QueuesOK'
      /\ AfterShares(w) \cap Waiting' = {} /\ Waiting = Waiting' \cup AfterShares(w)
  BY <1>1, <1>2, AfterGives DEF LibuvInv
<1>4. QueuesTyped'
  BY <1>2, <1>3 DEF QueuesTyped, LibuvInv, Typed
<1>5. w.id \in Items /\ w = Item(w.id)
  BY <1>2, <1>3, WorkShapes
<1>6. g \in Frame /\ g.pc = "after" /\ g.work = w
  BY <1>1, <1>5, Shapes, FrameFields
<1>7. Claims(g) = {w} /\ AfterShares(w) = {w} /\ FrameOK(g)'
  BY <1>2, <1>6, ClaimsAt DEF FrameOK, AfterShares
<1>8. Trade({}, Claims(g), {}, {}, {})
  BY <1>3, <1>7 DEF Trade, Trades
<1>9. Steady
  BY <1>2, SteadyStill DEF Idle, node
<1>10. Kept({}, {}) /\ (Announced => Announced')
  BY <1>2, <1>6, <1>7, <1>8, <1>9, StepEnter
<1> QED
  BY <1>2, <1>3, <1>4, <1>10, CalmPending, Passed DEF Idle

\* The loop is bound or closed, or nothing happens.
LEMMA StaysKeeps ==
  ASSUME LibuvInv, UNCHANGED <<poolQueue, afterQueue, pending, stack>>, Idle, Calm
  PROVE  LibuvInv'
<1>1. Loop \in Threads
  BY DEF Threads
<1>2. QueuesOK' /\ QueuesTyped' /\ Waiting' = Waiting
  BY QueuesStill
<1>3. Trade({}, {}, {}, {}, {})
  BY <1>2 DEF Trade, Trades
<1>4. Steady
  BY SteadyStill DEF Idle, node
<1>5. Kept({}, {}) /\ (Announced => Announced')
  BY <1>1, <1>3, <1>4, StepStay
<1> QED
  BY <1>2, <1>5, CalmPending, Passed DEF Idle

LEMMA StillKeeps ==
  ASSUME LibuvInv, Bind \/ Unbind \/ UNCHANGED vars
  PROVE  LibuvInv'
BY StaysKeeps DEF Bind, Unbind, vars, uv, Idle, Calm

--------------------------------------------------------------------------------
(* The steps of a spread *)

SpreadsTyped ==
  /\ refs \in [Spreads -> Int] /\ latch \in [Spreads -> Int]
  /\ state \in [Spreads -> Seq(Marks)]
  /\ calls \in [Spreads -> {"new", "active", "returned"}]
  /\ DOMAIN hits = Spreads
  /\ \A s \in Spreads : \E n \in Nat : hits[s] \in [1..n -> {0, 1}]

LEMMA Moved ==
  ASSUME LibuvInv, NEW s \in Spreads, \A u \in Spreads \ {s} : Untouched(u), SpreadOK(s)',
         fired' = fired, inFlight' = inFlight,
         NEW new, NEW gone, Kept(new, gone), Of(s, new), Of(s, gone),
         SpreadsTyped', QueuesOK', QueuesTyped', PendingOK'
  PROVE  LibuvInv'
<1>1. (\A u \in Spreads : SpreadOK(u))' /\ ItemsOK'
  BY SpreadMoves
<1>2. Typed'
  BY DEF LibuvInv, Typed, Kept, QueuesTyped, SpreadsTyped
<1> QED
  BY <1>1, <1>2 DEF LibuvInv, Kept

\* A mark set, and nothing else of the chunks.
Marked(s, k, m) ==
  /\ state' \in [Spreads -> Seq(Marks)] /\ Len(state'[s]) = Len(state[s]) /\ state'[s][k] = m
  /\ \A c \in 1..Len(state[s]) : c # k => state'[s][c] = state[s][c]
  /\ \A u \in Spreads \ {s} : state'[u] = state[u]

LEMMA Marking ==
  ASSUME Typed, NEW s \in Spreads, NEW k \in 1..Len(state[s]), NEW m \in Marks,
         state' = [state EXCEPT ![s][k] = m]
  PROVE  Marked(s, k, m)
<1>1. PICK p, r : p = state[s] /\ r = [p EXCEPT ![k] = m]
  OBVIOUS
<1>2. p \in Seq(Marks) /\ Len(p) \in Nat /\ DOMAIN p = 1..Len(p) /\ k \in 1..Len(p)
  BY <1>1 DEF Typed
<1>3. DOMAIN r = 1..Len(p) /\ r[k] = m /\ \A c \in 1..Len(p) : c # k => r[c] = p[c]
  BY <1>1, <1>2
<1>4. \A c \in 1..Len(p) : r[c] \in Marks
  BY <1>2, <1>3, ElementOfSeq
<1>5. r \in Seq(Marks) /\ Len(r) = Len(p)
  <2>1. r \in [1..Len(p) -> Marks]
    BY <1>1, <1>2, <1>3, <1>4
  <2> QED
    BY <1>2, <2>1
<1>6. state' = [state EXCEPT ![s] = r]
  BY <1>1
<1>7. state' \in [Spreads -> Seq(Marks)] /\ state'[s] = r /\ \A u \in Spreads \ {s} : state'[u] = state[u]
  BY <1>5, <1>6 DEF Typed
<1> QED
  BY <1>1, <1>3, <1>5, <1>7 DEF Marked

\* A chunk that is not queued yet belongs to nobody.
LEMMA PendingChunk ==
  ASSUME LibuvInv, NEW s \in Spreads, calls[s] # "new", NEW k \in 1..Len(state[s]),
         state[s][k] = "pending"
  PROVE  /\ calls[s] = "active" /\ k \in DOMAIN hits[s] /\ hits[s][k] = 0
         /\ Chunk(s, k) \notin InHand /\ RequestShare(s, k) \notin InHand
<1>1. SharesOK(s) /\ ChunksOK(s) /\ Len(state[s]) \in Nat /\ calls[s] \in {"new", "active", "returned"}
  BY DEF LibuvInv, SpreadOK, Typed
<1>2. k \in Nat /\ Len(state[s]) # 0 /\ k \in 1..(Len(state[s]) + 1)
  BY <1>1
<1>3. k \in DOMAIN hits[s] /\ hits[s][k] = 0
  BY <1>1, <1>2 DEF ChunksOK
<1>4. Unrun(s) # {}
  BY <1>3 DEF Unrun
<1>5. calls[s] = "active"
  BY <1>1, <1>4 DEF ChunksOK
<1>6. Chunk(s, k) \notin InHand /\ RequestShare(s, k) \notin InHand
  BY <1>1, <1>2 DEF SharesOK
<1> QED
  BY <1>3, <1>5, <1>6

\* A chunk is claimed or queued: what comes into being are its shares, if any.
LEMMA MarkKeeps ==
  ASSUME LibuvInv, NEW s \in Spreads, calls[s] # "new", NEW k \in 1..Len(state[s]),
         NEW m \in {"queued", "done_inline"}, state' = [state EXCEPT ![s][k] = m],
         UNCHANGED <<latch, calls, hits>>,
         NEW new, new \subseteq {Chunk(s, k), RequestShare(s, k)},
         new # {} => state[s][k] = "pending"
  PROVE  /\ Steady /\ Marked(s, k, m) /\ new \cap InHand = {} /\ Of(s, new)
         /\ InHand' = InHand \cup new => SharesOK(s)' /\ ChunksOK(s)'
<1>1. Marked(s, k, m)
  BY Marking DEF LibuvInv, Marks
<1>2. Steady
  <2>1. ASSUME NEW u \in Spreads, calls[u] # "new" PROVE Len(state'[u]) = Len(state[u])
    BY <1>1 DEF Marked
  <2> QED
    BY <2>1 DEF Steady
<1>3. Of(s, new)
  BY ShareShapes DEF Of
<1>4. new # {} => /\ calls[s] = "active" /\ k \in DOMAIN hits[s] /\ hits[s][k] = 0
                  /\ Chunk(s, k) \notin InHand /\ RequestShare(s, k) \notin InHand
  BY PendingChunk
<1>5. ASSUME InHand' = InHand \cup new
      PROVE  SharesOK(s)'
  <2>1. SharesOK(s) /\ Len(state[s]) \in Nat
    BY DEF LibuvInv, SpreadOK, Typed
  <2>2. PICK n : n = Len(state[s])
    OBVIOUS
  <2>3. n \in Nat /\ k \in 1..n /\ Len(state'[s]) = n
    BY <1>1, <2>1, <2>2 DEF Marked
  <2>4. \A c \in 1..n : c # k => state'[s][c] = state[s][c]
    BY <1>1, <2>2 DEF Marked
  <2>5. state'[s][k] # "pending"
    BY <1>1 DEF Marked
  <2>6. /\ CallerShare(s) \notin new /\ QueuerShare(s) \notin new /\ OwnShare(s) \notin new
        /\ \A c : Chunk(s, c) \in new => c = k
        /\ \A c : RequestShare(s, c) \in new => c = k
    BY ShareShapes
  <2>7. ASSUME NEW c \in Nat, Chunk(s, c) \in InHand'
        PROVE  /\ calls'[s] = "active" /\ c \in DOMAIN hits'[s] /\ hits'[s][c] = 0
               /\ c \in 1..Len(state'[s]) => state'[s][c] # "pending"
    <3>1. CASE Chunk(s, c) \in InHand
      BY <2>1, <2>2, <2>3, <2>4, <2>5, <3>1 DEF SharesOK
    <3>2. CASE Chunk(s, c) \in new
      BY <1>4, <2>5, <2>6, <3>2
    <3> QED
      BY <1>5, <2>7, <3>1, <3>2
  <2>8. ASSUME NEW c \in Nat, RequestShare(s, c) \in InHand'
        PROVE  calls'[s] # "new" /\ c \in 1..Len(state'[s]) /\ state'[s][c] # "pending"
    <3>1. CASE RequestShare(s, c) \in InHand
      BY <2>1, <2>2, <2>3, <2>4, <2>5, <3>1 DEF SharesOK
    <3>2. CASE RequestShare(s, c) \in new
      BY <2>3, <2>5, <2>6, <3>2
    <3> QED
      BY <1>5, <2>8, <3>1, <3>2
  <2>9. Chunk(s, n + 1) \notin new
    BY <2>3, <2>6
  <2> QED
    BY <1>5, <2>1, <2>2, <2>3, <2>6, <2>7, <2>8, <2>9 DEF SharesOK
<1>6. ChunksOK(s)'
  <2>1. ChunksOK(s) /\ Len(state[s]) \in Nat
    BY DEF LibuvInv, SpreadOK, Typed
  <2>2. ASSUME NEW c \in 1..Len(state'[s]), state'[s][c] = "pending"
        PROVE  hits'[s][c] = 0
    BY <1>1, <2>1, <2>2 DEF Marked, ChunksOK
  <2> QED
    BY <1>1, <2>1, <2>2 DEF Marked, ChunksOK, Unrun
<1> QED
  BY <1>1, <1>2, <1>3, <1>4, <1>5, <1>6

\* A frame that goes down the chunks of s, or up; and the frame that runs one of them.
LEMMA Runs ==
  ASSUME LibuvInv, NEW s \in Spreads, NEW c \in Nat \ {0}, NEW h, h = Body("inline", Chunk(s, c)),
         calls'[s] # "new", Len(state'[s]) # 0
  PROVE  h \in Frame /\ Claims(h) = {Chunk(s, c)} /\ FrameOK(h)'
<1>1. Chunk(s, c) \in Chunks
  BY WorkShapes
<1>2. h \in Frame /\ h.pc = "inline" /\ h.work = Chunk(s, c)
  BY <1>1, Shapes, FrameFields
<1>3. Claims(h) = {Chunk(s, c)}
  BY <1>2, ClaimsAt
<1>4. FrameOK(h)'
  BY <1>2, ShareShapes DEF FrameOK
<1> QED
  BY <1>2, <1>3, <1>4

LEMMA StealIds ==
  ASSUME NEW f \in Frame, f.pc \in Calling \/ f.pc = "queue" \/ f.pc = "steal"
  PROVE  f.id \in Spreads /\ f.k \in Nat
BY CallShapes DEF Calling

LEMMA StealFrame ==
  ASSUME NEW f \in Frame, f.pc = "steal", NEW k, k = f.k, k > 0, NEW s, s = f.id,
         NEW j, j = k - 1, NEW g, g = [f EXCEPT !.k = j],
         f.k <= Len(state[s]), calls'[s] # "new", Len(state[s]) \in Nat
  PROVE  /\ s \in Spreads /\ k \in Nat \ {0} /\ k \in 1..Len(state[s])
         /\ g \in Frame /\ Claims(g) = {CallerShare(s)} /\ Claims(f) = {CallerShare(s)}
         /\ Len(state'[s]) = Len(state[s]) => Len(state'[s]) # 0 /\ FrameOK(g)'
<1>1. s \in Spreads /\ k \in Nat /\ \A m : [f EXCEPT !.k = m] = CallFrame("steal", s, m)
  <2>1. f.pc \in Calling \cup {"queue"}
    BY DEF Calling
  <2>2. f.id \in Spreads /\ f.k \in Nat /\ \A m : [f EXCEPT !.k = m] = CallFrame(f.pc, f.id, m)
    BY <2>1, CallShapes
  <2> QED
    BY <2>2
<1>2. j \in Nat /\ j <= Len(state[s]) /\ k \in 1..Len(state[s]) /\ Len(state[s]) # 0
  BY <1>1
<1>3. g = CallFrame("steal", s, j)
  BY <1>1
<1>4. g \in Frame /\ g.pc = "steal" /\ g.id = s /\ g.k = j
  BY <1>1, <1>2, <1>3, Shapes, FrameFields DEF Calling
<1>5. Claims(g) = {CallerShare(s)} /\ Claims(f) = {CallerShare(s)}
  BY <1>4, ClaimsAt
<1>6. ASSUME Len(state'[s]) = Len(state[s]) PROVE Len(state'[s]) # 0 /\ FrameOK(g)'
  BY <1>2, <1>4, <1>6 DEF FrameOK
<1> QED
  BY <1>1, <1>2, <1>4, <1>5, <1>6

\* A chunk that is not queued yet is claimed and run.
LEMMA ChunkTaken ==
  ASSUME LibuvInv, NEW t \in Threads, pc(t) # "idle", pc(t) \notin Heralds,
         NEW s \in Spreads, calls[s] # "new", NEW k \in 1..Len(state[s]), state[s][k] = "pending",
         state' = [state EXCEPT ![s][k] = "done_inline"],
         NEW g \in Frame, Claims(g) = Claims(Top(t)), Len(state'[s]) = Len(state[s]) => FrameOK(g)',
         GotoEnter(t, g, Body("inline", Chunk(s, k))),
         UNCHANGED <<poolQueue, afterQueue, pending>>, Calm,
         UNCHANGED <<refs, latch, inFlight, calls, hits, fired>>
  PROVE  LibuvInv'
<1>1. PICK h, w, new : w = Chunk(s, k) /\ h = Body("inline", w) /\ new = {w}
  OBVIOUS
<1>2. Len(state[s]) \in Nat /\ k \in Nat \ {0}
  BY DEF LibuvInv, Typed
<1>3. /\ Steady /\ Marked(s, k, "done_inline") /\ new \cap InHand = {} /\ Of(s, new)
      /\ InHand' = InHand \cup new => SharesOK(s)' /\ ChunksOK(s)'
  <2>1. UNCHANGED <<latch, calls, hits>> /\ new \subseteq {Chunk(s, k), RequestShare(s, k)}
    BY <1>1
  <2> QED
    BY <2>1, MarkKeeps
<1>4. FrameOK(g)' /\ calls'[s] # "new" /\ Len(state'[s]) # 0
  BY <1>2, <1>3 DEF Marked
<1>5. h \in Frame /\ Claims(h) = {w} /\ FrameOK(h)'
  BY <1>1, <1>2, <1>4, Runs
<1>6. QueuesOK' /\ QueuesTyped' /\ Waiting' = Waiting
  BY QueuesStill
<1>7. Claims(Top(t)) \cap Waiting = {} /\ Claims(Top(t)) \subseteq InHand
  BY Mine
<1>8. w \notin InHand /\ w \notin Waiting
  BY <1>1, <1>3 DEF InHand, Taken
<1>9. Trade(Claims(Top(t)), Claims(g), Claims(h), new, {})
  BY <1>1, <1>5, <1>6, <1>7, <1>8 DEF Trade, Trades, InHand
<1>10. Kept(new, {}) /\ (Announced => Announced')
  BY <1>1, <1>3, <1>4, <1>5, <1>9, StepGotoEnter
<1>11. InHand' = (InHand \cup new) \ {}
  BY <1>10 DEF Kept
<1>12. RefsOK(s)'
  <2>1. NodePart(s, new) = {} /\ NodePart(s, {}) = {}
    BY <1>1, ShareShapes DEF NodePart, NodeKinds
  <2>2. NodeShares(s)' = (NodeShares(s) \cup NodePart(s, new)) \ NodePart(s, {})
    BY <1>11, NodeMoves, Zenon
  <2>3. NodeShares(s)' = NodeShares(s)
    BY <2>1, <2>2
  <2> QED
    BY <2>3, RefsSame DEF LibuvInv, SpreadOK
<1>13. SpreadOK(s)'
  BY <1>3, <1>11, <1>12 DEF SpreadOK
<1>14. \A u \in Spreads \ {s} : Untouched(u)
  BY <1>3 DEF Marked, Untouched
<1>15. SpreadsTyped' /\ Of(s, {})
  BY <1>3 DEF LibuvInv, Typed, SpreadsTyped, Marked, Of
<1>16. PendingOK'
  BY <1>10, CalmPending
<1> QED
  BY <1>3, <1>6, <1>10, <1>13, <1>14, <1>15, <1>16, Moved

LEMMA StealPendingKeeps ==
  ASSUME LibuvInv, NEW t \in Threads, StealPending(t)
  PROVE  LibuvInv'
<1>1. PICK f, s, k, j, g : f = Top(t) /\ s = f.id /\ k = f.k /\ j = k - 1 /\ g = [f EXCEPT !.k = j]
  OBVIOUS
<1>2. /\ pc(t) = "steal" /\ pc(t) # "idle" /\ pc(t) \notin Heralds /\ k > 0
      /\ state[s][k] = "pending" /\ state' = [state EXCEPT ![s][k] = "done_inline"]
      /\ GotoEnter(t, g, Body("inline", Chunk(s, k)))
      /\ UNCHANGED <<poolQueue, afterQueue, pending>> /\ Calm
      /\ UNCHANGED <<refs, latch, inFlight, calls, hits, fired>>
  BY <1>1 DEF StealPending, uv, Heralds, Calm
<1>3. f \in Frame /\ f.pc = "steal" /\ FrameOK(f)
  BY <1>1, <1>2, Mine
<1>4. /\ s \in Spreads /\ calls[s] # "new" /\ f.k <= Len(state[s]) /\ Len(state[s]) \in Nat
      /\ calls'[s] # "new"
  BY <1>1, <1>2, <1>3, StealIds DEF FrameOK, LibuvInv, Typed
<1>5. /\ k \in 1..Len(state[s]) /\ k \in Nat \ {0} /\ g \in Frame
      /\ Claims(f) = {CallerShare(s)} /\ Claims(g) = {CallerShare(s)}
      /\ Len(state'[s]) = Len(state[s]) => Len(state'[s]) # 0 /\ FrameOK(g)'
  BY <1>1, <1>2, <1>3, <1>4, StealFrame
<1> QED
  BY <1>1, <1>2, <1>4, <1>5, ChunkTaken

\* A cancelled chunk passes from the pool to the thread, its reference to the loop.
LEMMA StealQueuedKeeps ==
  ASSUME LibuvInv, NEW t \in Threads, StealQueued(t)
  PROVE  LibuvInv'
<1>1. PICK f, s, k, j, g : f = Top(t) /\ s = f.id /\ k = f.k /\ j = k - 1 /\ g = [f EXCEPT !.k = j]
  OBVIOUS
<1>2. PICK w, h : w = Chunk(s, k) /\ h = Body("inline", w)
  OBVIOUS
<1>3. /\ pc(t) = "steal" /\ pc(t) # "idle" /\ pc(t) \notin Heralds /\ k > 0
      /\ \E i \in DOMAIN poolQueue : poolQueue[i] = w /\ poolQueue' = RemoveAt(poolQueue, i)
      /\ afterQueue' = Append(afterQueue, w)
      /\ state' = [state EXCEPT ![s][k] = "done_inline"]
      /\ GotoEnter(t, g, h) /\ pending' = pending /\ Calm
      /\ UNCHANGED <<refs, latch, inFlight, calls, hits, fired>>
  BY <1>1, <1>2 DEF StealQueued, Heralds, Calm
<1>4. f \in Frame /\ f.pc = "steal" /\ FrameOK(f) /\ Claims(f) \cap Waiting = {} /\ Claims(f) \subseteq InHand
  BY <1>1, <1>3, Mine
<1>5. /\ s \in Spreads /\ calls[s] # "new" /\ f.k <= Len(state[s]) /\ Len(state[s]) \in Nat
      /\ calls'[s] # "new"
  BY <1>1, <1>3, <1>4, StealIds DEF FrameOK, LibuvInv, Typed
<1>6. /\ k \in 1..Len(state[s]) /\ k \in Nat \ {0} /\ g \in Frame
      /\ Claims(f) = {CallerShare(s)} /\ Claims(g) = {CallerShare(s)}
      /\ Len(state'[s]) = Len(state[s]) => Len(state'[s]) # 0 /\ FrameOK(g)'
  BY SMTT(30), <1>1, <1>3, <1>4, <1>5, StealFrame
<1>7. /\ Steady /\ Marked(s, k, "done_inline")
      /\ InHand' = InHand \cup {} => SharesOK(s)' /\ ChunksOK(s)'
  <2>1. PICK new : new = {}
    OBVIOUS
  <2>2. UNCHANGED <<latch, calls, hits>> /\ new \subseteq {Chunk(s, k), RequestShare(s, k)}
    BY <1>3, <2>1
  <2>3. /\ Steady /\ Marked(s, k, "done_inline")
        /\ InHand' = InHand \cup new => SharesOK(s)' /\ ChunksOK(s)'
    BY <1>3, <1>5, <1>6, <2>1, <2>2, MarkKeeps
  <2> QED
    BY <2>1, <2>3
<1>8. FrameOK(g)' /\ Len(state'[s]) # 0
  BY <1>6, <1>7 DEF Marked
<1>9. h \in Frame /\ Claims(h) = {w} /\ FrameOK(h)'
  BY <1>2, <1>5, <1>6, <1>8, Runs
<1>10. /\ poolQueue' \in Seq(Works) /\ afterQueue' \in Seq(Works) /\ QueuesOK'
       /\ w \in Waiting /\ Waiting' = Waiting \ {w}
  <2>1. w \in Chunks
    BY <1>2, <1>5, <1>6, WorkShapes
  <2>2. PICK i \in DOMAIN poolQueue : poolQueue[i] = w /\ poolQueue' = RemoveAt(poolQueue, i)
    BY <1>3
  <2> QED
    BY <1>3, <2>1, <2>2, PoolCancels DEF LibuvInv
<1>11. Trade(Claims(Top(t)), Claims(g), Claims(h), {}, {})
  <2>1. w # CallerShare(s)
    BY <1>2, Apart
  <2> QED
    BY <1>1, <1>4, <1>6, <1>9, <1>10, <2>1 DEF Trade, Trades
<1>12. Kept({}, {}) /\ (Announced => Announced')
  BY <1>3, <1>6, <1>7, <1>8, <1>9, <1>11, StepGotoEnter
<1>13. InHand' = InHand
  BY <1>12 DEF Kept
<1>14. RefsOK(s)'
  <2>1. NodeShares(s)' = NodeShares(s)
    BY <1>13 DEF NodeShares
  <2> QED
    BY <1>3, <1>5, <2>1, RefsSame DEF LibuvInv, SpreadOK
<1>15. SpreadOK(s)'
  BY <1>7, <1>13, <1>14 DEF SpreadOK
<1>16. \A u \in Spreads \ {s} : Untouched(u)
  BY <1>3, <1>7 DEF Marked, Untouched
<1>17. SpreadsTyped' /\ QueuesTyped' /\ Of(s, {})
  BY <1>3, <1>7, <1>10 DEF LibuvInv, Typed, SpreadsTyped, QueuesTyped, Marked, Of
<1>18. PendingOK'
  BY <1>3, <1>12, CalmPending
<1> QED
  BY <1>3, <1>5, <1>10, <1>12, <1>15, <1>16, <1>17, <1>18, Moved

LEMMA QueueIds ==
  ASSUME NEW f \in Frame, f.pc = "queue", NEW k, k = f.k, NEW s, s = f.id, k >= 1,
         NEW g, g = NextChunk(f)
  PROVE  /\ s \in Spreads /\ k \in Nat \ {0}
         /\ g \in Frame /\ Claims(g) = {QueuerShare(s)} /\ Claims(f) = {QueuerShare(s)}
         /\ FrameOK(g)'
<1>1. s \in Spreads /\ k \in Nat /\ \A m : [f EXCEPT !.k = m] = CallFrame(f.pc, s, m)
  BY CallShapes
<1>2. PICK j : j = k + 1
  OBVIOUS
<1>3. j \in Nat /\ j >= 1 /\ g = CallFrame("queue", s, j)
  BY <1>1, <1>2 DEF NextChunk
<1>4. g \in Frame
  BY SMTT(30), <1>1, <1>3, Shapes
<1>5. g.pc = "queue" /\ g.id = s /\ g.k = j
  BY <1>3, FrameFields
<1>6. Claims(g) = {QueuerShare(s)} /\ Claims(f) = {QueuerShare(s)}
  BY <1>5, ClaimsAt
<1>7. FrameOK(g)'
  BY <1>3, <1>5 DEF FrameOK
<1> QED
  BY <1>1, <1>4, <1>6, <1>7

LEMMA QueueRefusedKeeps ==
  ASSUME LibuvInv, QueueRefused
  PROVE  LibuvInv'
<1>1. PICK t, f, s, k, g : t = Loop /\ f = Top(t) /\ s = f.id /\ k = f.k /\ g = NextChunk(f)
  OBVIOUS
<1>2. /\ t \in Threads /\ pc(t) = "queue" /\ pc(t) # "idle" /\ pc(t) \notin Heralds
      /\ k <= Len(state[s])
      /\ state[s][k] = "pending" /\ state' = [state EXCEPT ![s][k] = "done_inline"]
      /\ GotoEnter(t, g, Body("inline", Chunk(s, k)))
      /\ UNCHANGED <<poolQueue, afterQueue, pending>> /\ Calm
      /\ UNCHANGED <<refs, latch, inFlight, calls, hits, fired>>
  BY <1>1 DEF QueueRefused, Unqueued, uv, Heralds, Calm, Threads
<1>3. f \in Frame /\ f.pc = "queue" /\ k >= 1 /\ Claims(f) \subseteq InHand
  <2>1. f \in Frame /\ f.pc = "queue" /\ FrameOK(f) /\ Claims(f) \subseteq InHand
    BY <1>1, <1>2, Mine
  <2> QED
    BY <1>1, <2>1 DEF FrameOK
<1>4. /\ s \in Spreads /\ k \in Nat \ {0} /\ g \in Frame
      /\ Claims(g) = {QueuerShare(s)} /\ Claims(f) = {QueuerShare(s)} /\ FrameOK(g)'
  BY <1>1, <1>3, QueueIds
<1>5. calls[s] # "new" /\ k \in 1..Len(state[s])
  BY <1>2, <1>3, <1>4 DEF LibuvInv, SpreadOK, SharesOK, Typed
<1> QED
  BY <1>1, <1>2, <1>4, <1>5, ChunkTaken

LEMMA QueueChunkKeeps ==
  ASSUME LibuvInv, QueueChunk
  PROVE  LibuvInv'
<1>1. PICK t, f, s, k, g : t = Loop /\ f = Top(t) /\ s = f.id /\ k = f.k /\ g = NextChunk(f)
  OBVIOUS
<1>2. PICK w, new : w = Chunk(s, k) /\ new = {Chunk(s, k), RequestShare(s, k)}
  OBVIOUS
<1>3. /\ t \in Threads /\ pc(t) = "queue" /\ pc(t) # "idle" /\ pc(t) \notin Heralds
      /\ k <= Len(state[s])
      /\ state[s][k] = "pending" /\ state' = [state EXCEPT ![s][k] = "queued"]
      /\ refs' = [refs EXCEPT ![s] = @ + 1]
      /\ poolQueue' = Append(poolQueue, w)
      /\ Goto(t, g)
      /\ UNCHANGED <<afterQueue, pending>> /\ Calm
      /\ UNCHANGED <<latch, inFlight, calls, hits, fired>>
  BY <1>1, <1>2 DEF QueueChunk, Unqueued, Heralds, Calm, Threads
<1>4. f \in Frame /\ f.pc = "queue" /\ k >= 1 /\ Claims(f) \cap Waiting = {} /\ Claims(f) \subseteq InHand
  <2>1. /\ f \in Frame /\ f.pc = "queue" /\ FrameOK(f)
        /\ Claims(f) \cap Waiting = {} /\ Claims(f) \subseteq InHand
    BY <1>1, <1>3, Mine
  <2> QED
    BY <1>1, <2>1 DEF FrameOK
<1>5. /\ s \in Spreads /\ k \in Nat \ {0} /\ g \in Frame
      /\ Claims(g) = {QueuerShare(s)} /\ Claims(f) = {QueuerShare(s)} /\ FrameOK(g)'
  BY <1>1, <1>4, QueueIds
<1>6. calls[s] # "new" /\ k \in 1..Len(state[s])
  BY <1>3, <1>4, <1>5 DEF LibuvInv, SpreadOK, SharesOK, Typed
<1>7. /\ Steady /\ Marked(s, k, "queued") /\ new \cap InHand = {} /\ Of(s, new)
      /\ InHand' = InHand \cup new => SharesOK(s)' /\ ChunksOK(s)'
  <2>1. UNCHANGED <<latch, calls, hits>> /\ new \subseteq {Chunk(s, k), RequestShare(s, k)}
    BY <1>2, <1>3
  <2> QED
    BY <1>3, <1>5, <1>6, <2>1, MarkKeeps
<1>8. w \in Works /\ PoolShares(w) = new /\ AfterShares(w) \subseteq new
  BY <1>2, <1>5, WorkShapes, SharesAt
<1>9. new \cap Waiting = {}
  BY <1>7 DEF InHand, Taken
<1>10. poolQueue' \in Seq(Works) /\ QueuesOK' /\ Waiting' = Waiting \cup new
  <2>1. AfterShares(w) \cap Waiting = {}
    BY <1>8, <1>9
  <2>2. /\ poolQueue' \in Seq(Works) /\ QueuesOK' /\ Waiting' = Waiting \cup PoolShares(w)
    BY <1>3, <1>8, <2>1, PoolGets DEF LibuvInv
  <2> QED
    BY <1>8, <2>2
<1>11. Trade(Claims(Top(t)), Claims(g), {}, new, {})
  <2>1. QueuerShare(s) \notin new
    BY <1>2, Apart
  <2> QED
    BY <1>1, <1>4, <1>5, <1>7, <1>10, <2>1 DEF Trade, Trades, InHand
<1>12. Kept(new, {}) /\ (Announced => Announced')
  BY <1>3, <1>5, <1>7, <1>11, StepGoto
<1>13. InHand' = (InHand \cup new) \ {} /\ InHand' = InHand \cup new
  BY <1>12 DEF Kept
<1>14. RefsOK(s)'
  <2>1. NodePart(s, new) = {RequestShare(s, k)} /\ NodePart(s, {}) = {}
    BY <1>2, ShareShapes DEF NodePart, NodeKinds
  <2>2. /\ NodeShares(s)' = (NodeShares(s) \cup NodePart(s, new)) \ NodePart(s, {})
        /\ NodePart(s, new) \cap InHand = {} => NodePart(s, new) \cap NodeShares(s) = {}
    BY <1>13, NodeMoves, Zenon
  <2>3. RequestShare(s, k) \notin InHand
    BY <1>2, <1>7
  <2>4. RequestShare(s, k) \notin NodeShares(s) /\ NodeShares(s)' = NodeShares(s) \cup {RequestShare(s, k)}
    BY <2>1, <2>2, <2>3
  <2>5. RefsOK(s) /\ refs'[s] = refs[s] + 1
    BY <1>3, <1>5 DEF LibuvInv, SpreadOK, Typed
  <2> QED
    BY <2>4, <2>5, RefsMore
<1>15. SpreadOK(s)'
  BY <1>7, <1>13, <1>14 DEF SpreadOK
<1>16. \A u \in Spreads \ {s} : Untouched(u)
  BY <1>3, <1>7 DEF Marked, Untouched, LibuvInv, Typed
<1>17. SpreadsTyped' /\ QueuesTyped' /\ Of(s, {})
  BY <1>3, <1>7, <1>10 DEF LibuvInv, Typed, SpreadsTyped, QueuesTyped, Marked, Of
<1>18. PendingOK'
  BY <1>3, <1>12, CalmPending
<1> QED
  BY <1>3, <1>5, <1>7, <1>10, <1>12, <1>15, <1>16, <1>17, <1>18, Moved

LEMMA TailChunkKeeps ==
  ASSUME LibuvInv, NEW t \in Threads, TailChunk(t)
  PROVE  LibuvInv'
<1>1. PICK f, s, m : f = Top(t) /\ s = f.id /\ m = Len(state[s])
  OBVIOUS
<1>2. PICK c, w, g, h : c = m + 1 /\ w = Chunk(s, c) /\ g = [f EXCEPT !.pc = "steal", !.k = m] /\ h = Body("inline", w)
  OBVIOUS
<1>3. /\ pc(t) = "tail" /\ pc(t) # "idle" /\ pc(t) \notin Heralds
      /\ GotoEnter(t, g, h)
      /\ UNCHANGED <<poolQueue, afterQueue, pending>> /\ Calm /\ Idle
  BY <1>1, <1>2 DEF TailChunk, uv, Heralds, Calm, Idle
<1>4. f \in Frame /\ f.pc = "tail" /\ Claims(f) \cap Waiting = {} /\ Claims(f) \subseteq InHand
  BY <1>1, <1>3, Mine
<1>5. s \in Spreads /\ m \in Nat /\ c \in Nat \ {0}
  BY <1>1, <1>2, <1>4, StealIds DEF LibuvInv, Typed, Calling
<1>6. g = CallFrame("steal", s, m)
  <2>1. f.pc \in Calling \cup {"queue"}
    BY <1>4 DEF Calling
  <2>2. \A l, k : [f EXCEPT !.pc = l, !.k = k] = CallFrame(l, f.id, k)
    BY <1>4, <2>1, CallShapes, Zenon
  <2> QED
    BY <1>1, <1>2, <2>2, Zenon
<1>7. g \in Frame /\ g.pc = "steal" /\ g.id = s /\ g.k = m
  BY <1>5, <1>6, Shapes, FrameFields DEF Calling
<1>8. Claims(f) = {CallerShare(s), OwnShare(s)} /\ Claims(g) = {CallerShare(s)}
  BY <1>1, <1>4, <1>7, ClaimsAt
<1>9. SharesOK(s) /\ ChunksOK(s) /\ OwnShare(s) \in InHand
  BY <1>4, <1>5, <1>8 DEF LibuvInv, SpreadOK
<1>10. /\ calls[s] = "active" /\ m # 0 /\ DOMAIN hits[s] = 1..c /\ hits[s][c] = 0 /\ w \notin InHand
  BY <1>1, <1>2, <1>9 DEF SharesOK, ChunksOK
<1>11. UNCHANGED <<state, calls, hits, refs, latch>>
  BY <1>3 DEF Idle, node
<1>12. FrameOK(g)'
  BY <1>1, <1>5, <1>7, <1>10, <1>11 DEF FrameOK
<1>13. h \in Frame /\ Claims(h) = {w} /\ FrameOK(h)'
  <2>1. calls'[s] # "new" /\ Len(state'[s]) # 0
    BY <1>1, <1>10, <1>11
  <2> QED
    BY <1>2, <1>5, <2>1, Runs
<1>14. QueuesOK' /\ QueuesTyped' /\ Waiting' = Waiting
  BY <1>3, QueuesStill
<1>15. PICK new, gone : new = {w} /\ gone = {OwnShare(s)}
  OBVIOUS
<1>16. w # CallerShare(s) /\ w # OwnShare(s) /\ CallerShare(s) # OwnShare(s) /\ w \notin Waiting
  BY <1>2, <1>10, Apart DEF InHand, Taken
<1>17. Trade(Claims(Top(t)), Claims(g), Claims(h), new, gone)
  BY <1>1, <1>4, <1>8, <1>10, <1>13, <1>14, <1>15, <1>16 DEF Trade, Trades, InHand
<1>18. Kept(new, gone) /\ (Announced => Announced')
  BY <1>3, <1>7, <1>11, <1>12, <1>13, <1>17, StepGotoEnter, SteadyStill
<1>19. InHand' = (InHand \cup new) \ gone
  BY <1>18 DEF Kept
<1>20. RefsOK(s)'
  <2>1. NodePart(s, new) = {} /\ NodePart(s, gone) = {}
    BY <1>2, <1>15, ShareShapes DEF NodePart, NodeKinds
  <2>2. NodeShares(s)' = (NodeShares(s) \cup NodePart(s, new)) \ NodePart(s, gone)
    BY <1>19, NodeMoves, Zenon
  <2>3. NodeShares(s)' = NodeShares(s)
    BY <2>1, <2>2
  <2> QED
    BY <1>5, <1>11, <2>3, RefsSame DEF LibuvInv, SpreadOK
<1>21. SharesOK(s)'
  <2>1. \A x : x \in InHand' => (x \in InHand /\ x # OwnShare(s)) \/ x = w
    BY <1>15, <1>19
  <2>2. /\ w # CallerShare(s) /\ w # QueuerShare(s) /\ w # OwnShare(s)
        /\ \A d : w # RequestShare(s, d)
        /\ \A d : w = Chunk(s, d) => d = c
    BY <1>2, ShareShapes
  <2>3. c \notin 1..m /\ c \in 1..c
    BY <1>2, <1>5
  <2>4. ASSUME NEW d \in Nat, Chunk(s, d) \in InHand'
        PROVE  /\ calls'[s] = "active" /\ d \in DOMAIN hits'[s] /\ hits'[s][d] = 0
               /\ d \in 1..Len(state'[s]) => state'[s][d] # "pending"
    <3>1. CASE Chunk(s, d) \in InHand
      BY <1>9, <1>11, <3>1 DEF SharesOK
    <3>2. CASE Chunk(s, d) = w
      BY <1>1, <1>10, <1>11, <2>2, <2>3, <3>2
    <3> QED
      BY <2>1, <2>4, <3>1, <3>2
  <2> QED
    BY <1>9, <1>11, <2>1, <2>2, <2>4 DEF SharesOK
<1>22. ChunksOK(s)'
  BY <1>9, <1>11 DEF ChunksOK, Unrun
<1>23. \A u \in Spreads \ {s} : Untouched(u)
  BY <1>11 DEF Untouched
<1>24. SpreadsTyped' /\ Of(s, new) /\ Of(s, gone)
  BY <1>2, <1>11, <1>15, ShareShapes DEF LibuvInv, Typed, SpreadsTyped, Of
<1>25. PendingOK'
  BY <1>3, <1>18, CalmPending
<1> QED
  BY <1>3, <1>5, <1>14, <1>18, <1>20, <1>21, <1>22, <1>23, <1>24, <1>25, Moved DEF SpreadOK, Idle

\* Shares that are let go and nothing else of the chunks.
LEMMA SharesLess ==
  ASSUME NEW s, SharesOK(s), InHand' \subseteq InHand, UNCHANGED <<state, calls, hits>>
  PROVE  SharesOK(s)'
<1>1. \A x : x \in InHand' => x \in InHand
  OBVIOUS
<1> QED
  BY <1>1 DEF SharesOK

LEMMA Released ==
  ASSUME LibuvInv, NEW s \in Spreads, NEW x \in InHand, x.kind \in NodeKinds, x.id = s,
         Release(s), NEW gone, gone = {x}, NEW new, new = {}, InHand' = (InHand \cup new) \ gone
  PROVE  /\ RefsOK(s)' /\ refs' \in [Spreads -> Int] /\ \A u \in Spreads \ {s} : refs'[u] = refs[u]
         /\ Of(s, new)
<1>1. NodePart(s, new) = {} /\ NodePart(s, gone) = {x}
  BY DEF NodePart
<1>2. NodeShares(s)' = (NodeShares(s) \cup NodePart(s, new)) \ NodePart(s, gone)
  BY NodeMoves, Zenon
<1>3. NodeShares(s)' = NodeShares(s) \ {x} /\ x \in NodeShares(s)
  BY <1>1, <1>2 DEF NodeShares, NodeKinds
<1>4. RefsOK(s) /\ refs \in [Spreads -> Int]
  BY DEF LibuvInv, SpreadOK, Typed
<1>5. refs'[s] = refs[s] - 1 /\ refs' \in [Spreads -> Int] /\ \A u \in Spreads \ {s} : refs'[u] = refs[u]
  BY <1>4 DEF Release
<1>6. RefsOK(s)'
  BY <1>3, <1>4, <1>5, RefsLess
<1> QED
  BY <1>5, <1>6 DEF Of

LEMMA QueueEndsKeeps ==
  ASSUME LibuvInv, QueueEnds
  PROVE  LibuvInv'
<1>1. PICK t, f, s : t = Loop /\ f = Top(t) /\ s = f.id
  OBVIOUS
<1>2. /\ t \in Threads /\ pc(t) = "queue" /\ pc(t) # "idle" /\ pc(t) \notin Heralds
      /\ Release(s) /\ Leave(t)
      /\ UNCHANGED <<poolQueue, afterQueue, pending>> /\ Calm
      /\ UNCHANGED <<state, latch, calls, hits>> /\ UNCHANGED <<inFlight, fired>>
  BY <1>1 DEF QueueEnds, uv, Heralds, Calm, Threads
<1>3. f \in Frame /\ f.pc = "queue" /\ Claims(f) \cap Waiting = {} /\ Claims(f) \subseteq InHand
  BY <1>1, <1>2, Mine
<1>4. s \in Spreads /\ Claims(f) = {QueuerShare(s)}
  BY <1>1, <1>3, StealIds, ClaimsAt
<1>5. PICK x, gone, new : x = QueuerShare(s) /\ gone = {x} /\ new = {}
  OBVIOUS
<1>6. QueuesOK' /\ QueuesTyped' /\ Waiting' = Waiting
  BY <1>2, QueuesStill
<1>7. Trade(Claims(Top(t)), {}, {}, new, gone)
  BY <1>1, <1>3, <1>4, <1>5, <1>6 DEF Trade, Trades
<1>8. Kept(new, gone) /\ (Announced => Announced')
  BY <1>2, <1>7, StepLeave, SteadyStill
<1>9. InHand' = (InHand \cup new) \ gone /\ InHand' \subseteq InHand
  BY <1>5, <1>8 DEF Kept
<1>10. x \in InHand /\ x.kind \in NodeKinds /\ x.id = s
  BY <1>3, <1>4, <1>5, ShareShapes DEF NodeKinds
<1>11. /\ RefsOK(s)' /\ refs' \in [Spreads -> Int] /\ \A u \in Spreads \ {s} : refs'[u] = refs[u]
       /\ Of(s, new)
  BY <1>2, <1>4, <1>5, <1>9, <1>10, Released
<1>12. SharesOK(s)' /\ ChunksOK(s)'
  <2>1. SharesOK(s) /\ ChunksOK(s)
    BY <1>4 DEF LibuvInv, SpreadOK
  <2>2. SharesOK(s)'
    BY <1>2, <1>9, <2>1, SharesLess
  <2> QED
    BY <1>2, <2>1, <2>2 DEF ChunksOK, Unrun
<1>13. \A u \in Spreads \ {s} : Untouched(u)
  BY <1>2, <1>11 DEF Untouched
<1>14. SpreadsTyped' /\ Of(s, gone)
  BY <1>2, <1>5, <1>10, <1>11, ShareShapes DEF LibuvInv, Typed, SpreadsTyped, Of
<1>15. PendingOK'
  BY <1>2, <1>8, CalmPending
<1> QED
  BY <1>2, <1>4, <1>6, <1>8, <1>11, <1>12, <1>13, <1>14, <1>15, Moved DEF SpreadOK

LEMMA SpreadAfterKeeps ==
  ASSUME LibuvInv, SpreadAfter
  PROVE  LibuvInv'
<1>1. PICK t, w, s : t = Loop /\ w = Head(afterQueue) /\ s = w.id
  OBVIOUS
<1>2. /\ t \in Threads /\ afterQueue # <<>> /\ w.kind = "chunk"
      /\ afterQueue' = Tail(afterQueue) /\ Release(s)
      /\ UNCHANGED stack /\ UNCHANGED <<poolQueue, pending>> /\ Calm
      /\ UNCHANGED <<state, latch, calls, hits>> /\ UNCHANGED <<inFlight, fired>>
  BY <1>1 DEF SpreadAfter, Calm, Threads
<1>3. /\ w \in Works /\ afterQueue' \in Seq(Works) /\ QueuesOK'
      /\ AfterShares(w) \cap Waiting' = {} /\ Waiting = Waiting' \cup AfterShares(w)
  BY <1>1, <1>2, AfterGives DEF LibuvInv
<1>4. QueuesTyped'
  BY <1>2, <1>3 DEF QueuesTyped, LibuvInv, Typed
<1>5. PICK x, gone, new : x = RequestShare(s, w.c) /\ gone = {x} /\ new = {}
  OBVIOUS
<1>6. s \in Spreads /\ AfterShares(w) = gone /\ x.kind \in NodeKinds /\ x.kind # "item" /\ x.id = s
  BY <1>1, <1>2, <1>3, <1>5, WorkShapes, ShareShapes DEF AfterShares, NodeKinds
<1>7. x \in InHand /\ gone \subseteq Waiting
  BY <1>3, <1>5, <1>6 DEF InHand, Taken
<1>8. Trade({}, {}, {}, new, gone)
  BY <1>3, <1>5, <1>6, <1>7 DEF Trade, Trades
<1>9. Kept(new, gone) /\ (Announced => Announced')
  BY <1>2, <1>8, StepStay, SteadyStill
<1>10. InHand' = (InHand \cup new) \ gone /\ InHand' \subseteq InHand
  BY <1>5, <1>9 DEF Kept
<1>11. /\ RefsOK(s)' /\ refs' \in [Spreads -> Int] /\ \A u \in Spreads \ {s} : refs'[u] = refs[u]
       /\ Of(s, new)
  BY <1>2, <1>5, <1>6, <1>7, <1>10, Released
<1>12. SharesOK(s)' /\ ChunksOK(s)'
  <2>1. SharesOK(s) /\ ChunksOK(s)
    BY <1>6 DEF LibuvInv, SpreadOK
  <2>2. SharesOK(s)'
    BY <1>2, <1>10, <2>1, SharesLess
  <2> QED
    BY <1>2, <2>1, <2>2 DEF ChunksOK, Unrun
<1>13. \A u \in Spreads \ {s} : Untouched(u)
  BY <1>2, <1>11 DEF Untouched
<1>14. SpreadsTyped' /\ Of(s, gone)
  BY <1>2, <1>5, <1>6, <1>11 DEF LibuvInv, Typed, SpreadsTyped, Of
<1>15. PendingOK'
  BY <1>2, <1>9, CalmPending
<1> QED
  BY <1>2, <1>3, <1>4, <1>6, <1>9, <1>11, <1>12, <1>13, <1>14, <1>15, Moved DEF SpreadOK

LEMMA SpreadReturnKeeps ==
  ASSUME LibuvInv, NEW t \in Threads, SpreadReturn(t)
  PROVE  LibuvInv'
<1>1. PICK f, s : f = Top(t) /\ s = f.id
  OBVIOUS
<1>2. /\ pc(t) = "release" /\ pc(t) # "idle" /\ pc(t) \notin Heralds
      /\ Release(s) /\ Leave(t) /\ calls' = [calls EXCEPT ![s] = "returned"]
      /\ UNCHANGED <<poolQueue, afterQueue, pending>> /\ Calm
      /\ UNCHANGED <<state, latch, hits>> /\ UNCHANGED <<inFlight, fired>>
  BY <1>1 DEF SpreadReturn, uv, Heralds, Calm
<1>3. f \in Frame /\ f.pc = "release" /\ FrameOK(f) /\ Claims(f) \cap Waiting = {} /\ Claims(f) \subseteq InHand
  BY <1>1, <1>2, Mine
<1>4. s \in Spreads /\ Claims(f) = {CallerShare(s)} /\ calls[s] # "new" /\ Unrun(s) = {}
  BY <1>1, <1>3, StealIds, ClaimsAt DEF Calling, FrameOK
<1>5. PICK x, gone, new : x = CallerShare(s) /\ gone = {x} /\ new = {}
  OBVIOUS
<1>6. QueuesOK' /\ QueuesTyped' /\ Waiting' = Waiting
  BY <1>2, QueuesStill
<1>7. Trade(Claims(Top(t)), {}, {}, new, gone)
  BY <1>1, <1>3, <1>4, <1>5, <1>6 DEF Trade, Trades
<1>8. /\ calls' \in [Spreads -> {"new", "active", "returned"}] /\ calls'[s] = "returned"
      /\ \A u \in Spreads \ {s} : calls'[u] = calls[u]
  BY <1>2, <1>4 DEF LibuvInv, Typed
<1>9. Steady
  <2>1. ASSUME NEW u \in Spreads, calls[u] # "new" PROVE calls'[u] # "new"
    BY <1>8, <2>1
  <2> QED
    BY <1>2, <2>1 DEF Steady
<1>10. Kept(new, gone) /\ (Announced => Announced')
  BY <1>2, <1>7, <1>9, StepLeave
<1>11. InHand' = (InHand \cup new) \ gone /\ \A y : y \in InHand' => y \in InHand /\ y # x
  BY <1>5, <1>10 DEF Kept
<1>12. x \in InHand /\ x.kind \in NodeKinds /\ x.kind # "item" /\ x.id = s
  BY <1>3, <1>4, <1>5, ShareShapes DEF NodeKinds
<1>13. /\ RefsOK(s)' /\ refs' \in [Spreads -> Int] /\ \A u \in Spreads \ {s} : refs'[u] = refs[u]
       /\ Of(s, new)
  BY <1>2, <1>4, <1>5, <1>11, <1>12, Released
<1>14. SharesOK(s) /\ ChunksOK(s) /\ Len(state[s]) \in Nat
  BY <1>4 DEF LibuvInv, SpreadOK, Typed
<1>15. SharesOK(s)'
  <2>1. \A c : Chunk(s, c) \in InHand => c \notin Nat
    BY <1>4, <1>14 DEF SharesOK, Unrun
  <2>2. OwnShare(s) \notin InHand
    <3>1. ASSUME OwnShare(s) \in InHand PROVE FALSE
      <4>1. Len(state[s]) # 0 /\ hits[s][Len(state[s]) + 1] = 0
        BY <1>14, <3>1 DEF SharesOK
      <4>2. Len(state[s]) + 1 \in DOMAIN hits[s]
        BY <1>14, <4>1 DEF ChunksOK
      <4> QED
        BY <1>4, <4>1, <4>2 DEF Unrun
    <3> QED
      BY <3>1
  <2> QED
    BY <1>2, <1>5, <1>8, <1>11, <1>14, <2>1, <2>2 DEF SharesOK
<1>16. ChunksOK(s)'
  BY <1>2, <1>4, <1>8, <1>14 DEF ChunksOK, Unrun
<1>17. \A u \in Spreads \ {s} : Untouched(u)
  BY <1>2, <1>8, <1>13 DEF Untouched
<1>18. SpreadsTyped' /\ Of(s, gone)
  BY <1>2, <1>5, <1>8, <1>12, <1>13 DEF LibuvInv, Typed, SpreadsTyped, Of
<1>19. PendingOK'
  BY <1>2, <1>10, CalmPending
<1> QED
  BY <1>2, <1>4, <1>6, <1>10, <1>13, <1>15, <1>16, <1>17, <1>18, <1>19, Moved DEF SpreadOK

\* A chunk counted, and nothing else of the chunks.
Counted(s, c) ==
  /\ DOMAIN hits' = Spreads /\ \A u \in Spreads : \E n \in Nat : hits'[u] \in [1..n -> {0, 1}]
  /\ DOMAIN hits'[s] = DOMAIN hits[s] /\ hits'[s][c] = 1
  /\ \A d \in DOMAIN hits[s] : d # c => hits'[s][d] = hits[s][d]
  /\ \A u \in Spreads \ {s} : hits'[u] = hits[u]
  /\ c \in Unrun(s) /\ Unrun(s)' = Unrun(s) \ {c}

LEMMA CountsOne ==
  ASSUME Typed, NEW s \in Spreads, NEW c \in DOMAIN hits[s], hits[s][c] = 0,
         hits' = [hits EXCEPT ![s][c] = @ + 1]
  PROVE  Counted(s, c)
<1>1. PICK p, r : p = hits[s] /\ r = [p EXCEPT ![c] = 1]
  OBVIOUS
<1>2. PICK n \in Nat : p \in [1..n -> {0, 1}]
  BY <1>1 DEF Typed
<1>3. /\ r \in [1..n -> {0, 1}] /\ DOMAIN r = DOMAIN p /\ c \in DOMAIN p /\ p[c] = 0 /\ r[c] = 1
      /\ \A d \in DOMAIN p : d # c => r[d] = p[d]
  BY <1>1, <1>2
<1>4. hits' = [hits EXCEPT ![s] = r]
  <2>1. hits[s][c] + 1 = 1
    OBVIOUS
  <2> QED
    BY <1>1, <2>1
<1>5. DOMAIN hits' = Spreads /\ hits'[s] = r /\ \A u \in Spreads \ {s} : hits'[u] = hits[u]
  BY <1>4 DEF Typed
<1>6. \A u \in Spreads : \E m \in Nat : hits'[u] \in [1..m -> {0, 1}]
  <2>1. ASSUME NEW u \in Spreads PROVE \E m \in Nat : hits'[u] \in [1..m -> {0, 1}]
    <3>1. CASE u = s
      BY <1>3, <1>5, <3>1
    <3>2. CASE u # s
      BY <1>5, <3>2 DEF Typed
    <3> QED
      BY <3>1, <3>2
  <2> QED
    BY <2>1
<1>7. c \in Unrun(s) /\ Unrun(s)' = Unrun(s) \ {c}
  BY <1>1, <1>3, <1>5 DEF Unrun
<1> QED
  BY <1>1, <1>3, <1>5, <1>6, <1>7 DEF Counted

\* The chunk that is run has not run before; it is neither not queued yet nor the caller's
\* own that it has not begun.
LEMMA RunningChunk ==
  ASSUME LibuvInv, NEW s \in Spreads, NEW c \in Nat, Chunk(s, c) \in InHand
  PROVE  /\ calls[s] = "active" /\ c \in DOMAIN hits[s] /\ hits[s][c] = 0
         /\ c \in 1..Len(state[s]) => state[s][c] # "pending"
         /\ OwnShare(s) \in InHand => c # Len(state[s]) + 1
         /\ SharesOK(s) /\ ChunksOK(s)
BY DEF LibuvInv, SpreadOK, SharesOK

\* What becomes of the rest of the spread.
LEMMA CountKeeps ==
  ASSUME LibuvInv, NEW s \in Spreads, NEW c \in Nat, Chunk(s, c) \in InHand, Counted(s, c),
         UNCHANGED <<state, calls>>, latch' = [latch EXCEPT ![s] = @ - 1],
         InHand' = InHand \ {Chunk(s, c)}
  PROVE  SharesOK(s)' /\ ChunksOK(s)'
<1>1. /\ calls[s] = "active" /\ c \in DOMAIN hits[s] /\ hits[s][c] = 0
      /\ c \in 1..Len(state[s]) => state[s][c] # "pending"
      /\ OwnShare(s) \in InHand => c # Len(state[s]) + 1
      /\ SharesOK(s) /\ ChunksOK(s)
  BY RunningChunk
<1>2. \A x : x \in InHand' => x \in InHand /\ x # Chunk(s, c)
  OBVIOUS
<1>3. \A d \in DOMAIN hits[s] : d # c => hits'[s][d] = hits[s][d]
  BY DEF Counted
<1>4. SharesOK(s)'
  <2>1. ASSUME NEW d \in Nat, Chunk(s, d) \in InHand'
        PROVE  /\ calls'[s] = "active" /\ d \in DOMAIN hits'[s] /\ hits'[s][d] = 0
               /\ d \in 1..Len(state'[s]) => state'[s][d] # "pending"
    <3>1. d # c /\ Chunk(s, d) \in InHand
      BY <1>2, <2>1
    <3>2. /\ calls[s] = "active" /\ d \in DOMAIN hits[s] /\ hits[s][d] = 0
          /\ d \in 1..Len(state[s]) => state[s][d] # "pending"
      BY <3>1, RunningChunk
    <3> QED
      BY <1>3, <3>1, <3>2 DEF Counted
  <2>2. ASSUME OwnShare(s) \in InHand'
        PROVE  /\ calls'[s] = "active" /\ Len(state'[s]) # 0
               /\ hits'[s][Len(state'[s]) + 1] = 0 /\ Chunk(s, Len(state'[s]) + 1) \notin InHand'
    <3>1. OwnShare(s) \in InHand
      BY <1>2, <2>2
    <3>2. /\ calls[s] = "active" /\ Len(state[s]) # 0
          /\ hits[s][Len(state[s]) + 1] = 0 /\ Chunk(s, Len(state[s]) + 1) \notin InHand
      BY <1>1, <3>1 DEF SharesOK
    <3>3. Len(state[s]) + 1 \in DOMAIN hits[s]
      BY <1>1, <3>2 DEF ChunksOK, LibuvInv, Typed
    <3> QED
      BY <1>1, <1>2, <1>3, <3>1, <3>2, <3>3
  <2> QED
    BY <1>1, <1>2, <2>1, <2>2 DEF SharesOK
<1>5. ChunksOK(s)'
  <2>1. ASSUME NEW d \in 1..Len(state'[s]), state'[s][d] = "pending" PROVE hits'[s][d] = 0
    <3>1. d # c /\ hits[s][d] = 0 /\ Len(state[s]) \in Nat /\ Len(state[s]) # 0
      BY <1>1, <2>1 DEF ChunksOK, LibuvInv, Typed
    <3>2. d \in DOMAIN hits[s]
      BY <1>1, <2>1, <3>1 DEF ChunksOK
    <3> QED
      BY <1>3, <3>1, <3>2
  <2>2. Len(state[s]) # 0 => latch'[s] = Cardinality(Unrun(s)')
    <3>1. ASSUME Len(state[s]) # 0 PROVE latch'[s] = Cardinality(Unrun(s)')
      <4>1. latch[s] = Cardinality(Unrun(s)) /\ IsFiniteSet(Unrun(s))
        BY <1>1, <3>1, ChunksFinite DEF ChunksOK, LibuvInv
      <4>2. latch'[s] = latch[s] - 1
        BY DEF LibuvInv, Typed
      <4>3. c \in Unrun(s) /\ Unrun(s)' = Unrun(s) \ {c}
        BY DEF Counted
      <4>4. Cardinality(Unrun(s) \ {c}) = Cardinality(Unrun(s)) - 1
        BY <4>1, <4>3, FS_RemoveElement
      <4> QED
        BY <4>1, <4>2, <4>3, <4>4
    <3> QED
      BY <3>1
  <2> QED
    BY <1>1, <2>1, <2>2 DEF ChunksOK, Counted
<1> QED
  BY <1>4, <1>5

LEMMA ChunkEndsKeeps ==
  ASSUME LibuvInv, NEW t \in Threads, ChunkEnds(t)
  PROVE  LibuvInv'
<1>1. PICK f, w, s, c : f = Top(t) /\ w = f.work /\ s = w.id /\ c = w.c
  OBVIOUS
<1>2. PICK g, new, gone : g = Body("post", w) /\ new = {} /\ gone = {w}
  OBVIOUS
<1>3. /\ pc(t) \in {"pool", "inline"} /\ pc(t) # "idle" /\ pc(t) \notin Heralds /\ w.kind = "chunk"
      /\ hits' = [hits EXCEPT ![s][c] = @ + 1] /\ latch' = [latch EXCEPT ![s] = @ - 1]
      /\ pc(t) = "pool" => Goto(t, [f EXCEPT !.pc = "post"])
      /\ pc(t) = "inline" => Leave(t)
      /\ UNCHANGED <<poolQueue, afterQueue, pending>> /\ Calm
      /\ UNCHANGED <<refs, state, calls>> /\ UNCHANGED <<inFlight, fired>>
  BY <1>1 DEF ChunkEnds, GotoPc, uv, Heralds, Calm
<1>4. f \in Frame /\ f.pc = pc(t) /\ Claims(f) \cap Waiting = {} /\ Claims(f) \subseteq InHand
  BY <1>1, <1>3, Mine
<1>5. w \in Chunks /\ w \in Works
  <2>1. w \in Works \/ w \in Chunks
    BY <1>1, <1>3, <1>4, Shapes
  <2> QED
    BY <1>3, <2>1, WorkShapes
<1>6. s \in Spreads /\ c \in Nat /\ w = Chunk(s, c)
  BY <1>1, <1>5, WorkShapes
<1>7. PICK r : r = RequestShare(s, c)
  OBVIOUS
<1>8. /\ pc(t) = "pool" => Claims(f) = {w, r}
      /\ pc(t) = "inline" => Claims(f) = {w}
  <2>1. PoolShares(w) = {w, r}
    BY <1>6, <1>7, SharesAt, Zenon
  <2>2. f.pc = "pool" => Claims(f) = PoolShares(f.work)
    BY ClaimsAt
  <2>3. f.pc = "inline" => Claims(f) = {f.work}
    BY ClaimsAt
  <2> QED
    BY <1>1, <1>4, <2>1, <2>2, <2>3
<1>9. w \in InHand
  BY <1>3, <1>4, <1>8
<1>10. /\ calls[s] = "active" /\ c \in DOMAIN hits[s] /\ hits[s][c] = 0
  BY <1>6, <1>9, RunningChunk
<1>11. Counted(s, c)
  BY <1>3, <1>6, <1>10, CountsOne DEF LibuvInv
<1>12. Steady
  <2>1. ASSUME NEW u \in Spreads PROVE /\ DOMAIN hits'[u] = DOMAIN hits[u]
                                       /\ \A d \in DOMAIN hits[u] : hits'[u][d] = 0 => hits[u][d] = 0
    BY <1>11, <2>1 DEF Counted
  <2> QED
    BY <1>3, <2>1 DEF Steady
<1>13. QueuesOK' /\ QueuesTyped' /\ Waiting' = Waiting
  BY <1>3, QueuesStill
<1>14. Kept(new, gone) /\ (Announced => Announced')
  <2>1. CASE pc(t) = "pool"
    <3>1. g = [f EXCEPT !.pc = "post"]
      BY <1>1, <1>2, <1>4, <2>1, Shapes
    <3>2. g \in Frame /\ g.pc = "post" /\ g.work = w
      BY <1>2, <1>5, Shapes, FrameFields
    <3>3. Claims(g) = {r} /\ FrameOK(g)'
      BY <1>6, <1>7, <3>2, ClaimsAt, SharesAt DEF FrameOK
    <3>4. w # r
      BY <1>6, <1>7, Apart
    <3>5. Trade(Claims(Top(t)), Claims(g), {}, new, gone)
      BY <1>1, <1>2, <1>4, <1>8, <1>13, <2>1, <3>3, <3>4 DEF Trade, Trades
    <3> QED
      BY <1>3, <1>12, <2>1, <3>1, <3>2, <3>3, <3>5, StepGoto
  <2>2. CASE pc(t) = "inline"
    <3>1. Trade(Claims(Top(t)), {}, {}, new, gone)
      BY <1>1, <1>2, <1>4, <1>8, <1>13, <2>2 DEF Trade, Trades
    <3> QED
      BY <1>3, <1>12, <2>2, <3>1, StepLeave
  <2> QED
    BY <1>3, <2>1, <2>2
<1>15. InHand' = (InHand \cup new) \ gone /\ InHand' = InHand \ {Chunk(s, c)}
  BY <1>2, <1>6, <1>14 DEF Kept
<1>16. SharesOK(s)' /\ ChunksOK(s)'
  BY <1>3, <1>6, <1>9, <1>11, <1>15, CountKeeps
<1>17. RefsOK(s)'
  <2>1. NodePart(s, new) = {} /\ NodePart(s, gone) = {}
    BY <1>2, <1>3 DEF NodePart, NodeKinds
  <2>2. NodeShares(s)' = (NodeShares(s) \cup NodePart(s, new)) \ NodePart(s, gone)
    BY <1>15, NodeMoves, Zenon
  <2>3. NodeShares(s)' = NodeShares(s)
    BY <2>1, <2>2
  <2> QED
    BY <1>3, <1>6, <2>3, RefsSame DEF LibuvInv, SpreadOK
<1>18. latch' \in [Spreads -> Int] /\ \A u \in Spreads \ {s} : latch'[u] = latch[u]
  BY <1>3, <1>6 DEF LibuvInv, Typed
<1>19. \A u \in Spreads \ {s} : Untouched(u)
  BY <1>3, <1>11, <1>18 DEF Counted, Untouched
<1>20. SpreadsTyped' /\ Of(s, new) /\ Of(s, gone)
  <2>1. Of(s, new) /\ Of(s, gone)
    BY <1>1, <1>2, <1>3 DEF Of
  <2> QED
    BY <1>3, <1>11, <1>18, <2>1 DEF LibuvInv, Typed, SpreadsTyped, Counted
<1>21. PendingOK'
  BY <1>3, <1>14, CalmPending
<1> QED
  BY <1>3, <1>6, <1>13, <1>14, <1>16, <1>17, <1>19, <1>20, <1>21, Moved DEF SpreadOK

\* A call that runs everything itself has the one chunk, and no node.
LEMMA SerialEndsKeeps ==
  ASSUME LibuvInv, NEW t \in Threads, SerialEnds(t)
  PROVE  LibuvInv'
<1>1. PICK f, w, s : f = Top(t) /\ w = f.work /\ s = w.id
  OBVIOUS
<1>2. PICK new, gone : new = {} /\ gone = {w}
  OBVIOUS
<1>3. /\ pc(t) = "serial" /\ pc(t) # "idle" /\ pc(t) \notin Heralds
      /\ hits' = [hits EXCEPT ![s][1] = @ + 1] /\ calls' = [calls EXCEPT ![s] = "returned"]
      /\ Leave(t)
      /\ UNCHANGED <<poolQueue, afterQueue, pending>> /\ Calm
      /\ UNCHANGED <<refs, state, latch>> /\ UNCHANGED <<inFlight, fired>>
  BY <1>1 DEF SerialEnds, uv, node, Heralds, Calm
<1>4. /\ f \in Frame /\ f.pc = "serial" /\ FrameOK(f)
      /\ Claims(f) \cap Waiting = {} /\ Claims(f) \subseteq InHand
  BY <1>1, <1>3, Mine
<1>5. w \in Chunks /\ Claims(f) = {w}
  BY <1>1, <1>4, Shapes, ClaimsAt
<1>6. Len(state[s]) = 0 /\ w.c = 1 /\ DOMAIN hits[s] = {1}
  BY <1>1, <1>4 DEF FrameOK
<1>7. s \in Spreads /\ w = Chunk(s, 1) /\ w \in InHand /\ w.kind = "chunk" /\ w.id = s
  BY <1>1, <1>4, <1>5, <1>6, WorkShapes
<1>8. calls[s] = "active" /\ hits[s][1] = 0 /\ SharesOK(s) /\ ChunksOK(s)
  BY <1>7, RunningChunk
<1>9. Counted(s, 1)
  BY <1>3, <1>6, <1>7, <1>8, CountsOne DEF LibuvInv
<1>10. /\ calls' \in [Spreads -> {"new", "active", "returned"}] /\ calls'[s] = "returned"
       /\ \A u \in Spreads \ {s} : calls'[u] = calls[u]
  BY <1>3, <1>7 DEF LibuvInv, Typed
<1>11. Steady
  <2>1. ASSUME NEW u \in Spreads, calls[u] # "new"
        PROVE  /\ calls'[u] # "new" /\ DOMAIN hits'[u] = DOMAIN hits[u]
               /\ \A d \in DOMAIN hits[u] : hits'[u][d] = 0 => hits[u][d] = 0
    BY <1>9, <1>10, <2>1 DEF Counted
  <2> QED
    BY <1>3, <2>1 DEF Steady
<1>12. QueuesOK' /\ QueuesTyped' /\ Waiting' = Waiting
  BY <1>3, QueuesStill
<1>13. Trade(Claims(Top(t)), {}, {}, new, gone)
  BY <1>1, <1>2, <1>4, <1>5, <1>12 DEF Trade, Trades
<1>14. Kept(new, gone) /\ (Announced => Announced')
  BY <1>3, <1>11, <1>13, StepLeave
<1>15. InHand' = (InHand \cup new) \ gone /\ \A x : x \in InHand' => x \in InHand /\ x # w
  BY <1>2, <1>14 DEF Kept
<1>16. Unrun(s)' = {}
  BY <1>6, <1>9 DEF Counted, Unrun
<1>17. SharesOK(s)'
  <2>1. \A c \in Nat : Chunk(s, c) \notin InHand'
    <3>1. ASSUME NEW c \in Nat, Chunk(s, c) \in InHand' PROVE FALSE
      <4>1. Chunk(s, c) \in InHand /\ Chunk(s, c) # w
        BY <1>15, <3>1
      <4>2. c \in DOMAIN hits[s]
        BY <1>7, <4>1, RunningChunk
      <4> QED
        BY <1>6, <1>7, <4>1, <4>2
    <3> QED
      BY <3>1
  <2>2. \A c \in Nat : RequestShare(s, c) \notin InHand
    BY <1>6, <1>8 DEF SharesOK
  <2>3. CallerShare(s) \notin InHand /\ OwnShare(s) \notin InHand
    BY <1>6, <1>8 DEF SharesOK
  <2> QED
    BY <1>10, <1>15, <2>1, <2>2, <2>3 DEF SharesOK
<1>18. ChunksOK(s)'
  <2>1. calls'[s] = "returned" /\ Len(state'[s]) = 0 /\ Unrun(s)' = {}
    BY <1>3, <1>6, <1>10, <1>16
  <2> QED
    BY <2>1 DEF ChunksOK
<1>19. RefsOK(s)'
  <2>1. NodePart(s, new) = {} /\ NodePart(s, gone) = {}
    BY <1>2, <1>7 DEF NodePart, NodeKinds
  <2>2. NodeShares(s)' = (NodeShares(s) \cup NodePart(s, new)) \ NodePart(s, gone)
    BY <1>15, NodeMoves, Zenon
  <2>3. NodeShares(s)' = NodeShares(s)
    BY <2>1, <2>2
  <2> QED
    BY <1>3, <1>7, <2>3, RefsSame DEF LibuvInv, SpreadOK
<1>20. \A u \in Spreads \ {s} : Untouched(u)
  BY <1>3, <1>9, <1>10 DEF Counted, Untouched
<1>21. SpreadsTyped' /\ Of(s, new) /\ Of(s, gone)
  <2>1. Of(s, new) /\ Of(s, gone)
    BY <1>2, <1>7 DEF Of
  <2> QED
    BY <1>3, <1>9, <1>10, <2>1 DEF LibuvInv, Typed, SpreadsTyped, Counted
<1>22. PendingOK'
  BY <1>3, <1>14, CalmPending
<1> QED
  BY <1>3, <1>7, <1>12, <1>14, <1>17, <1>18, <1>19, <1>20, <1>21, <1>22, Moved DEF SpreadOK

\* All shares there are.
Shares ==
  Works \cup {CallerShare(s) : s \in Spreads} \cup {QueuerShare(s) : s \in Spreads}
    \cup {OwnShare(s) : s \in Spreads} \cup {RequestShare(s, c) : s \in Spreads, c \in Nat}

LEMMA WorkShares ==
  ASSUME NEW w \in Works
  PROVE  PoolShares(w) \subseteq Shares /\ AfterShares(w) \subseteq Shares
<1>1. CASE w \in Chunks
  <2>1. w.id \in Spreads /\ w.c \in Nat
    BY <1>1, WorkShapes
  <2> QED
    BY <2>1 DEF PoolShares, AfterShares, Shares
<1>2. CASE w \notin Chunks
  BY <1>2, WorkShapes DEF PoolShares, AfterShares, Shares
<1> QED
  BY <1>1, <1>2

LEMMA FrameShares ==
  ASSUME NEW f \in Frame
  PROVE  Claims(f) \subseteq Shares
<1>1. CASE f.pc \in Calling \cup {"queue"}
  <2>1. f.id \in Spreads
    BY <1>1, CallShapes
  <2>2. CallerShare(f.id) \in Shares /\ OwnShare(f.id) \in Shares /\ QueuerShare(f.id) \in Shares
    BY <2>1 DEF Shares
  <2> QED
    BY <1>1, <2>2, ClaimsAt DEF Calling
<1>2. CASE f.pc = "async"
  <2>1. f.list \in Seq(Spreads)
    BY <1>2, Shapes
  <2>2. ToSet(f.list) \subseteq Spreads
    BY <2>1, ElementOfSeq DEF ToSet
  <2> QED
    BY <1>2, <2>2, ClaimsAt DEF Shares
<1>3. CASE f.pc = "pool" \/ f.pc = "post"
  <2>1. f.work \in Works
    BY <1>3, Shapes, WorkShapes
  <2> QED
    BY <1>3, <2>1, ClaimsAt, WorkShares
<1>4. CASE f.pc \in {"inline", "serial", "after"}
  <2>1. f.work \in Works
    BY <1>4, Shapes, WorkShapes
  <2> QED
    BY <1>4, <2>1, ClaimsAt DEF Shares
<1>5. CASE f.pc = "fire"
  BY <1>5, Shapes, WorkShapes, ClaimsAt DEF Shares
<1>6. CASE f.pc = "exchange"
  BY <1>6, ClaimsAt
<1> QED
  BY <1>1, <1>2, <1>3, <1>4, <1>5, <1>6 DEF Frame, Calling

LEMMA AllShares ==
  ASSUME Typed
  PROVE  InHand \subseteq Shares
<1>1. Waiting \subseteq Shares
  <2>1. \A s \in Spreads : QueuerShare(s) \in Shares
    BY DEF Shares
  <2> QED
    BY <2>1, QueueSets, WorkShares DEF Waiting, SharesOf
<1>2. ASSUME NEW t \in Threads, NEW i \in DOMAIN Claimed[t]
      PROVE  Claimed[t][i] \subseteq Shares
  <2>1. i \in 1..Len(stack[t]) /\ Claimed[t][i] = ClaimOf[stack[t][i]]
    BY <1>2 DEF Claimed, Holdings
  <2>2. stack[t] \in Seq(Frame) /\ stack[t][i] \in Frame
    BY <2>1, ElementOfSeq DEF Typed
  <2> QED
    BY <2>1, <2>2, FrameShares DEF ClaimOf
<1> QED
  BY <1>1, <1>2 DEF InHand, Taken

\* What there is of a spread that has not begun: nothing.
LEMMA NewSpread ==
  ASSUME LibuvInv, NEW s \in Spreads, calls[s] = "new"
  PROVE  /\ \A x \in InHand : x.kind = "item" \/ x.id # s
         /\ NodeShares(s) = {} /\ refs[s] = 0 /\ Len(state[s]) = 0
<1>1. SharesOK(s) /\ ChunksOK(s) /\ RefsOK(s)
  BY DEF LibuvInv, SpreadOK
<1>2. ASSUME NEW x \in InHand, x.kind # "item", x.id = s
      PROVE  FALSE
  <2>1. x \in Shares
    BY AllShares DEF LibuvInv
  <2>2. \/ \E c \in Nat : x = Chunk(s, c)
        \/ x = CallerShare(s) \/ x = QueuerShare(s) \/ x = OwnShare(s)
        \/ \E c \in Nat : x = RequestShare(s, c)
    BY <1>2, <2>1, WorkShapes, ShareShapes DEF Shares
  <2> QED
    BY <1>1, <2>2 DEF SharesOK
<1>3. NodeShares(s) = {}
  BY <1>2 DEF NodeShares
<1>4. refs[s] = 0
  BY <1>1, <1>3, FS_EmptySet DEF RefsOK
<1> QED
  BY <1>1, <1>2, <1>3, <1>4 DEF ChunksOK

LEMMA SpreadSerialKeeps ==
  ASSUME LibuvInv, NEW t \in Threads, NEW s \in Spreads, NEW n, SpreadSerial(t, s, n)
  PROVE  LibuvInv'
<1>1. PICK w, g, new, gone : w = Chunk(s, 1) /\ g = Body("serial", w) /\ new = {w} /\ gone = {}
  OBVIOUS
<1>2. /\ calls[s] = "new" /\ calls' = [calls EXCEPT ![s] = "active"]
      /\ hits' = [hits EXCEPT ![s] = <<0>>]
      /\ Enter(t, g)
      /\ UNCHANGED <<poolQueue, afterQueue, pending>> /\ Calm
      /\ UNCHANGED <<refs, state, latch>> /\ UNCHANGED <<inFlight, fired>>
  BY <1>1 DEF SpreadSerial, uv, node, Calm
<1>3. /\ \A x \in InHand : x.kind = "item" \/ x.id # s
      /\ NodeShares(s) = {} /\ refs[s] = 0 /\ Len(state[s]) = 0
  BY <1>2, NewSpread
<1>4. w \in Chunks /\ w.kind = "chunk" /\ w.id = s /\ w.c = 1 /\ w \notin InHand
  BY <1>1, <1>3, WorkShapes, ShareShapes
<1>5. /\ calls' \in [Spreads -> {"new", "active", "returned"}] /\ calls'[s] = "active"
      /\ DOMAIN hits' = Spreads /\ hits'[s] = <<0>>
      /\ \A u \in Spreads \ {s} : calls'[u] = calls[u] /\ hits'[u] = hits[u]
  BY <1>2 DEF LibuvInv, Typed
<1>6. PICK p : p = <<0>>
  OBVIOUS
<1>7. p \in [1..1 -> {0, 1}] /\ DOMAIN p = {1} /\ p[1] = 0
  BY <1>6
<1>8. \A u \in Spreads : \E m \in Nat : hits'[u] \in [1..m -> {0, 1}]
  <2>1. ASSUME NEW u \in Spreads PROVE \E m \in Nat : hits'[u] \in [1..m -> {0, 1}]
    <3>1. CASE u = s
      BY <1>5, <1>6, <1>7, <3>1
    <3>2. CASE u # s
      BY <1>5, <3>2 DEF LibuvInv, Typed
    <3> QED
      BY <3>1, <3>2
  <2> QED
    BY <2>1
<1>9. Steady
  <2>1. ASSUME NEW u \in Spreads, calls[u] # "new" PROVE calls'[u] = calls[u] /\ hits'[u] = hits[u]
    BY <1>2, <1>5, <2>1
  <2> QED
    BY <1>2, <2>1 DEF Steady
<1>10. g \in Frame /\ g.pc = "serial" /\ g.work = w
  BY <1>1, <1>4, Shapes, FrameFields
<1>11. Claims(g) = {w} /\ FrameOK(g)'
  BY <1>2, <1>3, <1>4, <1>5, <1>6, <1>7, <1>10, ClaimsAt DEF FrameOK
<1>12. QueuesOK' /\ QueuesTyped' /\ Waiting' = Waiting
  BY <1>2, QueuesStill
<1>13. Trade({}, Claims(g), {}, new, gone)
  BY <1>1, <1>4, <1>11, <1>12 DEF Trade, Trades, InHand, Taken
<1>14. Kept(new, gone) /\ (Announced => Announced')
  BY <1>2, <1>9, <1>10, <1>11, <1>13, StepEnter
<1>15. InHand' = (InHand \cup new) \ gone /\ InHand' = InHand \cup {w}
  BY <1>1, <1>14 DEF Kept
<1>16. \A x \in InHand' : x = w \/ x.kind = "item" \/ x.id # s
  BY <1>3, <1>15
<1>17. SharesOK(s)'
  <2>1. /\ \A c : Chunk(s, c) \in InHand' => c = 1
        /\ \A c : RequestShare(s, c) \notin InHand'
        /\ CallerShare(s) \notin InHand' /\ QueuerShare(s) \notin InHand' /\ OwnShare(s) \notin InHand'
    BY <1>4, <1>16, ShareShapes
  <2> QED
    BY <1>2, <1>3, <1>5, <1>6, <1>7, <2>1 DEF SharesOK
<1>18. ChunksOK(s)'
  BY <1>2, <1>3, <1>5 DEF ChunksOK
<1>19. RefsOK(s)'
  <2>1. NodePart(s, new) = {} /\ NodePart(s, gone) = {}
    BY <1>1, <1>4 DEF NodePart, NodeKinds
  <2>2. NodeShares(s)' = (NodeShares(s) \cup NodePart(s, new)) \ NodePart(s, gone)
    BY <1>15, NodeMoves, Zenon
  <2>3. NodeShares(s)' = NodeShares(s)
    BY <2>1, <2>2
  <2> QED
    BY <1>2, <2>3, RefsSame DEF LibuvInv, SpreadOK
<1>20. \A u \in Spreads \ {s} : Untouched(u)
  BY <1>2, <1>5 DEF Untouched
<1>21. SpreadsTyped' /\ Of(s, new) /\ Of(s, gone)
  <2>1. Of(s, new) /\ Of(s, gone)
    BY <1>1, <1>4 DEF Of
  <2> QED
    BY <1>2, <1>5, <1>8, <2>1 DEF LibuvInv, Typed, SpreadsTyped
<1>22. PendingOK'
  BY <1>2, <1>14, CalmPending
<1> QED
  BY <1>2, <1>12, <1>14, <1>17, <1>18, <1>19, <1>20, <1>21, <1>22, Moved DEF SpreadOK

LEMMA ChunkNumber ==
  ASSUME NEW n \in Iterations
  PROVE  NumChunks(n) \in Nat
<1>1. n \in Nat /\ MaxChunks \in Nat /\ Cardinality(Pool) \in Nat
  BY LibuvAssumption, FS_CardinalityType
<1> QED
  BY <1>1 DEF NumChunks, Smallest

\* What a new node is like.
Created(s, m, N) ==
  /\ DOMAIN hits'[s] = N /\ \A c \in N : hits'[s][c] = 0
  /\ Len(state'[s]) = m /\ \A c \in 1..m : state'[s][c] = "pending"
  /\ calls'[s] = "active" /\ refs'[s] = 2 /\ latch'[s] = m + 1

LEMMA Creation ==
  ASSUME LibuvInv, NEW s \in Spreads, NEW m \in Nat, NEW N, N = 1..(m + 1),
         calls' = [calls EXCEPT ![s] = "active"], hits' = [hits EXCEPT ![s] = [c \in N |-> 0]],
         refs' = [refs EXCEPT ![s] = 2], latch' = [latch EXCEPT ![s] = m + 1],
         state' = [state EXCEPT ![s] = [c \in 1..m |-> "pending"]]
  PROVE  Created(s, m, N) /\ SpreadsTyped' /\ \A u \in Spreads \ {s} : Untouched(u)
<1>1. PICK p, q : p = [c \in 1..m |-> "pending"] /\ q = [c \in N |-> 0]
  OBVIOUS
<1>2. p \in Seq(Marks) /\ Len(p) = m /\ \A c \in 1..m : p[c] = "pending"
  <2>1. p \in [1..m -> Marks] /\ DOMAIN p = 1..m /\ \A c \in 1..m : p[c] = "pending"
    BY <1>1 DEF Marks
  <2> QED
    BY <2>1
<1>3. q \in [1..(m + 1) -> {0, 1}] /\ DOMAIN q = N /\ \A c \in N : q[c] = 0
  BY <1>1
<1>4. /\ state' = [state EXCEPT ![s] = p] /\ hits' = [hits EXCEPT ![s] = q]
  BY <1>1
<1>5. /\ state' \in [Spreads -> Seq(Marks)] /\ state'[s] = p
      /\ DOMAIN hits' = Spreads /\ hits'[s] = q
      /\ \A u \in Spreads \ {s} : state'[u] = state[u] /\ hits'[u] = hits[u]
  BY <1>2, <1>4 DEF LibuvInv, Typed
<1>6. /\ refs' \in [Spreads -> Int] /\ latch' \in [Spreads -> Int]
      /\ calls' \in [Spreads -> {"new", "active", "returned"}]
      /\ calls'[s] = "active" /\ refs'[s] = 2 /\ latch'[s] = m + 1
      /\ \A u \in Spreads \ {s} : calls'[u] = calls[u] /\ refs'[u] = refs[u] /\ latch'[u] = latch[u]
  BY DEF LibuvInv, Typed
<1>7. \A u \in Spreads : \E k \in Nat : hits'[u] \in [1..k -> {0, 1}]
  <2>1. ASSUME NEW u \in Spreads PROVE \E k \in Nat : hits'[u] \in [1..k -> {0, 1}]
    <3>1. CASE u = s
      <4>1. m + 1 \in Nat
        OBVIOUS
      <4> QED
        BY <1>3, <1>5, <3>1, <4>1
    <3>2. CASE u # s
      BY <1>5, <3>2 DEF LibuvInv, Typed
    <3> QED
      BY <3>1, <3>2
  <2> QED
    BY <2>1
<1>8. Created(s, m, N)
  BY <1>2, <1>3, <1>5, <1>6 DEF Created
<1>9. SpreadsTyped'
  BY <1>5, <1>6, <1>7 DEF SpreadsTyped
<1>10. \A u \in Spreads \ {s} : Untouched(u)
  BY <1>5, <1>6 DEF Untouched
<1> QED
  BY <1>8, <1>9, <1>10

\* Then the spread has its shares and nothing else.
LEMMA CreationKeeps ==
  ASSUME LibuvInv, NEW s \in Spreads, calls[s] = "new", NEW m \in Nat \ {0}, NEW N, N = 1..(m + 1),
         Created(s, m, N), NEW new, new = {CallerShare(s), OwnShare(s), QueuerShare(s)},
         InHand' = InHand \cup new
  PROVE  SpreadOK(s)'
<1>1. /\ \A x \in InHand : x.kind = "item" \/ x.id # s
      /\ NodeShares(s) = {}
  BY NewSpread
<1>2. \A x \in InHand' : x \in new \/ x.kind = "item" \/ x.id # s
  BY <1>1
<1>3. /\ \A c : Chunk(s, c) \notin InHand'
      /\ \A c : RequestShare(s, c) \notin InHand'
  BY <1>2, ShareShapes
<1>4. m + 1 \in N
  OBVIOUS
<1>5. SharesOK(s)'
  BY <1>3, <1>4 DEF Created, SharesOK
<1>6. ChunksOK(s)'
  <2>1. Unrun(s)' = N
    BY DEF Created, Unrun
  <2>2. Cardinality(N) = m + 1
    <3>1. m + 1 \in Int /\ 1 \in Int /\ ~(1 > m + 1) /\ (m + 1) - 1 + 1 = m + 1
      OBVIOUS
    <3> QED
      BY <3>1, FS_Interval
  <2>3. \A c \in 1..m : c \in N
    OBVIOUS
  <2> QED
    BY <2>1, <2>2, <2>3 DEF Created, ChunksOK
<1>7. RefsOK(s)'
  <2>1. PICK x, y : x = CallerShare(s) /\ y = QueuerShare(s)
    OBVIOUS
  <2>2. NodeShares(s)' = {x, y}
    BY <1>2, <2>1, ShareShapes DEF NodeShares
  <2>3. x # y
    BY <2>1, Apart
  <2>4. IsFiniteSet({x, y}) /\ Cardinality({x, y}) = 2
    <3>1. IsFiniteSet({x}) /\ Cardinality({x}) = 1
      BY FS_Singleton
    <3>2. PICK S : S = {x}
      OBVIOUS
    <3>3. IsFiniteSet(S) /\ Cardinality(S) = 1 /\ y \notin S /\ {x, y} = S \cup {y}
      BY <2>3, <3>1, <3>2
    <3>4. IsFiniteSet(S \cup {y}) /\ Cardinality(S \cup {y}) = 2
      BY <3>3, FS_AddElement
    <3> QED
      BY <3>3, <3>4, Zenon
  <2> QED
    BY <2>2, <2>4 DEF RefsOK, Created
<1> QED
  BY <1>5, <1>6, <1>7 DEF SpreadOK

LEMMA SpreadCallKeeps ==
  ASSUME LibuvInv, NEW t \in Threads, NEW s \in Spreads, NEW n \in Iterations, SpreadCall(t, s, n)
  PROVE  LibuvInv'
<1>1. PICK m, N : m = NumChunks(n) - 1 /\ N = 1..NumChunks(n)
  OBVIOUS
<1>2. PICK f, g, h : f = SpreadFrame("submit", s) /\ g = SpreadFrame("tail", s) /\ h = QueueFrame(s)
  OBVIOUS
<1>3. PICK new, gone : new = {CallerShare(s), OwnShare(s), QueuerShare(s)} /\ gone = {}
  OBVIOUS
<1>4. m \in Nat \ {0} /\ NumChunks(n) = m + 1 /\ N = 1..(m + 1)
  BY <1>1, ChunkNumber DEF SpreadCall
<1>5. /\ calls[s] = "new" /\ calls' = [calls EXCEPT ![s] = "active"]
      /\ hits' = [hits EXCEPT ![s] = [c \in N |-> 0]]
      /\ refs' = [refs EXCEPT ![s] = 2] /\ latch' = [latch EXCEPT ![s] = m + 1]
      /\ state' = [state EXCEPT ![s] = [c \in 1..m |-> "pending"]]
      /\ t = Loop => stack' = [stack EXCEPT ![t] = @ \o <<g, h>>]
      /\ t # Loop => stack' = [stack EXCEPT ![t] = @ \o <<f>>]
      /\ UNCHANGED <<poolQueue, afterQueue, pending>> /\ Calm
      /\ UNCHANGED <<inFlight, fired>>
  BY <1>1, <1>2, <1>4 DEF SpreadCall, uv, Calm
<1>6. Created(s, m, N) /\ SpreadsTyped' /\ \A u \in Spreads \ {s} : Untouched(u)
  BY <1>4, <1>5, Creation
<1>7. Steady
  <2>1. ASSUME NEW u \in Spreads, calls[u] # "new" PROVE Untouched(u)
    BY <1>5, <1>6, <2>1
  <2> QED
    BY <2>1 DEF Steady, Untouched
<1>8. /\ f \in Frame /\ f.pc = "submit" /\ f.id = s /\ g \in Frame /\ g.pc = "tail" /\ g.id = s
      /\ h \in Frame /\ h.pc = "queue" /\ h.id = s /\ h.k = 1
  <2>1. f = CallFrame("submit", s, 0) /\ g = CallFrame("tail", s, 0) /\ h = CallFrame("queue", s, 1)
    BY <1>2 DEF SpreadFrame, QueueFrame, CallFrame
  <2>2. f \in Frame /\ g \in Frame /\ h \in Frame
    BY <2>1, Shapes DEF Calling
  <2> QED
    BY <2>1, <2>2, FrameFields
<1>9. /\ Claims(f) = new /\ Claims(g) = {CallerShare(s), OwnShare(s)} /\ Claims(h) = {QueuerShare(s)}
      /\ FrameOK(f)' /\ FrameOK(g)' /\ FrameOK(h)'
  BY <1>3, <1>8, ClaimsAt DEF FrameOK
<1>10. \A x \in InHand : x.kind = "item" \/ x.id # s
  BY <1>5, NewSpread
<1>11. Of(s, new) /\ Of(s, gone)
  BY <1>3, ShareShapes DEF Of
<1>12. new \cap InHand = {} /\ new \cap Waiting = {}
  BY <1>10, <1>11 DEF Of, InHand, Taken
<1>13. QueuesOK' /\ QueuesTyped' /\ Waiting' = Waiting
  BY <1>5, QueuesStill
<1>14. Kept(new, gone) /\ (Announced => Announced')
  <2>1. CASE t = Loop
    <3>1. Trade({}, Claims(g), Claims(h), new, gone)
      BY <1>3, <1>9, <1>12, <1>13, Apart DEF Trade, Trades, InHand
    <3> QED
      BY <1>5, <1>7, <1>8, <1>9, <2>1, <3>1, StepCallTwo
  <2>2. CASE t # Loop
    <3>1. Trade({}, Claims(f), {}, new, gone)
      BY <1>3, <1>9, <1>12, <1>13 DEF Trade, Trades, InHand
    <3> QED
      BY <1>5, <1>7, <1>8, <1>9, <2>2, <3>1, StepCall
  <2> QED
    BY <2>1, <2>2
<1>15. InHand' = InHand \cup new
  BY <1>3, <1>14 DEF Kept
<1>16. SpreadOK(s)'
  BY <1>3, <1>4, <1>5, <1>6, <1>15, CreationKeeps
<1>17. PendingOK'
  BY <1>5, <1>14, CalmPending
<1> QED
  BY <1>5, <1>6, <1>11, <1>13, <1>14, <1>16, <1>17, Moved

--------------------------------------------------------------------------------
(* The steps of an item *)

LEMMA ItemMoved ==
  ASSUME LibuvInv, UNCHANGED <<node, calls, hits>>,
         NEW new, NEW gone, Kept(new, gone), OfItems(new), OfItems(gone), ItemsOK',
         fired' \in [Items -> {"new", "called", "refused", "accepted", "ran", "over"}],
         inFlight' \in Int, QueuesOK', QueuesTyped', PendingOK'
  PROVE  LibuvInv'
<1>1. (\A u \in Spreads : SpreadOK(u))'
  BY ItemMoves
<1>2. Typed'
  BY DEF LibuvInv, Typed, Kept, QueuesTyped, node
<1> QED
  BY <1>1, <1>2 DEF LibuvInv, Kept

\* An item goes on, begins its flight or ends it.
LEMMA Flight ==
  ASSUME LibuvInv, NEW i \in Items, NEW l, fired' = [fired EXCEPT ![i] = l],
         NEW new, NEW gone, InHand' = (InHand \cup new) \ gone
  PROVE  /\ l \in {"accepted", "ran"} /\ i \in Flying /\ new = {} /\ gone = {} /\ inFlight' = inFlight
              => ItemsOK'
         /\ l \in {"over", "refused"} /\ i \in Flying /\ new = {} /\ gone = {Item(i)}
                /\ inFlight' = inFlight - 1
              => ItemsOK'
         /\ l = "refused" /\ i \notin Flying /\ new = {} /\ gone = {} /\ inFlight' = inFlight
              => ItemsOK'
         /\ l = "called" /\ i \notin Flying /\ new = {Item(i)} /\ gone = {} /\ inFlight' = inFlight + 1
              => ItemsOK'
<1>1. /\ IsFiniteSet(Flying) /\ inFlight = Cardinality(Flying)
      /\ \A j \in Items : Item(j) \in InHand <=> j \in Flying
  BY DEF LibuvInv, ItemsOK
<1>2. fired'[i] = l /\ \A j \in Items \ {i} : fired'[j] = fired[j]
  BY DEF LibuvInv, Typed
<1>3. \A j \in Items : j # i => (j \in Flying' <=> j \in Flying)
  BY <1>2 DEF Flying
<1>4. i \in Flying' <=> l \in {"called", "accepted", "ran"}
  BY <1>2 DEF Flying
<1>5. Flying \subseteq Items /\ Flying' \subseteq Items
  BY DEF Flying
<1>6. \A j \in Items : Item(j) = Item(i) => j = i
  BY ShareShapes
<1>7. ASSUME Flying' = Flying, new = {}, gone = {}, inFlight' = inFlight
      PROVE  ItemsOK'
  BY <1>1, <1>7 DEF ItemsOK
<1>8. ASSUME i \in Flying, i \notin Flying', new = {}, gone = {Item(i)}, inFlight' = inFlight - 1
      PROVE  ItemsOK'
  <2>1. Flying' = Flying \ {i}
    BY <1>3, <1>5, <1>8
  <2>2. IsFiniteSet(Flying \ {i}) /\ Cardinality(Flying \ {i}) = Cardinality(Flying) - 1
    BY <1>1, <1>8, FS_RemoveElement
  <2>3. \A j \in Items : Item(j) \in InHand' <=> j \in Flying'
    BY <1>1, <1>6, <1>8, <2>1
  <2> QED
    BY <1>1, <1>8, <2>1, <2>2, <2>3 DEF ItemsOK
<1>9. ASSUME i \notin Flying, i \in Flying', new = {Item(i)}, gone = {}, inFlight' = inFlight + 1
      PROVE  ItemsOK'
  <2>1. Flying' = Flying \cup {i}
    BY <1>3, <1>5, <1>9
  <2>2. IsFiniteSet(Flying \cup {i}) /\ Cardinality(Flying \cup {i}) = Cardinality(Flying) + 1
    BY <1>1, <1>9, FS_AddElement
  <2>3. \A j \in Items : Item(j) \in InHand' <=> j \in Flying'
    BY <1>1, <1>6, <1>9, <2>1
  <2> QED
    BY <1>1, <1>9, <2>1, <2>2, <2>3 DEF ItemsOK
<1>10. (i \in Flying' <=> i \in Flying) => Flying' = Flying
  BY <1>3, <1>5
<1> QED
  BY <1>4, <1>7, <1>8, <1>9, <1>10

States == {"new", "called", "refused", "accepted", "ran", "over"}

LEMMA FiredTyped ==
  ASSUME LibuvInv, NEW i \in Items, NEW l \in States, fired' = [fired EXCEPT ![i] = l]
  PROVE  fired' \in [Items -> {"new", "called", "refused", "accepted", "ran", "over"}]
BY DEF LibuvInv, Typed, States

LEMMA WorkEndsKeeps ==
  ASSUME LibuvInv, NEW t \in Threads, WorkEnds(t)
  PROVE  LibuvInv'
<1>1. PICK f, w, i, new, gone : f = Top(t) /\ w = f.work /\ i = w.id /\ new = {} /\ gone = {}
  OBVIOUS
<1>2. /\ pc(t) = "pool" /\ pc(t) # "idle" /\ pc(t) \notin Heralds /\ w.kind = "item"
      /\ fired' = [fired EXCEPT ![i] = "ran"]
      /\ afterQueue' = Append(afterQueue, w) /\ Leave(t)
      /\ UNCHANGED <<poolQueue, pending>> /\ Calm
      /\ UNCHANGED <<node, calls, hits>> /\ inFlight' = inFlight
  BY <1>1 DEF WorkEnds, Calm, Heralds
<1>3. f \in Frame /\ f.pc = "pool" /\ Claims(f) \cap Waiting = {} /\ Claims(f) \subseteq InHand
  BY <1>1, <1>2, Mine
<1>4. w \in Works /\ i \in Items /\ w = Item(i)
  BY <1>1, <1>2, <1>3, Shapes, WorkShapes
<1>5. Claims(f) = {w} /\ AfterShares(w) = {w}
  <2>1. Claims(f) = PoolShares(w)
    BY <1>1, <1>3, ClaimsAt
  <2> QED
    BY <1>4, <2>1, SharesAt
<1>6. afterQueue' \in Seq(Works) /\ QueuesOK' /\ Waiting' = Waiting \cup AfterShares(w)
  BY <1>2, <1>3, <1>4, <1>5, AfterGets DEF LibuvInv
<1>7. QueuesTyped'
  BY <1>2, <1>6 DEF QueuesTyped, LibuvInv, Typed
<1>8. Trade(Claims(Top(t)), {}, {}, new, gone)
  BY <1>1, <1>5, <1>6 DEF Trade, Trades
<1>9. Kept(new, gone) /\ (Announced => Announced')
  BY <1>2, <1>8, StepLeave, SteadyStill DEF node
<1>10. InHand' = (InHand \cup new) \ gone
  BY <1>9 DEF Kept
<1>11. i \in Flying
  BY <1>3, <1>4, <1>5 DEF LibuvInv, ItemsOK
<1>12. ItemsOK'
  BY <1>1, <1>2, <1>4, <1>10, <1>11, Flight
<1>13. /\ fired' \in [Items -> {"new", "called", "refused", "accepted", "ran", "over"}]
       /\ inFlight' \in Int
  BY <1>2, <1>4, FiredTyped DEF States, LibuvInv, Typed
<1>14. OfItems(new) /\ OfItems(gone)
  BY <1>1 DEF OfItems
<1>15. PendingOK'
  BY <1>2, <1>9, CalmPending
<1> QED
  BY <1>2, <1>6, <1>7, <1>9, <1>12, <1>13, <1>14, <1>15, ItemMoved

LEMMA FireQueueKeeps ==
  ASSUME LibuvInv, FireQueue
  PROVE  LibuvInv'
<1>1. PICK t, f, i, w, new, gone :
        t = Loop /\ f = Top(t) /\ i = f.item /\ w = Item(i) /\ new = {} /\ gone = {}
  OBVIOUS
<1>2. /\ t \in Threads /\ pc(t) = "fire" /\ pc(t) # "idle" /\ pc(t) \notin Heralds
      /\ fired' = [fired EXCEPT ![i] = "accepted"]
      /\ poolQueue' = Append(poolQueue, w) /\ Leave(t)
      /\ UNCHANGED <<afterQueue, pending>> /\ Calm
      /\ UNCHANGED <<node, calls, hits>> /\ inFlight' = inFlight
  BY <1>1 DEF FireQueue, Calm, Heralds, Threads
<1>3. f \in Frame /\ f.pc = "fire" /\ Claims(f) \cap Waiting = {} /\ Claims(f) \subseteq InHand
  BY <1>1, <1>2, Mine
<1>4. i \in Items /\ w \in Works
  BY <1>1, <1>3, Shapes, WorkShapes
<1>5. Claims(f) = {w} /\ AfterShares(w) = {w} /\ PoolShares(w) = {w}
  BY <1>1, <1>3, ClaimsAt, SharesAt
<1>6. poolQueue' \in Seq(Works) /\ QueuesOK' /\ Waiting' = Waiting \cup PoolShares(w)
  BY <1>2, <1>3, <1>4, <1>5, PoolGets DEF LibuvInv
<1>7. QueuesTyped'
  BY <1>2, <1>6 DEF QueuesTyped, LibuvInv, Typed
<1>8. Trade(Claims(Top(t)), {}, {}, new, gone)
  BY <1>1, <1>5, <1>6 DEF Trade, Trades
<1>9. Kept(new, gone) /\ (Announced => Announced')
  BY <1>2, <1>8, StepLeave, SteadyStill DEF node
<1>10. InHand' = (InHand \cup new) \ gone
  BY <1>9 DEF Kept
<1>11. i \in Flying
  BY <1>1, <1>3, <1>4, <1>5 DEF LibuvInv, ItemsOK
<1>12. ItemsOK'
  BY <1>1, <1>2, <1>4, <1>10, <1>11, Flight
<1>13. /\ fired' \in [Items -> {"new", "called", "refused", "accepted", "ran", "over"}]
       /\ inFlight' \in Int
  BY <1>2, <1>4, FiredTyped DEF States, LibuvInv, Typed
<1>14. OfItems(new) /\ OfItems(gone)
  BY <1>1 DEF OfItems
<1>15. PendingOK'
  BY <1>2, <1>9, CalmPending
<1> QED
  BY <1>2, <1>6, <1>7, <1>9, <1>12, <1>13, <1>14, <1>15, ItemMoved

\* The flight of an item ends with the frame that has it.
LEMMA FlightEnds ==
  ASSUME LibuvInv, NEW t \in Threads, pc(t) # "idle", pc(t) \notin Heralds, Leave(t),
         NEW i \in Items, Claims(Top(t)) = {Item(i)}, NEW l \in {"over", "refused"},
         fired' = [fired EXCEPT ![i] = l], inFlight' = inFlight - 1,
         UNCHANGED <<poolQueue, afterQueue, pending>>, Calm, UNCHANGED <<node, calls, hits>>
  PROVE  LibuvInv'
<1>1. PICK new, gone : new = {} /\ gone = {Item(i)}
  OBVIOUS
<1>2. Claims(Top(t)) \cap Waiting = {} /\ Claims(Top(t)) \subseteq InHand
  BY Mine
<1>3. QueuesOK' /\ QueuesTyped' /\ Waiting' = Waiting
  BY QueuesStill
<1>4. Trade(Claims(Top(t)), {}, {}, new, gone)
  BY <1>1, <1>2, <1>3 DEF Trade, Trades
<1>5. Kept(new, gone) /\ (Announced => Announced')
  BY <1>4, StepLeave, SteadyStill DEF node
<1>6. InHand' = (InHand \cup new) \ gone
  BY <1>5 DEF Kept
<1>7. i \in Flying
  BY <1>2 DEF LibuvInv, ItemsOK
<1>8. ItemsOK'
  BY <1>1, <1>6, <1>7, Flight
<1>9. /\ fired' \in [Items -> {"new", "called", "refused", "accepted", "ran", "over"}]
      /\ inFlight' \in Int
  BY FiredTyped DEF States, LibuvInv, Typed
<1>10. OfItems(new) /\ OfItems(gone)
  BY <1>1, ShareShapes DEF OfItems
<1>11. PendingOK'
  BY <1>5, CalmPending
<1> QED
  BY <1>3, <1>5, <1>8, <1>9, <1>10, <1>11, ItemMoved

LEMMA AfterEndsKeeps ==
  ASSUME LibuvInv, AfterEnds
  PROVE  LibuvInv'
<1>1. PICK t, f, i, l : t = Loop /\ f = Top(t) /\ i = f.work.id /\ l = "over"
  OBVIOUS
<1>2. /\ t \in Threads /\ pc(t) = "after" /\ pc(t) # "idle" /\ pc(t) \notin Heralds
      /\ fired' = [fired EXCEPT ![i] = l] /\ inFlight' = inFlight - 1 /\ Leave(t)
      /\ UNCHANGED <<poolQueue, afterQueue, pending>> /\ Calm
      /\ UNCHANGED <<node, calls, hits>>
  BY <1>1 DEF AfterEnds, Calm, Heralds, Threads, uv
<1>3. f \in Frame /\ f.pc = "after"
  BY <1>1, <1>2, Mine
<1>4. i \in Items /\ Claims(Top(t)) = {Item(i)}
  BY <1>1, <1>3, Shapes, ShareShapes, ClaimsAt
<1>5. l \in {"over", "refused"}
  BY <1>1
<1> QED
  BY <1>2, <1>4, <1>5, FlightEnds

LEMMA FireRefusedKeeps ==
  ASSUME LibuvInv, FireRefused
  PROVE  LibuvInv'
<1>1. PICK t, f, i, l : t = Loop /\ f = Top(t) /\ i = f.item /\ l = "refused"
  OBVIOUS
<1>2. /\ t \in Threads /\ pc(t) = "fire" /\ pc(t) # "idle" /\ pc(t) \notin Heralds
      /\ fired' = [fired EXCEPT ![i] = l] /\ inFlight' = inFlight - 1 /\ Leave(t)
      /\ UNCHANGED <<poolQueue, afterQueue, pending>> /\ Calm
      /\ UNCHANGED <<node, calls, hits>>
  BY <1>1 DEF FireRefused, Calm, Heralds, Threads, uv
<1>3. f \in Frame /\ f.pc = "fire"
  BY <1>1, <1>2, Mine
<1>4. i \in Items /\ Claims(Top(t)) = {Item(i)}
  BY <1>1, <1>3, Shapes, ClaimsAt
<1>5. l \in {"over", "refused"}
  BY <1>1
<1> QED
  BY <1>2, <1>4, <1>5, FlightEnds

LEMMA FireCallKeeps ==
  ASSUME LibuvInv, NEW i \in Items, FireCall(i)
  PROVE  LibuvInv'
<1>1. PICK t, l, new, gone, g : /\ t = Loop /\ l = fired'[i] /\ gone = {}
                                /\ new = (IF l = "called" THEN {Item(i)} ELSE {})
                                /\ g = [pc |-> "fire", item |-> i]
  OBVIOUS
<1>2. /\ t \in Threads /\ fired[i] = "new"
      /\ UNCHANGED <<poolQueue, afterQueue, pending>> /\ Calm
      /\ UNCHANGED <<node, calls, hits>>
      /\ \/ /\ inFlight' = inFlight + 1 /\ fired' = [fired EXCEPT ![i] = "called"] /\ Enter(t, g)
         \/ /\ inFlight' = inFlight /\ fired' = [fired EXCEPT ![i] = "refused"] /\ UNCHANGED stack
  BY <1>1 DEF FireCall, Calm, Threads, uv
<1>3. i \notin Flying
  BY <1>2 DEF Flying
<1>4. Item(i) \notin InHand
  BY <1>3 DEF LibuvInv, ItemsOK
<1>5. QueuesOK' /\ QueuesTyped' /\ Waiting' = Waiting
  BY <1>2, QueuesStill
<1>6. Steady
  BY <1>2, SteadyStill DEF node
<1>7. \A m : fired' = [fired EXCEPT ![i] = m] => l = m
  BY <1>1 DEF LibuvInv, Typed
<1>8. /\ Kept(new, gone) /\ (Announced => Announced') /\ ItemsOK' /\ inFlight' \in Int
      /\ fired' \in [Items -> {"new", "called", "refused", "accepted", "ran", "over"}]
  <2>1. CASE inFlight' = inFlight + 1 /\ fired' = [fired EXCEPT ![i] = "called"] /\ Enter(t, g)
    <3>1. l = "called" /\ new = {Item(i)}
      BY <1>1, <1>7, <2>1
    <3>2. g \in Frame /\ g.pc = "fire" /\ g.item = i
      BY <1>1, Shapes
    <3>3. Claims(g) = {Item(i)} /\ FrameOK(g)'
      BY <3>2, ClaimsAt DEF FrameOK
    <3>4. Trade({}, Claims(g), {}, new, gone)
      BY <1>1, <1>4, <1>5, <3>1, <3>3 DEF Trade, Trades, InHand, Taken
    <3>5. Kept(new, gone) /\ (Announced => Announced')
      BY <1>2, <1>6, <2>1, <3>2, <3>3, <3>4, StepEnter
    <3>6. InHand' = (InHand \cup new) \ gone /\ fired' = [fired EXCEPT ![i] = l]
      BY <2>1, <3>1, <3>5 DEF Kept
    <3>7. ItemsOK'
      BY <1>1, <1>3, <2>1, <3>1, <3>6, Flight
    <3> QED
      BY <2>1, <3>5, <3>7, FiredTyped DEF States, LibuvInv, Typed
  <2>2. CASE inFlight' = inFlight /\ fired' = [fired EXCEPT ![i] = "refused"] /\ UNCHANGED stack
    <3>1. l = "refused" /\ new = {}
      BY <1>1, <1>7, <2>2
    <3>2. Trade({}, {}, {}, new, gone)
      BY <1>1, <1>5, <3>1 DEF Trade, Trades
    <3>3. Kept(new, gone) /\ (Announced => Announced')
      BY <1>2, <1>6, <2>2, <3>2, StepStay
    <3>4. InHand' = (InHand \cup new) \ gone /\ fired' = [fired EXCEPT ![i] = l]
      BY <2>2, <3>1, <3>3 DEF Kept
    <3>5. ItemsOK'
      BY <1>1, <1>3, <2>2, <3>1, <3>4, Flight
    <3> QED
      BY <2>2, <3>3, <3>5, FiredTyped DEF States, LibuvInv, Typed
  <2> QED
    BY <1>2, <2>1, <2>2
<1>9. OfItems(new) /\ OfItems(gone)
  BY <1>1, ShareShapes DEF OfItems
<1>10. PendingOK'
  BY <1>2, <1>8, CalmPending
<1> QED
  BY <1>2, <1>5, <1>8, <1>9, <1>10, ItemMoved

--------------------------------------------------------------------------------
(* Every step keeps the invariant *)

LEMMA InitKeeps ==
  ASSUME Init
  PROVE  LibuvInv
<1>1. /\ \A t \in Threads : stack[t] = <<>> /\ Len(stack[t]) = 0
      /\ poolQueue = <<>> /\ afterQueue = <<>> /\ pending = <<>>
      /\ \A s \in Spreads : /\ state[s] = <<>> /\ hits[s] = <<>>
                            /\ Len(state[s]) = 0 /\ DOMAIN hits[s] = {}
                            /\ calls[s] = "new" /\ refs[s] = 0
      /\ \A i \in Items : fired[i] = "new"
      /\ inFlight = 0
  BY DEF Init
<1>2. Waiting = {}
  <2>1. ToSet(<<>>) = {}
    BY DEF ToSet
  <2> QED
    BY <1>1, <2>1 DEF Waiting, SharesOf
<1>3. \A t \in Threads : DOMAIN Claimed[t] = {}
  BY <1>1 DEF Claimed, Holdings
<1>4. Disjoint(Threads, Claimed, Waiting) /\ InHand = {}
  BY <1>2, <1>3 DEF Disjoint, InHand, Taken
<1>5. Typed
  <2>1. <<>> \in [1..0 -> {0, 1}]
    <3>1. \A h \in Seq({0, 1}) : h \in [1..Len(h) -> {0, 1}]
      OBVIOUS
    <3>2. <<>> \in Seq({0, 1}) /\ Len(<<>>) = 0
      OBVIOUS
    <3> QED
      BY <3>1, <3>2
  <2> QED
    BY <1>1, <2>1 DEF Init, Typed
<1>6. QueuesOK
  <2>1. Distinct(<<>>)
    BY DEF Distinct
  <2>2. ToSet(<<>>) = {}
    BY DEF ToSet
  <2> QED
    BY <1>1, <2>1, <2>2 DEF QueuesOK
<1>7. \A t \in Threads : \A i \in 1..Len(stack[t]) : FrameOK(stack[t][i])
  BY <1>1
<1>8. ASSUME NEW s \in Spreads PROVE SpreadOK(s)
  <2>1. SharesOK(s)
    BY <1>4 DEF SharesOK
  <2>2. ChunksOK(s)
    BY <1>1 DEF ChunksOK
  <2>3. RefsOK(s)
    <3>1. NodeShares(s) = {}
      BY <1>4 DEF NodeShares
    <3> QED
      BY <1>1, <3>1, FS_EmptySet DEF RefsOK
  <2> QED
    BY <2>1, <2>2, <2>3 DEF SpreadOK
<1>9. ItemsOK
  <2>1. Flying = {}
    BY <1>1 DEF Flying
  <2> QED
    BY <1>1, <1>4, <2>1, FS_EmptySet DEF ItemsOK
<1> QED
  BY <1>1, <1>4, <1>5, <1>6, <1>7, <1>8, <1>9 DEF LibuvInv, PendingOK

LEMMA ProgressKeeps ==
  ASSUME LibuvInv, NEW t \in Threads, Progress(t)
  PROVE  LibuvInv'
<1>1. CASE SpreadStep(t)
  BY <1>1, SubmitKeeps, SendKeeps, TailChunkKeeps, StealPendingKeeps, StealQueuedKeeps,
     StealNothingKeeps, SpreadWaitKeeps, SpreadReturnKeeps DEF SpreadStep
<1>2. CASE WorkStep(t)
  BY <1>2, PoolTakesKeeps, ChunkEndsKeeps, PostKeeps, SerialEndsKeeps, WorkEndsKeeps,
     AfterEndsKeeps DEF WorkStep
<1>3. CASE QueueStep
  BY <1>3, AsyncExchangeKeeps, AsyncNextKeeps, AsyncEndsKeeps, QueueSkipKeeps,
     QueueChunkKeeps, QueueRefusedKeeps, QueueEndsKeeps DEF QueueStep
<1>4. CASE FireQueue \/ FireRefused
  BY <1>4, FireQueueKeeps, FireRefusedKeeps
<1> QED
  BY <1>1, <1>2, <1>3, <1>4 DEF Progress

LEMMA CallKeeps ==
  ASSUME LibuvInv, NEW t \in Threads, Call(t)
  PROVE  LibuvInv'
<1>1. CASE \E i \in Items : FireCall(i)
  BY <1>1, FireCallKeeps
<1>2. CASE \E s \in NextCall, n \in Iterations : SpreadSerial(t, s, n) \/ SpreadCall(t, s, n)
  <2>1. PICK s \in NextCall, n \in Iterations : SpreadSerial(t, s, n) \/ SpreadCall(t, s, n)
    BY <1>2
  <2>2. s \in Spreads
    BY DEF NextCall, Unused
  <2> QED
    BY <2>1, <2>2, SpreadSerialKeeps, SpreadCallKeeps
<1> QED
  BY <1>1, <1>2 DEF Call

LEMMA NextKeeps ==
  ASSUME LibuvInv, [Next]_vars
  PROVE  LibuvInv'
<1>1. CASE \E t \in Threads : Progress(t) \/ Call(t)
  BY <1>1, ProgressKeeps, CallKeeps
<1>2. CASE LoopEvent
  BY <1>2, StillKeeps, AsyncFiresKeeps, SpreadAfterKeeps, ItemAfterKeeps DEF LoopEvent
<1> QED
  BY <1>1, <1>2, StillKeeps DEF Next

\* The shares are in order whatever the pool, the callers and the loop do, in any order,
\* and whichever allocation or request is refused.
THEOREM LibuvInvariance == SafeSpec => []LibuvInv
<1> QED
  BY InitKeeps, NextKeeps, PTL DEF SafeSpec
--------------------------------------------------------------------------------
(* What the invariant says of the spreads and the items *)

\* A frame has its shares, and no other frame has one of them.
LEMMA FrameHas ==
  ASSUME LibuvInv, NEW t \in Threads, NEW i \in DOMAIN stack[t]
  PROVE  /\ stack[t][i] \in Frame
         /\ Claims(stack[t][i]) \subseteq InHand
         /\ Claims(stack[t][i]) \cap Waiting = {}
         /\ \A u \in Threads : \A j \in DOMAIN stack[u] :
              t # u \/ i # j => Claims(stack[t][i]) \cap Claims(stack[u][j]) = {}
<1>1. \A u \in Threads : /\ stack[u] \in Seq(Frame) /\ DOMAIN stack[u] = 1..Len(stack[u])
                         /\ \A j \in DOMAIN stack[u] : stack[u][j] \in Frame
  BY ElementOfSeq DEF LibuvInv, Typed
<1>2. \A u \in Threads : /\ DOMAIN Claimed[u] = DOMAIN stack[u]
                         /\ \A j \in DOMAIN stack[u] : Claimed[u][j] = Claims(stack[u][j])
  BY <1>1 DEF Claimed, Holdings, ClaimOf
<1>3. Disjoint(Threads, Claimed, Waiting)
  BY DEF LibuvInv
<1>4. Claimed[t][i] \cap Waiting = {}
  BY <1>2, <1>3 DEF Disjoint
<1>5. \A u \in Threads : \A j \in DOMAIN stack[u] :
        t # u \/ i # j => Claimed[t][i] \cap Claimed[u][j] = {}
  BY <1>2, <1>3 DEF Disjoint
<1>6. Claimed[t][i] \subseteq InHand
  BY <1>2 DEF InHand, Taken
<1> QED
  BY <1>1, <1>2, <1>4, <1>5, <1>6

LEMMA CompleteFollows == LibuvInv => SpreadComplete
<1> SUFFICES ASSUME LibuvInv, NEW s \in Spreads
             PROVE  /\ \A c \in DOMAIN hits[s] : hits[s][c] <= 1
                    /\ calls[s] = "returned" =>
                         /\ \A c \in DOMAIN hits[s] : hits[s][c] = 1
                         /\ \A f \in Frames : LET g == stack[f[1]][f[2]]
                              IN ~ (g.pc \in Running /\ g.work.kind = "chunk" /\ g.work.id = s)
  BY DEF SpreadComplete, FramesWith
<1>1. \A c \in DOMAIN hits[s] : hits[s][c] \in {0, 1}
  <2>1. PICK n \in Nat : hits[s] \in [1..n -> {0, 1}]
    BY DEF LibuvInv, Typed
  <2> QED
    BY <2>1
<1>2. ASSUME calls[s] = "returned", NEW c \in DOMAIN hits[s] PROVE hits[s][c] = 1
  <2>1. Unrun(s) = {}
    BY <1>2 DEF LibuvInv, SpreadOK, ChunksOK
  <2> QED
    BY <1>1, <2>1 DEF Unrun
<1>3. ASSUME calls[s] = "returned", NEW f \in Frames, NEW g, g = stack[f[1]][f[2]],
             g.pc \in Running, g.work.kind = "chunk", g.work.id = s
      PROVE  FALSE
  <2>1. PICK t \in Threads : \E i \in DOMAIN stack[t] : f = <<t, i>>
    BY DEF Frames
  <2>2. PICK i \in DOMAIN stack[t] : f = <<t, i>>
    BY <2>1
  <2>3. g \in Frame /\ Claims(g) \subseteq InHand
    BY <1>3, <2>2, FrameHas
  <2>4. g.work \in Claims(g)
    BY <1>3, ClaimsAt DEF Running, PoolShares
  <2>5. g.work \in Works
    BY <1>3, <2>3, Shapes, WorkShapes DEF Running
  <2>6. g.work = Chunk(s, g.work.c) /\ g.work.c \in Nat
    BY <1>3, <2>5, WorkShapes
  <2> QED
    BY <1>3, <2>3, <2>4, <2>6, RunningChunk
<1> QED
  BY <1>1, <1>2, <1>3

\* "each chunk executes exactly once, here or on a worker", and a spread returns when all
\* of them have and nobody will touch its latch or its functor again: with the loop's
\* and the callers' claims, uv_cancel and inline runs in any order, in any pool.
THEOREM LibuvSpreadComplete == SafeSpec => []SpreadComplete
<1> QED
  BY LibuvInvariance, CompleteFollows, PTL

\* wait_until_idle: when the count of g_in_flight is zero, every item fire_with_after has
\* accepted has run, and so has its callback; a refused one was counted out.
THEOREM LibuvIdleMeansDone == SafeSpec => []IdleMeansDone
<1>1. LibuvInv => IdleMeansDone
  <2> SUFFICES ASSUME LibuvInv, inFlight = 0, NEW i \in Items PROVE fired[i] \notin {"accepted", "ran"}
    BY DEF IdleMeansDone
  <2>1. IsFiniteSet(Flying) /\ Cardinality(Flying) = 0
    BY DEF LibuvInv, ItemsOK
  <2>2. Flying = {}
    BY <2>1, FS_EmptySet
  <2> QED
    BY <2>2 DEF Flying
<1> QED
  BY <1>1, LibuvInvariance, PTL
--------------------------------------------------------------------------------
(* Whose share is whose *)

LEMMA SameCount ==
  ASSUME NEW A, NEW B, IsFiniteSet(B), NEW h \in [A -> B],
         \A a, b \in A : h[a] = h[b] => a = b, \A b \in B : \E a \in A : h[a] = b
  PROVE  IsFiniteSet(A) /\ Cardinality(A) = Cardinality(B)
<1>1. h \in Injection(A, B) /\ h \in Surjection(A, B)
  BY DEF Injection, Surjection, IsInjective
<1> QED
  BY <1>1, FS_Injection

LEMMA ClaimedBy ==
  ASSUME NEW f \in Frame, NEW s
  PROVE  /\ CallerShare(s) \in Claims(f) <=> f.pc \in Calling /\ f.id = s
         /\ QueuerShare(s) \in Claims(f) <=> \/ f.pc \in {"submit", "queue"} /\ f.id = s
                                             \/ f.pc = "async" /\ s \in ToSet(f.list)
         /\ \A c : RequestShare(s, c) \in Claims(f)
                     <=> f.pc \in {"pool", "post"} /\ f.work = Chunk(s, c)
<1>1. CASE f.pc \in Calling \cup {"queue", "async", "fire", "exchange"}
  <2>1. CASE f.pc \in {"send", "tail", "steal", "release", "submit", "queue"}
    BY <2>1, ClaimsAt, ShareShapes DEF Calling
  <2>2. CASE f.pc \in {"async", "fire", "exchange"}
    BY <2>2, ClaimsAt, ShareShapes DEF Calling
  <2> QED
    BY <1>1, <2>1, <2>2 DEF Calling
<1>2. CASE f.pc \in {"pool", "post"}
  <2>1. f.work \in Works
    BY <1>2, Shapes, WorkShapes
  <2>2. CASE f.work.kind = "chunk"
    <3>1. f.work = Chunk(f.work.id, f.work.c)
      BY <2>1, <2>2, WorkShapes
    <3> QED
      BY <1>2, <2>2, <3>1, ClaimsAt, ShareShapes DEF PoolShares, AfterShares, Calling
  <2>3. CASE f.work.kind # "chunk"
    <3>1. f.work = Item(f.work.id)
      BY <2>1, <2>3, WorkShapes
    <3> QED
      BY <1>2, <2>3, <3>1, ClaimsAt, ShareShapes DEF PoolShares, AfterShares, Calling
  <2> QED
    BY <2>2, <2>3
<1>3. CASE f.pc \in {"inline", "serial", "after"}
  <2>1. f.work \in Works
    BY <1>3, Shapes, WorkShapes
  <2>2. f.work.kind \in {"chunk", "item"}
    BY <2>1, WorkShapes, ShareShapes
  <2> QED
    BY <1>3, <2>2, ClaimsAt, ShareShapes DEF Calling
<1>4. f.pc \in Calling \cup {"queue", "async", "fire", "exchange"} \cup {"pool", "post"}
               \cup {"inline", "serial", "after"}
  BY DEF Frame
<1> QED
  BY <1>1, <1>2, <1>3, <1>4

LEMMA WaitingFor ==
  ASSUME LibuvInv, NEW s
  PROVE  /\ CallerShare(s) \notin Waiting
         /\ QueuerShare(s) \in Waiting <=> s \in ToSet(pending)
         /\ \A c : RequestShare(s, c) \in Waiting
                     <=> Chunk(s, c) \in ToSet(poolQueue) \cup ToSet(afterQueue)
<1>1. ASSUME NEW w \in Works
      PROVE  \A x \in PoolShares(w) \cup AfterShares(w) :
               /\ x.kind \in {"chunk", "request", "item"}
               /\ \A c : x = RequestShare(s, c) => w = Chunk(s, c)
  <2>1. CASE w.kind = "chunk"
    <3>1. w = Chunk(w.id, w.c)
      BY <2>1, WorkShapes, ShareShapes
    <3> QED
      BY <2>1, <3>1, ShareShapes DEF PoolShares, AfterShares
  <2>2. CASE w.kind # "chunk"
    <3>1. w = Item(w.id)
      BY <2>2, WorkShapes, ShareShapes
    <3> QED
      BY <2>2, <3>1, ShareShapes DEF PoolShares, AfterShares
  <2> QED
    BY <2>1, <2>2
<1>2. PICK P, A, L : P = ToSet(poolQueue) /\ A = ToSet(afterQueue) /\ L = ToSet(pending)
  OBVIOUS
<1>3. P \subseteq Works /\ A \subseteq Works /\ Waiting = SharesOf(P, A, L)
  BY <1>2, QueueSets DEF Waiting, LibuvInv
<1>4. ASSUME NEW x \in SharesOf(P, A, L)
      PROVE  \/ \E w \in P : x \in PoolShares(w)
             \/ \E w \in A : x \in AfterShares(w)
             \/ \E r \in L : x = QueuerShare(r)
  BY DEF SharesOf
<1>5. CallerShare(s) \notin Waiting
  BY <1>1, <1>3, <1>4, ShareShapes
<1>6. QueuerShare(s) \in Waiting => s \in L
  BY <1>1, <1>3, <1>4, ShareShapes
<1>7. s \in L => QueuerShare(s) \in Waiting
  BY <1>3, SharesGain
<1>8. ASSUME NEW c, RequestShare(s, c) \in Waiting PROVE Chunk(s, c) \in P \cup A
  <2>1. PICK x : x = RequestShare(s, c)
    OBVIOUS
  <2>2. x.kind = "request" /\ x \in SharesOf(P, A, L)
    BY <1>3, <1>8, <2>1, ShareShapes
  <2>3. \A r : x # QueuerShare(r)
    BY <2>2, ShareShapes
  <2> QED
    BY <1>1, <1>3, <1>4, <2>1, <2>2, <2>3
<1>9. ASSUME NEW c, Chunk(s, c) \in P \cup A PROVE RequestShare(s, c) \in Waiting
  <2>1. RequestShare(s, c) \in PoolShares(Chunk(s, c)) /\ RequestShare(s, c) \in AfterShares(Chunk(s, c))
    BY SharesAt
  <2> QED
    BY <1>3, <1>9, <2>1, SharesGain
<1> QED
  BY <1>2, <1>5, <1>6, <1>7, <1>8, <1>9

\* A share in hand waits in a queue or belongs to a frame.
LEMMA HandOf ==
  ASSUME LibuvInv, NEW x \in InHand, x \notin Waiting
  PROVE  \E t \in Threads : \E i \in DOMAIN stack[t] : x \in Claims(stack[t][i])
<1>1. \A u \in Threads : \A j \in DOMAIN Claimed[u] :
        j \in DOMAIN stack[u] /\ Claimed[u][j] = Claims(stack[u][j])
  <2>1. \A u \in Threads : /\ DOMAIN stack[u] = 1..Len(stack[u])
                           /\ \A j \in DOMAIN stack[u] : stack[u][j] \in Frame
    BY ElementOfSeq DEF LibuvInv, Typed
  <2> QED
    BY <2>1 DEF Claimed, Holdings, ClaimOf
<1>2. PICK u \in Threads : \E j \in DOMAIN Claimed[u] : x \in Claimed[u][j]
  BY DEF InHand, Taken
<1> QED
  BY <1>1, <1>2

At(f) == stack[f[1]][f[2]]

LEMMA FramesHave ==
  ASSUME LibuvInv
  PROVE  /\ \A f \in Frames : At(f) \in Frame /\ Claims(At(f)) \subseteq InHand
                              /\ Claims(At(f)) \cap Waiting = {}
         /\ \A f, g \in Frames : \A x : x \in Claims(At(f)) /\ x \in Claims(At(g)) => f = g
         /\ \A x \in InHand : x \notin Waiting => \E f \in Frames : x \in Claims(At(f))
         /\ \A f \in Frames : DOMAIN f = {1, 2}
<1>1. ASSUME NEW f \in Frames
      PROVE  \E t \in Threads : \E i \in DOMAIN stack[t] : f = <<t, i>> /\ At(f) = stack[t][i]
  BY DEF Frames, At
<1>2. ASSUME NEW t \in Threads, NEW i \in DOMAIN stack[t]
      PROVE  <<t, i>> \in Frames /\ At(<<t, i>>) = stack[t][i]
  BY DEF Frames, At
<1>3. ASSUME NEW f \in Frames
      PROVE  At(f) \in Frame /\ Claims(At(f)) \subseteq InHand /\ Claims(At(f)) \cap Waiting = {}
             /\ DOMAIN f = {1, 2}
  BY <1>1, FrameHas
<1>4. ASSUME NEW f \in Frames, NEW g \in Frames, NEW x, x \in Claims(At(f)), x \in Claims(At(g))
      PROVE  f = g
  <2>1. PICK t \in Threads : \E i \in DOMAIN stack[t] : f = <<t, i>> /\ At(f) = stack[t][i]
    BY <1>1
  <2>2. PICK i \in DOMAIN stack[t] : f = <<t, i>> /\ At(f) = stack[t][i]
    BY <2>1
  <2>3. PICK u \in Threads : \E j \in DOMAIN stack[u] : g = <<u, j>> /\ At(g) = stack[u][j]
    BY <1>1
  <2>4. PICK j \in DOMAIN stack[u] : g = <<u, j>> /\ At(g) = stack[u][j]
    BY <2>3
  <2>5. t # u \/ i # j => Claims(stack[t][i]) \cap Claims(stack[u][j]) = {}
    BY FrameHas
  <2> QED
    BY <1>4, <2>2, <2>4, <2>5
<1>5. ASSUME NEW x \in InHand, x \notin Waiting PROVE \E f \in Frames : x \in Claims(At(f))
  <2>1. PICK t \in Threads : \E i \in DOMAIN stack[t] : x \in Claims(stack[t][i])
    BY <1>5, HandOf
  <2>2. PICK i \in DOMAIN stack[t] : x \in Claims(stack[t][i])
    BY <2>1
  <2> QED
    BY <1>2, <2>2
<1> QED
  BY <1>3, <1>4, <1>5

\* There is one holder of the caller's share, if it is in hand ...
LEMMA CallerCount ==
  ASSUME LibuvInv, NEW s \in Spreads, NEW B, B = {x \in InHand : x = CallerShare(s)}
  PROVE  Cardinality(CallerRefs(s)) = Cardinality(B)
<1>1. PICK A : A = CallerRefs(s)
  OBVIOUS
<1>2. \A f : f \in A <=> f \in Frames /\ CallerShare(s) \in Claims(At(f))
  <2>1. \A f : f \in A <=> f \in Frames /\ At(f).pc \in Calling /\ At(f).id = s
    BY <1>1 DEF CallerRefs, FramesWith, At, Calling
  <2> QED
    BY <2>1, FramesHave, ClaimedBy
<1>3. IsFiniteSet(B)
  <2>1. B \subseteq {CallerShare(s)}
    OBVIOUS
  <2> QED
    BY <2>1, FS_Singleton, FS_Subset
<1>4. PICK h : h = [f \in A |-> CallerShare(s)]
  OBVIOUS
<1>5. \A f, g \in A : f = g
  BY <1>2, FramesHave
<1>6. \A x \in B : \E f \in A : h[f] = x
  BY <1>2, <1>4, FramesHave, WaitingFor
<1>7. h \in [A -> B]
  BY <1>2, <1>4, FramesHave
<1> QED
  BY <1>1, <1>3, <1>5, <1>6, <1>7, SameCount

\* ... and one of the queuer's ...
LEMMA QueuerCount ==
  ASSUME LibuvInv, NEW s \in Spreads, NEW B, B = {x \in InHand : x = QueuerShare(s)}
  PROVE  Cardinality(QueuerRefs(s)) = Cardinality(B)
<1>1. PICK F : F = {f \in Frames : QueuerShare(s) \in Claims(At(f))}
  OBVIOUS
<1>2. QueuerRefs(s) = F \cup (IF s \in ToSet(pending) THEN {"pending"} ELSE {})
  <2>1. F = {f \in Frames : \/ At(f).pc \in {"submit", "queue"} /\ At(f).id = s
                            \/ At(f).pc = "async" /\ s \in ToSet(At(f).list)}
    BY <1>1, FramesHave, ClaimedBy
  <2> QED
    BY <2>1 DEF QueuerRefs, FramesWith, At
<1>3. IsFiniteSet(B)
  <2>1. B \subseteq {QueuerShare(s)}
    OBVIOUS
  <2> QED
    BY <2>1, FS_Singleton, FS_Subset
<1>4. CASE s \in ToSet(pending)
  <2>1. QueuerShare(s) \in Waiting
    BY <1>4, WaitingFor
  <2>2. F = {}
    BY <1>1, <2>1, FramesHave
  <2>3. B = {QueuerShare(s)}
    BY <2>1 DEF InHand, Taken
  <2>4. QueuerRefs(s) = {"pending"}
    BY <1>2, <1>4, <2>2
  <2> QED
    BY <2>3, <2>4, FS_Singleton
<1>5. CASE s \notin ToSet(pending)
  <2>1. QueuerRefs(s) = F /\ QueuerShare(s) \notin Waiting
    BY <1>2, <1>5, WaitingFor
  <2>2. PICK h : h = [f \in F |-> QueuerShare(s)]
    OBVIOUS
  <2>3. \A f, g \in F : f = g
    BY <1>1, FramesHave
  <2>4. \A x \in B : \E f \in F : h[f] = x
    BY <1>1, <2>1, <2>2, FramesHave
  <2>5. h \in [F -> B]
    BY <1>1, <2>2, FramesHave
  <2> QED
    BY <1>3, <2>1, <2>3, <2>4, <2>5, SameCount
<1> QED
  BY <1>4, <1>5

\* ... and one of every request's.
LEMMA RequestCount ==
  ASSUME LibuvInv, NEW s \in Spreads, NEW B, IsFiniteSet(B),
         B = {x \in InHand : x.kind = "request" /\ x.id = s}
  PROVE  Cardinality(RequestRefs(s)) = Cardinality(B)
<1>1. PICK F : F = {f \in Frames : At(f).pc \in {"pool", "post"} /\ At(f).work.kind = "chunk"
                                     /\ At(f).work.id = s}
  OBVIOUS
<1>2. PICK Q : Q = {w \in ToSet(poolQueue) \cup ToSet(afterQueue) : w.kind = "chunk" /\ w.id = s}
  OBVIOUS
<1>3. RequestRefs(s) = F \cup Q
  BY <1>1, <1>2 DEF RequestRefs, FramesWith, At
<1>4. ASSUME NEW f \in F
      PROVE  /\ f \in Frames /\ At(f).work = Chunk(s, At(f).work.c)
             /\ RequestShare(s, At(f).work.c) \in Claims(At(f))
  <2>1. At(f) \in Frame /\ f \in Frames
    BY <1>1, FramesHave
  <2>2. At(f).work \in Works
    BY <1>1, <2>1, Shapes, WorkShapes
  <2>3. At(f).work = Chunk(s, At(f).work.c)
    BY <1>1, <2>2, WorkShapes
  <2> QED
    BY <1>1, <2>1, <2>3, ClaimedBy
<1>5. ASSUME NEW w \in Q
      PROVE  w = Chunk(s, w.c) /\ RequestShare(s, w.c) \in Waiting
  <2>1. w \in Works
    BY <1>2, QueueSets DEF LibuvInv
  <2>2. w = Chunk(s, w.c)
    BY <1>2, <2>1, WorkShapes
  <2> QED
    BY <1>2, <2>2, WaitingFor
<1>6. F \cap Q = {}
  <2> SUFFICES ASSUME NEW w \in F, w \in Q PROVE FALSE
    OBVIOUS
  <2>1. DOMAIN w = {1, 2}
    BY <1>1, FramesHave
  <2>2. DOMAIN w = {"kind", "id", "c"}
    BY <1>5 DEF Chunk
  <2> QED
    BY <2>1, <2>2
<1>7. PICK num : num = [h \in F \cup Q |-> IF h \in Q THEN h.c ELSE At(h).work.c]
  OBVIOUS
<1>8. PICK m : m = [h \in F \cup Q |-> RequestShare(s, num[h])]
  OBVIOUS
<1>9. /\ \A f \in F : m[f] = RequestShare(s, At(f).work.c) /\ m[f] \in InHand /\ m[f] \notin Waiting
                      /\ m[f] \in Claims(At(f))
      /\ \A w \in Q : m[w] = RequestShare(s, w.c) /\ m[w] \in InHand /\ m[w] \in Waiting
  <2>1. ASSUME NEW f \in F
        PROVE  m[f] = RequestShare(s, At(f).work.c) /\ m[f] \in InHand /\ m[f] \notin Waiting
               /\ m[f] \in Claims(At(f))
    <3>1. m[f] = RequestShare(s, At(f).work.c)
      BY <1>6, <1>7, <1>8
    <3> QED
      BY <1>4, <3>1, FramesHave
  <2>2. ASSUME NEW w \in Q
        PROVE  m[w] = RequestShare(s, w.c) /\ m[w] \in InHand /\ m[w] \in Waiting
    <3>1. m[w] = RequestShare(s, w.c)
      BY <1>7, <1>8
    <3>2. m[w] \in Waiting
      BY <1>5, <3>1
    <3> QED
      BY <3>1, <3>2 DEF InHand, Taken
  <2> QED
    BY <2>1, <2>2
<1>10. m \in [F \cup Q -> B]
  <2>1. \A h \in F \cup Q : m[h] \in B
    BY <1>9, ShareShapes
  <2> QED
    BY <1>8, <2>1
<1>11. ASSUME NEW g \in F \cup Q, NEW h \in F \cup Q, m[g] = m[h]
       PROVE  g = h
  <2>1. CASE g \in F /\ h \in F
    BY <1>4, <1>9, <1>11, <2>1, FramesHave
  <2>2. CASE g \in Q /\ h \in Q
    <3>1. g.c = h.c
      BY <1>9, <1>11, <2>2, ShareShapes
    <3> QED
      BY <1>5, <2>2, <3>1
  <2> QED
    BY <1>9, <1>11, <2>1, <2>2
<1>12. ASSUME NEW x \in B
       PROVE  \E h \in F \cup Q : m[h] = x
  <2>1. x \in Shares /\ x.kind = "request" /\ x.id = s /\ x \in InHand
    BY AllShares DEF LibuvInv
  <2>2. PICK c \in Nat : x = RequestShare(s, c)
    BY <2>1, ShareShapes, WorkShapes DEF Shares
  <2>3. CASE x \in Waiting
    <3>1. Chunk(s, c) \in ToSet(poolQueue) \cup ToSet(afterQueue)
      BY <2>2, <2>3, WaitingFor
    <3>2. Chunk(s, c) \in Q
      BY <1>2, <3>1, ShareShapes
    <3> QED
      BY <1>9, <2>2, <3>2, ShareShapes
  <2>4. CASE x \notin Waiting
    <3>1. PICK f \in Frames : x \in Claims(At(f))
      BY <2>1, <2>4, FramesHave
    <3>2. At(f).pc \in {"pool", "post"} /\ At(f).work = Chunk(s, c)
      BY <2>2, <3>1, FramesHave, ClaimedBy
    <3>3. f \in F /\ At(f).work.c = c
      BY <1>1, <3>2, ShareShapes
    <3> QED
      BY <1>9, <2>2, <3>3
  <2> QED
    BY <2>3, <2>4
<1> QED
  BY SMTT(30), <1>3, <1>10, <1>11, <1>12, SameCount

\* spread_node::refs: "freed when the last reference drops: caller + queuer + one per
\* successfully queued chunk".  The count is that of those who can still touch the node,
\* whatever is claimed, cancelled, refused or run late; and when all is quiet only a node
\* is left whose notification is still to be served, or one that unbind_loop cut off.
THEOREM LibuvNodeLifetime == SafeSpec => []NodeLifetime
<1>1. ASSUME LibuvInv, NEW s \in Spreads
      PROVE  refs[s] = Cardinality(CallerRefs(s)) + Cardinality(QueuerRefs(s))
                         + Cardinality(RequestRefs(s))
  <2>1. PICK N : N = NodeShares(s)
    OBVIOUS
  <2>2. IsFiniteSet(N) /\ refs[s] = Cardinality(N)
    BY <1>1, <2>1 DEF LibuvInv, SpreadOK, RefsOK
  <2>3. PICK C : C = {x \in InHand : x = CallerShare(s)}
    OBVIOUS
  <2>4. PICK Q : Q = {x \in InHand : x = QueuerShare(s)}
    OBVIOUS
  <2>5. PICK R : R = {x \in InHand : x.kind = "request" /\ x.id = s}
    OBVIOUS
  <2>6. ASSUME NEW x \in InHand
        PROVE  /\ x.kind = "caller" /\ x.id = s <=> x = CallerShare(s)
               /\ x.kind = "queuer" /\ x.id = s <=> x = QueuerShare(s)
    <3>1. x \in Shares
      BY <1>1, AllShares DEF LibuvInv
    <3> QED
      BY <3>1, ShareShapes, WorkShapes DEF Shares
  <2>7. /\ N = (C \cup Q) \cup R /\ C \cap Q = {} /\ (C \cup Q) \cap R = {}
        /\ C \subseteq N /\ Q \subseteq N /\ R \subseteq N
    BY <2>1, <2>3, <2>4, <2>5, <2>6, ShareShapes DEF NodeShares
  <2>8. IsFiniteSet(C) /\ IsFiniteSet(Q) /\ IsFiniteSet(R)
    BY <2>2, <2>7, FS_Subset
  <2>9. PICK a, b, c : a = Cardinality(C) /\ b = Cardinality(Q) /\ c = Cardinality(R)
    OBVIOUS
  <2>10. a \in Nat /\ b \in Nat /\ c \in Nat /\ Cardinality({}) = 0
    BY <2>8, <2>9, FS_CardinalityType, FS_EmptySet
  <2>11. IsFiniteSet(C \cup Q) /\ Cardinality(C \cup Q) = a + b
    <3>1. IsFiniteSet(C \cup Q) /\ Cardinality(C \cup Q) = a + b - Cardinality({})
      BY <2>7, <2>8, <2>9, FS_Union
    <3> QED
      BY <2>10, <3>1
  <2>12. Cardinality(N) = a + b + c
    <3>1. Cardinality(N) = Cardinality(C \cup Q) + c - Cardinality({})
      BY <2>7, <2>8, <2>9, <2>11, FS_Union
    <3> QED
      BY <2>10, <2>11, <3>1
  <2>13. Cardinality(CallerRefs(s)) = a /\ Cardinality(QueuerRefs(s)) = b
         /\ Cardinality(RequestRefs(s)) = c
    BY <1>1, <2>3, <2>4, <2>5, <2>8, <2>9, CallerCount, QueuerCount, RequestCount
  <2> QED
    BY <2>2, <2>12, <2>13
<1>2. ASSUME LibuvInv, AtRest, NEW s \in Spreads, refs[s] # 0
      PROVE  s \in ToSet(pending) /\ (async \/ loop = "closed")
  <2>1. PICK x \in InHand : x.kind \in {"caller", "queuer", "request"} /\ x.id = s
    <3>1. NodeShares(s) # {}
      BY <1>2, FS_EmptySet DEF LibuvInv, SpreadOK, RefsOK
    <3> QED
      BY <3>1 DEF NodeShares
  <2>2. Frames = {} /\ ToSet(poolQueue) = {} /\ ToSet(afterQueue) = {}
    BY <1>2 DEF AtRest, Frames, ToSet
  <2>3. x \in Waiting
    BY <1>2, <2>2, FramesHave
  <2>4. PICK r \in ToSet(pending) : x = QueuerShare(r)
    BY <2>2, <2>3 DEF Waiting, SharesOf
  <2>5. s \in ToSet(pending)
    BY <2>1, <2>4, ShareShapes
  <2>6. pending # <<>>
    BY <2>5 DEF ToSet
  <2>7. ~Announced
    BY <1>2 DEF AtRest, Announced
  <2> QED
    BY <1>2, <2>5, <2>6, <2>7 DEF LibuvInv, PendingOK
<1>3. LibuvInv => NodeLifetime
  BY <1>1, <1>2 DEF NodeLifetime
<1> QED
  BY <1>3, LibuvInvariance, PTL
================================================================================
