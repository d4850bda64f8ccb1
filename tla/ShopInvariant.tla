------------------------------- MODULE ShopInvariant -------------------------------
(***************************************************************************)
(* TLAPS proof of the inductive invariant of the generic shop, for any     *)
(* pool, any callers, any numbers of items, spreads and iterations and any *)
(* depth of calls.                                                         *)
(*                                                                         *)
(* First the partition: however many iterations, workers, items in the     *)
(* shop and slices, the chunks of a spread tile its range.  Then the       *)
(* shares: who is to run which iteration, who is expected at which         *)
(* barrier, who has which item, and what the two counters count.  Every    *)
(* share is held by one frame of one stack, or by one element of one       *)
(* queue; a step passes shares on, makes new ones or lets some go, and     *)
(* what is counted follows from that.                                      *)
(***************************************************************************)
EXTENDS Shop, CountingLemmas, WellFoundedInduction

--------------------------------------------------------------------------------
(* The least element of a set of numbers, which is induction without an operator as a
   parameter: the least counterexample *)

Below == {pair \in Nat \X Nat : pair[1] < pair[2]}

LEMMA BelowIsWellFounded == IsWellFoundedOn(Below, Nat)
BY NatLessThanWellFounded DEF OpToRel, Below

LEMMA Least ==
  ASSUME NEW T \in SUBSET Nat, T # {}
  PROVE  \E m \in T : \A n \in T : m <= n
<1>1. PICK m \in T : \A n \in T : <<n, m>> \notin Below
  BY BelowIsWellFounded, WFMin
<1>2. \A n \in T : ~(n < m)
  BY <1>1 DEF Below
<1> QED
  BY <1>2

--------------------------------------------------------------------------------
(* Sequences of chunks *)

Ranges == {c \in [from : Nat, to : Nat] : c.from < c.to}

\* The iterations of a chunk, counted from 1, and those of several.
Its(c)    == (c.from + 1)..c.to
ItsOf(cs) == UNION {Its(cs[j]) : j \in DOMAIN cs}

\* No iteration is in two chunks.
Apart(cs) == \A i, j \in DOMAIN cs : i # j => Its(cs[i]) \cap Its(cs[j]) = {}

\* The chunks between the edges e[0], e[1], ..., e[m].
Rising(e, m) == /\ m \in Nat /\ e \in [0..m -> Nat]
                /\ \A i, j \in 0..m : i < j => e[i] < e[j]

Between(e, m) == [k \in 1..m |-> Chunk(e[k - 1], e[k])]

LEMMA ChunkShape ==
  ASSUME NEW a, NEW b
  PROVE  /\ Chunk(a, b).from = a /\ Chunk(a, b).to = b
         /\ Its(Chunk(a, b)) = (a + 1)..b
         /\ a \in Nat /\ b \in Nat /\ a < b => Chunk(a, b) \in Ranges
BY DEF Chunk, Its, Ranges

\* They tile what is between the first edge and the last.
LEMMA EdgesTile ==
  ASSUME NEW e, NEW m, Rising(e, m), NEW cs, cs = Between(e, m)
  PROVE  /\ cs \in Seq(Ranges) /\ Len(cs) = m /\ DOMAIN cs = 1..m
         /\ \A k \in 1..m : cs[k] = Chunk(e[k - 1], e[k]) /\ Its(cs[k]) = (e[k - 1] + 1)..e[k]
         /\ Apart(cs) /\ ItsOf(cs) = (e[0] + 1)..e[m]
<1>1. /\ m \in Nat /\ e \in [0..m -> Nat]
      /\ \A i, j \in 0..m : i < j => e[i] < e[j]
  BY DEF Rising
<1>2. ASSUME NEW k \in 1..m
      PROVE  /\ k - 1 \in 0..m /\ k \in 0..m /\ e[k - 1] \in Nat /\ e[k] \in Nat /\ e[k - 1] < e[k]
             /\ e[0] <= e[k - 1] /\ e[k] <= e[m]
  <2>1. k - 1 \in 0..m /\ k \in 0..m /\ 0 \in 0..m /\ m \in 0..m /\ k - 1 < k
    BY <1>1
  <2>2. e[k - 1] \in Nat /\ e[k] \in Nat /\ e[0] \in Nat /\ e[m] \in Nat /\ e[k - 1] < e[k]
    BY <1>1, <2>1
  <2>3. e[0] <= e[k - 1]
    <3>1. CASE k = 1
      BY <2>2, <3>1
    <3>2. CASE k # 1
      BY <1>1, <2>1, <2>2, <3>2
    <3> QED
      BY <3>1, <3>2
  <2>4. e[k] <= e[m]
    <3>1. CASE k = m
      BY <2>2, <3>1
    <3>2. CASE k # m
      BY <1>1, <2>1, <2>2, <3>2
    <3> QED
      BY <3>1, <3>2
  <2> QED
    BY <2>1, <2>2, <2>3, <2>4
<1>3. ASSUME NEW k \in 1..m
      PROVE  cs[k] = Chunk(e[k - 1], e[k]) /\ Its(cs[k]) = (e[k - 1] + 1)..e[k] /\ cs[k] \in Ranges
  BY <1>2, ChunkShape DEF Between
<1>4. cs \in Seq(Ranges) /\ Len(cs) = m /\ DOMAIN cs = 1..m
  BY <1>1, <1>3 DEF Between
<1>5. ASSUME NEW i \in 1..m, NEW j \in 1..m, i < j
      PROVE  Its(cs[i]) \cap Its(cs[j]) = {}
  <2>1. i \in 0..m /\ j - 1 \in 0..m /\ (i < j - 1 \/ i = j - 1)
    BY <1>1, <1>5
  <2>2. /\ e[i - 1] \in Nat /\ e[i] \in Nat /\ e[j - 1] \in Nat /\ e[j] \in Nat
        /\ i \in 0..m /\ j - 1 \in 0..m
    BY <1>2
  <2>3. e[i] <= e[j - 1]
    <3>1. CASE i = j - 1
      BY <2>2, <3>1
    <3>2. CASE i < j - 1
      BY <1>1, <2>2, <3>2
    <3> QED
      BY <2>1, <3>1, <3>2
  <2>4. /\ Its(cs[i]) = (e[i - 1] + 1)..e[i]
        /\ Its(cs[j]) = (e[j - 1] + 1)..e[j]
    BY <1>3
  <2> QED
    BY <2>2, <2>3, <2>4
<1>6. Apart(cs)
  <2>1. ASSUME NEW i \in 1..m, NEW j \in 1..m, i # j PROVE Its(cs[i]) \cap Its(cs[j]) = {}
    <3>1. i < j \/ j < i
      BY <2>1
    <3> QED
      BY <1>5, <3>1
  <2> QED
    BY <1>4, <2>1 DEF Apart
<1>7. ItsOf(cs) \subseteq (e[0] + 1)..e[m]
  <2>1. ASSUME NEW k \in 1..m PROVE Its(cs[k]) \subseteq (e[0] + 1)..e[m]
    <3>1. e[0] \in Nat /\ e[m] \in Nat
      BY <1>1
    <3> QED
      BY <1>2, <1>3, <3>1
  <2> QED
    BY <1>4, <2>1 DEF ItsOf
<1>8. ASSUME NEW i \in (e[0] + 1)..e[m] PROVE i \in ItsOf(cs)
  <2> DEFINE T == {k \in 0..m : i <= e[k]}
  <2>1. e[0] \in Nat /\ e[m] \in Nat /\ m \in T /\ T \in SUBSET Nat /\ i \in Nat /\ 0 \notin T
    BY <1>1, <1>8
  <2>2. PICK k \in T : \A n \in T : k <= n
    BY <2>1, Least
  <2>3. k \in 1..m /\ k - 1 \notin T /\ k - 1 \in 0..m
    BY <1>1, <2>1, <2>2
  <2>4. i \in Its(cs[k])
    BY <1>2, <1>3, <2>1, <2>2, <2>3
  <2> QED
    BY <1>4, <2>3, <2>4 DEF ItsOf
<1> QED
  BY <1>3, <1>4, <1>6, <1>7, <1>8

--------------------------------------------------------------------------------
(* The arithmetic of the plan *)

LEMMA DivMod ==
  ASSUME NEW n \in Nat, NEW d \in Nat \ {0}
  PROVE  /\ n \div d \in Nat /\ n % d \in Nat /\ n % d < d
         /\ n = d * (n \div d) + (n % d)
         /\ d <= n => n \div d >= 1
         /\ n < d => n \div d = 0
<1>1. n \div d \in Nat /\ n % d \in Nat /\ n % d < d /\ n = d * (n \div d) + (n % d)
  OBVIOUS
<1>2. n \div d = 0 => n < d
  BY <1>1
<1>3. n \div d >= 1 => d * (n \div d) >= d
  BY <1>1
<1> QED
  BY <1>1, <1>2, <1>3

\* What a plan hands out to the workers, and where that ends.
PlanStart(plan, k) == PartStart(plan.callerEnd, plan.perPart, plan.extra, k)

PlanOK(plan, n, P) ==
  /\ plan.dispatched \in 0..P /\ plan.perPart \in Nat \ {0} /\ plan.extra \in Nat
  /\ plan.callerEnd \in 0..n /\ PlanStart(plan, plan.dispatched) = n
  /\ plan.wait \in BOOLEAN /\ (plan.wait <=> plan.callerEnd = 0)

\* The parts handed out and the caller's own are n iterations together.  (A busy shop
\* without workers is left to the caller alone.)
LEMMA PlanFacts ==
  ASSUME NEW n \in Nat \ {0}, NEW cost \in Nat \ {0}, NEW P \in Nat, NEW items \in Nat,
         NEW plan, plan = Plan(n, cost, P, items)
  PROVE  PlanOK(plan, n, P) /\ (items = 0 => ~plan.wait)
<1>1. CASE items > 0 /\ P = 0
  <2>1. plan = CallerAlone(n)
    BY <1>1 DEF Plan
  <2>2. /\ plan.dispatched = 0 /\ plan.perPart = n /\ plan.extra = 0 /\ plan.callerEnd = n
        /\ plan.wait = FALSE
    BY <2>1 DEF CallerAlone
  <2>3. PlanStart(plan, 0) = n
    BY <2>2 DEF PlanStart, PartStart, Smaller
  <2>4. plan.wait \in BOOLEAN /\ ~plan.wait
    BY <2>2
  <2>5. n # 0 /\ n \in 0..n /\ 0 \in 0..P
    OBVIOUS
  <2> QED
    BY <1>1, <2>2, <2>3, <2>4, <2>5 DEF PlanOK
<1>2. CASE ~(items > 0 /\ P = 0)
  <2> DEFINE free  == Larger(0, P + 1 - items)
             parts == Smaller(Larger(1, n \div cost), IF free > 0 THEN free ELSE P)
             q     == n \div parts
             r     == n % parts
             carry == IF r > 0 THEN 1 ELSE 0
  <2>1. free \in Nat /\ free <= P + 1 /\ (free = 0 => P > 0) /\ (items = 0 => free > 0)
    BY <1>2 DEF Larger
  <2>2. n \div cost \in Nat /\ n \div cost <= n
    <3>1. n \div cost \in Nat /\ n % cost \in Nat /\ n = cost * (n \div cost) + (n % cost)
      BY DivMod
    <3>2. cost * (n \div cost) >= n \div cost
      BY <3>1
    <3> QED
      BY <3>1, <3>2
  <2>3. /\ parts \in Nat \ {0} /\ parts <= n
        /\ free > 0 => parts <= free
        /\ free = 0 => parts <= P
    <3> HIDE DEF free
    <3> QED
      BY <2>1, <2>2 DEF Larger, Smaller
  <2> HIDE DEF parts
  <2>4. q \in Nat \ {0} /\ r \in Nat /\ r < parts /\ n = parts * q + r
    BY <2>3, DivMod
  <2>5. /\ plan.dispatched = IF free > 0 THEN parts - 1 ELSE parts
        /\ plan.perPart = q
        /\ plan.extra = IF free > 0 THEN r - carry ELSE r
        /\ plan.callerEnd = IF free > 0 THEN q + carry ELSE 0
        /\ plan.wait \in BOOLEAN /\ (plan.wait <=> free = 0)
    <3>1. plan = [parts |-> parts, dispatched |-> IF free > 0 THEN parts - 1 ELSE parts,
                  perPart |-> q, extra |-> IF free > 0 THEN r - carry ELSE r,
                  callerEnd |-> IF free > 0 THEN q + carry ELSE 0, wait |-> free = 0]
      BY <1>2 DEF Plan, parts
    <3> HIDE DEF q, r, free, carry
    <3>2. PICK w : w = (free = 0)
      OBVIOUS
    <3>3. plan = [parts |-> parts, dispatched |-> IF free > 0 THEN parts - 1 ELSE parts,
                  perPart |-> q, extra |-> IF free > 0 THEN r - carry ELSE r,
                  callerEnd |-> IF free > 0 THEN q + carry ELSE 0, wait |-> w]
      BY <3>1, <3>2
    <3>4. w \in BOOLEAN /\ (w <=> free = 0)
      BY <3>2, Zenon
    <3> QED
      BY <3>3, <3>4
  <2> HIDE DEF q, r, free
  <2>6. CASE free > 0
    <3>1. PlanStart(plan, plan.dispatched) = q + carry + (parts - 1) * q + Smaller(parts - 1, r - carry)
      BY <2>5, <2>6 DEF PlanStart, PartStart
    <3>2. Smaller(parts - 1, r - carry) = r - carry /\ r - carry \in Nat /\ carry \in {0, 1}
      BY <2>3, <2>4 DEF Smaller
    <3>3. (parts - 1) * q = parts * q - q /\ parts * q \in Nat /\ parts * q >= q
      BY <2>3, <2>4
    <3>4. PlanStart(plan, plan.dispatched) = n
      <4> HIDE DEF carry
      <4> QED
        BY <2>3, <2>4, <3>1, <3>2, <3>3
    <3>5. q + carry \in 1..n
      BY <2>3, <2>4, <3>2, <3>3
    <3>6. parts - 1 \in 0..P
      BY <2>1, <2>3, <2>6
    <3>7. plan.wait = FALSE
      BY <2>1, <2>5, <2>6
    <3> QED
      BY <2>4, <2>5, <2>6, <3>2, <3>4, <3>5, <3>6, <3>7 DEF PlanOK
  <2>7. CASE free = 0
    <3>1. PlanStart(plan, plan.dispatched) = 0 + parts * q + Smaller(parts, r)
      BY <2>5, <2>7 DEF PlanStart, PartStart
    <3>2. Smaller(parts, r) = r /\ parts * q \in Nat
      BY <2>3, <2>4 DEF Smaller
    <3>3. PlanStart(plan, plan.dispatched) = n
      BY <2>3, <2>4, <3>1, <3>2
    <3>4. plan.wait = TRUE /\ plan.callerEnd = 0 /\ plan.dispatched = parts /\ plan.extra = r /\ plan.perPart = q
      BY <2>5, <2>7
    <3>5. parts \in 0..P /\ 0 \in 0..n
      BY <2>3, <2>7
    <3>6. items # 0
      BY <2>1, <2>7
    <3> QED
      BY <2>4, <3>3, <3>4, <3>5, <3>6 DEF PlanOK
  <2> QED
    BY <2>1, <2>6, <2>7
<1> QED
  BY <1>1, <1>2

\* The edges of the parts.
StartsOf(plan) == [k \in 0..plan.dispatched |-> PlanStart(plan, k)]

LEMMA StartsRise ==
  ASSUME NEW plan, NEW n \in Nat, NEW P \in Nat, PlanOK(plan, n, P)
  PROVE  /\ Rising(StartsOf(plan), plan.dispatched)
         /\ StartsOf(plan)[0] = plan.callerEnd /\ StartsOf(plan)[plan.dispatched] = n
<1> DEFINE d == plan.dispatched
           q == plan.perPart
           c == plan.callerEnd
           x == plan.extra
<1>1. d \in Nat /\ q \in Nat \ {0} /\ c \in Nat /\ x \in Nat
  BY DEF PlanOK
<1>2. \A k \in 0..d : PlanStart(plan, k) = c + k * q + Smaller(k, x)
  BY DEF PlanStart, PartStart
<1> HIDE DEF d, q, c, x
<1>3. ASSUME NEW k \in 0..d PROVE PlanStart(plan, k) \in Nat
  <2>1. k \in Nat /\ k * q \in Nat /\ Smaller(k, x) \in Nat
    BY <1>1 DEF Smaller
  <2> QED
    BY <1>1, <1>2, <2>1
<1>4. ASSUME NEW i \in 0..d, NEW j \in 0..d, i < j PROVE PlanStart(plan, i) < PlanStart(plan, j)
  <2>1. i \in Nat /\ j \in Nat /\ j - i \in Nat \ {0}
    BY <1>1, <1>4
  <2>2. j * q = i * q + (j - i) * q /\ (j - i) * q >= 1 /\ i * q \in Nat
    BY <1>1, <2>1
  <2>3. Smaller(i, x) <= Smaller(j, x) /\ Smaller(i, x) \in Nat /\ Smaller(j, x) \in Nat
    BY <1>1, <1>4, <2>1 DEF Smaller
  <2>4. (j - i) * q \in Nat /\ j * q \in Nat
    BY <1>1, <2>1
  <2> QED
    BY <1>1, <1>2, <2>2, <2>3, <2>4
<1>5. StartsOf(plan) = [k \in 0..d |-> PlanStart(plan, k)]
  BY DEF StartsOf, d
<1>6. Rising(StartsOf(plan), d)
  BY <1>1, <1>3, <1>4, <1>5 DEF Rising
<1>7. PlanStart(plan, 0) = c
  BY <1>1, <1>2 DEF Smaller
<1>8. PlanStart(plan, d) = n
  BY DEF PlanOK, d
<1> QED
  BY <1>1, <1>5, <1>6, <1>7, <1>8 DEF c, d

\* The chunks of the shared-queue path.
LEMMA BulkTiles ==
  ASSUME NEW plan, NEW n \in Nat, NEW P \in Nat, PlanOK(plan, n, P), NEW cs, cs = BulkChunks(plan)
  PROVE  /\ cs \in Seq(Ranges) /\ Len(cs) = plan.dispatched /\ DOMAIN cs = 1..plan.dispatched
         /\ \A k \in 1..plan.dispatched : Its(cs[k]) = (PlanStart(plan, k - 1) + 1)..PlanStart(plan, k)
         /\ Apart(cs) /\ ItsOf(cs) = (plan.callerEnd + 1)..n
<1> DEFINE d == plan.dispatched
<1>1. d \in Nat
  BY DEF PlanOK
<1>2. /\ Rising(StartsOf(plan), d)
      /\ StartsOf(plan)[0] = plan.callerEnd /\ StartsOf(plan)[d] = n
  BY StartsRise
<1>3. \A k \in 0..d : StartsOf(plan)[k] = PlanStart(plan, k)
  BY DEF StartsOf
<1>4. \A k \in 1..d : k - 1 \in 0..d /\ k \in 0..d
  BY <1>1
<1>5. cs = Between(StartsOf(plan), d)
  BY <1>3, <1>4 DEF Between, BulkChunks, PlanStart
<1> HIDE DEF d
<1>6. /\ cs \in Seq(Ranges) /\ Len(cs) = d /\ DOMAIN cs = 1..d
      /\ \A k \in 1..d : Its(cs[k]) = (StartsOf(plan)[k - 1] + 1)..StartsOf(plan)[k]
      /\ Apart(cs) /\ ItsOf(cs) = (StartsOf(plan)[0] + 1)..StartsOf(plan)[d]
  BY <1>2, <1>5, EdgesTile
<1> QED
  BY <1>2, <1>3, <1>4, <1>6 DEF d

\* The slices of a part.
LEMMA SlicesTile ==
  ASSUME NEW start \in Nat, NEW size \in Nat \ {0}, NEW div \in Nat \ {0},
         NEW cs, cs = SlicesOf(start, size, div)
  PROVE  /\ cs \in Seq(Ranges) /\ Len(cs) \in 1..div
         /\ Apart(cs) /\ ItsOf(cs) = (start + 1)..(start + size)
<1> DEFINE each == size \div div
           rest == size % div
           m == IF each = 0 THEN 1 ELSE div
           e == [k \in 0..m |-> IF k = 0 THEN start ELSE start + rest + k * each]
<1>1. each \in Nat /\ rest \in Nat /\ size = div * each + rest
  BY DivMod
<1>2. cs = [k \in 1..m |-> Chunk(start + (IF k = 1 THEN 0 ELSE rest + (k - 1) * each),
                                  start + rest + k * each)]
  BY DEF SlicesOf
<1> HIDE DEF each, rest
<1>3. m \in Nat \ {0} /\ m \in 1..div
  BY <1>1
<1>4. m * each + rest = size
  <2>1. CASE each = 0
    <3>1. div * each = 0 /\ m * each = 0
      BY <1>3, <2>1
    <3> QED
      BY <1>1, <3>1
  <2>2. CASE each # 0
    BY <1>1, <2>2
  <2> QED
    BY <2>1, <2>2
<1> HIDE DEF m
<1>5. ASSUME NEW k \in 0..m PROVE k * each \in Nat
  BY <1>1, <1>3
<1>6. e \in [0..m -> Nat]
  BY <1>1, <1>5
<1>7. /\ e[0] = start /\ \A k \in 1..m : k \in 0..m /\ e[k] = start + rest + k * each
  BY <1>3
<1> HIDE DEF e
<1>8. ASSUME NEW i \in 0..m, NEW j \in 0..m, i < j PROVE e[i] < e[j]
  <2>1. i \in Nat /\ j \in Nat /\ j - i \in Nat \ {0} /\ j \in 1..m
    BY <1>3, <1>8
  <2>2. j * each = i * each + (j - i) * each /\ (j - i) * each \in Nat
    BY <1>1, <2>1
  <2>3. i * each \in Nat /\ j * each \in Nat
    BY <1>5
  <2>4. e[j] = start + rest + j * each
    BY <1>7, <2>1
  <2>5. CASE i = 0
    <3>1. CASE each = 0
      <4>1. m * each = 0 /\ j * each = 0
        BY <1>3, <2>1, <3>1
      <4> QED
        BY <1>1, <1>4, <1>7, <2>4, <2>5, <4>1
    <3>2. CASE each # 0
      <4>1. j * each >= 1
        BY <1>1, <2>1, <2>5, <3>2
      <4> QED
        BY <1>1, <1>7, <2>3, <2>4, <2>5, <4>1
    <3> QED
      BY <3>1, <3>2
  <2>6. CASE i # 0
    <3>1. each # 0
      <4>1. m # 1
        BY <1>3, <1>8, <2>6
      <4> QED
        BY <4>1 DEF m
    <3>2. (j - i) * each >= 1
      BY <1>1, <2>1, <3>1
    <3>3. e[i] = start + rest + i * each
      BY <1>7, <2>6
    <3> QED
      BY <1>1, <2>2, <2>3, <2>4, <3>2, <3>3
  <2> QED
    BY <2>5, <2>6
<1>9. Rising(e, m)
  BY <1>3, <1>6, <1>8 DEF Rising
<1>10. cs = Between(e, m)
  <2>1. ASSUME NEW k \in 1..m
        PROVE  e[k - 1] = start + (IF k = 1 THEN 0 ELSE rest + (k - 1) * each)
    <3>1. k # 1 => k - 1 \in 1..m
      BY <1>3
    <3>2. k # 1 => e[k - 1] = start + rest + (k - 1) * each /\ (k - 1) * each \in Nat
      BY <1>5, <1>7, <3>1
    <3> QED
      BY <1>1, <1>7, <3>2
  <2> QED
    BY <1>2, <1>7, <2>1 DEF Between
<1>11. e[m] = start + size
  BY <1>1, <1>3, <1>4, <1>5, <1>7
<1>12. /\ cs \in Seq(Ranges) /\ Len(cs) = m /\ Apart(cs) /\ ItsOf(cs) = (e[0] + 1)..e[m]
  BY <1>9, <1>10, EdgesTile
<1> QED
  BY <1>3, <1>7, <1>11, <1>12

\* The a-th part is the a-th chunk of the other path, in no more than so many slices.
Sliced(parts, cs, a, most) ==
  Len(parts[a]) \in 1..most /\ Apart(parts[a]) /\ ItsOf(parts[a]) = Its(cs[a])

\* The parts that dispatch_workers hands out.
LEMMA PartsTile ==
  ASSUME NEW plan, NEW n \in Nat, NEW P \in Nat, PlanOK(plan, n, P), NEW most \in Nat \ {0},
         NEW parts, parts = WorkerParts(plan, n, most), NEW cs, cs = BulkChunks(plan)
  PROVE  /\ parts \in Seq(Seq(Ranges)) /\ Len(parts) = plan.dispatched
         /\ \A a \in 1..plan.dispatched : Sliced(parts, cs, a, most)
<1> DEFINE d == plan.dispatched
           used == {k \in 0..(d - 1) : \A j \in 0..k : PlanStart(plan, j) # n}
           div == SliceDiv(most, plan.perPart)
<1>1. d \in Nat /\ plan.perPart \in Nat \ {0}
  BY DEF PlanOK
<1>2. div \in 1..most
  BY <1>1 DEF SliceDiv, Smaller, Larger
<1>3. parts = [k \in {j + 1 : j \in used} |->
                 SlicesOf(PlanStart(plan, k - 1), PlanStart(plan, k) - PlanStart(plan, k - 1), div)]
  BY DEF WorkerParts, PlanStart
<1> HIDE DEF div
<1>4. /\ Rising(StartsOf(plan), d) /\ StartsOf(plan)[d] = n
      /\ \A k \in 0..d : StartsOf(plan)[k] = PlanStart(plan, k)
  BY StartsRise DEF StartsOf
<1> HIDE DEF d
<1>5. /\ \A k \in 0..d : PlanStart(plan, k) \in Nat
      /\ \A i, j \in 0..d : i < j => PlanStart(plan, i) < PlanStart(plan, j)
      /\ PlanStart(plan, d) = n
  BY <1>1, <1>4 DEF Rising
<1>6. {j + 1 : j \in used} = 1..d
  <2>1. used = 0..(d - 1)
    <3>1. ASSUME NEW k \in 0..(d - 1), NEW j \in 0..k PROVE PlanStart(plan, j) # n
      <4>1. j \in 0..d /\ d \in 0..d /\ j < d
        BY <1>1
      <4> QED
        BY <1>5, <4>1
    <3> QED
      BY <3>1
  <2>2. \A k \in 1..d : k - 1 \in 0..(d - 1) /\ (k - 1) + 1 = k
    BY <1>1
  <2>3. \A j \in 0..(d - 1) : j + 1 \in 1..d
    BY <1>1
  <2> HIDE DEF used
  <2> QED
    BY <2>1, <2>2, <2>3
<1> HIDE DEF used
<1>7. ASSUME NEW a \in 1..d
      PROVE  parts[a] \in Seq(Ranges) /\ Sliced(parts, cs, a, most)
  <2>1. a - 1 \in 0..d /\ a \in 0..d /\ a - 1 < a
    BY <1>1
  <2> DEFINE s == PlanStart(plan, a - 1)
             z == PlanStart(plan, a) - s
  <2>2. s \in Nat /\ z \in Nat \ {0} /\ s + z = PlanStart(plan, a)
    BY <1>5, <2>1
  <2>3. parts[a] = SlicesOf(s, z, div)
    BY <1>3, <1>6
  <2> HIDE DEF s, z
  <2>4. /\ parts[a] \in Seq(Ranges) /\ Len(parts[a]) \in 1..div /\ Apart(parts[a])
        /\ ItsOf(parts[a]) = (s + 1)..(s + z)
    <3>1. div \in Nat \ {0}
      BY <1>2
    <3> QED
      BY <2>2, <2>3, <3>1, SlicesTile
  <2>5. Its(cs[a]) = (PlanStart(plan, a - 1) + 1)..PlanStart(plan, a)
    BY BulkTiles DEF d
  <2>6. Len(parts[a]) \in 1..most
    BY <1>2, <2>4
  <2> QED
    BY <2>2, <2>4, <2>5, <2>6 DEF s, Sliced
<1>8. parts \in Seq(Seq(Ranges)) /\ Len(parts) = d
  <2>1. DOMAIN parts = 1..d /\ parts = [a \in 1..d |-> parts[a]]
    BY <1>3, <1>6
  <2>2. \A a \in 1..d : parts[a] \in Seq(Ranges)
    BY <1>7
  <2> QED
    BY ONLY <1>1, <2>1, <2>2
<1> QED
  BY <1>7, <1>8 DEF d

--------------------------------------------------------------------------------
(* Frames and work *)

WorkerPcs == {"own", "steal", "exit", "wait", "woken", "left", "right", "gone"}
RunPcs    == {"body", "completed"}
FirePcs   == {"target", "spill", "enqueue", "notify", "count", "track"}
PartPcs   == {"part", "part_enqueue", "part_notify"}
BulkPcs   == {"bulk_init", "bulk_enqueue", "bulk_undo"}
SpreadPcs == {"look", "alone", "bulk_wake", "own_work", "caller_steal", "join", "return"}
               \cup PartPcs \cup BulkPcs
StopPcs   == {"stop", "stop_wake", "stopped", "create"}

Chunked == {ChunkWork(s, c) : s \in Spreads, c \in Ranges}
Works   == Chunked \cup {ItemWork(i) : i \in Items}
Cuts    == Seq(Ranges) \cup Seq(Seq(Ranges))

Frame == [pc : WorkerPcs, seen : SUBSET Threads]
           \cup [pc : RunPcs, work : Works]
           \cup [pc : FirePcs, item : Items, target : Nat \cup {NoOne}, ok : BOOLEAN]
           \cup [pc : SpreadPcs, id : Spreads, chunks : Cuts, k : Nat, callerEnd : Nat,
                 wait : BOOLEAN, seen : SUBSET Threads]
           \cup [pc : StopPcs, k : Nat, then : {"stopped", "create", ""}]

--------------------------------------------------------------------------------
(* Shares: "iter" to run an iteration, "count" to arrive at the barrier, "call" to be the
   caller, "ran" to count a chunk out of the items; "todo" to queue an item, "item" to run
   it, "over" to count it out, "owed" and "track" to count it in *)

Share(kind, id, at) == [kind |-> kind, id |-> id, at |-> at]

Iters(s, J)  == {Share("iter", s, i) : i \in J}
Counts(s, E) == {Share("count", s, e) : e \in E}
Ends(cs)     == {cs[j].to : j \in DOMAIN cs}

\* The iterations of the parts from the k-th on.
Rest(cs, k) == UNION {ItsOf(cs[a]) : a \in {b \in DOMAIN cs : k <= b}}

\* The iterations that a spread has not handed out, and the chunks that it has counted
\* but not handed out.
Has(f) ==
  CASE f.pc \in {"part", "part_enqueue"}           -> 1..f.callerEnd \cup Rest(f.chunks, f.k)
    [] f.pc = "part_notify"                        -> 1..f.callerEnd \cup Rest(f.chunks, f.k + 1)
    [] f.pc \in BulkPcs                            -> 1..f.callerEnd \cup ItsOf(f.chunks)
    [] f.pc \in {"caller_steal", "join", "return"} -> {}
    [] OTHER                                       -> 1..f.callerEnd

Owes(f) ==
  CASE f.pc = "part_enqueue"                   -> Ends(f.chunks[f.k])
    [] f.pc \in {"bulk_enqueue", "bulk_undo"}  -> Ends(f.chunks)
    [] OTHER                                   -> {}

WorkShares(w) == IF w.kind = "chunk" THEN Iters(w.id, Its(w)) \cup Counts(w.id, {w.to})
                 ELSE {Share("item", w.id, 0)}
DoneShares(w) == IF w.kind = "chunk" THEN {Share("ran", w.id, w.to)} ELSE {Share("over", w.id, 0)}

FireShares(f) ==
  IF f.pc \in {"target", "spill", "enqueue"} THEN {Share("todo", f.item, 0)}
  ELSE IF ~f.ok THEN {}
  ELSE {Share("track", f.item, 0)}
         \cup IF f.pc = "track" THEN {} ELSE {Share("owed", f.item, 0)}

SpreadShares(f) == {Share("call", f.id, 0)} \cup Iters(f.id, Has(f)) \cup Counts(f.id, Owes(f))

Claims(f) == CASE f.pc = "body"       -> WorkShares(f.work)
               [] f.pc = "completed"  -> DoneShares(f.work)
               [] f.pc \in FirePcs    -> FireShares(f)
               [] f.pc \in SpreadPcs  -> SpreadShares(f)
               [] OTHER               -> {}

ClaimOf == [f \in Frame |-> Claims(f)]
WorkOf  == [w \in Works |-> WorkShares(w)]
Claimed == Holdings(Threads, ClaimOf, stack)
Queues  == Holdings(Threads, WorkOf, queue)
Waiting == Taken(Threads, Queues, {})
InHand  == Taken(Threads, Claimed, Waiting)

--------------------------------------------------------------------------------
(* The invariant *)

Typed ==
  /\ setup \in Setups /\ pool \in Nat /\ pool <= Most
  /\ stack \in [Threads -> Seq(Frame)] /\ queue \in [Threads -> Seq(Works)]
  /\ tokens \in [0..(Most - 1) -> Nat] /\ rotor \in Nat /\ brexit \in BOOLEAN
  /\ workItems \in 0..(HCRange - 1) /\ inFlight \in 0..(SizeRange - 1)
  /\ division \in DivisionMin..DivisionMax
  /\ barrier \in [Spreads -> Nat] /\ hits \in [Spreads -> Seq({0, 1})]
  /\ calls \in [Spreads -> {"new", "active", "returned"}]
  /\ firer \in [Items -> Threads \cup {NoOne}] /\ accepted \in SUBSET Items
  /\ ran \in [Items -> {0, 1}]

\* The parts that are still to be handed out, and the caller's, have no iteration twice.
PartsOK(f) ==
  /\ f.chunks \in Seq(Seq(Ranges)) /\ f.k \in 1..Len(f.chunks) /\ Len(f.chunks) <= pool
  /\ f.wait = FALSE /\ f.callerEnd # 0
  /\ \A a \in 1..Len(f.chunks) :
       /\ Len(f.chunks[a]) \in 1..DivisionMax /\ Apart(f.chunks[a])
       /\ ItsOf(f.chunks[a]) \cap 1..f.callerEnd = {}
       /\ \A b \in 1..Len(f.chunks) : a # b => ItsOf(f.chunks[a]) \cap ItsOf(f.chunks[b]) = {}

BulkOK(f) ==
  /\ f.k = 1 /\ f.chunks \in Seq(Ranges) /\ Len(f.chunks) \in 1..pool /\ Apart(f.chunks)
  /\ ItsOf(f.chunks) \cap 1..f.callerEnd = {}
  /\ 1..f.callerEnd \cup ItsOf(f.chunks) = 1..Len(hits[f.id])
  /\ f.callerEnd = 0 => f.wait

\* Nobody else is expected at the barrier.
AlonePcs == {"look", "alone"} \cup BulkPcs

\* What the barrier of a spread can have been raised to.
Raised(f) == CASE f.pc = "part"                           -> (f.k - 1) * DivisionMax
               [] f.pc \in {"part_enqueue", "part_notify"} -> f.k * DivisionMax
               [] f.pc \in {"bulk_wake", "own_work"}       -> Most * DivisionMax
               [] OTHER                                    -> Most * DivisionMax + 1

FrameOK(t, f) ==
  /\ f.pc \in FirePcs =>
       /\ pool > 0 /\ firer[f.item] = t
       /\ f.pc \in {"spill", "enqueue", "notify"} => f.target \in 0..(pool - 1)
  /\ f.pc \in SpreadPcs => f.k >= 1 /\ barrier[f.id] <= Raised(f)
  /\ f.pc \in AlonePcs => barrier[f.id] = Cardinality(Counts(f.id, Owes(f)))
  /\ f.pc \in {"look", "alone"} => f.callerEnd = Len(hits[f.id]) /\ f.callerEnd # 0
  /\ f.pc \in PartPcs => PartsOK(f)
  /\ f.pc \in BulkPcs => BulkOK(f)
  /\ f.pc \in {"bulk_wake", "own_work"} => (f.callerEnd = 0 => f.wait)
  /\ f.pc = "bulk_wake" => f.k <= pool

\* A call that is over but for its return: the caller of a recursive spread may still
\* be running it, on top.
ReturnOK(t) ==
  \A i \in 1..Len(stack[t]) : stack[t][i].pc = "return" =>
    LET s == stack[t][i].id
    IN  \/ i = Len(stack[t]) /\ barrier[s] = 0
        \/ /\ i < Len(stack[t])
           /\ LET g == stack[t][i + 1]
              IN  \/ g.pc = "completed" /\ barrier[s] = 0
                  \/ g.pc = "body" /\ ChunkOf(g.work, s) /\ barrier[s] = 1

\* A worker has its loop at the bottom of its stack, or nothing yet; only user threads
\* stop the shop, and with nothing else to do.
Fits(t, f, i, n) ==
  /\ f.pc \in WorkerPcs => i = 1 /\ t \in Workers
  /\ f.pc \in StopPcs => i = 1 /\ n = 1 /\ t \in Callers
  /\ i = 1 /\ t \notin Callers => f.pc \in WorkerPcs

StackOK(t) == \A i \in 1..Len(stack[t]) : Fits(t, stack[t][i], i, Len(stack[t]))

\* While one does, no other is inside the shop, and the workers that it has not made
\* yet have nothing.
StopOK ==
  \A t \in Callers : pc(t) \in StopPcs =>
    /\ \A c \in Callers : c # t => stack[c] = <<>>
    /\ pc(t) = "create" =>
         \A w \in Threads : w \notin Callers /\ Top(t).k <= w => stack[w] = <<>>

\* What the shares say of a spread.
SharesOK(s) ==
  /\ Share("call", s, 0) \in InHand => calls[s] = "active"
  /\ \A i : Share("iter", s, i) \in InHand =>
       calls[s] = "active" /\ i \in DOMAIN hits[s] /\ hits[s][i] = 0
  /\ \A e : Share("count", s, e) \in InHand => calls[s] = "active"
  /\ \A e : Share("ran", s, e) \in InHand => e \in DOMAIN hits[s] /\ hits[s][e] = 1

CountsOf(s) == {x \in InHand : x.kind = "count" /\ x.id = s}

\* Whoever is expected at the barrier is there to come; it may expect more, if a queue
\* has refused a part, and then for good.
BarrierOK(s) ==
  /\ Cardinality(CountsOf(s)) <= barrier[s]
  /\ "part" \notin setup.faults => barrier[s] = Cardinality(CountsOf(s))
  /\ barrier[s] = Cardinality(CountsOf(s)) =>
       \A i \in DOMAIN hits[s] : hits[s][i] = 1 \/ Share("iter", s, i) \in InHand
  /\ calls[s] = "new" => barrier[s] = 0 /\ hits[s] = <<>>
  /\ calls[s] = "returned" => \A i \in DOMAIN hits[s] : hits[s][i] = 1

\* What the shares say of an item.
ItemOK(i) ==
  /\ Share("todo", i, 0) \in InHand => /\ i \notin accepted /\ ran[i] = 0
                                       /\ \A k \in {"item", "over", "owed", "track"} :
                                            Share(k, i, 0) \notin InHand
  /\ Share("item", i, 0) \in InHand => ran[i] = 0
  /\ Share("over", i, 0) \in InHand => ran[i] = 1
  /\ Share("track", i, 0) \in InHand \/ i \in accepted => ran[i] = 1 \/ Share("item", i, 0) \in InHand
  /\ firer[i] = NoOne => /\ i \notin accepted /\ ran[i] = 0
                         /\ \A k \in {"todo", "item", "over", "owed", "track"} :
                              Share(k, i, 0) \notin InHand

OfKinds(K) == Cardinality({x \in InHand : x.kind \in K})

\* The counters wrap around; a bulk that is taken back stays counted.
CountersOK ==
  setup.faults \cap {"part", "bulk"} = {} =>
    /\ \E q \in Int : workItems = OfKinds({"item", "count", "over", "ran"}) - OfKinds({"owed"}) + q * HCRange
    /\ \E q \in Int : inFlight = OfKinds({"item"}) - OfKinds({"track"}) + q * SizeRange

ShopInv ==
  /\ Typed
  /\ IsFiniteSet(InHand)
  /\ Disjoint(Threads, Queues, {}) /\ Disjoint(Threads, Claimed, Waiting)
  /\ \A t \in Threads : \A i \in 1..Len(stack[t]) : FrameOK(t, stack[t][i])
  /\ \A t \in Threads : ReturnOK(t) /\ StackOK(t)
  /\ StopOK
  /\ \A s \in Spreads : SharesOK(s) /\ BarrierOK(s)
  /\ \A i \in Items : ItemOK(i)

--------------------------------------------------------------------------------
(* The largest pool there can be *)

LEMMA HasMax ==
  ASSUME NEW S \in SUBSET Nat, S # {}, IsFiniteSet(S)
  PROVE  \E x \in S : \A y \in S : x >= y
<1> DEFINE Bad(A) == /\ A \in SUBSET Nat /\ A # {} /\ IsFiniteSet(A)
                     /\ ~\E x \in A : \A y \in A : x >= y
           T == {k \in Nat : \E A : Bad(A) /\ Cardinality(A) = k}
<1>1. SUFFICES ASSUME Bad(S) PROVE FALSE
  OBVIOUS
<1>2. Cardinality(S) \in T
  BY <1>1, FS_CardinalityType
<1>3. PICK m \in T : \A n \in T : m <= n
  <2>1. T \in SUBSET Nat /\ T # {}
    BY <1>2
  <2> HIDE DEF T
  <2> QED
    BY <2>1, Least
<1>4. PICK A : Bad(A) /\ Cardinality(A) = m
  BY <1>3
<1>5. PICK x : x \in A
  BY <1>4
<1>6. IsFiniteSet(A \ {x}) /\ Cardinality(A \ {x}) = m - 1 /\ m \in Nat
  BY <1>3, <1>4, <1>5, FS_RemoveElement
<1>7. CASE A \ {x} = {}
  <2>1. \A y \in A : x >= y
    BY <1>4, <1>5, <1>7
  <2> QED
    BY <1>4, <1>5, <2>1
<1>8. CASE A \ {x} # {}
  <2>1. ~Bad(A \ {x})
    <3>1. SUFFICES ASSUME Bad(A \ {x}) PROVE FALSE
      OBVIOUS
    <3>2. m - 1 \in Nat
      BY <1>6, FS_CardinalityType
    <3>3. m - 1 \in T
      BY <1>6, <3>1, <3>2
    <3> HIDE DEF T
    <3> QED
      BY <1>3, <1>6, <3>3
  <2>2. PICK z \in A \ {x} : \A y \in A \ {x} : z >= y
    BY <1>4, <1>6, <1>8, <2>1
  <2>3. x \in Nat /\ z \in Nat /\ A \in SUBSET Nat
    BY <1>4, <1>5
  <2>4. \A y \in A : x >= y \/ z >= y
    BY <2>2, <2>3
  <2>5. \E v \in A : \A y \in A : v >= y
    <3>1. CASE x >= z
      <4>1. \A y \in A : x >= y
        BY <2>2, <2>3, <3>1
      <4> QED
        BY <1>5, <4>1
    <3>2. CASE z >= x
      <4>1. \A y \in A : z >= y
        BY <2>2, <2>3, <3>2
      <4> QED
        BY <4>1
    <3> QED
      BY <2>3, <3>1, <3>2
  <2> QED
    BY <1>4, <2>5
<1> QED
  BY <1>7, <1>8

LEMMA MostIs ==
  ASSUME Setups # {}
  PROVE  /\ Most \in Nat /\ \A s \in Setups : s.workers \in Nat /\ s.workers <= Most
         /\ \A n \in PoolSizes : n \in Nat /\ n <= Most
         /\ Threads = Callers \cup 0..(Most - 1) /\ Callers \subseteq Threads /\ Threads \subseteq Nat
         /\ \A t \in Threads : t \notin Callers => t < Most
         /\ \A t \in Callers : t >= Most
<1>1. PICK S : S = PoolSizes \cup {s.workers : s \in Setups}
  OBVIOUS
<1>2. \A s \in Setups : s.workers \in Nat
  BY ShopAssumption
<1>3. S \in SUBSET Nat /\ S # {} /\ IsFiniteSet(S)
  <2>1. IsFiniteSet(S)
    BY <1>1, ShopAssumption, FS_Union
  <2>2. PoolSizes \subseteq Nat
    BY ShopAssumption
  <2> QED
    BY <1>1, <1>2, <2>1, <2>2
<1>4. \E x \in S : \A y \in S : x >= y
  BY <1>3, HasMax
<1>5. Most \in S /\ \A y \in S : Most >= y
  <2>1. Most = CHOOSE x \in S : \A y \in S : x >= y
    BY <1>1 DEF Most, Max
  <2> QED
    BY <1>4, <2>1
<1>6. /\ Most \in Nat /\ \A s \in Setups : s.workers \in Nat /\ s.workers <= Most
      /\ \A n \in PoolSizes : n \in Nat /\ n <= Most
  BY <1>1, <1>2, <1>3, <1>5
<1>7. NumCallers \in Nat \ {0}
  BY ShopAssumption
<1> QED
  BY <1>6, <1>7 DEF Threads, Callers

--------------------------------------------------------------------------------
(* Frames, works and shares by their shapes *)

SpreadRec(l, s, cs, k, e, w, z) ==
  [pc |-> l, id |-> s, chunks |-> cs, k |-> k, callerEnd |-> e, wait |-> w, seen |-> z]
StealRec(l, z) == [pc |-> l, seen |-> z]
RunRec(l, w) == [pc |-> l, work |-> w]

LEMMA Kinds ==
  /\ WorkerPcs \cap RunPcs = {} /\ WorkerPcs \cap FirePcs = {} /\ WorkerPcs \cap SpreadPcs = {}
  /\ WorkerPcs \cap StopPcs = {} /\ RunPcs \cap FirePcs = {} /\ RunPcs \cap SpreadPcs = {}
  /\ RunPcs \cap StopPcs = {} /\ FirePcs \cap SpreadPcs = {} /\ FirePcs \cap StopPcs = {}
  /\ SpreadPcs \cap StopPcs = {}
  /\ \A f \in Frame : /\ f.pc \in WorkerPcs \cup RunPcs \cup FirePcs \cup SpreadPcs \cup StopPcs
                      /\ f.pc # "idle"
BY DEF Frame, WorkerPcs, RunPcs, FirePcs, SpreadPcs, StopPcs, PartPcs, BulkPcs

\* A spread's frame, and what assignments to its fields make of it.
LEMMA SpreadShape ==
  ASSUME NEW f \in Frame, f.pc \in SpreadPcs
  PROVE  /\ f.id \in Spreads /\ f.chunks \in Cuts /\ f.k \in Nat /\ f.callerEnd \in Nat
         /\ f.wait \in BOOLEAN /\ f.seen \in SUBSET Threads
         /\ \A l : [f EXCEPT !.pc = l] = SpreadRec(l, f.id, f.chunks, f.k, f.callerEnd, f.wait, f.seen)
         /\ \A k : [f EXCEPT !.k = k] = SpreadRec(f.pc, f.id, f.chunks, k, f.callerEnd, f.wait, f.seen)
         /\ \A z : [f EXCEPT !.seen = z] = SpreadRec(f.pc, f.id, f.chunks, f.k, f.callerEnd, f.wait, z)
         /\ \A l, k : [f EXCEPT !.pc = l, !.k = k]
                        = SpreadRec(l, f.id, f.chunks, k, f.callerEnd, f.wait, f.seen)
         /\ \A l, e : [f EXCEPT !.pc = l, !.callerEnd = e]
                        = SpreadRec(l, f.id, f.chunks, f.k, e, f.wait, f.seen)
         /\ \A l, z : [f EXCEPT !.seen = z, !.pc = l]
                        = SpreadRec(l, f.id, f.chunks, f.k, f.callerEnd, f.wait, z)
<1>1. f \in [pc : SpreadPcs, id : Spreads, chunks : Cuts, k : Nat, callerEnd : Nat,
             wait : BOOLEAN, seen : SUBSET Threads]
  BY Kinds DEF Frame
<1>2. /\ f.id \in Spreads /\ f.chunks \in Cuts /\ f.k \in Nat /\ f.callerEnd \in Nat
      /\ f.wait \in BOOLEAN /\ f.seen \in SUBSET Threads
  BY <1>1
<1>3. DOMAIN f = {"pc", "id", "chunks", "k", "callerEnd", "wait", "seen"}
  BY <1>1
<1>4. f = SpreadRec(f.pc, f.id, f.chunks, f.k, f.callerEnd, f.wait, f.seen)
  BY <1>1 DEF SpreadRec
<1>5. /\ \A l : [f EXCEPT !.pc = l] = SpreadRec(l, f.id, f.chunks, f.k, f.callerEnd, f.wait, f.seen)
      /\ \A k : [f EXCEPT !.k = k] = SpreadRec(f.pc, f.id, f.chunks, k, f.callerEnd, f.wait, f.seen)
      /\ \A z : [f EXCEPT !.seen = z] = SpreadRec(f.pc, f.id, f.chunks, f.k, f.callerEnd, f.wait, z)
  BY <1>4 DEF SpreadRec
<1>6. \A l, k : [f EXCEPT !.pc = l, !.k = k]
                  = SpreadRec(l, f.id, f.chunks, k, f.callerEnd, f.wait, f.seen)
  <2> TAKE l, k
  <2>1. [f EXCEPT !.pc = l, !.k = k] = [x \in DOMAIN f |-> IF x = "k" THEN k ELSE IF x = "pc" THEN l ELSE f[x]]
    OBVIOUS
  <2> QED
    BY <1>3, <2>1 DEF SpreadRec
<1>7. \A l, e : [f EXCEPT !.pc = l, !.callerEnd = e]
                  = SpreadRec(l, f.id, f.chunks, f.k, e, f.wait, f.seen)
  <2> TAKE l, e
  <2>1. [f EXCEPT !.pc = l, !.callerEnd = e]
          = [x \in DOMAIN f |-> IF x = "callerEnd" THEN e ELSE IF x = "pc" THEN l ELSE f[x]]
    OBVIOUS
  <2> QED
    BY <1>3, <2>1 DEF SpreadRec
<1>8. \A l, z : [f EXCEPT !.seen = z, !.pc = l]
                  = SpreadRec(l, f.id, f.chunks, f.k, f.callerEnd, f.wait, z)
  <2> TAKE l, z
  <2>1. [f EXCEPT !.seen = z, !.pc = l]
          = [x \in DOMAIN f |-> IF x = "pc" THEN l ELSE IF x = "seen" THEN z ELSE f[x]]
    OBVIOUS
  <2> QED
    BY <1>3, <2>1 DEF SpreadRec
<1> QED
  BY <1>2, <1>5, <1>6, <1>7, <1>8

LEMMA SpreadFields ==
  ASSUME NEW l, NEW s, NEW cs, NEW k, NEW e, NEW w, NEW z,
         NEW r, r = SpreadRec(l, s, cs, k, e, w, z)
  PROVE  /\ r.pc = l /\ r.id = s /\ r.chunks = cs /\ r.k = k /\ r.callerEnd = e /\ r.wait = w /\ r.seen = z
         /\ l \in SpreadPcs /\ s \in Spreads /\ cs \in Cuts /\ k \in Nat /\ e \in Nat
              /\ w \in BOOLEAN /\ z \in SUBSET Threads => r \in Frame
BY DEF SpreadRec, Frame

LEMMA RunShape ==
  ASSUME NEW f \in Frame, f.pc \in RunPcs
  PROVE  f.work \in Works /\ \A l : [f EXCEPT !.pc = l] = RunRec(l, f.work)
<1>1. f \in [pc : RunPcs, work : Works]
  BY Kinds DEF Frame
<1>2. f = RunRec(f.pc, f.work) /\ f.work \in Works
  BY <1>1 DEF RunRec
<1>3. \A l : [f EXCEPT !.pc = l] = RunRec(l, f.work)
  BY <1>2 DEF RunRec
<1> QED
  BY <1>2, <1>3

LEMMA RunFields ==
  ASSUME NEW l, NEW w, NEW r, r = RunRec(l, w)
  PROVE  /\ r.pc = l /\ r.work = w
         /\ l \in RunPcs /\ w \in Works => r \in Frame
         /\ RunFrame(w) = RunRec("body", w)
BY DEF RunRec, RunFrame, Frame

LEMMA FireShape ==
  ASSUME NEW f \in Frame, f.pc \in FirePcs
  PROVE  /\ f.item \in Items /\ f.target \in Nat \cup {NoOne} /\ f.ok \in BOOLEAN
         /\ \A l : [f EXCEPT !.pc = l] = FireFrame(l, f.item, f.target, f.ok)
<1>1. f \in [pc : FirePcs, item : Items, target : Nat \cup {NoOne}, ok : BOOLEAN]
  BY Kinds DEF Frame
<1>2. f = FireFrame(f.pc, f.item, f.target, f.ok)
  BY <1>1 DEF FireFrame
<1>3. f.item \in Items /\ f.target \in Nat \cup {NoOne} /\ f.ok \in BOOLEAN
  BY <1>1
<1>4. \A l : [f EXCEPT !.pc = l] = FireFrame(l, f.item, f.target, f.ok)
  BY <1>2 DEF FireFrame
<1> QED
  BY <1>3, <1>4

LEMMA WorkerShape ==
  ASSUME NEW f \in Frame, f.pc \in WorkerPcs
  PROVE  /\ f.seen \in SUBSET Threads
         /\ \A l : [f EXCEPT !.pc = l] = StealRec(l, f.seen)
         /\ \A z : [f EXCEPT !.seen = z] = StealRec(f.pc, z)
         /\ \A l, z : [f EXCEPT !.seen = z, !.pc = l] = StealRec(l, z)
<1>1. f \in [pc : WorkerPcs, seen : SUBSET Threads]
  BY Kinds DEF Frame
<1>2. f = StealRec(f.pc, f.seen) /\ f.seen \in SUBSET Threads /\ DOMAIN f = {"pc", "seen"}
  BY <1>1 DEF StealRec
<1>3. \A l : [f EXCEPT !.pc = l] = StealRec(l, f.seen)
  BY <1>2 DEF StealRec
<1>4. \A z : [f EXCEPT !.seen = z] = StealRec(f.pc, z)
  BY <1>2 DEF StealRec
<1>5. \A l, z : [f EXCEPT !.seen = z, !.pc = l] = StealRec(l, z)
  <2> TAKE l, z
  <2>1. [f EXCEPT !.seen = z, !.pc = l]
          = [x \in DOMAIN f |-> IF x = "pc" THEN l ELSE IF x = "seen" THEN z ELSE f[x]]
    OBVIOUS
  <2> QED
    BY <1>2, <2>1 DEF StealRec
<1> QED
  BY <1>2, <1>3, <1>4, <1>5

LEMMA WorkerFields ==
  ASSUME NEW l, NEW z, NEW r, r = StealRec(l, z)
  PROVE  /\ r.pc = l /\ r.seen = z
         /\ l \in WorkerPcs /\ z \in SUBSET Threads => r \in Frame
         /\ WorkerFrame(l) = StealRec(l, {})
BY DEF StealRec, WorkerFrame, Frame

LEMMA WorkShape ==
  /\ \A w \in Works : \/ /\ w.kind = "chunk" /\ w.id \in Spreads /\ w.from \in Nat /\ w.to \in Nat
                         /\ w.from < w.to
                      \/ w.kind = "item" /\ w.id \in Items
  /\ \A s \in Spreads, c \in Ranges : ChunkWork(s, c) \in Works
  /\ \A s, c : LET w == ChunkWork(s, c)
               IN  /\ w.kind = "chunk" /\ w.id = s /\ w.from = c.from /\ w.to = c.to
                   /\ Its(w) = Its(c)
                   /\ WorkShares(w) = Iters(s, Its(c)) \cup Counts(s, {c.to})
  /\ \A i \in Items : ItemWork(i) \in Works
  /\ \A i : /\ ItemWork(i).kind = "item" /\ ItemWork(i).id = i
            /\ WorkShares(ItemWork(i)) = {Share("item", i, 0)}
<1>1. \A s, c : LET w == ChunkWork(s, c)
                IN  /\ w.kind = "chunk" /\ w.id = s /\ w.from = c.from /\ w.to = c.to
                    /\ Its(w) = Its(c)
                    /\ WorkShares(w) = Iters(s, Its(c)) \cup Counts(s, {c.to})
  BY DEF ChunkWork, Its, WorkShares
<1>2. \A i : /\ ItemWork(i).kind = "item" /\ ItemWork(i).id = i
             /\ WorkShares(ItemWork(i)) = {Share("item", i, 0)}
  BY DEF ItemWork, WorkShares
<1>3. ASSUME NEW w \in Works
      PROVE  \/ /\ w.kind = "chunk" /\ w.id \in Spreads /\ w.from \in Nat /\ w.to \in Nat
                /\ w.from < w.to
             \/ w.kind = "item" /\ w.id \in Items
  <2>1. CASE w \in Chunked
    <3>1. PICK s \in Spreads : \E c \in Ranges : w = ChunkWork(s, c)
      BY <2>1 DEF Chunked
    <3>2. PICK c \in Ranges : w = ChunkWork(s, c)
      BY <3>1
    <3>3. w.kind = "chunk" /\ w.id = s /\ w.from = c.from /\ w.to = c.to
      BY <3>2 DEF ChunkWork
    <3>4. c.from \in Nat /\ c.to \in Nat /\ c.from < c.to
      BY DEF Ranges
    <3> QED
      BY <3>3, <3>4
  <2>2. CASE w \notin Chunked
    BY <1>3, <2>2 DEF Works, ItemWork
  <2> QED
    BY <2>1, <2>2
<1>4. /\ \A s \in Spreads, c \in Ranges : ChunkWork(s, c) \in Works
      /\ \A i \in Items : ItemWork(i) \in Works
  BY DEF Works, Chunked
<1> QED
  BY <1>1, <1>2, <1>3, <1>4

LEMMA ShareFields ==
  \A k, s, i : Share(k, s, i).kind = k /\ Share(k, s, i).id = s /\ Share(k, s, i).at = i
BY DEF Share

LEMMA ClaimsAt ==
  ASSUME NEW f
  PROVE  /\ f.pc = "body" => Claims(f) = WorkShares(f.work)
         /\ f.pc = "completed" => Claims(f) = DoneShares(f.work)
         /\ f.pc \in {"target", "spill", "enqueue"} => Claims(f) = {Share("todo", f.item, 0)}
         /\ f.pc \in {"notify", "count", "track"} /\ ~f.ok => Claims(f) = {}
         /\ f.pc \in {"notify", "count"} /\ f.ok
              => Claims(f) = {Share("track", f.item, 0), Share("owed", f.item, 0)}
         /\ f.pc = "track" /\ f.ok => Claims(f) = {Share("track", f.item, 0)}
         /\ f.pc \in SpreadPcs => Claims(f) = SpreadShares(f)
         /\ f.pc \in WorkerPcs \cup StopPcs => Claims(f) = {}
<1>1. /\ f.pc = "body" => Claims(f) = WorkShares(f.work)
      /\ f.pc = "completed" => Claims(f) = DoneShares(f.work)
  BY DEF Claims, FirePcs, SpreadPcs, PartPcs, BulkPcs
<1>2. f.pc \in FirePcs => Claims(f) = FireShares(f)
  BY DEF Claims, FirePcs, SpreadPcs, PartPcs, BulkPcs
<1> HIDE DEF WorkerPcs, FirePcs, SpreadPcs, StopPcs
<1>3. "body" \in RunPcs /\ "completed" \in RunPcs
  BY DEF RunPcs
<1>4. f.pc \in SpreadPcs => /\ f.pc # "body" /\ f.pc # "completed" /\ f.pc \notin FirePcs
  BY <1>3, Kinds
<1>5. f.pc \in WorkerPcs \cup StopPcs => /\ f.pc # "body" /\ f.pc # "completed" /\ f.pc \notin FirePcs
                                         /\ f.pc \notin SpreadPcs
  BY <1>3, Kinds
<1>6. f.pc \in SpreadPcs => Claims(f) = SpreadShares(f)
  BY <1>4 DEF Claims
<1>7. f.pc \in WorkerPcs \cup StopPcs => Claims(f) = {}
  BY <1>5 DEF Claims
<1> QED
  BY <1>1, <1>2, <1>6, <1>7 DEF FirePcs, FireShares

LEMMA HasAt ==
  ASSUME NEW f
  PROVE  /\ f.pc \in {"look", "alone", "bulk_wake", "own_work"} => Has(f) = 1..f.callerEnd /\ Owes(f) = {}
         /\ f.pc \in {"caller_steal", "join", "return"} => Has(f) = {} /\ Owes(f) = {}
         /\ f.pc = "part" => Has(f) = 1..f.callerEnd \cup Rest(f.chunks, f.k) /\ Owes(f) = {}
         /\ f.pc = "part_enqueue" => /\ Has(f) = 1..f.callerEnd \cup Rest(f.chunks, f.k)
                                     /\ Owes(f) = Ends(f.chunks[f.k])
         /\ f.pc = "part_notify" => Has(f) = 1..f.callerEnd \cup Rest(f.chunks, f.k + 1) /\ Owes(f) = {}
         /\ f.pc = "bulk_init" => Has(f) = 1..f.callerEnd \cup ItsOf(f.chunks) /\ Owes(f) = {}
         /\ f.pc \in {"bulk_enqueue", "bulk_undo"} => /\ Has(f) = 1..f.callerEnd \cup ItsOf(f.chunks)
                                                      /\ Owes(f) = Ends(f.chunks)
BY DEF Has, Owes, BulkPcs

--------------------------------------------------------------------------------
(* The queues *)

\* The head of p's goes ...
HeadGone(T, p, C, D, n) ==
  /\ DOMAIN C[p] = 1..n /\ DOMAIN D[p] = 1..(n - 1)
  /\ \A i \in 1..(n - 1) : D[p][i] = C[p][i + 1]
  /\ \A u \in T \ {p} : D[u] = C[u]

LEMMA HeadGoes ==
  ASSUME NEW T, NEW p \in T, NEW C, NEW D, NEW n \in Nat \ {0},
         HeadGone(T, p, C, D, n), Disjoint(T, C, {})
  PROVE  /\ Disjoint(T, D, {}) /\ C[p][1] \cap Taken(T, D, {}) = {}
         /\ Taken(T, C, {}) = Taken(T, D, {}) \cup C[p][1]
<1> USE DEF HeadGone
<1>1. 1 \in DOMAIN C[p] /\ \A i \in 1..(n - 1) : i + 1 \in DOMAIN C[p] /\ i + 1 # 1
  OBVIOUS
<1>2. \A i \in 1..n : i = 1 \/ (i - 1 \in 1..(n - 1) /\ (i - 1) + 1 = i)
  OBVIOUS
<1>3. ASSUME NEW u \in T, NEW i \in DOMAIN D[u]
      PROVE  \E k \in DOMAIN C[u] : /\ D[u][i] = C[u][k] /\ (u = p => k = i + 1 /\ k # 1)
                                    /\ (u # p => k = i)
  <2>1. CASE u = p
    BY <1>1, <1>3, <2>1
  <2>2. CASE u # p
    BY <1>3, <2>2
  <2> QED
    BY <2>1, <2>2
<1>4. ASSUME NEW u \in T, NEW v \in T, NEW i \in DOMAIN D[u], NEW j \in DOMAIN D[v],
             u # v \/ i # j
      PROVE  D[u][i] \cap D[v][j] = {}
  <2>1. PICK k \in DOMAIN C[u] : /\ D[u][i] = C[u][k] /\ (u = p => k = i + 1 /\ k # 1)
                                 /\ (u # p => k = i)
    BY <1>3
  <2>2. PICK l \in DOMAIN C[v] : /\ D[v][j] = C[v][l] /\ (v = p => l = j + 1 /\ l # 1)
                                 /\ (v # p => l = j)
    BY <1>3
  <2>3. u # v \/ k # l
    <3>1. CASE u = v /\ u = p
      <4>1. i \in 1..(n - 1) /\ j \in 1..(n - 1) /\ i # j
        BY <1>4, <3>1
      <4> QED
        BY <2>1, <2>2, <3>1, <4>1
    <3>2. CASE u = v /\ u # p
      BY <1>4, <2>1, <2>2, <3>2
    <3> QED
      BY <3>1, <3>2
  <2>4. C[u][k] \cap C[v][l] = {}
    BY <2>3 DEF Disjoint
  <2> QED
    BY <2>1, <2>2, <2>4
<1>5. Disjoint(T, D, {})
  BY <1>4 DEF Disjoint
<1>6. ASSUME NEW u \in T, NEW i \in DOMAIN D[u] PROVE C[p][1] \cap D[u][i] = {}
  <2>1. PICK k \in DOMAIN C[u] : /\ D[u][i] = C[u][k] /\ (u = p => k = i + 1 /\ k # 1)
                                 /\ (u # p => k = i)
    BY <1>3
  <2>2. C[p][1] \cap C[u][k] = {}
    BY <1>1, <2>1 DEF Disjoint
  <2> QED
    BY <2>1, <2>2
<1>7. \A x : x \in Taken(T, D, {}) <=> \E u \in T : \E i \in DOMAIN D[u] : x \in D[u][i]
  BY DEF Taken
<1>8. \A x : x \in Taken(T, C, {}) <=> \E u \in T : \E i \in DOMAIN C[u] : x \in C[u][i]
  BY DEF Taken
<1>9. C[p][1] \cap Taken(T, D, {}) = {}
  BY <1>6, <1>7
<1>10. ASSUME NEW x \in Taken(T, D, {}) PROVE x \in Taken(T, C, {})
  <2>0. PICK u \in T : \E i \in DOMAIN D[u] : x \in D[u][i]
    BY <1>7
  <2>1. PICK i \in DOMAIN D[u] : x \in D[u][i]
    BY <2>0
  <2>2. PICK k \in DOMAIN C[u] : D[u][i] = C[u][k]
    BY <1>3
  <2> QED
    BY <1>8, <2>1, <2>2
<1>11. C[p][1] \subseteq Taken(T, C, {})
  BY <1>1, <1>8
<1>12. ASSUME NEW x \in Taken(T, C, {}) PROVE x \in Taken(T, D, {}) \cup C[p][1]
  <2>0. PICK u \in T : \E k \in DOMAIN C[u] : x \in C[u][k]
    BY <1>8
  <2>1. PICK k \in DOMAIN C[u] : x \in C[u][k]
    BY <2>0
  <2>2. CASE u # p
    BY <1>7, <2>1, <2>2
  <2>3. CASE u = p /\ k # 1
    <3>1. k - 1 \in DOMAIN D[u] /\ D[u][k - 1] = C[u][k]
      BY <1>2, <2>1, <2>3
    <3> QED
      BY <1>7, <2>1, <3>1
  <2> QED
    BY <2>1, <2>2, <2>3
<1> QED
  BY <1>5, <1>9, <1>10, <1>11, <1>12

\* ... or the parts of W come behind its tail.
TailCame(T, p, C, D, n, m, W) ==
  /\ DOMAIN C[p] = 1..n /\ DOMAIN D[p] = 1..(n + m)
  /\ \A i \in 1..n : D[p][i] = C[p][i]
  /\ \A i \in 1..m : D[p][n + i] = W[i]
  /\ \A u \in T \ {p} : D[u] = C[u]
  /\ \A i, j \in 1..m : i # j => W[i] \cap W[j] = {}
  /\ \A i \in 1..m : W[i] \cap Taken(T, C, {}) = {}

LEMMA TailComes ==
  ASSUME NEW T, NEW p \in T, NEW C, NEW D, NEW n \in Nat, NEW m \in Nat, NEW W,
         TailCame(T, p, C, D, n, m, W), Disjoint(T, C, {})
  PROVE  /\ Disjoint(T, D, {})
         /\ Taken(T, D, {}) = Taken(T, C, {}) \cup UNION {W[i] : i \in 1..m}
<1> USE DEF TailCame
<1>1. /\ \A i \in 1..n : i \in DOMAIN D[p]
      /\ \A i \in 1..m : n + i \in DOMAIN D[p]
      /\ \A i \in 1..(n + m) : i \in 1..n \/ (i - n \in 1..m /\ n + (i - n) = i)
  OBVIOUS
<1> DEFINE Old(u, i) == i \in DOMAIN C[u] /\ D[u][i] = C[u][i]
           New(u, i) == u = p /\ i \in 1..(n + m) /\ i - n \in 1..m /\ D[u][i] = W[i - n]
<1>2. ASSUME NEW u \in T, NEW i \in DOMAIN D[u] PROVE Old(u, i) \/ New(u, i)
  <2>1. CASE u # p
    BY <1>2, <2>1
  <2>2. CASE u = p /\ i \in 1..n
    BY <2>2
  <2>3. CASE u = p /\ i \notin 1..n
    <3>1. i - n \in 1..m /\ n + (i - n) = i
      BY <1>1, <1>2, <2>3
    <3> QED
      BY <1>2, <2>3, <3>1
  <2> QED
    BY <2>1, <2>2, <2>3
<1>3. ASSUME NEW u \in T, NEW i \in DOMAIN C[u] PROVE i \in DOMAIN D[u] /\ D[u][i] = C[u][i]
  <2>1. CASE u # p
    BY <1>3, <2>1
  <2>2. CASE u = p
    BY <1>1, <1>3, <2>2
  <2> QED
    BY <2>1, <2>2
<1>4. \A x : x \in Taken(T, D, {}) <=> \E u \in T : \E i \in DOMAIN D[u] : x \in D[u][i]
  BY DEF Taken
<1>5. \A x : x \in Taken(T, C, {}) <=> \E u \in T : \E i \in DOMAIN C[u] : x \in C[u][i]
  BY DEF Taken
<1>6. ASSUME NEW u \in T, NEW i \in DOMAIN C[u], NEW j \in 1..m
      PROVE  C[u][i] \cap W[j] = {}
  BY <1>5
<1>7. ASSUME NEW u \in T, NEW v \in T, NEW i \in DOMAIN D[u], NEW j \in DOMAIN D[v],
             u # v \/ i # j
      PROVE  D[u][i] \cap D[v][j] = {}
  <2>1. CASE Old(u, i) /\ Old(v, j)
    BY <1>7, <2>1 DEF Disjoint
  <2>2. CASE Old(u, i) /\ New(v, j)
    BY <1>6, <2>2
  <2>3. CASE New(u, i) /\ Old(v, j)
    BY <1>6, <2>3
  <2>4. CASE New(u, i) /\ New(v, j)
    <3>1. i - n # j - n
      BY <1>7, <2>4
    <3> QED
      BY <2>4, <3>1
  <2> QED
    BY <1>2, <2>1, <2>2, <2>3, <2>4
<1>8. Disjoint(T, D, {})
  BY <1>7 DEF Disjoint
<1>9. ASSUME NEW x \in Taken(T, D, {})
      PROVE  x \in Taken(T, C, {}) \/ \E j \in 1..m : x \in W[j]
  <2>0. PICK u \in T : \E i \in DOMAIN D[u] : x \in D[u][i]
    BY <1>4
  <2>1. PICK i \in DOMAIN D[u] : x \in D[u][i]
    BY <2>0
  <2>2. CASE Old(u, i)
    BY <1>5, <2>1, <2>2
  <2>3. CASE New(u, i)
    BY <2>1, <2>3
  <2> QED
    BY <1>2, <2>2, <2>3
<1>10. ASSUME NEW x \in Taken(T, C, {}) PROVE x \in Taken(T, D, {})
  <2>0. PICK u \in T : \E i \in DOMAIN C[u] : x \in C[u][i]
    BY <1>5
  <2>1. PICK i \in DOMAIN C[u] : x \in C[u][i]
    BY <2>0
  <2>2. i \in DOMAIN D[u] /\ D[u][i] = C[u][i]
    BY <1>3
  <2> QED
    BY <1>4, <2>1, <2>2
<1>11. ASSUME NEW j \in 1..m, NEW x \in W[j] PROVE x \in Taken(T, D, {})
  <2>1. n + j \in DOMAIN D[p] /\ D[p][n + j] = W[j]
    BY <1>1
  <2> QED
    BY <1>4, <2>1
<1> QED
  BY <1>8, <1>9, <1>10, <1>11

Held(C, q)         == C = Holdings(Threads, WorkOf, q)
Drops(q, p, r)     == r = [q EXCEPT ![p] = Tail(@)]
Adds(q, p, ws, r)  == r = [q EXCEPT ![p] = @ \o ws]

LEMMA QueueHolds ==
  ASSUME NEW q, q \in [Threads -> Seq(Works)], NEW C, Held(C, q), NEW t \in Threads
  PROVE  /\ Len(q[t]) \in Nat /\ DOMAIN C[t] = 1..Len(q[t])
         /\ \A j \in 1..Len(q[t]) : q[t][j] \in Works /\ C[t][j] = WorkShares(q[t][j])
<1>1. q[t] \in Seq(Works) /\ C[t] = [i \in 1..Len(q[t]) |-> WorkOf[q[t][i]]]
  BY DEF Held, Holdings
<1>2. \A j \in 1..Len(q[t]) : q[t][j] \in Works
  BY <1>1, ElementOfSeq
<1> QED
  BY <1>1, <1>2 DEF WorkOf

LEMMA QueueOther ==
  ASSUME NEW q, NEW r, NEW u \in Threads, r[u] = q[u],
         NEW C, Held(C, q), NEW D, Held(D, r)
  PROVE  D[u] = C[u]
BY DEF Held, Holdings

\* The head of a queue is taken.
LEMMA QueueGives ==
  ASSUME NEW q, q \in [Threads -> Seq(Works)], NEW p \in Threads, q[p] # <<>>,
         NEW r, Drops(q, p, r), NEW w, w = Head(q[p]),
         NEW C, Held(C, q), NEW D, Held(D, r),
         Disjoint(Threads, C, {})
  PROVE  /\ w \in Works /\ r \in [Threads -> Seq(Works)] /\ Disjoint(Threads, D, {})
         /\ WorkShares(w) \cap Taken(Threads, D, {}) = {}
         /\ Taken(Threads, C, {}) = Taken(Threads, D, {}) \cup WorkShares(w)
<1>1. PICK s, n : s = q[p] /\ n = Len(s)
  OBVIOUS
<1>2. s \in Seq(Works) /\ s # <<>> /\ n \in Nat \ {0}
  BY <1>1
<1>3. /\ Tail(s) \in Seq(Works) /\ Len(Tail(s)) = n - 1 /\ w = s[1]
      /\ \A i \in 1..(n - 1) : Tail(s)[i] = s[i + 1]
  BY <1>1, <1>2, HeadTailProperties
<1>4. r[p] = Tail(s) /\ (\A u \in Threads : u # p => r[u] = q[u]) /\ r = [q EXCEPT ![p] = Tail(s)]
  BY <1>1 DEF Drops
<1>5. r \in [Threads -> Seq(Works)]
  BY <1>3, <1>4
<1>6. DOMAIN C[p] = 1..n /\ \A j \in 1..n : s[j] \in Works /\ C[p][j] = WorkShares(s[j])
  <2>1. /\ DOMAIN C[p] = 1..Len(q[p])
        /\ \A j \in 1..Len(q[p]) : q[p][j] \in Works /\ C[p][j] = WorkShares(q[p][j])
    BY QueueHolds
  <2> QED
    BY <1>1, <2>1
<1>7. DOMAIN D[p] = 1..(n - 1) /\ \A j \in 1..(n - 1) : D[p][j] = WorkShares(Tail(s)[j])
  <2>1. /\ DOMAIN D[p] = 1..Len(r[p])
        /\ \A j \in 1..Len(r[p]) : r[p][j] \in Works /\ D[p][j] = WorkShares(r[p][j])
    BY <1>5, QueueHolds
  <2> QED
    BY <1>3, <1>4, <2>1
<1>8. \A i \in 1..(n - 1) : i + 1 \in 1..n
  BY <1>2
<1>9. \A i \in 1..(n - 1) : D[p][i] = C[p][i + 1]
  BY <1>3, <1>6, <1>7, <1>8
<1>10. ASSUME NEW u \in Threads \ {p} PROVE D[u] = C[u]
  <2>1. r[u] = q[u]
    BY <1>4
  <2> QED
    BY <2>1, QueueOther
<1>11. w \in Works /\ C[p][1] = WorkShares(w)
  BY <1>2, <1>3, <1>6
<1>12. /\ Disjoint(Threads, D, {}) /\ C[p][1] \cap Taken(Threads, D, {}) = {}
       /\ Taken(Threads, C, {}) = Taken(Threads, D, {}) \cup C[p][1]
  <2>1. HeadGone(Threads, p, C, D, n)
    BY <1>6, <1>7, <1>9, <1>10 DEF HeadGone
  <2> QED
    BY <1>2, <2>1, HeadGoes
<1> QED
  BY <1>5, <1>11, <1>12

\* Works are put behind a queue.
AllShares(ws) == UNION {WorkShares(ws[j]) : j \in 1..Len(ws)}

Separate(ws) == \A i, j \in 1..Len(ws) : i # j => WorkShares(ws[i]) \cap WorkShares(ws[j]) = {}

LEMMA Behind ==
  ASSUME NEW q, q \in [Threads -> Seq(Works)], NEW p \in Threads, NEW ws, ws \in Seq(Works),
         NEW r, Adds(q, p, ws, r)
  PROVE  /\ r \in [Threads -> Seq(Works)] /\ r[p] \in Seq(Works)
         /\ Len(q[p]) \in Nat /\ Len(ws) \in Nat /\ Len(r[p]) = Len(q[p]) + Len(ws)
         /\ \A i \in 1..Len(q[p]) : r[p][i] = q[p][i]
         /\ \A i \in 1..Len(ws) : r[p][Len(q[p]) + i] = ws[i]
         /\ \A u \in Threads : u # p => r[u] = q[u]
<1>1. PICK s, n, m : s = q[p] /\ n = Len(s) /\ m = Len(ws)
  OBVIOUS
<1>2. s \in Seq(Works) /\ n \in Nat /\ m \in Nat
  BY <1>1
<1>3. PICK sw : sw = s \o ws
  OBVIOUS
<1>4. /\ sw \in Seq(Works) /\ Len(sw) = n + m
      /\ \A i \in 1..n : sw[i] = s[i]
      /\ \A i \in 1..m : sw[n + i] = ws[i]
  <2>1. /\ sw \in Seq(Works) /\ Len(sw) = n + m
        /\ \A i \in 1..(n + m) : sw[i] = IF i <= n THEN s[i] ELSE ws[i - n]
    BY <1>1, <1>2, <1>3, ConcatProperties
  <2>2. \A i \in 1..n : i \in 1..(n + m) /\ i <= n
    BY <1>2
  <2>3. \A i \in 1..m : n + i \in 1..(n + m) /\ ~(n + i <= n) /\ (n + i) - n = i
    BY <1>2
  <2> QED
    BY <2>1, <2>2, <2>3
<1>5. r[p] = sw /\ (\A u \in Threads : u # p => r[u] = q[u]) /\ r = [q EXCEPT ![p] = sw]
  BY <1>1, <1>3 DEF Adds
<1>6. r \in [Threads -> Seq(Works)]
  BY <1>4, <1>5
<1> QED
  BY <1>1, <1>2, <1>4, <1>5, <1>6

LEMMA QueueGets ==
  ASSUME NEW q, q \in [Threads -> Seq(Works)], NEW p \in Threads, NEW ws, ws \in Seq(Works),
         NEW r, Adds(q, p, ws, r),
         NEW C, Held(C, q), NEW D, Held(D, r),
         Disjoint(Threads, C, {}), Separate(ws), AllShares(ws) \cap Taken(Threads, C, {}) = {}
  PROVE  /\ r \in [Threads -> Seq(Works)] /\ Disjoint(Threads, D, {})
         /\ Taken(Threads, D, {}) = Taken(Threads, C, {}) \cup AllShares(ws)
<1>1. PICK n, m : n = Len(q[p]) /\ m = Len(ws)
  OBVIOUS
<1>2. /\ r \in [Threads -> Seq(Works)] /\ n \in Nat /\ m \in Nat /\ Len(r[p]) = n + m
      /\ \A i \in 1..n : r[p][i] = q[p][i]
      /\ \A i \in 1..m : r[p][n + i] = ws[i]
      /\ \A u \in Threads : u # p => r[u] = q[u]
  BY <1>1, Behind
<1>7. DOMAIN C[p] = 1..n /\ \A j \in 1..n : C[p][j] = WorkShares(q[p][j])
  <2>1. /\ DOMAIN C[p] = 1..Len(q[p])
        /\ \A j \in 1..Len(q[p]) : q[p][j] \in Works /\ C[p][j] = WorkShares(q[p][j])
    BY QueueHolds
  <2> QED
    BY <1>1, <2>1
<1>8. DOMAIN D[p] = 1..(n + m) /\ \A j \in 1..(n + m) : D[p][j] = WorkShares(r[p][j])
  <2>1. /\ DOMAIN D[p] = 1..Len(r[p])
        /\ \A j \in 1..Len(r[p]) : r[p][j] \in Works /\ D[p][j] = WorkShares(r[p][j])
    <3>1. Held(D, r)
      OBVIOUS
    <3>2. r \in [Threads -> Seq(Works)] /\ p \in Threads
      BY <1>2
    <3> QED
      BY ONLY <3>1, <3>2, QueueHolds
  <2> QED
    BY <1>2, <2>1
<1>9. PICK W : W = [i \in 1..m |-> WorkShares(ws[i])]
  OBVIOUS
<1>10. /\ \A i \in 1..n : D[p][i] = C[p][i]
       /\ \A i \in 1..m : D[p][n + i] = W[i]
  <2>1. /\ \A i \in 1..n : i \in 1..(n + m)
        /\ \A i \in 1..m : n + i \in 1..(n + m)
    BY <1>2
  <2> QED
    BY <1>2, <1>7, <1>8, <1>9, <2>1
<1>11. ASSUME NEW u \in Threads \ {p} PROVE D[u] = C[u]
  <2>1. Held(C, q) /\ Held(D, r) /\ u \in Threads /\ r[u] = q[u]
    BY <1>2
  <2> QED
    BY ONLY <2>1, QueueOther
<1>12. \A i, j \in 1..m : i # j => W[i] \cap W[j] = {}
  BY <1>1, <1>9 DEF Separate
<1>13. \A i \in 1..m : W[i] \cap Taken(Threads, C, {}) = {}
  BY <1>1, <1>9 DEF AllShares
<1>14. AllShares(ws) = UNION {W[i] : i \in 1..m}
  BY <1>1, <1>9 DEF AllShares
<1>15. /\ Disjoint(Threads, D, {})
       /\ Taken(Threads, D, {}) = Taken(Threads, C, {}) \cup UNION {W[i] : i \in 1..m}
  <2>1. TailCame(Threads, p, C, D, n, m, W)
    BY <1>7, <1>8, <1>10, <1>11, <1>12, <1>13 DEF TailCame
  <2> QED
    BY <1>2, <2>1, TailComes
<1> QED
  BY <1>2, <1>14, <1>15

--------------------------------------------------------------------------------
(* The steps: what becomes of the frames and of the shares *)

LEMMA Turns ==
  ASSUME stack \in [Threads -> Seq(Frame)], NEW t \in Threads, NEW n, n = Len(stack[t])
  PROVE  /\ stack[t] \in Seq(Frame) /\ n \in Nat
         /\ pc(t) # "idle" => /\ n \in Nat \ {0} /\ stack[t] # <<>> /\ Top(t) = stack[t][n]
                              /\ Top(t) \in Frame /\ pc(t) = Top(t).pc
         /\ \A f \in Frame : Enter(t, f) => Shift(Frame, Threads, stack, stack', t, n, <<f>>)
         /\ pc(t) # "idle" =>
              /\ Leave(t) => Shift(Frame, Threads, stack, stack', t, n - 1, <<>>)
              /\ \A f \in Frame : Goto(t, f) => Shift(Frame, Threads, stack, stack', t, n - 1, <<f>>)
              /\ \A f, g \in Frame :
                   GotoEnter(t, f, g) => Shift(Frame, Threads, stack, stack', t, n - 1, <<f, g>>)
<1>1. PICK s : s = stack[t]
  OBVIOUS
<1>2. s \in Seq(Frame) /\ n = Len(s) /\ n \in Nat
  BY <1>1
<1>3. pc(t) # "idle" => s # <<>> /\ n \in Nat \ {0} /\ Top(t) = s[n] /\ pc(t) = Top(t).pc
  BY <1>1, <1>2 DEF pc, Top
<1>4. pc(t) # "idle" => Top(t) \in Frame
  BY <1>2, <1>3, ElementOfSeq
<1>5. ASSUME NEW f \in Frame, Enter(t, f)
      PROVE  Shift(Frame, Threads, stack, stack', t, n, <<f>>)
  <2>1. stack' = [stack EXCEPT ![t] = Append(s, f)]
    BY <1>1, <1>5 DEF Enter
  <2> QED
    BY <1>1, <1>2, <2>1, Shifts
<1>6. ASSUME pc(t) # "idle", Leave(t)
      PROVE  Shift(Frame, Threads, stack, stack', t, n - 1, <<>>)
  <2>1. stack' = [stack EXCEPT ![t] = SubSeq(s, 1, n - 1)]
    BY <1>1, <1>2, <1>6 DEF Leave, Front
  <2> QED
    BY <1>1, <1>2, <1>3, <1>6, <2>1, Shifts
<1>7. ASSUME pc(t) # "idle", NEW f \in Frame, Goto(t, f)
      PROVE  Shift(Frame, Threads, stack, stack', t, n - 1, <<f>>)
  <2>1. stack' = [stack EXCEPT ![t] = Append(SubSeq(s, 1, n - 1), f)]
    BY <1>1, <1>2, <1>7 DEF Goto, Front
  <2> QED
    BY <1>1, <1>2, <1>3, <1>7, <2>1, Shifts
<1>8. ASSUME pc(t) # "idle", NEW f \in Frame, NEW g \in Frame, GotoEnter(t, f, g)
      PROVE  Shift(Frame, Threads, stack, stack', t, n - 1, <<f, g>>)
  <2>1. stack' = [stack EXCEPT ![t] = Append(Append(SubSeq(s, 1, n - 1), f), g)]
    BY <1>1, <1>2, <1>8 DEF GotoEnter, Front
  <2> QED
    BY <1>1, <1>2, <1>3, <1>8, <2>1, Shifts
<1> QED
  BY <1>1, <1>2, <1>3, <1>4, <1>5, <1>6, <1>7, <1>8

\* The frame on top.
LEMMA Mine ==
  ASSUME ShopInv, NEW t \in Threads, pc(t) # "idle", NEW f, f = Top(t)
  PROVE  /\ f \in Frame /\ pc(t) = f.pc /\ FrameOK(t, f)
         /\ Claims(f) \cap Waiting = {} /\ Claims(f) \subseteq InHand
<1>1. PICK n : n = Len(stack[t])
  OBVIOUS
<1>2. n \in Nat \ {0} /\ f = stack[t][n] /\ f \in Frame /\ pc(t) = f.pc
  BY <1>1, Turns DEF ShopInv, Typed
<1>3. n \in 1..Len(stack[t])
  BY <1>1, <1>2
<1>4. n \in DOMAIN Claimed[t] /\ Claimed[t][n] = Claims(f)
  BY <1>2, <1>3 DEF Claimed, Holdings, ClaimOf
<1>5. FrameOK(t, f)
  BY <1>2, <1>3 DEF ShopInv
<1>6. Claims(f) \cap Waiting = {} /\ Claims(f) \subseteq InHand
  BY <1>4 DEF ShopInv, Disjoint, InHand, Taken
<1> QED
  BY <1>2, <1>5, <1>6

\* Frame f is the i-th on t's stack.
On(t, i, f) == t \in Threads /\ i \in 1..Len(stack[t]) /\ f = stack[t][i]

\* Any frame of any stack; its shares are its own.
LEMMA AtFrame ==
  ASSUME ShopInv, NEW t, NEW i, NEW f, On(t, i, f)
  PROVE  f \in Frame /\ t \in Threads /\ i \in DOMAIN Claimed[t] /\ Claimed[t][i] = Claims(f)
<1>0. stack \in [Threads -> Seq(Frame)]
  BY DEF ShopInv, Typed
<1>1. stack[t] \in Seq(Frame) /\ t \in Threads /\ i \in 1..Len(stack[t]) /\ f = stack[t][i]
  BY <1>0 DEF On
<1>2. f \in Frame
  BY <1>1, ElementOfSeq
<1> QED
  BY <1>1, <1>2 DEF Claimed, Holdings, ClaimOf

LEMMA EveryFrame ==
  ASSUME ShopInv, NEW t, NEW i, NEW f, On(t, i, f)
  PROVE  /\ f \in Frame /\ FrameOK(t, f) /\ Fits(t, f, i, Len(stack[t]))
         /\ Claims(f) \cap Waiting = {} /\ Claims(f) \subseteq InHand
<1>1. FrameOK(t, f) /\ Fits(t, f, i, Len(stack[t]))
  BY DEF ShopInv, StackOK, On
<1>2. /\ f \in Frame /\ i \in DOMAIN Claimed[t] /\ Claimed[t][i] = Claims(f) /\ t \in Threads
  BY AtFrame
<1>3. Claims(f) \cap Waiting = {} /\ Claims(f) \subseteq InHand
  BY <1>2 DEF ShopInv, Disjoint, InHand, Taken
<1> QED
  BY <1>1, <1>2, <1>3

LEMMA Own ==
  ASSUME ShopInv, NEW t, NEW i, NEW f, On(t, i, f), NEW u, NEW j, NEW g, On(u, j, g),
         t # u \/ i # j
  PROVE  Claims(f) \cap Claims(g) = {}
<1>1. /\ i \in DOMAIN Claimed[t] /\ Claimed[t][i] = Claims(f) /\ t \in Threads
      /\ j \in DOMAIN Claimed[u] /\ Claimed[u][j] = Claims(g) /\ u \in Threads
  BY AtFrame
<1>2. Claimed[t][i] \cap Claimed[u][j] = {}
  BY <1>1 DEF ShopInv, Disjoint
<1> QED
  BY <1>1, <1>2

\* What no step of an operation does to the pool, to who fired what and to the
\* iterations of a spread that has begun.
Steady ==
  /\ pool' = pool
  /\ \A i \in Items : firer[i] # NoOne => firer'[i] = firer[i]
  /\ \A s \in Spreads : calls[s] = "active" => Len(hits'[s]) = Len(hits[s])

\* The frames that stay when t keeps its lowest b: their barriers are left alone, or somebody arrives.
Spares(t, b) ==
  \A u, i, f : On(u, i, f) /\ (u = t => i <= b) /\ f.pc \in SpreadPcs =>
    \/ barrier'[f.id] = barrier[f.id]
    \/ f.pc \notin AlonePcs /\ barrier'[f.id] <= barrier[f.id]

LEMMA CallsActive ==
  ASSUME ShopInv, NEW t, NEW i, NEW f, On(t, i, f), f.pc \in SpreadPcs
  PROVE  f.id \in Spreads /\ Share("call", f.id, 0) \in InHand /\ calls[f.id] = "active"
<1>1. f \in Frame /\ Claims(f) \subseteq InHand
  BY EveryFrame
<1>2. f.id \in Spreads /\ Claims(f) = SpreadShares(f)
  BY <1>1, SpreadShape, ClaimsAt
<1>3. Share("call", f.id, 0) \in InHand
  BY <1>1, <1>2 DEF SpreadShares
<1> QED
  BY <1>2, <1>3 DEF ShopInv, SharesOK

LEMMA FrameKept ==
  ASSUME ShopInv, Steady, NEW t, NEW i, NEW f, On(t, i, f),
         f.pc \in SpreadPcs => \/ barrier'[f.id] = barrier[f.id]
                               \/ f.pc \notin AlonePcs /\ barrier'[f.id] <= barrier[f.id],
         barrier' \in [Spreads -> Nat]
  PROVE  FrameOK(t, f)'
<1>1. f \in Frame /\ FrameOK(t, f)
  BY EveryFrame
<1>2. CASE f.pc \in FirePcs
  <2>1. f.item \in Items
    BY <1>1, <1>2, FireShape
  <2>2. firer[f.item] = t /\ t # NoOne
    BY <1>1, <1>2, MostIs DEF FrameOK, NoOne, ShopInv, Typed, On
  <2>3. firer'[f.item] = t /\ pool' = pool
    BY <2>1, <2>2 DEF Steady
  <2>4. f.pc \notin SpreadPcs /\ f.pc \notin AlonePcs /\ f.pc \notin PartPcs /\ f.pc \notin BulkPcs
        /\ f.pc \notin {"look", "alone", "bulk_wake", "own_work"}
    BY <1>2 DEF FirePcs, SpreadPcs, AlonePcs, PartPcs, BulkPcs
  <2> QED
    BY <1>1, <2>3, <2>4 DEF FrameOK
<1>3. CASE f.pc \in SpreadPcs
  <2>1. f.id \in Spreads /\ calls[f.id] = "active" /\ f.k \in Nat
    BY <1>1, <1>3, CallsActive, SpreadShape
  <2>2. f.pc \notin FirePcs
    BY <1>3, Kinds
  <2>3. pool' = pool /\ Len(hits'[f.id]) = Len(hits[f.id])
    BY <2>1 DEF Steady
  <2>4. barrier[f.id] \in Nat /\ barrier'[f.id] \in Nat
    BY <2>1 DEF ShopInv, Typed
  <2>5. barrier'[f.id] <= barrier[f.id]
    BY <1>3, <2>4
  <2>6. Raised(f) \in Int
    <3>1. Most \in Int /\ DivisionMax \in Int
      BY ShopAssumption, MostIs DEF ShopInv, Typed
    <3> QED
      BY <2>1, <3>1 DEF Raised
  <2>7. f.k >= 1 /\ barrier'[f.id] <= Raised(f)
    BY <1>1, <1>3, <2>4, <2>5, <2>6 DEF FrameOK
  <2>8. f.pc \in AlonePcs => barrier'[f.id] = Cardinality(Counts(f.id, Owes(f)))
    BY <1>1, <1>3 DEF FrameOK
  <2>9. f.pc \in PartPcs => PartsOK(f)'
    BY <1>1, <2>3 DEF FrameOK, PartsOK
  <2>10. f.pc \in BulkPcs => BulkOK(f)'
    BY <1>1, <2>3 DEF FrameOK, BulkOK
  <2>11. /\ f.pc \in {"look", "alone"} => f.callerEnd = Len(hits'[f.id]) /\ f.callerEnd # 0
         /\ f.pc \in {"bulk_wake", "own_work"} => (f.callerEnd = 0 => f.wait)
         /\ f.pc = "bulk_wake" => f.k <= pool'
    BY <1>1, <2>3 DEF FrameOK
  <2> QED
    BY <2>2, <2>7, <2>8, <2>9, <2>10, <2>11 DEF FrameOK
<1>4. CASE f.pc \notin FirePcs /\ f.pc \notin SpreadPcs
  BY <1>4 DEF FrameOK, SpreadPcs, AlonePcs, PartPcs, BulkPcs
<1> QED
  BY <1>2, <1>3, <1>4

\* A step that changes who has what: old is what the frame that it takes off the stack
\* had, x and y what the frames have that it puts there, new was nobody's, gone is done
\* with.
Trade(old, x, y, new, gone) ==
  Trades(Threads, Claimed, Waiting, Waiting', old, x, y, new, gone)

\* The frames that come have their place on t's stack, ...
Placed(t, b, G) ==
  /\ b # 0 => stack[t][b].pc \notin StopPcs
  /\ \A i \in 1..Len(G) : Fits(t, G[i], b + i, b + Len(G))

\* ... nobody gets in the way of a stop, ...
Unstopped(t, G) ==
  \/ /\ stack[t] # <<>> \/ InService
     /\ \A i \in 1..Len(G) : G[i].pc \notin StopPcs
  \/ /\ t \in Callers /\ \A c \in Callers : c # t => stack[c] = <<>>
     /\ \A i \in 1..Len(G) : G[i].pc # "create"

\* ... and a call that is over but for its return stays so.
Returning(t, b, G) ==
  /\ b # 0 /\ stack[t][b].pc = "return" =>
       /\ barrier'[stack[t][b].id] = 0
       /\ Len(G) = 0 \/ (Len(G) = 1 /\ G[1].pc = "completed")
  /\ \A i \in 1..Len(G) : G[i].pc = "return" =>
       \/ i = Len(G) /\ barrier'[G[i].id] = 0
       \/ i = 1 /\ Len(G) = 2 /\ G[2].pc = "body" /\ ChunkOf(G[2].work, G[1].id) /\ barrier'[G[1].id] = 1
  /\ \A u, i, f : /\ On(u, i, f) /\ (u = t => i < b) /\ f.pc = "return"
                  => barrier'[f.id] = barrier[f.id]

Step(t, b, G, new, gone) ==
  /\ t \in Threads /\ Len(G) \in 0..2 /\ Shift(Frame, Threads, stack, stack', t, b, G)
  /\ Trade(Popped(ClaimOf, stack, t, b), First(ClaimOf, G), Second(ClaimOf, G), new, gone)
  /\ \A i \in 1..Len(G) : FrameOK(t, G[i])'
  /\ Placed(t, b, G) /\ Unstopped(t, G) /\ Returning(t, b, G)

\* What then holds again.
Kept(new, gone) ==
  /\ stack' \in [Threads -> Seq(Frame)]
  /\ Disjoint(Threads, Claimed', Waiting')
  /\ InHand' = (InHand \cup new) \ gone
  /\ (\A u \in Threads : \A i \in 1..Len(stack[u]) : FrameOK(u, stack[u][i]))'
  /\ (\A u \in Threads : ReturnOK(u) /\ StackOK(u))'
  /\ StopOK'

\* Where a frame was, and where a frame is.
LEMMA Whence ==
  ASSUME ShopInv, NEW t \in Threads, NEW b, NEW G, Len(G) \in 0..2,
         Shift(Frame, Threads, stack, stack', t, b, G)
  PROVE  /\ b \in Nat /\ Len(G) \in Nat /\ Len(stack[t]) \in {b, b + 1} /\ Len(stack'[t]) = b + Len(G)
         /\ \A u \in Threads : u # t => stack'[u] = stack[u]
         /\ \A i \in 1..b : i \in 1..Len(stack[t]) /\ i \in 1..Len(stack'[t]) /\ stack'[t][i] = stack[t][i]
         /\ \A i \in 1..Len(G) : b + i \in 1..Len(stack'[t]) /\ stack'[t][b + i] = G[i]
         /\ \A i \in 1..Len(stack'[t]) :
              \/ i \in 1..b
              \/ i - b \in 1..Len(G) /\ b + (i - b) = i /\ stack'[t][i] = G[i - b]
<1>1. /\ b \in Nat /\ Len(G) \in 0..2 /\ b <= Len(stack[t]) /\ Len(stack[t]) <= b + 1
      /\ Len(stack[t]) \in Nat /\ Len(stack'[t]) = b + Len(G)
  BY DEF Shift, ShopInv, Typed
<1>2. /\ \A u \in Threads : u # t => stack'[u] = stack[u]
      /\ \A i \in 1..b : stack'[t][i] = stack[t][i]
      /\ \A i \in 1..Len(G) : stack'[t][b + i] = G[i]
  BY DEF Shift
<1>3. Len(stack[t]) \in {b, b + 1} /\ Len(G) \in Nat
  BY <1>1
<1>4. \A i \in 1..b : i \in 1..Len(stack[t]) /\ i \in 1..Len(stack'[t])
  BY <1>1
<1>5. \A i \in 1..Len(G) : b + i \in 1..Len(stack'[t])
  BY <1>1
<1>6. \A i \in 1..Len(stack'[t]) : i \in 1..b \/ (i - b \in 1..Len(G) /\ b + (i - b) = i)
  BY <1>1
<1> QED
  BY <1>1, <1>2, <1>3, <1>4, <1>5, <1>6

LEMMA PlacesKept ==
  ASSUME ShopInv, Steady, NEW t, NEW b, NEW G, NEW new, NEW gone, Step(t, b, G, new, gone)
  PROVE  (\A u \in Threads : StackOK(u))' /\ StopOK'
<1>1. /\ t \in Threads /\ Len(G) \in 0..2 /\ Shift(Frame, Threads, stack, stack', t, b, G)
      /\ Placed(t, b, G) /\ Unstopped(t, G)
  BY DEF Step
<1>2. /\ b \in Nat /\ Len(G) \in Nat /\ Len(stack[t]) \in {b, b + 1} /\ Len(stack'[t]) = b + Len(G)
      /\ \A u \in Threads : u # t => stack'[u] = stack[u]
      /\ \A i \in 1..b : i \in 1..Len(stack[t]) /\ i \in 1..Len(stack'[t]) /\ stack'[t][i] = stack[t][i]
      /\ \A i \in 1..Len(G) : b + i \in 1..Len(stack'[t]) /\ stack'[t][b + i] = G[i]
      /\ \A i \in 1..Len(stack'[t]) :
           \/ i \in 1..b
           \/ i - b \in 1..Len(G) /\ b + (i - b) = i /\ stack'[t][i] = G[i - b]
  BY <1>1, Whence
<1>3. pool' = pool
  BY DEF Steady
<1>4. ASSUME NEW u \in Threads, NEW i \in 1..Len(stack'[u])
      PROVE  Fits(u, stack'[u][i], i, Len(stack'[u]))
  <2>1. CASE u # t
    BY <1>2, <2>1 DEF ShopInv, StackOK
  <2>2. CASE u = t /\ i \in 1..b
    <3>1. stack'[t][i] = stack[t][i] /\ Fits(t, stack[t][i], i, Len(stack[t]))
      BY <1>2, <2>2 DEF ShopInv, StackOK
    <3>2. stack[t][i].pc \notin StopPcs
      <4>1. CASE i = b
        BY <1>1, <1>2, <2>2, <4>1 DEF Placed
      <4>2. CASE i # b
        <5>1. ~(i = 1 /\ Len(stack[t]) = 1)
          BY <1>2, <2>2, <4>2
        <5> QED
          BY <3>1, <5>1 DEF Fits
      <4> QED
        BY <4>1, <4>2
    <3> QED
      BY <2>2, <3>1, <3>2 DEF Fits
  <2>3. CASE u = t /\ i \notin 1..b
    <3>1. i - b \in 1..Len(G) /\ b + (i - b) = i /\ stack'[t][i] = G[i - b]
      BY <1>2, <2>3
    <3> QED
      BY <1>1, <1>2, <2>3, <3>1 DEF Placed
  <2> QED
    BY <2>1, <2>2, <2>3
<1>5. (\A u \in Threads : StackOK(u))'
  <2>1. Workers' = Workers
    BY <1>3 DEF Workers
  <2>2. \A u \in Threads : \A i \in 1..Len(stack'[u]) : Fits(u, stack[u][i], i, Len(stack[u]))'
    BY <1>4, <2>1 DEF Fits
  <2> QED
    BY <2>2 DEF StackOK
<1>6. ASSUME NEW c \in Callers, pc(c)' \in StopPcs
      PROVE  /\ \A d \in Callers : d # c => stack'[d] = <<>>
             /\ pc(c)' = "create" =>
                  \A w \in Threads : w \notin Callers /\ Top(c).k' <= w => stack'[w] = <<>>
  <2>1. Callers \subseteq Threads
    BY MostIs DEF ShopInv, Typed
  <2>2. CASE c = t
    <3>1. Len(G) # 0
      <4>1. SUFFICES ASSUME Len(G) = 0 PROVE FALSE
        OBVIOUS
      <4>2. b # 0 /\ pc(c)' = stack'[t][b].pc
        <5>1. Len(stack'[t]) = b
          BY <1>2, <4>1
        <5>2. stack'[t] # <<>>
          BY <1>6, <2>2 DEF pc, StopPcs
        <5>3. stack'[t] \in Seq(Frame)
          BY <1>1 DEF Shift
        <5>4. b # 0
          BY <5>1, <5>2, <5>3
        <5>5. pc(c)' = stack'[t][Len(stack'[t])].pc
          BY <2>2, <5>2 DEF pc, Top
        <5> QED
          BY <5>1, <5>4, <5>5
      <4>3. stack'[t][b] = stack[t][b]
        <5>1. b \in 1..b
          BY <1>2, <4>2
        <5> QED
          BY <1>2, <5>1
      <4> QED
        BY <1>1, <1>6, <4>2, <4>3 DEF Placed
    <3>2. pc(c)' = G[Len(G)].pc
      <4>1. stack'[t] # <<>>
        BY <1>2, <3>1
      <4>2. Len(G) \in 1..Len(G)
        BY <1>2, <3>1
      <4> QED
        BY <1>2, <2>2, <4>1, <4>2 DEF pc, Top
    <3>3. Len(G) \in 1..Len(G)
      BY <1>2, <3>1
    <3>4. /\ \A d \in Callers : d # t => stack[d] = <<>>
          /\ \A i \in 1..Len(G) : G[i].pc # "create"
      BY <1>1, <1>6, <3>2, <3>3 DEF Unstopped
    <3> QED
      BY <1>2, <2>1, <2>2, <3>2, <3>3, <3>4
  <2>3. CASE c # t
    <3>1. stack'[c] = stack[c]
      BY <1>2, <2>1, <2>3
    <3>2. pc(c) = pc(c)' /\ Top(c).k' = Top(c).k
      BY <3>1 DEF pc, Top
    <3>3. /\ \A d \in Callers : d # c => stack[d] = <<>>
          /\ pc(c) = "create" =>
               \A w \in Threads : w \notin Callers /\ Top(c).k <= w => stack[w] = <<>>
      BY <1>6, <3>2 DEF ShopInv, StopOK
    <3>4. stack[c] # <<>> /\ ~InService
      <4>1. pc(c) \in StopPcs
        BY <1>6, <3>2
      <4> QED
        BY <4>1 DEF pc, StopPcs, InService
    <3>5. stack[t] # <<>>
      BY <1>1, <2>3, <3>4 DEF Unstopped
    <3>6. t \notin Callers
      BY <2>3, <3>3, <3>5
    <3>7. \A d \in Callers : stack'[d] = stack[d]
      BY <1>2, <2>1, <3>6
    <3>8. ASSUME NEW w \in Threads, pc(c) = "create", w \notin Callers, Top(c).k <= w
          PROVE  stack'[w] = <<>>
      BY <1>2, <3>3, <3>5, <3>8
    <3> QED
      BY <3>2, <3>3, <3>7, <3>8
  <2> QED
    BY <2>2, <2>3
<1>7. StopOK'
  BY <1>6 DEF StopOK
<1> QED
  BY <1>5, <1>7

LEMMA ReturnsKept ==
  ASSUME ShopInv, NEW t, NEW b, NEW G, NEW new, NEW gone, Step(t, b, G, new, gone)
  PROVE  (\A u \in Threads : ReturnOK(u))'
<1>1. /\ t \in Threads /\ Len(G) \in 0..2 /\ Shift(Frame, Threads, stack, stack', t, b, G)
      /\ Returning(t, b, G)
  BY DEF Step
<1>2. /\ b \in Nat /\ Len(G) \in Nat /\ Len(stack[t]) \in {b, b + 1} /\ Len(stack'[t]) = b + Len(G)
      /\ \A u \in Threads : u # t => stack'[u] = stack[u]
      /\ \A i \in 1..b : i \in 1..Len(stack[t]) /\ i \in 1..Len(stack'[t]) /\ stack'[t][i] = stack[t][i]
      /\ \A i \in 1..Len(G) : b + i \in 1..Len(stack'[t]) /\ stack'[t][b + i] = G[i]
      /\ \A i \in 1..Len(stack'[t]) :
           \/ i \in 1..b
           \/ i - b \in 1..Len(G) /\ b + (i - b) = i /\ stack'[t][i] = G[i - b]
  BY <1>1, Whence
<1> DEFINE Right(s, n, i, bar) ==
      \/ i = n /\ bar = 0
      \/ /\ i < n
         /\ \/ s[i + 1].pc = "completed" /\ bar = 0
            \/ s[i + 1].pc = "body" /\ ChunkOf(s[i + 1].work, s[i].id) /\ bar = 1
<1>3. ASSUME NEW u \in Threads, NEW i \in 1..Len(stack[u]), stack[u][i].pc = "return"
      PROVE  Right(stack[u], Len(stack[u]), i, barrier[stack[u][i].id])
  BY <1>3 DEF ShopInv, ReturnOK
<1>4. ASSUME NEW u \in Threads, NEW i \in 1..Len(stack'[u]), stack'[u][i].pc = "return"
      PROVE  Right(stack'[u], Len(stack'[u]), i, barrier'[stack'[u][i].id])
  <2>1. CASE u # t
    <3>1. stack'[u] = stack[u]
      BY <1>2, <2>1
    <3>2. Right(stack[u], Len(stack[u]), i, barrier[stack[u][i].id])
      BY <1>3, <1>4, <3>1
    <3>3. barrier'[stack[u][i].id] = barrier[stack[u][i].id]
      <4>1. On(u, i, stack[u][i]) /\ stack[u][i].pc = "return"
        BY <1>4, <3>1 DEF On
      <4> QED
        BY <1>1, <2>1, <4>1 DEF Returning
    <3> QED
      BY <3>1, <3>2, <3>3
  <2>2. CASE u = t /\ i \in 1..b /\ i # b
    <3>1. /\ i \in 1..Len(stack[t]) /\ stack'[t][i] = stack[t][i]
          /\ i + 1 \in 1..b /\ i < b /\ stack'[t][i + 1] = stack[t][i + 1]
          /\ i < Len(stack[t]) /\ i < Len(stack'[t])
      <4>1. i + 1 \in 1..b /\ i < b
        BY <1>2, <2>2
      <4>2. i < Len(stack[t]) /\ i < Len(stack'[t])
        BY <1>2, <4>1
      <4> QED
        BY <1>2, <2>2, <4>1, <4>2
    <3>2. Right(stack[t], Len(stack[t]), i, barrier[stack[t][i].id])
      BY <1>1, <1>3, <1>4, <2>2, <3>1
    <3>3. barrier'[stack[t][i].id] = barrier[stack[t][i].id]
      <4>1. On(t, i, stack[t][i]) /\ stack[t][i].pc = "return"
        BY <1>1, <1>4, <2>2, <3>1 DEF On
      <4> QED
        BY <1>1, <3>1, <4>1 DEF Returning
    <3> QED
      BY <2>2, <3>1, <3>2, <3>3
  <2>3. CASE u = t /\ i = b
    <3>0. i \in Nat \ {0} /\ i \in 1..b
      BY <1>2, <2>3
    <3>1. i \in 1..b /\ b # 0 /\ stack'[t][b] = stack[t][b]
      BY <1>2, <2>3, <3>0
    <3>2. /\ barrier'[stack[t][b].id] = 0
          /\ Len(G) = 0 \/ (Len(G) = 1 /\ G[1].pc = "completed")
      BY <1>1, <1>4, <2>3, <3>1 DEF Returning
    <3>3. CASE Len(G) = 0
      BY <1>2, <2>3, <3>1, <3>2, <3>3
    <3>4. CASE Len(G) = 1 /\ G[1].pc = "completed"
      <4>1. stack'[t][b + 1].pc = "completed" /\ i < Len(stack'[t])
        BY <1>2, <2>3, <3>4
      <4> QED
        BY <2>3, <3>1, <3>2, <4>1
    <3> QED
      BY <3>2, <3>3, <3>4
  <2>4. CASE u = t /\ i \notin 1..b
    <3>1. PICK k \in 1..Len(G) : k = i - b /\ b + k = i /\ stack'[t][i] = G[k]
      BY <1>2, <2>4
    <3>2. \/ k = Len(G) /\ barrier'[G[k].id] = 0
          \/ k = 1 /\ Len(G) = 2 /\ G[2].pc = "body" /\ ChunkOf(G[2].work, G[1].id) /\ barrier'[G[1].id] = 1
      BY <1>1, <1>4, <2>4, <3>1 DEF Returning
    <3>3. CASE k = Len(G) /\ barrier'[G[k].id] = 0
      BY <1>2, <2>4, <3>1, <3>3
    <3>4. CASE k = 1 /\ Len(G) = 2 /\ G[2].pc = "body" /\ ChunkOf(G[2].work, G[1].id) /\ barrier'[G[1].id] = 1
      <4>1. i + 1 = b + 2 /\ stack'[t][b + 2] = G[2] /\ i < Len(stack'[t])
        BY <1>2, <3>1, <3>4
      <4> QED
        BY <2>4, <3>1, <3>4, <4>1
    <3> QED
      BY <3>2, <3>3, <3>4
  <2> QED
    BY <1>2, <2>1, <2>2, <2>3, <2>4
<1> QED
  BY <1>4 DEF ReturnOK

LEMMA StepKeeps ==
  ASSUME ShopInv, Steady, barrier' \in [Spreads -> Nat], NEW t, NEW b, NEW G, NEW new, NEW gone,
         Spares(t, b), Step(t, b, G, new, gone)
  PROVE  Kept(new, gone)
<1>1. /\ t \in Threads /\ b \in Nat /\ stack \in [Threads -> Seq(Frame)] /\ stack' \in [Threads -> Seq(Frame)]
      /\ Disjoint(Threads, Claimed, Waiting)
      /\ Len(G) \in 0..2 /\ Shift(Frame, Threads, stack, stack', t, b, G)
  BY DEF ShopInv, Typed, Shift, Step
<1>2. Disjoint(Threads, Claimed', Waiting') /\ InHand' = (InHand \cup new) \ gone
  <2>1. PICK p, s, q, r : p = stack /\ s = stack' /\ q = Waiting /\ r = Waiting'
    OBVIOUS
  <2>2. Claimed = Holdings(Threads, ClaimOf, p) /\ Claimed' = Holdings(Threads, ClaimOf, s)
    BY <2>1 DEF Claimed, ClaimOf, Claims
  <2>3. /\ Shift(Frame, Threads, p, s, t, b, G) /\ p \in [Threads -> Seq(Frame)]
        /\ Disjoint(Threads, Holdings(Threads, ClaimOf, p), q)
        /\ Trades(Threads, Holdings(Threads, ClaimOf, p), q, r, Popped(ClaimOf, p, t, b),
                  First(ClaimOf, G), Second(ClaimOf, G), new, gone)
    BY <1>1, <2>1, <2>2 DEF Step, Trade
  <2>4. Exchanged(Threads, Holdings(Threads, ClaimOf, p), Holdings(Threads, ClaimOf, s), q, r, new, gone)
    BY <1>1, <2>3, Trading
  <2>5. Exchanged(Threads, Claimed, Claimed', Waiting, Waiting', new, gone)
    BY <2>1, <2>2, <2>4
  <2> QED
    BY <2>5 DEF Exchanged, InHand
<1>3. ASSUME NEW u \in Threads, NEW i \in 1..Len(stack'[u]), NEW g, g = stack'[u][i]
      PROVE  FrameOK(u, g)'
  <2>1. CASE u = t /\ i \notin 1..b
    <3>1. Len(stack'[t]) = b + Len(G)
      BY <1>1 DEF Shift
    <3>2. i - b \in 1..Len(G) /\ i = b + (i - b)
      BY <1>1, <2>1, <3>1
    <3>3. g = G[i - b]
      BY <1>1, <1>3, <2>1, <3>2 DEF Shift
    <3> QED
      BY <2>1, <3>2, <3>3 DEF Step
  <2>2. CASE u = t => i \in 1..b
    <3>1. i \in 1..Len(stack[u]) /\ stack'[u][i] = stack[u][i]
      BY <1>1, <2>2 DEF Shift
    <3>2. On(u, i, g) /\ (u = t => i <= b)
      BY <1>1, <1>3, <2>2, <3>1 DEF On
    <3>3. g.pc \in SpreadPcs => \/ barrier'[g.id] = barrier[g.id]
                                \/ g.pc \notin AlonePcs /\ barrier'[g.id] <= barrier[g.id]
      BY <3>2 DEF Spares
    <3> QED
      BY <3>2, <3>3, FrameKept
  <2> QED
    BY <2>1, <2>2
<1>4. (\A u \in Threads : ReturnOK(u))' /\ (\A u \in Threads : StackOK(u))' /\ StopOK'
  BY PlacesKept, ReturnsKept
<1> QED
  BY <1>1, <1>2, <1>3, <1>4 DEF Kept

\* What lies below the top of a stack.
LEMMA Below1 ==
  ASSUME ShopInv, NEW t \in Threads, pc(t) # "idle", NEW n, n = Len(stack[t])
  PROVE  /\ n \in Nat \ {0} /\ On(t, n, Top(t)) /\ Top(t) = stack[t][n] /\ pc(t) = Top(t).pc
         /\ n - 1 # 0 => /\ stack[t][n - 1].pc \notin StopPcs
                         /\ stack[t][n - 1].pc = "return" =>
                              LET s == stack[t][n - 1].id
                              IN  \/ pc(t) = "completed" /\ barrier[s] = 0
                                  \/ pc(t) = "body" /\ ChunkOf(Top(t).work, s) /\ barrier[s] = 1
<1>1. n \in Nat \ {0} /\ Top(t) = stack[t][n] /\ pc(t) = Top(t).pc
  BY Turns DEF ShopInv, Typed
<1>2. On(t, n, Top(t))
  BY <1>1 DEF On
<1>3. ASSUME n - 1 # 0
      PROVE  n - 1 \in 1..n /\ n - 1 < n /\ (n - 1) + 1 = n /\ n # 1
  <2>1. \A m \in Nat \ {0} : m - 1 # 0 => m - 1 \in 1..m /\ m - 1 < m /\ (m - 1) + 1 = m /\ m # 1
    OBVIOUS
  <2> QED
    BY <1>1, <1>3, <2>1, Zenon
<1>4. ASSUME n - 1 # 0
      PROVE  stack[t][n - 1].pc \notin StopPcs
  BY <1>3, <1>4 DEF ShopInv, StackOK, Fits
<1>5. ASSUME n - 1 # 0, stack[t][n - 1].pc = "return"
      PROVE  LET s == stack[t][n - 1].id
             IN  \/ pc(t) = "completed" /\ barrier[s] = 0
                 \/ pc(t) = "body" /\ ChunkOf(Top(t).work, s) /\ barrier[s] = 1
  <2>1. n - 1 \in 1..Len(stack[t]) /\ n - 1 < n /\ (n - 1) + 1 = n
    BY <1>3, <1>5
  <2>2. PICK k : k = n - 1
    OBVIOUS
  <2>3. /\ k \in 1..Len(stack[t]) /\ stack[t][k].pc = "return" /\ k # Len(stack[t])
        /\ stack[t][k + 1] = Top(t)
    BY <1>1, <1>5, <2>1, <2>2
  <2>4. \/ Top(t).pc = "completed" /\ barrier[stack[t][k].id] = 0
        \/ Top(t).pc = "body" /\ ChunkOf(Top(t).work, stack[t][k].id) /\ barrier[stack[t][k].id] = 1
    BY <2>3 DEF ShopInv, ReturnOK
  <2> QED
    BY <1>1, <2>2, <2>4
<1> QED
  BY <1>1, <1>2, <1>4, <1>5

\* Who is on top of its stack as a caller of a spread is the only one.
LEMMA SoleCaller ==
  ASSUME ShopInv, NEW t \in Threads, pc(t) \in SpreadPcs,
         NEW u, NEW i, NEW g, On(u, i, g), g.pc \in SpreadPcs, u # t \/ i # Len(stack[t])
  PROVE  g.id # Top(t).id
<1>1. PICK n : n = Len(stack[t])
  OBVIOUS
<1>2. pc(t) # "idle"
  BY DEF SpreadPcs, PartPcs, BulkPcs
<1>3. On(t, n, Top(t)) /\ Top(t).pc \in SpreadPcs
  BY <1>1, <1>2, Below1
<1>4. Claims(Top(t)) \cap Claims(g) = {}
  BY <1>1, <1>3, Own
<1>5. /\ Share("call", g.id, 0) \in Claims(g)
      /\ Share("call", Top(t).id, 0) \in Claims(Top(t))
  BY <1>3, ClaimsAt DEF SpreadShares
<1> QED
  BY <1>4, <1>5

\* A step changes the barrier of the spread that it is about, or none.
MyBarrier(t) ==
  /\ barrier' \in [Spreads -> Nat]
  /\ \/ barrier' = barrier
     \/ pc(t) \in SpreadPcs /\ \A s \in Spreads : s # Top(t).id => barrier'[s] = barrier[s]

LEMMA Sparing ==
  ASSUME ShopInv, NEW t \in Threads, pc(t) # "idle", MyBarrier(t), NEW n, n = Len(stack[t])
  PROVE  /\ Spares(t, n - 1)
         /\ \A u, i, f : /\ On(u, i, f) /\ (u = t => i <= n - 1) /\ f.pc \in SpreadPcs
                         => barrier'[f.id] = barrier[f.id]
<1>1. n \in Nat \ {0}
  BY Below1
<1>2. ASSUME NEW u, NEW i, NEW f, On(u, i, f), u = t => i <= n - 1, f.pc \in SpreadPcs
      PROVE  barrier'[f.id] = barrier[f.id]
  <2>1. u # t \/ i # n
    <3>1. ~(n <= n - 1)
      BY <1>1
    <3> QED
      BY <1>2, <3>1
  <2>2. f.id \in Spreads
    BY <1>2, CallsActive
  <2>3. pc(t) \in SpreadPcs => f.id # Top(t).id
    BY <1>2, <2>1, SoleCaller
  <2> QED
    BY <2>2, <2>3 DEF MyBarrier
<1> QED
  BY <1>2 DEF Spares

Alike(k, l) == /\ k \in WorkerPcs <=> l \in WorkerPcs
               /\ k \in StopPcs <=> l \in StopPcs
               /\ l # "create"

LEMMA FitsAlike ==
  ASSUME NEW t, NEW f, NEW g, NEW i, NEW n, Fits(t, f, i, n), Alike(f.pc, g.pc)
  PROVE  Fits(t, g, i, n)
BY DEF Fits, Alike

LEMMA ReturnIsSpread == "return" \in SpreadPcs /\ "return" \notin StopPcs /\ "return" \notin RunPcs
BY DEF SpreadPcs, StopPcs, RunPcs

\* A caller that stops the shop has it to itself.
LEMMA Stopping ==
  ASSUME ShopInv, NEW t \in Threads, pc(t) \in StopPcs
  PROVE  t \in Callers /\ \A c \in Callers : c # t => stack[c] = <<>>
<1>1. pc(t) # "idle"
  BY DEF StopPcs
<1>2. PICK n : n = Len(stack[t])
  OBVIOUS
<1>3. On(t, n, Top(t)) /\ Top(t).pc = pc(t)
  BY <1>1, <1>2, Below1
<1>4. t \in Callers
  BY <1>3, EveryFrame DEF Fits
<1> QED
  BY <1>4 DEF ShopInv, StopOK

\* What the top of t's stack may be replaced by.
Succeeds(t, G) ==
  /\ Len(G) \in 0..2
  /\ Len(G) # 0 => Alike(pc(t), G[1].pc)
  /\ Len(G) = 2 => pc(t) \notin StopPcs /\ G[2].pc = "body"
  /\ Len(G) # 0 /\ G[1].pc = "return" =>
       \/ Len(G) = 1 /\ barrier'[G[1].id] = 0
       \/ Len(G) = 2 /\ ChunkOf(G[2].work, G[1].id) /\ barrier'[G[1].id] = 1

LEMMA StepTop ==
  ASSUME ShopInv, Steady, NEW t \in Threads, MyBarrier(t), pc(t) # "idle", pc(t) \notin RunPcs,
         NEW n, n = Len(stack[t]), NEW G, Shift(Frame, Threads, stack, stack', t, n - 1, G),
         Succeeds(t, G), \A i \in 1..Len(G) : FrameOK(t, G[i])',
         NEW new, NEW gone, Trade(Claims(Top(t)), First(ClaimOf, G), Second(ClaimOf, G), new, gone)
  PROVE  Kept(new, gone)
<1>1. PICK b : b = n - 1
  OBVIOUS
<1>2. n \in Nat \ {0} /\ On(t, n, Top(t)) /\ Top(t) = stack[t][n] /\ pc(t) = Top(t).pc /\ stack[t] # <<>>
  BY Below1, Turns DEF ShopInv, Typed
<1>3. b \in Nat /\ b + 1 = n /\ n # b /\ b + 2 = n + 1
  BY <1>1, <1>2
<1>4. Shift(Frame, Threads, stack, stack', t, b, G)
  BY <1>1
<1>5. /\ Len(G) \in 0..2 /\ \A i \in 1..Len(G) : i = 1 \/ (i = 2 /\ Len(G) = 2)
      /\ Len(G) # 0 => 1 \in 1..Len(G)
  BY DEF Succeeds
<1>6. Popped(ClaimOf, stack, t, b) = Claims(Top(t))
  <2>1. Top(t) \in Frame
    BY <1>2, EveryFrame
  <2> QED
    BY <1>1, <1>2, <1>3, <2>1 DEF Popped, ClaimOf
<1>7. Trade(Popped(ClaimOf, stack, t, b), First(ClaimOf, G), Second(ClaimOf, G), new, gone)
  BY <1>6, Zenon
<1>8. Placed(t, b, G)
  <2>1. b # 0 => stack[t][b].pc \notin StopPcs
    BY <1>1, Below1
  <2>2. Fits(t, Top(t), n, n)
    BY <1>2, EveryFrame
  <2>3. Len(G) # 0 => Fits(t, G[1], b + 1, b + Len(G))
    <3>1. Len(G) # 0 => Fits(t, G[1], n, n)
      BY <1>2, <2>2, FitsAlike DEF Succeeds
    <3>2. CASE Len(G) = 1
      BY <1>3, <3>1, <3>2
    <3>3. CASE Len(G) = 2
      <4>1. G[1].pc \notin StopPcs
        BY <3>3 DEF Succeeds, Alike
      <4>2. Fits(t, G[1], n, n + 1)
        BY <3>1, <3>3, <4>1 DEF Fits
      <4> QED
        BY <1>3, <3>3, <4>2
    <3> QED
      BY <1>5, <3>2, <3>3
  <2>4. Len(G) = 2 => Fits(t, G[2], b + 2, b + Len(G))
    <3>1. Len(G) = 2 => G[2].pc = "body"
      BY DEF Succeeds
    <3>2. b + 2 # 1
      BY <1>3
    <3> QED
      BY <3>1, <3>2 DEF Fits, WorkerPcs, StopPcs
  <2> QED
    BY <1>5, <2>1, <2>3, <2>4 DEF Placed
<1>9. Unstopped(t, G)
  <2>1. CASE Len(G) # 0 /\ G[1].pc \in StopPcs
    <3>1. pc(t) \in StopPcs /\ G[1].pc # "create" /\ Len(G) # 2
      BY <2>1 DEF Alike, Succeeds
    <3>2. t \in Callers /\ \A c \in Callers : c # t => stack[c] = <<>>
      BY <3>1, Stopping
    <3> QED
      BY <1>5, <3>1, <3>2 DEF Unstopped
  <2>2. CASE Len(G) # 0 => G[1].pc \notin StopPcs
    <3>1. Len(G) = 2 => G[2].pc \notin StopPcs
      BY DEF Succeeds, StopPcs
    <3> QED
      BY <1>2, <1>5, <2>2, <3>1 DEF Unstopped
  <2> QED
    BY <2>1, <2>2
<1>10. /\ Spares(t, b)
       /\ \A u, i, g : /\ On(u, i, g) /\ (u = t => i <= b) /\ g.pc \in SpreadPcs
                       => barrier'[g.id] = barrier[g.id]
  BY <1>1, Sparing
<1>11. Returning(t, b, G)
  <2>1. b # 0 => stack[t][b].pc # "return"
    <3>1. pc(t) # "completed" /\ pc(t) # "body"
      BY DEF RunPcs
    <3> QED
      BY <1>1, <3>1, Below1
  <2>2. ASSUME NEW u, NEW i, NEW g, On(u, i, g), u = t => i < b, g.pc = "return"
        PROVE  barrier'[g.id] = barrier[g.id]
    <3>1. u = t => i <= b
      BY <1>3, <2>2 DEF On, ShopInv, Typed
    <3> QED
      BY <1>10, <2>2, <3>1, ReturnIsSpread
  <2>3. ASSUME NEW i \in 1..Len(G), G[i].pc = "return"
        PROVE  \/ i = Len(G) /\ barrier'[G[i].id] = 0
               \/ i = 1 /\ Len(G) = 2 /\ G[2].pc = "body" /\ ChunkOf(G[2].work, G[1].id) /\ barrier'[G[1].id] = 1
    BY <1>5, <2>3 DEF Succeeds
  <2> QED
    BY <2>1, <2>2, <2>3 DEF Returning
<1>12. Step(t, b, G, new, gone)
  BY <1>4, <1>5, <1>7, <1>8, <1>9, <1>11 DEF Step
<1> QED
  BY <1>10, <1>12, StepKeeps DEF MyBarrier

LEMMA StepGoto ==
  ASSUME ShopInv, Steady, NEW t \in Threads, MyBarrier(t), pc(t) # "idle", pc(t) \notin RunPcs,
         NEW f \in Frame, Goto(t, f), FrameOK(t, f)', Alike(pc(t), f.pc),
         f.pc = "return" => barrier'[f.id] = 0,
         NEW new, NEW gone, Trade(Claims(Top(t)), Claims(f), {}, new, gone)
  PROVE  Kept(new, gone)
<1>1. PICK n, G : n = Len(stack[t]) /\ G = <<f>>
  OBVIOUS
<1>2. Len(G) = 1 /\ 1..Len(G) = {1} /\ G[1] = f
  BY <1>1, Tuples
<1>3. Shift(Frame, Threads, stack, stack', t, n - 1, G)
  <2>1. Shift(Frame, Threads, stack, stack', t, n - 1, <<f>>)
    BY <1>1, Turns DEF ShopInv, Typed
  <2> QED
    BY <1>1, <2>1
<1>4. First(ClaimOf, G) = Claims(f) /\ Second(ClaimOf, G) = {}
  BY <1>2 DEF First, Second, ClaimOf
<1>5. Trade(Claims(Top(t)), First(ClaimOf, G), Second(ClaimOf, G), new, gone)
  BY <1>4, Zenon
<1>6. Succeeds(t, G) /\ \A i \in 1..Len(G) : FrameOK(t, G[i])'
  BY <1>2 DEF Succeeds
<1> QED
  BY <1>1, <1>3, <1>5, <1>6, StepTop

LEMMA StepGotoEnter ==
  ASSUME ShopInv, Steady, NEW t \in Threads, MyBarrier(t), pc(t) # "idle", pc(t) \notin RunPcs,
         pc(t) \notin StopPcs, NEW f \in Frame, NEW g \in Frame, GotoEnter(t, f, g),
         FrameOK(t, f)', FrameOK(t, g)', Alike(pc(t), f.pc), g.pc = "body",
         f.pc = "return" => ChunkOf(g.work, f.id) /\ barrier'[f.id] = 1,
         NEW new, NEW gone, Trade(Claims(Top(t)), Claims(f), Claims(g), new, gone)
  PROVE  Kept(new, gone)
<1>1. PICK n, G : n = Len(stack[t]) /\ G = <<f, g>>
  OBVIOUS
<1>2. Len(G) = 2 /\ 1..Len(G) = {1, 2} /\ G[1] = f /\ G[2] = g
  BY <1>1, Tuples
<1>3. Shift(Frame, Threads, stack, stack', t, n - 1, G)
  <2>1. Shift(Frame, Threads, stack, stack', t, n - 1, <<f, g>>)
    BY <1>1, Turns DEF ShopInv, Typed
  <2> QED
    BY <1>1, <2>1
<1>4. First(ClaimOf, G) = Claims(f) /\ Second(ClaimOf, G) = Claims(g)
  BY <1>2 DEF First, Second, ClaimOf
<1>5. Trade(Claims(Top(t)), First(ClaimOf, G), Second(ClaimOf, G), new, gone)
  BY <1>4, Zenon
<1>6. Succeeds(t, G) /\ \A i \in 1..Len(G) : FrameOK(t, G[i])'
  BY <1>2 DEF Succeeds
<1> QED
  BY <1>1, <1>3, <1>5, <1>6, StepTop

LEMMA StepLeave ==
  ASSUME ShopInv, Steady, NEW t \in Threads, MyBarrier(t), pc(t) # "idle", pc(t) \notin RunPcs,
         Leave(t), NEW new, NEW gone, Trade(Claims(Top(t)), {}, {}, new, gone)
  PROVE  Kept(new, gone)
<1>1. PICK n, G : n = Len(stack[t]) /\ G = <<>>
  OBVIOUS
<1>2. Len(G) = 0 /\ 1..Len(G) = {}
  BY <1>1, Tuples
<1>3. Shift(Frame, Threads, stack, stack', t, n - 1, G)
  <2>1. Shift(Frame, Threads, stack, stack', t, n - 1, <<>>)
    BY <1>1, Turns DEF ShopInv, Typed
  <2> QED
    BY <1>1, <2>1
<1>4. First(ClaimOf, G) = {} /\ Second(ClaimOf, G) = {}
  BY <1>2 DEF First, Second, ClaimOf
<1>5. Trade(Claims(Top(t)), First(ClaimOf, G), Second(ClaimOf, G), new, gone)
  BY <1>4, Zenon
<1>6. Succeeds(t, G) /\ \A i \in 1..Len(G) : FrameOK(t, G[i])'
  BY <1>2 DEF Succeeds
<1> QED
  BY <1>1, <1>3, <1>5, <1>6, StepTop

\* A call: by user code, or by a worker that takes work.
LEMMA StepEnter ==
  ASSUME ShopInv, Steady, NEW t \in Threads, barrier' = barrier,
         NEW f \in Frame, Enter(t, f), FrameOK(t, f)',
         pc(t) = "idle" => t \in Callers, pc(t) \notin StopPcs \cup {"return"},
         f.pc \notin WorkerPcs, f.pc # "return",
         f.pc \in StopPcs => f.pc # "create" /\ t \in Callers /\ \A c \in Callers : pc(c) = "idle",
         pc(t) # "idle" \/ InService \/ f.pc \in StopPcs,
         NEW new, NEW gone, Trade({}, Claims(f), {}, new, gone)
  PROVE  Kept(new, gone)
<1>1. PICK b, G : b = Len(stack[t]) /\ G = <<f>>
  OBVIOUS
<1>2. Len(G) = 1 /\ 1..Len(G) = {1} /\ G[1] = f /\ Len(G) \in 0..2
  BY <1>1, Tuples
<1>3. /\ stack \in [Threads -> Seq(Frame)] /\ Shift(Frame, Threads, stack, stack', t, b, G)
      /\ b \in Nat /\ b = Len(stack[t])
  <2>1. PICK n : n = Len(stack[t])
    OBVIOUS
  <2>2. stack \in [Threads -> Seq(Frame)]
    BY DEF ShopInv, Typed
  <2>3. n \in Nat /\ Shift(Frame, Threads, stack, stack', t, n, G)
    BY <1>1, <2>1, <2>2, Turns
  <2> QED
    BY <1>1, <2>1, <2>2, <2>3
<1>4. /\ Popped(ClaimOf, stack, t, b) = {}
      /\ First(ClaimOf, G) = Claims(f) /\ Second(ClaimOf, G) = {}
  BY <1>1, <1>2 DEF Popped, First, Second, ClaimOf
<1>5. Trade(Popped(ClaimOf, stack, t, b), First(ClaimOf, G), Second(ClaimOf, G), new, gone)
  BY <1>4, Zenon
<1>6. /\ pc(t) = "idle" => b = 0 /\ stack[t] = <<>>
      /\ pc(t) # "idle" => b # 0 /\ stack[t] # <<>> /\ stack[t][b].pc = pc(t)
  <2>1. pc(t) # "idle" => b # 0 /\ stack[t] # <<>> /\ stack[t][b].pc = pc(t)
    BY <1>1, <1>3, Turns
  <2>2. ASSUME stack[t] # <<>>
        PROVE  pc(t) # "idle"
    <3>1. stack[t] \in Seq(Frame) /\ Len(stack[t]) \in 1..Len(stack[t])
      BY <1>3, <2>2
    <3>2. stack[t][Len(stack[t])] \in Frame
      BY <3>1, ElementOfSeq
    <3> QED
      BY <2>2, <3>2, Kinds DEF pc, Top
  <2> QED
    BY <1>1, <1>3, <2>1, <2>2
<1>7. Placed(t, b, G)
  <2>1. b # 0 => stack[t][b].pc \notin StopPcs
    BY <1>6
  <2>2. Fits(t, f, b + 1, b + 1)
    <3>1. b # 0 => b + 1 # 1
      BY <1>3
    <3>2. f.pc \in StopPcs => b = 0 /\ t \in Callers
      BY <1>6
    <3> QED
      BY <1>3, <1>6, <3>1, <3>2 DEF Fits
  <2> QED
    BY <1>2, <2>1, <2>2 DEF Placed
<1>8. Unstopped(t, G)
  <2>1. CASE f.pc \in StopPcs
    <3>1. \A c \in Callers : stack[c] = <<>>
      <4>1. ASSUME NEW c \in Callers, stack[c] # <<>>
            PROVE  FALSE
        <5>1. c \in Threads
          BY MostIs DEF ShopInv, Typed
        <5>2. stack[c] \in Seq(Frame) /\ Len(stack[c]) \in 1..Len(stack[c])
          BY <1>3, <4>1, <5>1
        <5>3. stack[c][Len(stack[c])] \in Frame
          BY <5>2, ElementOfSeq
        <5>4. pc(c) # "idle"
          BY <4>1, <5>3, Kinds DEF pc, Top
        <5> QED
          BY <2>1, <5>4
      <4> QED
        BY <4>1
    <3> QED
      BY <1>2, <2>1, <3>1 DEF Unstopped
  <2>2. CASE f.pc \notin StopPcs
    BY <1>2, <1>6, <2>2 DEF Unstopped
  <2> QED
    BY <2>1, <2>2
<1>9. Returning(t, b, G) /\ Spares(t, b)
  BY <1>2, <1>6 DEF Returning, Spares
<1>10. Step(t, b, G, new, gone)
  BY <1>2, <1>3, <1>5, <1>7, <1>8, <1>9 DEF Step
<1>11. barrier' \in [Spreads -> Nat]
  BY DEF ShopInv, Typed
<1> QED
  BY <1>9, <1>10, <1>11, StepKeeps

--------------------------------------------------------------------------------
(* What a step leaves alone *)

SpreadKinds == {"iter", "count", "call", "ran"}

\* The shares in X are about spread s, about item i.
OfSpread(s, X) == \A x \in X : x.kind \in SpreadKinds /\ x.id = s
OfItem(i, X)   == \A x \in X : x.kind \notin SpreadKinds /\ x.id = i

Untouched(s) == calls'[s] = calls[s] /\ hits'[s] = hits[s] /\ barrier'[s] = barrier[s]
Unmoved(i)   == firer'[i] = firer[i] /\ (i \in accepted' <=> i \in accepted) /\ ran'[i] = ran[i]

SpreadOK(s) == SharesOK(s) /\ BarrierOK(s)

\* The types of the other variables, and the queues.
OthersTyped == /\ tokens \in [0..(Most - 1) -> Nat] /\ rotor \in Nat /\ brexit \in BOOLEAN
         /\ workItems \in 0..(HCRange - 1) /\ inFlight \in 0..(SizeRange - 1)
         /\ division \in DivisionMin..DivisionMax

LEMMA SpreadKept ==
  ASSUME NEW s, SpreadOK(s), Untouched(s), setup' = setup,
         NEW new, NEW gone, InHand' = (InHand \cup new) \ gone,
         \A x \in new \cup gone : x.kind \in SpreadKinds => x.id # s
  PROVE  SpreadOK(s)'
<1>1. ASSUME NEW x, x.kind \in SpreadKinds, x.id = s
      PROVE  x \in InHand' <=> x \in InHand
  BY <1>1
<1>2. \A at : /\ Share("call", s, at) \in InHand' <=> Share("call", s, at) \in InHand
              /\ Share("iter", s, at) \in InHand' <=> Share("iter", s, at) \in InHand
              /\ Share("count", s, at) \in InHand' <=> Share("count", s, at) \in InHand
              /\ Share("ran", s, at) \in InHand' <=> Share("ran", s, at) \in InHand
  BY <1>1, ShareFields DEF SpreadKinds
<1>3. CountsOf(s)' = CountsOf(s)
  BY <1>1 DEF CountsOf, SpreadKinds
<1>4. SharesOK(s)'
  BY <1>2 DEF SpreadOK, SharesOK, Untouched
<1>5. BarrierOK(s)'
  BY <1>2, <1>3 DEF SpreadOK, BarrierOK, Untouched
<1> QED
  BY <1>4, <1>5 DEF SpreadOK

LEMMA ItemKept ==
  ASSUME NEW i, ItemOK(i), Unmoved(i),
         NEW new, NEW gone, InHand' = (InHand \cup new) \ gone,
         \A x \in new \cup gone : x.kind \notin SpreadKinds => x.id # i
  PROVE  ItemOK(i)'
<1>1. ASSUME NEW x, x.kind \notin SpreadKinds, x.id = i
      PROVE  x \in InHand' <=> x \in InHand
  BY <1>1
<1>2. \A k \in {"todo", "item", "over", "owed", "track"} :
        Share(k, i, 0) \in InHand' <=> Share(k, i, 0) \in InHand
  BY <1>1, ShareFields DEF SpreadKinds
<1> QED
  BY <1>2 DEF ItemOK, Unmoved

\* A step that concerns one spread, ...
LEMMA SpreadMoves ==
  ASSUME ShopInv, NEW s \in Spreads, \A u \in Spreads \ {s} : Untouched(u), SpreadOK(s)',
         UNCHANGED <<setup, firer, accepted, ran>>,
         NEW new, NEW gone, Kept(new, gone), OfSpread(s, new), OfSpread(s, gone), IsFiniteSet(new),
         Typed', Disjoint(Threads, Queues, {})'
  PROVE  ShopInv' /\ InHand' = (InHand \cup new) \ gone
<1>1. InHand' = (InHand \cup new) \ gone
  BY DEF Kept
<1>2. ASSUME NEW u \in Spreads PROVE SpreadOK(u)'
  <2>1. CASE u = s
    BY <2>1
  <2>2. CASE u # s
    <3>1. \A x \in new \cup gone : x.kind \in SpreadKinds => x.id # u
      BY <2>2 DEF OfSpread
    <3>2. SpreadOK(u)
      BY DEF ShopInv, SpreadOK
    <3> QED
      BY <1>1, <2>2, <3>1, <3>2, SpreadKept
  <2> QED
    BY <2>1, <2>2
<1>3. ASSUME NEW i \in Items PROVE ItemOK(i)'
  <2>1. \A x \in new \cup gone : x.kind \notin SpreadKinds => x.id # i
    BY DEF OfSpread
  <2>2. ItemOK(i) /\ Unmoved(i)
    BY DEF ShopInv, Unmoved
  <2> QED
    BY <1>1, <2>1, <2>2, ItemKept
<1>4. IsFiniteSet(InHand')
  <2>1. IsFiniteSet(InHand \cup new)
    BY FS_Union DEF ShopInv
  <2> QED
    BY <1>1, <2>1, FS_Subset
<1> QED
  BY <1>1, <1>2, <1>3, <1>4 DEF ShopInv, Kept, SpreadOK

\* ... and one that concerns one item.
LEMMA ItemMoves ==
  ASSUME ShopInv, NEW i \in Items, \A j \in Items \ {i} : Unmoved(j), ItemOK(i)',
         UNCHANGED <<setup, barrier, calls, hits>>,
         NEW new, NEW gone, Kept(new, gone), OfItem(i, new), OfItem(i, gone), IsFiniteSet(new),
         Typed', Disjoint(Threads, Queues, {})'
  PROVE  ShopInv' /\ InHand' = (InHand \cup new) \ gone
<1>1. InHand' = (InHand \cup new) \ gone
  BY DEF Kept
<1>2. ASSUME NEW j \in Items PROVE ItemOK(j)'
  <2>1. CASE j = i
    BY <2>1
  <2>2. CASE j # i
    <3>1. \A x \in new \cup gone : x.kind \notin SpreadKinds => x.id # j
      BY <2>2 DEF OfItem
    <3>2. ItemOK(j)
      BY DEF ShopInv
    <3> QED
      BY <1>1, <2>2, <3>1, <3>2, ItemKept
  <2> QED
    BY <2>1, <2>2
<1>3. ASSUME NEW s \in Spreads PROVE SpreadOK(s)'
  <2>1. \A x \in new \cup gone : x.kind \in SpreadKinds => x.id # s
    BY DEF OfItem
  <2>2. SpreadOK(s) /\ Untouched(s)
    BY DEF ShopInv, SpreadOK, Untouched
  <2> QED
    BY <1>1, <2>1, <2>2, SpreadKept
<1>4. IsFiniteSet(InHand')
  <2>1. IsFiniteSet(InHand \cup new)
    BY FS_Union DEF ShopInv
  <2> QED
    BY <1>1, <2>1, FS_Subset
<1> QED
  BY <1>1, <1>2, <1>3, <1>4 DEF ShopInv, Kept, SpreadOK

\* A step that only passes frames and shares on.
LEMMA Passed ==
  ASSUME ShopInv, Kept({}, {}), UNCHANGED <<setup, barrier, history>>, Typed', Disjoint(Threads, Queues, {})'
  PROVE  ShopInv' /\ InHand' = InHand
<1>1. InHand' = (InHand \cup {}) \ {}
  BY DEF Kept
<1>2. ASSUME NEW j \in Items PROVE ItemOK(j)'
  <2>1. \A x \in {} \cup {} : x.kind \notin SpreadKinds => x.id # j
    OBVIOUS
  <2>2. ItemOK(j) /\ Unmoved(j)
    BY DEF ShopInv, Unmoved, history
  <2> QED
    BY <1>1, <2>1, <2>2, ItemKept
<1>3. ASSUME NEW s \in Spreads PROVE SpreadOK(s)'
  <2>1. \A x \in {} \cup {} : x.kind \in SpreadKinds => x.id # s
    OBVIOUS
  <2>2. SpreadOK(s) /\ Untouched(s)
    BY DEF ShopInv, SpreadOK, Untouched, history
  <2> QED
    BY <1>1, <2>1, <2>2, SpreadKept
<1>4. InHand' = InHand
  BY <1>1
<1> QED
  BY <1>2, <1>3, <1>4 DEF ShopInv, Kept, SpreadOK

LEMMA SteadyStill ==
  ASSUME UNCHANGED <<pool, history>>
  PROVE  Steady
BY DEF Steady, history

LEMMA WaitingStill ==
  ASSUME ShopInv, queue' = queue
  PROVE  Waiting' = Waiting /\ Disjoint(Threads, Queues, {})' /\ Queues' = Queues
BY DEF ShopInv, Waiting, Queues

LEMMA FrameStays ==
  ASSUME NEW t, NEW f, FrameOK(t, f), UNCHANGED <<pool, barrier, history>>
  PROVE  FrameOK(t, f)'
BY DEF FrameOK, PartsOK, BulkOK, history

LEMMA PlainFrame ==
  ASSUME NEW t, NEW f, f.pc \in WorkerPcs \cup RunPcs \cup StopPcs
  PROVE  FrameOK(t, f) /\ FrameOK(t, f)'
<1>1. /\ f.pc \notin FirePcs /\ f.pc \notin SpreadPcs
  BY Kinds
<1> QED
  BY <1>1 DEF FrameOK, SpreadPcs, AlonePcs, PartPcs, BulkPcs

\* The frame on top goes on, with the same shares.
LEMMA GoesOn ==
  ASSUME ShopInv, NEW t \in Threads, pc(t) # "idle", pc(t) \notin RunPcs,
         NEW g \in Frame, Goto(t, g), FrameOK(t, g), Alike(pc(t), g.pc),
         g.pc = "return" => barrier[g.id] = 0,
         Claims(g) = Claims(Top(t)), UNCHANGED <<setup, pool, queue, barrier, history>>, OthersTyped'
  PROVE  ShopInv' /\ InHand' = InHand
<1>1. Waiting' = Waiting /\ Disjoint(Threads, Queues, {})'
  BY WaitingStill
<1>2. Claims(Top(t)) \cap Waiting = {}
  BY Mine
<1>3. Trade(Claims(Top(t)), Claims(g), {}, {}, {})
  BY <1>1, <1>2 DEF Trade, Trades
<1>4. Steady /\ MyBarrier(t)
  BY SteadyStill DEF MyBarrier, ShopInv, Typed
<1>5. Kept({}, {})
  <2>1. FrameOK(t, g)'
    BY FrameStays
  <2> QED
    BY <1>3, <1>4, <2>1, StepGoto
<1>6. Typed'
  BY <1>5 DEF ShopInv, Typed, Kept, OthersTyped, history
<1> QED
  BY <1>1, <1>5, <1>6, Passed

--------------------------------------------------------------------------------
(* The worker loop *)

LEMMA WorkerGoes ==
  ASSUME ShopInv, NEW t \in Threads, pc(t) \in WorkerPcs, NEW l \in WorkerPcs, NEW z \in SUBSET Threads,
         NEW g, g = StealRec(l, z), Goto(t, g),
         UNCHANGED <<setup, pool, queue, barrier, history>>, OthersTyped'
  PROVE  ShopInv' /\ InHand' = InHand
<1>1. pc(t) # "idle" /\ pc(t) \notin RunPcs /\ pc(t) \notin StopPcs
  BY Kinds DEF WorkerPcs
<1>2. g \in Frame /\ g.pc = l
  BY WorkerFields
<1>3. FrameOK(t, g)
  BY <1>2, PlainFrame
<1>4. Alike(pc(t), g.pc) /\ g.pc # "return"
  BY <1>1, <1>2, Kinds DEF Alike, WorkerPcs, StopPcs
<1>5. Claims(Top(t)) = {} /\ Claims(g) = {}
  <2>1. Top(t).pc = pc(t)
    BY <1>1, Mine
  <2> QED
    BY <1>2, <2>1, ClaimsAt
<1> QED
  BY <1>1, <1>2, <1>3, <1>4, <1>5, GoesOn

LEMMA ThievesGo ==
  ASSUME ShopInv, NEW t \in Threads, pc(t) = "caller_steal", NEW l \in {"caller_steal", "join"},
         NEW z \in SUBSET Threads, NEW f, f = Top(t),
         NEW g, g = SpreadRec(l, f.id, f.chunks, f.k, f.callerEnd, f.wait, z)
  PROVE  /\ g \in Frame /\ FrameOK(t, g) /\ Claims(g) = Claims(f) /\ g.pc = l
         /\ f \in Frame /\ f.pc = "caller_steal"
<1>1. f \in Frame /\ f.pc = "caller_steal" /\ FrameOK(t, f)
  BY Mine
<1>2. f.pc \in SpreadPcs /\ l \in SpreadPcs
  BY <1>1 DEF SpreadPcs
<1>3. /\ f.id \in Spreads /\ f.chunks \in Cuts /\ f.k \in Nat /\ f.callerEnd \in Nat
      /\ f.wait \in BOOLEAN
  BY <1>1, <1>2, SpreadShape
<1>4. g \in Frame /\ g.pc = l /\ g.id = f.id /\ g.k = f.k
  BY <1>2, <1>3, SpreadFields
<1>5. Claims(f) = SpreadShares(f) /\ Claims(g) = SpreadShares(g)
  BY <1>2, <1>4, ClaimsAt
<1>6. Has(f) = {} /\ Owes(f) = {} /\ Has(g) = {} /\ Owes(g) = {}
  BY <1>1, <1>4, HasAt
<1>7. FrameOK(t, g)
  <2>1. f.k >= 1 /\ barrier[f.id] <= Raised(f) /\ Raised(g) = Raised(f)
    BY <1>1, <1>2, <1>4 DEF FrameOK, Raised
  <2> QED
    BY <1>4, <2>1 DEF FrameOK, FirePcs, AlonePcs, PartPcs, BulkPcs
<1> QED
  BY <1>1, <1>4, <1>5, <1>6, <1>7 DEF SpreadShares

LEMMA StealLookKeeps ==
  ASSUME ShopInv, NEW t \in Threads, StealLook(t)
  PROVE  ShopInv' /\ InHand' = InHand
<1>1. PICK z : z = Top(t).seen \cup {p \in Threads : queue[p] = <<>> \/ "look" \in setup.faults}
  OBVIOUS
<1>2. /\ pc(t) \in {"steal", "caller_steal"} /\ Goto(t, [Top(t) EXCEPT !.seen = z])
      /\ UNCHANGED <<setup, pool, queue, tokens, shared, barrier, history>>
  BY <1>1 DEF StealLook
<1>3. pc(t) # "idle" /\ Top(t) \in Frame /\ Top(t).pc = pc(t)
  BY <1>2, Mine
<1>4. OthersTyped'
  BY <1>2 DEF ShopInv, Typed, OthersTyped, shared
<1>5. CASE pc(t) = "steal"
  <2>1. pc(t) \in WorkerPcs
    BY <1>5 DEF WorkerPcs
  <2>2. Top(t).seen \in SUBSET Threads /\ [Top(t) EXCEPT !.seen = z] = StealRec(Top(t).pc, z)
    BY <1>3, <2>1, WorkerShape
  <2>3. z \in SUBSET Threads
    BY <1>1, <2>2
  <2> QED
    BY <1>2, <1>3, <1>4, <2>1, <2>2, <2>3, WorkerGoes
<1>6. CASE pc(t) = "caller_steal"
  <2>1. pc(t) \in SpreadPcs
    BY <1>6 DEF SpreadPcs
  <2>2. PICK f, g : /\ f = Top(t) /\ g = SpreadRec(f.pc, f.id, f.chunks, f.k, f.callerEnd, f.wait, z)
    OBVIOUS
  <2>3. Top(t).seen \in SUBSET Threads /\ [Top(t) EXCEPT !.seen = z] = g
    BY ZenonT(40), <1>3, <2>1, <2>2, SpreadShape
  <2>4. z \in SUBSET Threads
    BY <1>1, <2>3
  <2>5. /\ g \in Frame /\ FrameOK(t, g) /\ Claims(g) = Claims(f) /\ g.pc = "caller_steal"
    BY <1>3, <1>6, <2>2, <2>4, ThievesGo
  <2>6. Alike(pc(t), g.pc) /\ g.pc # "return" /\ pc(t) \notin RunPcs
    BY <1>6, <2>5 DEF Alike, WorkerPcs, StopPcs, RunPcs
  <2> QED
    BY <1>2, <1>3, <1>4, <2>2, <2>3, <2>5, <2>6, GoesOn
<1> QED
  BY <1>2, <1>5, <1>6

LEMMA StealEndsKeeps ==
  ASSUME ShopInv, NEW t \in Threads, StealEnds(t)
  PROVE  ShopInv' /\ InHand' = InHand
<1>2. /\ pc(t) \in {"steal", "caller_steal"}
      /\ Goto(t, [Top(t) EXCEPT !.seen = {}, !.pc = IF Top(t).pc = "steal" THEN "exit" ELSE "join"])
      /\ UNCHANGED <<setup, pool, queue, tokens, shared, barrier, history>>
  BY DEF StealEnds
<1>3. pc(t) # "idle" /\ Top(t) \in Frame /\ Top(t).pc = pc(t)
  BY <1>2, Mine
<1>4. OthersTyped'
  BY <1>2 DEF ShopInv, Typed, OthersTyped, shared
<1>5. CASE pc(t) = "steal"
  <2>1. pc(t) \in WorkerPcs /\ "exit" \in WorkerPcs
    BY <1>5 DEF WorkerPcs
  <2>2. [Top(t) EXCEPT !.seen = {}, !.pc = "exit"] = StealRec("exit", {})
    <3>1. \A l, z : [Top(t) EXCEPT !.seen = z, !.pc = l] = StealRec(l, z)
      BY <1>3, <2>1, WorkerShape
    <3> QED
      BY <3>1, Zenon
  <2>3. Goto(t, StealRec("exit", {}))
    BY <1>2, <1>3, <1>5, <2>2
  <2> QED
    BY <1>2, <1>4, <2>1, <2>3, WorkerGoes
<1>6. CASE pc(t) = "caller_steal"
  <2>1. pc(t) \in SpreadPcs
    BY <1>6 DEF SpreadPcs
  <2>2. PICK f, g : /\ f = Top(t) /\ g = SpreadRec("join", f.id, f.chunks, f.k, f.callerEnd, f.wait, {})
    OBVIOUS
  <2>3. [Top(t) EXCEPT !.seen = {}, !.pc = "join"] = g
    <3>1. \A l, z : [Top(t) EXCEPT !.seen = z, !.pc = l]
                       = SpreadRec(l, Top(t).id, Top(t).chunks, Top(t).k, Top(t).callerEnd, Top(t).wait, z)
      BY <1>3, <2>1, SpreadShape
    <3>2. g = SpreadRec("join", Top(t).id, Top(t).chunks, Top(t).k, Top(t).callerEnd, Top(t).wait, {})
      BY <2>2
    <3> QED
      BY <3>1, <3>2, Zenon
  <2>4. Goto(t, g)
    BY <1>2, <1>3, <1>6, <2>3
  <2>5. /\ g \in Frame /\ FrameOK(t, g) /\ Claims(g) = Claims(f) /\ g.pc = "join"
    BY <1>6, <2>2, ThievesGo
  <2>6. Alike(pc(t), g.pc) /\ g.pc # "return" /\ pc(t) \notin RunPcs
    BY <1>6, <2>5 DEF Alike, WorkerPcs, StopPcs, RunPcs
  <2> QED
    BY <1>2, <1>3, <1>4, <2>2, <2>4, <2>5, <2>6, GoesOn
<1> QED
  BY <1>2, <1>5, <1>6

\* The steps of the loop that have nothing to do with work.
LEMMA LoopKeeps ==
  ASSUME ShopInv, NEW w \in Threads, ExitCheck(w) \/ Wait(w) \/ Woken(w) \/ WakeLeft(w) \/ WakeRight(w)
  PROVE  ShopInv' /\ InHand' = InHand
<1>1. PICK l : /\ l \in WorkerPcs /\ GotoPc(w, l) /\ pc(w) \in WorkerPcs
               /\ UNCHANGED <<setup, pool, queue, barrier, history>> /\ UNCHANGED shared
               /\ \/ tokens' = tokens
                  \/ tokens' = [tokens EXCEPT ![w] = @ - 1] /\ tokens[w] > 0
                  \/ \E k : tokens' = [tokens EXCEPT ![k] = @ + 1]
  BY DEF ExitCheck, Wait, Woken, WakeLeft, WakeRight, Notify, WorkerPcs
<1>2. pc(w) # "idle" /\ pc(w) = Top(w).pc /\ Top(w) \in Frame
  BY <1>1, Mine DEF WorkerPcs
<1>3. Top(w).seen \in SUBSET Threads /\ Goto(w, StealRec(l, Top(w).seen))
  BY <1>1, <1>2, WorkerShape DEF GotoPc
<1>4. tokens' \in [0..(Most - 1) -> Nat]
  <2>1. tokens \in [0..(Most - 1) -> Nat]
    BY DEF ShopInv, Typed
  <2>2. CASE tokens' = [tokens EXCEPT ![w] = @ - 1] /\ tokens[w] > 0
    <3>1. w \in 0..(Most - 1) => tokens[w] - 1 \in Nat
      BY <2>1, <2>2
    <3> QED
      BY <2>1, <2>2, <3>1
  <2>3. ASSUME NEW k, tokens' = [tokens EXCEPT ![k] = @ + 1]
        PROVE  tokens' \in [0..(Most - 1) -> Nat]
    <3>1. k \in 0..(Most - 1) => tokens[k] + 1 \in Nat
      BY <2>1
    <3> QED
      BY <2>1, <2>3, <3>1
  <2> QED
    BY <1>1, <2>1, <2>2, <2>3
<1>5. OthersTyped'
  BY <1>1, <1>4 DEF ShopInv, Typed, OthersTyped, shared
<1> QED
  BY <1>1, <1>3, <1>5, WorkerGoes
--------------------------------------------------------------------------------
(* Work is taken off a queue *)

LEMMA RunIs ==
  ASSUME NEW w \in Works, NEW f, f = RunFrame(w)
  PROVE  f \in Frame /\ f.pc = "body" /\ f.work = w
BY DEF RunFrame, Frame, RunPcs

LEMMA QueueHeld == Held(Queues, queue) /\ Held(Queues', queue')
<1>1. Held(Queues, queue)
  BY DEF Held, Queues
<1>2. Queues' = Holdings(Threads, WorkOf, queue')
  BY DEF Queues, Holdings, WorkOf, WorkShares
<1> QED
  BY <1>1, <1>2 DEF Held

LEMMA Takes ==
  ASSUME ShopInv, NEW p \in Threads, queue[p] # <<>>, queue' = [queue EXCEPT ![p] = Tail(@)],
         NEW w, w = Head(queue[p])
  PROVE  /\ w \in Works /\ queue' \in [Threads -> Seq(Works)] /\ Disjoint(Threads, Queues, {})'
         /\ WorkShares(w) \cap Waiting' = {} /\ Waiting = Waiting' \cup WorkShares(w)
<1>1. PICK q, r, C, D : q = queue /\ r = queue' /\ C = Queues /\ D = Queues'
  OBVIOUS
<1>2. Held(C, q) /\ Held(D, r)
  BY <1>1, QueueHeld
<1>3. Drops(q, p, r)
  BY <1>1 DEF Drops
<1>4. q \in [Threads -> Seq(Works)] /\ q[p] # <<>> /\ w = Head(q[p]) /\ Disjoint(Threads, C, {})
  BY <1>1 DEF ShopInv, Typed
<1>5. /\ w \in Works /\ r \in [Threads -> Seq(Works)] /\ Disjoint(Threads, D, {})
      /\ WorkShares(w) \cap Taken(Threads, D, {}) = {}
      /\ Taken(Threads, C, {}) = Taken(Threads, D, {}) \cup WorkShares(w)
  <2> HIDE <1>1
  <2> QED
    BY <1>2, <1>3, <1>4, QueueGives
<1>6. Taken(Threads, C, {}) = Waiting /\ Taken(Threads, D, {}) = Waiting'
  BY <1>1 DEF Waiting
<1> QED
  BY <1>1, <1>5, <1>6

LEMMA OwnDequeueKeeps ==
  ASSUME ShopInv, NEW t \in Threads, OwnDequeue(t)
  PROVE  ShopInv' /\ InHand' = InHand
<1>1. /\ pc(t) = "own" /\ pc(t) \in WorkerPcs /\ pc(t) # "idle" /\ pc(t) # "return" /\ pc(t) \notin StopPcs
      /\ UNCHANGED <<setup, pool, tokens, shared, barrier, history>>
  BY DEF OwnDequeue, WorkerPcs, StopPcs
<1>2. OthersTyped'
  BY <1>1 DEF ShopInv, Typed, OthersTyped, shared
<1>3. CASE queue[t] = <<>>
  <2>1. Goto(t, StealRec("steal", {})) /\ UNCHANGED queue
    BY <1>3, WorkerFields DEF OwnDequeue
  <2>2. "steal" \in WorkerPcs /\ {} \in SUBSET Threads
    BY DEF WorkerPcs
  <2> QED
    BY <1>1, <1>2, <2>1, <2>2, WorkerGoes
<1>4. CASE queue[t] # <<>>
  <2>1. PICK w : w = Head(queue[t])
    OBVIOUS
  <2>2. Enter(t, RunFrame(w)) /\ queue' = [queue EXCEPT ![t] = Tail(@)]
    BY <1>4, <2>1 DEF OwnDequeue
  <2>3. /\ w \in Works /\ queue' \in [Threads -> Seq(Works)] /\ Disjoint(Threads, Queues, {})'
        /\ WorkShares(w) \cap Waiting' = {} /\ Waiting = Waiting' \cup WorkShares(w)
    BY <1>4, <2>1, <2>2, Takes
  <2>4. PICK f : f = RunFrame(w)
    OBVIOUS
  <2>5. f \in Frame /\ f.pc = "body" /\ f.work = w
    BY <2>3, <2>4, RunIs
  <2>6. FrameOK(t, f)' /\ f.pc \notin WorkerPcs /\ f.pc \notin StopPcs /\ f.pc # "return"
    BY <2>5, PlainFrame, Kinds DEF RunPcs
  <2>7. Claims(f) = WorkShares(w)
    BY <2>5, ClaimsAt
  <2>8. Trade({}, Claims(f), {}, {}, {})
    BY <2>3, <2>7 DEF Trade, Trades
  <2>9. Steady /\ barrier' = barrier
    BY <1>1, SteadyStill
  <2>10. Kept({}, {})
    BY <1>1, <2>2, <2>4, <2>5, <2>6, <2>8, <2>9, StepEnter
  <2>11. Typed'
    BY <1>1, <1>2, <2>3, <2>10 DEF ShopInv, Typed, Kept, OthersTyped, history
  <2> QED
    BY <1>1, <2>3, <2>10, <2>11, Passed
<1> QED
  BY <1>3, <1>4

LEMMA StealTakeKeeps ==
  ASSUME ShopInv, NEW t \in Threads, StealTake(t)
  PROVE  ShopInv' /\ InHand' = InHand
<1>1. /\ pc(t) \in {"steal", "caller_steal"} /\ pc(t) # "idle" /\ pc(t) \notin StopPcs /\ pc(t) \notin RunPcs
      /\ UNCHANGED <<setup, pool, tokens, shared, barrier, history>>
  BY DEF StealTake, StopPcs, RunPcs
<1>2. PICK p \in Threads : /\ queue[p] # <<>> /\ queue' = [queue EXCEPT ![p] = Tail(@)]
                           /\ GotoEnter(t, [Top(t) EXCEPT !.seen = {}], RunFrame(Head(queue[p])))
  BY DEF StealTake
<1>3. PICK w : w = Head(queue[p])
  OBVIOUS
<1>4. /\ w \in Works /\ queue' \in [Threads -> Seq(Works)] /\ Disjoint(Threads, Queues, {})'
      /\ WorkShares(w) \cap Waiting' = {} /\ Waiting = Waiting' \cup WorkShares(w)
  BY <1>2, <1>3, Takes
<1>5. PICK g : g = RunFrame(w)
  OBVIOUS
<1>6. g \in Frame /\ g.pc = "body" /\ g.work = w
  BY <1>4, <1>5, RunIs
<1>7. FrameOK(t, g)' /\ Claims(g) = WorkShares(w)
  BY <1>6, PlainFrame, ClaimsAt DEF RunPcs
<1>8. PICK f : f = [Top(t) EXCEPT !.seen = {}]
  OBVIOUS
<1>9. Top(t) \in Frame /\ Top(t).pc = pc(t) /\ Claims(Top(t)) \cap Waiting = {}
  BY <1>1, Mine
<1>10. f \in Frame /\ f.pc = pc(t) /\ FrameOK(t, f) /\ Claims(f) = Claims(Top(t))
  <2>1. CASE pc(t) = "steal"
    <3>1. pc(t) \in WorkerPcs
      BY <2>1 DEF WorkerPcs
    <3>2. \A z : [Top(t) EXCEPT !.seen = z] = StealRec(Top(t).pc, z)
      BY <1>9, <3>1, WorkerShape
    <3>3. f = StealRec(Top(t).pc, {})
      BY <1>8, <3>2, Zenon
    <3>4. f.pc = pc(t) /\ f \in Frame
      BY <1>9, <3>1, <3>3, WorkerFields
    <3> QED
      BY <1>9, <3>1, <3>4, PlainFrame, ClaimsAt
  <2>2. CASE pc(t) = "caller_steal"
    <3>1. pc(t) \in SpreadPcs
      BY <2>2 DEF SpreadPcs
    <3>2. \A z : [Top(t) EXCEPT !.seen = z]
                   = SpreadRec(Top(t).pc, Top(t).id, Top(t).chunks, Top(t).k, Top(t).callerEnd, Top(t).wait, z)
      BY <1>9, <3>1, SpreadShape
    <3>3. f = SpreadRec("caller_steal", Top(t).id, Top(t).chunks, Top(t).k, Top(t).callerEnd, Top(t).wait, {})
      BY <1>8, <1>9, <2>2, <3>2, Zenon
    <3> QED
      BY <2>2, <3>3, ThievesGo
  <2> QED
    BY <1>1, <2>1, <2>2
<1>11. FrameOK(t, f)'
  BY <1>1, <1>10, FrameStays
<1>12. Trade(Claims(Top(t)), Claims(f), Claims(g), {}, {})
  BY <1>4, <1>7, <1>9, <1>10 DEF Trade, Trades
<1>13. Steady /\ MyBarrier(t)
  BY <1>1, SteadyStill DEF MyBarrier, ShopInv, Typed
<1>14. Alike(pc(t), f.pc) /\ f.pc # "return"
  BY <1>1, <1>10 DEF Alike
<1>15. GotoEnter(t, f, g)
  BY <1>2, <1>3, <1>5, <1>8
<1>16. Kept({}, {})
  BY <1>1, <1>6, <1>7, <1>10, <1>11, <1>12, <1>13, <1>14, <1>15, StepGotoEnter
<1>17. Typed'
  BY <1>1, <1>4, <1>16 DEF ShopInv, Typed, Kept, shared, history
<1> QED
  BY <1>1, <1>4, <1>16, <1>17, Passed
--------------------------------------------------------------------------------
(* Fires *)

LEMMA Wraps == \A x \in Int : \A m \in Nat \ {0} : x % m \in 0..(m - 1)
OBVIOUS

LEMMA Counters ==
  ASSUME ShopInv, NEW n \in Int
  PROVE  (workItems + n) % HCRange \in 0..(HCRange - 1) /\ (inFlight + n) % SizeRange \in 0..(SizeRange - 1)
<1>1. workItems + n \in Int /\ inFlight + n \in Int
  BY DEF ShopInv, Typed
<1> QED
  BY <1>1, Wraps, ShopAssumption

LEMMA Firing ==
  ASSUME ShopInv, NEW t \in Threads, pc(t) \in FirePcs, NEW f, f = Top(t)
  PROVE  /\ pc(t) # "idle" /\ pc(t) \notin RunPcs /\ f \in Frame /\ f.pc = pc(t)
         /\ f.item \in Items /\ f.target \in Nat \cup {NoOne} /\ f.ok \in BOOLEAN
         /\ firer[f.item] = t /\ t # NoOne /\ pool > 0 /\ pool \in Nat
         /\ f.pc \in {"spill", "enqueue", "notify"} => f.target \in 0..(pool - 1)
         /\ Claims(f) \cap Waiting = {} /\ Claims(f) \subseteq InHand
         /\ \A l : [f EXCEPT !.pc = l] = FireFrame(l, f.item, f.target, f.ok)
         /\ \A l \in FirePcs : Alike(pc(t), l) /\ l # "return"
<1>1. pc(t) # "idle" /\ pc(t) \notin RunPcs
  BY Kinds DEF FirePcs
<1>2. /\ f \in Frame /\ f.pc = pc(t) /\ FrameOK(t, f) /\ Claims(f) \cap Waiting = {}
      /\ Claims(f) \subseteq InHand
  BY <1>1, Mine
<1>3. /\ f.item \in Items /\ f.target \in Nat \cup {NoOne} /\ f.ok \in BOOLEAN
      /\ \A l : [f EXCEPT !.pc = l] = FireFrame(l, f.item, f.target, f.ok)
  BY <1>2, FireShape
<1>4. \A l \in FirePcs : Alike(pc(t), l) /\ l # "return"
  BY Kinds DEF Alike, FirePcs, WorkerPcs, StopPcs
<1>5. /\ firer[f.item] = t /\ pool > 0
      /\ f.pc \in {"spill", "enqueue", "notify"} => f.target \in 0..(pool - 1)
  BY <1>2 DEF FrameOK
<1>6. t # NoOne /\ pool \in Nat
  BY MostIs DEF NoOne, ShopInv, Typed
<1> QED
  BY <1>1, <1>2, <1>3, <1>4, <1>5, <1>6

LEMMA FireFrameOK ==
  ASSUME NEW t, NEW f, f.pc \in FirePcs, pool > 0, firer[f.item] = t,
         f.pc \in {"spill", "enqueue", "notify"} => f.target \in 0..(pool - 1)
  PROVE  FrameOK(t, f)
<1>1. f.pc \notin SpreadPcs
  BY Kinds
<1> QED
  BY <1>1 DEF FrameOK, SpreadPcs, AlonePcs, PartPcs, BulkPcs

\* What a fire's frame becomes.
LEMMA FireOn ==
  ASSUME NEW f \in Frame, f.pc \in FirePcs, NEW l \in FirePcs, NEW r, r = [f EXCEPT !.pc = l]
  PROVE  r \in Frame /\ r.pc = l /\ r.item = f.item /\ r.target = f.target /\ r.ok = f.ok
<1>1. f \in [pc : FirePcs, item : Items, target : Nat \cup {NoOne}, ok : BOOLEAN]
  BY Kinds DEF Frame
<1>2. r \in [pc : FirePcs, item : Items, target : Nat \cup {NoOne}, ok : BOOLEAN]
  BY <1>1
<1>3. r \in Frame
  BY <1>2 DEF Frame
<1> QED
  BY <1>1, <1>3

\* The steps of a fire in which it only goes on.
LEMMA FireGoes ==
  ASSUME ShopInv, NEW t \in Threads, pc(t) \in FirePcs, NEW f, f = Top(t),
         NEW g \in Frame, g.pc \in FirePcs, g.item = f.item, Goto(t, g),
         g.pc \in {"spill", "enqueue", "notify"} => g.target \in 0..(pool - 1),
         Claims(g) = Claims(f), UNCHANGED <<setup, pool, queue, barrier, history>>, OthersTyped'
  PROVE  ShopInv' /\ InHand' = InHand
<1>1. /\ pc(t) # "idle" /\ pc(t) \notin RunPcs /\ f \in Frame /\ f.item \in Items
      /\ firer[f.item] = t /\ pool > 0 /\ Alike(pc(t), g.pc) /\ g.pc # "return"
  BY Firing
<1>3. FrameOK(t, g)
  BY <1>1, FireFrameOK
<1> QED
  BY <1>1, <1>3, GoesOn

LEMMA FireTargetKeeps ==
  ASSUME ShopInv, NEW t \in Threads, FireTarget(t)
  PROVE  ShopInv' /\ InHand' = InHand
<1>1. PICK f, w, l, g : /\ f = Top(t) /\ w = rotor % pool
                        /\ l = IF tokens[w] > StickyDepth THEN "spill" ELSE "enqueue"
                        /\ g = FireFrame(l, f.item, w, FALSE)
  OBVIOUS
<1>2. /\ Goto(t, g) /\ pc(t) = "target" /\ pc(t) \in FirePcs /\ l \in FirePcs
      /\ l \in {"spill", "enqueue"}
      /\ UNCHANGED <<setup, pool, queue, tokens, shared, barrier, history>>
  BY <1>1 DEF FireTarget, FirePcs
<1>3. pool \in Nat \ {0} /\ f.pc = "target"
  BY <1>1, <1>2, Firing
<1>4. w \in 0..(pool - 1) /\ w \in Nat \cup {NoOne}
  <2>1. rotor \in Int
    BY DEF ShopInv, Typed
  <2>2. w \in 0..(pool - 1)
    BY <1>1, <1>3, <2>1, Wraps
  <2> QED
    BY <1>3, <2>2
<1>5. g \in Frame /\ g.pc = l /\ g.item = f.item /\ g.target = w /\ f.item \in Items
  <2>1. f.item \in Items
    BY <1>1, <1>2, Firing
  <2>2. g = FireFrame(l, f.item, w, FALSE)
    BY <1>1
  <2>3. l \in FirePcs /\ w \in Nat \cup {NoOne}
    BY <1>2, <1>4
  <2> QED
    BY ONLY <2>1, <2>2, <2>3 DEF FireFrame, Frame
<1>7. Claims(g) = Claims(f)
  BY <1>2, <1>3, <1>5, ClaimsAt
<1>6. OthersTyped'
  BY <1>2 DEF ShopInv, Typed, OthersTyped, shared
<1> QED
  BY <1>1, <1>2, <1>4, <1>5, <1>6, <1>7, FireGoes

LEMMA FireSpillKeeps ==
  ASSUME ShopInv, NEW t \in Threads, FireSpill(t)
  PROVE  ShopInv' /\ InHand' = InHand
<1>1. PICK f, w, g : f = Top(t) /\ w = rotor' % pool /\ g = FireFrame("enqueue", f.item, w, FALSE)
  OBVIOUS
<1>2. /\ Goto(t, g) /\ pc(t) = "spill" /\ pc(t) \in FirePcs /\ "enqueue" \in FirePcs
      /\ rotor' = rotor + 1
      /\ UNCHANGED <<setup, pool, queue, tokens, workItems, inFlight, brexit, division, barrier, history>>
  BY <1>1 DEF FireSpill, FirePcs
<1>3. pool \in Nat \ {0} /\ f.pc = "spill"
  BY <1>1, <1>2, Firing
<1>4. w \in 0..(pool - 1) /\ w \in Nat \cup {NoOne} /\ rotor' \in Nat
  <2>1. rotor' \in Nat
    BY <1>2 DEF ShopInv, Typed
  <2>2. w \in 0..(pool - 1)
    <3>1. \A x \in Nat : x % pool \in 0..(pool - 1)
      BY <1>3, Wraps
    <3> QED
      BY <1>1, <2>1, <3>1
  <2> QED
    BY <1>3, <2>1, <2>2
<1>5. g \in Frame /\ g.pc = "enqueue" /\ g.item = f.item /\ g.target = w /\ f.item \in Items
  <2>1. f.item \in Items
    BY <1>1, <1>2, Firing
  <2>2. g = FireFrame("enqueue", f.item, w, FALSE)
    BY <1>1
  <2>3. "enqueue" \in FirePcs /\ w \in Nat \cup {NoOne}
    BY <1>2, <1>4
  <2> QED
    BY ONLY <2>1, <2>2, <2>3 DEF FireFrame, Frame
<1>7. Claims(g) = Claims(f)
  BY <1>2, <1>3, <1>5, ClaimsAt
<1>6. OthersTyped'
  BY <1>2, <1>4 DEF ShopInv, Typed, OthersTyped
<1> QED
  BY <1>1, <1>2, <1>4, <1>5, <1>6, <1>7, FireGoes

LEMMA FireNotifyKeeps ==
  ASSUME ShopInv, NEW t \in Threads, FireNotify(t)
  PROVE  ShopInv' /\ InHand' = InHand
<1>1. PICK f, g : f = Top(t) /\ g = [f EXCEPT !.pc = "count"]
  OBVIOUS
<1>2. /\ pc(t) = "notify" /\ pc(t) \in FirePcs /\ "count" \in FirePcs /\ Goto(t, g)
      /\ tokens' = [tokens EXCEPT ![f.target] = @ + 1]
      /\ UNCHANGED <<setup, pool, queue, shared, barrier, history>>
  BY <1>1 DEF FireNotify, Notify, FirePcs, GotoPc
<1>3. f \in Frame /\ f.pc = "notify"
  BY <1>1, <1>2, Firing
<1>4. g \in Frame /\ g.pc = "count" /\ g.item = f.item /\ g.ok = f.ok
  BY <1>1, <1>2, <1>3, FireOn
<1>5. Claims(g) = Claims(f)
  BY <1>3, <1>4, ClaimsAt
<1>6. OthersTyped'
  <2>1. tokens' \in [0..(Most - 1) -> Nat]
    <3>1. f.target \in 0..(Most - 1) => tokens[f.target] + 1 \in Nat
      BY DEF ShopInv, Typed
    <3> QED
      BY <1>2, <3>1 DEF ShopInv, Typed
  <2> QED
    BY <1>2, <2>1 DEF ShopInv, Typed, OthersTyped, shared
<1> QED
  BY <1>1, <1>2, <1>4, <1>5, <1>6, FireGoes
LEMMA Puts ==
  ASSUME ShopInv, NEW p \in Threads, NEW ws, ws \in Seq(Works), Adds(queue, p, ws, queue'),
         Separate(ws), AllShares(ws) \cap Waiting = {}
  PROVE  /\ queue' \in [Threads -> Seq(Works)] /\ Disjoint(Threads, Queues, {})'
         /\ Waiting' = Waiting \cup AllShares(ws)
<1>1. PICK q, r, C, D : q = queue /\ r = queue' /\ C = Queues /\ D = Queues'
  OBVIOUS
<1>2. Held(C, q) /\ Held(D, r)
  BY <1>1, QueueHeld
<1>3. Adds(q, p, ws, r)
  BY <1>1
<1>4. q \in [Threads -> Seq(Works)] /\ Disjoint(Threads, C, {})
  BY <1>1 DEF ShopInv, Typed
<1>5. Taken(Threads, C, {}) = Waiting /\ Taken(Threads, D, {}) = Waiting'
  BY <1>1 DEF Waiting
<1>6. AllShares(ws) \cap Taken(Threads, C, {}) = {}
  BY <1>5
<1>7. p \in Threads /\ ws \in Seq(Works) /\ Separate(ws)
  OBVIOUS
<1>8. /\ r \in [Threads -> Seq(Works)] /\ Disjoint(Threads, D, {})
      /\ Taken(Threads, D, {}) = Taken(Threads, C, {}) \cup AllShares(ws)
  BY ONLY <1>2, <1>3, <1>4, <1>6, <1>7, QueueGets
<1> QED
  BY <1>1, <1>5, <1>8

\* One more work.
LEMMA PutsOne ==
  ASSUME ShopInv, NEW p \in Threads, NEW w \in Works, queue' = [queue EXCEPT ![p] = Append(@, w)],
         WorkShares(w) \cap Waiting = {}
  PROVE  /\ queue' \in [Threads -> Seq(Works)] /\ Disjoint(Threads, Queues, {})'
         /\ Waiting' = Waiting \cup WorkShares(w)
<1>1. PICK ws : ws = <<w>>
  OBVIOUS
<1>2. ws \in Seq(Works) /\ Len(ws) = 1 /\ 1..Len(ws) = {1} /\ ws[1] = w
  BY <1>1, Tuples
<1>3. AllShares(ws) = WorkShares(w) /\ Separate(ws)
  BY <1>2 DEF AllShares, Separate
<1>4. Adds(queue, p, ws, queue')
  <2>1. queue[p] \in Seq(Works)
    BY DEF ShopInv, Typed
  <2>2. \A q \in Seq(Works) : Append(q, w) = q \o <<w>>
    OBVIOUS
  <2>3. Append(queue[p], w) = queue[p] \o ws
    BY <1>1, <2>1, <2>2
  <2> QED
    BY <2>3 DEF Adds
<1> QED
  BY <1>2, <1>3, <1>4, Puts

\* Shares are different by kind.
LEMMA ItemShares ==
  ASSUME NEW i
  PROVE  /\ Share("todo", i, 0) # Share("owed", i, 0) /\ Share("todo", i, 0) # Share("track", i, 0)
         /\ Share("todo", i, 0) # Share("item", i, 0) /\ Share("item", i, 0) # Share("owed", i, 0)
         /\ Share("item", i, 0) # Share("track", i, 0) /\ Share("owed", i, 0) # Share("track", i, 0)
         /\ Share("over", i, 0) # Share("item", i, 0) /\ Share("over", i, 0) # Share("todo", i, 0)
         /\ Share("over", i, 0) # Share("owed", i, 0) /\ Share("over", i, 0) # Share("track", i, 0)
         /\ \A k \in {"todo", "item", "over", "owed", "track"} :
              Share(k, i, 0).kind \notin SpreadKinds /\ Share(k, i, 0).id = i
BY ShareFields DEF SpreadKinds

LEMMA FewFinite ==
  ASSUME NEW a, NEW b, NEW c
  PROVE  IsFiniteSet({a}) /\ IsFiniteSet({a, b, c})
<1>1. IsFiniteSet({a}) /\ IsFiniteSet({b}) /\ IsFiniteSet({c})
  BY FS_Singleton
<1>2. IsFiniteSet({a} \cup {b})
  BY <1>1, FS_Union
<1>3. IsFiniteSet(({a} \cup {b}) \cup {c})
  BY <1>1, <1>2, FS_Union
<1>4. {a, b, c} = ({a} \cup {b}) \cup {c}
  OBVIOUS
<1> QED
  BY <1>1, <1>3, <1>4

LEMMA FireQueued ==
  ASSUME ShopInv, NEW t \in Threads, pc(t) = "enqueue", NEW f, f = Top(t),
         queue' = [queue EXCEPT ![f.target] = Append(@, ItemWork(f.item))],
         Goto(t, FireFrame("notify", f.item, f.target, TRUE)),
         UNCHANGED <<setup, pool, tokens, shared, barrier, history>>
  PROVE  /\ ShopInv'
         /\ InHand' = (InHand \cup {Share("item", f.item, 0), Share("owed", f.item, 0),
                                    Share("track", f.item, 0)}) \ {Share("todo", f.item, 0)}
         /\ \A k \in {"item", "owed", "track"} : Share(k, f.item, 0) \notin InHand
         /\ Share("todo", f.item, 0) \in InHand
<1>1. PICK i, g : i = f.item /\ g = FireFrame("notify", f.item, f.target, TRUE)
  OBVIOUS
<1>2. pc(t) \in FirePcs /\ "notify" \in FirePcs /\ Goto(t, g)
  BY <1>1 DEF FirePcs
<1>3. /\ pc(t) # "idle" /\ pc(t) \notin RunPcs /\ f \in Frame /\ f.pc = "enqueue"
      /\ i \in Items /\ f.target \in Nat \cup {NoOne} /\ firer[i] = t /\ t # NoOne /\ pool > 0 /\ pool \in Nat
      /\ f.target \in 0..(pool - 1) /\ Claims(f) \cap Waiting = {} /\ Claims(f) \subseteq InHand
      /\ Alike(pc(t), "notify") /\ "notify" # "return"
  BY <1>1, <1>2, Firing
<1>4. Claims(f) = {Share("todo", i, 0)} /\ Share("todo", i, 0) \in InHand
  BY <1>1, <1>3, ClaimsAt
<1>5. g \in Frame /\ g.pc = "notify" /\ g.item = i /\ g.target = f.target /\ g.ok
  <2>1. f.item \in Items /\ f.target \in Nat \cup {NoOne} /\ g = FireFrame("notify", f.item, f.target, TRUE)
    BY <1>1, <1>3
  <2>2. /\ g.pc = "notify" /\ g.item = f.item /\ g.target = f.target /\ g.ok
        /\ g \in Frame
    BY ONLY <1>2, <2>1 DEF FireFrame, Frame
  <2> QED
    BY <1>1, <2>2
<1>6. Claims(g) = {Share("track", i, 0), Share("owed", i, 0)}
  BY <1>5, ClaimsAt
<1>7. /\ i \notin accepted /\ ran[i] = 0
      /\ \A k \in {"item", "over", "owed", "track"} : Share(k, i, 0) \notin InHand
  BY <1>3, <1>4 DEF ShopInv, ItemOK
<1>8. Waiting \subseteq InHand
  BY DEF InHand, Taken
<1>9. f.target \in Threads /\ f.target \in 0..(pool - 1)
  <2>1. /\ f.target \in 0..(pool - 1)
        /\ Most \in Nat /\ NumCallers \in Nat \ {0} /\ pool <= Most
    BY <1>3, MostIs, ShopAssumption DEF ShopInv, Typed
  <2> QED
    BY <1>3, <2>1 DEF Threads
<1>10. ItemWork(i) \in Works /\ WorkShares(ItemWork(i)) = {Share("item", i, 0)}
  BY <1>3, WorkShape
<1>11. /\ queue' \in [Threads -> Seq(Works)] /\ Disjoint(Threads, Queues, {})'
       /\ Waiting' = Waiting \cup {Share("item", i, 0)}
  <2>1. WorkShares(ItemWork(i)) \cap Waiting = {}
    BY <1>7, <1>8, <1>10
  <2>2. queue' = [queue EXCEPT ![f.target] = Append(@, ItemWork(i))]
    BY <1>1
  <2> QED
    BY <1>9, <1>10, <2>1, <2>2, PutsOne
<1>12. PICK new, gone : /\ gone = {Share("todo", i, 0)}
                        /\ new = {Share("item", i, 0), Share("owed", i, 0), Share("track", i, 0)}
  OBVIOUS
<1>13. Trade(Claims(f), Claims(g), {}, new, gone)
  <2>1. new \cap InHand = {} /\ Share("todo", i, 0) \notin Waiting /\ Share("track", i, 0) \notin Waiting
        /\ Share("owed", i, 0) \notin Waiting
    BY <1>3, <1>4, <1>7, <1>8, <1>12
  <2>2. Claims(g) \cap Waiting' = {}
    BY <1>6, <1>11, <2>1, ItemShares
  <2>3. Claims(g) \cup {} \cup Waiting' = (Waiting \cup Claims(f) \cup new) \ gone
    BY <1>4, <1>6, <1>11, <1>12, <2>1, ItemShares
  <2> QED
    BY <1>4, <1>12, <2>1, <2>2, <2>3 DEF Trade, Trades, InHand
<1>14. FrameOK(t, g)'
  <2>1. FrameOK(t, g)
    BY <1>3, <1>5, FireFrameOK DEF FirePcs
  <2> QED
    BY <2>1, FrameStays
<1>15. Steady /\ MyBarrier(t)
  BY SteadyStill DEF MyBarrier, ShopInv, Typed
<1>16. Kept(new, gone)
  <2>1. Alike(pc(t), g.pc) /\ g.pc # "return"
    BY <1>3, <1>5
  <2>2. Trade(Claims(Top(t)), Claims(g), {}, new, gone)
    BY <1>13
  <2> QED
    BY <1>2, <1>3, <1>5, <1>14, <1>15, <2>1, <2>2, StepGoto
<1>17. Typed'
  BY <1>11, <1>16 DEF ShopInv, Typed, Kept, shared, history
<1>18. InHand' = (InHand \cup new) \ gone
  BY <1>16 DEF Kept
<1>19. ItemOK(i)'
  <2>1. Share("todo", i, 0) \notin InHand' /\ Share("item", i, 0) \in InHand' /\ Share("over", i, 0) \notin InHand'
    BY <1>7, <1>12, <1>18, ItemShares
  <2>2. firer'[i] = t /\ ran'[i] = 0
    BY <1>3, <1>7 DEF history
  <2> QED
    BY <1>3, <2>1, <2>2 DEF ItemOK
<1>20. ShopInv'
  <2>1. IsFiniteSet(new)
    BY <1>12, FewFinite
  <2>2. OfItem(i, new) /\ OfItem(i, gone)
    BY <1>12, ItemShares DEF OfItem
  <2>3. \A j \in Items \ {i} : Unmoved(j)
    BY DEF Unmoved, history
  <2>4. UNCHANGED <<setup, barrier, calls, hits>>
    BY DEF history
  <2> QED
    BY <1>3, <1>11, <1>16, <1>17, <1>19, <2>1, <2>2, <2>3, <2>4, ItemMoves
<1> QED
  BY <1>1, <1>4, <1>7, <1>12, <1>18, <1>20
\* The item is not queued, or it is counted: shares go and none come.
LEMMA ItemLoses ==
  ASSUME ShopInv, NEW t \in Threads, pc(t) \in FirePcs, NEW f, f = Top(t), NEW g \in Frame,
         FrameOK(t, g), g.pc \in FirePcs, Goto(t, g), NEW gone, gone \subseteq Claims(f),
         Claims(g) = Claims(f) \ gone,
         \A x \in gone : x.kind \in {"todo", "owed"} /\ x.id = f.item,
         UNCHANGED <<setup, pool, queue, barrier, history>>, OthersTyped'
  PROVE  ShopInv' /\ InHand' = InHand \ gone
<1>1. PICK i : i = f.item
  OBVIOUS
<1>2. /\ pc(t) # "idle" /\ pc(t) \notin RunPcs /\ f \in Frame /\ f.pc = pc(t) /\ i \in Items
      /\ Alike(pc(t), g.pc) /\ g.pc # "return" /\ Claims(f) \cap Waiting = {}
  BY <1>1, Firing
<1>3. Waiting' = Waiting /\ Disjoint(Threads, Queues, {})'
  BY WaitingStill
<1>4. Trade(Claims(Top(t)), Claims(g), {}, {}, gone)
  BY <1>2, <1>3 DEF Trade, Trades
<1>5. Steady /\ MyBarrier(t) /\ FrameOK(t, g)'
  BY SteadyStill, FrameStays DEF MyBarrier, ShopInv, Typed
<1>6. Kept({}, gone)
  BY <1>2, <1>4, <1>5, StepGoto
<1>7. Typed'
  BY <1>6 DEF ShopInv, Typed, Kept, OthersTyped, history
<1>8. InHand' = (InHand \cup {}) \ gone
  BY <1>6 DEF Kept
<1>9. OfItem(i, {}) /\ OfItem(i, gone) /\ IsFiniteSet({})
  BY <1>1, FS_EmptySet DEF OfItem, SpreadKinds
<1>10. ItemOK(i)'
  <2>1. \A k \in {"item", "over", "track"} : Share(k, i, 0) \in InHand' <=> Share(k, i, 0) \in InHand
    BY <1>8, ShareFields
  <2>2. InHand' \subseteq InHand
    BY <1>8
  <2>3. ItemOK(i)
    BY <1>2 DEF ShopInv
  <2> QED
    BY <2>1, <2>2, <2>3 DEF ItemOK, history
<1>11. \A j \in Items \ {i} : Unmoved(j)
  BY DEF Unmoved, history
<1>12. ShopInv'
  BY <1>2, <1>3, <1>6, <1>7, <1>9, <1>10, <1>11, ItemMoves DEF history
<1> QED
  BY <1>8, <1>12

LEMMA FireRefused ==
  ASSUME ShopInv, NEW t \in Threads, pc(t) = "enqueue", NEW f, f = Top(t), UNCHANGED queue,
         Goto(t, FireFrame("notify", f.item, f.target, FALSE)),
         UNCHANGED <<setup, pool, tokens, shared, barrier, history>>
  PROVE  ShopInv' /\ InHand' = InHand \ {Share("todo", f.item, 0)}
<1>1. PICK i, g, gone : /\ i = f.item /\ g = FireFrame("notify", f.item, f.target, FALSE)
                        /\ gone = {Share("todo", i, 0)}
  OBVIOUS
<1>2. pc(t) \in FirePcs /\ "notify" \in FirePcs /\ Goto(t, g)
  BY <1>1 DEF FirePcs
<1>3. /\ f \in Frame /\ f.pc = "enqueue" /\ i \in Items /\ f.target \in Nat \cup {NoOne}
      /\ firer[i] = t /\ pool > 0 /\ f.target \in 0..(pool - 1)
  BY <1>1, <1>2, Firing
<1>4. g \in Frame /\ g.pc = "notify" /\ g.item = i /\ g.target = f.target /\ ~g.ok
  <2>1. f.item \in Items /\ f.target \in Nat \cup {NoOne} /\ g = FireFrame("notify", f.item, f.target, FALSE)
    BY <1>1, <1>3
  <2>2. /\ g.pc = "notify" /\ g.item = f.item /\ g.target = f.target /\ ~g.ok
        /\ g \in Frame
    BY ONLY <1>2, <2>1 DEF FireFrame, Frame
  <2> QED
    BY <1>1, <2>2
<1>5. FrameOK(t, g)
  BY <1>2, <1>3, <1>4, FireFrameOK
<1>6. Claims(g) = {} /\ Claims(f) = gone
  BY <1>1, <1>3, <1>4, ClaimsAt
<1>7. \A x \in gone : x.kind \in {"todo", "owed"} /\ x.id = f.item
  BY <1>1, ShareFields
<1>8. OthersTyped'
  BY DEF ShopInv, Typed, OthersTyped, shared
<1>9. ShopInv' /\ InHand' = InHand \ gone
  BY <1>2, <1>4, <1>5, <1>6, <1>7, <1>8, ItemLoses
<1> QED
  BY <1>1, <1>9

LEMMA FireEnqueueKeeps ==
  ASSUME ShopInv, NEW t \in Threads, FireEnqueue(t)
  PROVE  ShopInv'
BY FireQueued, FireRefused DEF FireEnqueue

LEMMA FireCountKeeps ==
  ASSUME ShopInv, NEW t \in Threads, FireCount(t), NEW f, f = Top(t)
  PROVE  /\ ShopInv'
         /\ ~f.ok => InHand' = InHand /\ workItems' = workItems
         /\ f.ok => /\ Share("owed", f.item, 0) \in InHand
                    /\ InHand' = InHand \ {Share("owed", f.item, 0)}
                    /\ workItems' = (workItems + 1) % HCRange
<1>1. PICK g : g = [f EXCEPT !.pc = "track"]
  OBVIOUS
<1>2. /\ pc(t) = "count" /\ pc(t) \in FirePcs /\ "track" \in FirePcs /\ Goto(t, g)
      /\ workItems' = (workItems + (IF f.ok THEN 1 ELSE 0)) % HCRange
      /\ UNCHANGED <<setup, pool, queue, tokens, inFlight, rotor, brexit, division, barrier, history>>
  BY <1>1 DEF FireCount, AddItems, GotoPc, FirePcs
<1>3. /\ f \in Frame /\ f.pc = "count" /\ f.item \in Items /\ firer[f.item] = t /\ pool > 0
      /\ Claims(f) \subseteq InHand
  BY <1>2, Firing
<1>4. g \in Frame /\ g.pc = "track" /\ g.item = f.item /\ g.ok = f.ok
  BY <1>1, <1>2, <1>3, FireOn
<1>5. FrameOK(t, g)
  BY <1>3, <1>4, FireFrameOK DEF FirePcs
<1>6. OthersTyped'
  <2>1. PICK n \in Int : n = (IF f.ok THEN 1 ELSE 0)
    OBVIOUS
  <2>2. workItems' \in 0..(HCRange - 1)
    BY <1>2, <2>1, Counters
  <2> QED
    BY <1>2, <2>2 DEF ShopInv, Typed, OthersTyped
<1>7. CASE f.ok
  <2>1. Claims(f) = {Share("track", f.item, 0), Share("owed", f.item, 0)} /\ Claims(g) = {Share("track", f.item, 0)}
    BY ZenonT(40), <1>3, <1>4, <1>7, ClaimsAt
  <2>2. PICK gone : gone = {Share("owed", f.item, 0)}
    OBVIOUS
  <2>3. Claims(g) = Claims(f) \ gone /\ gone \subseteq Claims(f)
    BY <2>1, <2>2, ItemShares
  <2>4. \A x \in gone : x.kind \in {"todo", "owed"} /\ x.id = f.item
    BY <2>2, ShareFields
  <2>5. ShopInv' /\ InHand' = InHand \ gone
    <3>1. /\ pc(t) \in FirePcs /\ f = Top(t) /\ g \in Frame /\ g.pc \in FirePcs /\ Goto(t, g)
          /\ UNCHANGED <<setup, pool, queue, barrier, history>> /\ ShopInv /\ t \in Threads
      BY <1>2, <1>4
    <3> QED
      BY ONLY <3>1, <1>5, <1>6, <2>3, <2>4, ItemLoses
  <2> QED
    BY <1>2, <1>3, <1>7, <2>1, <2>2, <2>5
<1>8. CASE ~f.ok
  <2>1. Claims(f) = {} /\ Claims(g) = {}
    BY <1>3, <1>4, <1>8, ClaimsAt
  <2>2. ShopInv' /\ InHand' = InHand
    BY <1>2, <1>4, <1>6, <2>1, FireGoes
  <2>3. workItems' = workItems
    <3>1. \A x \in 0..(HCRange - 1) : (x + 0) % HCRange = x
      BY ShopAssumption
    <3> QED
      BY <1>2, <1>8, <3>1 DEF ShopInv, Typed
  <2> QED
    BY <1>8, <2>2, <2>3
<1> QED
  BY <1>7, <1>8

LEMMA FireTrackKeeps ==
  ASSUME ShopInv, NEW t \in Threads, FireTrack(t), NEW f, f = Top(t)
  PROVE  /\ ShopInv'
         /\ ~f.ok => InHand' = InHand /\ inFlight' = inFlight
         /\ f.ok => /\ Share("track", f.item, 0) \in InHand
                    /\ InHand' = InHand \ {Share("track", f.item, 0)}
                    /\ inFlight' = (inFlight + 1) % SizeRange
<1>1. PICK i : i = f.item
  OBVIOUS
<1>2. /\ pc(t) = "track" /\ pc(t) \in FirePcs /\ Leave(t)
      /\ inFlight' = (inFlight + (IF f.ok THEN 1 ELSE 0)) % SizeRange
      /\ accepted' = IF f.ok THEN accepted \cup {i} ELSE accepted
      /\ UNCHANGED <<setup, pool, queue, tokens, workItems, rotor, brexit, division, barrier,
                     firer, ran, calls, hits>>
  BY <1>1 DEF FireTrack, AddFlight, FirePcs
<1>3. /\ pc(t) # "idle" /\ pc(t) \notin RunPcs /\ f \in Frame /\ f.pc = "track" /\ i \in Items
      /\ firer[i] = t /\ t # NoOne
      /\ Claims(f) \subseteq InHand /\ Claims(f) \cap Waiting = {}
  BY <1>1, <1>2, Firing
<1>4. PICK gone : gone = Claims(f)
  OBVIOUS
<1>5. /\ f.ok => gone = {Share("track", i, 0)} /\ Share("track", i, 0) \in InHand
      /\ ~f.ok => gone = {}
  BY <1>1, <1>3, <1>4, ClaimsAt
<1>6. Waiting' = Waiting /\ Disjoint(Threads, Queues, {})'
  BY <1>2, WaitingStill
<1>7. Trade(Claims(Top(t)), {}, {}, {}, gone)
  BY <1>3, <1>4, <1>6 DEF Trade, Trades
<1>8. Steady /\ MyBarrier(t)
  BY <1>2 DEF Steady, MyBarrier, ShopInv, Typed
<1>9. Kept({}, gone)
  BY <1>2, <1>3, <1>7, <1>8, StepLeave
<1>10. InHand' = (InHand \cup {}) \ gone
  BY <1>9 DEF Kept
<1>11. Typed'
  <2>1. PICK n \in Int : n = (IF f.ok THEN 1 ELSE 0)
    OBVIOUS
  <2>2. inFlight' \in 0..(SizeRange - 1)
    BY <1>2, <2>1, Counters
  <2>3. accepted' \in SUBSET Items
    BY <1>2, <1>3 DEF ShopInv, Typed
  <2> QED
    BY <1>2, <1>9, <2>2, <2>3 DEF ShopInv, Typed, Kept
<1>12. ItemOK(i)'
  <2>1. \A k \in {"todo", "item", "over", "owed"} : Share(k, i, 0) \in InHand' <=> Share(k, i, 0) \in InHand
    BY <1>5, <1>10, ShareFields
  <2>2. ItemOK(i)
    BY <1>3 DEF ShopInv
  <2>3. CASE f.ok
    <3>1. ran[i] = 1 \/ Share("item", i, 0) \in InHand
      BY <1>5, <2>2, <2>3 DEF ItemOK
    <3>2. Share("todo", i, 0) \notin InHand
      BY <1>5, <2>2, <2>3 DEF ItemOK
    <3> QED
      BY <1>2, <1>3, <2>1, <2>2, <3>1, <3>2 DEF ItemOK
  <2>4. CASE ~f.ok
    <3>1. InHand' = InHand /\ accepted' = accepted
      BY <1>2, <1>5, <1>10, <2>4
    <3> QED
      BY <1>2, <2>2, <3>1 DEF ItemOK
  <2> QED
    BY <2>3, <2>4
<1>13. OfItem(i, {}) /\ OfItem(i, gone) /\ IsFiniteSet({})
  BY <1>5, ItemShares, FS_EmptySet DEF OfItem
<1>14. \A j \in Items \ {i} : Unmoved(j)
  BY <1>2 DEF Unmoved
<1>15. ShopInv'
  BY <1>2, <1>3, <1>6, <1>9, <1>11, <1>12, <1>13, <1>14, ItemMoves
<1>16. ~f.ok => inFlight' = inFlight
  <2>1. \A x \in 0..(SizeRange - 1) : (x + 0) % SizeRange = x
    BY ShopAssumption
  <2> QED
    BY <1>2, <2>1 DEF ShopInv, Typed
<1> QED
  BY <1>1, <1>2, <1>5, <1>10, <1>15, <1>16
LEMMA UserCodeIs ==
  ASSUME NEW t \in Threads, UserCode(t)
  PROVE  /\ pc(t) = "idle" => t \in Callers
         /\ pc(t) \notin StopPcs \cup {"return"} /\ (pc(t) # "idle" \/ InService)
BY DEF UserCode, Users, StopPcs

LEMMA FireCallKeeps ==
  ASSUME ShopInv, NEW t \in Threads, NEW i \in Items, FireCall(t, i)
  PROVE  ShopInv' /\ InHand' = InHand \cup {Share("todo", i, 0)} /\ Share("todo", i, 0) \notin InHand
<1>1. PICK f, new : f = FireFrame("target", i, NoOne, FALSE) /\ new = {Share("todo", i, 0)}
  OBVIOUS
<1>2. /\ UserCode(t) /\ firer[i] = NoOne /\ pool > 0 /\ firer' = [firer EXCEPT ![i] = t]
      /\ Enter(t, f)
      /\ UNCHANGED <<setup, pool, queue, tokens, shared, barrier, accepted, ran, calls, hits>>
  BY <1>1 DEF FireCall
<1>3. f \in Frame /\ f.pc = "target" /\ f.item = i
  <2>1. f = FireFrame("target", i, NoOne, FALSE)
    BY <1>1
  <2> QED
    BY ONLY i \in Items, <2>1 DEF FireFrame, Frame, FirePcs
<1>4. f.pc \in FirePcs /\ f.pc \notin WorkerPcs /\ f.pc \notin StopPcs /\ f.pc # "return"
  BY <1>3, Kinds DEF FirePcs
<1>5. firer \in [Items -> Threads \cup {NoOne}] /\ firer' \in [Items -> Threads \cup {NoOne}] /\ firer'[i] = t
  BY <1>2 DEF ShopInv, Typed
<1>6. FrameOK(t, f)'
  <2>1. f.pc \notin SpreadPcs
    BY <1>4, Kinds
  <2> QED
    BY <1>2, <1>3, <1>5, <2>1 DEF FrameOK, SpreadPcs, AlonePcs, PartPcs, BulkPcs
<1>7. Claims(f) = new
  BY <1>1, <1>3, ClaimsAt
<1>8. Waiting' = Waiting /\ Disjoint(Threads, Queues, {})' /\ Waiting \subseteq InHand
  BY <1>2, WaitingStill DEF InHand, Taken
<1>9. /\ i \notin accepted /\ ran[i] = 0
      /\ \A k \in {"todo", "item", "over", "owed", "track"} : Share(k, i, 0) \notin InHand
  BY <1>2 DEF ShopInv, ItemOK
<1>10. Trade({}, Claims(f), {}, new, {})
  BY <1>1, <1>7, <1>8, <1>9 DEF Trade, Trades, InHand
<1>11. Steady
  <2>1. \A j \in Items : firer[j] # NoOne => firer'[j] = firer[j]
    BY <1>2, <1>5
  <2> QED
    BY <1>2, <2>1 DEF Steady
<1>12. Kept(new, {})
  <2>1. /\ pc(t) = "idle" => t \in Callers
        /\ pc(t) \notin StopPcs \cup {"return"} /\ (pc(t) # "idle" \/ InService)
    BY <1>2, UserCodeIs
  <2>2. barrier' = barrier
    BY <1>2
  <2> QED
    BY <1>2, <1>3, <1>4, <1>6, <1>10, <1>11, <2>1, <2>2, StepEnter
<1>13. InHand' = (InHand \cup new) \ {}
  BY <1>12 DEF Kept
<1>14. Typed'
  BY <1>2, <1>5, <1>12 DEF ShopInv, Typed, Kept, shared
<1>15. ItemOK(i)'
  <2>1. Share("item", i, 0) \notin InHand' /\ Share("over", i, 0) \notin InHand'
        /\ Share("owed", i, 0) \notin InHand' /\ Share("track", i, 0) \notin InHand'
    BY <1>1, <1>9, <1>13, ItemShares
  <2>2. firer'[i] # NoOne
    BY <1>5, MostIs DEF NoOne, ShopInv, Typed
  <2>3. accepted' = accepted /\ ran' = ran
    BY <1>2
  <2> QED
    BY <1>9, <2>1, <2>2, <2>3 DEF ItemOK
<1>16. OfItem(i, new) /\ OfItem(i, {}) /\ IsFiniteSet(new)
  BY <1>1, ItemShares, FewFinite DEF OfItem
<1>17. \A j \in Items \ {i} : Unmoved(j)
  BY <1>2, <1>5 DEF Unmoved
<1>18. ShopInv'
  BY <1>2, <1>8, <1>12, <1>14, <1>15, <1>16, <1>17, ItemMoves
<1> QED
  BY <1>1, <1>9, <1>13, <1>18

--------------------------------------------------------------------------------
(* The shop is stopped, and another pool made *)

LEMMA StopOn ==
  ASSUME NEW f \in Frame, f.pc \in StopPcs
  PROVE  /\ f.k \in Nat
         /\ \A l \in StopPcs : LET r == [f EXCEPT !.pc = l]
                              IN  r \in Frame /\ r.pc = l /\ r.k = f.k /\ r.then = f.then
         /\ LET r == [f EXCEPT !.k = @ + 1]
            IN  r \in Frame /\ r.pc = f.pc /\ r.k = f.k + 1 /\ r.then = f.then
<1>1. f \in [pc : StopPcs, k : Nat, then : {"stopped", "create", ""}]
  BY Kinds DEF Frame
<1>0. f.k \in Nat
  BY <1>1
<1>2. ASSUME NEW l \in StopPcs, NEW r, r = [f EXCEPT !.pc = l]
      PROVE  r \in Frame /\ r.pc = l /\ r.k = f.k /\ r.then = f.then
  <2>1. r \in [pc : StopPcs, k : Nat, then : {"stopped", "create", ""}]
    BY <1>1, <1>2
  <2> QED
    BY <1>1, <1>2, <2>1 DEF Frame
<1>3. ASSUME NEW r, r = [f EXCEPT !.k = @ + 1]
      PROVE  r \in Frame /\ r.pc = f.pc /\ r.k = f.k + 1 /\ r.then = f.then
  <2>0. f.k + 1 \in Nat
    BY ONLY <1>0
  <2>1. r \in [pc : StopPcs, k : Nat, then : {"stopped", "create", ""}]
    BY <1>1, <1>3, <2>0
  <2> QED
    BY <1>1, <1>3, <2>1 DEF Frame
<1> QED
  BY <1>0, <1>2, <1>3

LEMMA StopCalled ==
  ASSUME ShopInv, NEW t \in Callers, \A c \in Callers : pc(c) = "idle", NEW then \in {"stopped", "create"},
         Enter(t, StopFrame("stop", then)),
         UNCHANGED <<setup, pool, queue, tokens, shared, barrier, history>>
  PROVE  ShopInv' /\ InHand' = InHand
<1>1. PICK f : f = StopFrame("stop", then)
  OBVIOUS
<1>2. t \in Threads /\ pc(t) = "idle" /\ pc(t) \notin StopPcs \cup {"return"}
  BY MostIs DEF ShopInv, Typed, StopPcs
<1>3. f \in Frame /\ f.pc = "stop"
  <2>1. f = StopFrame("stop", then)
    BY <1>1
  <2> QED
    BY ONLY then \in {"stopped", "create"}, <2>1 DEF StopFrame, StopPcs, Frame
<1>4. f.pc \in StopPcs /\ f.pc \notin WorkerPcs /\ f.pc # "return" /\ f.pc # "create"
  BY <1>3, Kinds DEF StopPcs
<1>5. FrameOK(t, f)' /\ Claims(f) = {}
  BY <1>4, PlainFrame, ClaimsAt
<1>6. Waiting' = Waiting /\ Disjoint(Threads, Queues, {})'
  BY WaitingStill
<1>7. Trade({}, Claims(f), {}, {}, {})
  BY <1>5, <1>6 DEF Trade, Trades
<1>8. Steady
  BY SteadyStill
<1>9. Kept({}, {})
  BY <1>1, <1>2, <1>3, <1>4, <1>5, <1>7, <1>8, StepEnter
<1>10. Typed'
  BY <1>9 DEF ShopInv, Typed, Kept, shared, history
<1> QED
  BY <1>6, <1>9, <1>10, Passed

LEMMA StopCallKeeps ==
  ASSUME ShopInv, NEW t \in Threads, StopCall(t) \/ ResizeCall(t)
  PROVE  ShopInv' /\ InHand' = InHand
BY StopCalled DEF StopCall, ResizeCall, Users

\* The steps of a stop up to its join.
LEMMA StopGoes ==
  ASSUME ShopInv, NEW t \in Threads, pc(t) \in StopPcs, NEW g \in Frame, g.pc \in StopPcs, g.pc # "create",
         Goto(t, g), UNCHANGED <<setup, pool, queue, barrier, history>>, OthersTyped'
  PROVE  ShopInv' /\ InHand' = InHand
<1>1. pc(t) # "idle" /\ pc(t) \notin RunPcs /\ g.pc # "return"
  BY Kinds DEF StopPcs
<1>2. Top(t).pc = pc(t)
  BY <1>1, Mine
<1>3. FrameOK(t, g) /\ Claims(g) = {} /\ Claims(Top(t)) = {}
  BY <1>2, PlainFrame, ClaimsAt
<1>4. Alike(pc(t), g.pc)
  BY Kinds DEF Alike
<1> QED
  BY <1>1, <1>3, <1>4, GoesOn

LEMMA StopFlagKeeps ==
  ASSUME ShopInv, NEW t \in Threads, StopFlag(t)
  PROVE  ShopInv' /\ InHand' = InHand
<1>1. PICK g : g = [Top(t) EXCEPT !.pc = "stop_wake"]
  OBVIOUS
<1>2. /\ pc(t) = "stop" /\ Goto(t, g) /\ brexit' = TRUE
      /\ UNCHANGED <<setup, pool, queue, tokens, workItems, inFlight, rotor, division, barrier, history>>
  BY <1>1 DEF StopFlag, GotoPc
<1>3. pc(t) \in StopPcs /\ pc(t) # "idle" /\ "stop_wake" \in StopPcs
  BY <1>2 DEF StopPcs
<1>4. Top(t) \in Frame /\ Top(t).pc \in StopPcs
  BY <1>3, Mine
<1>5. g \in Frame /\ g.pc = "stop_wake"
  BY <1>1, <1>3, <1>4, StopOn
<1>6. OthersTyped'
  BY <1>2 DEF ShopInv, Typed, OthersTyped
<1> QED
  BY <1>2, <1>3, <1>5, <1>6, StopGoes

LEMMA StopWakeKeeps ==
  ASSUME ShopInv, NEW t \in Threads, StopWake(t)
  PROVE  ShopInv' /\ InHand' = InHand
<1>1. PICK g : g = [Top(t) EXCEPT !.k = @ + 1]
  OBVIOUS
<1>2. /\ pc(t) = "stop_wake" /\ Goto(t, g) /\ tokens' = [tokens EXCEPT ![Top(t).k] = @ + 1]
      /\ UNCHANGED <<setup, pool, queue, shared, barrier, history>>
  BY <1>1 DEF StopWake, Notify
<1>3. pc(t) \in StopPcs /\ pc(t) # "idle" /\ pc(t) # "create"
  BY <1>2 DEF StopPcs
<1>4. Top(t) \in Frame /\ Top(t).pc \in StopPcs /\ Top(t).pc = pc(t)
  BY <1>3, Mine
<1>5. g \in Frame /\ g.pc = pc(t)
  BY <1>1, <1>4, StopOn
<1>6. OthersTyped'
  <2>1. tokens \in [0..(Most - 1) -> Nat]
    BY DEF ShopInv, Typed
  <2>2. ASSUME NEW k, tokens' = [tokens EXCEPT ![k] = @ + 1]
        PROVE  tokens' \in [0..(Most - 1) -> Nat]
    <3>1. k \in 0..(Most - 1) => tokens[k] + 1 \in Nat
      BY ONLY <2>1
    <3> QED
      BY ONLY <2>1, <2>2, <3>1
  <2>3. tokens' \in [0..(Most - 1) -> Nat]
    BY <1>2, <2>2
  <2> QED
    BY <1>2, <2>3 DEF ShopInv, Typed, OthersTyped, shared
<1> QED
  BY <1>2, <1>3, <1>5, <1>6, StopGoes
\* Frames with nothing to their names come and go.
LEMMA Rearranged ==
  ASSUME ShopInv, Waiting' = Waiting, stack' \in [Threads -> Seq(Frame)],
         \A u \in Threads : \/ stack'[u] = stack[u]
                            \/ /\ \A i \in 1..Len(stack[u]) : Claims(stack[u][i]) = {}
                               /\ \A i \in 1..Len(stack'[u]) : Claims(stack'[u][i]) = {}
  PROVE  Disjoint(Threads, Claimed', Waiting') /\ InHand' = InHand
<1>1. PICK C, D, q : C = Claimed /\ D = Claimed' /\ q = Waiting
  OBVIOUS
<1>2. stack \in [Threads -> Seq(Frame)]
  BY DEF ShopInv, Typed
<1>3. /\ D = Holdings(Threads, ClaimOf, stack') /\ C = Holdings(Threads, ClaimOf, stack)
  BY <1>1 DEF Claimed, ClaimOf, Claims
<1>4. ASSUME NEW u \in Threads
      PROVE  /\ DOMAIN C[u] = 1..Len(stack[u]) /\ DOMAIN D[u] = 1..Len(stack'[u])
             /\ \A i \in 1..Len(stack[u]) : C[u][i] = Claims(stack[u][i])
             /\ \A i \in 1..Len(stack'[u]) : D[u][i] = Claims(stack'[u][i])
  <2>1. stack[u] \in Seq(Frame) /\ stack'[u] \in Seq(Frame)
    BY <1>2
  <2>2. /\ \A i \in 1..Len(stack[u]) : stack[u][i] \in Frame
        /\ \A i \in 1..Len(stack'[u]) : stack'[u][i] \in Frame
    BY <2>1, ElementOfSeq
  <2>3. \A f \in Frame : ClaimOf[f] = Claims(f)
    BY DEF ClaimOf
  <2> QED
    BY <1>3, <2>2, <2>3 DEF Holdings
<1>5. \A u \in Threads : \/ D[u] = C[u]
                         \/ /\ \A i \in DOMAIN C[u] : C[u][i] = {}
                            /\ \A i \in DOMAIN D[u] : D[u][i] = {}
  <2> TAKE u \in Threads
  <2>1. CASE stack'[u] = stack[u]
    BY <1>3, <2>1 DEF Holdings
  <2>2. CASE stack'[u] # stack[u]
    <3>1. /\ \A i \in 1..Len(stack[u]) : Claims(stack[u][i]) = {}
          /\ \A i \in 1..Len(stack'[u]) : Claims(stack'[u][i]) = {}
      BY <2>2
    <3>2. /\ DOMAIN C[u] = 1..Len(stack[u]) /\ DOMAIN D[u] = 1..Len(stack'[u])
          /\ \A i \in 1..Len(stack[u]) : C[u][i] = Claims(stack[u][i])
          /\ \A i \in 1..Len(stack'[u]) : D[u][i] = Claims(stack'[u][i])
      BY <1>4
    <3> QED
      BY ONLY <3>1, <3>2
  <2> QED
    BY <2>1, <2>2
<1>6. Disjoint(Threads, C, q)
  BY <1>1 DEF ShopInv
<1>7. ASSUME NEW u \in Threads, NEW i \in DOMAIN D[u], NEW x \in D[u][i]
      PROVE  i \in DOMAIN C[u] /\ D[u][i] = C[u][i]
  BY <1>5, <1>7
<1>8. ASSUME NEW u \in Threads, NEW i \in DOMAIN C[u], NEW x \in C[u][i]
      PROVE  i \in DOMAIN D[u] /\ D[u][i] = C[u][i]
  BY <1>5, <1>8
<1>9. ASSUME NEW u \in Threads, NEW v \in Threads, NEW i \in DOMAIN D[u], NEW j \in DOMAIN D[v],
             u # v \/ i # j
      PROVE  D[u][i] \cap D[v][j] = {}
  <2>1. SUFFICES ASSUME NEW x \in D[u][i], x \in D[v][j] PROVE FALSE
    OBVIOUS
  <2>2. i \in DOMAIN C[u] /\ D[u][i] = C[u][i] /\ j \in DOMAIN C[v] /\ D[v][j] = C[v][j]
    BY <1>7, <2>1
  <2> QED
    BY <1>6, <1>9, <2>1, <2>2 DEF Disjoint
<1>10. ASSUME NEW u \in Threads, NEW i \in DOMAIN D[u]
       PROVE  D[u][i] \cap q = {}
  <2>1. SUFFICES ASSUME NEW x \in D[u][i], x \in q PROVE FALSE
    OBVIOUS
  <2>2. i \in DOMAIN C[u] /\ D[u][i] = C[u][i]
    BY <1>7, <2>1
  <2> QED
    BY <1>6, <2>1, <2>2 DEF Disjoint
<1>11. Disjoint(Threads, D, q)
  BY <1>9, <1>10 DEF Disjoint
<1>12. ASSUME NEW x PROVE x \in Taken(Threads, C, q) <=> x \in Taken(Threads, D, q)
  <2>1. x \in Taken(Threads, C, q) <=> x \in q \/ \E u \in Threads : \E i \in DOMAIN C[u] : x \in C[u][i]
    BY DEF Taken
  <2>2. x \in Taken(Threads, D, q) <=> x \in q \/ \E u \in Threads : \E i \in DOMAIN D[u] : x \in D[u][i]
    BY DEF Taken
  <2>3. ASSUME NEW u \in Threads, NEW i \in DOMAIN C[u], x \in C[u][i]
        PROVE  i \in DOMAIN D[u] /\ x \in D[u][i]
    BY <1>8, <2>3
  <2>4. ASSUME NEW u \in Threads, NEW i \in DOMAIN D[u], x \in D[u][i]
        PROVE  i \in DOMAIN C[u] /\ x \in C[u][i]
    BY <1>7, <2>4
  <2> QED
    BY <2>1, <2>2, <2>3, <2>4
<1>13. Taken(Threads, C, q) = Taken(Threads, D, q)
  BY <1>12
<1> QED
  BY <1>1, <1>11, <1>13 DEF InHand

\* Workers that have left have nothing, and nobody else has.
LEMMA StoppedStacks ==
  ASSUME ShopInv, NEW t \in Threads, pc(t) \in StopPcs, NEW u \in Threads, u # t,
         u \in Workers => pc(u) = "gone"
  PROVE  \A i \in 1..Len(stack[u]) : Claims(stack[u][i]) = {}
<1>1. t \in Callers /\ \A c \in Callers : c # t => stack[c] = <<>>
  BY Stopping
<1>2. CASE u \in Callers
  BY <1>1, <1>2
<1>3. CASE u \notin Callers
  <2>1. SUFFICES ASSUME NEW i \in 1..Len(stack[u]) PROVE Claims(stack[u][i]) = {}
    OBVIOUS
  <2>2. stack[u] \in Seq(Frame)
    BY DEF ShopInv, Typed
  <2>3. Len(stack[u]) \in Nat \ {0} /\ 1 \in 1..Len(stack[u])
    BY <2>1, <2>2
  <2>4. Fits(u, stack[u][1], 1, Len(stack[u]))
    BY <2>3 DEF ShopInv, StackOK
  <2>5. u \in Workers
    BY <1>3, <2>4 DEF Fits
  <2>6. pc(u) = "gone" /\ pc(u) # "idle"
    BY <2>5
  <2>7. PICK n : n = Len(stack[u])
    OBVIOUS
  <2>8. On(u, n, Top(u)) /\ Top(u).pc = "gone" /\ Top(u) = stack[u][n]
    BY <2>6, <2>7, Below1
  <2>9. n = 1
    BY <2>8, EveryFrame DEF Fits, WorkerPcs
  <2>10. i = n
    BY <2>1, <2>7, <2>9
  <2> QED
    BY <2>8, <2>10, ClaimsAt DEF WorkerPcs
<1> QED
  BY <1>2, <1>3

LEMMA StopAlone ==
  ASSUME ShopInv, NEW t \in Threads, pc(t) \in StopPcs
  PROVE  Len(stack[t]) = 1 /\ stack[t][1] = Top(t) /\ Claims(Top(t)) = {} /\ Top(t) \in Frame
         /\ Top(t).pc = pc(t)
<1>1. pc(t) # "idle"
  BY DEF StopPcs
<1>2. PICK n : n = Len(stack[t])
  OBVIOUS
<1>3. On(t, n, Top(t)) /\ Top(t).pc = pc(t) /\ Top(t) = stack[t][n]
  BY <1>1, <1>2, Below1
<1>4. n = 1 /\ Top(t) \in Frame
  BY <1>2, <1>3, EveryFrame DEF Fits
<1> QED
  BY <1>2, <1>3, <1>4, ClaimsAt

\* Only t, a caller, has a frame left, of a stop.
LEMMA AllCleared ==
  ASSUME ShopInv, NEW t \in Threads, pc(t) \in StopPcs, \A w \in Workers : pc(w) = "gone",
         NEW f \in Frame, f.pc = "create", stack' = [u \in Threads |-> IF u = t THEN <<f>> ELSE <<>>],
         UNCHANGED <<setup, queue, barrier, history>>, OthersTyped', pool' \in Nat, pool' <= Most
  PROVE  ShopInv' /\ InHand' = InHand
<1>1. f.pc \in StopPcs /\ f.pc \notin WorkerPcs /\ f.pc # "return"
  BY Kinds DEF StopPcs
<1>2. Claims(f) = {} /\ FrameOK(t, f)'
  BY <1>1, PlainFrame, ClaimsAt
<1>3. /\ stack'[t] = <<f>> /\ Len(stack'[t]) = 1 /\ 1..Len(stack'[t]) = {1} /\ stack'[t][1] = f
      /\ \A u \in Threads : u # t => stack'[u] = <<>> /\ Len(stack'[u]) = 0 /\ 1..Len(stack'[u]) = {}
  BY Tuples
<1>4. stack' \in [Threads -> Seq(Frame)]
  OBVIOUS
<1>5. Waiting' = Waiting /\ Disjoint(Threads, Queues, {})'
  BY WaitingStill
<1>6. Disjoint(Threads, Claimed', Waiting') /\ InHand' = InHand
  <2>1. ASSUME NEW u \in Threads
        PROVE  /\ \A i \in 1..Len(stack[u]) : Claims(stack[u][i]) = {}
               /\ \A i \in 1..Len(stack'[u]) : Claims(stack'[u][i]) = {}
    <3>1. CASE u = t
      <4>1. Len(stack[t]) = 1 /\ stack[t][1] = Top(t) /\ Claims(Top(t)) = {}
        BY StopAlone
      <4>2. \A i \in 1..Len(stack[t]) : i = 1
        BY <4>1
      <4> QED
        BY <1>2, <1>3, <3>1, <4>1, <4>2
    <3>2. CASE u # t
      <4>1. \A i \in 1..Len(stack[u]) : Claims(stack[u][i]) = {}
        BY <3>2, StoppedStacks
      <4> QED
        BY <1>3, <3>2, <4>1
    <3> QED
      BY <3>1, <3>2
  <2> QED
    BY <1>4, <1>5, <2>1, Rearranged
<1>7. t \in Callers
  BY Stopping
<1>8. (\A u \in Threads : \A i \in 1..Len(stack[u]) : FrameOK(u, stack[u][i]))'
  BY <1>2, <1>3
<1>9. (\A u \in Threads : ReturnOK(u))'
  BY <1>1, <1>3 DEF ReturnOK
<1>10. (\A u \in Threads : StackOK(u))'
  BY <1>1, <1>3, <1>7 DEF StackOK, Fits
<1>11. StopOK'
  <2>1. \A u \in Threads : pc(u)' \in StopPcs => u = t
    BY <1>3 DEF pc, StopPcs
  <2>2. Callers \subseteq Threads
    BY MostIs DEF ShopInv, Typed
  <2>3. \A u \in Threads : u \notin Callers => stack'[u] = <<>>
    BY <1>3, <1>7
  <2> QED
    BY <1>3, <2>1, <2>2, <2>3 DEF StopOK
<1>12. Kept({}, {})
  BY <1>4, <1>6, <1>8, <1>9, <1>10, <1>11 DEF Kept
<1>13. Typed'
  BY <1>4 DEF ShopInv, Typed, OthersTyped, history
<1> QED
  BY <1>5, <1>12, <1>13, Passed

LEMMA StopJoinKeeps ==
  ASSUME ShopInv, NEW t \in Threads, StopJoin(t)
  PROVE  ShopInv' /\ InHand' = InHand
<1>1. /\ pc(t) = "stop_wake" /\ \A w \in Workers : pc(w) = "gone"
      /\ UNCHANGED <<setup, queue, workItems, inFlight, rotor, division, barrier, history>>
  BY DEF StopJoin
<1>2. pc(t) \in StopPcs /\ pc(t) # "idle" /\ "stopped" \in StopPcs
  BY <1>1 DEF StopPcs
<1>3. Top(t) \in Frame /\ Top(t).pc \in StopPcs
  BY <1>2, Mine
<1>4. CASE Top(t).then = "stopped"
  <2>1. PICK g : g = [Top(t) EXCEPT !.pc = "stopped"]
    OBVIOUS
  <2>2. Goto(t, g) /\ UNCHANGED <<pool, tokens, brexit>>
    BY <1>4, <2>1 DEF StopJoin, GotoPc
  <2>3. g \in Frame /\ g.pc = "stopped"
    BY <1>2, <1>3, <2>1, StopOn
  <2>4. OthersTyped'
    BY <1>1, <2>2 DEF ShopInv, Typed, OthersTyped
  <2> QED
    BY <1>1, <1>2, <2>2, <2>3, <2>4, StopGoes
<1>5. CASE Top(t).then # "stopped"
  <2>1. PICK f : f = StopFrame("create", "")
    OBVIOUS
  <2>2. /\ pool' \in PoolSizes \ {pool} /\ tokens' = [w \in DOMAIN tokens |-> 0] /\ brexit' = (pool' = 0)
        /\ stack' = [p \in Threads |-> IF p \in Workers THEN <<>> ELSE IF p = t THEN <<f>> ELSE stack[p]]
    BY <1>5, <2>1 DEF StopJoin
  <2>3. f \in Frame /\ f.pc = "create"
    BY ONLY <2>1 DEF StopFrame, StopPcs, Frame
  <2>4. pool' \in Nat /\ pool' <= Most
    BY <2>2, MostIs DEF ShopInv, Typed
  <2>5. OthersTyped'
    <3>1. tokens' \in [0..(Most - 1) -> Nat] /\ brexit' \in BOOLEAN
      BY <2>2 DEF ShopInv, Typed
    <3> QED
      BY <1>1, <3>1 DEF ShopInv, Typed, OthersTyped
  <2>6. t \in Callers /\ \A c \in Callers : c # t => stack[c] = <<>>
    BY <1>2, Stopping
  <2>7. t \notin Workers
    BY <2>6, MostIs DEF Workers, ShopInv, Typed
  <2>8. ASSUME NEW u \in Threads, u \notin Workers, u # t
        PROVE  stack[u] = <<>>
    <3>1. CASE u \in Callers
      BY <2>6, <2>8, <3>1
    <3>2. CASE u \notin Callers
      <4>1. SUFFICES ASSUME stack[u] # <<>> PROVE FALSE
        OBVIOUS
      <4>2. stack[u] \in Seq(Frame)
        BY DEF ShopInv, Typed
      <4>3. 1 \in 1..Len(stack[u])
        BY <4>1, <4>2
      <4>4. Fits(u, stack[u][1], 1, Len(stack[u]))
        BY <4>3 DEF ShopInv, StackOK
      <4> QED
        BY <2>8, <3>2, <4>4 DEF Fits
    <3> QED
      BY <3>1, <3>2
  <2>9. stack' = [u \in Threads |-> IF u = t THEN <<f>> ELSE <<>>]
    BY <2>2, <2>7, <2>8
  <2> QED
    BY <1>1, <1>2, <2>3, <2>4, <2>5, <2>9, AllCleared
<1> QED
  BY <1>4, <1>5

\* A worker is started.
LEMMA WorkerStarted ==
  ASSUME ShopInv, NEW t \in Threads, pc(t) = "create", NEW k, k = Top(t).k, k < pool,
         stack' = [stack EXCEPT ![t] = <<[Top(t) EXCEPT !.k = @ + 1]>>, ![k] = <<WorkerFrame("own")>>],
         UNCHANGED <<setup, pool, queue, tokens, shared, barrier, history>>
  PROVE  ShopInv' /\ InHand' = InHand
<1>1. PICK f, g : f = [Top(t) EXCEPT !.k = @ + 1] /\ g = StealRec("own", {})
  OBVIOUS
<1>2. pc(t) \in StopPcs /\ pc(t) # "idle" /\ "own" \in WorkerPcs /\ {} \in SUBSET Threads
  BY DEF StopPcs, WorkerPcs
<1>3. Len(stack[t]) = 1 /\ stack[t][1] = Top(t) /\ Claims(Top(t)) = {} /\ Top(t) \in Frame
      /\ Top(t).pc = "create"
  BY <1>2, StopAlone
<1>4. f \in Frame /\ f.pc = "create" /\ f.k = k + 1 /\ k \in Nat
  <2>1. Top(t).k \in Nat /\ LET r == [Top(t) EXCEPT !.k = @ + 1]
                            IN  r \in Frame /\ r.pc = Top(t).pc /\ r.k = Top(t).k + 1
    BY <1>2, <1>3, StopOn
  <2> QED
    BY <1>1, <1>3, <2>1
<1>5. g \in Frame /\ g.pc = "own" /\ WorkerFrame("own") = g
  BY <1>1, <1>2, WorkerFields
<1>6. /\ f.pc \in StopPcs /\ f.pc \notin WorkerPcs /\ f.pc # "return"
      /\ g.pc \in WorkerPcs /\ g.pc \notin StopPcs /\ g.pc # "return"
  BY <1>2, <1>4, <1>5, Kinds DEF StopPcs, WorkerPcs
<1>7. t \in Callers /\ \A c \in Callers : c # t => stack[c] = <<>>
  BY <1>2, Stopping
<1>8. k \in Threads /\ k \notin Callers /\ k # t /\ k \in Workers
  <2>1. pool \in Nat /\ pool <= Most /\ Most \in Nat /\ NumCallers \in Nat \ {0}
    BY MostIs, ShopAssumption DEF ShopInv, Typed
  <2>2. k \in 0..(pool - 1) /\ k \in 0..(Most + NumCallers - 1) /\ ~(k >= Most)
    BY <1>4, <2>1
  <2> QED
    BY <1>7, <2>2, MostIs DEF ShopInv, Typed, Workers, Threads
<1>9. /\ stack[k] = <<>>
      /\ \A w \in Threads : w \notin Callers /\ k <= w => stack[w] = <<>>
  BY <1>2, <1>4, <1>7, <1>8 DEF ShopInv, StopOK
<1>10. stack \in [Threads -> Seq(Frame)]
  BY DEF ShopInv, Typed
<1>11. /\ stack' \in [Threads -> Seq(Frame)]
       /\ stack'[t] = <<f>> /\ stack'[k] = <<g>>
       /\ \A u \in Threads : u # t /\ u # k => stack'[u] = stack[u]
  <2>1. stack' = [stack EXCEPT ![t] = <<f>>, ![k] = <<g>>]
    BY <1>1, <1>5
  <2>2. <<f>> \in Seq(Frame) /\ <<g>> \in Seq(Frame)
    BY <1>4, <1>5
  <2>3. k # t /\ k \in Threads /\ t \in Threads
    BY <1>8
  <2> QED
    BY ONLY <1>10, <2>1, <2>2, <2>3
<1>12. /\ Len(stack'[t]) = 1 /\ 1..Len(stack'[t]) = {1} /\ stack'[t][1] = f
       /\ Len(stack'[k]) = 1 /\ 1..Len(stack'[k]) = {1} /\ stack'[k][1] = g
  BY <1>11, Tuples
<1>13. Waiting' = Waiting /\ Disjoint(Threads, Queues, {})'
  BY WaitingStill
<1>14. Claims(f) = {} /\ Claims(g) = {} /\ FrameOK(t, f)' /\ FrameOK(k, g)'
  BY <1>6, PlainFrame, ClaimsAt
<1>15. Disjoint(Threads, Claimed', Waiting') /\ InHand' = InHand
  <2>1. ASSUME NEW u \in Threads, stack'[u] # stack[u]
        PROVE  /\ \A i \in 1..Len(stack[u]) : Claims(stack[u][i]) = {}
               /\ \A i \in 1..Len(stack'[u]) : Claims(stack'[u][i]) = {}
    <3>1. CASE u = t
      <4>1. \A i \in 1..Len(stack[t]) : i = 1
        BY <1>3
      <4> QED
        BY <1>3, <1>12, <1>14, <3>1, <4>1
    <3>2. CASE u = k
      <4>1. Len(stack[k]) = 0 /\ 1..Len(stack[k]) = {}
        BY <1>9, Tuples
      <4> QED
        BY <1>12, <1>14, <3>2, <4>1
    <3> QED
      BY <1>11, <2>1, <3>1, <3>2
  <2> QED
    BY <1>11, <1>13, <2>1, Rearranged
<1>16. ASSUME NEW u \in Threads, NEW i \in 1..Len(stack'[u]), NEW h, h = stack'[u][i]
       PROVE  FrameOK(u, h)'
  <2>1. CASE u = t
    <3>1. h = f
      BY <1>12, <1>16, <2>1
    <3> QED
      BY <1>14, <2>1, <3>1
  <2>2. CASE u = k
    <3>1. h = g
      BY <1>12, <1>16, <2>2
    <3> QED
      BY <1>14, <2>2, <3>1
  <2>3. CASE u # t /\ u # k
    <3>1. FrameOK(u, h)
      BY <1>11, <1>16, <2>3 DEF ShopInv
    <3> QED
      BY <3>1, FrameStays
  <2> QED
    BY <2>1, <2>2, <2>3
<1>17. (\A u \in Threads : ReturnOK(u))'
  <2>1. ASSUME NEW u \in Threads PROVE ReturnOK(u)'
    <3>1. CASE u = t \/ u = k
      BY <1>6, <1>12, <3>1 DEF ReturnOK
    <3>2. CASE u # t /\ u # k
      BY <1>11, <3>2 DEF ReturnOK, ShopInv
    <3> QED
      BY <3>1, <3>2
  <2> QED
    BY <2>1
<1>18. (\A u \in Threads : StackOK(u))'
  <2>0. Workers' = Workers
    BY DEF Workers
  <2>1. ASSUME NEW u \in Threads PROVE StackOK(u)'
    <3>1. CASE u = t
      BY <1>6, <1>7, <1>12, <3>1 DEF StackOK, Fits
    <3>2. CASE u = k
      BY <1>6, <1>8, <1>12, <2>0, <3>2 DEF StackOK, Fits
    <3>3. CASE u # t /\ u # k
      BY <1>11, <2>0, <3>3 DEF StackOK, ShopInv, Fits
    <3> QED
      BY <3>1, <3>2, <3>3
  <2> QED
    BY <2>1
<1>19. StopOK'
  <2>1. pc(t)' = "create" /\ Top(t).k' = k + 1
    BY <1>4, <1>11, <1>12 DEF pc, Top
  <2>2. Callers \subseteq Threads
    BY MostIs DEF ShopInv, Typed
  <2>3. \A c \in Callers : c # t => stack'[c] = <<>>
    BY <1>7, <1>8, <1>11, <2>2
  <2>4. \A c \in Callers : pc(c)' \in StopPcs => c = t
    BY <2>3 DEF pc, StopPcs
  <2>5. \A w \in Threads : w \notin Callers /\ k + 1 <= w => stack'[w] = <<>>
    <3>1. \A w \in Threads : k + 1 <= w => k <= w /\ w # k
      <4>1. Threads \subseteq Int
        BY MostIs DEF Threads, ShopInv, Typed
      <4> QED
        BY ONLY <1>4, <4>1
    <3> QED
      BY <1>7, <1>9, <1>11, <3>1
  <2> QED
    BY <2>1, <2>3, <2>4, <2>5 DEF StopOK
<1>20. Kept({}, {})
  BY <1>11, <1>15, <1>16, <1>17, <1>18, <1>19 DEF Kept
<1>21. Typed'
  BY <1>11 DEF ShopInv, Typed, history, shared
<1> QED
  BY <1>13, <1>20, <1>21, Passed

LEMMA CreateNextKeeps ==
  ASSUME ShopInv, NEW t \in Threads, CreateNext(t)
  PROVE  ShopInv' /\ InHand' = InHand
<1>1. /\ pc(t) = "create" /\ UNCHANGED <<setup, pool, queue, tokens, shared, barrier, history>>
  BY DEF CreateNext
<1>2. CASE Top(t).k < pool
  BY <1>1, <1>2, WorkerStarted DEF CreateNext
<1>3. CASE ~(Top(t).k < pool)
  <2>1. Leave(t)
    BY <1>3 DEF CreateNext
  <2>2. pc(t) \in StopPcs /\ pc(t) # "idle" /\ pc(t) \notin RunPcs
    BY <1>1 DEF StopPcs, RunPcs
  <2>3. Claims(Top(t)) = {}
    BY <2>2, StopAlone
  <2>4. Waiting' = Waiting /\ Disjoint(Threads, Queues, {})'
    BY <1>1, WaitingStill
  <2>5. Trade(Claims(Top(t)), {}, {}, {}, {})
    BY <2>3, <2>4 DEF Trade, Trades
  <2>6. Steady /\ MyBarrier(t)
    BY <1>1, SteadyStill DEF MyBarrier, ShopInv, Typed
  <2>7. Kept({}, {})
    BY <2>1, <2>2, <2>5, <2>6, StepLeave
  <2>8. Typed'
    BY <1>1, <2>7 DEF ShopInv, Typed, Kept, shared, history
  <2> QED
    BY <1>1, <2>4, <2>7, <2>8, Passed
<1> QED
  BY <1>2, <1>3

LEMMA StopStepKeeps ==
  ASSUME ShopInv, NEW t \in Threads, StopStep(t)
  PROVE  ShopInv' /\ InHand' = InHand
BY StopFlagKeeps, StopWakeKeeps, StopJoinKeeps, CreateNextKeeps DEF StopStep

--------------------------------------------------------------------------------
(* Work that is done *)

\* Whoever is expected at a barrier are few enough.
LEMMA CountsFew ==
  ASSUME ShopInv, NEW s \in Spreads, NEW X, X \subseteq InHand, \A x \in X : x.kind = "count" /\ x.id = s
  PROVE  IsFiniteSet(X) /\ Cardinality(X) \in Nat /\ Cardinality(X) <= barrier[s] /\ barrier[s] \in Nat
<1>1. X \subseteq CountsOf(s) /\ CountsOf(s) \subseteq InHand
  BY DEF CountsOf
<1>2. IsFiniteSet(CountsOf(s)) /\ IsFiniteSet(InHand)
  BY <1>1, FS_Subset DEF ShopInv
<1>3. IsFiniteSet(X) /\ Cardinality(X) <= Cardinality(CountsOf(s))
  BY <1>1, <1>2, FS_Subset
<1>4. Cardinality(X) \in Nat /\ Cardinality(CountsOf(s)) \in Nat
  BY <1>2, <1>3, FS_CardinalityType
<1>5. Cardinality(CountsOf(s)) <= barrier[s] /\ barrier[s] \in Nat
  BY DEF ShopInv, BarrierOK, Typed
<1> QED
  BY <1>3, <1>4, <1>5

LEMMA CountIs ==
  ASSUME NEW s, NEW E
  PROVE  /\ \A x \in Counts(s, E) : x.kind = "count" /\ x.id = s /\ x.at \in E
         /\ \A e : Share("count", s, e) \in Counts(s, E) <=> e \in E
         /\ \A x \in Counts(s, E) : x = Share("count", s, x.at)
BY ShareFields DEF Counts

LEMMA IterIs ==
  ASSUME NEW s, NEW J
  PROVE  /\ \A x \in Iters(s, J) : x.kind = "iter" /\ x.id = s /\ x.at \in J
         /\ \A e : Share("iter", s, e) \in Iters(s, J) <=> e \in J
         /\ \A x \in Iters(s, J) : x = Share("iter", s, x.at)
BY ShareFields DEF Iters

LEMMA StepRun ==
  ASSUME ShopInv, Steady, barrier' \in [Spreads -> Nat], NEW t \in Threads, pc(t) \in RunPcs,
         NEW n, n = Len(stack[t]), NEW G, Shift(Frame, Threads, stack, stack', t, n - 1, G),
         Len(G) \in 0..1, Len(G) = 1 => G[1].pc = "completed", Spares(t, n - 1),
         n - 1 # 0 /\ stack[t][n - 1].pc = "return" => barrier'[stack[t][n - 1].id] = 0,
         \A u, i, f : On(u, i, f) /\ (u = t => i < n - 1) /\ f.pc = "return" => barrier'[f.id] = barrier[f.id],
         NEW new, NEW gone, Trade(Claims(Top(t)), First(ClaimOf, G), {}, new, gone)
  PROVE  Kept(new, gone)
<1>1. PICK b : b = n - 1
  OBVIOUS
<1>2. pc(t) # "idle" /\ pc(t) \notin WorkerPcs /\ pc(t) \notin StopPcs
  BY Kinds DEF RunPcs
<1>3. n \in Nat \ {0} /\ On(t, n, Top(t)) /\ Top(t) = stack[t][n] /\ pc(t) = Top(t).pc /\ stack[t] # <<>>
  BY <1>2, Below1, Turns DEF ShopInv, Typed
<1>4. b \in Nat /\ b + 1 = n /\ n # b
  BY <1>1, <1>3
<1>5. Shift(Frame, Threads, stack, stack', t, b, G) /\ Len(G) \in 0..2 /\ (Len(G) = 0 \/ Len(G) = 1)
      /\ \A i \in 1..Len(G) : i = 1 /\ Len(G) = 1
  <2>1. Len(G) = 0 \/ Len(G) = 1
    OBVIOUS
  <2>2. Len(G) \in 0..2 /\ \A i \in 1..Len(G) : i = 1 /\ Len(G) = 1
    BY SMTT(30), <2>1
  <2>3. Shift(Frame, Threads, stack, stack', t, b, G)
    BY <1>1
  <2> QED
    BY <2>1, <2>2, <2>3
<1>6. Popped(ClaimOf, stack, t, b) = Claims(Top(t)) /\ Second(ClaimOf, G) = {}
  <2>1. Top(t) \in Frame
    BY <1>3, EveryFrame
  <2> QED
    BY <1>1, <1>3, <1>4, <1>5, <2>1 DEF Popped, ClaimOf, Second
<1>7. Trade(Popped(ClaimOf, stack, t, b), First(ClaimOf, G), Second(ClaimOf, G), new, gone)
  BY <1>6, Zenon
<1>8. Len(G) = 1 => G[1].pc \in RunPcs /\ G[1].pc \notin WorkerPcs /\ G[1].pc \notin StopPcs /\ G[1].pc # "return"
  BY Kinds DEF RunPcs
<1>9. Placed(t, b, G)
  <2>1. b # 0 => stack[t][b].pc \notin StopPcs
    BY <1>1, <1>2, Below1
  <2>2. Fits(t, Top(t), n, n)
    BY <1>3, EveryFrame
  <2>3. b # 0 \/ t \in Callers
    <3>1. b = 0 => n = 1
      BY <1>4
    <3>2. Top(t).pc \notin WorkerPcs
      BY <1>2, <1>3
    <3> QED
      BY <2>2, <3>1, <3>2 DEF Fits
  <2>4. Len(G) = 1 => Fits(t, G[1], b + 1, b + 1)
    BY <1>4, <1>8, <2>3 DEF Fits
  <2> QED
    BY <1>5, <2>1, <2>4 DEF Placed
<1>10. Unstopped(t, G)
  BY <1>3, <1>5, <1>8 DEF Unstopped
<1>11. Returning(t, b, G)
  <2>1. \A i \in 1..Len(G) : G[i].pc # "return"
    BY <1>5, <1>8
  <2>2. Len(G) = 0 \/ (Len(G) = 1 /\ G[1].pc = "completed")
    <3>1. Len(G) = 0 \/ Len(G) = 1
      BY <1>5
    <3>2. CASE Len(G) = 1
      BY <3>2
    <3> QED
      BY <3>1, <3>2
  <2> QED
    BY <1>1, <2>1, <2>2 DEF Returning
<1>12. \A i \in 1..Len(G) : FrameOK(t, G[i])'
  BY <1>5, <1>8, PlainFrame
<1>13. Step(t, b, G, new, gone)
  BY <1>5, <1>7, <1>9, <1>10, <1>11, <1>12 DEF Step
<1>14. Spares(t, b)
  BY <1>1
<1> QED
  BY <1>13, <1>14, StepKeeps

\* The frame that runs something.
LEMMA RunsIt ==
  ASSUME ShopInv, NEW t \in Threads, pc(t) \in RunPcs, NEW f, f = Top(t)
  PROVE  /\ f \in Frame /\ f.pc = pc(t) /\ f.work \in Works /\ pc(t) # "idle"
         /\ Claims(f) \cap Waiting = {} /\ Claims(f) \subseteq InHand
         /\ \A l \in RunPcs : LET r == [f EXCEPT !.pc = l] IN r \in Frame /\ r.pc = l /\ r.work = f.work
<1>1. pc(t) # "idle"
  BY DEF RunPcs
<1>2. f \in Frame /\ f.pc = pc(t) /\ Claims(f) \cap Waiting = {} /\ Claims(f) \subseteq InHand
  BY <1>1, Mine
<1>3. f.work \in Works /\ \A l : [f EXCEPT !.pc = l] = RunRec(l, f.work)
  BY <1>2, RunShape
<1>4. \A l \in RunPcs : LET r == [f EXCEPT !.pc = l] IN r \in Frame /\ r.pc = l /\ r.work = f.work
  <2> TAKE l \in RunPcs
  <2>1. PICK r : r = RunRec(l, f.work)
    OBVIOUS
  <2>2. r \in Frame /\ r.pc = l /\ r.work = f.work
    BY <1>3, <2>1, RunFields
  <2> QED
    BY <1>3, <2>1, <2>2
<1> QED
  BY <1>1, <1>2, <1>3, <1>4

LEMMA WorkCompletedKeeps ==
  ASSUME ShopInv, NEW t \in Threads, WorkCompleted(t), NEW w, w = Top(t).work
  PROVE  /\ ShopInv' /\ InHand' = InHand \ DoneShares(w) /\ DoneShares(w) \subseteq InHand
         /\ w \in Works /\ workItems' = (workItems - 1) % HCRange /\ inFlight' = inFlight
<1>1. /\ pc(t) = "completed" /\ Leave(t) /\ workItems' = (workItems + (-1)) % HCRange
      /\ UNCHANGED <<setup, pool, queue, tokens, inFlight, rotor, brexit, division, barrier, history>>
  BY DEF WorkCompleted, AddItems
<1>2. pc(t) \in RunPcs
  BY <1>1 DEF RunPcs
<1>3. PICK f, n, G : f = Top(t) /\ n = Len(stack[t]) /\ G = <<>>
  OBVIOUS
<1>4. /\ f \in Frame /\ f.pc = "completed" /\ f.work \in Works /\ pc(t) # "idle" /\ f.work = w
      /\ Claims(f) \cap Waiting = {} /\ Claims(f) \subseteq InHand /\ Claims(f) = DoneShares(w)
  BY <1>1, <1>2, <1>3, RunsIt, ClaimsAt
<1>5. Len(G) = 0 /\ 1..Len(G) = {} /\ Len(G) \in 0..1 /\ Len(G) # 1
  BY <1>3, Tuples
<1>6. Shift(Frame, Threads, stack, stack', t, n - 1, G)
  <2>1. Shift(Frame, Threads, stack, stack', t, n - 1, <<>>)
    BY <1>1, <1>3, <1>4, Turns DEF ShopInv, Typed
  <2> QED
    BY <1>3, <2>1
<1>7. Waiting' = Waiting /\ Disjoint(Threads, Queues, {})'
  BY <1>1, WaitingStill
<1>8. PICK gone : gone = DoneShares(w)
  OBVIOUS
<1>9. First(ClaimOf, G) = {}
  BY <1>5 DEF First
<1>10. Trade(Claims(Top(t)), First(ClaimOf, G), {}, {}, gone)
  BY <1>3, <1>4, <1>7, <1>8, <1>9 DEF Trade, Trades
<1>11. Steady /\ barrier' \in [Spreads -> Nat] /\ barrier' = barrier
  BY <1>1, SteadyStill DEF ShopInv, Typed
<1>12. Spares(t, n - 1)
  BY <1>11 DEF Spares
<1>13. n - 1 # 0 /\ stack[t][n - 1].pc = "return" => barrier'[stack[t][n - 1].id] = 0
  BY <1>1, <1>3, <1>4, <1>11, Below1
<1>14. Kept({}, gone)
  BY <1>2, <1>3, <1>5, <1>6, <1>10, <1>11, <1>12, <1>13, StepRun
<1>15. InHand' = (InHand \cup {}) \ gone
  BY <1>14 DEF Kept
<1>16. Typed'
  <2>1. workItems' \in 0..(HCRange - 1)
    <3>1. -1 \in Int
      OBVIOUS
    <3> QED
      BY <1>1, <3>1, Counters
  <2> QED
    BY <1>1, <1>14, <2>1 DEF ShopInv, Typed, Kept, history
<1>17. workItems' = (workItems - 1) % HCRange
  BY <1>1 DEF ShopInv, Typed
<1>18. IsFiniteSet({})
  BY FS_EmptySet
<1>19. CASE w.kind = "chunk"
  <2>1. w.id \in Spreads /\ gone = {Share("ran", w.id, w.to)}
    BY <1>4, <1>8, <1>19, WorkShape DEF DoneShares
  <2>2. PICK s : s = w.id
    OBVIOUS
  <2>3. SpreadOK(s)'
    <3>1. \A e : /\ Share("iter", s, e) \in InHand' <=> Share("iter", s, e) \in InHand
                 /\ Share("call", s, e) \in InHand' <=> Share("call", s, e) \in InHand
                 /\ Share("count", s, e) \in InHand' <=> Share("count", s, e) \in InHand
                 /\ Share("ran", s, e) \in InHand' => Share("ran", s, e) \in InHand
      BY <1>15, <2>1, <2>2, ShareFields
    <3>2. CountsOf(s)' = CountsOf(s)
      BY <1>15, <2>1, <2>2, ShareFields DEF CountsOf
    <3>3. SharesOK(s) /\ BarrierOK(s)
      BY <2>1, <2>2 DEF ShopInv
    <3>4. SharesOK(s)'
      BY <1>1, <3>1, <3>3 DEF SharesOK, history
    <3>5. BarrierOK(s)'
      BY <1>1, <1>11, <3>1, <3>2, <3>3 DEF BarrierOK, history
    <3> QED
      BY <3>4, <3>5 DEF SpreadOK
  <2>4. OfSpread(s, {}) /\ OfSpread(s, gone)
    BY <2>1, <2>2, ShareFields DEF OfSpread, SpreadKinds
  <2>5. \A u \in Spreads \ {s} : Untouched(u)
    BY <1>1 DEF Untouched, history
  <2>6. ShopInv'
    BY <1>1, <1>7, <1>14, <1>16, <1>18, <2>1, <2>2, <2>3, <2>4, <2>5, SpreadMoves DEF history
  <2> QED
    BY <1>1, <1>4, <1>8, <1>15, <1>17, <2>6
<1>20. CASE w.kind # "chunk"
  <2>1. w.id \in Items /\ gone = {Share("over", w.id, 0)}
    BY <1>4, <1>8, <1>20, WorkShape DEF DoneShares
  <2>2. PICK i : i = w.id
    OBVIOUS
  <2>3. ItemOK(i)'
    <3>1. \A k \in {"todo", "item", "owed", "track"} : Share(k, i, 0) \in InHand' <=> Share(k, i, 0) \in InHand
      BY <1>15, <2>1, <2>2, ShareFields
    <3>2. InHand' \subseteq InHand
      BY <1>15
    <3>3. ItemOK(i)
      BY <2>1, <2>2 DEF ShopInv
    <3> QED
      BY <1>1, <3>1, <3>2, <3>3 DEF ItemOK, history
  <2>4. OfItem(i, {}) /\ OfItem(i, gone)
    BY <2>1, <2>2, ShareFields DEF OfItem, SpreadKinds
  <2>5. \A j \in Items \ {i} : Unmoved(j)
    BY <1>1 DEF Unmoved, history
  <2>6. ShopInv'
    BY <1>1, <1>7, <1>14, <1>16, <1>18, <2>1, <2>2, <2>3, <2>4, <2>5, ItemMoves DEF history
  <2> QED
    BY <1>1, <1>4, <1>8, <1>15, <1>17, <2>6
<1> QED
  BY <1>19, <1>20

\* Other calls that are about to return have nobody to wait for any more.
StillReturning(t, n) ==
  \A u, i, f : On(u, i, f) /\ (u = t => i < n - 1) /\ f.pc = "return" => barrier'[f.id] = barrier[f.id]

\* What the functor's return does to the stack.
LEMMA BodyDone ==
  ASSUME ShopInv, Steady, barrier' \in [Spreads -> Nat], NEW t \in Threads, pc(t) = "body", NEW w, w = Top(t).work,
         GotoPc(t, "completed"), queue' = queue, NEW n, n = Len(stack[t]), Spares(t, n - 1),
         n - 1 # 0 /\ stack[t][n - 1].pc = "return" => barrier'[stack[t][n - 1].id] = 0,
         StillReturning(t, n), DoneShares(w) \cap InHand = {}
  PROVE  Kept(DoneShares(w), WorkShares(w))
<1>1. pc(t) \in RunPcs /\ "completed" \in RunPcs
  BY DEF RunPcs
<1>2. PICK f, g, G : f = Top(t) /\ g = [f EXCEPT !.pc = "completed"] /\ G = <<g>>
  OBVIOUS
<1>3. /\ f \in Frame /\ f.pc = "body" /\ f.work \in Works /\ pc(t) # "idle" /\ f.work = w
      /\ Claims(f) \cap Waiting = {} /\ Claims(f) \subseteq InHand /\ Claims(f) = WorkShares(w)
  BY <1>1, <1>2, RunsIt, ClaimsAt
<1>4. g \in Frame /\ g.pc = "completed" /\ g.work = w
  BY <1>1, <1>2, <1>3, RunsIt
<1>5. Claims(g) = DoneShares(w)
  BY <1>4, ClaimsAt
<1>6. Len(G) = 1 /\ G[1] = g /\ Len(G) \in 0..1
  BY <1>2, Tuples
<1>7. Shift(Frame, Threads, stack, stack', t, n - 1, G)
  <2>1. Goto(t, g)
    BY <1>2 DEF GotoPc
  <2>2. Shift(Frame, Threads, stack, stack', t, n - 1, <<g>>)
    BY <1>3, <1>4, <2>1, Turns DEF ShopInv, Typed
  <2> QED
    BY <1>2, <2>2
<1>8. First(ClaimOf, G) = DoneShares(w)
  BY <1>4, <1>5, <1>6 DEF First, ClaimOf
<1>9. Waiting' = Waiting /\ Waiting \subseteq InHand
  BY WaitingStill DEF InHand, Taken
<1>10. PICK new, gone : new = DoneShares(w) /\ gone = WorkShares(w)
  OBVIOUS
<1>11. Trade(Claims(Top(t)), First(ClaimOf, G), {}, new, gone)
  BY <1>2, <1>3, <1>8, <1>9, <1>10 DEF Trade, Trades, InHand
<1>12. Kept(new, gone)
  BY <1>1, <1>4, <1>6, <1>7, <1>11, StepRun DEF StillReturning
<1> QED
  BY <1>10, <1>12

\* An item has run.
LEMMA ItemRan ==
  ASSUME ShopInv, NEW t \in Threads, FinishBody(t), NEW w, w = Top(t).work, w.kind = "item"
  PROVE  /\ ShopInv' /\ w.id \in Items /\ Share("item", w.id, 0) \in InHand /\ Share("over", w.id, 0) \notin InHand
         /\ InHand' = (InHand \cup {Share("over", w.id, 0)}) \ {Share("item", w.id, 0)}
         /\ inFlight' = (inFlight - 1) % SizeRange /\ workItems' = workItems
<1>1. PICK i, new, gone : i = w.id /\ new = {Share("over", i, 0)} /\ gone = {Share("item", i, 0)}
  OBVIOUS
<1>2. /\ pc(t) = "body" /\ ran' = [ran EXCEPT ![i] = @ + 1] /\ inFlight' = (inFlight + (-1)) % SizeRange
      /\ GotoPc(t, "completed")
      /\ UNCHANGED <<setup, pool, barrier, hits>>
      /\ UNCHANGED <<setup, pool, queue, tokens, workItems, rotor, brexit, division, firer, accepted, calls>>
  BY <1>1 DEF FinishBody, AddFlight
<1>3. pc(t) \in RunPcs /\ pc(t) # "idle"
  BY <1>2 DEF RunPcs
<1>4. w \in Works /\ Claims(Top(t)) \subseteq InHand /\ Claims(Top(t)) = WorkShares(w)
  BY <1>2, <1>3, RunsIt, ClaimsAt
<1>5. i \in Items /\ WorkShares(w) = gone /\ DoneShares(w) = new
  BY <1>1, <1>4, WorkShape DEF WorkShares, DoneShares
<1>6. /\ Share("item", i, 0) \in InHand /\ ran[i] = 0 /\ ItemOK(i)
  BY <1>1, <1>4, <1>5 DEF ShopInv, ItemOK
<1>7. Share("over", i, 0) \notin InHand /\ Share("todo", i, 0) \notin InHand
  BY <1>6 DEF ItemOK
<1>8. Steady /\ barrier' \in [Spreads -> Nat] /\ barrier' = barrier
  BY <1>2 DEF Steady, ShopInv, Typed
<1>9. PICK n : n = Len(stack[t])
  OBVIOUS
<1>10. Spares(t, n - 1) /\ StillReturning(t, n)
  BY <1>8 DEF Spares, StillReturning
<1>11. n - 1 # 0 => stack[t][n - 1].pc # "return"
  <2>1. ~ChunkOf(Top(t).work, stack[t][n - 1].id)
    BY DEF ChunkOf
  <2> QED
    BY <1>2, <1>3, <1>9, <2>1, Below1
<1>12. Kept(new, gone)
  <2>1. DoneShares(w) \cap InHand = {}
    BY <1>1, <1>5, <1>7
  <2>2. queue' = queue
    BY <1>2
  <2>3. Kept(DoneShares(w), WorkShares(w))
    BY <1>2, <1>8, <1>9, <1>10, <1>11, <2>1, <2>2, BodyDone
  <2> QED
    BY <1>5, <2>3
<1>13. InHand' = (InHand \cup new) \ gone
  BY <1>12 DEF Kept
<1>14. Waiting' = Waiting /\ Disjoint(Threads, Queues, {})'
  BY <1>2, WaitingStill
<1>15. ran' \in [Items -> {0, 1}] /\ ran'[i] = 1 /\ \A j \in Items \ {i} : ran'[j] = ran[j]
  BY <1>2, <1>5, <1>6 DEF ShopInv, Typed
<1>16. Typed'
  <2>1. inFlight' \in 0..(SizeRange - 1)
    <3>1. -1 \in Int
      OBVIOUS
    <3> QED
      BY <1>2, <3>1, Counters
  <2> QED
    BY <1>2, <1>12, <1>15, <2>1 DEF ShopInv, Typed, Kept
<1>17. ItemOK(i)'
  <2>1. \A k \in {"owed", "track"} : Share(k, i, 0) \in InHand' <=> Share(k, i, 0) \in InHand
    BY <1>1, <1>13, ShareFields
  <2>2. Share("todo", i, 0) \notin InHand' /\ Share("item", i, 0) \notin InHand'
    BY <1>1, <1>7, <1>13, ItemShares
  <2> QED
    BY <1>2, <1>6, <1>15, <2>1, <2>2 DEF ItemOK
<1>18. OfItem(i, new) /\ OfItem(i, gone) /\ IsFiniteSet(new)
  BY <1>1, ItemShares, FewFinite DEF OfItem
<1>19. \A j \in Items \ {i} : Unmoved(j)
  BY <1>2, <1>15 DEF Unmoved
<1>20. ShopInv'
  <2>1. UNCHANGED <<setup, barrier, calls, hits>>
    BY <1>2
  <2> QED
    BY <1>5, <1>12, <1>14, <1>16, <1>17, <1>18, <1>19, <2>1, ItemMoves
<1>21. inFlight' = (inFlight - 1) % SizeRange
  BY <1>2 DEF ShopInv, Typed
<1> QED
  BY <1>1, <1>2, <1>5, <1>6, <1>7, <1>13, <1>20, <1>21

\* A chunk that is run is expected at the barrier, ...
LEMMA ChunkRuns ==
  ASSUME ShopInv, NEW t, NEW i, NEW f, On(t, i, f), f.pc = "body", NEW s, ChunkOf(f.work, s)
  PROVE  /\ s \in Spreads /\ f.work \in Works /\ Its(f.work) \subseteq Nat \ {0} /\ f.work.to \in Its(f.work)
         /\ Claims(f) = Iters(s, Its(f.work)) \cup Counts(s, {f.work.to}) /\ Claims(f) \subseteq InHand
         /\ Share("count", s, f.work.to) \in Claims(f)
<1>1. f \in Frame /\ Claims(f) \subseteq InHand
  BY EveryFrame
<1>2. f.work \in Works /\ Claims(f) = WorkShares(f.work)
  BY <1>1, RunShape, ClaimsAt DEF RunPcs
<1>3. f.work.kind = "chunk" /\ f.work.id = s
  BY DEF ChunkOf
<1>4. s \in Spreads /\ f.work.from \in Nat /\ f.work.to \in Nat /\ f.work.from < f.work.to
  BY <1>2, <1>3, WorkShape
<1>5. Its(f.work) \subseteq Nat \ {0} /\ f.work.to \in Its(f.work)
  BY <1>4 DEF Its
<1>6. Claims(f) = Iters(s, Its(f.work)) \cup Counts(s, {f.work.to})
  BY <1>2, <1>3 DEF WorkShares
<1> QED
  BY <1>1, <1>2, <1>4, <1>5, <1>6, CountIs

\* ... so that whoever has the spread to himself has started no such chunk, and ...
LEMMA NobodyRuns ==
  ASSUME ShopInv, NEW t, NEW i, NEW f, On(t, i, f), f.pc = "body", NEW s, ChunkOf(f.work, s),
         NEW u, NEW j, NEW g, On(u, j, g), g.pc \in SpreadPcs, g.id = s, t # u \/ i # j
  PROVE  g.pc \notin AlonePcs
<1>1. SUFFICES ASSUME g.pc \in AlonePcs PROVE FALSE
  OBVIOUS
<1>2. s \in Spreads /\ Share("count", s, f.work.to) \in Claims(f) /\ Claims(f) \subseteq InHand
  BY ChunkRuns
<1>3. Claims(f) \cap Claims(g) = {}
  BY Own
<1>4. FrameOK(u, g) /\ g \in Frame /\ Claims(g) \subseteq InHand
  BY EveryFrame
<1>5. barrier[s] = Cardinality(Counts(s, Owes(g)))
  BY <1>1, <1>4 DEF FrameOK
<1>6. Counts(s, Owes(g)) \subseteq Claims(g)
  BY ClaimsAt DEF SpreadShares
<1>7. PICK X, c : X = Counts(s, Owes(g)) /\ c = Share("count", s, f.work.to)
  OBVIOUS
<1>8. c \notin X /\ X \cup {c} \subseteq InHand /\ \A x \in X \cup {c} : x.kind = "count" /\ x.id = s
  BY <1>2, <1>3, <1>4, <1>6, <1>7, CountIs, ShareFields
<1>9. IsFiniteSet(X \cup {c}) /\ Cardinality(X \cup {c}) <= barrier[s] /\ barrier[s] \in Nat
  BY <1>2, <1>8, CountsFew
<1>10. IsFiniteSet(X)
  BY <1>9, FS_Subset
<1>11. Cardinality(X \cup {c}) = Cardinality(X) + 1 /\ Cardinality(X) \in Nat
  BY <1>8, <1>10, FS_AddElement, FS_CardinalityType
<1> QED
  BY <1>5, <1>7, <1>9, <1>11

\* ... whoever is about to return from it runs the last one.
LEMMA LastRuns ==
  ASSUME ShopInv, NEW t, NEW i, NEW f, On(t, i, f), f.pc = "body", NEW s, ChunkOf(f.work, s),
         NEW u, NEW j, NEW g, On(u, j, g), g.pc = "return", g.id = s
  PROVE  u = t /\ j + 1 = i /\ barrier[s] = 1
<1>1. s \in Spreads /\ Share("count", s, f.work.to) \in Claims(f) /\ Claims(f) \subseteq InHand
  BY ChunkRuns
<1>2. PICK c : c = Share("count", s, f.work.to)
  OBVIOUS
<1>3. /\ IsFiniteSet({c}) /\ Cardinality({c}) <= barrier[s] /\ barrier[s] \in Nat /\ c.kind = "count" /\ c.id = s
  <2>1. {c} \subseteq InHand /\ \A x \in {c} : x.kind = "count" /\ x.id = s
    BY <1>1, <1>2, ShareFields
  <2> QED
    BY <1>1, <2>1, CountsFew
<1>4. barrier[s] # 0
  <2>1. Cardinality({c}) = 1
    BY FS_Singleton
  <2> QED
    BY <1>3, <2>1
<1>5. /\ j < Len(stack[u]) /\ stack[u][j + 1].pc = "body" /\ ChunkOf(stack[u][j + 1].work, s) /\ barrier[s] = 1
  <2>1. u \in Threads /\ j \in 1..Len(stack[u]) /\ stack[u][j].pc = "return" /\ stack[u][j].id = s
    BY DEF On
  <2> QED
    BY <1>4, <2>1 DEF ShopInv, ReturnOK
<1>6. PICK k, h : k = j + 1 /\ h = stack[u][k]
  OBVIOUS
<1>7. On(u, k, h)
  <2>1. u \in Threads /\ j \in 1..Len(stack[u]) /\ stack[u] \in Seq(Frame)
    BY DEF On, ShopInv, Typed
  <2>2. j + 1 \in 1..Len(stack[u])
    BY <1>5, <2>1
  <2> QED
    BY <1>6, <2>1, <2>2 DEF On
<1>8. ASSUME t # u \/ i # k PROVE FALSE
  <2>1. h.pc = "body" /\ ChunkOf(h.work, s)
    BY <1>5, <1>6
  <2>2. Share("count", s, h.work.to) \in Claims(h) /\ Claims(h) \subseteq InHand
    BY <1>7, <2>1, ChunkRuns
  <2>3. Claims(f) \cap Claims(h) = {}
    BY <1>7, <1>8, Own
  <2>4. PICK d : d = Share("count", s, h.work.to)
    OBVIOUS
  <2>5. d \notin {c} /\ {c} \cup {d} \subseteq InHand /\ \A x \in {c} \cup {d} : x.kind = "count" /\ x.id = s
    BY <1>1, <1>2, <2>2, <2>3, <2>4, ShareFields
  <2>6. Cardinality({c} \cup {d}) <= barrier[s]
    BY <1>1, <2>5, CountsFew
  <2>7. Cardinality({c} \cup {d}) = Cardinality({c}) + 1 /\ Cardinality({c}) = 1
    BY <1>3, <2>5, FS_AddElement, FS_Singleton
  <2>8. Cardinality({c} \cup {d}) = 2
    BY ONLY <2>7
  <2>9. barrier[s] = 1
    BY <1>5
  <2> QED
    BY ONLY <2>6, <2>8, <2>9
<1> QED
  BY <1>5, <1>6, <1>8

\* The iterations of J run.
LEMMA HitsOnce ==
  ASSUME NEW h, h \in Seq({0, 1}), NEW J, \A i \in J : i \in DOMAIN h /\ h[i] = 0,
         NEW r, r = [i \in DOMAIN h |-> IF i \in J THEN h[i] + 1 ELSE h[i]]
  PROVE  /\ r \in Seq({0, 1}) /\ DOMAIN r = DOMAIN h /\ Len(r) = Len(h)
         /\ \A i \in J : r[i] = 1
         /\ \A i \in DOMAIN h : i \notin J => r[i] = h[i]
<1>1. PICK n \in Nat : DOMAIN h = 1..n /\ Len(h) = n
  OBVIOUS
<1>2. \A i \in 1..n : h[i] \in {0, 1}
  BY <1>1
<1>3. \A i \in 1..n : r[i] \in {0, 1} /\ (i \in J => r[i] = 1) /\ (i \notin J => r[i] = h[i])
  BY <1>1, <1>2
<1>4. r = [i \in 1..n |-> r[i]]
  BY <1>1
<1>5. r \in Seq({0, 1})
  BY <1>3, <1>4
<1>6. DOMAIN r = DOMAIN h
  OBVIOUS
<1>7. Len(r) = n
  BY <1>1, <1>5, <1>6
<1> QED
  BY <1>1, <1>3, <1>5, <1>6, <1>7

LEMMA ChunkRan ==
  ASSUME ShopInv, NEW t \in Threads, FinishBody(t), NEW w, w = Top(t).work, w.kind = "chunk"
  PROVE  /\ ShopInv' /\ w \in Works /\ WorkShares(w) \subseteq InHand /\ DoneShares(w) \cap InHand = {}
         /\ InHand' = (InHand \cup DoneShares(w)) \ WorkShares(w)
         /\ inFlight' = inFlight /\ workItems' = workItems
<1>1. PICK s, J, e, h, f, n : /\ s = w.id /\ J = Its(w) /\ e = w.to /\ h = hits[s] /\ f = Top(t)
                              /\ n = Len(stack[t])
  OBVIOUS
<1>2. /\ pc(t) = "body" /\ barrier' = [barrier EXCEPT ![s] = @ - 1]
      /\ hits' = [hits EXCEPT ![s] = [i \in DOMAIN @ |-> IF i \in J THEN @[i] + 1 ELSE @[i]]]
      /\ GotoPc(t, "completed")
      /\ UNCHANGED <<setup, pool, ran, inFlight>>
      /\ UNCHANGED <<setup, pool, queue, tokens, workItems, rotor, brexit, division, firer, accepted, calls>>
  BY <1>1 DEF FinishBody, Its
<1>3. pc(t) \in RunPcs /\ pc(t) # "idle"
  BY <1>2 DEF RunPcs
<1>4. On(t, n, f) /\ f.pc = "body" /\ f.work = w /\ ChunkOf(f.work, s)
  BY <1>1, <1>2, <1>3, Below1 DEF ChunkOf
<1>5. /\ s \in Spreads /\ w \in Works /\ J \subseteq Nat \ {0} /\ e \in J
      /\ WorkShares(w) = Iters(s, J) \cup Counts(s, {e}) /\ WorkShares(w) \subseteq InHand
      /\ Share("count", s, e) \in InHand
  <2>1. /\ s \in Spreads /\ f.work \in Works /\ Its(f.work) \subseteq Nat \ {0} /\ f.work.to \in Its(f.work)
        /\ Claims(f) = Iters(s, Its(f.work)) \cup Counts(s, {f.work.to}) /\ Claims(f) \subseteq InHand
        /\ Share("count", s, f.work.to) \in Claims(f)
    BY <1>4, ChunkRuns
  <2>2. Claims(f) = WorkShares(w)
    BY <1>4, ClaimsAt
  <2>3. Share("count", s, e) \in InHand
    BY <1>1, <1>4, <2>1
  <2> QED
    BY <1>1, <1>4, <2>1, <2>2, <2>3
<1>6. SharesOK(s) /\ BarrierOK(s)
  BY <1>5 DEF ShopInv
<1>7. \A i \in J : Share("iter", s, i) \in InHand
  BY <1>5, IterIs
<1>8. calls[s] = "active" /\ \A i \in J : i \in DOMAIN h /\ h[i] = 0
  BY <1>1, <1>5, <1>6, <1>7 DEF SharesOK
<1>9. h \in Seq({0, 1}) /\ hits \in [Spreads -> Seq({0, 1})] /\ barrier \in [Spreads -> Nat]
  BY <1>1, <1>5 DEF ShopInv, Typed
<1>10. PICK r : r = hits'[s]
  OBVIOUS
<1>11. r = [i \in DOMAIN h |-> IF i \in J THEN h[i] + 1 ELSE h[i]] /\ hits' = [hits EXCEPT ![s] = r]
  BY <1>1, <1>2, <1>5, <1>9, <1>10
<1>12. /\ r \in Seq({0, 1}) /\ DOMAIN r = DOMAIN h /\ Len(r) = Len(h)
       /\ \A i \in J : r[i] = 1
       /\ \A i \in DOMAIN h : i \notin J => r[i] = h[i]
  BY <1>8, <1>9, <1>11, HitsOnce
<1>13. hits' \in [Spreads -> Seq({0, 1})] /\ \A u \in Spreads : u # s => hits'[u] = hits[u]
  BY <1>9, <1>11, <1>12
<1>14. barrier[s] \in Nat \ {0}
  <2>1. PICK c : c = Share("count", s, e)
    OBVIOUS
  <2>2. {c} \subseteq InHand /\ \A x \in {c} : x.kind = "count" /\ x.id = s
    BY <1>5, <2>1, ShareFields
  <2>3. Cardinality({c}) <= barrier[s] /\ barrier[s] \in Nat /\ Cardinality({c}) = 1
    BY <1>5, <2>2, CountsFew, FS_Singleton
  <2> QED
    BY <2>3
<1>15. /\ barrier' \in [Spreads -> Nat] /\ barrier'[s] = barrier[s] - 1 /\ barrier'[s] <= barrier[s]
       /\ \A u \in Spreads : u # s => barrier'[u] = barrier[u]
  BY <1>2, <1>5, <1>9, <1>14
<1>16. Steady
  <2>1. \A u \in Spreads : Len(hits'[u]) = Len(hits[u])
    BY <1>1, <1>10, <1>12, <1>13
  <2> QED
    BY <1>2, <2>1 DEF Steady
<1>17. ~(n <= n - 1) /\ ~(n < n - 1) /\ n \in Nat \ {0}
  BY <1>1, <1>3, Below1
<1>18. Spares(t, n - 1)
  <2>1. ASSUME NEW u, NEW i, NEW g, On(u, i, g), u = t => i <= n - 1, g.pc \in SpreadPcs
        PROVE  \/ barrier'[g.id] = barrier[g.id]
               \/ g.pc \notin AlonePcs /\ barrier'[g.id] <= barrier[g.id]
    <3>1. t # u \/ n # i
      BY <1>17, <2>1
    <3>2. g.id \in Spreads
      BY <2>1, CallsActive
    <3>3. g.id = s => g.pc \notin AlonePcs
      BY <1>4, <2>1, <3>1, NobodyRuns
    <3> QED
      BY <1>15, <3>2, <3>3
  <2> QED
    BY <2>1 DEF Spares
<1>19. n - 1 # 0 /\ stack[t][n - 1].pc = "return" => barrier'[stack[t][n - 1].id] = 0
  <2>1. ASSUME n - 1 # 0, stack[t][n - 1].pc = "return" PROVE barrier'[stack[t][n - 1].id] = 0
    <3>1. \/ pc(t) = "completed" /\ barrier[stack[t][n - 1].id] = 0
          \/ pc(t) = "body" /\ ChunkOf(Top(t).work, stack[t][n - 1].id) /\ barrier[stack[t][n - 1].id] = 1
      BY <1>1, <1>3, <2>1, Below1
    <3>2. stack[t][n - 1].id = s /\ barrier[s] = 1
      BY <1>1, <1>2, <3>1 DEF ChunkOf
    <3> QED
      BY <1>15, <3>2
  <2> QED
    BY <2>1
<1>20. StillReturning(t, n)
  <2>1. ASSUME NEW u, NEW i, NEW g, On(u, i, g), u = t => i < n - 1, g.pc = "return"
        PROVE  barrier'[g.id] = barrier[g.id]
    <3>1. g.id \in Spreads
      BY <2>1, CallsActive, ReturnIsSpread
    <3>2. ASSUME g.id = s PROVE FALSE
      <4>1. u = t /\ i + 1 = n
        BY <1>4, <2>1, <3>2, LastRuns
      <4>2. i \in Nat
        BY <2>1 DEF On, ShopInv, Typed
      <4> QED
        BY <1>17, <2>1, <4>1, <4>2
    <3> QED
      BY <1>15, <3>1, <3>2
  <2> QED
    BY <2>1 DEF StillReturning
<1>21. DoneShares(w) = {Share("ran", s, e)} /\ Share("ran", s, e) \notin InHand
  <2>1. h[e] = 0
    BY <1>5, <1>8
  <2> QED
    BY <1>1, <1>6, <2>1 DEF DoneShares, SharesOK
<1>22. PICK new, gone : new = {Share("ran", s, e)} /\ gone = WorkShares(w)
  OBVIOUS
<1>23. Kept(new, gone)
  <2>1. DoneShares(w) \cap InHand = {}
    BY <1>21
  <2>2. queue' = queue
    BY <1>2
  <2>3. ShopInv /\ w = Top(t).work /\ n = Len(stack[t]) /\ t \in Threads /\ pc(t) = "body" /\ GotoPc(t, "completed")
    BY <1>1, <1>2
  <2>4. Kept(DoneShares(w), WorkShares(w))
    BY ONLY <1>15, <1>16, <1>18, <1>19, <1>20, <2>1, <2>2, <2>3, BodyDone
  <2> QED
    BY <1>21, <1>22, <2>4
<1>24. InHand' = (InHand \cup new) \ gone
  BY <1>23 DEF Kept
<1>25. Disjoint(Threads, Queues, {})'
  BY <1>2, WaitingStill
<1>26. Typed'
  BY <1>2, <1>13, <1>15, <1>23 DEF ShopInv, Typed, Kept
<1>27. /\ \A i : Share("iter", s, i) \in InHand' <=> Share("iter", s, i) \in InHand /\ i \notin J
       /\ \A i : Share("call", s, i) \in InHand' <=> Share("call", s, i) \in InHand
       /\ \A i : Share("count", s, i) \in InHand' => Share("count", s, i) \in InHand
       /\ \A i : Share("ran", s, i) \in InHand' => i = e \/ Share("ran", s, i) \in InHand
  BY <1>5, <1>22, <1>24, ShareFields, IterIs, CountIs
<1>28. SharesOK(s)'
  <2>1. calls'[s] = "active" /\ hits'[s] = r /\ DOMAIN hits'[s] = DOMAIN h
    BY <1>2, <1>8, <1>10, <1>12
  <2>2. ASSUME NEW i, Share("iter", s, i) \in InHand' PROVE i \in DOMAIN hits'[s] /\ hits'[s][i] = 0
    <3>1. i \notin J /\ i \in DOMAIN h /\ h[i] = 0
      BY <1>1, <1>6, <1>27, <2>2 DEF SharesOK
    <3> QED
      BY <1>12, <2>1, <3>1
  <2>3. ASSUME NEW i, Share("ran", s, i) \in InHand' PROVE i \in DOMAIN hits'[s] /\ hits'[s][i] = 1
    <3>1. CASE i = e
      BY <1>5, <1>8, <1>12, <2>1, <3>1
    <3>2. CASE i # e
      <4>1. i \in DOMAIN h /\ h[i] = 1
        BY <1>1, <1>6, <1>27, <2>3, <3>2 DEF SharesOK
      <4>2. i \notin J
        BY <1>8, <4>1
      <4> QED
        BY <1>12, <2>1, <4>1, <4>2
    <3> QED
      BY <3>1, <3>2
  <2> QED
    BY <2>1, <2>2, <2>3 DEF SharesOK
<1>29. /\ CountsOf(s)' = CountsOf(s) \ {Share("count", s, e)} /\ Share("count", s, e) \in CountsOf(s)
       /\ IsFiniteSet(CountsOf(s))
  <2>1. Share("count", s, e) \in CountsOf(s)
    BY <1>5, ShareFields DEF CountsOf
  <2>2. CountsOf(s)' = {x \in InHand' : x.kind = "count" /\ x.id = s}
    BY DEF CountsOf
  <2>3. \A x : x.kind = "count" => (x \in gone <=> x = Share("count", s, e)) /\ x \notin new
    <3>1. \A x \in Iters(s, J) : x.kind = "iter"
      BY IterIs
    <3>2. Counts(s, {e}) = {Share("count", s, e)}
      BY DEF Counts
    <3>3. gone = Iters(s, J) \cup {Share("count", s, e)}
      BY <1>5, <1>22, <3>2
    <3> QED
      BY <1>22, <3>1, <3>3, ShareFields
  <2>4. CountsOf(s)' = CountsOf(s) \ {Share("count", s, e)}
    BY <1>24, <2>2, <2>3 DEF CountsOf
  <2>5. IsFiniteSet(CountsOf(s))
    <3>1. CountsOf(s) \subseteq InHand
      BY DEF CountsOf
    <3> QED
      BY <3>1, FS_Subset DEF ShopInv
  <2> QED
    BY <2>1, <2>4, <2>5
<1>30. PICK X, Y : X = CountsOf(s) /\ Y = CountsOf(s)'
  OBVIOUS
<1>31. Cardinality(Y) = Cardinality(X) - 1 /\ Cardinality(X) \in Nat /\ Cardinality(Y) \in Nat
  <2>1. IsFiniteSet(X) /\ Share("count", s, e) \in X /\ Y = X \ {Share("count", s, e)}
    BY <1>29, <1>30
  <2>2. IsFiniteSet(Y) /\ Cardinality(Y) = Cardinality(X) - 1
    BY <2>1, FS_RemoveElement
  <2> QED
    BY <2>1, <2>2, FS_CardinalityType
<1>32. BarrierOK(s)'
  <2>1. /\ Cardinality(Y) <= barrier'[s]
        /\ "part" \notin setup'.faults => barrier'[s] = Cardinality(Y)
        /\ barrier'[s] = Cardinality(Y) => barrier[s] = Cardinality(X)
    <3>1. /\ Cardinality(X) <= barrier[s]
          /\ "part" \notin setup.faults => barrier[s] = Cardinality(X)
      BY <1>6, <1>30 DEF BarrierOK
    <3> QED
      BY <1>2, <1>14, <1>15, <1>31, <3>1
  <2>2. ASSUME barrier'[s] = Cardinality(Y), NEW i \in DOMAIN hits'[s]
        PROVE  hits'[s][i] = 1 \/ Share("iter", s, i) \in InHand'
    <3>1. i \in DOMAIN h
      BY <1>10, <1>12, <2>2
    <3>2. h[i] = 1 \/ Share("iter", s, i) \in InHand
      BY <1>1, <1>6, <1>30, <2>1, <2>2, <3>1 DEF BarrierOK
    <3> QED
      BY <1>10, <1>12, <1>27, <3>1, <3>2
  <2>3. calls'[s] = "active"
    BY <1>2, <1>8
  <2> QED
    BY <1>30, <2>1, <2>2, <2>3 DEF BarrierOK
<1>33. OfSpread(s, new) /\ OfSpread(s, gone) /\ IsFiniteSet(new)
  <2>1. \A x \in gone : x.kind \in SpreadKinds /\ x.id = s
    BY <1>5, <1>22, IterIs, CountIs DEF SpreadKinds
  <2>2. \A x \in new : x.kind \in SpreadKinds /\ x.id = s
    BY <1>22, ShareFields DEF SpreadKinds
  <2>3. IsFiniteSet(new)
    BY <1>22, FewFinite
  <2> QED
    BY <2>1, <2>2, <2>3 DEF OfSpread
<1>34. \A u \in Spreads \ {s} : Untouched(u)
  BY <1>2, <1>13, <1>15 DEF Untouched
<1>35. ShopInv'
  <2>1. SpreadOK(s)' /\ UNCHANGED <<setup, firer, accepted, ran>>
    BY <1>2, <1>28, <1>32 DEF SpreadOK
  <2> QED
    BY <1>5, <1>23, <1>25, <1>26, <1>33, <1>34, <2>1, SpreadMoves
<1> QED
  BY <1>2, <1>5, <1>21, <1>22, <1>24, <1>35

--------------------------------------------------------------------------------
(* The steps of a spread *)

LEMMA Spreading ==
  ASSUME ShopInv, NEW t \in Threads, pc(t) \in SpreadPcs, NEW f, f = Top(t)
  PROVE  /\ pc(t) # "idle" /\ pc(t) \notin RunPcs /\ pc(t) \notin StopPcs /\ pc(t) \notin WorkerPcs
         /\ f \in Frame /\ f.pc = pc(t) /\ f.id \in Spreads /\ f.k \in Nat \ {0} /\ f.callerEnd \in Nat
         /\ FrameOK(t, f) /\ Claims(f) = SpreadShares(f)
         /\ Claims(f) \cap Waiting = {} /\ Claims(f) \subseteq InHand /\ calls[f.id] = "active"
         /\ SharesOK(f.id) /\ BarrierOK(f.id) /\ barrier[f.id] \in Nat /\ hits[f.id] \in Seq({0, 1})
         /\ Share("call", f.id, 0) \in Claims(f)
<1>1. pc(t) # "idle" /\ pc(t) \notin RunPcs /\ pc(t) \notin StopPcs /\ pc(t) \notin WorkerPcs
  <2>1. pc(t) # "idle"
    BY DEF SpreadPcs, PartPcs, BulkPcs
  <2> QED
    BY <2>1, Kinds
<1>2. /\ f \in Frame /\ pc(t) = f.pc /\ FrameOK(t, f)
      /\ Claims(f) \cap Waiting = {} /\ Claims(f) \subseteq InHand
  BY <1>1, Mine
<1>3. f.id \in Spreads /\ f.k \in Nat /\ f.callerEnd \in Nat /\ Claims(f) = SpreadShares(f)
  BY <1>2, SpreadShape, ClaimsAt
<1>4. f.k >= 1
  BY <1>2 DEF FrameOK
<1>5. Share("call", f.id, 0) \in Claims(f)
  BY <1>3 DEF SpreadShares
<1>6. SharesOK(f.id) /\ BarrierOK(f.id) /\ barrier[f.id] \in Nat /\ hits[f.id] \in Seq({0, 1})
  BY <1>3 DEF ShopInv, Typed
<1>7. calls[f.id] = "active"
  BY <1>2, <1>5, <1>6 DEF SharesOK
<1> QED
  BY <1>1, <1>2, <1>3, <1>4, <1>5, <1>6, <1>7

\* What a spread's frame becomes.
Same(r, f) == r.id = f.id /\ r.chunks = f.chunks /\ r.wait = f.wait

LEMMA SpreadOn ==
  ASSUME NEW f \in Frame, f.pc \in SpreadPcs, NEW l \in SpreadPcs
  PROVE  /\ LET r == [f EXCEPT !.pc = l]
            IN  r \in Frame /\ r.pc = l /\ Same(r, f) /\ r.k = f.k /\ r.callerEnd = f.callerEnd
         /\ LET r == [f EXCEPT !.pc = l, !.k = @ + 1]
            IN  r \in Frame /\ r.pc = l /\ Same(r, f) /\ r.k = f.k + 1 /\ r.callerEnd = f.callerEnd
         /\ LET r == [f EXCEPT !.k = @ + 1]
            IN  r \in Frame /\ r.pc = f.pc /\ Same(r, f) /\ r.k = f.k + 1 /\ r.callerEnd = f.callerEnd
         /\ \A e \in Nat : LET r == [f EXCEPT !.pc = l, !.callerEnd = e]
                           IN  r \in Frame /\ r.pc = l /\ Same(r, f) /\ r.k = f.k /\ r.callerEnd = e
<1>1. /\ f.id \in Spreads /\ f.chunks \in Cuts /\ f.k \in Nat /\ f.callerEnd \in Nat
      /\ f.wait \in BOOLEAN /\ f.seen \in SUBSET Threads
      /\ \A j : [f EXCEPT !.pc = j] = SpreadRec(j, f.id, f.chunks, f.k, f.callerEnd, f.wait, f.seen)
      /\ \A k : [f EXCEPT !.k = k] = SpreadRec(f.pc, f.id, f.chunks, k, f.callerEnd, f.wait, f.seen)
      /\ \A j, k : [f EXCEPT !.pc = j, !.k = k]
                     = SpreadRec(j, f.id, f.chunks, k, f.callerEnd, f.wait, f.seen)
      /\ \A j, e : [f EXCEPT !.pc = j, !.callerEnd = e]
                     = SpreadRec(j, f.id, f.chunks, f.k, e, f.wait, f.seen)
  BY SpreadShape
<1>2. ASSUME NEW j \in SpreadPcs, NEW k \in Nat, NEW e \in Nat,
             NEW r, r = SpreadRec(j, f.id, f.chunks, k, e, f.wait, f.seen)
      PROVE  r \in Frame /\ r.pc = j /\ Same(r, f) /\ r.k = k /\ r.callerEnd = e
  <2>1. /\ f.id \in Spreads /\ f.chunks \in Cuts /\ f.wait \in BOOLEAN /\ f.seen \in SUBSET Threads
    BY <1>1
  <2>2. j \in SpreadPcs /\ k \in Nat /\ e \in Nat /\ r = SpreadRec(j, f.id, f.chunks, k, e, f.wait, f.seen)
    BY <1>2
  <2>3. r.pc = j /\ Same(r, f) /\ r.k = k /\ r.callerEnd = e
    BY ONLY <2>2 DEF SpreadRec, Same
  <2>4. r \in Frame
    BY ONLY <2>1, <2>2 DEF SpreadRec, Frame
  <2> QED
    BY <2>3, <2>4
<1>0. f.k \in Nat /\ f.callerEnd \in Nat /\ f.pc \in SpreadPcs /\ l \in SpreadPcs
  BY <1>1
<1>3. f.k + 1 \in Nat
  BY ONLY <1>0
<1>4. PICK r : r = [f EXCEPT !.pc = l]
  OBVIOUS
<1>5. r \in Frame /\ r.pc = l /\ Same(r, f) /\ r.k = f.k /\ r.callerEnd = f.callerEnd
  <2>1. r = SpreadRec(l, f.id, f.chunks, f.k, f.callerEnd, f.wait, f.seen)
    BY <1>1, <1>4
  <2> QED
    BY ONLY <1>0, <1>2, <2>1
<1>6. PICK q : q = [f EXCEPT !.pc = l, !.k = @ + 1]
  OBVIOUS
<1>7. q \in Frame /\ q.pc = l /\ Same(q, f) /\ q.k = f.k + 1 /\ q.callerEnd = f.callerEnd
  <2>1. q = [f EXCEPT !.pc = l, !.k = f.k + 1]
    BY <1>6
  <2>2. q = SpreadRec(l, f.id, f.chunks, f.k + 1, f.callerEnd, f.wait, f.seen)
    BY <1>1, <2>1, Zenon
  <2> QED
    BY ONLY <1>0, <1>2, <1>3, <2>2
<1>8. PICK p : p = [f EXCEPT !.k = @ + 1]
  OBVIOUS
<1>9. p \in Frame /\ p.pc = f.pc /\ Same(p, f) /\ p.k = f.k + 1 /\ p.callerEnd = f.callerEnd
  <2>1. p = SpreadRec(f.pc, f.id, f.chunks, f.k + 1, f.callerEnd, f.wait, f.seen)
    BY <1>1, <1>8
  <2> QED
    BY ONLY <1>0, <1>2, <1>3, <2>1
<1>10. ASSUME NEW e \in Nat, NEW o, o = [f EXCEPT !.pc = l, !.callerEnd = e]
       PROVE  o \in Frame /\ o.pc = l /\ Same(o, f) /\ o.k = f.k /\ o.callerEnd = e
  <2>1. o = SpreadRec(l, f.id, f.chunks, f.k, e, f.wait, f.seen)
    BY <1>1, <1>10, Zenon
  <2> QED
    BY ONLY <1>0, <1>2, <1>10, <2>1
<1> QED
  BY <1>4, <1>5, <1>6, <1>7, <1>8, <1>9, <1>10

LEMMA SpreadsAlike ==
  ASSUME NEW k \in SpreadPcs, NEW l \in SpreadPcs
  PROVE  Alike(k, l)
BY DEF Alike, WorkerPcs, SpreadPcs, StopPcs, PartPcs, BulkPcs

--------------------------------------------------------------------------------
(* Who holds a share *)

LEMMA Holder ==
  ASSUME ShopInv, NEW x \in InHand
  PROVE  \/ \E u, i, f : On(u, i, f) /\ x \in Claims(f)
         \/ \E w \in Works : x \in WorkShares(w) /\ WorkShares(w) \subseteq Waiting
<1>1. x \in Waiting \/ \E u \in Threads : \E i \in DOMAIN Claimed[u] : x \in Claimed[u][i]
  BY DEF InHand, Taken
<1>2. CASE x \in Waiting
  <2>1. PICK u \in Threads : \E i \in DOMAIN Queues[u] : x \in Queues[u][i]
    BY <1>2 DEF Waiting, Taken
  <2>2. PICK i \in DOMAIN Queues[u] : x \in Queues[u][i]
    BY <2>1
  <2>3. queue \in [Threads -> Seq(Works)]
    BY DEF ShopInv, Typed
  <2>4. DOMAIN Queues[u] = 1..Len(queue[u]) /\ \A j \in 1..Len(queue[u]) : queue[u][j] \in Works /\ Queues[u][j] = WorkShares(queue[u][j])
    BY <2>3, QueueHeld, QueueHolds
  <2>5. Queues[u][i] \subseteq Waiting
    BY <2>2 DEF Waiting, Taken
  <2> QED
    BY <2>2, <2>4, <2>5
<1>3. CASE \E u \in Threads : \E i \in DOMAIN Claimed[u] : x \in Claimed[u][i]
  <2>1. PICK u \in Threads : \E i \in DOMAIN Claimed[u] : x \in Claimed[u][i]
    BY <1>3
  <2>2. PICK i \in DOMAIN Claimed[u] : x \in Claimed[u][i]
    BY <2>1
  <2>3. i \in 1..Len(stack[u])
    BY <2>1, <2>2 DEF Claimed, Holdings
  <2>4. On(u, i, stack[u][i])
    BY <2>1, <2>3 DEF On
  <2>5. Claimed[u][i] = Claims(stack[u][i])
    BY <2>4, AtFrame
  <2> QED
    BY <2>2, <2>4, <2>5
<1> QED
  BY <1>1, <1>2, <1>3

\* The shares of a spread: what kind of work, or of frame, has them.
LEMMA WorkHolds ==
  ASSUME NEW w \in Works, NEW s, NEW k \in SpreadKinds, NEW e, Share(k, s, e) \in WorkShares(w)
  PROVE  /\ w.kind = "chunk" /\ w.id = s /\ WorkShares(w) = Iters(s, Its(w)) \cup Counts(s, {w.to})
         /\ w.to \in Its(w)
         /\ (k = "iter" /\ e \in Its(w)) \/ (k = "count" /\ e = w.to)
<1>1. w.kind = "chunk"
  <2>1. CASE w.kind # "chunk"
    <3>1. Share(k, s, e).kind = "item"
      BY <2>1, ShareFields DEF WorkShares
    <3> QED
      BY <3>1, ShareFields DEF SpreadKinds
  <2> QED
    BY <2>1
<1>2. WorkShares(w) = Iters(w.id, Its(w)) \cup Counts(w.id, {w.to})
  BY <1>1 DEF WorkShares
<1>3. w.id = s /\ ((k = "iter" /\ e \in Its(w)) \/ (k = "count" /\ e = w.to))
  BY <1>2, ShareFields, IterIs, CountIs
<1>4. w.to \in Its(w)
  <2>1. w.from \in Nat /\ w.to \in Nat /\ w.from < w.to
    BY <1>1, WorkShape
  <2> QED
    BY <2>1 DEF Its
<1> QED
  BY <1>1, <1>2, <1>3, <1>4

LEMMA EndsIn ==
  ASSUME NEW cs \in Seq(Ranges)
  PROVE  /\ Ends(cs) \subseteq ItsOf(cs) /\ ItsOf(cs) \subseteq Nat \ {0}
         /\ \A j \in 1..Len(cs) : cs[j] \in Ranges /\ cs[j].to \in Its(cs[j])
<1>1. DOMAIN cs = 1..Len(cs) /\ \A j \in 1..Len(cs) : cs[j] \in Ranges
  BY ElementOfSeq
<1>2. \A c \in Ranges : c.to \in Its(c) /\ Its(c) \subseteq Nat \ {0}
  BY DEF Ranges, Its
<1> QED
  BY <1>1, <1>2 DEF Ends, ItsOf

LEMMA OwesHas ==
  ASSUME NEW t, NEW f, f.pc \in SpreadPcs, FrameOK(t, f)
  PROVE  Owes(f) \subseteq Has(f)
<1>1. CASE f.pc = "part_enqueue"
  <2>1. PartsOK(f)
    BY <1>1 DEF FrameOK, PartPcs
  <2>2. f.chunks \in Seq(Seq(Ranges)) /\ f.k \in 1..Len(f.chunks)
    BY <2>1 DEF PartsOK
  <2>3. f.chunks[f.k] \in Seq(Ranges) /\ f.k \in DOMAIN f.chunks /\ f.k <= f.k
    BY <2>2, ElementOfSeq
  <2>4. Ends(f.chunks[f.k]) \subseteq ItsOf(f.chunks[f.k])
    BY <2>3, EndsIn
  <2>5. ItsOf(f.chunks[f.k]) \subseteq Rest(f.chunks, f.k)
    BY <2>3 DEF Rest
  <2> QED
    BY <1>1, <2>4, <2>5, HasAt
<1>2. CASE f.pc \in {"bulk_enqueue", "bulk_undo"}
  <2>1. BulkOK(f)
    BY <1>2 DEF FrameOK, BulkPcs
  <2>2. Ends(f.chunks) \subseteq ItsOf(f.chunks)
    BY <2>1, EndsIn DEF BulkOK
  <2> QED
    BY <1>2, <2>2, HasAt
<1>3. CASE f.pc \notin {"part_enqueue", "bulk_enqueue", "bulk_undo"}
  BY <1>3 DEF Owes
<1> QED
  BY <1>1, <1>2, <1>3

\* The frames that have a spread's shares.
LEMMA FrameHolds ==
  ASSUME ShopInv, NEW u, NEW i, NEW f, On(u, i, f), NEW s, NEW k \in SpreadKinds, NEW e,
         Share(k, s, e) \in Claims(f)
  PROVE  \/ f.pc = "body" /\ f.work \in Works /\ Claims(f) = WorkShares(f.work)
         \/ f.pc = "completed" /\ k = "ran"
         \/ /\ f.pc \in SpreadPcs /\ f.id = s
            /\ k = "iter" => e \in Has(f)
            /\ k = "count" => e \in Owes(f)
            /\ k # "ran"
<1>1. f \in Frame /\ FrameOK(u, f)
  BY EveryFrame
<1>2. CASE f.pc = "body"
  BY <1>1, <1>2, RunShape, ClaimsAt DEF RunPcs
<1>3. CASE f.pc = "completed"
  <2>1. Claims(f) = DoneShares(f.work)
    BY <1>3, ClaimsAt
  <2>2. Share(k, s, e).kind \in {"ran", "over"}
    BY <2>1, ShareFields DEF DoneShares
  <2> QED
    BY <1>3, <2>2, ShareFields DEF SpreadKinds
<1>4. CASE f.pc \in SpreadPcs
  <2>1. Share(k, s, e) \in SpreadShares(f)
    BY <1>4, ClaimsAt
  <2>2. \/ Share(k, s, e) = Share("call", f.id, 0)
        \/ Share(k, s, e) \in Iters(f.id, Has(f))
        \/ Share(k, s, e) \in Counts(f.id, Owes(f))
    BY <2>1 DEF SpreadShares
  <2> QED
    BY <1>4, <2>2, ShareFields, IterIs, CountIs
<1>5. CASE f.pc \in FirePcs
  <2>1. Share(k, s, e).kind \in {"todo", "owed", "track"}
    BY <1>5, ClaimsAt, ShareFields DEF FirePcs
  <2> QED
    BY <2>1, ShareFields DEF SpreadKinds
<1>6. CASE f.pc \in WorkerPcs \cup StopPcs
  BY <1>6, ClaimsAt
<1> QED
  BY <1>1, <1>2, <1>3, <1>4, <1>5, <1>6, Kinds DEF RunPcs

\* Who is to arrive at a barrier with the iteration e has not run it.
LEMMA CountHolds ==
  ASSUME ShopInv, NEW s, NEW e, Share("count", s, e) \in InHand
  PROVE  \/ Share("iter", s, e) \in Waiting
         \/ \E u, i, f : /\ On(u, i, f) /\ Share("iter", s, e) \in Claims(f)
                         /\ Share("count", s, e) \in Claims(f)
<1>1. PICK x : x = Share("count", s, e)
  OBVIOUS
<1>2. "count" \in SpreadKinds
  BY DEF SpreadKinds
<1>3. ASSUME NEW w \in Works, x \in WorkShares(w)
      PROVE  Share("iter", s, e) \in WorkShares(w)
  <2>1. WorkShares(w) = Iters(s, Its(w)) \cup Counts(s, {w.to}) /\ w.to \in Its(w) /\ e = w.to
    BY <1>1, <1>2, <1>3, WorkHolds
  <2> QED
    BY <2>1, IterIs
<1>4. CASE \E w \in Works : x \in WorkShares(w) /\ WorkShares(w) \subseteq Waiting
  BY <1>1, <1>3, <1>4
<1>5. CASE \E u, i, f : On(u, i, f) /\ x \in Claims(f)
  <2>1. PICK u, i, f : On(u, i, f) /\ x \in Claims(f)
    BY <1>5
  <2>2. CASE f.pc = "body" /\ f.work \in Works /\ Claims(f) = WorkShares(f.work)
    BY <1>1, <1>3, <2>1, <2>2
  <2>3. CASE f.pc \in SpreadPcs /\ f.id = s /\ e \in Owes(f)
    <3>1. e \in Has(f)
      BY <2>1, <2>3, EveryFrame, OwesHas
    <3>2. Share("iter", s, e) \in Claims(f)
      BY <2>3, <3>1, ClaimsAt, IterIs DEF SpreadShares
    <3> QED
      BY <1>1, <2>1, <3>2
  <2>4. \/ f.pc = "body" /\ f.work \in Works /\ Claims(f) = WorkShares(f.work)
        \/ f.pc \in SpreadPcs /\ f.id = s /\ e \in Owes(f)
    BY <1>1, <1>2, <2>1, FrameHolds
  <2> QED
    BY <2>2, <2>3, <2>4
<1> QED
  BY <1>1, <1>4, <1>5, Holder

\* Nobody is expected to arrive with what the caller has not handed out.
LEMMA Fresh ==
  ASSUME ShopInv, NEW t \in Threads, pc(t) \in SpreadPcs, NEW f, f = Top(t),
         NEW e \in Has(f), e \notin Owes(f)
  PROVE  Share("count", f.id, e) \notin InHand
<1>1. SUFFICES ASSUME Share("count", f.id, e) \in InHand PROVE FALSE
  OBVIOUS
<1>2. /\ pc(t) # "idle" /\ Claims(f) = SpreadShares(f) /\ Claims(f) \cap Waiting = {}
  BY Spreading
<1>3. PICK s, n, x, y : /\ s = f.id /\ n = Len(stack[t])
                        /\ x = Share("iter", s, e) /\ y = Share("count", s, e)
  OBVIOUS
<1>4. x \in Claims(f) /\ y \notin Claims(f)
  <2>1. x \in Claims(f)
    BY <1>2, <1>3, IterIs DEF SpreadShares
  <2>2. y \notin Claims(f)
    BY <1>2, <1>3, IterIs, CountIs, ShareFields DEF SpreadShares
  <2> QED
    BY <2>1, <2>2
<1>5. On(t, n, f)
  BY <1>2, <1>3, Below1
<1>6. x \notin Waiting
  BY <1>2, <1>4
<1>7. PICK u, i, g : On(u, i, g) /\ x \in Claims(g) /\ y \in Claims(g)
  BY <1>1, <1>3, <1>6, CountHolds
<1>8. CASE u = t /\ i = n
  BY <1>4, <1>5, <1>7, <1>8 DEF On
<1>9. CASE u # t \/ i # n
  BY <1>4, <1>5, <1>7, <1>9, Own
<1> QED
  BY <1>8, <1>9

\* Who has an iteration is to arrive with it, or has not handed it out.
LEMMA IterHolds ==
  ASSUME ShopInv, NEW s, NEW i, Share("iter", s, i) \in InHand
  PROVE  \/ \E e : Share("count", s, e) \in InHand
         \/ \E u, j, f : On(u, j, f) /\ f.pc \in SpreadPcs /\ f.id = s /\ i \in Has(f)
<1>1. PICK x : x = Share("iter", s, i)
  OBVIOUS
<1>2. "iter" \in SpreadKinds
  BY DEF SpreadKinds
<1>3. ASSUME NEW w \in Works, x \in WorkShares(w), WorkShares(w) \subseteq InHand
      PROVE  \E e : Share("count", s, e) \in InHand
  <2>1. WorkShares(w) = Iters(s, Its(w)) \cup Counts(s, {w.to})
    BY <1>1, <1>2, <1>3, WorkHolds
  <2>2. Share("count", s, w.to) \in Counts(s, {w.to})
    BY CountIs
  <2> QED
    BY <1>3, <2>1, <2>2
<1>4. CASE \E w \in Works : x \in WorkShares(w) /\ WorkShares(w) \subseteq Waiting
  <2>1. Waiting \subseteq InHand
    BY DEF InHand, Taken
  <2> QED
    BY <1>3, <1>4, <2>1
<1>5. CASE \E u, j, f : On(u, j, f) /\ x \in Claims(f)
  <2>1. PICK u, j, f : On(u, j, f) /\ x \in Claims(f)
    BY <1>5
  <2>2. Claims(f) \subseteq InHand
    BY <2>1, EveryFrame
  <2>3. \/ f.pc = "body" /\ f.work \in Works /\ Claims(f) = WorkShares(f.work)
        \/ f.pc \in SpreadPcs /\ f.id = s /\ i \in Has(f)
    BY <1>1, <1>2, <2>1, FrameHolds
  <2> QED
    BY <1>3, <2>1, <2>2, <2>3
<1> QED
  BY <1>1, <1>4, <1>5, Holder

\* As many are expected as there are chunks.
LEMMA CountsMany ==
  ASSUME NEW s, NEW cs \in Seq(Ranges), Apart(cs), NEW X, X = Counts(s, Ends(cs))
  PROVE  IsFiniteSet(X) /\ Cardinality(X) = Len(cs)
<1>1. PICK n \in Nat : n = Len(cs) /\ DOMAIN cs = 1..n
  OBVIOUS
<1>2. PICK f : f = [j \in 1..n |-> Share("count", s, cs[j].to)]
  OBVIOUS
<1>3. \A x \in X : \E j \in 1..n : f[j] = x
  BY <1>1, <1>2 DEF Counts, Ends
<1>4. \A j \in 1..n : f[j] \in X
  BY <1>1, <1>2 DEF Counts, Ends
<1>5. ASSUME NEW i \in 1..n, NEW j \in 1..n, f[i] = f[j]
      PROVE  i = j
  <2>1. cs[i].to = cs[j].to
    BY <1>2, <1>5, ShareFields
  <2>2. cs[i].to \in Its(cs[i]) /\ cs[j].to \in Its(cs[j])
    BY <1>1, EndsIn
  <2> QED
    BY <1>1, <2>1, <2>2 DEF Apart
<1>6. f \in Bijection(1..n, X)
  <2>1. f \in [1..n -> X]
    BY <1>2, <1>4
  <2> QED
    BY <1>3, <1>5, <2>1 DEF Bijection, Injection, Surjection, IsInjective
<1>7. ExistsBijection(1..n, X)
  BY <1>6 DEF ExistsBijection
<1>8. IsFiniteSet(1..n) /\ Cardinality(1..n) = n
  <2>1. IsFiniteSet(1..n) /\ Cardinality(1..n) = IF 1 > n THEN 0 ELSE n - 1 + 1
    BY FS_Interval
  <2> QED
    BY <2>1
<1> QED
  BY <1>1, <1>7, <1>8, FS_Bijection

LEMMA Products ==
  /\ \A a, b, d \in Nat : a <= b => a * d <= b * d /\ a * d \in Nat
  /\ \A k \in Nat, d \in Nat : (k + 1) * d = k * d + d
  /\ \A k \in Nat, d \in Nat \ {0} : k <= k * d
<1>1. ASSUME NEW a \in Nat, NEW b \in Nat, NEW d \in Nat, a <= b
      PROVE  a * d <= b * d /\ a * d \in Nat
  <2>1. PICK c \in Nat : b = a + c
    <3>1. b - a \in Nat /\ b = a + (b - a)
      BY <1>1
    <3> QED
      BY <3>1
  <2>2. b * d = a * d + c * d /\ c * d \in Nat /\ a * d \in Nat
    BY <2>1
  <2> QED
    BY <2>2
<1>2. \A k \in Nat, d \in Nat : (k + 1) * d = k * d + d
  OBVIOUS
<1>3. ASSUME NEW k \in Nat, NEW d \in Nat \ {0}
      PROVE  k <= k * d
  <2>1. PICK c \in Nat : d = c + 1
    <3>1. d - 1 \in Nat /\ d = (d - 1) + 1
      OBVIOUS
    <3> QED
      BY <3>1
  <2>2. k * d = k * c + k /\ k * c \in Nat
    BY <2>1
  <2> QED
    BY <2>2
<1> QED
  BY <1>1, <1>2, <1>3

\* What a spread's barrier may be raised to.
LEMMA RaisedAt ==
  ASSUME NEW f
  PROVE  /\ f.pc = "part" => Raised(f) = (f.k - 1) * DivisionMax
         /\ f.pc \in {"part_enqueue", "part_notify"} => Raised(f) = f.k * DivisionMax
         /\ f.pc \in {"bulk_wake", "own_work"} => Raised(f) = Most * DivisionMax
         /\ f.pc \in {"look", "alone", "bulk_init", "bulk_enqueue", "bulk_undo", "caller_steal", "join", "return"}
              => Raised(f) = Most * DivisionMax + 1
BY DEF Raised

\* Few parts and chunks.
LEMMA Bounds ==
  ASSUME ShopInv
  PROVE  /\ pool \in Nat /\ Most \in Nat /\ pool <= Most /\ DivisionMax \in Nat \ {0}
         /\ Most * DivisionMax \in Nat /\ Most <= Most * DivisionMax
         /\ division \in Nat \ {0} /\ division <= DivisionMax
<1>1. pool \in Nat /\ pool <= Most /\ Most \in Nat /\ division \in DivisionMin..DivisionMax
  BY MostIs DEF ShopInv, Typed
<1>2. DivisionMin \in Nat \ {0} /\ DivisionMax \in Nat /\ DivisionMin <= DivisionMax
  BY ShopAssumption
<1>3. DivisionMax \in Nat \ {0} /\ division \in Nat \ {0} /\ division <= DivisionMax
  BY <1>1, <1>2
<1> QED
  BY <1>1, <1>3, Products

LEMMA NewSpreadFrame ==
  ASSUME NEW l \in SpreadPcs, NEW s \in Spreads, NEW cs \in Cuts, NEW e \in Nat, NEW w, w \in BOOLEAN,
         NEW g, g = SpreadFrame(l, s, cs, e, w)
  PROVE  /\ g \in Frame /\ g.pc = l /\ g.id = s /\ g.chunks = cs /\ g.k = 1 /\ g.callerEnd = e /\ g.wait = w
BY DEF SpreadFrame, Frame

LEMMA NoChunks == <<>> \in Cuts /\ (\A cs \in Seq(Ranges) : cs \in Cuts) /\ \A cs \in Seq(Seq(Ranges)) : cs \in Cuts
BY DEF Cuts

\* The iterations of several parts.
PartsIts(cs) == UNION {ItsOf(cs[a]) : a \in 1..Len(cs)}

\* A fresh frame of a spread that nobody is expected to arrive for.
LEMMA PathAlone ==
  ASSUME ShopInv, NEW t, NEW g, g.pc \in {"alone", "own_work"}, barrier[g.id] = 0, g.k = 1,
         g.callerEnd = Len(hits[g.id]), g.callerEnd \in Nat \ {0}
  PROVE  Has(g) = 1..g.callerEnd /\ Owes(g) = {} /\ FrameOK(t, g)
<1>1. Has(g) = 1..g.callerEnd /\ Owes(g) = {}
  BY HasAt
<1>2. Counts(g.id, Owes(g)) = {} /\ Cardinality({}) = 0
  BY <1>1, FS_EmptySet DEF Counts
<1>3. Raised(g) \in Nat
  BY RaisedAt, Bounds
<1>4. /\ g.pc \notin FirePcs /\ g.pc \notin PartPcs /\ g.pc \notin BulkPcs /\ g.pc # "bulk_wake" /\ g.callerEnd # 0
  BY DEF FirePcs, PartPcs, BulkPcs
<1>5. barrier[g.id] = Cardinality(Counts(g.id, Owes(g)))
  BY <1>2
<1>6. g.k >= 1 /\ barrier[g.id] <= Raised(g)
  BY <1>3
<1>7. FrameOK(t, g)
  BY <1>4, <1>5, <1>6 DEF FrameOK
<1> QED
  BY <1>1, <1>7

LEMMA PathParts ==
  ASSUME ShopInv, NEW t, NEW g, g.pc = "part", barrier[g.id] = 0, g.k = 1,
         PartsOK(g), 1..g.callerEnd \cup PartsIts(g.chunks) = 1..Len(hits[g.id])
  PROVE  Has(g) = 1..Len(hits[g.id]) /\ Owes(g) = {} /\ FrameOK(t, g)
<1>1. Has(g) = 1..g.callerEnd \cup Rest(g.chunks, 1) /\ Owes(g) = {}
  BY HasAt
<1>2. DOMAIN g.chunks = 1..Len(g.chunks)
  BY DEF PartsOK
<1>3. Rest(g.chunks, 1) = PartsIts(g.chunks)
  BY <1>2 DEF Rest, PartsIts
<1>4. Raised(g) = (1 - 1) * DivisionMax /\ DivisionMax \in Nat
  BY RaisedAt, Bounds
<1>5. Raised(g) = 0
  BY <1>4
<1>6. g.pc \notin FirePcs /\ g.pc \notin AlonePcs /\ g.pc \notin {"look", "alone", "bulk_wake", "own_work"} /\ g.pc \notin BulkPcs
  BY DEF FirePcs, AlonePcs, BulkPcs
<1> QED
  BY <1>1, <1>3, <1>5, <1>6 DEF FrameOK

LEMMA PathBulk ==
  ASSUME ShopInv, NEW t, NEW g, g.pc = "bulk_init", barrier[g.id] = 0, g.k = 1, BulkOK(g)
  PROVE  Has(g) = 1..Len(hits[g.id]) /\ Owes(g) = {} /\ FrameOK(t, g)
<1>1. Has(g) = 1..g.callerEnd \cup ItsOf(g.chunks) /\ Owes(g) = {}
  BY HasAt
<1>2. Counts(g.id, Owes(g)) = {} /\ Cardinality({}) = 0
  BY <1>1, FS_EmptySet DEF Counts
<1>3. Raised(g) \in Nat
  BY RaisedAt, Bounds
<1>4. g.pc \notin FirePcs /\ g.pc \notin PartPcs /\ g.pc \notin {"look", "alone", "bulk_wake", "own_work"}
  BY DEF FirePcs, PartPcs
<1>5. barrier[g.id] = Cardinality(Counts(g.id, Owes(g)))
  BY <1>2
<1>6. g.k >= 1 /\ barrier[g.id] <= Raised(g)
  BY <1>3
<1>7. FrameOK(t, g)
  BY <1>4, <1>5, <1>6 DEF FrameOK
<1> QED
  BY <1>1, <1>7 DEF BulkOK

\* Whatever path a spread takes, all of its iterations are on it once.
LEMMA PathIs ==
  ASSUME ShopInv, NEW t \in Threads, NEW s \in Spreads, NEW n \in Nat \ {0}, n = Len(hits[s]),
         barrier[s] = 0, NEW g, g = SpreadPath(t, s, n, workItems)
  PROVE  /\ g \in Frame /\ g.pc \in {"alone", "own_work", "part", "bulk_init"} /\ g.id = s
         /\ Has(g) = 1..n /\ Owes(g) = {} /\ FrameOK(t, g)
<1>1. PICK items, plan : items = workItems /\ plan = Plan(n, 1, pool, items)
  OBVIOUS
<1>2. items \in Nat /\ pool \in Nat /\ 1 \in Nat \ {0}
  BY <1>1, Bounds DEF ShopInv, Typed
<1>3. PlanOK(plan, n, pool) /\ (items = 0 => ~plan.wait)
  BY <1>1, <1>2, PlanFacts
<1>4. /\ plan.dispatched \in 0..pool /\ plan.callerEnd \in 0..n /\ plan.wait \in BOOLEAN
      /\ (plan.wait <=> plan.callerEnd = 0)
  BY <1>3 DEF PlanOK
<1>5. plan.dispatched = 0 => plan.callerEnd = n
  <2>1. StartsOf(plan)[0] = plan.callerEnd /\ StartsOf(plan)[plan.dispatched] = n
    BY <1>2, <1>3, StartsRise
  <2> QED
    BY <2>1
<1>6. {"alone", "own_work", "part", "bulk_init"} \subseteq SpreadPcs
  BY DEF SpreadPcs, PartPcs, BulkPcs
<1>7. PICK cs, parts : cs = BulkChunks(plan) /\ parts = WorkerParts(plan, n, division)
  OBVIOUS
<1>8. /\ cs \in Seq(Ranges) /\ Len(cs) = plan.dispatched /\ DOMAIN cs = 1..plan.dispatched
      /\ Apart(cs) /\ ItsOf(cs) = (plan.callerEnd + 1)..n
  BY <1>2, <1>3, <1>7, BulkTiles
<1>9. /\ parts \in Seq(Seq(Ranges)) /\ Len(parts) = plan.dispatched
      /\ \A a \in 1..plan.dispatched :
           Len(parts[a]) \in 1..division /\ Apart(parts[a]) /\ ItsOf(parts[a]) = Its(cs[a])
  <2>1. PICK d : d = division
    OBVIOUS
  <2>2. /\ d \in Nat \ {0} /\ n \in Nat /\ pool \in Nat /\ parts = WorkerParts(plan, n, d)
        /\ cs = BulkChunks(plan) /\ PlanOK(plan, n, pool)
    BY <1>2, <1>3, <1>7, <2>1, Bounds
  <2>3. /\ parts \in Seq(Seq(Ranges)) /\ Len(parts) = plan.dispatched
        /\ \A a \in 1..plan.dispatched : Sliced(parts, cs, a, d)
    BY ONLY <2>2, PartsTile
  <2> QED
    BY ONLY <2>1, <2>3 DEF Sliced
<1>10. g = IF items > 0 /\ (pool = 0 \/ t \in Workers) THEN SpreadFrame("alone", s, <<>>, n, FALSE)
           ELSE IF items = 0
             THEN SpreadFrame(IF parts = <<>> THEN "own_work" ELSE "part", s, parts, plan.callerEnd, FALSE)
           ELSE SpreadFrame(IF plan.dispatched = 0 THEN "own_work" ELSE "bulk_init", s, cs, plan.callerEnd, plan.wait)
  BY <1>1, <1>7 DEF SpreadPath
<1>11. ASSUME NEW l \in {"alone", "own_work"}, NEW x \in Cuts, NEW w \in BOOLEAN, g = SpreadFrame(l, s, x, n, w)
       PROVE  /\ g \in Frame /\ g.pc = l /\ g.id = s
              /\ Has(g) = 1..n /\ Owes(g) = {} /\ FrameOK(t, g)
  <2>1. /\ g \in Frame /\ g.pc = l /\ g.id = s /\ g.k = 1 /\ g.callerEnd = n
    BY ONLY <1>6, <1>11, NewSpreadFrame
  <2> QED
    BY <2>1, PathAlone
<1>12. CASE items > 0 /\ (pool = 0 \/ t \in Workers)
  <2>1. g = SpreadFrame("alone", s, <<>>, n, FALSE)
    BY <1>10, <1>12
  <2> QED
    BY <1>11, <2>1, NoChunks
<1>13. CASE items = 0 /\ parts = <<>>
  <2>1. plan.dispatched = 0 /\ parts \in Cuts
    BY <1>9, <1>13, NoChunks
  <2>2. ~(items > 0) /\ plan.callerEnd = n
    BY <1>2, <1>5, <1>13, <2>1
  <2>3. g = SpreadFrame("own_work", s, parts, n, FALSE)
    BY <1>10, <1>13, <2>2, Zenon
  <2> QED
    BY <1>11, <2>1, <2>3
<1>14. CASE items = 0 /\ parts # <<>>
  <2>1. parts \in Cuts /\ plan.callerEnd \in Nat /\ "part" \in SpreadPcs
    BY <1>4, <1>6, <1>9, NoChunks
  <2>0. ~(items > 0)
    BY <1>14
  <2>2. g = SpreadFrame("part", s, parts, plan.callerEnd, FALSE)
    BY <1>10, <1>14, <2>0, Zenon
  <2>3. g \in Frame /\ g.pc = "part" /\ g.id = s /\ g.chunks = parts /\ g.k = 1 /\ g.callerEnd = plan.callerEnd
        /\ g.wait = FALSE
    BY ONLY <2>1, <2>2, s \in Spreads DEF SpreadFrame, Frame
  <2>4. Len(parts) \in Nat \ {0} /\ plan.dispatched = Len(parts)
    BY <1>9, <1>14
  <2>5. ASSUME NEW a \in 1..Len(parts)
        PROVE  /\ Len(parts[a]) \in 1..DivisionMax /\ Apart(parts[a])
               /\ ItsOf(parts[a]) \cap 1..plan.callerEnd = {}
               /\ \A b \in 1..Len(parts) : a # b => ItsOf(parts[a]) \cap ItsOf(parts[b]) = {}
    <3>1. a \in 1..plan.dispatched /\ a \in DOMAIN cs /\ ItsOf(parts[a]) = Its(cs[a])
      BY <1>8, <1>9, <2>4
    <3>2. Len(parts[a]) \in 1..DivisionMax
      <4>1. Len(parts[a]) \in 1..division
        BY <1>9, <3>1
      <4> QED
        BY <4>1, Bounds
    <3>3. Its(cs[a]) \subseteq (plan.callerEnd + 1)..n
      BY <1>8, <3>1 DEF ItsOf
    <3>4. ItsOf(parts[a]) \cap 1..plan.callerEnd = {}
      BY <1>4, <3>1, <3>3
    <3>5. \A b \in 1..Len(parts) : a # b => ItsOf(parts[a]) \cap ItsOf(parts[b]) = {}
      BY ZenonT(40), <1>8, <1>9, <2>4, <3>1 DEF Apart
    <3> QED
      BY <1>9, <3>1, <3>2, <3>4, <3>5
  <2>6. PartsOK(g)
    <3>1. g.k \in 1..Len(g.chunks) /\ Len(g.chunks) <= pool /\ g.callerEnd # 0
      BY <1>3, <1>4, <1>14, <2>3, <2>4
    <3>2. g.chunks \in Seq(Seq(Ranges)) /\ g.wait = FALSE
      BY <1>9, <2>3
    <3>3. \A a \in 1..Len(g.chunks) :
             /\ Len(g.chunks[a]) \in 1..DivisionMax /\ Apart(g.chunks[a])
             /\ ItsOf(g.chunks[a]) \cap 1..g.callerEnd = {}
             /\ \A b \in 1..Len(g.chunks) : a # b => ItsOf(g.chunks[a]) \cap ItsOf(g.chunks[b]) = {}
      BY ONLY <2>3, <2>5
    <3> QED
      BY ONLY <3>1, <3>2, <3>3 DEF PartsOK
  <2>7. 1..g.callerEnd \cup PartsIts(g.chunks) = 1..Len(hits[g.id])
    <3>1. PartsIts(parts) = ItsOf(cs)
      <4>1. DOMAIN cs = 1..Len(parts) /\ \A a \in DOMAIN cs : ItsOf(parts[a]) = Its(cs[a])
        BY <1>8, <1>9, <2>4
      <4> QED
        BY ONLY <4>1 DEF ItsOf, PartsIts
    <3>2. 1..plan.callerEnd \cup (plan.callerEnd + 1)..n = 1..n
      BY <1>4
    <3>3. g.chunks = parts /\ g.callerEnd = plan.callerEnd /\ Len(hits[g.id]) = n
      BY <2>3
    <3>4. ItsOf(cs) = (plan.callerEnd + 1)..n
      BY <1>8
    <3> QED
      BY ONLY <3>1, <3>2, <3>3, <3>4
  <2>8. Has(g) = 1..Len(hits[g.id]) /\ Owes(g) = {} /\ FrameOK(t, g)
    BY <2>3, <2>6, <2>7, PathParts
  <2> QED
    BY <2>3, <2>8
<1>15. CASE items > 0 /\ ~(pool = 0 \/ t \in Workers) /\ plan.dispatched = 0
  <2>1. cs \in Cuts
    BY <1>8, NoChunks
  <2>0. items # 0 /\ plan.callerEnd = n
    BY <1>2, <1>5, <1>15
  <2>2. g = SpreadFrame("own_work", s, cs, n, plan.wait)
    BY <1>10, <1>15, <2>0, Zenon
  <2> QED
    BY <1>4, <1>11, <2>1, <2>2
<1>16. CASE items > 0 /\ ~(pool = 0 \/ t \in Workers) /\ plan.dispatched # 0
  <2>1. cs \in Cuts /\ plan.callerEnd \in Nat /\ "bulk_init" \in SpreadPcs
    BY <1>4, <1>6, <1>8, NoChunks
  <2>0. items # 0
    BY <1>16
  <2>2. g = SpreadFrame("bulk_init", s, cs, plan.callerEnd, plan.wait)
    BY <1>10, <1>16, <2>0, Zenon
  <2>3. /\ g \in Frame /\ g.pc = "bulk_init" /\ g.id = s /\ g.chunks = cs /\ g.k = 1 /\ g.callerEnd = plan.callerEnd
        /\ g.wait = plan.wait
    BY ONLY <1>4, <2>1, <2>2, s \in Spreads DEF SpreadFrame, Frame
  <2>4. BulkOK(g)
    <3>1. Len(cs) \in 1..pool
      BY <1>2, <1>4, <1>8, <1>16
    <3>2. ItsOf(cs) \cap 1..plan.callerEnd = {} /\ 1..plan.callerEnd \cup ItsOf(cs) = 1..n
      BY <1>4, <1>8
    <3> QED
      BY <1>4, <1>8, <2>3, <3>1, <3>2 DEF BulkOK
  <2>5. Has(g) = 1..Len(hits[g.id]) /\ Owes(g) = {} /\ FrameOK(t, g)
    BY <2>3, <2>4, PathBulk
  <2> QED
    BY <2>3, <2>5
<1> QED
  BY <1>2, <1>12, <1>13, <1>14, <1>15, <1>16

--------------------------------------------------------------------------------
(* The steps of a spread that change what is expected at its barrier *)

LEMMA SpreadTurns ==
  ASSUME ShopInv, NEW s \in Spreads, calls[s] = "active", barrier' \in [Spreads -> Nat],
         \A u \in Spreads : u # s => barrier'[u] = barrier[u],
         UNCHANGED <<setup, pool, history>>, OthersTyped',
         queue' \in [Threads -> Seq(Works)], Disjoint(Threads, Queues, {})',
         NEW new, NEW gone, Kept(new, gone), OfSpread(s, new), OfSpread(s, gone), IsFiniteSet(new),
         \A x \in new : x.kind = "count", BarrierOK(s)'
  PROVE  ShopInv' /\ InHand' = (InHand \cup new) \ gone
<1>1. InHand' = (InHand \cup new) \ gone
  BY DEF Kept
<1>2. Typed'
  BY DEF ShopInv, Typed, Kept, OthersTyped, history
<1>3. SharesOK(s)'
  <2>1. SharesOK(s)
    BY DEF ShopInv
  <2>2. calls'[s] = "active" /\ hits'[s] = hits[s]
    BY DEF history
  <2>3. \A k, e : k # "count" /\ Share(k, s, e) \in InHand' => Share(k, s, e) \in InHand
    BY <1>1, ShareFields
  <2> QED
    BY <2>1, <2>2, <2>3 DEF SharesOK
<1>4. \A u \in Spreads \ {s} : Untouched(u)
  BY DEF Untouched, history
<1>5. SpreadOK(s)' /\ UNCHANGED <<setup, firer, accepted, ran>>
  BY <1>3 DEF SpreadOK, history
<1> QED
  BY <1>2, <1>4, <1>5, SpreadMoves

\* More are expected, and all of them are there to come.
LEMMA Expects ==
  ASSUME ShopInv, NEW s \in Spreads, calls[s] = "active", NEW m \in Nat, NEW new,
         new \cap InHand = {}, IsFiniteSet(new), Cardinality(new) = m,
         \A x \in new : x.kind = "count" /\ x.id = s,
         barrier'[s] = barrier[s] + m, InHand' = InHand \cup new, UNCHANGED <<setup, history>>
  PROVE  BarrierOK(s)'
<1>1. PICK X, Y : X = CountsOf(s) /\ Y = CountsOf(s)'
  OBVIOUS
<1>2. Y = X \cup new /\ X \cap new = {}
  <2>1. CountsOf(s)' = {x \in InHand' : x.kind = "count" /\ x.id = s}
    BY DEF CountsOf
  <2> QED
    BY <1>1, <2>1 DEF CountsOf
<1>3. IsFiniteSet(X) /\ Cardinality(X) \in Nat /\ Cardinality(X) <= barrier[s] /\ barrier[s] \in Nat
  BY <1>1, CountsFew DEF CountsOf
<1>4. Cardinality(Y) = Cardinality(X) + m
  <2>1. Cardinality(X \cup new) = Cardinality(X) + Cardinality(new) - Cardinality(X \cap new)
    BY <1>3, FS_Union
  <2>2. Cardinality(X \cap new) = 0
    BY <1>2, FS_EmptySet
  <2> QED
    BY <1>2, <1>3, <2>1, <2>2
<1>5. BarrierOK(s)
  BY DEF ShopInv
<1>6. /\ Cardinality(Y) <= barrier'[s]
      /\ "part" \notin setup'.faults => barrier'[s] = Cardinality(Y)
      /\ barrier'[s] = Cardinality(Y) => barrier[s] = Cardinality(X)
  <2>1. "part" \notin setup.faults => barrier[s] = Cardinality(X)
    BY <1>1, <1>5 DEF BarrierOK
  <2> QED
    BY <1>3, <1>4, <2>1
<1>7. ASSUME barrier'[s] = Cardinality(Y), NEW i \in DOMAIN hits'[s]
      PROVE  hits'[s][i] = 1 \/ Share("iter", s, i) \in InHand'
  <2>1. hits'[s] = hits[s]
    BY DEF history
  <2> QED
    BY <1>1, <1>5, <1>6, <1>7, <2>1 DEF BarrierOK
<1>8. calls'[s] = "active"
  BY DEF history
<1> QED
  BY <1>1, <1>6, <1>7, <1>8 DEF BarrierOK

\* The chunks of cs are expected.
LEMMA CountsIn ==
  ASSUME ShopInv, NEW t \in Threads, pc(t) \in SpreadPcs, NEW f, f = Top(t),
         NEW g \in Frame, g.pc \in SpreadPcs, g.pc # "return", Same(g, f), Goto(t, g), FrameOK(t, g)',
         NEW cs \in Seq(Ranges), Apart(cs), Ends(cs) \subseteq Has(f),
         Has(g) = Has(f), Owes(f) = {}, Owes(g) = Ends(cs),
         barrier' = [barrier EXCEPT ![f.id] = @ + Len(cs)],
         UNCHANGED <<setup, pool, queue, history>>, OthersTyped'
  PROVE  /\ ShopInv' /\ InHand' = InHand \cup Counts(f.id, Ends(cs))
         /\ Counts(f.id, Ends(cs)) \cap InHand = {}
<1>1. PICK s, new, m : s = f.id /\ new = Counts(s, Ends(cs)) /\ m = Len(cs)
  OBVIOUS
<1>2. /\ pc(t) # "idle" /\ pc(t) \notin RunPcs /\ s \in Spreads /\ Claims(f) = SpreadShares(f)
      /\ Claims(f) \cap Waiting = {} /\ Claims(f) \subseteq InHand /\ calls[s] = "active" /\ barrier[s] \in Nat
  BY <1>1, Spreading
<1>3. IsFiniteSet(new) /\ Cardinality(new) = m /\ m \in Nat
  BY <1>1, CountsMany
<1>4. new \cap InHand = {}
  <2>1. \A e \in Ends(cs) : Share("count", s, e) \notin InHand
    BY <1>1, Fresh
  <2> QED
    BY <1>1, <2>1 DEF Counts
<1>5. Claims(g) = Claims(f) \cup new
  <2>1. Claims(g) = {Share("call", s, 0)} \cup Iters(s, Has(f)) \cup new
    BY <1>1, ClaimsAt DEF SpreadShares, Same
  <2>2. Counts(s, {}) = {}
    BY DEF Counts
  <2>3. Claims(f) = {Share("call", s, 0)} \cup Iters(s, Has(f))
    BY <1>1, <1>2, <2>2 DEF SpreadShares
  <2> QED
    BY <2>1, <2>3
<1>6. Waiting' = Waiting /\ Disjoint(Threads, Queues, {})' /\ Waiting \subseteq InHand
  BY WaitingStill DEF InHand, Taken
<1>7. Trade(Claims(f), Claims(g), {}, new, {})
  BY <1>2, <1>4, <1>5, <1>6 DEF Trade, Trades, InHand
<1>8. /\ barrier' \in [Spreads -> Nat] /\ barrier'[s] = barrier[s] + m
      /\ \A u \in Spreads : u # s => barrier'[u] = barrier[u]
  <2>1. barrier \in [Spreads -> Nat]
    BY DEF ShopInv, Typed
  <2> QED
    BY <1>1, <1>2, <1>3, <2>1
<1>9. Steady /\ MyBarrier(t)
  BY <1>1, <1>8, SteadyStill DEF MyBarrier
<1>10. Kept(new, {})
  <2>1. Alike(pc(t), g.pc)
    BY SpreadsAlike
  <2>2. Trade(Claims(Top(t)), Claims(g), {}, new, {})
    BY <1>7
  <2> QED
    BY <1>2, <1>9, <2>1, <2>2, StepGoto
<1>11. InHand' = InHand \cup new
  BY <1>10 DEF Kept
<1>12. \A x \in new : x.kind = "count" /\ x.id = s
  BY <1>1, CountIs
<1>13. BarrierOK(s)'
  BY <1>2, <1>3, <1>4, <1>8, <1>11, <1>12, Expects
<1>14. OfSpread(s, new) /\ OfSpread(s, {})
  BY <1>12 DEF OfSpread, SpreadKinds
<1>15. queue' \in [Threads -> Seq(Works)]
  BY DEF ShopInv, Typed
<1>16. ShopInv'
  BY <1>2, <1>3, <1>6, <1>8, <1>10, <1>12, <1>13, <1>14, <1>15, SpreadTurns
<1> QED
  BY <1>1, <1>4, <1>11, <1>16

LEMMA FramePartsStill ==
  ASSUME UNCHANGED <<pool, hits>>, NEW g
  PROVE  (PartsOK(g)' <=> PartsOK(g)) /\ (BulkOK(g)' <=> BulkOK(g))
BY DEF PartsOK, BulkOK

LEMMA NextPc ==
  ASSUME NEW f \in Frame, f.pc \in SpreadPcs, NEW l \in SpreadPcs, NEW g, g = [f EXCEPT !.pc = l]
  PROVE  g \in Frame /\ g.pc = l /\ Same(g, f) /\ g.k = f.k /\ g.callerEnd = f.callerEnd
BY SpreadOn

LEMMA PartCountKeeps ==
  ASSUME ShopInv, NEW t \in Threads, PartCount(t), NEW f, f = Top(t), NEW cs, cs = f.chunks[f.k]
  PROVE  /\ ShopInv' /\ InHand' = InHand \cup Counts(f.id, Ends(cs)) /\ Counts(f.id, Ends(cs)) \cap InHand = {}
         /\ cs \in Seq(Ranges) /\ Apart(cs)
         /\ workItems' = (workItems + Len(cs)) % HCRange /\ inFlight' = inFlight
<1>1. PICK g : g = [f EXCEPT !.pc = "part_enqueue"]
  OBVIOUS
<1>2. /\ pc(t) = "part" /\ barrier' = [barrier EXCEPT ![f.id] = @ + Len(cs)]
      /\ workItems' = (workItems + Len(cs)) % HCRange /\ Goto(t, g)
      /\ UNCHANGED <<setup, pool, queue, tokens, inFlight, rotor, brexit, division, history>>
  BY <1>1 DEF PartCount, AddItems, GotoPc
<1>3. pc(t) \in SpreadPcs /\ "part_enqueue" \in SpreadPcs
  BY <1>2 DEF SpreadPcs, PartPcs
<1>4. /\ f \in Frame /\ f.pc = "part" /\ f.id \in Spreads /\ f.k \in Nat \ {0} /\ FrameOK(t, f)
      /\ barrier[f.id] \in Nat
  BY <1>2, <1>3, Spreading
<1>5. g \in Frame /\ g.pc = "part_enqueue" /\ Same(g, f) /\ g.k = f.k /\ g.callerEnd = f.callerEnd
  BY <1>1, <1>2, <1>3, <1>4, NextPc
<1>6. PartsOK(f) /\ barrier[f.id] <= Raised(f)
  <2>1. f.pc \in PartPcs /\ f.pc \in SpreadPcs
    BY <1>4 DEF PartPcs, SpreadPcs
  <2> QED
    BY <1>4, <2>1 DEF FrameOK
<1>7. /\ f.chunks \in Seq(Seq(Ranges)) /\ f.k \in 1..Len(f.chunks) /\ DOMAIN f.chunks = 1..Len(f.chunks)
      /\ cs \in Seq(Ranges) /\ Len(cs) \in 1..DivisionMax /\ Apart(cs)
  BY <1>6 DEF PartsOK
<1>8. Has(g) = Has(f) /\ Owes(f) = {} /\ Owes(g) = Ends(cs) /\ ItsOf(cs) \subseteq Has(f)
  <2>1. Has(f) = 1..f.callerEnd \cup Rest(f.chunks, f.k) /\ Owes(f) = {}
    BY <1>4, HasAt
  <2>2. Has(g) = 1..g.callerEnd \cup Rest(g.chunks, g.k) /\ Owes(g) = Ends(g.chunks[g.k])
    BY <1>5, HasAt
  <2>3. ItsOf(cs) \subseteq Rest(f.chunks, f.k)
    <3>1. f.k \in {b \in DOMAIN f.chunks : f.k <= b}
      BY <1>4, <1>7
    <3> QED
      BY <3>1 DEF Rest
  <2> QED
    BY <1>5, <2>1, <2>2, <2>3 DEF Same
<1>9. Ends(cs) \subseteq Has(f)
  BY <1>7, <1>8, EndsIn
<1>10. barrier'[f.id] = barrier[f.id] + Len(cs) /\ barrier'[f.id] <= f.k * DivisionMax
  <2>1. barrier'[f.id] = barrier[f.id] + Len(cs)
    BY <1>2, <1>4 DEF ShopInv, Typed
  <2>2. Raised(f) = (f.k - 1) * DivisionMax /\ DivisionMax \in Nat
    BY <1>4, RaisedAt, Bounds
  <2>3. f.k - 1 \in Nat /\ (f.k - 1) + 1 = f.k
    BY <1>4
  <2>4. f.k * DivisionMax = (f.k - 1) * DivisionMax + DivisionMax /\ (f.k - 1) * DivisionMax \in Nat
    BY <2>2, <2>3, Products
  <2>5. \A b, d, m, x \in Nat : b <= x /\ m <= d => b + m <= x + d
    OBVIOUS
  <2>6. Len(cs) \in Nat /\ Len(cs) <= DivisionMax
    BY <1>7, <2>2
  <2>7. barrier[f.id] + Len(cs) <= (f.k - 1) * DivisionMax + DivisionMax
    BY <1>4, <1>6, <2>2, <2>4, <2>5, <2>6
  <2> QED
    BY <2>1, <2>4, <2>7
<1>11. FrameOK(t, g)'
  <2>1. PartsOK(g)'
    <3>1. PartsOK(g)
      BY <1>5, <1>6 DEF PartsOK, Same
    <3> QED
      BY <1>2, <3>1, FramePartsStill DEF history
  <2>2. g.k >= 1 /\ barrier'[g.id] <= f.k * DivisionMax
    BY <1>4, <1>5, <1>10 DEF Same
  <2>3. Raised(g)' = f.k * DivisionMax
    BY <1>5 DEF Raised
  <2>4. /\ g.pc \notin FirePcs /\ g.pc \notin AlonePcs /\ g.pc \notin {"look", "alone", "bulk_wake", "own_work"}
        /\ g.pc \notin BulkPcs
    BY <1>5 DEF FirePcs, AlonePcs, BulkPcs
  <2> QED
    BY <2>1, <2>2, <2>3, <2>4 DEF FrameOK
<1>12. OthersTyped'
  <2>1. workItems' \in 0..(HCRange - 1)
    <3>1. Len(cs) \in Int
      BY <1>7
    <3> QED
      BY <1>2, <3>1, Counters
  <2> QED
    BY <1>2, <2>1 DEF OthersTyped, ShopInv, Typed
<1>13. g.pc \in SpreadPcs /\ g.pc # "return" /\ UNCHANGED <<setup, pool, queue, history>>
  BY <1>2, <1>3, <1>5
<1>14. /\ ShopInv' /\ InHand' = InHand \cup Counts(f.id, Ends(cs))
       /\ Counts(f.id, Ends(cs)) \cap InHand = {}
  BY ZenonT(40), <1>2, <1>3, <1>5, <1>7, <1>8, <1>9, <1>11, <1>12, <1>13, CountsIn
<1> QED
  BY <1>2, <1>7, <1>14

LEMMA BulkInitKeeps ==
  ASSUME ShopInv, NEW t \in Threads, BulkInit(t), NEW f, f = Top(t), NEW cs, cs = f.chunks
  PROVE  /\ ShopInv' /\ InHand' = InHand \cup Counts(f.id, Ends(cs)) /\ Counts(f.id, Ends(cs)) \cap InHand = {}
         /\ cs \in Seq(Ranges) /\ Apart(cs)
         /\ workItems' = (workItems + Len(cs)) % HCRange /\ inFlight' = inFlight
<1>1. PICK g : g = [f EXCEPT !.pc = "bulk_enqueue"]
  OBVIOUS
<1>2. /\ pc(t) = "bulk_init" /\ barrier' = [barrier EXCEPT ![f.id] = Len(cs)]
      /\ workItems' = (workItems + Len(cs)) % HCRange /\ Goto(t, g)
      /\ UNCHANGED <<setup, pool, queue, tokens, inFlight, rotor, brexit, division, history>>
  BY <1>1 DEF BulkInit, AddItems, GotoPc
<1>3. pc(t) \in SpreadPcs /\ "bulk_enqueue" \in SpreadPcs
  BY <1>2 DEF SpreadPcs, BulkPcs
<1>4. /\ f \in Frame /\ f.pc = "bulk_init" /\ f.id \in Spreads /\ f.k \in Nat \ {0} /\ FrameOK(t, f)
      /\ barrier[f.id] \in Nat
  BY <1>2, <1>3, Spreading
<1>5. g \in Frame /\ g.pc = "bulk_enqueue" /\ Same(g, f) /\ g.k = f.k /\ g.callerEnd = f.callerEnd
  BY <1>1, <1>2, <1>3, <1>4, NextPc
<1>6. /\ Has(f) = 1..f.callerEnd \cup ItsOf(f.chunks) /\ Owes(f) = {}
      /\ Has(g) = 1..g.callerEnd \cup ItsOf(g.chunks) /\ Owes(g) = Ends(g.chunks)
  BY <1>4, <1>5, HasAt
<1>7. Has(g) = Has(f) /\ Owes(f) = {} /\ Owes(g) = Ends(cs) /\ ItsOf(cs) \subseteq Has(f)
  BY <1>5, <1>6 DEF Same
<1>8. BulkOK(f) /\ barrier[f.id] = 0
  <2>1. Counts(f.id, Owes(f)) = {}
    BY <1>7 DEF Counts
  <2>2. barrier[f.id] = Cardinality(Counts(f.id, Owes(f))) /\ BulkOK(f)
    BY <1>4 DEF FrameOK, AlonePcs, BulkPcs
  <2> QED
    BY <2>1, <2>2, FS_EmptySet
<1>9. cs \in Seq(Ranges) /\ Len(cs) \in 1..pool /\ Apart(cs) /\ Ends(cs) \subseteq Has(f)
  <2>1. cs \in Seq(Ranges) /\ Len(cs) \in 1..pool /\ Apart(cs)
    BY <1>8 DEF BulkOK
  <2> QED
    BY <1>7, <2>1, EndsIn
<1>10. barrier' = [barrier EXCEPT ![f.id] = @ + Len(cs)] /\ barrier'[f.id] = Len(cs)
  <2>1. barrier[f.id] + Len(cs) = Len(cs)
    BY <1>8, <1>9
  <2> QED
    BY <1>2, <1>4, <2>1 DEF ShopInv, Typed
<1>11. FrameOK(t, g)'
  <2>1. BulkOK(g)'
    <3>1. BulkOK(g)
      BY <1>5, <1>8 DEF BulkOK, Same
    <3> QED
      BY <1>2, <3>1, FramePartsStill DEF history
  <2>2. g.k >= 1 /\ barrier'[g.id] = Len(cs) /\ Len(cs) <= Most * DivisionMax + 1
    <3>1. Len(cs) <= Most * DivisionMax + 1
      BY <1>9, Bounds
    <3> QED
      BY <1>4, <1>5, <1>10, <3>1 DEF Same
  <2>3. Raised(g)' = Most * DivisionMax + 1
    BY <1>5 DEF Raised
  <2>4. g.pc \notin FirePcs /\ g.pc \notin PartPcs /\ g.pc \notin {"look", "alone", "bulk_wake", "own_work"}
    BY <1>5 DEF FirePcs, PartPcs
  <2>5. barrier'[g.id] = Cardinality(Counts(g.id, Owes(g)))
    BY <1>5, <1>7, <1>9, <2>2, CountsMany
  <2> QED
    BY <2>1, <2>2, <2>3, <2>4, <2>5 DEF FrameOK
<1>12. OthersTyped'
  <2>1. workItems' \in 0..(HCRange - 1)
    <3>1. Len(cs) \in Int
      BY <1>9
    <3> QED
      BY <1>2, <3>1, Counters
  <2> QED
    BY <1>2, <2>1 DEF OthersTyped, ShopInv, Typed
<1>13. g.pc \in SpreadPcs /\ g.pc # "return" /\ UNCHANGED <<setup, pool, queue, history>>
  BY <1>2, <1>3, <1>5
<1>14. /\ ShopInv' /\ InHand' = InHand \cup Counts(f.id, Ends(cs))
       /\ Counts(f.id, Ends(cs)) \cap InHand = {}
  <2>1. cs \in Seq(Ranges) /\ Apart(cs) /\ Same(g, f) /\ Goto(t, g) /\ g \in Frame /\ pc(t) \in SpreadPcs
    BY <1>2, <1>3, <1>5, <1>9
  <2>2. barrier' = [barrier EXCEPT ![f.id] = @ + Len(cs)] /\ Ends(cs) \subseteq Has(f)
        /\ Has(g) = Has(f) /\ Owes(f) = {} /\ Owes(g) = Ends(cs)
    BY <1>7, <1>9, <1>10
  <2> QED
    BY ONLY ShopInv, t \in Threads, f = Top(t), <1>11, <1>12, <1>13, <2>1, <2>2, CountsIn
<1> QED
  BY <1>2, <1>9, <1>14

LEMMA RaisedIs ==
  ASSUME NEW g
  PROVE  /\ g.pc = "part" => Raised(g)' = (g.k - 1) * DivisionMax
         /\ g.pc \in {"part_enqueue", "part_notify"} => Raised(g)' = g.k * DivisionMax
         /\ g.pc \in {"bulk_wake", "own_work"} => Raised(g)' = Most * DivisionMax
         /\ g.pc \in {"look", "alone", "bulk_init", "bulk_enqueue", "bulk_undo", "caller_steal", "join", "return"}
              => Raised(g)' = Most * DivisionMax + 1
BY DEF Raised

LEMMA SpreadCallKeeps ==
  ASSUME ShopInv, NEW t \in Threads, NEW s \in Spreads, NEW n \in setup.iterations, SpreadCall(t, s, n),
         NEW new, new = {Share("call", s, 0)} \cup Iters(s, 1..n)
  PROVE  ShopInv' /\ InHand' = InHand \cup new /\ new \cap InHand = {}
<1>1. PICK f : f = SpreadFrame("look", s, <<>>, n, FALSE)
  OBVIOUS
<1>2. /\ UserCode(t) /\ calls[s] = "new" /\ calls' = [calls EXCEPT ![s] = "active"]
      /\ hits' = [hits EXCEPT ![s] = [i \in 1..n |-> 0]] /\ Enter(t, f)
      /\ UNCHANGED <<setup, pool, queue, tokens, shared, barrier, firer, accepted, ran>>
  BY <1>1 DEF SpreadCall
<1>3. n \in Nat \ {0}
  BY ShopAssumption DEF ShopInv, Typed
<1>4. "look" \in SpreadPcs
  BY DEF SpreadPcs
<1>5. /\ f \in Frame /\ f.pc = "look" /\ f.id = s /\ f.k = 1 /\ f.callerEnd = n
  <2>1. f = SpreadFrame("look", s, <<>>, n, FALSE) /\ n \in Nat /\ s \in Spreads
    BY <1>1, <1>3
  <2> QED
    BY ONLY <1>4, <2>1, NoChunks DEF SpreadFrame, Frame
<1>6. f.pc \notin WorkerPcs /\ f.pc # "return" /\ f.pc \notin StopPcs
  BY <1>5 DEF WorkerPcs, StopPcs
<1>7. PICK h : h = [i \in 1..n |-> 0]
  OBVIOUS
<1>8. /\ h \in Seq({0, 1}) /\ Len(h) = n /\ DOMAIN h = 1..n
      /\ \A i \in 1..n : h[i] = 0
  BY <1>3, <1>7
<1>9. /\ hits \in [Spreads -> Seq({0, 1})] /\ calls \in [Spreads -> {"new", "active", "returned"}]
      /\ barrier \in [Spreads -> Nat]
  BY DEF ShopInv, Typed
<1>10. /\ hits' \in [Spreads -> Seq({0, 1})] /\ calls' \in [Spreads -> {"new", "active", "returned"}]
       /\ hits'[s] = h /\ calls'[s] = "active" /\ barrier'[s] = barrier[s]
       /\ \A u \in Spreads : u # s => hits'[u] = hits[u] /\ calls'[u] = calls[u] /\ barrier'[u] = barrier[u]
  BY <1>2, <1>7, <1>8, <1>9
<1>11. /\ \A k, e : k \in {"iter", "count", "ran"} => Share(k, s, e) \notin InHand
       /\ Share("call", s, 0) \notin InHand
       /\ barrier[s] = 0
  <2>1. SharesOK(s) /\ BarrierOK(s)
    BY DEF ShopInv
  <2>2. barrier[s] = 0 /\ hits[s] = <<>> /\ calls[s] # "active"
    BY <1>2, <2>1 DEF BarrierOK
  <2> QED
    BY <2>1, <2>2 DEF SharesOK
<1>12. Has(f) = 1..n /\ Owes(f) = {}
  BY <1>5, HasAt
<1>13. Claims(f) = new
  <2>1. Counts(s, {}) = {}
    BY DEF Counts
  <2>2. Claims(f) = SpreadShares(f)
    BY <1>4, <1>5, ClaimsAt
  <2> QED
    BY <1>5, <1>12, <2>1, <2>2 DEF SpreadShares
<1>14. new \cap InHand = {}
  BY <1>11, IterIs
<1>15. Waiting' = Waiting /\ Disjoint(Threads, Queues, {})' /\ Waiting \subseteq InHand
  BY <1>2, WaitingStill DEF InHand, Taken
<1>16. Trade({}, Claims(f), {}, new, {})
  BY <1>13, <1>14, <1>15 DEF Trade, Trades, InHand
<1>17. Steady
  <2>1. \A u \in Spreads : calls[u] = "active" => Len(hits'[u]) = Len(hits[u])
    BY <1>2, <1>10
  <2> QED
    BY <1>2, <2>1 DEF Steady
<1>18. FrameOK(t, f)'
  <2>1. Raised(f)' = Most * DivisionMax + 1 /\ Most * DivisionMax \in Nat
    BY <1>5, RaisedIs, Bounds
  <2>2. barrier'[f.id] = 0 /\ Len(hits'[f.id]) = n /\ Cardinality(Counts(f.id, Owes(f))) = 0
    <3>1. Counts(f.id, Owes(f)) = {}
      BY <1>12 DEF Counts
    <3> QED
      BY <1>5, <1>8, <1>10, <1>11, <3>1, FS_EmptySet
  <2>3. /\ f.pc \notin FirePcs /\ f.pc \notin PartPcs /\ f.pc \notin BulkPcs /\ f.pc \notin {"bulk_wake", "own_work"}
    BY <1>5 DEF FirePcs, PartPcs, BulkPcs
  <2>4. f.k >= 1 /\ barrier'[f.id] <= Raised(f)'
    BY <1>5, <2>1, <2>2
  <2> QED
    BY <1>3, <1>5, <2>2, <2>3, <2>4 DEF FrameOK
<1>19. Kept(new, {})
  <2>1. /\ pc(t) = "idle" => t \in Callers
        /\ pc(t) \notin StopPcs \cup {"return"} /\ (pc(t) # "idle" \/ InService)
    BY <1>2, UserCodeIs
  <2>2. barrier' = barrier
    BY <1>2
  <2> QED
    BY <1>2, <1>5, <1>6, <1>16, <1>17, <1>18, <2>1, <2>2, StepEnter
<1>20. InHand' = InHand \cup new
  BY <1>19 DEF Kept
<1>21. Typed'
  BY <1>2, <1>10, <1>19 DEF ShopInv, Typed, Kept, shared
<1>22. /\ \A i : Share("iter", s, i) \in InHand' <=> i \in 1..n
       /\ \A e : Share("count", s, e) \notin InHand' /\ Share("ran", s, e) \notin InHand'
  <2>1. PICK J : J = 1..n
    OBVIOUS
  <2>2. /\ \A i : Share("iter", s, i) \in Iters(s, J) <=> i \in J
        /\ \A x \in Iters(s, J) : x.kind = "iter"
    BY IterIs
  <2>3. \A k, i : Share(k, s, i).kind = k
    BY ShareFields
  <2>4. new = {Share("call", s, 0)} \cup Iters(s, J)
    BY <2>1
  <2>5. \A i : Share("iter", s, i) \in new <=> i \in J
    BY ONLY <2>2, <2>3, <2>4
  <2>6. \A i : Share("count", s, i) \notin new /\ Share("ran", s, i) \notin new
    BY ONLY <2>2, <2>3, <2>4
  <2> QED
    BY ONLY <1>11, <1>20, <2>1, <2>5, <2>6
<1>23. SharesOK(s)'
  BY <1>8, <1>10, <1>22 DEF SharesOK
<1>24. BarrierOK(s)'
  <2>1. CountsOf(s)' = {}
    <3>1. CountsOf(s)' = {x \in InHand' : x.kind = "count" /\ x.id = s}
      BY DEF CountsOf
    <3>2. CountsOf(s) = {}
      <4>1. Cardinality(CountsOf(s)) <= 0 /\ Cardinality(CountsOf(s)) \in Nat /\ IsFiniteSet(CountsOf(s))
        BY <1>11, CountsFew DEF CountsOf
      <4>2. Cardinality(CountsOf(s)) = 0
        BY <4>1
      <4> QED
        BY <4>1, <4>2, FS_EmptySet
    <3>3. \A x \in new : x.kind # "count"
      BY IterIs, ShareFields
    <3> QED
      BY <1>20, <3>1, <3>2, <3>3 DEF CountsOf
  <2>2. barrier'[s] = 0 /\ Cardinality(CountsOf(s)') = 0
    BY <1>10, <1>11, <2>1, FS_EmptySet
  <2>3. \A i \in DOMAIN hits'[s] : Share("iter", s, i) \in InHand'
    BY <1>8, <1>10, <1>22
  <2> QED
    BY <1>10, <2>2, <2>3 DEF BarrierOK
<1>25. OfSpread(s, new) /\ OfSpread(s, {}) /\ IsFiniteSet(new)
  <2>1. \A x \in new : x.kind \in SpreadKinds /\ x.id = s
    BY IterIs, ShareFields DEF SpreadKinds
  <2>2. IsFiniteSet(Iters(s, 1..n))
    <3>1. PICK F : F = [i \in 1..n |-> Share("iter", s, i)]
      OBVIOUS
    <3>2. F \in Surjection(1..n, Iters(s, 1..n))
      BY <3>1 DEF Surjection, Iters
    <3>3. IsFiniteSet(1..n)
      <4>1. 1 \in Int /\ n \in Int
        BY <1>3
      <4> QED
        BY <4>1, FS_Interval
    <3> QED
      BY <3>2, <3>3, FS_Surjection
  <2>3. IsFiniteSet({Share("call", s, 0)})
    BY FewFinite
  <2>4. IsFiniteSet(new)
    BY <2>2, <2>3, FS_Union
  <2> QED
    BY <2>1, <2>4 DEF OfSpread
<1>26. \A u \in Spreads \ {s} : Untouched(u)
  BY <1>10 DEF Untouched
<1>27. ShopInv'
  <2>1. SpreadOK(s)' /\ UNCHANGED <<setup, firer, accepted, ran>>
    BY <1>2, <1>23, <1>24 DEF SpreadOK
  <2> QED
    BY <1>15, <1>19, <1>21, <1>25, <1>26, <2>1, SpreadMoves
<1> QED
  BY <1>14, <1>20, <1>27

LEMMA SpreadLookKeeps ==
  ASSUME ShopInv, NEW t \in Threads, SpreadLook(t)
  PROVE  ShopInv' /\ InHand' = InHand
<1>1. PICK f, s, n : f = Top(t) /\ s = f.id /\ n = f.callerEnd
  OBVIOUS
<1>2. PICK g : g = SpreadPath(t, s, n, workItems)
  OBVIOUS
<1>3. /\ pc(t) = "look" /\ Goto(t, g)
      /\ UNCHANGED <<setup, pool, queue, tokens, shared, barrier, history>>
  BY <1>1, <1>2 DEF SpreadLook
<1>4. pc(t) \in SpreadPcs
  BY <1>3 DEF SpreadPcs
<1>5. /\ pc(t) # "idle" /\ pc(t) \notin RunPcs /\ f \in Frame /\ f.pc = "look" /\ s \in Spreads
      /\ n \in Nat /\ FrameOK(t, f) /\ Claims(f) = SpreadShares(f)
  BY <1>1, <1>3, <1>4, Spreading
<1>6. Has(f) = 1..n /\ Owes(f) = {}
  BY <1>1, <1>5, HasAt
<1>7. n = Len(hits[s]) /\ n # 0 /\ barrier[s] = 0
  <2>1. Counts(s, Owes(f)) = {}
    BY <1>6 DEF Counts
  <2>2. n = Len(hits[s]) /\ n # 0 /\ barrier[s] = Cardinality(Counts(s, Owes(f)))
    BY <1>1, <1>5 DEF FrameOK, AlonePcs
  <2> QED
    BY <2>1, <2>2, FS_EmptySet
<1>8. /\ g \in Frame /\ g.pc \in {"alone", "own_work", "part", "bulk_init"} /\ g.id = s
      /\ Has(g) = 1..n /\ Owes(g) = {} /\ FrameOK(t, g)
  BY <1>2, <1>5, <1>7, PathIs
<1>9. g.pc \in SpreadPcs /\ g.pc # "return"
  BY <1>8 DEF SpreadPcs, PartPcs, BulkPcs
<1>10. Claims(g) = Claims(Top(t)) /\ Alike(pc(t), g.pc)
  <2>1. Claims(g) = SpreadShares(g)
    BY <1>9, ClaimsAt
  <2>2. SpreadShares(g) = SpreadShares(f)
    BY <1>1, <1>6, <1>8 DEF SpreadShares
  <2> QED
    BY <1>1, <1>4, <1>5, <1>9, <2>1, <2>2, SpreadsAlike
<1>11. OthersTyped'
  BY <1>3 DEF OthersTyped, ShopInv, Typed, shared
<1> QED
  BY <1>3, <1>5, <1>8, <1>9, <1>10, <1>11, GoesOn

--------------------------------------------------------------------------------
(* Chunks that are handed out *)

LEMMA ChunkWorks ==
  ASSUME NEW s \in Spreads, NEW cs \in Seq(Ranges), Apart(cs),
         NEW ws, ws = [j \in 1..Len(cs) |-> ChunkWork(s, cs[j])]
  PROVE  /\ ws \in Seq(Works) /\ Separate(ws) /\ Len(ws) = Len(cs)
         /\ AllShares(ws) = Iters(s, ItsOf(cs)) \cup Counts(s, Ends(cs))
<1>1. /\ \A j \in 1..Len(cs) : cs[j] \in Ranges /\ cs[j].to \in Its(cs[j])
      /\ DOMAIN cs = 1..Len(cs) /\ Len(cs) \in Nat
  BY EndsIn
<1>2. \A j \in 1..Len(cs) : /\ ws[j] \in Works
                            /\ WorkShares(ws[j]) = Iters(s, Its(cs[j])) \cup Counts(s, {cs[j].to})
  BY <1>1, WorkShape
<1>3. ws \in Seq(Works) /\ Len(ws) = Len(cs)
  <2>1. PICK n \in Nat : n = Len(cs)
    BY <1>1
  <2>2. ws = [j \in 1..n |-> ws[j]] /\ \A j \in 1..n : ws[j] \in Works
    BY <1>2, <2>1
  <2> QED
    BY ONLY <2>1, <2>2
<1>4. ASSUME NEW i \in 1..Len(cs), NEW j \in 1..Len(cs), i # j
      PROVE  WorkShares(ws[i]) \cap WorkShares(ws[j]) = {}
  <2>1. Its(cs[i]) \cap Its(cs[j]) = {} /\ cs[i].to # cs[j].to
    BY <1>1, <1>4 DEF Apart
  <2>2. PICK I, J, a, b : I = Its(cs[i]) /\ J = Its(cs[j]) /\ a = cs[i].to /\ b = cs[j].to
    OBVIOUS
  <2>3. Iters(s, I) \cap Iters(s, J) = {}
    BY <2>1, <2>2, IterIs
  <2>4. Counts(s, {a}) \cap Counts(s, {b}) = {}
    BY <2>1, <2>2, CountIs
  <2>5. Iters(s, I) \cap Counts(s, {b}) = {} /\ Counts(s, {a}) \cap Iters(s, J) = {}
    <3>1. (\A x \in Iters(s, I) : x.kind = "iter") /\ \A x \in Iters(s, J) : x.kind = "iter"
      BY IterIs
    <3>2. (\A x \in Counts(s, {a}) : x.kind = "count") /\ \A x \in Counts(s, {b}) : x.kind = "count"
      BY CountIs
    <3> QED
      BY <3>1, <3>2
  <2> QED
    BY <1>2, <2>2, <2>3, <2>4, <2>5
<1>5. AllShares(ws) = Iters(s, ItsOf(cs)) \cup Counts(s, Ends(cs))
  <2>1. ASSUME NEW x \in AllShares(ws)
        PROVE  x \in Iters(s, ItsOf(cs)) \cup Counts(s, Ends(cs))
    <3>1. PICK j \in 1..Len(cs) : x \in WorkShares(ws[j])
      BY <1>3, <2>1 DEF AllShares
    <3>2. x \in Iters(s, Its(cs[j])) \cup Counts(s, {cs[j].to})
      BY <1>2, <3>1
    <3>3. Its(cs[j]) \subseteq ItsOf(cs) /\ cs[j].to \in Ends(cs)
      BY <1>1, <3>1 DEF ItsOf, Ends
    <3> QED
      BY <3>2, <3>3 DEF Iters, Counts
  <2>2. ASSUME NEW x \in Iters(s, ItsOf(cs))
        PROVE  x \in AllShares(ws)
    <3>1. PICK j \in 1..Len(cs) : x \in Iters(s, Its(cs[j]))
      BY <1>1, <2>2 DEF ItsOf, Iters
    <3> QED
      BY <1>2, <1>3, <3>1 DEF AllShares
  <2>3. ASSUME NEW x \in Counts(s, Ends(cs))
        PROVE  x \in AllShares(ws)
    <3>1. PICK j \in 1..Len(cs) : x \in Counts(s, {cs[j].to})
      BY <1>1, <2>3 DEF Ends, Counts
    <3> QED
      BY <1>2, <1>3, <3>1 DEF AllShares
  <2> QED
    BY <2>1, <2>2, <2>3
<1> QED
  BY <1>3, <1>4, <1>5 DEF Separate

\* What a spread that hands its chunks out, or loses them, has before and after.
LEMMA Parting ==
  ASSUME NEW f, NEW g, f.pc \in SpreadPcs, g.pc \in SpreadPcs, g.id = f.id,
         NEW cs, Has(f) = Has(g) \cup ItsOf(cs), Has(g) \cap ItsOf(cs) = {},
         Owes(f) = Ends(cs), Owes(g) = {},
         NEW Z, Z = Iters(f.id, ItsOf(cs)) \cup Counts(f.id, Ends(cs))
  PROVE  Claims(f) = Claims(g) \cup Z /\ Claims(g) \cap Z = {}
<1>1. PICK s, H, I, E : s = f.id /\ H = Has(g) /\ I = ItsOf(cs) /\ E = Ends(cs)
  OBVIOUS
<1>2. Claims(g) = {Share("call", s, 0)} \cup Iters(s, H)
  <2>1. Claims(g) = SpreadShares(g) /\ Counts(s, {}) = {}
    BY ClaimsAt DEF Counts
  <2> QED
    BY <1>1, <2>1 DEF SpreadShares
<1>3. Claims(f) = {Share("call", s, 0)} \cup Iters(s, H \cup I) \cup Counts(s, E)
  <2>1. Claims(f) = SpreadShares(f)
    BY ClaimsAt
  <2> QED
    BY <1>1, <2>1 DEF SpreadShares
<1>4. Iters(s, H \cup I) = Iters(s, H) \cup Iters(s, I)
  BY DEF Iters
<1>5. Z = Iters(s, I) \cup Counts(s, E)
  BY <1>1
<1>6. Iters(s, H) \cap Iters(s, I) = {}
  BY <1>1, IterIs
<1>7. /\ \A x \in Iters(s, I) : x.kind = "iter"
      /\ \A x \in Iters(s, H) : x.kind = "iter"
      /\ \A x \in Counts(s, E) : x.kind = "count"
  BY IterIs, CountIs
<1>8. Share("call", s, 0).kind = "call"
  BY ShareFields
<1> QED
  BY ONLY <1>2, <1>3, <1>4, <1>5, <1>6, <1>7, <1>8

HandsOut(s, cs, p) == queue' = [queue EXCEPT ![p] = @ \o [j \in 1..Len(cs) |-> ChunkWork(s, cs[j])]]

LEMMA PutsChunks ==
  ASSUME ShopInv, NEW t \in Threads, pc(t) \in SpreadPcs, NEW f, f = Top(t),
         NEW g \in Frame, g.pc \in SpreadPcs, g.pc # "return", g.id = f.id, Goto(t, g), FrameOK(t, g),
         NEW cs \in Seq(Ranges), Apart(cs), Has(f) = Has(g) \cup ItsOf(cs), Has(g) \cap ItsOf(cs) = {},
         Owes(f) = Ends(cs), Owes(g) = {},
         NEW p \in Threads, HandsOut(f.id, cs, p),
         UNCHANGED <<setup, pool, barrier, history>>, OthersTyped'
  PROVE  ShopInv' /\ InHand' = InHand
<1>0. PICK ws : ws = [j \in 1..Len(cs) |-> ChunkWork(f.id, cs[j])]
  OBVIOUS
<1>1. /\ pc(t) # "idle" /\ pc(t) \notin RunPcs /\ f \in Frame /\ f.pc = pc(t) /\ f.id \in Spreads
      /\ Claims(f) \cap Waiting = {}
  BY Spreading
<1>2. PICK Z : Z = Iters(f.id, ItsOf(cs)) \cup Counts(f.id, Ends(cs))
  OBVIOUS
<1>3. Claims(f) = Claims(g) \cup Z /\ Claims(g) \cap Z = {}
  BY <1>1, <1>2, Parting
<1>4. ws \in Seq(Works) /\ Separate(ws) /\ AllShares(ws) = Z
  BY <1>0, <1>1, <1>2, ChunkWorks
<1>5. /\ queue' \in [Threads -> Seq(Works)] /\ Disjoint(Threads, Queues, {})'
      /\ Waiting' = Waiting \cup Z
  <2>1. AllShares(ws) \cap Waiting = {}
    BY <1>1, <1>3, <1>4
  <2>2. Adds(queue, p, ws, queue')
    BY <1>0 DEF Adds, HandsOut
  <2> QED
    BY <1>4, <2>1, <2>2, Puts
<1>6. Trade(Claims(f), Claims(g), {}, {}, {})
  BY <1>1, <1>3, <1>5 DEF Trade, Trades
<1>7. Steady /\ MyBarrier(t)
  BY SteadyStill DEF MyBarrier, ShopInv, Typed
<1>8. Kept({}, {})
  <2>1. FrameOK(t, g)'
    BY FrameStays
  <2>2. Alike(pc(t), g.pc) /\ Trade(Claims(Top(t)), Claims(g), {}, {}, {})
    BY <1>6, SpreadsAlike
  <2> QED
    BY <1>1, <1>7, <2>1, <2>2, StepGoto
<1>9. Typed'
  BY <1>5, <1>8 DEF ShopInv, Typed, Kept, OthersTyped, history
<1> QED
  BY <1>5, <1>8, <1>9, Passed

LEMMA LosesChunks ==
  ASSUME ShopInv, NEW t \in Threads, pc(t) \in SpreadPcs, NEW f, f = Top(t),
         NEW g \in Frame, g.pc \in SpreadPcs, g.pc # "return", g.id = f.id, Goto(t, g), FrameOK(t, g),
         NEW cs \in Seq(Ranges), Apart(cs), Len(cs) # 0,
         Has(f) = Has(g) \cup ItsOf(cs), Has(g) \cap ItsOf(cs) = {},
         Owes(f) = Ends(cs), Owes(g) = {}, "part" \in setup.faults,
         UNCHANGED <<setup, pool, queue, barrier, history>>, OthersTyped'
  PROVE  ShopInv' /\ InHand' = InHand \ (Iters(f.id, ItsOf(cs)) \cup Counts(f.id, Ends(cs)))
<1>1. PICK s, n : s = f.id /\ n = Len(cs)
  OBVIOUS
<1>2. /\ pc(t) # "idle" /\ pc(t) \notin RunPcs /\ f \in Frame /\ f.pc = pc(t) /\ s \in Spreads
      /\ Claims(f) \cap Waiting = {} /\ Claims(f) \subseteq InHand /\ calls[s] = "active"
      /\ BarrierOK(s) /\ barrier[s] \in Nat
  BY <1>1, Spreading
<1>3. PICK X, gone : X = Counts(s, Ends(cs)) /\ gone = Iters(s, ItsOf(cs)) \cup X
  OBVIOUS
<1>4. Claims(f) = Claims(g) \cup gone /\ Claims(g) \cap gone = {}
  BY <1>1, <1>2, <1>3, Parting
<1>5. Waiting' = Waiting /\ Disjoint(Threads, Queues, {})'
  BY WaitingStill
<1>6. Trade(Claims(f), Claims(g), {}, {}, gone)
  BY <1>2, <1>4, <1>5 DEF Trade, Trades
<1>7. Steady /\ MyBarrier(t)
  BY SteadyStill DEF MyBarrier, ShopInv, Typed
<1>8. Kept({}, gone)
  <2>1. FrameOK(t, g)'
    BY FrameStays
  <2>2. Alike(pc(t), g.pc) /\ Trade(Claims(Top(t)), Claims(g), {}, {}, gone)
    BY <1>6, SpreadsAlike
  <2> QED
    BY <1>2, <1>7, <2>1, <2>2, StepGoto
<1>9. InHand' = InHand \ gone
  BY <1>8 DEF Kept
<1>10. \A x \in X : x.kind = "count" /\ x.id = s
  BY <1>3, CountIs
<1>11. Cardinality(CountsOf(s)') < barrier'[s]
  <2>1. PICK Y, W : Y = CountsOf(s) /\ W = CountsOf(s)'
    OBVIOUS
  <2>2. W = {x \in InHand' : x.kind = "count" /\ x.id = s}
    BY <2>1 DEF CountsOf
  <2>3. W \subseteq Y /\ X \subseteq Y /\ W \cap X = {}
    BY <1>2, <1>3, <1>4, <1>9, <1>10, <2>1, <2>2 DEF CountsOf
  <2>4. IsFiniteSet(Y) /\ Cardinality(Y) <= barrier[s] /\ Cardinality(Y) \in Nat
    BY <1>2, <2>1, CountsFew DEF CountsOf
  <2>5. X # {}
    <3>1. Cardinality(X) = n /\ n # 0
      BY <1>1, <1>3, CountsMany
    <3> QED
      BY <3>1, FS_EmptySet
  <2>6. IsFiniteSet(W) /\ Cardinality(W) <= Cardinality(Y) /\ (Cardinality(Y) = Cardinality(W) => Y = W)
    BY <2>3, <2>4, FS_Subset
  <2>7. Cardinality(W) \in Nat /\ Y # W
    BY <2>3, <2>5, <2>6, FS_CardinalityType
  <2> QED
    BY <1>2, <2>1, <2>4, <2>6, <2>7
<1>12. BarrierOK(s)'
  <2>1. calls'[s] = "active" /\ "part" \in setup'.faults
    BY <1>2 DEF history
  <2>2. Cardinality(CountsOf(s)') \in Nat /\ barrier'[s] \in Nat
    <3>1. CountsOf(s)' \subseteq InHand
      BY <1>9 DEF CountsOf
    <3>2. IsFiniteSet(CountsOf(s)')
      BY <3>1, FS_Subset DEF ShopInv
    <3> QED
      BY <1>2, <3>2, FS_CardinalityType
  <2> QED
    BY <1>11, <2>1, <2>2 DEF BarrierOK
<1>13. OfSpread(s, {}) /\ OfSpread(s, gone) /\ IsFiniteSet({})
  BY <1>3, <1>10, IterIs, FS_EmptySet DEF OfSpread, SpreadKinds
<1>14. queue' \in [Threads -> Seq(Works)] /\ barrier' \in [Spreads -> Nat]
  BY DEF ShopInv, Typed
<1>15. ShopInv'
  <2>1. \A x \in {} : x.kind = "count"
    OBVIOUS
  <2>2. \A u \in Spreads : u # s => barrier'[u] = barrier[u]
    OBVIOUS
  <2>3. UNCHANGED <<setup, pool, history>>
    OBVIOUS
  <2> QED
    BY ONLY ShopInv, OthersTyped', <1>2, <1>5, <1>8, <1>12, <1>13, <1>14, <2>1, <2>2, <2>3, SpreadTurns
<1> QED
  BY <1>1, <1>3, <1>9, <1>15

LEMMA PoolThreads ==
  ASSUME ShopInv
  PROVE  (\A k \in 0..(pool - 1) : k \in Threads /\ k \in 0..(Most - 1)) /\ Workers = 0..(pool - 1)
<1>1. pool \in Nat /\ Most \in Nat /\ pool <= Most /\ NumCallers \in Nat \ {0}
  BY Bounds, ShopAssumption
<1> QED
  BY <1>1 DEF Threads, Workers

LEMMA OneMoreToken ==
  ASSUME ShopInv, NEW k \in 0..(pool - 1), tokens' = [tokens EXCEPT ![k] = @ + 1]
  PROVE  tokens' \in [0..(Most - 1) -> Nat]
<1>1. k \in 0..(Most - 1)
  BY PoolThreads
<1>2. tokens \in [0..(Most - 1) -> Nat]
  BY DEF ShopInv, Typed
<1>3. tokens[k] + 1 \in Nat
  BY <1>1, <1>2
<1> QED
  BY ONLY <1>1, <1>2, <1>3, tokens' = [tokens EXCEPT ![k] = @ + 1]

LEMMA NextPcK ==
  ASSUME NEW f \in Frame, f.pc \in SpreadPcs, NEW l \in SpreadPcs, NEW k \in Nat,
         NEW g, g = SpreadRec(l, f.id, f.chunks, k, f.callerEnd, f.wait, f.seen)
  PROVE  g \in Frame /\ g.pc = l /\ Same(g, f) /\ g.k = k /\ g.callerEnd = f.callerEnd
<1>1. /\ f.id \in Spreads /\ f.chunks \in Cuts /\ f.callerEnd \in Nat
      /\ f.wait \in BOOLEAN /\ f.seen \in SUBSET Threads
  BY SpreadShape
<1>2. g.pc = l /\ Same(g, f) /\ g.k = k /\ g.callerEnd = f.callerEnd
  BY ONLY g = SpreadRec(l, f.id, f.chunks, k, f.callerEnd, f.wait, f.seen) DEF SpreadRec, Same
<1>3. g \in Frame
  BY ONLY <1>1, g = SpreadRec(l, f.id, f.chunks, k, f.callerEnd, f.wait, f.seen),
          l \in SpreadPcs, k \in Nat DEF SpreadRec, Frame
<1> QED
  BY <1>2, <1>3

LEMMA NextK ==
  ASSUME NEW f \in Frame, f.pc \in SpreadPcs, NEW g, g = [f EXCEPT !.k = @ + 1]
  PROVE  g \in Frame /\ g.pc = f.pc /\ Same(g, f) /\ g.k = f.k + 1 /\ g.callerEnd = f.callerEnd
BY SpreadOn

LEMMA NextPartIs ==
  ASSUME ShopInv, NEW t \in Threads, pc(t) \in {"part_enqueue", "part_notify"}, NEW f, f = Top(t),
         NEW g, g = NextPart(f)
  PROVE  /\ g \in Frame /\ g.pc \in {"part", "own_work"} /\ g.id = f.id
         /\ Has(g) = 1..f.callerEnd \cup Rest(f.chunks, f.k + 1) /\ Owes(g) = {} /\ FrameOK(t, g)
<1>1. pc(t) \in SpreadPcs /\ pc(t) \in PartPcs /\ {"own_work", "part"} \subseteq SpreadPcs
  BY DEF SpreadPcs, PartPcs
<1>2. /\ f \in Frame /\ f.pc = pc(t) /\ f.id \in Spreads /\ f.k \in Nat \ {0} /\ FrameOK(t, f)
      /\ barrier[f.id] \in Nat
  BY <1>1, Spreading
<1>3. PartsOK(f) /\ barrier[f.id] <= f.k * DivisionMax
  <2>1. Raised(f) = f.k * DivisionMax
    BY <1>2, RaisedAt
  <2> QED
    BY <1>1, <1>2, <2>1 DEF FrameOK
<1>4. f.k \in 1..Len(f.chunks) /\ Len(f.chunks) <= pool /\ f.callerEnd # 0 /\ Len(f.chunks) \in Nat
      /\ DOMAIN f.chunks = 1..Len(f.chunks)
  BY <1>3 DEF PartsOK
<1>5. CASE f.k = Len(f.chunks)
  <2>1. g = [f EXCEPT !.pc = "own_work"]
    BY <1>5 DEF NextPart
  <2>2. g \in Frame /\ g.pc = "own_work" /\ Same(g, f) /\ g.k = f.k /\ g.callerEnd = f.callerEnd
    BY <1>1, <1>2, <2>1, NextPc
  <2>3. Rest(f.chunks, f.k + 1) = {}
    <3>1. \A b \in DOMAIN f.chunks : ~(f.k + 1 <= b)
      BY <1>4, <1>5
    <3> QED
      BY <3>1 DEF Rest
  <2>4. Has(g) = 1..f.callerEnd /\ Owes(g) = {}
    BY <2>2, HasAt
  <2>5. barrier[g.id] <= Raised(g) /\ g.k >= 1
    <3>1. Raised(g) = Most * DivisionMax
      BY <2>2, RaisedAt
    <3>2. f.k * DivisionMax <= Most * DivisionMax /\ f.k * DivisionMax \in Nat /\ Most * DivisionMax \in Nat
      <4>1. f.k \in Nat /\ Most \in Nat /\ f.k <= Most /\ DivisionMax \in Nat
        BY <1>2, <1>4, <1>5, Bounds
      <4> QED
        BY <4>1, Products
    <3> QED
      BY <1>2, <1>3, <2>2, <3>1, <3>2 DEF Same
  <2>6. FrameOK(t, g)
    <3>1. /\ g.pc \notin FirePcs /\ g.pc \notin AlonePcs /\ g.pc \notin PartPcs /\ g.pc \notin BulkPcs
          /\ g.pc \notin {"look", "alone"} /\ g.pc # "bulk_wake"
      BY <2>2 DEF FirePcs, AlonePcs, PartPcs, BulkPcs
    <3> QED
      BY <1>4, <2>2, <2>5, <3>1 DEF FrameOK
  <2> QED
    BY <2>2, <2>3, <2>4, <2>6 DEF Same
<1>6. CASE f.k # Len(f.chunks)
  <2>1. g = [f EXCEPT !.pc = "part", !.k = @ + 1]
    BY <1>6 DEF NextPart
  <2>2. g \in Frame /\ g.pc = "part" /\ Same(g, f) /\ g.k = f.k + 1 /\ g.callerEnd = f.callerEnd
    <3>1. \A l, k : [f EXCEPT !.pc = l, !.k = k]
                      = SpreadRec(l, f.id, f.chunks, k, f.callerEnd, f.wait, f.seen)
      BY ZenonT(40), <1>1, <1>2, SpreadShape
    <3>2. g = [f EXCEPT !.pc = "part", !.k = f.k + 1]
      BY <2>1
    <3>3. g = SpreadRec("part", f.id, f.chunks, f.k + 1, f.callerEnd, f.wait, f.seen)
      BY ONLY <3>1, <3>2, Zenon
    <3>4. f \in Frame /\ f.pc \in SpreadPcs /\ "part" \in SpreadPcs /\ f.k + 1 \in Nat
      BY <1>1, <1>2
    <3> QED
      BY ONLY <3>3, <3>4, NextPcK
  <2>3. Has(g) = 1..f.callerEnd \cup Rest(f.chunks, f.k + 1) /\ Owes(g) = {}
    BY <2>2, HasAt DEF Same
  <2>4. barrier[g.id] <= Raised(g) /\ g.k >= 1
    <3>1. Raised(g) = (g.k - 1) * DivisionMax
      BY <2>2, RaisedAt
    <3>2. g.k - 1 = f.k /\ g.k >= 1
      BY <1>2, <2>2
    <3> QED
      BY <1>3, <2>2, <3>1, <3>2 DEF Same
  <2>5. PartsOK(g)
    <3>1. g.k \in 1..Len(f.chunks)
      BY <1>2, <1>4, <1>6, <2>2
    <3>2. PartsOK(f) /\ g.chunks = f.chunks /\ g.wait = f.wait /\ g.callerEnd = f.callerEnd
      BY <1>3, <2>2 DEF Same
    <3> QED
      BY ONLY <3>1, <3>2 DEF PartsOK
  <2>6. FrameOK(t, g)
    <3>1. /\ g.pc \notin FirePcs /\ g.pc \notin AlonePcs /\ g.pc \notin BulkPcs
          /\ g.pc \notin {"look", "alone", "bulk_wake", "own_work"}
      BY <2>2 DEF FirePcs, AlonePcs, BulkPcs
    <3> QED
      BY <2>4, <2>5, <3>1 DEF FrameOK
  <2> QED
    BY <2>2, <2>3, <2>6 DEF Same
<1> QED
  BY <1>5, <1>6

LEMMA PartNotifyKeeps ==
  ASSUME ShopInv, NEW t \in Threads, PartNotify(t)
  PROVE  ShopInv' /\ InHand' = InHand
<1>1. PICK f, g : f = Top(t) /\ g = NextPart(f)
  OBVIOUS
<1>2. /\ pc(t) = "part_notify" /\ tokens' = [tokens EXCEPT ![0] = @ + 1] /\ Goto(t, g)
      /\ UNCHANGED <<setup, pool, queue, shared, barrier, history>>
  BY <1>1 DEF PartNotify, Notify
<1>3. pc(t) \in SpreadPcs /\ {"own_work", "part"} \subseteq SpreadPcs /\ pc(t) \in PartPcs
  BY <1>2 DEF SpreadPcs, PartPcs
<1>4. /\ pc(t) # "idle" /\ pc(t) \notin RunPcs /\ f \in Frame /\ f.pc = "part_notify"
      /\ FrameOK(t, f) /\ Claims(f) = SpreadShares(f)
  BY <1>1, <1>2, <1>3, Spreading
<1>5. /\ g \in Frame /\ g.pc \in {"part", "own_work"} /\ g.id = f.id
      /\ Has(g) = 1..f.callerEnd \cup Rest(f.chunks, f.k + 1) /\ Owes(g) = {} /\ FrameOK(t, g)
  BY <1>1, <1>2, NextPartIs
<1>6. Has(f) = Has(g) /\ Owes(f) = Owes(g)
  BY <1>4, <1>5, HasAt
<1>7. Claims(g) = Claims(Top(t)) /\ Alike(pc(t), g.pc) /\ g.pc # "return"
  <2>1. Claims(g) = SpreadShares(g)
    BY <1>3, <1>5, ClaimsAt
  <2>2. SpreadShares(g) = SpreadShares(f)
    BY <1>5, <1>6 DEF SpreadShares
  <2> QED
    BY <1>1, <1>3, <1>4, <1>5, <2>1, <2>2, SpreadsAlike
<1>8. OthersTyped'
  <2>1. 0 \in 0..(pool - 1)
    <3>1. Len(f.chunks) <= pool /\ f.k \in 1..Len(f.chunks) /\ pool \in Nat /\ Len(f.chunks) \in Nat
      BY <1>2, <1>3, <1>4, Bounds DEF FrameOK, PartsOK
    <3> QED
      BY <3>1
  <2>2. tokens' \in [0..(Most - 1) -> Nat]
    BY <1>2, <2>1, OneMoreToken
  <2> QED
    BY <1>2, <2>2 DEF OthersTyped, ShopInv, Typed, shared
<1> QED
  BY <1>2, <1>4, <1>5, <1>7, <1>8, GoesOn

LEMMA BulkWakeKeeps ==
  ASSUME ShopInv, NEW t \in Threads, BulkWake(t)
  PROVE  ShopInv' /\ InHand' = InHand
<1>1. PICK f, g : /\ f = Top(t)
                  /\ g = IF f.k = pool THEN [f EXCEPT !.pc = "own_work"] ELSE [f EXCEPT !.k = @ + 1]
  OBVIOUS
<1>2. /\ pc(t) = "bulk_wake" /\ tokens' = [tokens EXCEPT ![f.k - 1] = @ + 1] /\ Goto(t, g)
      /\ UNCHANGED <<setup, pool, queue, shared, barrier, history>>
  BY <1>1 DEF BulkWake, Notify
<1>3. pc(t) \in SpreadPcs /\ {"own_work", "bulk_wake"} \subseteq SpreadPcs
  BY <1>2 DEF SpreadPcs
<1>4. /\ pc(t) # "idle" /\ pc(t) \notin RunPcs /\ f \in Frame /\ f.pc = "bulk_wake" /\ f.k \in Nat \ {0}
      /\ FrameOK(t, f) /\ Claims(f) = SpreadShares(f) /\ f.pc \in SpreadPcs
  BY <1>1, <1>2, <1>3, Spreading
<1>5. /\ g \in Frame /\ g.pc \in {"bulk_wake", "own_work"} /\ Same(g, f) /\ g.callerEnd = f.callerEnd
      /\ g.pc = "bulk_wake" => f.k # pool /\ g.k = f.k + 1
      /\ g.k >= 1
  <2>1. CASE f.k = pool
    <3>1. g = [f EXCEPT !.pc = "own_work"]
      BY <1>1, <2>1
    <3>2. g \in Frame /\ g.pc = "own_work" /\ Same(g, f) /\ g.k = f.k /\ g.callerEnd = f.callerEnd
      BY <1>3, <1>4, <3>1, NextPc
    <3> QED
      BY <1>4, <3>2
  <2>2. CASE f.k # pool
    <3>1. g = [f EXCEPT !.k = @ + 1]
      BY <1>1, <2>2
    <3>2. g \in Frame /\ g.pc = f.pc /\ Same(g, f) /\ g.k = f.k + 1 /\ g.callerEnd = f.callerEnd
      BY <1>4, <3>1, NextK
    <3> QED
      BY <1>4, <2>2, <3>2
  <2> QED
    BY <2>1, <2>2
<1>6. f.k <= pool /\ (f.callerEnd = 0 => f.wait) /\ barrier[f.id] <= Raised(f)
  BY <1>4 DEF FrameOK
<1>7. FrameOK(t, g)
  <2>1. Raised(g) = Raised(f)
    BY <1>4, <1>5, RaisedAt
  <2>2. /\ g.pc \notin FirePcs /\ g.pc \notin AlonePcs /\ g.pc \notin PartPcs /\ g.pc \notin BulkPcs
        /\ g.pc \notin {"look", "alone"}
    BY <1>5 DEF FirePcs, AlonePcs, PartPcs, BulkPcs
  <2>3. g.pc = "bulk_wake" => g.k <= pool
    BY <1>4, <1>5, <1>6, Bounds
  <2>4. g.callerEnd = 0 => g.wait
    BY <1>5, <1>6 DEF Same
  <2>5. barrier[g.id] <= Raised(g)
    BY <1>5, <1>6, <2>1 DEF Same
  <2> QED
    BY <1>5, <2>2, <2>3, <2>4, <2>5 DEF FrameOK
<1>8. Claims(g) = Claims(Top(t)) /\ Alike(pc(t), g.pc) /\ g.pc # "return"
  <2>1. Claims(g) = SpreadShares(g)
    BY <1>3, <1>5, ClaimsAt
  <2>2. Has(g) = Has(f) /\ Owes(g) = Owes(f)
    BY <1>4, <1>5, HasAt
  <2>3. SpreadShares(g) = SpreadShares(f)
    BY <1>5, <2>2 DEF SpreadShares, Same
  <2> QED
    BY <1>1, <1>3, <1>4, <1>5, <2>1, <2>3, SpreadsAlike
<1>9. OthersTyped'
  <2>1. f.k - 1 \in 0..(pool - 1)
    BY <1>4, <1>6, Bounds
  <2>2. tokens' \in [0..(Most - 1) -> Nat]
    BY <1>2, <2>1, OneMoreToken
  <2> QED
    BY <1>2, <2>2 DEF OthersTyped, ShopInv, Typed, shared
<1> QED
  BY <1>2, <1>4, <1>5, <1>7, <1>8, <1>9, GoesOn

\* The part that is handed out next, and the others.
LEMMA PartApart ==
  ASSUME pool \in Nat, NEW f, PartsOK(f), NEW cs, cs = f.chunks[f.k], NEW H, H = 1..f.callerEnd \cup Rest(f.chunks, f.k + 1)
  PROVE  /\ 1..f.callerEnd \cup Rest(f.chunks, f.k) = H \cup ItsOf(cs) /\ H \cap ItsOf(cs) = {}
         /\ cs \in Seq(Ranges) /\ Apart(cs) /\ Len(cs) # 0 /\ f.k - 1 \in 0..(pool - 1)
<1>1. PICK P, k, e : P = f.chunks /\ k = f.k /\ e = f.callerEnd
  OBVIOUS
<1>2. P \in Seq(Seq(Ranges)) /\ k \in 1..Len(P) /\ DOMAIN P = 1..Len(P) /\ Len(P) \in Nat /\ Len(P) <= pool
  BY <1>1 DEF PartsOK
<1>3. /\ Len(cs) # 0 /\ Apart(cs) /\ ItsOf(cs) \cap 1..e = {}
      /\ \A b \in 1..Len(P) : k # b => ItsOf(cs) \cap ItsOf(P[b]) = {}
  <2>1. \A a \in 1..Len(P) :
          /\ Len(P[a]) \in 1..DivisionMax /\ Apart(P[a])
          /\ ItsOf(P[a]) \cap 1..e = {}
          /\ \A b \in 1..Len(P) : a # b => ItsOf(P[a]) \cap ItsOf(P[b]) = {}
    BY ONLY <1>1, PartsOK(f) DEF PartsOK
  <2>2. cs = P[k] /\ cs \in Seq(Ranges)
    BY <1>1, <1>2
  <2>3. Len(cs) \in 1..DivisionMax /\ Apart(cs) /\ ItsOf(cs) \cap 1..e = {}
    BY ONLY <1>2, <2>1, <2>2
  <2>4. \A b \in 1..Len(P) : k # b => ItsOf(cs) \cap ItsOf(P[b]) = {}
    BY ONLY <1>2, <2>1, <2>2
  <2> QED
    BY <2>3, <2>4
<1>4. ItsOf(cs) \cap Rest(P, k + 1) = {}
  <2>1. ASSUME NEW b \in DOMAIN P, k + 1 <= b PROVE ItsOf(cs) \cap ItsOf(P[b]) = {}
    <3>1. k # b
      BY <1>2, <2>1
    <3> QED
      BY <1>2, <1>3, <3>1
  <2> QED
    BY <2>1 DEF Rest
<1>5. Rest(P, k) = ItsOf(P[k]) \cup Rest(P, k + 1)
  <2>1. {b \in DOMAIN P : k <= b} = {k} \cup {b \in DOMAIN P : k + 1 <= b}
    BY <1>2
  <2> QED
    BY <2>1 DEF Rest
<1>6. k - 1 \in 0..(pool - 1) /\ cs \in Seq(Ranges)
  BY <1>1, <1>2
<1> QED
  BY <1>1, <1>2, <1>3, <1>4, <1>5, <1>6

LEMMA PartEnqueueKeeps ==
  ASSUME ShopInv, NEW t \in Threads, PartEnqueue(t)
  PROVE  /\ ShopInv' /\ InHand' \subseteq InHand /\ ("part" \notin setup.faults => InHand' = InHand)
         /\ workItems' = workItems /\ inFlight' = inFlight
<1>1. PICK f, g, s, cs : /\ f = Top(t) /\ s = f.id /\ cs = f.chunks[f.k]
                         /\ g = IF f.k = 1 THEN [f EXCEPT !.pc = "part_notify"] ELSE NextPart(f)
  OBVIOUS
<1>2. PICK ws : ws = [j \in 1..Len(cs) |-> ChunkWork(s, cs[j])]
  OBVIOUS
<1>3. /\ pc(t) = "part_enqueue" /\ Goto(t, g)
      /\ queue' = [queue EXCEPT ![f.k - 1] = @ \o ws] \/ ("part" \in setup.faults /\ UNCHANGED queue)
      /\ UNCHANGED <<setup, pool, tokens, shared, barrier, history>>
  BY <1>1, <1>2 DEF PartEnqueue
<1>4. pc(t) \in SpreadPcs /\ pc(t) \in PartPcs /\ {"own_work", "part", "part_notify"} \subseteq SpreadPcs
  BY <1>3 DEF SpreadPcs, PartPcs
<1>5. /\ pc(t) # "idle" /\ pc(t) \notin RunPcs /\ f \in Frame /\ f.pc = "part_enqueue" /\ f.id \in Spreads
      /\ f.k \in Nat \ {0} /\ FrameOK(t, f) /\ f.pc \in SpreadPcs
  BY <1>1, <1>3, <1>4, Spreading
<1>6. PartsOK(f) /\ barrier[f.id] <= f.k * DivisionMax
  <2>1. Raised(f) = f.k * DivisionMax
    BY <1>5, RaisedAt
  <2> QED
    BY <1>3, <1>4, <1>5, <2>1 DEF FrameOK
<1>7. /\ g \in Frame /\ g.pc \in {"part", "own_work", "part_notify"} /\ g.id = s
      /\ Has(g) = 1..f.callerEnd \cup Rest(f.chunks, f.k + 1) /\ Owes(g) = {} /\ FrameOK(t, g)
  <2>1. CASE f.k = 1
    <3>1. g = [f EXCEPT !.pc = "part_notify"]
      BY <1>1, <2>1
    <3>2. g \in Frame /\ g.pc = "part_notify" /\ Same(g, f) /\ g.k = f.k /\ g.callerEnd = f.callerEnd
      BY <1>4, <1>5, <3>1, NextPc
    <3>3. Has(g) = 1..f.callerEnd \cup Rest(f.chunks, f.k + 1) /\ Owes(g) = {}
      BY <3>2, HasAt DEF Same
    <3>4. PartsOK(g)
      <4>1. PartsOK(f) /\ g.k = f.k /\ g.chunks = f.chunks /\ g.wait = f.wait /\ g.callerEnd = f.callerEnd
        BY <1>6, <3>2 DEF Same
      <4> QED
        BY ONLY <4>1 DEF PartsOK
    <3>5. barrier[g.id] <= Raised(g) /\ g.k >= 1
      <4>1. Raised(g) = g.k * DivisionMax
        BY <3>2, RaisedAt
      <4> QED
        BY <1>5, <1>6, <3>2, <4>1 DEF Same
    <3>6. FrameOK(t, g)
      <4>1. /\ g.pc \notin FirePcs /\ g.pc \notin AlonePcs /\ g.pc \notin BulkPcs
            /\ g.pc \notin {"look", "alone", "bulk_wake", "own_work"}
        BY <3>2 DEF FirePcs, AlonePcs, BulkPcs
      <4> QED
        BY <3>4, <3>5, <4>1 DEF FrameOK
    <3> QED
      BY <1>1, <3>2, <3>3, <3>6 DEF Same
  <2>2. CASE f.k # 1
    <3>1. g = NextPart(f)
      BY <1>1, <2>2
    <3> QED
      BY <1>1, <1>3, <3>1, NextPartIs
  <2> QED
    BY <2>1, <2>2
<1>8. /\ Has(f) = Has(g) \cup ItsOf(cs) /\ Has(g) \cap ItsOf(cs) = {} /\ Owes(f) = Ends(cs)
      /\ cs \in Seq(Ranges) /\ Apart(cs) /\ Len(cs) # 0 /\ f.k - 1 \in 0..(pool - 1)
  <2>1. Has(f) = 1..f.callerEnd \cup Rest(f.chunks, f.k) /\ Owes(f) = Ends(cs)
    BY <1>1, <1>5, HasAt
  <2>2. pool \in Nat
    BY Bounds
  <2>3. PICK H : H = Has(g)
    OBVIOUS
  <2>4. /\ 1..f.callerEnd \cup Rest(f.chunks, f.k) = H \cup ItsOf(cs) /\ H \cap ItsOf(cs) = {}
        /\ cs \in Seq(Ranges) /\ Apart(cs) /\ Len(cs) # 0 /\ f.k - 1 \in 0..(pool - 1)
    <3>1. H = 1..f.callerEnd \cup Rest(f.chunks, f.k + 1) /\ cs = f.chunks[f.k]
      BY <1>1, <1>7, <2>3
    <3> QED
      BY ONLY <1>6, <2>2, <3>1, PartApart
  <2> QED
    BY <2>1, <2>3, <2>4
<1>9. g.pc \in SpreadPcs /\ g.pc # "return"
  BY <1>4, <1>7
<1>10. OthersTyped'
  BY <1>3 DEF OthersTyped, ShopInv, Typed, shared
<1>11. UNCHANGED <<setup, pool, barrier, history>> /\ f.k - 1 \in Threads
  BY <1>3, <1>8, PoolThreads
<1>12. CASE queue' = [queue EXCEPT ![f.k - 1] = @ \o ws]
  <2>1. PICK p \in Threads : p = f.k - 1
    BY <1>11
  <2>2. HandsOut(f.id, cs, p)
    BY <1>1, <1>2, <1>12, <2>1 DEF HandsOut
  <2>3. /\ pc(t) \in SpreadPcs /\ f = Top(t) /\ g \in Frame /\ g.id = f.id /\ Goto(t, g) /\ FrameOK(t, g)
        /\ Has(f) = Has(g) \cup ItsOf(cs) /\ Has(g) \cap ItsOf(cs) = {} /\ Owes(f) = Ends(cs) /\ Owes(g) = {}
        /\ cs \in Seq(Ranges) /\ Apart(cs)
    BY <1>1, <1>3, <1>4, <1>7, <1>8
  <2>4. ShopInv' /\ InHand' = InHand
    BY ONLY ShopInv, t \in Threads, <1>9, <1>10, <1>11, <2>1, <2>2, <2>3, PutsChunks
  <2> QED
    BY <1>3, <2>4 DEF shared
<1>13. CASE "part" \in setup.faults /\ UNCHANGED queue
  <2>1. g.id = f.id /\ UNCHANGED <<setup, pool, queue, barrier, history>>
    BY <1>1, <1>7, <1>11, <1>13
  <2>2. /\ ShopInv'
        /\ InHand' = InHand \ (Iters(f.id, ItsOf(cs)) \cup Counts(f.id, Ends(cs)))
    <3>1. /\ pc(t) \in SpreadPcs /\ f = Top(t) /\ g \in Frame /\ Goto(t, g) /\ FrameOK(t, g)
          /\ Has(f) = Has(g) \cup ItsOf(cs) /\ Has(g) \cap ItsOf(cs) = {} /\ Owes(f) = Ends(cs) /\ Owes(g) = {}
          /\ cs \in Seq(Ranges) /\ Apart(cs) /\ Len(cs) # 0 /\ "part" \in setup.faults
      BY <1>1, <1>3, <1>4, <1>7, <1>8, <1>13
    <3> QED
      BY ONLY ShopInv, t \in Threads, <1>9, <1>10, <2>1, <3>1, LosesChunks
  <2> QED
    BY <1>3, <1>13, <2>2 DEF shared
<1> QED
  BY <1>3, <1>12, <1>13

LEMMA BulkEnqueueKeeps ==
  ASSUME ShopInv, NEW t \in Threads, BulkEnqueue(t)
  PROVE  ShopInv' /\ InHand' = InHand /\ workItems' = workItems /\ inFlight' = inFlight
<1>1. PICK f, s, cs : f = Top(t) /\ s = f.id /\ cs = f.chunks
  OBVIOUS
<1>2. PICK ws : ws = [j \in 1..Len(cs) |-> ChunkWork(s, cs[j])]
  OBVIOUS
<1>3. PICK l \in {"bulk_wake", "bulk_undo"} :
        /\ pc(t) = "bulk_enqueue" /\ Goto(t, [f EXCEPT !.pc = l])
        /\ UNCHANGED <<setup, pool, tokens, shared, barrier, history>>
        /\ l = "bulk_wake" => queue' = [queue EXCEPT ![t] = @ \o ws]
        /\ l = "bulk_undo" => UNCHANGED queue
  <2>1. /\ pc(t) = "bulk_enqueue" /\ UNCHANGED <<setup, pool, tokens, shared, barrier, history>>
        /\ \/ queue' = [queue EXCEPT ![t] = @ \o ws] /\ Goto(t, [f EXCEPT !.pc = "bulk_wake"])
           \/ UNCHANGED queue /\ Goto(t, [f EXCEPT !.pc = "bulk_undo"])
    BY <1>1, <1>2 DEF BulkEnqueue, GotoPc
  <2> QED
    BY <2>1
<1>4. PICK g : g = [f EXCEPT !.pc = l]
  OBVIOUS
<1>5. pc(t) \in SpreadPcs /\ l \in SpreadPcs /\ l # "return"
  BY <1>3 DEF SpreadPcs, BulkPcs
<1>6. /\ pc(t) # "idle" /\ pc(t) \notin RunPcs /\ f \in Frame /\ f.pc = "bulk_enqueue" /\ f.id \in Spreads
      /\ f.k \in Nat \ {0} /\ FrameOK(t, f) /\ f.pc \in SpreadPcs /\ Claims(f) = SpreadShares(f)
  BY <1>1, <1>3, <1>5, Spreading
<1>7. g \in Frame /\ g.pc = l /\ Same(g, f) /\ g.k = f.k /\ g.callerEnd = f.callerEnd
  BY <1>4, <1>5, <1>6, NextPc
<1>8. g.id = f.id /\ Goto(t, g) /\ Alike(pc(t), g.pc) /\ g.pc \in SpreadPcs /\ g.pc # "return"
  BY <1>3, <1>4, <1>5, <1>7, SpreadsAlike DEF Same
<1>9. BulkOK(f) /\ barrier[f.id] = Cardinality(Counts(f.id, Owes(f))) /\ barrier[f.id] <= Raised(f)
  BY <1>6 DEF FrameOK, AlonePcs, BulkPcs
<1>10. Has(f) = 1..f.callerEnd \cup ItsOf(cs) /\ Owes(f) = Ends(cs)
  BY <1>1, <1>6, HasAt
<1>11. /\ cs \in Seq(Ranges) /\ Apart(cs) /\ Len(cs) \in 1..pool /\ ItsOf(cs) \cap 1..f.callerEnd = {}
       /\ (f.callerEnd = 0 => f.wait)
  BY <1>1, <1>9 DEF BulkOK
<1>12. OthersTyped' /\ UNCHANGED <<setup, pool, barrier, history>> /\ workItems' = workItems /\ inFlight' = inFlight
  BY <1>3 DEF OthersTyped, ShopInv, Typed, shared
<1>13. CASE l = "bulk_wake"
  <2>1. Has(g) = 1..f.callerEnd /\ Owes(g) = {}
    BY <1>7, <1>13, HasAt
  <2>2. Has(f) = Has(g) \cup ItsOf(cs) /\ Has(g) \cap ItsOf(cs) = {}
    BY <1>10, <1>11, <2>1
  <2>3. barrier[g.id] <= Raised(g)
    <3>1. Raised(g) = Most * DivisionMax
      BY <1>7, <1>13, RaisedAt
    <3>2. barrier[f.id] = Len(cs)
      BY <1>9, <1>10, <1>11, CountsMany
    <3>3. Len(cs) <= Most * DivisionMax
      BY <1>11, Bounds
    <3> QED
      BY <1>8, <3>1, <3>2, <3>3
  <2>4. FrameOK(t, g)
    <3>1. /\ g.pc \notin FirePcs /\ g.pc \notin AlonePcs /\ g.pc \notin PartPcs /\ g.pc \notin BulkPcs
          /\ g.pc \notin {"look", "alone"}
      BY <1>7, <1>13 DEF FirePcs, AlonePcs, PartPcs, BulkPcs
    <3>2. g.k >= 1 /\ g.k <= pool
      <4>1. g.k = 1
        BY <1>7, <1>9 DEF BulkOK
      <4> QED
        BY <1>11, <4>1, Bounds
    <3> QED
      BY <1>7, <1>11, <2>3, <3>1, <3>2 DEF FrameOK, Same
  <2>5. HandsOut(f.id, cs, t)
    BY <1>1, <1>2, <1>3, <1>13 DEF HandsOut
  <2>6. /\ pc(t) \in SpreadPcs /\ f = Top(t) /\ Owes(f) = Ends(cs) /\ cs \in Seq(Ranges) /\ Apart(cs)
    BY <1>1, <1>5, <1>10, <1>11
  <2>7. ShopInv' /\ InHand' = InHand
    BY ONLY ShopInv, t \in Threads, <1>7, <1>8, <1>12, <2>1, <2>2, <2>4, <2>5, <2>6, PutsChunks
  <2> QED
    BY <1>12, <2>7
<1>14. CASE l = "bulk_undo"
  <2>1. Has(g) = Has(f) /\ Owes(g) = Owes(f)
    BY <1>6, <1>7, <1>14, HasAt DEF Same
  <2>2. Claims(g) = Claims(Top(t))
    <3>1. Claims(g) = SpreadShares(g)
      BY <1>8, ClaimsAt
    <3> QED
      BY <1>1, <1>6, <1>8, <2>1, <3>1 DEF SpreadShares
  <2>3. FrameOK(t, g)
    <3>1. BulkOK(g)
      <4>1. BulkOK(f) /\ g.k = f.k /\ g.id = f.id /\ g.chunks = f.chunks /\ g.wait = f.wait /\ g.callerEnd = f.callerEnd
        BY <1>7, <1>9 DEF Same
      <4> QED
        BY ONLY <4>1 DEF BulkOK
    <3>2. Raised(g) = Raised(f)
      BY <1>6, <1>7, <1>14, RaisedAt
    <3>3. /\ g.pc \notin FirePcs /\ g.pc \notin PartPcs /\ g.pc \notin {"look", "alone", "bulk_wake", "own_work"}
      BY <1>7, <1>14 DEF FirePcs, PartPcs
    <3>4. g.k >= 1 /\ barrier[g.id] <= Raised(g) /\ barrier[g.id] = Cardinality(Counts(g.id, Owes(g)))
      BY <1>6, <1>7, <1>8, <1>9, <2>1, <3>2
    <3> QED
      BY <3>1, <3>3, <3>4 DEF FrameOK
  <2>4. queue' = queue
    BY <1>3, <1>14
  <2>5. ShopInv' /\ InHand' = InHand
    BY <1>6, <1>3, <1>7, <1>8, <1>12, <2>2, <2>3, <2>4, GoesOn
  <2> QED
    BY <1>12, <2>5
<1> QED
  BY <1>3, <1>13, <1>14

--------------------------------------------------------------------------------
(* The caller goes on alone, or is done *)

LEMMA NextEnd ==
  ASSUME NEW f \in Frame, f.pc \in SpreadPcs, NEW l \in SpreadPcs, NEW e \in Nat,
         NEW g, g = SpreadRec(l, f.id, f.chunks, f.k, e, f.wait, f.seen)
  PROVE  g \in Frame /\ g.pc = l /\ Same(g, f) /\ g.k = f.k /\ g.callerEnd = e
<1>1. /\ f.id \in Spreads /\ f.chunks \in Cuts /\ f.k \in Nat
      /\ f.wait \in BOOLEAN /\ f.seen \in SUBSET Threads
  BY SpreadShape
<1>2. g.pc = l /\ Same(g, f) /\ g.k = f.k /\ g.callerEnd = e
  BY ONLY g = SpreadRec(l, f.id, f.chunks, f.k, e, f.wait, f.seen) DEF SpreadRec, Same
<1>3. g \in Frame
  BY ONLY <1>1, g = SpreadRec(l, f.id, f.chunks, f.k, e, f.wait, f.seen),
          l \in SpreadPcs, e \in Nat DEF SpreadRec, Frame
<1> QED
  BY <1>2, <1>3

\* Nobody is expected any more.
LEMMA NobodyExpected ==
  ASSUME ShopInv, NEW s \in Spreads, calls[s] = "active", NEW gone, gone = CountsOf(s),
         barrier[s] = Cardinality(gone), barrier'[s] = 0, InHand' = InHand \ gone, UNCHANGED <<setup, history>>
  PROVE  BarrierOK(s)'
<1>1. CountsOf(s)' = {}
  BY DEF CountsOf
<1>2. barrier'[s] = Cardinality(CountsOf(s)')
  BY <1>1, FS_EmptySet
<1>3. ASSUME NEW i \in DOMAIN hits'[s]
      PROVE  hits'[s][i] = 1 \/ Share("iter", s, i) \in InHand'
  <2>1. BarrierOK(s) /\ hits' = hits
    BY DEF ShopInv, history
  <2>2. hits[s][i] = 1 \/ Share("iter", s, i) \in InHand
    BY <1>3, <2>1 DEF BarrierOK
  <2>3. Share("iter", s, i) \notin gone
    BY ShareFields DEF CountsOf
  <2> QED
    BY <2>1, <2>2, <2>3
<1>4. calls'[s] = "active"
  BY DEF history
<1>5. Cardinality(CountsOf(s)') <= barrier'[s]
  BY <1>1, FS_EmptySet
<1> QED
  BY <1>2, <1>3, <1>4, <1>5 DEF BarrierOK

LEMMA BulkUndoKeeps ==
  ASSUME ShopInv, NEW t \in Threads, BulkUndo(t), NEW f, f = Top(t), NEW cs, cs = f.chunks
  PROVE  /\ ShopInv' /\ InHand' = InHand \ Counts(f.id, Ends(cs)) /\ Counts(f.id, Ends(cs)) \subseteq InHand
         /\ workItems' = workItems /\ inFlight' = inFlight
<1>1. PICK s, e : s = f.id /\ e = Len(hits[s])
  OBVIOUS
<1>2. PICK g : g = [f EXCEPT !.pc = "own_work", !.callerEnd = e]
  OBVIOUS
<1>3. /\ pc(t) = "bulk_undo" /\ barrier' = [barrier EXCEPT ![s] = 0] /\ Goto(t, g)
      /\ UNCHANGED <<setup, pool, queue, tokens, shared, history>>
  BY <1>1, <1>2 DEF BulkUndo
<1>4. pc(t) \in SpreadPcs /\ "own_work" \in SpreadPcs
  BY <1>3 DEF SpreadPcs, BulkPcs
<1>5. /\ pc(t) # "idle" /\ pc(t) \notin RunPcs /\ f \in Frame /\ f.pc = "bulk_undo" /\ s \in Spreads
      /\ FrameOK(t, f) /\ f.pc \in SpreadPcs /\ Claims(f) = SpreadShares(f)
      /\ Claims(f) \cap Waiting = {} /\ Claims(f) \subseteq InHand /\ calls[s] = "active" /\ barrier[s] \in Nat
      /\ hits[s] \in Seq({0, 1})
  BY <1>1, <1>3, <1>4, Spreading
<1>6. e \in Nat
  BY <1>1, <1>5
<1>7. g \in Frame /\ g.pc = "own_work" /\ Same(g, f) /\ g.k = f.k /\ g.callerEnd = e
  <2>1. \A l, x : [f EXCEPT !.pc = l, !.callerEnd = x]
                    = SpreadRec(l, f.id, f.chunks, f.k, x, f.wait, f.seen)
    BY <1>5, SpreadShape
  <2>2. g = SpreadRec("own_work", f.id, f.chunks, f.k, e, f.wait, f.seen)
    BY ONLY <2>1, <1>2, Zenon
  <2>3. f \in Frame /\ f.pc \in SpreadPcs /\ "own_work" \in SpreadPcs /\ e \in Nat
    BY <1>4, <1>5, <1>6
  <2> QED
    BY ONLY <2>2, <2>3, NextEnd
<1>8. g.id = s /\ g.wait = f.wait
  BY <1>1, <1>7 DEF Same
<1>9. BulkOK(f) /\ barrier[s] = Cardinality(Counts(s, Owes(f)))
  BY <1>1, <1>5 DEF FrameOK, AlonePcs, BulkPcs
<1>10. /\ f.k = 1 /\ cs \in Seq(Ranges) /\ f.callerEnd \in Nat
       /\ 1..f.callerEnd \cup ItsOf(cs) = 1..e /\ (f.callerEnd = 0 => f.wait)
  BY <1>1, <1>3, <1>4, <1>9, Spreading DEF BulkOK
<1>11. Has(f) = 1..e /\ Owes(f) = Ends(cs) /\ Has(g) = 1..e /\ Owes(g) = {}
  BY <1>5, <1>7, <1>10, HasAt
<1>12. PICK gone : gone = Counts(s, Ends(cs))
  OBVIOUS
<1>13. /\ Claims(f) = {Share("call", s, 0)} \cup Iters(s, 1..e) \cup gone
       /\ Claims(g) = {Share("call", s, 0)} \cup Iters(s, 1..e)
  <2>1. Claims(g) = SpreadShares(g) /\ Counts(s, {}) = {}
    BY <1>4, <1>7, ClaimsAt DEF Counts
  <2> QED
    BY <1>1, <1>5, <1>8, <1>11, <1>12, <2>1 DEF SpreadShares
<1>14. Claims(f) = Claims(g) \cup gone /\ Claims(g) \cap gone = {} /\ \A x \in gone : x.kind = "count" /\ x.id = s
  <2>1. \A x \in gone : x.kind = "count" /\ x.id = s
    BY <1>12, CountIs
  <2>2. \A x \in Iters(s, 1..e) : x.kind = "iter"
    BY IterIs
  <2>3. Share("call", s, 0).kind = "call"
    BY ShareFields
  <2> QED
    BY ONLY <1>13, <2>1, <2>2, <2>3
<1>15. Waiting' = Waiting /\ Disjoint(Threads, Queues, {})'
  BY <1>3, WaitingStill
<1>16. Trade(Claims(Top(t)), Claims(g), {}, {}, gone)
  <2>1. Trade(Claims(f), Claims(g), {}, {}, gone)
    BY <1>5, <1>14, <1>15 DEF Trade, Trades
  <2> QED
    BY <2>1
<1>17. /\ barrier' \in [Spreads -> Nat] /\ barrier'[s] = 0
       /\ \A u \in Spreads : u # s => barrier'[u] = barrier[u]
  <2>1. barrier \in [Spreads -> Nat]
    BY DEF ShopInv, Typed
  <2> QED
    BY <1>3, <1>5, <2>1
<1>18. UNCHANGED <<setup, pool, history>> /\ Steady /\ MyBarrier(t)
  <2>1. UNCHANGED <<setup, pool, history>>
    BY <1>3
  <2> QED
    BY <1>1, <1>4, <1>17, <2>1, SteadyStill DEF MyBarrier
<1>19. FrameOK(t, g)'
  <2>1. Raised(g)' = Most * DivisionMax /\ Most * DivisionMax \in Nat
    BY <1>7, RaisedIs, Bounds
  <2>2. g.k >= 1 /\ barrier'[g.id] <= Raised(g)'
    BY <1>7, <1>8, <1>10, <1>17, <2>1
  <2>3. g.callerEnd = 0 => g.wait
    BY <1>6, <1>7, <1>8, <1>10
  <2>4. /\ g.pc \notin FirePcs /\ g.pc \notin PartPcs /\ g.pc \notin AlonePcs /\ g.pc \notin BulkPcs
        /\ g.pc \notin {"look", "alone", "bulk_wake"}
    BY <1>7 DEF FirePcs, PartPcs, AlonePcs, BulkPcs
  <2> QED
    BY <2>2, <2>3, <2>4 DEF FrameOK
<1>20. Kept({}, gone)
  <2>1. Alike(pc(t), g.pc) /\ g.pc # "return"
    BY <1>4, <1>7, SpreadsAlike
  <2> QED
    BY <1>3, <1>5, <1>7, <1>16, <1>18, <1>19, <2>1, StepGoto
<1>21. InHand' = InHand \ gone
  BY <1>20 DEF Kept
<1>22. gone = CountsOf(s) /\ barrier[s] = Cardinality(gone)
  <2>1. barrier[s] = Cardinality(gone)
    BY <1>9, <1>11, <1>12
  <2>2. PICK X : X = CountsOf(s)
    OBVIOUS
  <2>3. IsFiniteSet(X) /\ Cardinality(X) <= barrier[s] /\ Cardinality(X) \in Nat
    BY <1>5, <2>2, CountsFew DEF CountsOf
  <2>4. gone \subseteq X
    BY <1>5, <1>14, <2>2 DEF CountsOf
  <2>5. Cardinality(gone) <= Cardinality(X) /\ (Cardinality(X) = Cardinality(gone) => X = gone)
    BY ONLY <2>3, <2>4, FS_Subset
  <2> QED
    BY <1>5, <2>1, <2>2, <2>3, <2>5
<1>23. BarrierOK(s)'
  BY <1>5, <1>17, <1>18, <1>21, <1>22, NobodyExpected
<1>24. OthersTyped' /\ workItems' = workItems /\ inFlight' = inFlight
  BY <1>3 DEF OthersTyped, ShopInv, Typed, shared
<1>25. OfSpread(s, {}) /\ OfSpread(s, gone) /\ IsFiniteSet({}) /\ \A x \in {} : x.kind = "count"
  BY <1>14, FS_EmptySet DEF OfSpread, SpreadKinds
<1>26. queue' \in [Threads -> Seq(Works)]
  BY <1>3 DEF ShopInv, Typed
<1>27. ShopInv'
  BY ONLY ShopInv, <1>5, <1>15, <1>17, <1>18, <1>20, <1>23, <1>24, <1>25, <1>26, SpreadTurns
<1>28. gone \subseteq InHand
  BY <1>5, <1>14
<1> QED
  BY <1>1, <1>12, <1>21, <1>24, <1>27, <1>28

LEMMA CallerWaitsKeeps ==
  ASSUME ShopInv, NEW t \in Threads, CallerWaits(t)
  PROVE  ShopInv' /\ InHand' = InHand /\ workItems' = workItems /\ inFlight' = inFlight
<1>1. PICK f, g : f = Top(t) /\ g = [f EXCEPT !.pc = "join"]
  OBVIOUS
<1>2. /\ pc(t) = "own_work" /\ f.callerEnd = 0 /\ Goto(t, g)
      /\ UNCHANGED <<setup, pool, queue, tokens, shared, barrier, history>>
  BY <1>1 DEF CallerWaits, GotoPc
<1>3. pc(t) \in SpreadPcs /\ "join" \in SpreadPcs
  BY <1>2 DEF SpreadPcs
<1>4. /\ pc(t) # "idle" /\ pc(t) \notin RunPcs /\ f \in Frame /\ f.pc = "own_work" /\ f.k \in Nat \ {0}
      /\ FrameOK(t, f) /\ f.pc \in SpreadPcs /\ Claims(f) = SpreadShares(f) /\ f.id \in Spreads
      /\ barrier[f.id] \in Nat
  BY <1>1, <1>2, <1>3, Spreading
<1>5. g \in Frame /\ g.pc = "join" /\ Same(g, f) /\ g.k = f.k /\ g.callerEnd = f.callerEnd
  BY <1>1, <1>3, <1>4, NextPc
<1>6. g.id = f.id
  BY <1>5 DEF Same
<1>7. Has(g) = {} /\ Owes(g) = {} /\ Has(f) = {} /\ Owes(f) = {}
  BY <1>2, <1>4, <1>5, HasAt
<1>8. Claims(g) = Claims(Top(t)) /\ Alike(pc(t), g.pc) /\ g.pc # "return"
  <2>1. Claims(g) = SpreadShares(g)
    BY <1>3, <1>5, ClaimsAt
  <2>2. SpreadShares(g) = SpreadShares(f)
    BY <1>6, <1>7 DEF SpreadShares
  <2> QED
    BY <1>1, <1>3, <1>4, <1>5, <2>1, <2>2, SpreadsAlike
<1>9. FrameOK(t, g)
  <2>1. Raised(g) = Most * DivisionMax + 1 /\ Raised(f) = Most * DivisionMax /\ Most * DivisionMax \in Nat
    BY <1>4, <1>5, RaisedAt, Bounds
  <2>2. g.k >= 1 /\ barrier[g.id] <= Raised(g)
    <3>1. barrier[f.id] <= Raised(f)
      BY <1>4 DEF FrameOK
    <3> QED
      BY <1>4, <1>5, <1>6, <2>1, <3>1
  <2>3. /\ g.pc \notin FirePcs /\ g.pc \notin PartPcs /\ g.pc \notin AlonePcs /\ g.pc \notin BulkPcs
        /\ g.pc \notin {"look", "alone", "bulk_wake", "own_work"}
    BY <1>5 DEF FirePcs, PartPcs, AlonePcs, BulkPcs
  <2> QED
    BY <2>2, <2>3 DEF FrameOK
<1>10. OthersTyped' /\ workItems' = workItems /\ inFlight' = inFlight
  BY <1>2 DEF OthersTyped, ShopInv, Typed, shared
<1> QED
  BY <1>2, <1>4, <1>5, <1>8, <1>9, <1>10, GoesOn

\* No barrier is raised to a multiple of what everyone_arrived() looks at it through.
WideEnough == Most * DivisionMax + 1 < HCRange

LEMMA AllArrived ==
  ASSUME WideEnough, ShopInv, NEW t \in Threads, pc(t) = "join", NEW f, f = Top(t), EveryoneArrived(f)
  PROVE  barrier[f.id] = 0
<1>1. pc(t) \in SpreadPcs
  BY DEF SpreadPcs
<1>2. f.pc = "join" /\ FrameOK(t, f) /\ f.pc \in SpreadPcs /\ barrier[f.id] \in Nat
  BY <1>1, Spreading
<1>3. barrier[f.id] <= Most * DivisionMax + 1 /\ Most * DivisionMax \in Nat
  <2>1. Raised(f) = Most * DivisionMax + 1
    BY <1>2, RaisedAt
  <2> QED
    BY <1>2, <2>1, Bounds DEF FrameOK
<1>4. \A b \in Nat, d, m \in Nat : b <= m + 1 /\ m + 1 < d /\ (b % d) = 0 => b = 0
  OBVIOUS
<1>5. HCRange \in Nat
  BY ShopAssumption
<1> QED
  BY <1>2, <1>3, <1>4, <1>5 DEF WideEnough, EveryoneArrived

LEMMA JoinKeeps ==
  ASSUME WideEnough, ShopInv, NEW t \in Threads, Join(t)
  PROVE  ShopInv' /\ InHand' = InHand /\ workItems' = workItems /\ inFlight' = inFlight
<1>1. PICK f, g : f = Top(t) /\ g = [f EXCEPT !.pc = "return"]
  OBVIOUS
<1>2. /\ pc(t) = "join" /\ EveryoneArrived(f) /\ Goto(t, g)
      /\ division' \in {division, Smaller(division + 1, DivisionMax)}
      /\ UNCHANGED <<setup, pool, queue, tokens, workItems, inFlight, rotor, brexit, barrier, history>>
  BY <1>1 DEF Join, GotoPc
<1>3. pc(t) \in SpreadPcs /\ "return" \in SpreadPcs
  BY <1>2 DEF SpreadPcs
<1>4. /\ pc(t) # "idle" /\ pc(t) \notin RunPcs /\ f \in Frame /\ f.pc = "join" /\ f.k \in Nat \ {0}
      /\ FrameOK(t, f) /\ f.pc \in SpreadPcs /\ Claims(f) = SpreadShares(f) /\ f.id \in Spreads
      /\ barrier[f.id] \in Nat
  BY <1>1, <1>2, <1>3, Spreading
<1>5. g \in Frame /\ g.pc = "return" /\ Same(g, f) /\ g.k = f.k /\ g.callerEnd = f.callerEnd
  BY <1>1, <1>3, <1>4, NextPc
<1>6. g.id = f.id /\ barrier[g.id] = 0
  BY <1>1, <1>2, <1>5, AllArrived DEF Same
<1>7. Has(g) = {} /\ Owes(g) = {} /\ Has(f) = {} /\ Owes(f) = {}
  BY <1>4, <1>5, HasAt
<1>8. Claims(g) = Claims(Top(t)) /\ Alike(pc(t), g.pc)
  <2>1. Claims(g) = SpreadShares(g)
    BY <1>3, <1>5, ClaimsAt
  <2>2. SpreadShares(g) = SpreadShares(f)
    BY <1>6, <1>7 DEF SpreadShares
  <2> QED
    BY <1>1, <1>3, <1>4, <1>5, <2>1, <2>2, SpreadsAlike
<1>9. FrameOK(t, g)
  <2>1. Raised(g) = Most * DivisionMax + 1 /\ Most * DivisionMax \in Nat
    BY <1>5, RaisedAt, Bounds
  <2>2. g.k >= 1 /\ barrier[g.id] <= Raised(g)
    BY <1>4, <1>5, <1>6, <2>1
  <2>3. /\ g.pc \notin FirePcs /\ g.pc \notin PartPcs /\ g.pc \notin AlonePcs /\ g.pc \notin BulkPcs
        /\ g.pc \notin {"look", "alone", "bulk_wake", "own_work"}
    BY <1>5 DEF FirePcs, PartPcs, AlonePcs, BulkPcs
  <2> QED
    BY <2>2, <2>3 DEF FrameOK
<1>10. OthersTyped'
  <2>1. division' \in DivisionMin..DivisionMax
    <3>1. division \in DivisionMin..DivisionMax /\ DivisionMin \in Nat /\ DivisionMax \in Nat
      BY ShopAssumption DEF ShopInv, Typed
    <3> QED
      BY <1>2, <3>1 DEF Smaller
  <2> QED
    BY <1>2, <2>1 DEF OthersTyped, ShopInv, Typed
<1>11. UNCHANGED <<setup, pool, queue, barrier, history>>
  BY <1>2
<1>12. ShopInv' /\ InHand' = InHand
  BY ONLY ShopInv, t \in Threads, <1>2, <1>4, <1>5, <1>6, <1>8, <1>9, <1>10, <1>11, GoesOn
<1> QED
  BY <1>2, <1>12

\* A spread that can return has run everything.
LEMMA SpreadRan ==
  ASSUME ShopInv, NEW t \in Threads, pc(t) = "return", NEW f, f = Top(t), NEW s, s = f.id
  PROVE  (\A i \in DOMAIN hits[s] : hits[s][i] = 1) /\ CountsOf(s) = {} /\ barrier[s] = 0
<1>1. pc(t) \in SpreadPcs /\ "return" \in SpreadPcs
  BY DEF SpreadPcs
<1>2. f.pc = "return" /\ s \in Spreads /\ BarrierOK(s) /\ barrier[s] \in Nat /\ pc(t) # "idle"
  BY <1>1, Spreading
<1>3. PICK n : n = Len(stack[t])
  OBVIOUS
<1>4. n \in Nat \ {0} /\ On(t, n, f) /\ f = stack[t][n]
  BY <1>2, <1>3, Below1
<1>5. barrier[s] = 0
  <2>1. ReturnOK(t)
    BY DEF ShopInv
  <2>2. n \in 1..Len(stack[t]) /\ stack[t][n].pc = "return" /\ stack[t][n].id = s /\ ~(n < Len(stack[t]))
    BY <1>2, <1>3, <1>4
  <2> QED
    BY <2>1, <2>2 DEF ReturnOK
<1>6. CountsOf(s) = {} /\ barrier[s] = Cardinality(CountsOf(s))
  <2>1. PICK X : X = CountsOf(s)
    OBVIOUS
  <2>2. IsFiniteSet(X) /\ Cardinality(X) <= barrier[s] /\ Cardinality(X) \in Nat
    BY <1>2, <2>1, CountsFew DEF CountsOf
  <2>3. Cardinality(X) = 0
    BY <1>5, <2>2
  <2> QED
    BY <1>5, <2>1, <2>2, <2>3, FS_EmptySet
<1>7. ASSUME NEW i \in DOMAIN hits[s] PROVE Share("iter", s, i) \notin InHand
  <2>1. SUFFICES ASSUME Share("iter", s, i) \in InHand PROVE FALSE
    OBVIOUS
  <2>2. \A e : Share("count", s, e) \notin InHand
    BY <1>6, ShareFields DEF CountsOf
  <2>3. PICK u, j, g : On(u, j, g) /\ g.pc \in SpreadPcs /\ g.id = s /\ i \in Has(g)
    BY <2>1, <2>2, IterHolds
  <2>4. u = t /\ j = n
    BY <1>1, <1>3, <2>3, SoleCaller
  <2>5. g = f
    BY <1>4, <2>3, <2>4 DEF On
  <2>6. Has(f) = {}
    BY <1>2, HasAt
  <2> QED
    BY <2>3, <2>5, <2>6
<1> QED
  BY <1>2, <1>5, <1>6, <1>7 DEF BarrierOK

LEMMA SpreadReturnKeeps ==
  ASSUME ShopInv, NEW t \in Threads, SpreadReturn(t), NEW f, f = Top(t)
  PROVE  /\ ShopInv' /\ InHand' = InHand \ {Share("call", f.id, 0)}
         /\ workItems' = workItems /\ inFlight' = inFlight
<1>1. PICK s, gone : s = f.id /\ gone = {Share("call", s, 0)}
  OBVIOUS
<1>2. /\ pc(t) = "return" /\ calls' = [calls EXCEPT ![s] = "returned"] /\ Leave(t)
      /\ UNCHANGED <<setup, pool, queue, tokens, shared, barrier, firer, accepted, ran, hits>>
  BY <1>1 DEF SpreadReturn
<1>3. pc(t) \in SpreadPcs
  BY <1>2 DEF SpreadPcs
<1>4. /\ pc(t) # "idle" /\ pc(t) \notin RunPcs /\ f \in Frame /\ f.pc = "return" /\ s \in Spreads
      /\ Claims(f) = SpreadShares(f) /\ Claims(f) \cap Waiting = {} /\ Claims(f) \subseteq InHand
      /\ calls[s] = "active" /\ BarrierOK(s) /\ SharesOK(s)
  BY <1>1, <1>2, <1>3, Spreading
<1>5. Claims(f) = gone
  <2>1. Has(f) = {} /\ Owes(f) = {} /\ Counts(s, {}) = {} /\ Iters(s, {}) = {}
    BY <1>4, HasAt DEF Counts, Iters
  <2> QED
    BY <1>1, <1>4, <2>1 DEF SpreadShares
<1>6. (\A i \in DOMAIN hits[s] : hits[s][i] = 1) /\ CountsOf(s) = {} /\ barrier[s] = 0
  BY <1>1, <1>2, SpreadRan
<1>7. Waiting' = Waiting /\ Disjoint(Threads, Queues, {})'
  BY <1>2, WaitingStill
<1>8. Trade(Claims(Top(t)), {}, {}, {}, gone)
  <2>1. Trade(Claims(f), {}, {}, {}, gone)
    BY <1>4, <1>5, <1>7 DEF Trade, Trades
  <2> QED
    BY <2>1
<1>9. Steady /\ MyBarrier(t) /\ barrier' = barrier
  <2>1. barrier \in [Spreads -> Nat]
    BY DEF ShopInv, Typed
  <2> QED
    BY <1>2, <2>1 DEF Steady, MyBarrier
<1>10. Kept({}, gone)
  BY <1>2, <1>4, <1>8, <1>9, StepLeave
<1>11. InHand' = InHand \ gone
  BY <1>10 DEF Kept
<1>12. hits' = hits /\ calls'[s] = "returned" /\ \A u \in Spreads : u # s => calls'[u] = calls[u]
  <2>1. calls \in [Spreads -> {"new", "active", "returned"}]
    BY DEF ShopInv, Typed
  <2> QED
    BY <1>2, <1>4, <2>1
<1>13. SharesOK(s)'
  <2>1. Share("call", s, 0) \notin InHand' /\ \A k, e : Share(k, s, e) \in InHand' => Share(k, s, e) \in InHand
    BY <1>1, <1>11
  <2>2. \A i : Share("iter", s, i) \notin InHand
    <3>1. ASSUME NEW i, Share("iter", s, i) \in InHand PROVE FALSE
      <4>1. i \in DOMAIN hits[s] /\ hits[s][i] = 0
        BY <1>4, <3>1 DEF SharesOK
      <4> QED
        BY <1>6, <4>1
    <3> QED
      BY <3>1
  <2>3. \A e : Share("count", s, e) \notin InHand
    BY <1>6, ShareFields DEF CountsOf
  <2>4. \A e : Share("ran", s, e) \in InHand => e \in DOMAIN hits[s] /\ hits[s][e] = 1
    BY <1>4 DEF SharesOK
  <2> QED
    BY <1>12, <2>1, <2>2, <2>3, <2>4 DEF SharesOK
<1>14. BarrierOK(s)'
  <2>1. CountsOf(s)' = {}
    BY <1>6, <1>11 DEF CountsOf
  <2>2. Cardinality(CountsOf(s)') = 0 /\ barrier'[s] = 0
    BY <1>6, <1>9, <2>1, FS_EmptySet
  <2>3. \A i \in DOMAIN hits'[s] : hits'[s][i] = 1
    BY <1>6, <1>12
  <2> QED
    BY <1>12, <2>2, <2>3 DEF BarrierOK
<1>15. Typed'
  <2>1. calls' \in [Spreads -> {"new", "active", "returned"}]
    BY <1>2, <1>4 DEF ShopInv, Typed
  <2> QED
    BY <1>2, <1>10, <2>1 DEF ShopInv, Typed, Kept, shared
<1>16. /\ \A u \in Spreads \ {s} : Untouched(u)
       /\ SpreadOK(s)' /\ UNCHANGED <<setup, firer, accepted, ran>>
  BY <1>2, <1>9, <1>12, <1>13, <1>14 DEF Untouched, SpreadOK
<1>17. OfSpread(s, {}) /\ OfSpread(s, gone) /\ IsFiniteSet({})
  BY <1>1, ShareFields, FS_EmptySet DEF OfSpread, SpreadKinds
<1>18. ShopInv'
  BY <1>4, <1>7, <1>10, <1>15, <1>16, <1>17, SpreadMoves
<1> QED
  BY <1>1, <1>2, <1>11, <1>18 DEF shared

LEMMA OwnChunk ==
  ASSUME NEW s \in Spreads, NEW e \in Nat \ {0}, NEW w, w = ChunkWork(s, Chunk(0, e)), NEW g, g = RunFrame(w)
  PROVE  /\ g \in Frame /\ g.pc = "body" /\ g.work = w /\ w \in Works /\ ChunkOf(w, s)
         /\ Claims(g) = Iters(s, 1..e) \cup Counts(s, {e})
<1>1. PICK c : c = Chunk(0, e)
  OBVIOUS
<1>2. c \in Ranges /\ Its(c) = 1..e /\ c.to = e
  BY <1>1 DEF Chunk, Ranges, Its
<1>3. w \in Works /\ w.kind = "chunk" /\ w.id = s /\ WorkShares(w) = Iters(s, 1..e) \cup Counts(s, {e})
  <2>1. \A u, d : LET v == ChunkWork(u, d)
                  IN  /\ v.kind = "chunk" /\ v.id = u
                      /\ WorkShares(v) = Iters(u, Its(d)) \cup Counts(u, {d.to})
    BY WorkShape
  <2>2. w = ChunkWork(s, c) /\ w \in Works
    BY <1>1, <1>2, WorkShape
  <2>3. w.kind = "chunk" /\ w.id = s /\ WorkShares(w) = Iters(s, Its(c)) \cup Counts(s, {c.to})
    BY ONLY <2>1, <2>2
  <2> QED
    BY <1>2, <2>2, <2>3
<1>4. g \in Frame /\ g.pc = "body" /\ g.work = w
  BY <1>3, RunIs
<1> QED
  BY <1>3, <1>4, ClaimsAt DEF ChunkOf

LEMMA CallerWorkKeeps ==
  ASSUME ShopInv, NEW t \in Threads, CallerWork(t), NEW f, f = Top(t), NEW x, x = Share("count", f.id, f.callerEnd)
  PROVE  /\ ShopInv' /\ InHand' = InHand \cup {x} /\ x \notin InHand
         /\ workItems' = (workItems + 1) % HCRange /\ inFlight' = inFlight
<1>1. PICK s, e, w : s = f.id /\ e = f.callerEnd /\ w = ChunkWork(s, Chunk(0, e))
  OBVIOUS
<1>2. PICK l \in {"return", "join", "caller_steal"} :
        l = IF f.pc = "alone" THEN "return" ELSE IF f.wait THEN "join" ELSE "caller_steal"
  OBVIOUS
<1>3. PICK h, g : h = [f EXCEPT !.pc = l] /\ g = RunFrame(w)
  OBVIOUS
<1>4. /\ pc(t) \in {"alone", "own_work"} /\ e > 0 /\ GotoEnter(t, h, g)
      /\ barrier' = [barrier EXCEPT ![s] = @ + 1] /\ workItems' = (workItems + 1) % HCRange
      /\ UNCHANGED <<setup, pool, queue, tokens, inFlight, rotor, brexit, division, history>>
  BY <1>1, <1>2, <1>3 DEF CallerWork, AddItems
<1>5. pc(t) \in SpreadPcs /\ l \in SpreadPcs
  BY <1>4 DEF SpreadPcs
<1>6. /\ pc(t) # "idle" /\ pc(t) \notin RunPcs /\ pc(t) \notin StopPcs /\ f \in Frame /\ f.pc = pc(t)
      /\ s \in Spreads /\ f.k \in Nat \ {0} /\ e \in Nat
      /\ FrameOK(t, f) /\ f.pc \in SpreadPcs /\ Claims(f) = SpreadShares(f)
      /\ Claims(f) \cap Waiting = {} /\ Claims(f) \subseteq InHand /\ calls[s] = "active" /\ barrier[s] \in Nat
  BY <1>1, <1>5, Spreading
<1>7. h \in Frame /\ h.pc = l /\ Same(h, f) /\ h.k = f.k /\ h.callerEnd = f.callerEnd
  BY <1>3, <1>5, <1>6, NextPc
<1>8. h.id = s
  BY <1>1, <1>7 DEF Same
<1>9. /\ g \in Frame /\ g.pc = "body" /\ g.work = w /\ ChunkOf(w, s)
      /\ Claims(g) = Iters(s, 1..e) \cup Counts(s, {e})
  <2>1. s \in Spreads /\ e \in Nat \ {0} /\ w = ChunkWork(s, Chunk(0, e)) /\ g = RunFrame(w)
    BY <1>1, <1>3, <1>4, <1>6
  <2> QED
    BY ONLY <2>1, OwnChunk
<1>10. Has(f) = 1..e /\ Owes(f) = {} /\ Has(h) = {} /\ Owes(h) = {}
  BY <1>1, <1>2, <1>4, <1>6, <1>7, HasAt
<1>11. Claims(f) = {Share("call", s, 0)} \cup Iters(s, 1..e) /\ Claims(h) = {Share("call", s, 0)}
  <2>1. Counts(s, {}) = {} /\ Iters(s, {}) = {}
    BY DEF Counts, Iters
  <2>2. Claims(h) = SpreadShares(h)
    BY <1>5, <1>7, ClaimsAt
  <2> QED
    BY <1>1, <1>6, <1>8, <1>10, <2>1, <2>2 DEF SpreadShares
<1>12. x = Share("count", s, e) /\ Counts(s, {e}) = {x}
  BY <1>1 DEF Counts
<1>13. x \notin InHand
  <2>1. e \in Has(f) /\ e \notin Owes(f)
    BY <1>4, <1>6, <1>10
  <2> QED
    BY <1>1, <1>5, <2>1, Fresh
<1>14. Claims(h) \cap Claims(g) = {} /\ Claims(h) \cup Claims(g) = Claims(f) \cup {x}
  <2>1. /\ \A y \in Iters(s, 1..e) : y.kind = "iter"
        /\ x.kind = "count" /\ Share("call", s, 0).kind = "call"
    BY <1>12, IterIs, ShareFields
  <2> QED
    BY ONLY <1>9, <1>11, <1>12, <2>1
<1>15. Waiting' = Waiting /\ Disjoint(Threads, Queues, {})' /\ Waiting \subseteq InHand
  BY <1>4, WaitingStill DEF InHand, Taken
<1>16. Trade(Claims(Top(t)), Claims(h), Claims(g), {x}, {})
  <2>1. Claims(h) \cap Waiting' = {} /\ Claims(g) \cap Waiting' = {}
    BY <1>6, <1>13, <1>14, <1>15
  <2>2. Trade(Claims(f), Claims(h), Claims(g), {x}, {})
    BY <1>13, <1>14, <1>15, <2>1 DEF Trade, Trades, InHand
  <2> QED
    BY <2>2
<1>17. /\ barrier' \in [Spreads -> Nat] /\ barrier'[s] = barrier[s] + 1
       /\ \A u \in Spreads : u # s => barrier'[u] = barrier[u]
  <2>1. barrier \in [Spreads -> Nat]
    BY DEF ShopInv, Typed
  <2> QED
    BY <1>4, <1>6, <2>1
<1>18. UNCHANGED <<setup, pool, history>> /\ Steady /\ MyBarrier(t)
  <2>1. UNCHANGED <<setup, pool, history>>
    BY <1>4
  <2> QED
    BY <1>1, <1>5, <1>17, <2>1, SteadyStill DEF MyBarrier
<1>19. FrameOK(t, h)' /\ (l = "return" => barrier'[s] = 1)
  <2>1. Raised(h)' = Most * DivisionMax + 1 /\ Most * DivisionMax \in Nat
    BY <1>2, <1>7, RaisedIs, Bounds
  <2>2. barrier[s] <= Most * DivisionMax /\ (l = "return" => barrier[s] = 0)
    <3>1. CASE pc(t) = "alone"
      <4>1. barrier[s] = Cardinality(Counts(s, {}))
        BY <1>1, <1>6, <1>10, <3>1 DEF FrameOK, AlonePcs
      <4>2. Counts(s, {}) = {}
        BY DEF Counts
      <4> QED
        BY <2>1, <4>1, <4>2, FS_EmptySet
    <3>2. CASE pc(t) = "own_work"
      <4>1. Raised(f) = Most * DivisionMax
        BY <1>6, <3>2, RaisedAt
      <4> QED
        BY <1>1, <1>2, <1>6, <3>2, <4>1 DEF FrameOK
    <3> QED
      BY <1>4, <3>1, <3>2
  <2>3. h.k >= 1 /\ barrier'[h.id] <= Raised(h)'
    BY <1>6, <1>7, <1>8, <1>17, <2>1, <2>2
  <2>4. /\ h.pc \notin FirePcs /\ h.pc \notin PartPcs /\ h.pc \notin AlonePcs /\ h.pc \notin BulkPcs
        /\ h.pc \notin {"look", "alone", "bulk_wake", "own_work"}
    BY <1>2, <1>7 DEF FirePcs, PartPcs, AlonePcs, BulkPcs
  <2> QED
    BY <1>17, <2>2, <2>3, <2>4 DEF FrameOK
<1>20. FrameOK(t, g)'
  BY <1>9, PlainFrame DEF RunPcs
<1>21. Kept({x}, {})
  <2>1. Alike(pc(t), h.pc)
    BY <1>5, <1>7, SpreadsAlike
  <2>2. h.pc = "return" => ChunkOf(g.work, h.id) /\ barrier'[h.id] = 1
    BY <1>7, <1>8, <1>9, <1>19
  <2> QED
    BY <1>4, <1>6, <1>7, <1>9, <1>16, <1>18, <1>19, <1>20, <2>1, <2>2, StepGotoEnter
<1>22. InHand' = InHand \cup {x}
  BY <1>21 DEF Kept
<1>23. IsFiniteSet({x}) /\ Cardinality({x}) = 1 /\ \A y \in {x} : y.kind = "count" /\ y.id = s
  <2>1. IsFiniteSet({x}) /\ Cardinality({x}) = 1
    BY FS_Singleton
  <2> QED
    BY <1>12, <2>1, ShareFields
<1>24. BarrierOK(s)'
  <2>1. {x} \cap InHand = {} /\ 1 \in Nat
    BY <1>13
  <2> QED
    BY <1>6, <1>17, <1>18, <1>22, <1>23, <2>1, Expects
<1>25. OthersTyped'
  <2>1. (workItems + 1) % HCRange \in 0..(HCRange - 1)
    BY Counters
  <2> QED
    BY <1>4, <2>1 DEF OthersTyped, ShopInv, Typed
<1>26. OfSpread(s, {x}) /\ OfSpread(s, {})
  BY <1>23 DEF OfSpread, SpreadKinds
<1>27. queue' \in [Threads -> Seq(Works)]
  BY <1>4 DEF ShopInv, Typed
<1>28. ShopInv'
  <2>1. \A y \in {x} : y.kind = "count"
    BY <1>23
  <2> QED
    BY ONLY ShopInv, <1>6, <1>15, <1>17, <1>18, <1>21, <1>23, <1>24, <1>25, <1>26, <1>27, <2>1, SpreadTurns
<1> QED
  BY <1>4, <1>13, <1>22, <1>28

--------------------------------------------------------------------------------
(* Every step keeps the invariant *)

LEMMA InitKeeps ==
  ASSUME Init
  PROVE  ShopInv /\ InHand = {}
<1>1. PICK own : own = WorkerFrame("own")
  OBVIOUS
<1>2. own \in Frame /\ own.pc = "own" /\ Claims(own) = {}
  <2>1. own = StealRec("own", {}) /\ "own" \in WorkerPcs /\ {} \in SUBSET Threads
    BY <1>1 DEF WorkerFrame, StealRec, WorkerPcs
  <2>2. own \in Frame /\ own.pc = "own"
    BY <2>1, WorkerFields
  <2> QED
    BY <2>1, <2>2, ClaimsAt
<1>3. \A t \in Threads : stack[t] = IF t \in Workers THEN <<own>> ELSE <<>>
  BY <1>1 DEF Init
<1>4. \A t \in Threads : /\ stack[t] \in Seq(Frame) /\ Len(stack[t]) \in 0..1
                         /\ \A i \in 1..Len(stack[t]) : i = 1 /\ stack[t][i] = own /\ t \in Workers
  <2>1. ASSUME NEW t \in Threads
        PROVE  /\ stack[t] \in Seq(Frame) /\ Len(stack[t]) \in 0..1
               /\ \A i \in 1..Len(stack[t]) : i = 1 /\ stack[t][i] = own /\ t \in Workers
    <3>1. CASE t \in Workers
      <4>1. stack[t] = <<own>>
        BY <1>3, <3>1
      <4>2. Len(stack[t]) = 1 /\ stack[t][1] = own /\ 1..Len(stack[t]) = {1}
        BY <4>1, Tuples
      <4>3. stack[t] \in Seq(Frame)
        BY <1>2, <4>1
      <4> QED
        BY <3>1, <4>2, <4>3
    <3>2. CASE t \notin Workers
      <4>1. stack[t] = <<>>
        BY <1>3, <3>2
      <4> QED
        BY <4>1, Tuples
    <3> QED
      BY <3>1, <3>2
  <2> QED
    BY <2>1
<1>5. Setups # {} /\ pool \in Nat /\ pool <= Most /\ setup \in Setups
  <2>1. setup \in Setups /\ pool = setup.workers
    BY DEF Init
  <2> QED
    BY <2>1, MostIs
<1>6. Typed
  <2>1. stack \in [Threads -> Seq(Frame)]
    BY <1>4 DEF Init
  <2>2. queue \in [Threads -> Seq(Works)] /\ tokens \in [0..(Most - 1) -> Nat]
    BY DEF Init
  <2>3. workItems \in 0..(HCRange - 1) /\ inFlight \in 0..(SizeRange - 1) /\ division \in DivisionMin..DivisionMax
    BY ShopAssumption DEF Init
  <2>4. barrier \in [Spreads -> Nat] /\ hits \in [Spreads -> Seq({0, 1})]
    BY DEF Init
  <2> QED
    BY <1>5, <2>1, <2>2, <2>3, <2>4 DEF Init, Typed
<1>7. \A t \in Threads : DOMAIN Queues[t] = {}
  BY DEF Init, Queues, Holdings
<1>8. Waiting = {} /\ Disjoint(Threads, Queues, {})
  BY <1>7 DEF Waiting, Disjoint, Taken
<1>9. \A t \in Threads : \A i \in DOMAIN Claimed[t] : i = 1 /\ Claimed[t][i] = {}
  BY <1>2, <1>4 DEF Claimed, Holdings, ClaimOf
<1>10. Disjoint(Threads, Claimed, Waiting) /\ InHand = {} /\ IsFiniteSet(InHand)
  <2>1. InHand = {}
    BY <1>8, <1>9 DEF InHand, Taken
  <2> QED
    BY <1>8, <1>9, <2>1, FS_EmptySet DEF Disjoint
<1>11. \A t \in Threads : \A i \in 1..Len(stack[t]) : FrameOK(t, stack[t][i])
  BY <1>2, <1>4, PlainFrame DEF WorkerPcs
<1>12. ASSUME NEW t \in Threads PROVE ReturnOK(t) /\ StackOK(t)
  <2>1. ReturnOK(t)
    BY <1>2, <1>4 DEF ReturnOK
  <2>2. StackOK(t)
    BY <1>2, <1>4 DEF StackOK, Fits, WorkerPcs, StopPcs
  <2> QED
    BY <2>1, <2>2
<1>13. StopOK
  <2>1. \A t \in Threads : pc(t) \in {"idle", "own"}
    <3>1. ASSUME NEW t \in Threads PROVE pc(t) \in {"idle", "own"}
      <4>1. CASE t \in Workers
        <5>1. stack[t] = <<own>>
          BY <1>3, <4>1
        <5> QED
          BY <1>2, <5>1 DEF pc, Top
      <4>2. CASE t \notin Workers
        <5>1. stack[t] = <<>>
          BY <1>3, <4>2
        <5> QED
          BY <5>1 DEF pc
      <4> QED
        BY <4>1, <4>2
    <3> QED
      BY <3>1
  <2>2. Callers \subseteq Threads
    BY <1>5, MostIs
  <2> QED
    BY <2>1, <2>2 DEF StopOK, StopPcs
<1>14. ASSUME NEW s \in Spreads PROVE SharesOK(s) /\ BarrierOK(s)
  <2>1. CountsOf(s) = {}
    BY <1>10 DEF CountsOf
  <2>2. barrier[s] = 0 /\ hits[s] = <<>> /\ calls[s] = "new" /\ DOMAIN hits[s] = {}
    BY DEF Init
  <2> QED
    BY <1>10, <2>1, <2>2, FS_EmptySet DEF SharesOK, BarrierOK
<1>15. \A i \in Items : ItemOK(i)
  BY <1>10 DEF Init, ItemOK
<1> QED
  BY <1>6, <1>8, <1>10, <1>11, <1>12, <1>13, <1>14, <1>15 DEF ShopInv

LEMMA FinishBodyKeeps ==
  ASSUME ShopInv, NEW t \in Threads, FinishBody(t)
  PROVE  ShopInv'
<1>1. pc(t) \in RunPcs
  BY DEF FinishBody, RunPcs
<1>2. Top(t).work \in Works
  BY <1>1, RunsIt
<1>3. Top(t).work.kind = "item" \/ Top(t).work.kind = "chunk"
  BY <1>2, WorkShape
<1> QED
  BY <1>3, ItemRan, ChunkRan

LEMMA ProgressKeeps ==
  ASSUME WideEnough, ShopInv, NEW t \in Threads, Progress(t)
  PROVE  ShopInv'
<1>1. CASE WorkerStep(t) \/ StealTake(t) \/ StealLook(t) \/ StealEnds(t)
  BY <1>1, OwnDequeueKeeps, LoopKeeps, StealTakeKeeps, StealLookKeeps, StealEndsKeeps DEF WorkerStep
<1>2. CASE RunStep(t)
  BY <1>2, FinishBodyKeeps, WorkCompletedKeeps DEF RunStep
<1>3. CASE FireStep(t)
  BY <1>3, FireTargetKeeps, FireSpillKeeps, FireEnqueueKeeps, FireNotifyKeeps, FireCountKeeps,
     FireTrackKeeps DEF FireStep
<1>4. CASE SpreadStep(t)
  BY <1>4, SpreadLookKeeps, PartCountKeeps, PartEnqueueKeeps, PartNotifyKeeps, BulkInitKeeps, BulkEnqueueKeeps,
     BulkWakeKeeps, BulkUndoKeeps, CallerWorkKeeps, CallerWaitsKeeps, JoinKeeps, SpreadReturnKeeps DEF SpreadStep
<1>5. CASE StopStep(t)
  BY <1>5, StopStepKeeps
<1> QED
  BY <1>1, <1>2, <1>3, <1>4, <1>5 DEF Progress

LEMMA CallKeeps ==
  ASSUME ShopInv, NEW t \in Threads, Call(t)
  PROVE  ShopInv'
BY FireCallKeeps, SpreadCallKeeps, StopCallKeeps DEF Call

LEMMA StillKeeps ==
  ASSUME ShopInv, UNCHANGED vars
  PROVE  ShopInv' /\ InHand' = InHand
<1>1. /\ UNCHANGED <<setup, pool, queue, tokens, workItems, inFlight, rotor, brexit, division, barrier, stack>>
      /\ UNCHANGED <<firer, accepted, ran, calls, hits>>
  BY DEF vars, shared, history
<1>2. Claimed' = Claimed /\ Waiting' = Waiting /\ Queues' = Queues
  BY <1>1 DEF Claimed, Waiting, Queues
<1>3. InHand' = InHand
  BY <1>2 DEF InHand
<1>4. Typed'
  BY <1>1 DEF ShopInv, Typed
<1>5. Disjoint(Threads, Queues, {})' /\ Disjoint(Threads, Claimed, Waiting)'
  BY <1>2 DEF ShopInv
<1>6. (\A t \in Threads : \A i \in 1..Len(stack[t]) : FrameOK(t, stack[t][i]))'
  BY <1>1, FrameStays DEF ShopInv, history
<1>7. (\A t \in Threads : ReturnOK(t) /\ StackOK(t))' /\ StopOK'
  <2>1. (\A t \in Threads : ReturnOK(t) /\ StackOK(t))'
    BY <1>1 DEF ShopInv, ReturnOK, StackOK, Fits, Workers
  <2>2. StopOK'
    BY <1>1 DEF ShopInv, StopOK, pc, Top
  <2> QED
    BY <2>1, <2>2
<1>8. (\A s \in Spreads : SharesOK(s) /\ BarrierOK(s))'
  BY <1>1, <1>3 DEF ShopInv, SharesOK, BarrierOK, CountsOf
<1>9. (\A i \in Items : ItemOK(i))'
  BY <1>1, <1>3 DEF ShopInv, ItemOK
<1>10. IsFiniteSet(InHand)'
  BY <1>3 DEF ShopInv
<1> QED
  BY <1>3, <1>4, <1>5, <1>6, <1>7, <1>8, <1>9, <1>10 DEF ShopInv

LEMMA NextKeeps ==
  ASSUME WideEnough, ShopInv, [Next]_vars
  PROVE  ShopInv'
BY ProgressKeeps, CallKeeps, StillKeeps DEF Next

\* The shares are in order whatever the threads do, in any order, and whatever the queues
\* refuse or a consumer overlooks.
THEOREM ShopInvariance ==
  ASSUME WideEnough
  PROVE  SafeSpec => []ShopInv
<1>1. ASSUME ShopInv, [Next]_vars PROVE ShopInv'
  BY <1>1, NextKeeps
<1>2. Init => ShopInv
  BY InitKeeps
<1> QED
  BY <1>1, <1>2, PTL DEF SafeSpec
================================================================================
