----------------------------- MODULE CountingLemmas -----------------------------
(***************************************************************************)
(* How the counts of module Counting change when one thread moves, what    *)
(* the operations of a stack of frames do to it, and what becomes of the   *)
(* claims its frames have.  The proofs of the synchronisation primitives   *)
(* rest on the first, those of the shops on the others.                    *)
(***************************************************************************)
EXTENDS Counting, Sequences, SequenceTheorems, FiniteSetTheorems, TLAPS

\* A set of located threads is a finite subset of the threads.
LEMMA WhereFinite ==
  ASSUME NEW T, IsFiniteSet(T), NEW X, NEW p \in [T -> X], NEW L
  PROVE  /\ Where(p, L) \subseteq T
         /\ IsFiniteSet(Where(p, L))
         /\ Cardinality(Where(p, L)) \in Nat
         /\ Cardinality(Where(p, L)) <= Cardinality(T)
<1>1. Where(p, L) \in SUBSET T
  BY DEF Where
<1> QED
  BY <1>1, FS_Subset, FS_CardinalityType

\* q is p with thread t moved to another location.
Moves(T, p, q, t) == \A u \in T \ {t} : q[u] = p[u]

\* The n units t has in L under p, if it is there.
Weight(p, t, L, n) == IF p[t] \in L THEN n ELSE 0

\* The number of threads in L changes by what t contributes under q less what it
\* contributed under p; likewise for the units held by the threads in L.  (Named,
\* so that the lemmas below instantiate without arithmetic.)
CountMoves(p, q, t, L) ==
  Cardinality(Where(q, L))
    = Cardinality(Where(p, L)) + Weight(q, t, L, 1) - Weight(p, t, L, 1)
SlotsMoves(f, g, p, q, t, L) ==
  Cardinality(Slots(g, Where(q, L)))
    = Cardinality(Slots(f, Where(p, L))) + Weight(q, t, L, g[t]) - Weight(p, t, L, f[t])

\* A move of t adds t to the threads in L, or removes it.
LEMMA WhereSet ==
  ASSUME NEW T, NEW X, NEW p \in [T -> X], NEW q \in [T -> X], NEW t \in T,
         Moves(T, p, q, t), NEW L
  PROVE  Where(q, L) = IF q[t] \in L THEN Where(p, L) \cup {t}
                                     ELSE Where(p, L) \ {t}
BY DEF Where, Moves

\* ... and changes their number by what t contributes after the move less what
\* it contributed before.
LEMMA WhereMove ==
  ASSUME NEW T, IsFiniteSet(T), NEW X, NEW p \in [T -> X], NEW q \in [T -> X],
         NEW t \in T, Moves(T, p, q, t), NEW L
  PROVE  CountMoves(p, q, t, L)
<1> DEFINE A == Where(p, L)
<1>1. IsFiniteSet(A) /\ Cardinality(A) \in Nat
  BY WhereFinite
<1>2. t \in A <=> p[t] \in L
  BY DEF Where
<1>3. Where(q, L) = IF q[t] \in L THEN A \cup {t} ELSE A \ {t}
  BY WhereSet
<1> HIDE DEF A
<1>4. Cardinality(A \cup {t}) = IF t \in A THEN Cardinality(A) ELSE Cardinality(A) + 1
  BY <1>1, FS_AddElement
<1>5. Cardinality(A \ {t}) = IF t \in A THEN Cardinality(A) - 1 ELSE Cardinality(A)
  BY <1>1, FS_RemoveElement
<1>6. Cardinality(Where(q, L)) = Cardinality(A) + (IF q[t] \in L THEN 1 ELSE 0)
                                                - (IF p[t] \in L THEN 1 ELSE 0)
  BY <1>1, <1>2, <1>3, <1>4, <1>5
<1> QED
  BY <1>6 DEF A, Weight, CountMoves

\* The slots of finitely many threads are finite.
LEMMA SlotsFinite ==
  ASSUME NEW T, IsFiniteSet(T), NEW M \in Nat, NEW f \in [T -> 0..M],
         NEW S \in SUBSET T
  PROVE  IsFiniteSet(Slots(f, S)) /\ Cardinality(Slots(f, S)) \in Nat
<1>1. IsFiniteSet(S)
  BY FS_Subset
<1>2. IsFiniteSet(1..M)
  BY FS_Interval
<1>3. IsFiniteSet(S \X (1..M))
  BY <1>1, <1>2, FS_Product
<1>4. Slots(f, S) \subseteq S \X (1..M)
  BY DEF Slots
<1> QED
  BY <1>3, <1>4, FS_Subset, FS_CardinalityType

\* A thread outside S brings its f[t] slots with it.
LEMMA SlotsAdd ==
  ASSUME NEW T, IsFiniteSet(T), NEW M \in Nat, NEW f \in [T -> 0..M],
         NEW S \in SUBSET T, NEW t \in T, t \notin S
  PROVE  Cardinality(Slots(f, S \cup {t})) = Cardinality(Slots(f, S)) + f[t]
<1> DEFINE P == {t} \X (1..f[t])
<1>1. IsFiniteSet(Slots(f, S)) /\ Cardinality(Slots(f, S)) \in Nat
  BY SlotsFinite
<1>2. f[t] \in Nat
  OBVIOUS
<1>3. IsFiniteSet(P) /\ Cardinality(P) = f[t]
  <2>1. IsFiniteSet(1..f[t]) /\ Cardinality(1..f[t]) = f[t]
    BY <1>2, FS_Interval
  <2>2. IsFiniteSet({t}) /\ Cardinality({t}) = 1
    BY FS_Singleton
  <2>3. IsFiniteSet(P) /\ Cardinality(P) = Cardinality({t}) * Cardinality(1..f[t])
    BY <2>1, <2>2, FS_Product
  <2> QED
    BY <1>2, <2>1, <2>2, <2>3
<1>4. Slots(f, S \cup {t}) = Slots(f, S) \cup P
  BY DEF Slots
<1>5. Slots(f, S) \cap P = {}
  BY DEF Slots
<1> HIDE DEF P
<1>6. Cardinality(Slots(f, S) \cup P)
        = Cardinality(Slots(f, S)) + Cardinality(P) - Cardinality(Slots(f, S) \cap P)
  BY <1>1, <1>3, FS_Union
<1>7. Cardinality(Slots(f, S) \cap P) = 0
  BY <1>5, FS_EmptySet
<1>8. Cardinality(Slots(f, S) \cup P) = Cardinality(Slots(f, S)) + f[t]
  BY <1>1, <1>2, <1>3, <1>6, <1>7
<1> QED
  BY <1>4, <1>8

\* Only the threads of S matter to the slots of S.
LEMMA SlotsSame ==
  ASSUME NEW f, NEW g, NEW S, \A t \in S : f[t] = g[t]
  PROVE  Slots(f, S) = Slots(g, S)
BY DEF Slots

\* A move of t that also gives it g[t] units changes the slots of the threads in
\* L by what t holds after the move less what it held before.
LEMMA SlotsMove ==
  ASSUME NEW T, IsFiniteSet(T), NEW X, NEW p \in [T -> X], NEW q \in [T -> X],
         NEW M \in Nat, NEW f \in [T -> 0..M], NEW g \in [T -> 0..M],
         NEW t \in T, Moves(T, p, q, t), Moves(T, f, g, t), NEW L
  PROVE  SlotsMoves(f, g, p, q, t, L)
<1> DEFINE R == Where(p, L) \ {t}
<1>1. R \in SUBSET T /\ t \notin R
  BY DEF Where
<1>2. Where(p, L) = IF p[t] \in L THEN R \cup {t} ELSE R
  BY DEF Where
<1>3. Where(q, L) = IF q[t] \in L THEN R \cup {t} ELSE R
  BY DEF Where, Moves
<1>4. Slots(g, R) = Slots(f, R)
  BY <1>1, SlotsSame DEF Moves
<1> HIDE DEF R
<1>5. Cardinality(Slots(f, R)) \in Nat
  BY <1>1, SlotsFinite
<1>6. Cardinality(Slots(f, R \cup {t})) = Cardinality(Slots(f, R)) + f[t]
  BY <1>1, SlotsAdd
<1>7. Cardinality(Slots(g, R \cup {t})) = Cardinality(Slots(g, R)) + g[t]
  BY <1>1, SlotsAdd
<1>8. f[t] \in Nat /\ g[t] \in Nat
  OBVIOUS
<1> QED
  BY <1>2, <1>3, <1>4, <1>5, <1>6, <1>7, <1>8 DEF Weight, SlotsMoves
--------------------------------------------------------------------------------
(* Stacks: what a thread's calls and returns do to the sequence of its frames.
   (Front is written out, as the modules of the stacks take it from elsewhere.) *)

LEMMA PushFrame ==
  ASSUME NEW F, NEW s \in Seq(F), NEW f \in F, NEW r, r = Append(s, f)
  PROVE  /\ r \in Seq(F) /\ Len(r) = Len(s) + 1 /\ r # <<>> /\ r[Len(s) + 1] = f
         /\ \A i \in 1..Len(s) : r[i] = s[i]
OBVIOUS

LEMMA PopFrame ==
  ASSUME NEW F, NEW s \in Seq(F), s # <<>>, NEW r, r = SubSeq(s, 1, Len(s) - 1)
  PROVE  /\ r \in Seq(F) /\ Len(r) = Len(s) - 1 /\ Len(s) \in Nat \ {0}
         /\ \A i \in 1..(Len(s) - 1) : r[i] = s[i]
<1>1. Len(s) \in Nat \ {0}
  OBVIOUS
<1>2. ASSUME NEW i \in 1..(Len(s) - 1) PROVE s[i] \in F
  BY ElementOfSeq, <1>1
<1>3. /\ r \in Seq(F)
      /\ Len(r) = IF 1 <= Len(s) - 1 THEN Len(s) - 1 - 1 + 1 ELSE 0
      /\ \A i \in 1..(Len(s) - 1 - 1 + 1) : r[i] = s[1 + i - 1]
  BY <1>1, <1>2, SubSeqProperties
<1>4. Len(r) = Len(s) - 1
  <2>1. \A n \in Nat \ {0} : (IF 1 <= n - 1 THEN n - 1 - 1 + 1 ELSE 0) = n - 1
    OBVIOUS
  <2> QED
    BY <1>1, <1>3, <2>1, Zenon
<1>5. ASSUME NEW i \in 1..(Len(s) - 1) PROVE r[i] = s[i]
  <2>1. i \in 1..(Len(s) - 1 - 1 + 1) /\ 1 + i - 1 = i
    BY <1>1
  <2> QED
    BY <1>3, <2>1
<1> QED
  BY <1>1, <1>3, <1>4, <1>5

LEMMA SwapFrame ==
  ASSUME NEW F, NEW s \in Seq(F), s # <<>>, NEW f \in F,
         NEW r, r = Append(SubSeq(s, 1, Len(s) - 1), f)
  PROVE  /\ r \in Seq(F) /\ Len(r) = Len(s) /\ Len(s) \in Nat \ {0} /\ r[Len(s)] = f
         /\ \A i \in 1..(Len(s) - 1) : r[i] = s[i]
<1> DEFINE u == SubSeq(s, 1, Len(s) - 1)
<1>1. /\ u \in Seq(F) /\ Len(u) = Len(s) - 1 /\ Len(s) \in Nat \ {0}
      /\ \A i \in 1..(Len(s) - 1) : u[i] = s[i]
  BY ZenonT(40), PopFrame
<1> HIDE DEF u
<1> QED
  BY <1>1 DEF u

\* Of t's stack the lowest b frames stay, and G comes on top of them.
Shift(F, T, p, q, t, b, G) ==
  /\ q \in [T -> Seq(F)]
  /\ \A u \in T \ {t} : q[u] = p[u]
  /\ b \in Nat /\ b <= Len(p[t]) /\ Len(p[t]) <= b + 1
  /\ Len(q[t]) = b + Len(G)
  /\ \A i \in 1..b : q[t][i] = p[t][i]
  /\ \A i \in 1..Len(G) : q[t][b + i] = G[i]

LEMMA Tuples ==
  /\ Len(<<>>) = 0
  /\ \A f : Len(<<f>>) = 1 /\ <<f>>[1] = f /\ 1..Len(<<f>>) = {1}
  /\ \A f, g : Len(<<f, g>>) = 2 /\ <<f, g>>[1] = f /\ <<f, g>>[2] = g /\ 1..Len(<<f, g>>) = {1, 2}
OBVIOUS

\* What Append and SubSeq make of the stack of t.
LEMMA Shifts ==
  ASSUME NEW F, NEW T, NEW p \in [T -> Seq(F)], NEW t \in T, NEW s \in Seq(F), s = p[t], NEW q,
         NEW n, n = Len(s)
  PROVE  /\ \A f \in F : q = [p EXCEPT ![t] = Append(s, f)] => Shift(F, T, p, q, t, n, <<f>>)
         /\ s # <<>> /\ q = [p EXCEPT ![t] = SubSeq(s, 1, n - 1)] => Shift(F, T, p, q, t, n - 1, <<>>)
         /\ \A f \in F : s # <<>> /\ q = [p EXCEPT ![t] = Append(SubSeq(s, 1, n - 1), f)]
                            => Shift(F, T, p, q, t, n - 1, <<f>>)
         /\ \A f, g \in F :
              s # <<>> /\ q = [p EXCEPT ![t] = Append(Append(SubSeq(s, 1, n - 1), f), g)]
                 => Shift(F, T, p, q, t, n - 1, <<f, g>>)
<1>1. n \in Nat /\ (s # <<>> => n \in Nat \ {0})
  OBVIOUS
<1>2. ASSUME NEW f \in F, q = [p EXCEPT ![t] = Append(s, f)]
      PROVE  Shift(F, T, p, q, t, n, <<f>>)
  <2>1. PICK r : r = Append(s, f)
    OBVIOUS
  <2>2. r \in Seq(F) /\ Len(r) = n + 1 /\ r[n + 1] = f /\ \A i \in 1..n : r[i] = s[i]
    BY <2>1, PushFrame
  <2>3. q = [p EXCEPT ![t] = r]
    BY <1>2, <2>1
  <2>4. q \in [T -> Seq(F)] /\ q[t] = r /\ \A u \in T \ {t} : q[u] = p[u]
    BY <2>2, <2>3
  <2> QED
    BY <1>1, <2>2, <2>4, Tuples DEF Shift
<1>3. ASSUME s # <<>>, q = [p EXCEPT ![t] = SubSeq(s, 1, n - 1)]
      PROVE  Shift(F, T, p, q, t, n - 1, <<>>)
  <2>1. PICK r : r = SubSeq(s, 1, n - 1)
    OBVIOUS
  <2>2. r \in Seq(F) /\ Len(r) = n - 1 /\ \A i \in 1..(n - 1) : r[i] = s[i]
    BY <1>3, <2>1, PopFrame
  <2>3. q = [p EXCEPT ![t] = r]
    BY <1>3, <2>1
  <2>4. q \in [T -> Seq(F)] /\ q[t] = r /\ \A u \in T \ {t} : q[u] = p[u]
    BY <2>2, <2>3
  <2> QED
    BY <1>1, <1>3, <2>2, <2>4, Tuples DEF Shift
<1>4. ASSUME s # <<>>, NEW f \in F, q = [p EXCEPT ![t] = Append(SubSeq(s, 1, n - 1), f)]
      PROVE  Shift(F, T, p, q, t, n - 1, <<f>>)
  <2>1. PICK r : r = Append(SubSeq(s, 1, n - 1), f)
    OBVIOUS
  <2>2. r \in Seq(F) /\ Len(r) = n /\ r[n] = f /\ \A i \in 1..(n - 1) : r[i] = s[i]
    BY <1>4, <2>1, SwapFrame
  <2>3. q = [p EXCEPT ![t] = r]
    BY <1>4, <2>1
  <2>4. q \in [T -> Seq(F)] /\ q[t] = r /\ \A u \in T \ {t} : q[u] = p[u]
    BY <2>2, <2>3
  <2> QED
    BY <1>1, <1>4, <2>2, <2>4, Tuples DEF Shift
<1>5. ASSUME s # <<>>, NEW f \in F, NEW g \in F,
             q = [p EXCEPT ![t] = Append(Append(SubSeq(s, 1, n - 1), f), g)]
      PROVE  Shift(F, T, p, q, t, n - 1, <<f, g>>)
  <2>1. PICK v : v = Append(SubSeq(s, 1, n - 1), f)
    OBVIOUS
  <2>2. PICK r : r = Append(v, g)
    OBVIOUS
  <2>3. v \in Seq(F) /\ Len(v) = n /\ v[n] = f /\ \A i \in 1..(n - 1) : v[i] = s[i]
    BY <1>5, <2>1, SwapFrame
  <2>4. r \in Seq(F) /\ Len(r) = n + 1 /\ r[n + 1] = g /\ \A i \in 1..n : r[i] = v[i]
    BY <2>2, <2>3, PushFrame
  <2>5. q = [p EXCEPT ![t] = r]
    BY <1>5, <2>1, <2>2
  <2>6. q \in [T -> Seq(F)] /\ q[t] = r /\ \A u \in T \ {t} : q[u] = p[u]
    BY <2>4, <2>5
  <2>7. r[n] = f /\ \A i \in 1..(n - 1) : r[i] = s[i]
    BY <1>1, <1>5, <2>3, <2>4
  <2> QED
    BY <1>1, <1>5, <2>4, <2>6, <2>7, Tuples DEF Shift
<1> QED
  BY <1>2, <1>3, <1>4, <1>5

--------------------------------------------------------------------------------
(* Claims: what the frames of a stack have for themselves, C[t][i] the set of
   thread t's frame i, and q what nobody has taken yet *)

\* No two frames claim the same, and none what is in q.
Disjoint(T, C, q) ==
  /\ \A t, u \in T : \A i \in DOMAIN C[t], j \in DOMAIN C[u] :
       t # u \/ i # j => C[t][i] \cap C[u][j] = {}
  /\ \A t \in T : \A i \in DOMAIN C[t] : C[t][i] \cap q = {}

Taken(T, C, q) == q \cup UNION {UNION {C[t][i] : i \in DOMAIN C[t]} : t \in T}

Claim(C, t, i) == IF i \in DOMAIN C[t] THEN C[t][i] ELSE {}

\* Of t's frames the lowest b stay, at most one above them goes, at most two come.
Restacks(T, C, D, t, b) ==
  /\ \A u \in T \ {t} : D[u] = C[u]
  /\ 1..b \subseteq DOMAIN C[t] /\ DOMAIN C[t] \subseteq 1..(b + 1)
  /\ 1..b \subseteq DOMAIN D[t] /\ DOMAIN D[t] \subseteq 1..(b + 2)
  /\ \A i \in 1..b : D[t][i] = C[t][i]

\* What the frame that goes and q had is what the frames that come and r have, but
\* for something new and something let go.  (Named, so that it instantiates.)
Exchanges(T, C, D, t, b, q, r, new, gone) ==
  /\ Restacks(T, C, D, t, b) /\ Disjoint(T, C, q)
  /\ new \cap Taken(T, C, q) = {} /\ gone \subseteq q \cup Claim(C, t, b + 1)
  /\ Claim(D, t, b + 1) \cap Claim(D, t, b + 2) = {}
  /\ Claim(D, t, b + 1) \cap r = {} /\ Claim(D, t, b + 2) \cap r = {}
  /\ Claim(D, t, b + 1) \cup Claim(D, t, b + 2) \cup r
       = (q \cup Claim(C, t, b + 1) \cup new) \ gone

Exchanged(T, C, D, q, r, new, gone) ==
  /\ Disjoint(T, D, r)
  /\ Taken(T, D, r) = (Taken(T, C, q) \cup new) \ gone

\* Then still no two have the same.
LEMMA Exchange ==
  ASSUME NEW T, NEW C, NEW D, NEW t \in T, NEW b \in Nat, NEW q, NEW r, NEW new, NEW gone,
         Exchanges(T, C, D, t, b, q, r, new, gone)
  PROVE  Exchanged(T, C, D, q, r, new, gone)
<1> USE DEF Exchanges
<1> DEFINE N == Claim(D, t, b + 1) \cup Claim(D, t, b + 2)
           Kept(u, i) == u \in T /\ i \in DOMAIN D[u] /\ (u = t => i \in 1..b)
<1>1. ASSUME NEW u, NEW i, Kept(u, i)
      PROVE  /\ i \in DOMAIN C[u] /\ D[u][i] = C[u][i]
             /\ C[u][i] \subseteq Taken(T, C, q)
             /\ C[u][i] \cap q = {} /\ C[u][i] \cap Claim(C, t, b + 1) = {}
             /\ C[u][i] \cap new = {}
  <2>1. i \in DOMAIN C[u] /\ D[u][i] = C[u][i]
    BY <1>1 DEF Restacks
  <2>2. C[u][i] \subseteq Taken(T, C, q) /\ C[u][i] \cap q = {}
    BY <1>1, <2>1 DEF Taken, Disjoint
  <2>3. u # t \/ i # b + 1
    BY <1>1
  <2>4. C[u][i] \cap Claim(C, t, b + 1) = {}
    BY <1>1, <2>1, <2>3 DEF Claim, Disjoint
  <2> QED
    BY <2>1, <2>2, <2>4
<1>2. ASSUME NEW u \in T, NEW i \in DOMAIN D[u], ~Kept(u, i)
      PROVE  /\ u = t /\ i \in {b + 1, b + 2} /\ D[u][i] = Claim(D, t, i)
             /\ D[u][i] \subseteq N
  BY <1>2 DEF Restacks, Claim
<1>3. ASSUME NEW u \in T, NEW i \in DOMAIN D[u]
      PROVE  D[u][i] \cap r = {}
  BY <1>1, <1>2, <1>3
<1>4. ASSUME NEW u \in T, NEW v \in T, NEW i \in DOMAIN D[u], NEW j \in DOMAIN D[v],
             u # v \/ i # j
      PROVE  D[u][i] \cap D[v][j] = {}
  <2>1. CASE Kept(u, i) /\ Kept(v, j)
    BY <1>1, <1>4, <2>1 DEF Disjoint
  <2>2. CASE Kept(u, i) /\ ~Kept(v, j)
    BY <1>1, <1>2, <2>2
  <2>3. CASE ~Kept(u, i) /\ Kept(v, j)
    BY <1>1, <1>2, <2>3
  <2>4. CASE ~Kept(u, i) /\ ~Kept(v, j)
    BY <1>2, <1>4, <2>4
  <2> QED
    BY <2>1, <2>2, <2>3, <2>4
<1>5. ASSUME NEW w \in Taken(T, D, r)
      PROVE  w \in (Taken(T, C, q) \cup new) \ gone
  <2>1. CASE w \in r
    BY <2>1 DEF Taken, Claim
  <2>2. ASSUME NEW u \in T, NEW i \in DOMAIN D[u], w \in D[u][i], Kept(u, i)
        PROVE  w \in (Taken(T, C, q) \cup new) \ gone
    BY <1>1, <2>2
  <2>3. ASSUME NEW u \in T, NEW i \in DOMAIN D[u], w \in D[u][i], ~Kept(u, i)
        PROVE  w \in (Taken(T, C, q) \cup new) \ gone
    BY <1>2, <2>3 DEF Taken, Claim
  <2> QED
    BY <2>1, <2>2, <2>3 DEF Taken
<1>6. ASSUME NEW w \in (Taken(T, C, q) \cup new) \ gone
      PROVE  w \in Taken(T, D, r)
  <2>1. CASE w \in N \cup r
    BY <2>1 DEF Taken, Claim
  <2>2. CASE w \notin N \cup r
    <3>1. w \notin q /\ w \notin new /\ w \notin Claim(C, t, b + 1)
      BY <2>2
    <3>2. PICK u \in T : \E i \in DOMAIN C[u] : w \in C[u][i]
      BY <1>6, <3>1 DEF Taken
    <3> PICK i \in DOMAIN C[u] : w \in C[u][i]
      BY <3>2
    <3>3. u # t \/ i \in 1..b
      BY <3>1, <3>2 DEF Restacks, Claim
    <3>4. i \in DOMAIN D[u] /\ D[u][i] = C[u][i]
      BY <3>3 DEF Restacks
    <3> QED
      BY <3>2, <3>4 DEF Taken
  <2> QED
    BY <2>1, <2>2
<1> HIDE DEF N, Kept, Exchanges
<1> QED
  BY <1>3, <1>4, <1>5, <1>6 DEF Disjoint, Exchanged

\* The claims of all frames on the stacks p, if cl gives those of one.
Holdings(T, cl, p) == [t \in T |-> [i \in 1..Len(p[t]) |-> cl[p[t][i]]]]

\* The claims follow the frames.
HeldMoves(T, cl, p, q, t, b, G) ==
  /\ Restacks(T, Holdings(T, cl, p), Holdings(T, cl, q), t, b)
  /\ Len(p[t]) = b => Claim(Holdings(T, cl, p), t, b + 1) = {}
  /\ Len(p[t]) = b + 1 => Claim(Holdings(T, cl, p), t, b + 1) = cl[p[t][b + 1]]
  /\ Claim(Holdings(T, cl, q), t, b + 1) = IF Len(G) = 0 THEN {} ELSE cl[G[1]]
  /\ Claim(Holdings(T, cl, q), t, b + 2) = IF Len(G) = 2 THEN cl[G[2]] ELSE {}

LEMMA ShiftHeld ==
  ASSUME NEW F, NEW T, NEW cl, NEW p \in [T -> Seq(F)], NEW q, NEW t \in T, NEW b,
         NEW G, Len(G) \in 0..2, Shift(F, T, p, q, t, b, G)
  PROVE  HeldMoves(T, cl, p, q, t, b, G)
<1>1. /\ \A u \in T : Len(p[u]) \in Nat /\ Len(q[u]) \in Nat
      /\ b \in Nat
  BY DEF Shift
<1>2. PICK C, D : C = Holdings(T, cl, p) /\ D = Holdings(T, cl, q)
  OBVIOUS
<1>3. \A u \in T : /\ DOMAIN C[u] = 1..Len(p[u]) /\ DOMAIN D[u] = 1..Len(q[u])
                   /\ \A i \in 1..Len(p[u]) : C[u][i] = cl[p[u][i]]
                   /\ \A i \in 1..Len(q[u]) : D[u][i] = cl[q[u][i]]
  BY <1>2 DEF Holdings
<1>4. \A u \in T \ {t} : D[u] = C[u]
  BY <1>2 DEF Shift, Holdings
<1>5. Restacks(T, C, D, t, b)
  <2>1. /\ 1..b \subseteq DOMAIN C[t] /\ DOMAIN C[t] \subseteq 1..(b + 1)
        /\ 1..b \subseteq DOMAIN D[t] /\ DOMAIN D[t] \subseteq 1..(b + 2)
    <3>1. /\ DOMAIN C[t] = 1..Len(p[t]) /\ b <= Len(p[t]) /\ Len(p[t]) <= b + 1
          /\ DOMAIN D[t] = 1..Len(q[t])
      BY <1>3 DEF Shift
    <3>2. b <= Len(q[t]) /\ Len(q[t]) <= b + 2
      <4>1. \A m \in 0..2 : b <= b + m /\ b + m <= b + 2
        BY <1>1
      <4> QED
        BY <4>1 DEF Shift
    <3>3. \A m, k \in Nat : b <= m /\ m <= k => 1..b \subseteq 1..m /\ 1..m \subseteq 1..k
      BY <1>1
    <3>4. b + 1 \in Nat /\ b + 2 \in Nat
      BY <1>1
    <3> QED
      BY <1>1, <3>1, <3>2, <3>3, <3>4
  <2>2. ASSUME NEW i \in 1..b PROVE D[t][i] = C[t][i]
    <3>1. i \in 1..Len(p[t]) /\ i \in 1..Len(q[t])
      BY <1>3, <2>1
    <3>2. p[t][i] = q[t][i]
      BY DEF Shift
    <3> QED
      BY <1>3, <3>1, <3>2
  <2> QED
    BY <1>4, <2>1, <2>2 DEF Restacks
<1>6. Len(p[t]) = b => Claim(C, t, b + 1) = {}
  BY <1>1, <1>3 DEF Claim
<1>7. Len(p[t]) = b + 1 => Claim(C, t, b + 1) = cl[p[t][b + 1]]
  BY <1>1, <1>3 DEF Claim
<1>8. Claim(D, t, b + 1) = IF Len(G) = 0 THEN {} ELSE cl[G[1]]
  <2>1. Len(G) # 0 => q[t][b + 1] = G[1]
    BY DEF Shift
  <2> QED
    BY SMTT(30), <1>1, <1>3, <2>1 DEF Claim, Shift
<1>9. Claim(D, t, b + 2) = IF Len(G) = 2 THEN cl[G[2]] ELSE {}
  <2>1. /\ Len(G) = 2 => q[t][b + 2] = G[2]
        /\ DOMAIN D[t] = 1..(b + Len(G))
    BY <1>3 DEF Shift
  <2>2. Len(G) = 2 => b + 2 \in DOMAIN D[t] /\ D[t][b + 2] = cl[G[2]]
    BY <1>1, <1>3, <2>1
  <2>3. Len(G) # 2 => b + 2 \notin DOMAIN D[t]
    <3>1. \A m \in 0..2 : m # 2 => b + 2 \notin 1..(b + m)
      BY <1>1
    <3> QED
      BY <2>1, <3>1
  <2> QED
    BY <2>2, <2>3 DEF Claim
<1> QED
  BY <1>2, <1>5, <1>6, <1>7, <1>8, <1>9 DEF HeldMoves

\* What t's frame on top, if it goes, and those that come have for themselves.
Popped(cl, p, t, b) == IF Len(p[t]) = b THEN {} ELSE cl[p[t][b + 1]]
First(cl, G)        == IF Len(G) = 0 THEN {} ELSE cl[G[1]]
Second(cl, G)       == IF Len(G) = 2 THEN cl[G[2]] ELSE {}

\* A step that takes a frame with old off a stack and puts frames with x and y there,
\* while what waits changes from q to r.
Trades(T, C, q, r, old, x, y, new, gone) ==
  /\ new \cap Taken(T, C, q) = {} /\ gone \subseteq q \cup old
  /\ x \cap y = {} /\ x \cap r = {} /\ y \cap r = {}
  /\ x \cup y \cup r = (q \cup old \cup new) \ gone

\* Then what is held or waits is what it was, but for new and gone, and still by one each.
LEMMA Trading ==
  ASSUME NEW F, NEW T, NEW cl, NEW p \in [T -> Seq(F)], NEW s, NEW t \in T, NEW b,
         NEW G, Len(G) \in 0..2, Shift(F, T, p, s, t, b, G),
         NEW q, NEW r, NEW new, NEW gone, Disjoint(T, Holdings(T, cl, p), q),
         Trades(T, Holdings(T, cl, p), q, r, Popped(cl, p, t, b), First(cl, G), Second(cl, G), new, gone)
  PROVE  Exchanged(T, Holdings(T, cl, p), Holdings(T, cl, s), q, r, new, gone)
<1>1. PICK C, D : C = Holdings(T, cl, p) /\ D = Holdings(T, cl, s)
  OBVIOUS
<1>2. b \in Nat /\ Len(p[t]) \in {b, b + 1}
  BY DEF Shift
<1>3. HeldMoves(T, cl, p, s, t, b, G)
  BY ShiftHeld
<1>4. /\ Restacks(T, C, D, t, b) /\ Claim(C, t, b + 1) = Popped(cl, p, t, b)
      /\ Claim(D, t, b + 1) = First(cl, G) /\ Claim(D, t, b + 2) = Second(cl, G)
  BY <1>1, <1>2, <1>3 DEF HeldMoves, Popped, First, Second
<1>5. Exchanges(T, C, D, t, b, q, r, new, gone)
  BY <1>1, <1>4 DEF Exchanges, Trades
<1> QED
  BY <1>1, <1>2, <1>5, Exchange
================================================================================
