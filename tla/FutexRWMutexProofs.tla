--------------------------- MODULE FutexRWMutexProofs ---------------------------
(***************************************************************************)
(* TLAPS proofs about the reader-writer locks: first the futex one in both *)
(* policies, for any finite set of threads and any depth of nested reads;  *)
(* then the mutexes over the operating system's lock and their registry of *)
(* reads (instance OverOs of MCRWMutex, the names with Os), for any        *)
(* threads, any mutexes of the three kinds and any depth; then, whichever  *)
(* of them a program uses.                                                 *)
(***************************************************************************)
EXTENDS MCRWMutex, CountingLemmas

ReaderCalls == {"ro_load", "ro_try", "ro_parked", "try_ro"}
WriterCalls == {"rw_load", "rw_try", "rw_parked", "try_rw"}
Wakers      == {"wake_writers", "wake_either"}
Locations   == {"idle"} \cup ReaderCalls \cup WriterCalls \cup Wakers

Words == [wl : BOOLEAN, ww : BOOLEAN, rp : BOOLEAN, readers : Nat]

Typed ==
  /\ readerPreferring \in BOOLEAN
  /\ word \in Words
  /\ observed \in [Threads -> Words]
  /\ pc \in [Threads -> Locations]
  /\ reads \in [Threads -> 0..MaxNest]
  /\ writes \in SUBSET Threads

\* Who asks for a read lock may hold one more.
Asking == \A t \in Threads : pc[t] \in ReaderCalls => reads[t] < MaxNest

\* A try goes for the word only if it looked free.
Tries == \A t \in Threads : /\ pc[t] = "try_ro" => ~BlocksReader(observed[t])
                            /\ pc[t] = "try_rw" => FreeForWriter(observed[t])

\* The word against the holders, the parked threads, and what the threads inside of
\* a call rely on.
Held == Typed /\ WordExact /\ MutualExclusion
IInv == Held /\ AnnouncedWhileParked /\ NestedReadNeverBlocks /\ Asking /\ Tries
--------------------------------------------------------------------------------
(* The count of the readers *)

\* When one thread's reads change, their sum changes by as much.
LEMMA ReadsChange ==
  ASSUME Typed, Typed', NEW t \in Threads, Moves(Threads, reads, reads', t)
  PROVE  /\ Cardinality(Slots(reads, Threads)) \in Nat
         /\ Cardinality(Slots(reads, Threads))'
              = Cardinality(Slots(reads, Threads)) + reads'[t] - reads[t]
<1> DEFINE here == [u \in Threads |-> 0]
<1>1. Where(here, {0}) = Threads /\ here \in [Threads -> {0}]
  BY DEF Where
<1>2. Moves(Threads, here, here, t)
  BY DEF Moves
<1>3. reads \in [Threads -> 0..MaxNest] /\ reads' \in [Threads -> 0..MaxNest]
  BY DEF Typed
<1>4. SlotsMoves(reads, reads', here, here, t, {0})
  BY <1>1, <1>2, <1>3, SlotsMove, ThreadsAssumption, NestAssumption
<1>5. Weight(here, t, {0}, reads'[t]) = reads'[t] /\ Weight(here, t, {0}, reads[t]) = reads[t]
  BY DEF Weight
<1>6. Cardinality(Slots(reads, Threads)) \in Nat
  BY <1>3, SlotsFinite, ThreadsAssumption, NestAssumption
<1> HIDE DEF here
<1> QED
  BY <1>1, <1>3, <1>4, <1>5, <1>6 DEF SlotsMoves

\* No reader is counted exactly when nobody reads.
LEMMA NoReaders ==
  ASSUME Held
  PROVE  word.readers = 0 <=> \A t \in Threads : reads[t] = 0
<1>1. reads \in [Threads -> 0..MaxNest]
  BY DEF Held, Typed
<1>2. IsFiniteSet(Slots(reads, Threads))
  BY <1>1, SlotsFinite, ThreadsAssumption, NestAssumption
<1>3. Cardinality(Slots(reads, Threads)) = 0 <=> Slots(reads, Threads) = {}
  BY <1>2, FS_EmptySet
<1>4. ASSUME NEW t \in Threads, reads[t] # 0 PROVE <<t, 1>> \in Slots(reads, Threads)
  <2>1. 1 \in 1..reads[t]
    BY <1>1, <1>4
  <2> QED
    BY <2>1 DEF Slots
<1>5. (\A t \in Threads : reads[t] = 0) => Slots(reads, Threads) = {}
  BY DEF Slots
<1> QED
  BY <1>3, <1>4, <1>5 DEF Held, WordExact
--------------------------------------------------------------------------------
(* How the word and the holders change together *)

\* The announce bits say nothing of who is inside.
LEMMA HeldKept ==
  ASSUME Held, Typed', reads' = reads, writes' = writes,
         word'.wl = word.wl, word'.readers = word.readers
  PROVE  Held'
BY DEF Held, WordExact, MutualExclusion, Readers, Slots

\* A reader gets in past a word without a writer.
LEMMA ReaderIn ==
  ASSUME Held, Typed', NEW t \in Threads, ~word.wl,
         word' = [word EXCEPT !.readers = @ + 1],
         reads' = [reads EXCEPT ![t] = @ + 1], writes' = writes
  PROVE  Held'
<1>1. Moves(Threads, reads, reads', t) /\ reads'[t] = reads[t] + 1
  BY DEF Held, Typed, Moves
<1>2. Cardinality(Slots(reads, Threads))'
        = Cardinality(Slots(reads, Threads)) + reads'[t] - reads[t]
  BY <1>1, ReadsChange DEF Held
<1>3. word.readers' = Cardinality(Slots(reads, Threads))'
  BY <1>1, <1>2 DEF Held, Typed, Words, WordExact
<1>4. writes = {} /\ word.wl' = word.wl
  BY DEF Held, WordExact, Typed, Words
<1> QED
  BY <1>3, <1>4 DEF Held, WordExact, MutualExclusion

\* A reader leaves.
LEMMA ReaderOut ==
  ASSUME Held, Typed', NEW t \in Threads, reads[t] > 0,
         word' = [word EXCEPT !.readers = @ - 1],
         reads' = [reads EXCEPT ![t] = @ - 1], writes' = writes
  PROVE  Held'
<1>1. Moves(Threads, reads, reads', t) /\ reads'[t] = reads[t] - 1
  BY DEF Held, Typed, Moves
<1>2. Cardinality(Slots(reads, Threads))'
        = Cardinality(Slots(reads, Threads)) + reads'[t] - reads[t]
  BY <1>1, ReadsChange DEF Held
<1>3. word.readers' = Cardinality(Slots(reads, Threads))'
  BY <1>1, <1>2 DEF Held, Typed, Words, WordExact
<1>4. writes = {} /\ word.wl' = word.wl
  BY DEF Held, WordExact, MutualExclusion, Readers, Typed, Words
<1> QED
  BY <1>3, <1>4 DEF Held, WordExact, MutualExclusion

\* The writer gets in past a word with nobody inside.
LEMMA WriterIn ==
  ASSUME Held, Typed', NEW t \in Threads, FreeForWriter(word),
         word' = WriterTakes(word), writes' = writes \cup {t}, reads' = reads
  PROVE  Held'
<1>1. Readers' = {}
  BY NoReaders DEF FreeForWriter, Readers
<1>2. writes = {}
  BY DEF Held, WordExact, FreeForWriter
<1>3. word.wl' = TRUE /\ word.readers' = word.readers
  BY DEF Held, Typed, Words, WriterTakes
<1> QED
  BY <1>1, <1>2, <1>3 DEF Held, WordExact, MutualExclusion, Slots

\* The writer leaves: it was alone, and the word is zero.
LEMMA WriterOut ==
  ASSUME Held, Typed', NEW t \in Threads, t \in writes,
         word' = Zero, writes' = writes \ {t}, reads' = reads
  PROVE  Held'
<1>1. Readers = {} /\ writes' = {}
  BY DEF Held, MutualExclusion
<1>2. \A u \in Threads : reads[u] = 0
  BY <1>1 DEF Held, Typed, Readers
<1>3. word.readers = 0
  BY <1>2, NoReaders
<1>4. Cardinality(Slots(reads, Threads)) = 0
  BY <1>3 DEF Held, WordExact
<1> QED
  BY <1>1, <1>4 DEF Held, WordExact, MutualExclusion, Zero, Slots
--------------------------------------------------------------------------------
(* The invariant is inductive: first the initial states *)

LEMMA InitIInv == Init => IInv
<1> SUFFICES ASSUME Init PROVE IInv
  OBVIOUS
<1>1. Zero \in Words
  BY DEF Zero, Words
<1>2. 0 \in 0..MaxNest
  BY NestAssumption
<1>3. Typed
  BY <1>1, <1>2, Zenon DEF Init, Typed, Locations
<1>4. Slots(reads, Threads) = {}
  BY DEF Init, Slots
<1>5. Cardinality(Slots(reads, Threads)) = 0
  BY <1>4, FS_EmptySet
<1>6. Held
  BY <1>3, <1>5 DEF Init, Held, WordExact, MutualExclusion, Zero
<1>7. AnnouncedWhileParked /\ NestedReadNeverBlocks
  BY DEF Init, AnnouncedWhileParked, NestedReadNeverBlocks, ParkedWriters, ParkedReaders
<1>8. Asking /\ Tries
  BY DEF Init, Asking, Tries, ReaderCalls
<1> QED
  BY <1>6, <1>7, <1>8 DEF IInv
--------------------------------------------------------------------------------
(* ... and the steps.  The calls that ask for a lock and those that only look at *)
(* the word change nothing of it. *)

USE DEF Locations, ReaderCalls, WriterCalls, Wakers

\* Thread t moves to l, with nothing observed or with a fresh load.
LEMMA Moved ==
  ASSUME Typed, NEW t \in Threads, NEW l \in Locations, Goto(t, l) \/ Look(t, l)
  PROVE  /\ pc' \in [Threads -> Locations]
         /\ observed' \in [Threads -> Words]
         /\ pc'[t] = l /\ observed'[t] \in {Zero, word}
         /\ Look(t, l) => observed'[t] = word
         /\ \A u \in Threads \ {t} : pc'[u] = pc[u] /\ observed'[u] = observed[u]
<1>1. Zero \in Words /\ word \in Words
  BY DEF Typed, Zero, Words
<1> QED
  BY <1>1 DEF Typed, Goto, Look

LEMMA AskInv ==
  ASSUME IInv, NEW t \in Threads, Request(t) \/ RoLoad(t) \/ RwLoad(t)
  PROVE  IInv'
<1>1. /\ reads' = reads /\ writes' = writes /\ word' = word
      /\ readerPreferring' = readerPreferring
  BY DEF Request, AcquireRo, TryRoLoad, AcquireRw, TryRwLoad, RoLoad, RwLoad
<1>2. PICK l \in Locations :
        /\ Goto(t, l) \/ Look(t, l)
        /\ l \in ReaderCalls => reads[t] < MaxNest
        /\ l = "try_ro" => Look(t, l) /\ ~BlocksReader(word)
        /\ l = "try_rw" => Look(t, l) /\ FreeForWriter(word)
        /\ l = "ro_try" => Look(t, l)
        /\ l \notin {"ro_parked", "rw_parked"} /\ pc[t] \notin Wakers
  BY NestAssumption
     DEF IInv, Held, Typed, Asking, MayRead, Request, AcquireRo, TryRoLoad, AcquireRw,
         TryRwLoad, RoLoad, RwLoad
<1>3. /\ pc' \in [Threads -> Locations]
      /\ observed' \in [Threads -> Words]
      /\ pc'[t] = l
      /\ Look(t, l) => observed'[t] = word
      /\ \A u \in Threads \ {t} : pc'[u] = pc[u] /\ observed'[u] = observed[u]
  BY <1>2, Moved DEF IInv, Held
<1>4. Held'
  <2>1. Typed'
    BY <1>1, <1>3 DEF IInv, Held, Typed
  <2> QED
    BY <1>1, <2>1, HeldKept DEF IInv
<1>5. AnnouncedWhileParked'
  BY <1>1, <1>2, <1>3 DEF IInv, AnnouncedWhileParked, ParkedReaders, ParkedWriters
<1>6. NestedReadNeverBlocks'
  <2>1. ASSUME readerPreferring, reads[t] > 0 PROVE ~BlocksReader(word)
    BY <2>1 DEF IInv, Held, WordExact, MutualExclusion, Readers, BlocksReader
  <2> QED
    BY <1>1, <1>2, <1>3, <2>1 DEF IInv, NestedReadNeverBlocks, BlocksReader
<1>7. Asking' /\ Tries'
  BY <1>1, <1>2, <1>3 DEF IInv, Asking, Tries, BlocksReader, FreeForWriter
<1> QED
  BY <1>4, <1>5, <1>6, <1>7 DEF IInv

\* What a step of t that parks nobody and keeps the announce bits leaves to show.
LEMMA ControlKept ==
  ASSUME IInv, Typed', NEW t \in Threads,
         readerPreferring' = readerPreferring,
         word.ww => word.ww', word.rp => word.rp',
         pc[t] \notin Wakers, pc'[t] \notin {"ro_parked", "rw_parked", "try_ro", "try_rw"},
         pc'[t] = "ro_try" => ~readerPreferring \/ reads'[t] = 0,
         pc'[t] \in ReaderCalls => reads'[t] < MaxNest,
         \A u \in Threads \ {t} :
           pc'[u] = pc[u] /\ observed'[u] = observed[u] /\ reads'[u] = reads[u]
  PROVE  AnnouncedWhileParked' /\ NestedReadNeverBlocks' /\ Asking' /\ Tries'
<1>1. AnnouncedWhileParked'
  BY DEF IInv, AnnouncedWhileParked, ParkedReaders, ParkedWriters
<1>2. NestedReadNeverBlocks'
  BY DEF IInv, NestedReadNeverBlocks, BlocksReader
<1>3. Asking' /\ Tries'
  BY DEF IInv, Asking, Tries, BlocksReader, FreeForWriter
<1> QED
  BY <1>1, <1>2, <1>3

\* A reader's compare-exchange succeeds: the word it observed did not block it.
LEMMA ReaderEnters ==
  ASSUME IInv, NEW t \in Threads, pc[t] \in {"ro_try", "try_ro"},
         ~BlocksReader(word),
         word' = [word EXCEPT !.readers = @ + 1],
         reads' = [reads EXCEPT ![t] = @ + 1],
         Goto(t, "idle"), writes' = writes, readerPreferring' = readerPreferring
  PROVE  IInv'
<1>1. Typed'
  <2>1. reads[t] \in 0..MaxNest /\ reads[t] < MaxNest /\ MaxNest \in Nat
    BY NestAssumption DEF IInv, Asking, Held, Typed
  <2>2. reads[t] + 1 \in 0..MaxNest
    BY <2>1
  <2>3. word' \in Words
    BY DEF IInv, Held, Typed, Words
  <2> QED
    BY <2>2, <2>3, Moved DEF IInv, Held, Typed
<1>2. Held'
  BY <1>1, ReaderIn DEF IInv, BlocksReader
<1>3. word'.ww = word.ww /\ word'.rp = word.rp
  BY DEF IInv, Held, Typed, Words
<1>4. /\ pc'[t] = "idle"
      /\ \A u \in Threads \ {t} :
           pc'[u] = pc[u] /\ observed'[u] = observed[u] /\ reads'[u] = reads[u]
  BY Moved DEF IInv, Held, Typed
<1> QED
  BY <1>1, <1>2, <1>3, <1>4, ControlKept DEF IInv

\* A writer's compare-exchange succeeds on a word with nobody inside.
LEMMA WriterEnters ==
  ASSUME IInv, NEW t \in Threads, pc[t] \in {"rw_try", "try_rw"},
         FreeForWriter(word),
         word' = WriterTakes(word), writes' = writes \cup {t},
         Goto(t, "idle"), reads' = reads, readerPreferring' = readerPreferring
  PROVE  IInv'
<1>1. Typed'
  <2>1. word' \in Words
    BY DEF IInv, Held, Typed, Words, WriterTakes
  <2> QED
    BY <2>1, Moved DEF IInv, Held, Typed
<1>2. Held'
  BY <1>1, WriterIn DEF IInv
<1>3. word'.ww = word.ww /\ word'.rp = word.rp
  BY DEF IInv, Held, Typed, Words, WriterTakes
<1>4. /\ pc'[t] = "idle"
      /\ \A u \in Threads \ {t} : pc'[u] = pc[u] /\ observed'[u] = observed[u]
  BY Moved DEF IInv, Held
<1> QED
  BY <1>1, <1>2, <1>3, <1>4, ControlKept DEF IInv

\* A compare-exchange that failed: nothing but the caller moved.
LEMMA Failed ==
  ASSUME IInv, NEW t \in Threads, NEW l \in {"idle", "ro_load", "rw_try", "rw_load"},
         Goto(t, l) \/ Look(t, l), pc[t] \notin Wakers,
         l = "ro_load" => pc[t] \in ReaderCalls,
         word' = word, reads' = reads, writes' = writes,
         readerPreferring' = readerPreferring
  PROVE  IInv'
<1>1. /\ pc' \in [Threads -> Locations] /\ observed' \in [Threads -> Words]
      /\ pc'[t] = l
      /\ \A u \in Threads \ {t} : pc'[u] = pc[u] /\ observed'[u] = observed[u]
  BY Moved DEF IInv, Held
<1>2. Typed'
  BY <1>1 DEF IInv, Held, Typed
<1>3. Held'
  BY <1>2, HeldKept DEF IInv
<1> QED
  BY <1>1, <1>2, <1>3, ControlKept DEF IInv, Asking

LEMMA CASInv ==
  ASSUME IInv, NEW t \in Threads,
         RoAdmit(t) \/ TryRoCAS(t) \/ RwAdmit(t) \/ TryRwCAS(t)
  PROVE  IInv'
<1>1. CASE RoAdmit(t)
  <2>1. CASE CASSucceeds(t)
    BY <1>1, <2>1, ReaderEnters DEF RoAdmit, CASSucceeds
  <2>2. CASE ~CASSucceeds(t)
    BY <1>1, <2>2, Failed DEF RoAdmit
  <2> QED
    BY <2>1, <2>2
<1>2. CASE TryRoCAS(t)
  <2>1. CASE CASSucceeds(t)
    BY <1>2, <2>1, ReaderEnters DEF TryRoCAS, CASSucceeds, IInv, Tries
  <2>2. CASE ~CASSucceeds(t)
    BY <1>2, <2>2, Failed DEF TryRoCAS
  <2> QED
    BY <2>1, <2>2
<1>3. CASE RwAdmit(t)
  <2>1. CASE CASSucceeds(t)
    BY <1>3, <2>1, WriterEnters DEF RwAdmit, CASSucceeds
  <2>2. CASE ~CASSucceeds(t)
    BY <1>3, <2>2, Failed DEF RwAdmit
  <2> QED
    BY <2>1, <2>2
<1>4. CASE TryRwCAS(t)
  <2>1. CASE CASSucceeds(t)
    BY <1>4, <2>1, WriterEnters DEF TryRwCAS, CASSucceeds, IInv, Tries
  <2>2. CASE ~CASSucceeds(t)
    BY <1>4, <2>2, Failed DEF TryRwCAS
  <2> QED
    BY <2>1, <2>2
<1> QED
  BY <1>1, <1>2, <1>3, <1>4
--------------------------------------------------------------------------------
(* Announcing and parking *)

LEMMA AnnounceInv ==
  ASSUME IInv, NEW t \in Threads, RoAnnounce(t) \/ RwAnnounce(t)
  PROVE  IInv'
<1>1. /\ reads' = reads /\ writes' = writes /\ readerPreferring' = readerPreferring
      /\ pc[t] \in {"ro_try", "rw_try"}
  BY DEF RoAnnounce, RwAnnounce
<1>2. /\ word' \in Words
      /\ word'.wl = word.wl /\ word'.readers = word.readers
      /\ word.ww => word'.ww
      /\ word.rp => word'.rp
  BY DEF RoAnnounce, RwAnnounce, IInv, Held, Typed, Words
<1>3. /\ pc' \in [Threads -> Locations] /\ observed' \in [Threads -> Words]
      /\ pc'[t] \in {"ro_load", "rw_try"}
      /\ pc'[t] = "ro_load" => pc[t] = "ro_try"
      /\ \A u \in Threads \ {t} : pc'[u] = pc[u] /\ observed'[u] = observed[u]
  <2>1. CASE RoAnnounce(t)
    BY <2>1, Moved DEF RoAnnounce, IInv, Held
  <2>2. CASE RwAnnounce(t)
    BY <1>2, <2>2 DEF RwAnnounce, IInv, Held, Typed
  <2> QED
    BY <2>1, <2>2
<1>4. Typed'
  BY <1>1, <1>2, <1>3 DEF IInv, Held, Typed
<1>5. Held'
  BY <1>1, <1>2, <1>4, HeldKept DEF IInv
<1> QED
  BY <1>1, <1>2, <1>3, <1>4, <1>5, ControlKept DEF IInv, Asking

\* Who parks has found its announcement in the word; a nested reader of the
\* reader-preferring lock does not get here.
LEMMA ParkInv ==
  ASSUME IInv, NEW t \in Threads, RoPark(t) \/ RwPark(t)
  PROVE  IInv'
<1>1. /\ reads' = reads /\ writes' = writes /\ word' = word
      /\ readerPreferring' = readerPreferring
      /\ pc[t] \in {"ro_try", "rw_try"}
  BY DEF RoPark, RwPark
<1>2. PICK l \in {"ro_load", "rw_load", "ro_parked", "rw_parked"} :
        /\ Goto(t, l)
        /\ l \in ReaderCalls => pc[t] = "ro_try"
        /\ l = "ro_parked" => word.rp /\ ~(readerPreferring /\ reads[t] > 0)
        /\ l = "rw_parked" => word.ww
  BY DEF RoPark, RwPark, ParksAgainst, IInv, NestedReadNeverBlocks
<1>3. /\ pc' \in [Threads -> Locations] /\ observed' \in [Threads -> Words]
      /\ pc'[t] = l
      /\ \A u \in Threads \ {t} : pc'[u] = pc[u] /\ observed'[u] = observed[u]
  BY <1>2, Moved DEF IInv, Held
<1>4. Typed'
  BY <1>1, <1>3 DEF IInv, Held, Typed
<1>5. Held'
  BY <1>1, <1>4, HeldKept DEF IInv
<1>6. AnnouncedWhileParked'
  BY <1>1, <1>2, <1>3 DEF IInv, AnnouncedWhileParked, ParkedReaders, ParkedWriters
<1>7. NestedReadNeverBlocks'
  BY <1>1, <1>2, <1>3 DEF IInv, NestedReadNeverBlocks, BlocksReader
<1>8. Asking' /\ Tries'
  BY <1>1, <1>2, <1>3 DEF IInv, Asking, Tries, BlocksReader, FreeForWriter
<1> QED
  BY <1>5, <1>6, <1>7, <1>8 DEF IInv
--------------------------------------------------------------------------------
(* Releasing, and the queue of the word *)

LEMMA ReleaseRoInv ==
  ASSUME IInv, NEW t \in Threads, ReleaseRo(t)
  PROVE  IInv'
<1>1. Cardinality(Slots(reads, Threads)) >= 1
  <2>1. word.readers \in Nat /\ word.readers # 0
    BY NoReaders DEF ReleaseRo, IInv, Held, Typed, Words
  <2> QED
    BY <2>1 DEF IInv, Held, WordExact
<1>2. word' \in Words /\ word'.ww = word.ww /\ word'.rp = word.rp
  BY <1>1 DEF ReleaseRo, IInv, Held, WordExact, Typed, Words
<1>3. /\ pc' \in [Threads -> Locations] /\ observed' \in [Threads -> Words]
      /\ pc'[t] \in {"idle", "wake_writers"}
      /\ \A u \in Threads \ {t} : pc'[u] = pc[u] /\ observed'[u] = observed[u]
  BY Moved DEF ReleaseRo, IInv, Held
<1>4. /\ reads' \in [Threads -> 0..MaxNest]
      /\ \A u \in Threads \ {t} : reads'[u] = reads[u]
  <2>1. reads[t] - 1 \in 0..MaxNest
    BY NestAssumption DEF ReleaseRo, IInv, Held, Typed
  <2> QED
    BY <2>1 DEF ReleaseRo, IInv, Held, Typed
<1>5. Typed'
  BY <1>2, <1>3, <1>4 DEF ReleaseRo, IInv, Held, Typed
<1>6. Held'
  BY <1>5, ReaderOut DEF ReleaseRo, IInv
<1> QED
  BY <1>2, <1>3, <1>4, <1>5, <1>6, ControlKept DEF ReleaseRo, IInv

\* The exchange clears the announcements: either bit sends the caller to wake
\* everyone, and without one a parked thread already has its waker.
LEMMA ReleaseRwInv ==
  ASSUME IInv, NEW t \in Threads, ReleaseRw(t)
  PROVE  IInv'
<1>1. /\ pc[t] = "idle" /\ reads' = reads /\ readerPreferring' = readerPreferring
      /\ word' = Zero /\ writes' = writes \ {t} /\ t \in writes
  BY DEF ReleaseRw
<1>2. /\ pc' \in [Threads -> Locations] /\ observed' \in [Threads -> Words]
      /\ pc'[t] = (IF word.ww \/ word.rp THEN "wake_either" ELSE "idle")
      /\ \A u \in Threads \ {t} : pc'[u] = pc[u] /\ observed'[u] = observed[u]
  <2>1. PICK l \in {"idle", "wake_either"} :
          /\ l = (IF word.ww \/ word.rp THEN "wake_either" ELSE "idle")
          /\ Goto(t, l)
    BY DEF ReleaseRw
  <2> QED
    BY <2>1, Moved DEF IInv, Held
<1>3. Typed'
  <2>1. Zero \in Words
    BY DEF Zero, Words
  <2> QED
    BY <1>1, <1>2, <2>1 DEF IInv, Held, Typed
<1>4. Held'
  BY <1>1, <1>3, WriterOut DEF IInv
<1>5. AnnouncedWhileParked'
  <2>1. CASE word.ww \/ word.rp
    BY <1>2, <2>1 DEF AnnouncedWhileParked
  <2>2. CASE ~word.ww /\ ~word.rp
    BY <1>1, <1>2, <2>2 DEF IInv, AnnouncedWhileParked, ParkedReaders, ParkedWriters
  <2> QED
    BY <2>1, <2>2
<1>6. NestedReadNeverBlocks'
  BY <1>1, <1>2 DEF IInv, NestedReadNeverBlocks, BlocksReader
<1>7. Asking' /\ Tries'
  BY <1>1, <1>2 DEF IInv, Asking, Tries, BlocksReader, FreeForWriter
<1> QED
  BY <1>4, <1>5, <1>6, <1>7 DEF IInv

\* Threads taken out of the queue look again: word and holders stay as they are.
LEMMA RearmKept ==
  ASSUME IInv, NEW W \in SUBSET (ParkedReaders \cup ParkedWriters),
         NEW t \in Threads, NEW l \in {"idle", "ro_load", "rw_load"},
         l = "ro_load" => pc[t] = "ro_parked",
         pc' = [Rearm(W) EXCEPT ![t] = l],
         UNCHANGED <<readerPreferring, word, observed, reads, writes>>
  PROVE  Held' /\ NestedReadNeverBlocks' /\ Asking' /\ Tries'
<1>1. /\ pc' \in [Threads -> Locations]
      /\ pc'[t] = l
      /\ \A u \in Threads \ {t} :
           \/ pc'[u] = pc[u]
           \/ pc'[u] = "ro_load" /\ pc[u] = "ro_parked"
           \/ pc'[u] = "rw_load"
  BY DEF Rearm, IInv, Held, Typed
<1>2. Typed'
  BY <1>1 DEF IInv, Held, Typed
<1>3. Held'
  BY <1>2, HeldKept DEF IInv
<1>4. NestedReadNeverBlocks'
  BY <1>1 DEF IInv, NestedReadNeverBlocks, BlocksReader
<1>5. Asking' /\ Tries'
  BY <1>1 DEF IInv, Asking, Tries, BlocksReader, FreeForWriter
<1> QED
  BY <1>3, <1>4, <1>5

\* The wake reaches every parked thread it was under way for.
LEMMA WakeInv ==
  ASSUME IInv, NEW t \in Threads, Wake(t)
  PROVE  IInv'
<1> DEFINE bits == IF pc[t] = "wake_writers" THEN {"writer"} ELSE {"reader", "writer"}
<1>1. PICK W \in WokenByBits(ParkedReaders \cup ParkedWriters, ListensOn, bits) :
        pc' = [Rearm(W) EXCEPT ![t] = "idle"]
  BY Zenon DEF Wake
<1>2. /\ W \in SUBSET (ParkedReaders \cup ParkedWriters)
      /\ ParkedWriters \subseteq W
      /\ pc[t] = "wake_either" => ParkedReaders \subseteq W
  BY <1>1 DEF WokenByBits, ListensOn, ParkedReaders, ParkedWriters
<1>3. Held' /\ NestedReadNeverBlocks' /\ Asking' /\ Tries'
  BY <1>1, <1>2, RearmKept DEF Wake
<1>4. AnnouncedWhileParked'
  <2>1. \A u \in Threads \ {t} :
          /\ pc[u] = "rw_parked" => pc'[u] = "rw_load"
          /\ pc[u] = "ro_parked" /\ pc[t] = "wake_either" => pc'[u] = "ro_load"
          /\ pc'[u] \in {pc[u], "ro_load", "rw_load"}
          /\ pc[u] \notin {"ro_parked", "rw_parked"} => pc'[u] = pc[u]
    BY <1>1, <1>2 DEF Rearm, ParkedReaders, ParkedWriters, IInv, Held, Typed
  <2>2. pc'[t] = "idle" /\ pc[t] \in Wakers /\ word' = word
    BY <1>1 DEF Wake, Rearm
  <2>3. ParkedWriters' = {}
    BY <2>1, <2>2 DEF ParkedWriters
  <2>4. CASE pc[t] = "wake_either"
    <3>1. ParkedReaders' = {}
      BY <2>1, <2>2, <2>4 DEF ParkedReaders
    <3> QED
      BY <2>3, <3>1 DEF AnnouncedWhileParked
  <2>5. CASE pc[t] = "wake_writers"
    BY <2>1, <2>2, <2>3, <2>5 DEF IInv, AnnouncedWhileParked, ParkedReaders
  <2> QED
    BY <2>2, <2>4, <2>5
<1> QED
  BY <1>3, <1>4 DEF IInv

LEMMA SpuriousWakeInv ==
  ASSUME IInv, NEW t \in Threads, SpuriousWake(t)
  PROVE  IInv'
<1>1. {t} \in SUBSET (ParkedReaders \cup ParkedWriters)
  BY DEF SpuriousWake, ParkedReaders, ParkedWriters
<1>2. PICK l \in {"ro_load", "rw_load"} :
        /\ l = "ro_load" => pc[t] = "ro_parked"
        /\ pc' = [Rearm({t}) EXCEPT ![t] = l]
  BY DEF SpuriousWake, Rearm
<1>3. Held' /\ NestedReadNeverBlocks' /\ Asking' /\ Tries'
  BY <1>1, <1>2, RearmKept DEF SpuriousWake
<1>4. AnnouncedWhileParked'
  BY <1>2 DEF SpuriousWake, Rearm, IInv, AnnouncedWhileParked, ParkedReaders, ParkedWriters
<1> QED
  BY <1>3, <1>4 DEF IInv
--------------------------------------------------------------------------------
(* The theorems *)

LEMMA StepInv ==
  ASSUME IInv, [Next]_vars
  PROVE  IInv'
<1>1. CASE UNCHANGED vars
  BY <1>1 DEF vars, IInv, Held, Typed, WordExact, MutualExclusion, Readers, Slots,
     AnnouncedWhileParked, ParkedReaders, ParkedWriters, NestedReadNeverBlocks,
     BlocksReader, Asking, Tries, FreeForWriter
<1>2. ASSUME NEW t \in Threads, Progress(t) \/ Release(t) \/ Request(t) \/ SpuriousWake(t)
      PROVE  IInv'
  <2>1. CASE RoLoad(t) \/ RwLoad(t) \/ Request(t)
    BY <2>1, AskInv
  <2>2. CASE RoAdmit(t) \/ TryRoCAS(t) \/ RwAdmit(t) \/ TryRwCAS(t)
    BY <2>2, CASInv
  <2>3. CASE RoAnnounce(t) \/ RwAnnounce(t)
    BY <2>3, AnnounceInv
  <2>4. CASE RoPark(t) \/ RwPark(t)
    BY <2>4, ParkInv
  <2>5. CASE ReleaseRo(t)
    BY <2>5, ReleaseRoInv
  <2>6. CASE ReleaseRw(t)
    BY <2>6, ReleaseRwInv
  <2>7. CASE Wake(t)
    BY <2>7, WakeInv
  <2>8. CASE SpuriousWake(t)
    BY <2>8, SpuriousWakeInv
  <2> QED
    BY <1>2, <2>1, <2>2, <2>3, <2>4, <2>5, <2>6, <2>7, <2>8 DEF Progress, Release
<1> QED
  BY <1>1, <1>2 DEF Next

\* Both policies of the lock (acquire, try and release, for reading and for
\* writing, parking and wake-ups) keep the inductive invariant.
THEOREM RWMutexInvariance == SafeSpec => []IInv
<1>1. Init => IInv
  BY InitIInv
<1>2. IInv /\ [Next]_vars => IInv'
  BY StepInv
<1> QED
  BY <1>1, <1>2, PTL DEF SafeSpec

\* futex_rw_mutex: a writer is alone inside, without a second writer and without a
\* reader, however the compare-exchanges of acquire_ro, acquire_rw and the two tries
\* interleave.
THEOREM RWMutualExclusion == SafeSpec => []MutualExclusion
<1>1. IInv => MutualExclusion
  BY DEF IInv, Held
<1> QED
  BY <1>1, RWMutexInvariance, PTL

\* state_ counts exactly the read locks held, nested ones included, and its writer
\* bit is set exactly while a writer is inside: no increment, decrement or exchange
\* loses an update of another thread.
THEOREM RWWordExact == SafeSpec => []WordExact
<1>1. IInv => WordExact
  BY DEF IInv, Held
<1> QED
  BY <1>1, RWMutexInvariance, PTL

\* release_rw's no-waiter fast path and release_ro's test of writer_waiting_bit lose
\* nobody: a parked thread is announced in the word, or the wake that reaches it is
\* under way.
THEOREM RWAnnouncedWhileParked == SafeSpec => []AnnouncedWhileParked
<1>1. IInv => AnnouncedWhileParked
  BY DEF IInv
<1> QED
  BY <1>1, RWMutexInvariance, PTL

\* reader_preferring_futex_rw_mutex: a thread that takes a read lock it already holds
\* never parks, even behind a writer that has announced itself.
THEOREM RWNestedReadNeverBlocks == SafeSpec => []NestedReadNeverBlocks
<1>1. IInv => NestedReadNeverBlocks
  BY DEF IInv
<1> QED
  BY <1>1, RWMutexInvariance, PTL
--------------------------------------------------------------------------------
(* The mutexes over the operating system's lock *)

\* Counting is the same in the instance.
LEMMA OsSame == \A S : OverOs!Cardinality(S) = Cardinality(S)
BY DEF OverOs!Cardinality, Cardinality

OsHolds == [mutex : Mutexes, depth : Nat]

OsLocks == [readers : [Threads -> Nat], writer : SUBSET Threads,
          rdBlocked : SUBSET Threads, wrBlocked : SUBSET Threads]

OsTyped ==
  /\ kind \in [Mutexes -> OverOs!Kinds]
  /\ held \in [Threads -> Seq(OsHolds)]
  /\ os \in [Mutexes -> OsLocks]
  /\ holds \in [Threads -> [Mutexes -> Nat]]

\* The registry h has exactly the depths d, one entry for each that is not zero.
OsRegisters(h, d) ==
  /\ h \in Seq(OsHolds)
  /\ \A i, j \in 1..Len(h) : h[i].mutex = h[j].mutex => i = j
  /\ \A i \in 1..Len(h) : h[i].depth = d[h[i].mutex] /\ h[i].depth > 0
  /\ \A m \in Mutexes : d[m] > 0 => \E i \in 1..Len(h) : h[i].mutex = m

OsAsked(t, m) == IF t \in os[m].rdBlocked THEN 1 ELSE 0

\* What t's registry should say.
OsWanted(t) == [m \in Mutexes |-> IF kind[m] = "reader" THEN 0 ELSE holds[t][m] + OsAsked(t, m)]

\* The registry, the lock underneath, and who is blocked in it.
OsIInv ==
  /\ OsTyped
  /\ \A t \in Threads : OsRegisters(held[t], OsWanted(t))
  /\ \A t \in Threads, m \in Mutexes :
       /\ os[m].readers[t] = IF kind[m] = "reader" \/ holds[t][m] = 0 THEN holds[t][m] ELSE 1
       /\ t \in os[m].rdBlocked => kind[m] = "reader" \/ holds[t][m] = 0
       /\ os[m].writer # {} => os[m].readers[t] = 0
--------------------------------------------------------------------------------
(* The registry by itself *)

LEMMA OsBumped ==
  ASSUME NEW d \in [Mutexes -> Nat], NEW h, OsRegisters(h, d),
         NEW i \in 1..Len(h), NEW n \in {-1, 1}, h[i].depth + n > 0
  PROVE  OsRegisters([h EXCEPT ![i].depth = @ + n], [d EXCEPT ![h[i].mutex] = @ + n])
<1> DEFINE g == [h EXCEPT ![i].depth = @ + n]
           e == [d EXCEPT ![h[i].mutex] = @ + n]
<1>1. h \in Seq(OsHolds) /\ Len(h) \in Nat /\ \A j \in 1..Len(h) : h[j] \in OsHolds
  BY DEF OsRegisters
<1>2. h[i].mutex \in Mutexes /\ h[i].depth \in Nat /\ h[i].depth + n \in Nat
  <2>1. h[i].mutex \in Mutexes /\ h[i].depth \in Nat
    BY <1>1 DEF OsHolds
  <2> QED
    BY <2>1
<1>3. /\ g \in Seq(OsHolds) /\ Len(g) = Len(h)
      /\ \A j \in 1..Len(h) : j # i => g[j] = h[j]
      /\ g[i].mutex = h[i].mutex /\ g[i].depth = h[i].depth + n
  <2>1. PICK x \in OsHolds : x = [h[i] EXCEPT !.depth = @ + n]
    BY <1>1, <1>2 DEF OsHolds
  <2>2. x.mutex = h[i].mutex /\ x.depth = h[i].depth + n
    BY <1>1, <2>1 DEF OsHolds
  <2>3. g = [h EXCEPT ![i] = x]
    BY <2>1
  <2> HIDE DEF g
  <2>4. g \in Seq(OsHolds) /\ Len(g) = Len(h)
    BY <1>1, <2>3
  <2>5. \A j \in 1..Len(h) : g[j] = IF j = i THEN x ELSE h[j]
    BY <1>1, <2>3
  <2> QED
    BY <2>2, <2>4, <2>5
<1>4. \A m \in Mutexes : e[m] = IF m = h[i].mutex THEN d[m] + n ELSE d[m]
  OBVIOUS
<1> HIDE DEF g, e
<1>5. \A j \in 1..Len(h) : g[j].mutex = h[j].mutex
  BY <1>3
<1>6. \A j, k \in 1..Len(g) : g[j].mutex = g[k].mutex => j = k
  BY <1>3, <1>5 DEF OsRegisters
<1>7. ASSUME NEW j \in 1..Len(g) PROVE g[j].depth = e[g[j].mutex] /\ g[j].depth > 0
  <2>1. j \in 1..Len(h) /\ h[j].mutex \in Mutexes
    BY <1>1, <1>3 DEF OsHolds
  <2>2. CASE j = i
    BY <1>2, <1>3, <1>4, <2>2 DEF OsRegisters
  <2>3. CASE j # i
    <3>1. h[j].mutex # h[i].mutex
      BY <2>1, <2>3 DEF OsRegisters
    <3> QED
      BY <1>3, <1>4, <2>1, <2>3, <3>1 DEF OsRegisters
  <2> QED
    BY <2>2, <2>3
<1>8. ASSUME NEW m \in Mutexes, e[m] > 0 PROVE \E j \in 1..Len(g) : g[j].mutex = m
  <2>1. \E j \in 1..Len(h) : h[j].mutex = m
    <3>1. CASE m = h[i].mutex
      BY <3>1
    <3>2. CASE m # h[i].mutex
      BY <1>4, <1>8, <3>2 DEF OsRegisters
    <3> QED
      BY <3>1, <3>2
  <2> QED
    BY <1>3, <1>5, <2>1
<1>9. OsRegisters(g, e)
  BY <1>3, <1>6, <1>7, <1>8 DEF OsRegisters
<1> QED
  BY <1>9 DEF g, e

LEMMA OsNoted ==
  ASSUME NEW d \in [Mutexes -> Nat], NEW h, OsRegisters(h, d),
         NEW m \in Mutexes, d[m] = 0
  PROVE  OsRegisters(Append(h, [mutex |-> m, depth |-> 1]), [d EXCEPT ![m] = 1])
<1> DEFINE g == Append(h, [mutex |-> m, depth |-> 1])
           e == [d EXCEPT ![m] = 1]
<1>1. h \in Seq(OsHolds) /\ [mutex |-> m, depth |-> 1] \in OsHolds
  BY DEF OsRegisters, OsHolds
<1>2. /\ g \in Seq(OsHolds) /\ Len(g) = Len(h) + 1 /\ Len(h) \in Nat
      /\ g[Len(h) + 1] = [mutex |-> m, depth |-> 1]
      /\ \A j \in 1..Len(h) : g[j] = h[j] /\ h[j] \in OsHolds
  BY <1>1
<1>3. \A n \in Mutexes : e[n] = IF n = m THEN 1 ELSE d[n]
  OBVIOUS
<1>4. \A j \in 1..Len(h) : h[j].mutex # m
  BY DEF OsRegisters
<1> HIDE DEF g, e
<1>5. \A j \in 1..Len(g) : j \in 1..Len(h) \/ j = Len(h) + 1
  BY <1>2
<1>6. /\ \A j, k \in 1..Len(g) : g[j].mutex = g[k].mutex => j = k
      /\ \A j \in 1..Len(g) : g[j].depth = e[g[j].mutex] /\ g[j].depth > 0
  <2>1. g[Len(h) + 1].mutex = m /\ g[Len(h) + 1].depth = 1
    BY <1>2
  <2>2. \A j, k \in 1..Len(g) : g[j].mutex = g[k].mutex => j = k
    BY <1>2, <1>4, <1>5, <2>1 DEF OsRegisters
  <2>3. ASSUME NEW j \in 1..Len(h) PROVE g[j].depth = e[g[j].mutex] /\ g[j].depth > 0
    <3>1. g[j] = h[j] /\ h[j].mutex \in Mutexes /\ h[j].mutex # m
      BY <1>2, <1>4 DEF OsHolds
    <3>2. h[j].depth = d[h[j].mutex] /\ h[j].depth > 0
      BY DEF OsRegisters
    <3> QED
      BY <1>3, <3>1, <3>2
  <2> QED
    BY <1>3, <1>5, <2>1, <2>2, <2>3
<1>7. \A n \in Mutexes : e[n] > 0 => \E j \in 1..Len(g) : g[j].mutex = n
  <2>1. 1..Len(h) \subseteq 1..Len(g) /\ Len(h) + 1 \in 1..Len(g)
    BY <1>2
  <2> QED
    BY SMTT(30), <1>2, <1>3, <2>1 DEF OsRegisters
<1>8. OsRegisters(g, e)
  BY <1>2, <1>6, <1>7 DEF OsRegisters
<1> QED
  BY <1>8 DEF g, e

\* The last entry takes the place of the removed one.
LEMMA OsRemoved ==
  ASSUME NEW d \in [Mutexes -> Nat], NEW h, OsRegisters(h, d), NEW i \in 1..Len(h)
  PROVE  OsRegisters(SubSeq([h EXCEPT ![i] = h[Len(h)]], 1, Len(h) - 1),
                   [d EXCEPT ![h[i].mutex] = 0])
<1> DEFINE f == [h EXCEPT ![i] = h[Len(h)]]
           g == SubSeq(f, 1, Len(h) - 1)
           e == [d EXCEPT ![h[i].mutex] = 0]
<1>1. h \in Seq(OsHolds) /\ Len(h) \in Nat /\ Len(h) \in 1..Len(h)
      /\ \A j \in 1..Len(h) : h[j] \in OsHolds
  BY DEF OsRegisters
<1>2. f \in Seq(OsHolds) /\ Len(f) = Len(h)
      /\ \A j \in 1..Len(h) : f[j] = IF j = i THEN h[Len(h)] ELSE h[j]
  BY <1>1
<1> HIDE DEF f
<1>3. /\ g \in Seq(OsHolds) /\ Len(g) = Len(h) - 1
      /\ \A j \in 1..(Len(h) - 1) : g[j] = f[j]
  BY <1>1, <1>2, SubSeqProperties
<1>4. \A m \in Mutexes : e[m] = IF m = h[i].mutex THEN 0 ELSE d[m]
  OBVIOUS
<1> HIDE DEF g, e
<1>5. \A j \in 1..Len(g) : j \in 1..Len(h) /\ j # Len(h)
                           /\ g[j] = (IF j = i THEN h[Len(h)] ELSE h[j])
  <2> SUFFICES ASSUME NEW j \in 1..Len(g)
               PROVE  /\ j \in 1..Len(h) /\ j # Len(h)
                      /\ g[j] = (IF j = i THEN h[Len(h)] ELSE h[j])
    OBVIOUS
  <2>1. j \in 1..(Len(h) - 1) /\ j \in 1..Len(h) /\ j # Len(h)
    BY <1>1, <1>3
  <2> QED
    BY <1>2, <1>3, <2>1
<1>6. /\ \A j, k \in 1..Len(g) : g[j].mutex = g[k].mutex => j = k
      /\ \A j \in 1..Len(g) : g[j].mutex # h[i].mutex
  BY SMTT(30), <1>1, <1>5 DEF OsRegisters
<1>7. ASSUME NEW j \in 1..Len(g) PROVE g[j].depth = e[g[j].mutex] /\ g[j].depth > 0
  <2>1. PICK k \in 1..Len(h) : g[j] = h[k]
    BY <1>1, <1>5
  <2>2. h[k].mutex \in Mutexes /\ h[k].mutex # h[i].mutex
    BY <1>1, <1>6, <2>1 DEF OsHolds
  <2>3. h[k].depth = d[h[k].mutex] /\ h[k].depth > 0
    BY DEF OsRegisters
  <2> QED
    BY <1>4, <2>1, <2>2, <2>3
<1>8. ASSUME NEW m \in Mutexes, e[m] > 0 PROVE \E j \in 1..Len(g) : g[j].mutex = m
  <2>1. PICK j \in 1..Len(h) : h[j].mutex = m /\ j # i
    BY <1>4, <1>8 DEF OsRegisters
  <2>2. CASE j = Len(h)
    <3>1. i \in 1..Len(g)
      BY <1>1, <1>3, <2>1, <2>2
    <3> QED
      BY <1>5, <2>1, <2>2, <3>1
  <2>3. CASE j # Len(h)
    <3>1. j \in 1..Len(g)
      BY <1>1, <1>3, <2>3
    <3> QED
      BY <1>5, <2>1, <3>1
  <2> QED
    BY <2>2, <2>3
<1>9. OsRegisters(g, e)
  BY <1>3, <1>6, <1>7, <1>8 DEF OsRegisters
<1> QED
  BY <1>9 DEF g, e, f
--------------------------------------------------------------------------------
(* The steps.  What each does to the lock underneath, to the reads and to the *)
(* registry, is said for the one mutex and the one thread that it is about.   *)

\* Everything but what mutex m and thread t have to do with each other.
OsOthersKept(t, m) ==
  /\ \A n \in Mutexes \ {m} : os'[n] = os[n]
  /\ \A u \in Threads : \A n \in Mutexes : u # t \/ n # m => holds'[u][n] = holds[u][n]
  /\ \A u \in Threads \ {t} : /\ held'[u] = held[u]
                              /\ os'[m].readers[u] = os[m].readers[u]
                              /\ u \in os'[m].rdBlocked <=> u \in os[m].rdBlocked

\* A step on m by t keeps the invariant if it keeps it for the two of them.
LEMMA OsLocal ==
  ASSUME OsIInv, OsTyped', NEW t \in Threads, NEW m \in Mutexes, OsOthersKept(t, m), kind' = kind,
         OsRegisters(held'[t], [OsWanted(t) EXCEPT ![m] = OsWanted(t)'[m]]),
         os'[m].readers[t] = (IF kind[m] = "reader" \/ holds'[t][m] = 0 THEN holds'[t][m] ELSE 1),
         t \in os'[m].rdBlocked => kind[m] = "reader" \/ holds'[t][m] = 0,
         os'[m].writer # {} => \A u \in Threads : os'[m].readers[u] = 0
  PROVE  OsIInv'
<1>1. ASSUME NEW u \in Threads \ {t} PROVE OsWanted(u)' = OsWanted(u)
  <2>1. ASSUME NEW n \in Mutexes PROVE holds'[u][n] = holds[u][n] /\ OsAsked(u, n)' = OsAsked(u, n)
    BY DEF OsOthersKept, OsAsked
  <2> QED
    BY <2>1 DEF OsWanted
<1>2. OsWanted(t)' = [OsWanted(t) EXCEPT ![m] = OsWanted(t)'[m]]
  <2>1. ASSUME NEW n \in Mutexes \ {m}
        PROVE  holds'[t][n] = holds[t][n] /\ OsAsked(t, n)' = OsAsked(t, n)
    BY DEF OsOthersKept, OsAsked
  <2> QED
    BY <2>1 DEF OsWanted
<1>3. \A u \in Threads : OsRegisters(held[u], OsWanted(u))'
  <2>1. ASSUME NEW u \in Threads \ {t} PROVE OsRegisters(held'[u], OsWanted(u)')
    BY <1>1 DEF OsIInv, OsOthersKept
  <2>2. OsRegisters(held'[t], OsWanted(t)')
    BY <1>2
  <2> QED
    BY <2>1, <2>2 DEF OsRegisters
<1>4. ASSUME NEW u \in Threads, NEW n \in Mutexes
      PROVE  /\ os'[n].readers[u] =
                  IF kind[n] = "reader" \/ holds'[u][n] = 0 THEN holds'[u][n] ELSE 1
             /\ u \in os'[n].rdBlocked => kind[n] = "reader" \/ holds'[u][n] = 0
             /\ os'[n].writer # {} => os'[n].readers[u] = 0
  BY DEF OsIInv, OsOthersKept
<1> QED
  BY <1>3, <1>4 DEF OsIInv

\* What the invariant says of one thread and one mutex.
LEMMA OsShape ==
  ASSUME OsIInv, NEW t \in Threads, NEW m \in Mutexes
  PROVE  /\ os[m] \in OsLocks /\ holds[t][m] \in Nat /\ kind[m] \in OverOs!Kinds
         /\ held[t] \in Seq(OsHolds) /\ OsRegisters(held[t], OsWanted(t))
         /\ OsWanted(t) \in [Mutexes -> Nat]
         /\ OsWanted(t)[m] = IF kind[m] = "reader" THEN 0 ELSE holds[t][m] + OsAsked(t, m)
         /\ OsAsked(t, m) \in {0, 1}
         /\ OsAsked(t, m) = 1 <=> t \in os[m].rdBlocked
         /\ \A i \in OverOs!Entry(t, m) : /\ i \in 1..Len(held[t])
                                   /\ held[t][i].mutex = m
                                   /\ held[t][i].depth = OsWanted(t)[m]
                                   /\ OsWanted(t)[m] > 0
         /\ OverOs!Entry(t, m) = {} => OsWanted(t)[m] = 0
<1>1. /\ os[m] \in OsLocks /\ holds[t][m] \in Nat /\ kind[m] \in OverOs!Kinds
      /\ held[t] \in Seq(OsHolds) /\ OsRegisters(held[t], OsWanted(t))
      /\ \A n \in Mutexes : holds[t][n] \in Nat /\ OsAsked(t, n) \in {0, 1}
      /\ OsAsked(t, m) = 1 <=> t \in os[m].rdBlocked
  BY DEF OsIInv, OsTyped, OsAsked
<1>2. /\ OsWanted(t) \in [Mutexes -> Nat]
      /\ OsWanted(t)[m] = IF kind[m] = "reader" THEN 0 ELSE holds[t][m] + OsAsked(t, m)
  BY <1>1 DEF OsWanted
<1>3. OverOs!Entry(t, m) = {i \in 1..Len(held[t]) : held[t][i].mutex = m}
  BY <1>1 DEF OverOs!Entry
<1> QED
  BY SMTT(30), <1>1, <1>2, <1>3 DEF OsRegisters

\* The three ways a read lock's entry changes.
LEMMA OsBumpStep ==
  ASSUME OsIInv, NEW t \in Threads, NEW m \in Mutexes, NEW i \in OverOs!Entry(t, m),
         NEW n \in {-1, 1}, OsWanted(t)[m] + n > 0, OverOs!Bump(t, i, n)
  PROVE  /\ OsRegisters(held'[t], [OsWanted(t) EXCEPT ![m] = @ + n])
         /\ held' \in [Threads -> Seq(OsHolds)]
         /\ \A u \in Threads \ {t} : held'[u] = held[u]
<1>1. held'[t] = [held[t] EXCEPT ![i].depth = @ + n] /\ \A u \in Threads \ {t} : held'[u] = held[u]
  BY DEF OverOs!Bump, OsIInv, OsTyped
<1>2. OsRegisters(held'[t], [OsWanted(t) EXCEPT ![m] = @ + n])
  <2>1. /\ OsRegisters(held[t], OsWanted(t)) /\ OsWanted(t) \in [Mutexes -> Nat]
        /\ i \in 1..Len(held[t]) /\ held[t][i].mutex = m /\ held[t][i].depth + n > 0
    BY OsShape
  <2>2. OsRegisters([held[t] EXCEPT ![i].depth = @ + n],
                    [OsWanted(t) EXCEPT ![held[t][i].mutex] = @ + n])
    BY <2>1, OsBumped
  <2> QED
    BY <1>1, <2>1, <2>2
<1>3. held'[t] \in Seq(OsHolds)
  BY <1>2 DEF OsRegisters
<1> QED
  BY <1>1, <1>2, <1>3 DEF OverOs!Bump, OsIInv, OsTyped

LEMMA OsNoteStep ==
  ASSUME OsIInv, NEW t \in Threads, NEW m \in Mutexes, OverOs!Entry(t, m) = {},
         OverOs!NoteFirst(t, m)
  PROVE  /\ OsRegisters(held'[t], [OsWanted(t) EXCEPT ![m] = 1])
         /\ held' \in [Threads -> Seq(OsHolds)]
         /\ \A u \in Threads \ {t} : held'[u] = held[u]
<1>1. /\ held'[t] = Append(held[t], [mutex |-> m, depth |-> 1])
      /\ \A u \in Threads \ {t} : held'[u] = held[u]
  BY DEF OverOs!NoteFirst, OsIInv, OsTyped
<1>2. OsRegisters(held'[t], [OsWanted(t) EXCEPT ![m] = 1])
  BY <1>1, OsShape, OsNoted
<1>3. held'[t] \in Seq(OsHolds)
  BY <1>2 DEF OsRegisters
<1> QED
  BY <1>1, <1>2, <1>3 DEF OverOs!NoteFirst, OsIInv, OsTyped

LEMMA OsRemoveStep ==
  ASSUME OsIInv, NEW t \in Threads, NEW m \in Mutexes, NEW i \in OverOs!Entry(t, m),
         OverOs!Remove(t, i)
  PROVE  /\ OsRegisters(held'[t], [OsWanted(t) EXCEPT ![m] = 0])
         /\ held' \in [Threads -> Seq(OsHolds)]
         /\ \A u \in Threads \ {t} : held'[u] = held[u]
<1>1. /\ held'[t] = SubSeq([held[t] EXCEPT ![i] = held[t][Len(held[t])]], 1, Len(held[t]) - 1)
      /\ \A u \in Threads \ {t} : held'[u] = held[u]
  BY DEF OverOs!Remove, OsIInv, OsTyped
<1>2. OsRegisters(held'[t], [OsWanted(t) EXCEPT ![m] = 0])
  <2>1. /\ OsRegisters(held[t], OsWanted(t)) /\ OsWanted(t) \in [Mutexes -> Nat]
        /\ i \in 1..Len(held[t]) /\ held[t][i].mutex = m
    BY OsShape
  <2>2. OsRegisters(SubSeq([held[t] EXCEPT ![i] = held[t][Len(held[t])]], 1, Len(held[t]) - 1),
                  [OsWanted(t) EXCEPT ![held[t][i].mutex] = 0])
    BY <2>1, OsRemoved
  <2> QED
    BY <1>1, <2>1, <2>2
<1>3. held'[t] \in Seq(OsHolds)
  BY <1>2 DEF OsRegisters
<1> QED
  BY <1>1, <1>2, <1>3 DEF OverOs!Remove, OsIInv, OsTyped

\* A read lock given or returned.
LEMMA OsGivenStep ==
  ASSUME OsIInv, NEW t \in Threads, NEW m \in Mutexes, NEW n \in {-1, 1},
         holds[t][m] + n >= 0, OverOs!Given(t, m, n)
  PROVE  /\ holds' \in [Threads -> [Mutexes -> Nat]]
         /\ holds'[t][m] = holds[t][m] + n
         /\ \A u \in Threads : \A k \in Mutexes : u # t \/ k # m => holds'[u][k] = holds[u][k]
BY DEF OverOs!Given, OsIInv, OsTyped

LEMMA OsOsReadsStep ==
  ASSUME OsIInv, NEW t \in Threads, NEW m \in Mutexes, NEW n \in {-1, 1},
         os[m].readers[t] + n >= 0, OverOs!OsReads(t, m, n)
  PROVE  /\ os' \in [Mutexes -> OsLocks]
         /\ os'[m].readers[t] = os[m].readers[t] + n
         /\ os'[m].writer = os[m].writer /\ os'[m].rdBlocked = os[m].rdBlocked
         /\ \A u \in Threads \ {t} : os'[m].readers[u] = os[m].readers[u]
         /\ \A k \in Mutexes \ {m} : os'[k] = os[k]
<1>1. os[m] \in OsLocks /\ os[m].readers \in [Threads -> Nat]
  BY OsShape DEF OsLocks
<1>2. [os[m].readers EXCEPT ![t] = @ + n] \in [Threads -> Nat]
  BY <1>1
<1>3. os' = [os EXCEPT ![m] = [os[m] EXCEPT !.readers = [os[m].readers EXCEPT ![t] = @ + n]]]
  BY DEF OverOs!OsReads
<1>4. [os[m] EXCEPT !.readers = [os[m].readers EXCEPT ![t] = @ + n]] \in OsLocks
  BY <1>1, <1>2 DEF OsLocks
<1>5. os'[m] = [os[m] EXCEPT !.readers = [os[m].readers EXCEPT ![t] = @ + n]]
  BY <1>3 DEF OsIInv, OsTyped
<1> QED
  BY <1>1, <1>3, <1>4, <1>5 DEF OsIInv, OsTyped, OsLocks
--------------------------------------------------------------------------------
(* The read locks *)

\* A nested read: only the entry's depth and the reads change, up or down.
LEMMA OsNestedInv ==
  ASSUME OsIInv, NEW t \in Threads, NEW m \in Mutexes, NEW i \in OverOs!Entry(t, m),
         NEW n \in {-1, 1}, t \notin os[m].rdBlocked, OsWanted(t)[m] + n > 0,
         OverOs!Bump(t, i, n), OverOs!Given(t, m, n), os' = os, kind' = kind
  PROVE  OsIInv'
<1>1. /\ OsWanted(t)[m] = holds[t][m] /\ kind[m] # "reader" /\ holds[t][m] \in Nat
      /\ holds[t][m] > 0 /\ OsAsked(t, m) = 0
  BY OsShape DEF OsAsked
<1>2. holds'[t][m] = holds[t][m] + n /\ holds'[t][m] > 0
  BY <1>1, OsGivenStep
<1>3. /\ holds' \in [Threads -> [Mutexes -> Nat]]
      /\ \A u \in Threads : \A k \in Mutexes : u # t \/ k # m => holds'[u][k] = holds[u][k]
  BY <1>1, OsGivenStep
<1>4. /\ held' \in [Threads -> Seq(OsHolds)]
      /\ \A u \in Threads \ {t} : held'[u] = held[u]
      /\ OsRegisters(held'[t], [OsWanted(t) EXCEPT ![m] = @ + n])
  BY OsBumpStep
<1>5. OsTyped' /\ OsOthersKept(t, m)
  BY <1>3, <1>4 DEF OsIInv, OsTyped, OsOthersKept
<1>6. OsWanted(t)'[m] = OsWanted(t)[m] + n
  BY <1>1, <1>2 DEF OsWanted, OsAsked
<1>7. OsRegisters(held'[t], [OsWanted(t) EXCEPT ![m] = OsWanted(t)'[m]])
  BY <1>4, <1>6
<1>8. os'[m].readers[t] = (IF kind[m] = "reader" \/ holds'[t][m] = 0 THEN holds'[t][m] ELSE 1)
  BY <1>1, <1>2 DEF OsIInv
<1>9. /\ t \in os'[m].rdBlocked => kind[m] = "reader" \/ holds'[t][m] = 0
      /\ os'[m].writer # {} => \A u \in Threads : os'[m].readers[u] = 0
  BY DEF OsIInv
<1> QED
  BY <1>5, <1>7, <1>8, <1>9, OsLocal

\* A thread asks the lock underneath, and its registry, if it has one, notes it.
LEMMA OsAskInv ==
  ASSUME OsIInv, NEW t \in Threads, NEW m \in Mutexes, OverOs!Entry(t, m) = {},
         IF kind[m] = "reader" THEN UNCHANGED held ELSE OverOs!NoteFirst(t, m),
         os' = [os EXCEPT ![m].rdBlocked = @ \cup {t}], holds' = holds, kind' = kind
  PROVE  OsIInv'
<1>1. /\ os' \in [Mutexes -> OsLocks]
      /\ os'[m].rdBlocked = os[m].rdBlocked \cup {t}
      /\ os'[m].readers = os[m].readers /\ os'[m].writer = os[m].writer
      /\ \A k \in Mutexes \ {m} : os'[k] = os[k]
  <2> DEFINE r == [os[m] EXCEPT !.rdBlocked = os[m].rdBlocked \cup {t}]
  <2>1. os' = [os EXCEPT ![m] = r]
    OBVIOUS
  <2>2. /\ r \in OsLocks /\ r.readers = os[m].readers /\ r.writer = os[m].writer
        /\ r.rdBlocked = os[m].rdBlocked \cup {t}
    <3>1. os[m] \in OsLocks
      BY OsShape
    <3> QED
      BY <3>1 DEF OsLocks
  <2> HIDE DEF r
  <2>3. os'[m] = r
    BY <2>1 DEF OsIInv, OsTyped
  <2> QED
    BY <2>1, <2>2, <2>3 DEF OsIInv, OsTyped
<1>2. /\ OsWanted(t)[m] = 0 /\ OsWanted(t) \in [Mutexes -> Nat] /\ holds[t][m] \in Nat
      /\ kind[m] = "reader" \/ holds[t][m] = 0
      /\ OsRegisters(held[t], OsWanted(t))
  BY OsShape
<1>3. OsWanted(t)'[m] = IF kind[m] = "reader" THEN 0 ELSE 1
  BY <1>1, <1>2 DEF OsWanted, OsAsked
<1>4. /\ held' \in [Threads -> Seq(OsHolds)]
      /\ \A u \in Threads \ {t} : held'[u] = held[u]
      /\ OsRegisters(held'[t], [OsWanted(t) EXCEPT ![m] = OsWanted(t)'[m]])
  <2>1. CASE kind[m] = "reader"
    <3>1. [OsWanted(t) EXCEPT ![m] = OsWanted(t)'[m]] = OsWanted(t)
      BY <1>2, <1>3, <2>1
    <3> QED
      BY <1>2, <2>1, <3>1 DEF OsIInv, OsTyped
  <2>2. CASE kind[m] # "reader"
    BY <1>3, <2>2, OsNoteStep
  <2> QED
    BY <2>1, <2>2
<1>5. OsTyped' /\ OsOthersKept(t, m)
  BY <1>1, <1>4 DEF OsIInv, OsTyped, OsOthersKept
<1>6. os'[m].readers[t] = (IF kind[m] = "reader" \/ holds'[t][m] = 0 THEN holds'[t][m] ELSE 1)
  BY <1>1 DEF OsIInv
<1>7. /\ t \in os'[m].rdBlocked => kind[m] = "reader" \/ holds'[t][m] = 0
      /\ os'[m].writer # {} => \A u \in Threads : os'[m].readers[u] = 0
  BY <1>1, <1>2 DEF OsIInv
<1> QED
  BY <1>4, <1>5, <1>6, <1>7, OsLocal

\* The lock underneath lets a reader in, who had asked for it and waited.
LEMMA OsReaderInInv ==
  ASSUME OsIInv, NEW t \in Threads, NEW m \in Mutexes, OverOs!OsReaderIn(t, m), kind' = kind
  PROVE  OsIInv'
<1>1. t \in os[m].rdBlocked /\ os[m].writer = {} /\ held' = held
  BY DEF OverOs!OsReaderIn, OverOs!OsFreeForReader
<1>2. /\ os[m] \in OsLocks /\ holds[t][m] \in Nat /\ os[m].readers \in [Threads -> Nat]
      /\ kind[m] = "reader" \/ holds[t][m] = 0
      /\ OsRegisters(held[t], OsWanted(t)) /\ OsWanted(t) \in [Mutexes -> Nat]
  BY <1>1, OsShape DEF OsIInv, OsLocks
<1>3. /\ os' \in [Mutexes -> OsLocks]
      /\ os'[m].readers[t] = os[m].readers[t] + 1
      /\ os'[m].writer = {} /\ os'[m].rdBlocked = os[m].rdBlocked \ {t}
      /\ \A u \in Threads \ {t} : os'[m].readers[u] = os[m].readers[u]
      /\ \A k \in Mutexes \ {m} : os'[k] = os[k]
  <2> DEFINE f == [os[m].readers EXCEPT ![t] = os[m].readers[t] + 1]
             r == [os[m] EXCEPT !.rdBlocked = os[m].rdBlocked \ {t}, !.readers = f]
  <2>1. os' = [os EXCEPT ![m] = r]
    BY DEF OverOs!OsReaderIn
  <2>2. f \in [Threads -> Nat] /\ f[t] = os[m].readers[t] + 1
        /\ \A u \in Threads \ {t} : f[u] = os[m].readers[u]
    BY <1>2
  <2> HIDE DEF f
  <2>3. /\ r \in OsLocks /\ r.readers = f /\ r.writer = os[m].writer
        /\ r.rdBlocked = os[m].rdBlocked \ {t}
    BY <1>2, <2>2 DEF OsLocks
  <2> HIDE DEF r
  <2>4. os'[m] = r
    BY <2>1 DEF OsIInv, OsTyped
  <2> QED
    BY <1>1, <2>1, <2>2, <2>3, <2>4 DEF OsIInv, OsTyped
<1>4. /\ holds' \in [Threads -> [Mutexes -> Nat]] /\ holds'[t][m] = holds[t][m] + 1
      /\ \A u \in Threads : \A k \in Mutexes : u # t \/ k # m => holds'[u][k] = holds[u][k]
  BY <1>2, OsGivenStep DEF OverOs!OsReaderIn
<1>5. OsWanted(t)'[m] = OsWanted(t)[m]
  BY <1>1, <1>2, <1>3, <1>4 DEF OsWanted, OsAsked
<1>6. OsRegisters(held'[t], [OsWanted(t) EXCEPT ![m] = OsWanted(t)'[m]])
  <2>1. [OsWanted(t) EXCEPT ![m] = OsWanted(t)'[m]] = OsWanted(t)
    BY <1>2, <1>5
  <2> QED
    BY <1>1, <1>2, <2>1
<1>7. OsTyped' /\ OsOthersKept(t, m)
  BY <1>1, <1>3, <1>4 DEF OsIInv, OsTyped, OsOthersKept
<1>8. os[m].readers[t] = holds[t][m]
  BY <1>2 DEF OsIInv
<1>9. os'[m].readers[t] = (IF kind[m] = "reader" \/ holds'[t][m] = 0 THEN holds'[t][m] ELSE 1)
  BY <1>2, <1>3, <1>4, <1>8
<1>10. /\ t \in os'[m].rdBlocked => kind[m] = "reader" \/ holds'[t][m] = 0
       /\ os'[m].writer # {} => \A u \in Threads : os'[m].readers[u] = 0
  BY <1>3
<1> QED
  BY <1>6, <1>7, <1>9, <1>10, OsLocal

\* A read lock that t gets (n = 1) or gives back (n = -1) together with the lock
\* underneath, its only one or one of a lock that prefers readers.
LEMMA OsDirectInv ==
  ASSUME OsIInv, NEW t \in Threads, NEW m \in Mutexes, NEW n \in {-1, 1},
         t \notin os[m].rdBlocked,
         n = 1 => os[m].writer = {},
         holds[t][m] + n >= 0,
         kind[m] # "reader" => holds[t][m] \in {0, 1} /\ holds[t][m] + n \in {0, 1},
         OverOs!Given(t, m, n), OverOs!OsReads(t, m, n), kind' = kind,
         held' \in [Threads -> Seq(OsHolds)],
         \A u \in Threads \ {t} : held'[u] = held[u],
         IF kind[m] = "reader" THEN held'[t] = held[t]
         ELSE OsRegisters(held'[t], [OsWanted(t) EXCEPT ![m] = holds[t][m] + n])
  PROVE  OsIInv'
<1>1. /\ holds[t][m] \in Nat /\ OsWanted(t) \in [Mutexes -> Nat]
      /\ OsRegisters(held[t], OsWanted(t))
      /\ OsWanted(t)[m] = IF kind[m] = "reader" THEN 0 ELSE holds[t][m] + OsAsked(t, m)
  BY OsShape
<1>2. os[m].readers[t] = holds[t][m]
  BY <1>1 DEF OsIInv
<1>3. /\ holds' \in [Threads -> [Mutexes -> Nat]] /\ holds'[t][m] = holds[t][m] + n
      /\ \A u \in Threads : \A k \in Mutexes : u # t \/ k # m => holds'[u][k] = holds[u][k]
  BY <1>1, OsGivenStep
<1>4. /\ os' \in [Mutexes -> OsLocks]
      /\ os'[m].readers[t] = os[m].readers[t] + n
      /\ os'[m].writer = os[m].writer /\ os'[m].rdBlocked = os[m].rdBlocked
      /\ \A u \in Threads \ {t} : os'[m].readers[u] = os[m].readers[u]
      /\ \A k \in Mutexes \ {m} : os'[k] = os[k]
  BY <1>2, OsOsReadsStep
<1>5. OsTyped' /\ OsOthersKept(t, m)
  BY <1>3, <1>4 DEF OsIInv, OsTyped, OsOthersKept
<1>6. OsWanted(t)'[m] = IF kind[m] = "reader" THEN 0 ELSE holds[t][m] + n
  BY <1>1, <1>3, <1>4 DEF OsWanted, OsAsked
<1>7. OsRegisters(held'[t], [OsWanted(t) EXCEPT ![m] = OsWanted(t)'[m]])
  <2>1. CASE kind[m] = "reader"
    <3>1. [OsWanted(t) EXCEPT ![m] = OsWanted(t)'[m]] = OsWanted(t)
      BY <1>1, <1>6, <2>1
    <3> QED
      BY <1>1, <2>1, <3>1
  <2>2. CASE kind[m] # "reader"
    BY <1>6, <2>2
  <2> QED
    BY <2>1, <2>2
<1>8. os'[m].readers[t] = (IF kind[m] = "reader" \/ holds'[t][m] = 0 THEN holds'[t][m] ELSE 1)
  BY <1>1, <1>2, <1>3, <1>4
<1>9. t \in os'[m].rdBlocked => kind[m] = "reader" \/ holds'[t][m] = 0
  BY <1>4
<1>10. os'[m].writer # {} => \A u \in Threads : os'[m].readers[u] = 0
  <2>1. CASE n = 1
    BY <1>4, <2>1
  <2>2. CASE n = -1
    <3>1. os[m].readers[t] # 0
      BY <1>1, <1>2, <2>2
    <3>2. os[m].writer = {}
      BY <3>1 DEF OsIInv
    <3> QED
      BY <1>4, <3>2
  <2> QED
    BY <2>1, <2>2
<1> QED
  BY <1>5, <1>7, <1>8, <1>9, <1>10, OsLocal

LEMMA OsReadInv ==
  ASSUME OsIInv, NEW t \in Threads, NEW m \in Mutexes, kind' = kind,
         OverOs!AcquireRo(t, m) \/ OverOs!TryAcquireRo(t, m)
  PROVE  OsIInv'
<1>1. /\ t \notin os[m].rdBlocked /\ OsAsked(t, m) = 0 /\ holds[t][m] \in Nat
      /\ OsWanted(t)[m] = IF kind[m] = "reader" THEN 0 ELSE holds[t][m]
  BY OsShape DEF OverOs!AcquireRo, OverOs!TryAcquireRo, OverOs!MayRead, OverOs!Running, OsAsked
<1>2. CASE \E i \in OverOs!Entry(t, m) : OverOs!Bump(t, i, 1) /\ OverOs!Given(t, m, 1)
          /\ UNCHANGED os
  <2>1. PICK i \in OverOs!Entry(t, m) : OverOs!Bump(t, i, 1) /\ OverOs!Given(t, m, 1)
            /\ UNCHANGED os
    BY <1>2
  <2>2. OsWanted(t)[m] + 1 > 0
    BY <1>1
  <2> QED
    BY <1>1, <2>1, <2>2, OsNestedInv
<1>3. CASE /\ OverOs!Entry(t, m) = {}
           /\ IF kind[m] = "reader" THEN UNCHANGED held ELSE OverOs!NoteFirst(t, m)
           /\ os' = [os EXCEPT ![m].rdBlocked = @ \cup {t}]
           /\ UNCHANGED holds
  BY <1>3, OsAskInv
<1>4. CASE /\ OverOs!Given(t, m, 1)
           /\ OverOs!Entry(t, m) = {} /\ OverOs!OsFreeForReader(m)
           /\ OverOs!OsReads(t, m, 1)
           /\ IF kind[m] = "reader" THEN UNCHANGED held ELSE OverOs!NoteFirst(t, m)
  <2>1. kind[m] = "reader" \/ holds[t][m] = 0
    BY <1>1, <1>4, OsShape
  <2>2. /\ held' \in [Threads -> Seq(OsHolds)]
        /\ \A u \in Threads \ {t} : held'[u] = held[u]
        /\ IF kind[m] = "reader" THEN held'[t] = held[t]
           ELSE OsRegisters(held'[t], [OsWanted(t) EXCEPT ![m] = 1])
    <3>1. CASE kind[m] = "reader"
      BY <1>4, <3>1 DEF OsIInv, OsTyped
    <3>2. CASE kind[m] # "reader"
      BY <1>4, <3>2, OsNoteStep
    <3> QED
      BY <3>1, <3>2
  <2>3. kind[m] # "reader" => holds[t][m] + 1 = 1
    BY <2>1
  <2>4. /\ holds[t][m] + 1 >= 0
        /\ kind[m] # "reader" => holds[t][m] \in {0, 1} /\ holds[t][m] + 1 \in {0, 1}
    BY <1>1, <2>1, <2>3
  <2>5. kind[m] # "reader" => OsRegisters(held'[t], [OsWanted(t) EXCEPT ![m] = holds[t][m] + 1])
    BY <2>2, <2>3
  <2>6. os[m].writer = {} /\ 1 \in {-1, 1}
    BY <1>4 DEF OverOs!OsFreeForReader
  <2> QED
    BY <1>1, <1>4, <2>2, <2>4, <2>5, <2>6, OsDirectInv
<1> QED
  BY <1>2, <1>3, <1>4 DEF OverOs!AcquireRo, OverOs!TryAcquireRo

LEMMA OsReleaseRoInv ==
  ASSUME OsIInv, NEW t \in Threads, NEW m \in Mutexes, kind' = kind, OverOs!ReleaseRo(t, m)
  PROVE  OsIInv'
<1>1. /\ t \notin os[m].rdBlocked /\ OsAsked(t, m) = 0 /\ holds[t][m] \in Nat
      /\ holds[t][m] > 0 /\ OverOs!Given(t, m, -1)
      /\ OsWanted(t)[m] = IF kind[m] = "reader" THEN 0 ELSE holds[t][m]
  BY OsShape DEF OverOs!ReleaseRo, OverOs!Running, OsAsked
<1>2. ASSUME NEW i \in OverOs!Entry(t, m), held[t][i].depth = 1, OverOs!Remove(t, i),
             OverOs!OsReads(t, m, -1)
      PROVE  OsIInv'
  <2>1. kind[m] # "reader" /\ holds[t][m] = 1
    BY <1>1, <1>2, OsShape
  <2>2. /\ held' \in [Threads -> Seq(OsHolds)]
        /\ \A u \in Threads \ {t} : held'[u] = held[u]
        /\ OsRegisters(held'[t], [OsWanted(t) EXCEPT ![m] = 0])
    BY <1>2, OsRemoveStep
  <2>3. holds[t][m] + (-1) = 0
    BY <2>1
  <2>4. OsRegisters(held'[t], [OsWanted(t) EXCEPT ![m] = holds[t][m] + (-1)])
    BY <2>2, <2>3
  <2>5. /\ holds[t][m] \in {0, 1} /\ holds[t][m] + (-1) \in {0, 1} /\ holds[t][m] + (-1) >= 0
        /\ -1 \in {-1, 1} /\ -1 # 1
    BY <2>1, <2>3
  <2> QED
    BY <1>1, <1>2, <2>1, <2>2, <2>4, <2>5, OsDirectInv
<1>3. ASSUME NEW i \in OverOs!Entry(t, m), held[t][i].depth # 1, OverOs!Bump(t, i, -1), UNCHANGED os
      PROVE  OsIInv'
  <2>1. OsWanted(t)[m] + (-1) > 0
    BY <1>1, <1>3, OsShape
  <2> QED
    BY <1>1, <1>3, <2>1, OsNestedInv
<1>4. CASE kind[m] = "reader" /\ OverOs!OsReads(t, m, -1) /\ UNCHANGED held
  <2>1. /\ held' \in [Threads -> Seq(OsHolds)]
        /\ \A u \in Threads \ {t} : held'[u] = held[u]
        /\ held'[t] = held[t]
    BY <1>4 DEF OsIInv, OsTyped
  <2>2. holds[t][m] + (-1) >= 0 /\ -1 \in {-1, 1} /\ -1 # 1
    BY <1>1
  <2> QED
    BY <1>1, <1>4, <2>1, <2>2, OsDirectInv
<1> QED
  BY <1>2, <1>3, <1>4 DEF OverOs!ReleaseRo
--------------------------------------------------------------------------------
(* The write locks *)

LEMMA OsWriteInv ==
  ASSUME OsIInv, NEW t \in Threads, NEW m \in Mutexes, kind' = kind,
         \/ OverOs!AcquireRw(t, m) \/ OverOs!TryAcquireRw(t, m) \/ OverOs!ReleaseRw(t, m)
         \/ OverOs!OsWriterIn(t, m)
  PROVE  OsIInv'
<1>1. held' = held /\ holds' = holds
  BY DEF OverOs!AcquireRw, OverOs!TryAcquireRw, OverOs!ReleaseRw, OverOs!OsWriterIn
<1>2. PICK r \in OsLocks :
        /\ os' = [os EXCEPT ![m] = r]
        /\ r.readers = os[m].readers /\ r.rdBlocked = os[m].rdBlocked
        /\ r.writer = os[m].writer \/ r.writer = {} \/ OverOs!OsFreeForWriter(m)
  <2>1. os[m] \in OsLocks
    BY OsShape
  <2>2. CASE OverOs!AcquireRw(t, m)
    <3> DEFINE q == [os[m] EXCEPT !.wrBlocked = os[m].wrBlocked \cup {t}]
    <3>1. os' = [os EXCEPT ![m] = q]
      BY <2>2 DEF OverOs!AcquireRw
    <3>2. /\ q \in OsLocks /\ q.readers = os[m].readers /\ q.rdBlocked = os[m].rdBlocked
          /\ q.writer = os[m].writer
      BY <2>1 DEF OsLocks
    <3> HIDE DEF q
    <3> QED
      BY <3>1, <3>2, Zenon
  <2>3. CASE OverOs!TryAcquireRw(t, m)
    <3> DEFINE q == [os[m] EXCEPT !.writer = {t}]
    <3>1. os' = [os EXCEPT ![m] = q] /\ OverOs!OsFreeForWriter(m)
      BY <2>3 DEF OverOs!TryAcquireRw
    <3>2. q \in OsLocks /\ q.readers = os[m].readers /\ q.rdBlocked = os[m].rdBlocked
      BY <2>1 DEF OsLocks
    <3> HIDE DEF q
    <3> QED
      BY <3>1, <3>2, Zenon
  <2>4. CASE OverOs!ReleaseRw(t, m)
    <3> DEFINE q == [os[m] EXCEPT !.writer = {}]
    <3>1. os' = [os EXCEPT ![m] = q]
      BY <2>4 DEF OverOs!ReleaseRw
    <3>2. /\ q \in OsLocks /\ q.readers = os[m].readers /\ q.rdBlocked = os[m].rdBlocked
          /\ q.writer = {}
      BY <2>1 DEF OsLocks
    <3> HIDE DEF q
    <3> QED
      BY <3>1, <3>2, Zenon
  <2>5. CASE OverOs!OsWriterIn(t, m)
    <3> DEFINE q == [os[m] EXCEPT !.wrBlocked = os[m].wrBlocked \ {t}, !.writer = {t}]
    <3>1. os' = [os EXCEPT ![m] = q] /\ OverOs!OsFreeForWriter(m)
      BY <2>5 DEF OverOs!OsWriterIn
    <3>2. q \in OsLocks /\ q.readers = os[m].readers /\ q.rdBlocked = os[m].rdBlocked
      BY <2>1 DEF OsLocks
    <3> HIDE DEF q
    <3> QED
      BY <3>1, <3>2, Zenon
  <2> QED
    BY <2>2, <2>3, <2>4, <2>5
<1>3. os'[m] = r /\ \A k \in Mutexes \ {m} : os'[k] = os[k]
  BY <1>2 DEF OsIInv, OsTyped
<1>4. OsTyped' /\ OsOthersKept(t, m)
  BY <1>1, <1>2, <1>3 DEF OsIInv, OsTyped, OsOthersKept
<1>5. OsRegisters(held'[t], [OsWanted(t) EXCEPT ![m] = OsWanted(t)'[m]])
  <2>1. OsWanted(t)'[m] = OsWanted(t)[m]
    BY <1>1, <1>2, <1>3 DEF OsWanted, OsAsked
  <2>2. [OsWanted(t) EXCEPT ![m] = OsWanted(t)'[m]] = OsWanted(t)
    BY <2>1, OsShape
  <2> QED
    BY <1>1, <2>2, OsShape
<1>6. os'[m].readers[t] = (IF kind[m] = "reader" \/ holds'[t][m] = 0 THEN holds'[t][m] ELSE 1)
  BY <1>1, <1>2, <1>3 DEF OsIInv
<1>7. t \in os'[m].rdBlocked => kind[m] = "reader" \/ holds'[t][m] = 0
  BY <1>1, <1>2, <1>3 DEF OsIInv
<1>8. os'[m].writer # {} => \A u \in Threads : os'[m].readers[u] = 0
  BY <1>2, <1>3 DEF OsIInv, OverOs!OsFreeForWriter
<1> QED
  BY <1>4, <1>5, <1>6, <1>7, <1>8, OsLocal
--------------------------------------------------------------------------------
(* The theorems *)

LEMMA OsInitIInv ==
  ASSUME OverOs!Init
  PROVE  OsIInv
<1>1. OsTyped
  <2>1. [readers |-> [t \in Threads |-> 0], writer |-> {}, rdBlocked |-> {}, wrBlocked |-> {}]
          \in OsLocks
    BY DEF OsLocks
  <2>2. << >> \in Seq(OsHolds)
    OBVIOUS
  <2> QED
    BY <2>1, <2>2 DEF OverOs!Init, OsTyped
<1>2. ASSUME NEW t \in Threads PROVE OsRegisters(held[t], OsWanted(t))
  <2>1. held[t] = << >>
    BY DEF OverOs!Init
  <2>2. \A m \in Mutexes : OsWanted(t)[m] = 0
    BY DEF OverOs!Init, OsWanted, OsAsked
  <2> QED
    BY <2>1, <2>2 DEF OsRegisters
<1> QED
  BY <1>1, <1>2 DEF OverOs!Init, OsIInv

LEMMA OsStepInv ==
  ASSUME OsIInv, [OverOs!Next]_(OverOs!vars)
  PROVE  OsIInv'
<1>1. CASE UNCHANGED OverOs!vars
  BY <1>1 DEF OverOs!vars, OsIInv, OsTyped, OsRegisters, OsWanted, OsAsked
<1>2. CASE OverOs!Next
  BY <1>2, OsReadInv, OsReleaseRoInv, OsWriteInv, OsReaderInInv DEF OverOs!Next
<1> QED
  BY <1>1, <1>2

\* The reader-writer mutexes over the operating system's lock, with their registry
\* of reads, keep the inductive invariant.
THEOREM RRWInvariance == OverOs!SafeSpec => []OsIInv
<1>1. OverOs!Init => OsIInv
  BY OsInitIInv
<1>2. OsIInv /\ [OverOs!Next]_(OverOs!vars) => OsIInv'
  BY OsStepInv
<1> QED
  BY <1>1, <1>2, PTL DEF OverOs!SafeSpec

\* basic_rrw_mutex, rw_mutex: a nested read that never reached the operating system's
\* lock keeps writers out all the same, until the last release.
THEOREM RRWMutualExclusion == OverOs!SafeSpec => []OverOs!MutualExclusion
<1>1. OsIInv => OverOs!MutualExclusion
  <2> SUFFICES ASSUME OsIInv, NEW t \in Threads, NEW m \in Mutexes, os[m].writer # {}
               PROVE  holds[t][m] = 0
    BY DEF OverOs!MutualExclusion
  <2>1. /\ os[m].readers[t] = 0
        /\ os[m].readers[t] = IF kind[m] = "reader" \/ holds[t][m] = 0 THEN holds[t][m] ELSE 1
    BY DEF OsIInv
  <2> QED
    BY <2>1
<1> QED
  BY <1>1, RRWInvariance, PTL

\* read_recursion_registry: held_ has one entry for each mutex a thread reads or is
\* about to, with the right depth, whatever the order in which enter, leave and the
\* removal by the last entry happen; the lock underneath is read once for all of them.
THEOREM RRWRegistryExact == OverOs!SafeSpec => []OverOs!RegistryExact
<1>1. OsIInv => OverOs!RegistryExact
  <2> SUFFICES ASSUME OsIInv, NEW t \in Threads, NEW m \in Mutexes
               PROVE  LET asked  == IF t \in os[m].rdBlocked THEN 1 ELSE 0
                          native == kind[m] = "reader"
                      IN  /\ os[m].readers[t] = IF native \/ holds[t][m] = 0 THEN holds[t][m] ELSE 1
                          /\ Cardinality(OverOs!Entry(t, m))
                               = IF ~native /\ holds[t][m] + asked > 0 THEN 1 ELSE 0
                          /\ \A i \in OverOs!Entry(t, m) : held[t][i].depth = holds[t][m] + asked
    BY OsSame DEF OverOs!RegistryExact
  <2>1. OsWanted(t)[m] > 0 => \E i \in OverOs!Entry(t, m) : OverOs!Entry(t, m) = {i}
    <3> SUFFICES ASSUME OsWanted(t)[m] > 0
              PROVE \E i \in OverOs!Entry(t, m) : OverOs!Entry(t, m) = {i}
      OBVIOUS
    <3>1. PICK i \in OverOs!Entry(t, m) : TRUE
      BY OsShape
    <3>2. \A j \in OverOs!Entry(t, m) : j = i
      BY OsShape DEF OsRegisters
    <3> QED
      BY <3>2
  <2>2. OsWanted(t)[m] > 0 => Cardinality(OverOs!Entry(t, m)) = 1
    BY <2>1, FS_Singleton
  <2>3. OsWanted(t)[m] = 0 => Cardinality(OverOs!Entry(t, m)) = 0
    <3>1. OsWanted(t)[m] = 0 => OverOs!Entry(t, m) = {}
      BY OsShape
    <3> QED
      BY <3>1, FS_EmptySet
  <2>4. /\ holds[t][m] \in Nat
        /\ OsWanted(t)[m] = IF kind[m] = "reader" THEN 0 ELSE holds[t][m] + OsAsked(t, m)
        /\ \A i \in OverOs!Entry(t, m) : held[t][i].depth = OsWanted(t)[m] /\ OsWanted(t)[m] > 0
    BY OsShape
  <2>5. os[m].readers[t] = IF kind[m] = "reader" \/ holds[t][m] = 0 THEN holds[t][m] ELSE 1
    BY DEF OsIInv
  <2> QED
    BY <2>2, <2>3, <2>4, <2>5 DEF OsAsked
<1> QED
  BY <1>1, RRWInvariance, PTL

\* A nested read never waits in the operating system's lock, where a writer that waits
\* for this very thread would keep it.
THEOREM RRWNestedReadNeverBlocks == OverOs!SafeSpec => []OverOs!NestedReadNeverBlocks
<1>1. OsIInv => OverOs!NestedReadNeverBlocks
  <2> SUFFICES ASSUME OsIInv, NEW t \in Threads, NEW m \in Mutexes,
                      t \in os[m].rdBlocked, holds[t][m] > 0
               PROVE  kind[m] = "reader" /\ os[m].writer = {}
    BY DEF OverOs!NestedReadNeverBlocks, OverOs!OsFreeForReader
  <2>1. holds[t][m] # 0
    BY OsShape
  <2>2. kind[m] = "reader" /\ os[m].readers[t] # 0
    BY <2>1 DEF OsIInv
  <2> QED
    BY <2>2 DEF OsIInv
<1> QED
  BY <1>1, RRWInvariance, PTL
--------------------------------------------------------------------------------
(* Either family, as module MCRWMutex chooses it *)

\* A behaviour of either family is one of the futex lock and one of the others.
LEMMA Families == MCSpec => SafeSpec /\ OverOs!SafeSpec
<1>1. MCInit => Init /\ OverOs!Init
  BY DEF MCInit
<1>2. [FutexNext \/ OsNext]_<<family, vars, rrwVars>> => [Next]_vars /\ [OverOs!Next]_(OverOs!vars)
  BY DEF FutexNext, OsNext, vars, rrwVars, OverOs!vars
<1> QED
  BY <1>1, <1>2, PTL DEF MCSpec, SafeSpec, OverOs!SafeSpec

\* rw_mutex, basic_rrw_mutex, futex_rw_mutex: a writer is alone inside, in every lock.
THEOREM EitherExclusion == MCSpec => []Exclusion
BY Families, RWMutualExclusion, RRWMutualExclusion, PTL DEF Exclusion

\* The word of the futex locks and the registry of the others (held_) say exactly who
\* is inside and how deep.
THEOREM EitherInsideExact == MCSpec => []InsideExact
BY Families, RWWordExact, RRWRegistryExact, PTL DEF InsideExact

\* acquire_ro of a lock that the thread already reads never waits, where nesting is
\* allowed at all.
THEOREM EitherNestedReadsNeverBlock == MCSpec => []NestedReadsNeverBlock
BY Families, RWNestedReadNeverBlocks, RRWNestedReadNeverBlocks, PTL DEF NestedReadsNeverBlock
================================================================================
