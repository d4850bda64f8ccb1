------------------------------ MODULE FutexRWMutex ------------------------------
(***************************************************************************)
(* threading/futex_rw_mutex.{hpp,cpp}: the reader-writer lock on one futex *)
(* word, in both admission policies (futex_rw_mutex and its subclass       *)
(* reader_preferring_futex_rw_mutex).                                      *)
(*                                                                         *)
(* readerPreferring  which of the two locks it is: the subclass or the     *)
(*           base; never changes                                           *)
(* word      state_: writer_locked_bit, writer_waiting_bit,                *)
(*           reader_parked_bit and the reader count                        *)
(* observed  the local `observed` of every thread inside a call, possibly  *)
(*           stale; reset where it is dead                                 *)
(* pc        where a thread is inside a call; "idle" outside of one        *)
(* reads     read locks held by each thread (nested ones counted)          *)
(* writes    the threads that hold the write lock                          *)
(*                                                                         *)
(* A compare_exchange_weak that fails spuriously re-reads an unchanged     *)
(* word: it is the same as having loaded it later, and gets no action of   *)
(* its own.                                                                *)
(***************************************************************************)
EXTENDS Integers, FiniteSets, Futex, Counting

CONSTANTS Threads,  \* the threads that use the lock
          MaxNest   \* bound: read locks one thread may hold at a time

ASSUME ThreadsAssumption == IsFiniteSet(Threads)
ASSUME NestAssumption == MaxNest \in Nat \ {0}

VARIABLES readerPreferring, word, observed, pc, reads, writes

vars == <<readerPreferring, word, observed, pc, reads, writes>>

Zero == [wl |-> FALSE, ww |-> FALSE, rp |-> FALSE, readers |-> 0]

\* Mutant: the policy mixed up with the other one's.
BlocksReaderLocked(w) == w.wl

\* The bits that keep a new reader out (reader_blocking_bits).
BlocksReader(w) == w.wl \/ (~readerPreferring /\ w.ww)

\* Mutants: readers forgotten; only a word that is exactly 0 counts as free.
FreeForWriterReadersIgnored(w) == ~w.wl
FreeForWriterExactlyZero(w) == w = Zero

\* Neither readers nor a writer inside; the announce bits do not matter.
FreeForWriter(w) == w.readers = 0 /\ ~w.wl

\* Mutant: the announce bits are dropped.
WriterTakesDroppingBits(w) == [Zero EXCEPT !.wl = TRUE]

\* The word a writer installs: the announce bits are preserved.
WriterTakes(w) == [w EXCEPT !.wl = TRUE]

Init ==
  /\ readerPreferring \in BOOLEAN
  /\ word = Zero
  /\ observed = [t \in Threads |-> Zero]
  /\ pc = [t \in Threads |-> "idle"]
  /\ reads = [t \in Threads |-> 0]
  /\ writes = {}

\* Nested reads are part of the contract of the reader-preferring lock only
\* (on the other one read_recursion_registry asserts against them).
MayRead(t) == t \notin writes /\ reads[t] < IF readerPreferring THEN MaxNest ELSE 1

\* Thread t continues at l, with nothing observed or with a fresh load.
Goto(t, l) == /\ pc' = [pc EXCEPT ![t] = l]
              /\ observed' = [observed EXCEPT ![t] = Zero]
Look(t, l) == /\ pc' = [pc EXCEPT ![t] = l]
              /\ observed' = [observed EXCEPT ![t] = word]

\* A compare-exchange of the word from the observed value; reads the word when
\* it fails.  (A spurious failure of the weak form only repeats the loop.)
CASSucceeds(t) == word = observed[t]
--------------------------------------------------------------------------------
(* acquire_ro, try_acquire_ro: acquire_ro_core and try_acquire_ro_core *)

AcquireRo(t) ==
  /\ pc[t] = "idle" /\ MayRead(t)
  /\ Goto(t, "ro_load")
  /\ UNCHANGED <<readerPreferring, word, reads, writes>>

RoLoad(t) ==
  /\ pc[t] = "ro_load"
  /\ Look(t, "ro_try")
  /\ UNCHANGED <<readerPreferring, word, reads, writes>>

\* Not blocked: count the reader in, or start over.
RoAdmit(t) ==
  /\ pc[t] = "ro_try" /\ ~BlocksReader(observed[t])
  /\ IF CASSucceeds(t)
       THEN /\ word' = [word EXCEPT !.readers = @ + 1]
            /\ reads' = [reads EXCEPT ![t] = @ + 1]
            /\ Goto(t, "idle")
       ELSE Goto(t, "ro_load") /\ UNCHANGED <<word, reads>>
  /\ UNCHANGED <<readerPreferring, writes>>

\* Blocked and not announced: set reader_parked_bit, then start over either way.
RoAnnounce(t) ==
  /\ pc[t] = "ro_try" /\ BlocksReader(observed[t]) /\ ~observed[t].rp
  /\ word' = IF CASSucceeds(t) THEN [word EXCEPT !.rp = TRUE] ELSE word
  /\ Goto(t, "ro_load")
  /\ UNCHANGED <<readerPreferring, reads, writes>>

\* Blocked and announced: wait_if_equal( observed, reader_wait_bits ).
RoPark(t) ==
  /\ pc[t] = "ro_try" /\ BlocksReader(observed[t]) /\ observed[t].rp
  /\ Goto(t, IF ParksAgainst(word, observed[t]) THEN "ro_parked" ELSE "ro_load")
  /\ UNCHANGED <<readerPreferring, word, reads, writes>>

\* try_acquire_ro: the load; blocked returns false at once.
TryRoLoad(t) ==
  /\ pc[t] = "idle" /\ MayRead(t)
  /\ IF BlocksReader(word) THEN Goto(t, "idle") ELSE Look(t, "try_ro")
  /\ UNCHANGED <<readerPreferring, word, reads, writes>>

\* ... and the strong CAS, whose failure is the result.
TryRoCAS(t) ==
  /\ pc[t] = "try_ro"
  /\ IF CASSucceeds(t)
       THEN /\ word' = [word EXCEPT !.readers = @ + 1]
            /\ reads' = [reads EXCEPT ![t] = @ + 1]
       ELSE UNCHANGED <<word, reads>>
  /\ Goto(t, "idle")
  /\ UNCHANGED <<readerPreferring, writes>>

\* release_ro: the last reader out wakes the writers if one announced itself.
ReleaseRo(t) ==
  /\ pc[t] = "idle" /\ reads[t] > 0
  /\ word' = [word EXCEPT !.readers = @ - 1]
  /\ reads' = [reads EXCEPT ![t] = @ - 1]
  /\ Goto(t, IF word.readers = 1 /\ word.ww THEN "wake_writers" ELSE "idle")
  /\ UNCHANGED <<readerPreferring, writes>>
--------------------------------------------------------------------------------
(* acquire_rw, try_acquire_rw, release_rw *)

AcquireRw(t) ==
  /\ pc[t] = "idle" /\ t \notin writes /\ reads[t] = 0
  /\ Goto(t, "rw_load")
  /\ UNCHANGED <<readerPreferring, word, reads, writes>>

RwLoad(t) ==
  /\ pc[t] = "rw_load"
  /\ Look(t, "rw_try")
  /\ UNCHANGED <<readerPreferring, word, reads, writes>>

RwAdmit(t) ==
  /\ pc[t] = "rw_try" /\ FreeForWriter(observed[t])
  /\ IF CASSucceeds(t)
       THEN /\ word' = WriterTakes(word)
            /\ writes' = writes \cup {t}
            /\ Goto(t, "idle")
       ELSE Look(t, "rw_try") /\ UNCHANGED <<word, writes>>
  /\ UNCHANGED <<readerPreferring, reads>>

RwAnnounce(t) ==
  /\ pc[t] = "rw_try" /\ ~FreeForWriter(observed[t]) /\ ~observed[t].ww
  /\ word' = IF CASSucceeds(t) THEN [word EXCEPT !.ww = TRUE] ELSE word
  /\ observed' = [observed EXCEPT ![t] = word']
  /\ UNCHANGED <<readerPreferring, pc, reads, writes>>

RwPark(t) ==
  /\ pc[t] = "rw_try" /\ ~FreeForWriter(observed[t]) /\ observed[t].ww
  /\ Goto(t, IF ParksAgainst(word, observed[t]) THEN "rw_parked" ELSE "rw_load")
  /\ UNCHANGED <<readerPreferring, word, reads, writes>>

TryRwLoad(t) ==
  /\ pc[t] = "idle" /\ t \notin writes /\ reads[t] = 0
  /\ IF FreeForWriter(word) THEN Look(t, "try_rw") ELSE Goto(t, "idle")
  /\ UNCHANGED <<readerPreferring, word, reads, writes>>

TryRwCAS(t) ==
  /\ pc[t] = "try_rw"
  /\ IF CASSucceeds(t)
       THEN word' = WriterTakes(word) /\ writes' = writes \cup {t}
       ELSE UNCHANGED <<word, writes>>
  /\ Goto(t, "idle")
  /\ UNCHANGED <<readerPreferring, reads>>

\* release_rw: exchange( 0 ); the wake is skipped when nobody announced itself.
ReleaseRw(t) ==
  /\ pc[t] = "idle" /\ t \in writes
  /\ word' = Zero
  /\ writes' = writes \ {t}
  /\ Goto(t, IF word.ww \/ word.rp THEN "wake_either" ELSE "idle")
  /\ UNCHANGED <<readerPreferring, reads>>
--------------------------------------------------------------------------------
(* The futex queue of the word *)

ParkedReaders == {t \in Threads : pc[t] = "ro_parked"}
ParkedWriters == {t \in Threads : pc[t] = "rw_parked"}

ListensOn == [t \in Threads |-> IF pc[t] = "ro_parked" THEN "reader" ELSE "writer"]

\* The woken threads re-arm with a fresh load.
Rearm(W) == [t \in Threads |-> IF t \in W /\ pc[t] = "ro_parked" THEN "ro_load"
                              ELSE IF t \in W THEN "rw_load" ELSE pc[t]]

\* The wake_all that ends release_ro ( writer_wait_bits ) or release_rw
\* ( either_wait_bits ).
Wake(t) ==
  /\ pc[t] \in {"wake_writers", "wake_either"}
  /\ LET bits == IF pc[t] = "wake_writers" THEN {"writer"} ELSE {"reader", "writer"}
     IN  \E W \in WokenByBits(ParkedReaders \cup ParkedWriters, ListensOn, bits) :
           pc' = [Rearm(W) EXCEPT ![t] = "idle"]
  /\ UNCHANGED <<readerPreferring, word, observed, reads, writes>>

\* wait_if_equal may return for no reason.
SpuriousWake(t) ==
  /\ pc[t] \in {"ro_parked", "rw_parked"}
  /\ pc' = Rearm({t})
  /\ UNCHANGED <<readerPreferring, word, observed, reads, writes>>
--------------------------------------------------------------------------------
\* What a thread does by itself: inside a call it is scheduled, and a holder
\* releases its lock in the end.
Progress(t) ==
  \/ RoLoad(t) \/ RoAdmit(t) \/ RoAnnounce(t) \/ RoPark(t) \/ TryRoCAS(t)
  \/ RwLoad(t) \/ RwAdmit(t) \/ RwAnnounce(t) \/ RwPark(t) \/ TryRwCAS(t)
  \/ Wake(t)

Release(t) == ReleaseRo(t) \/ ReleaseRw(t)

Request(t) == AcquireRo(t) \/ TryRoLoad(t) \/ AcquireRw(t) \/ TryRwLoad(t)

Next == \E t \in Threads :
          Progress(t) \/ Release(t) \/ Request(t) \/ SpuriousWake(t)

SafeSpec == Init /\ [][Next]_vars

Spec == /\ SafeSpec
        /\ \A t \in Threads : WF_vars(Progress(t))
        /\ \A t \in Threads : WF_vars(Release(t))
--------------------------------------------------------------------------------
Readers == {t \in Threads : reads[t] > 0}

\* A writer is alone: no second writer and no reader, nested or not.
MutualExclusion ==
  /\ writes # {} => Readers = {}
  /\ \A t, u \in writes : t = u

\* The word says who is inside: the writer bit, and the read locks held in all.
WordExact ==
  /\ word.wl <=> writes # {}
  /\ word.readers = Cardinality(Slots(reads, Threads))

\* release_rw's no-waiter fast path: "a word with neither bit set proves nobody
\* is (or can end up) parked".  A parked thread is announced in the word, or a
\* wake that reaches it is under way.
AnnouncedWhileParked ==
  /\ ParkedWriters # {} =>
       word.ww \/ \E t \in Threads : pc[t] \in {"wake_writers", "wake_either"}
  /\ ParkedReaders # {} =>
       word.rp \/ \E t \in Threads : pc[t] = "wake_either"

\* Reader preference: a thread that holds a read lock and takes it again never
\* observes a writer inside, hence never parks ("natively deadlock-free").
NestedReadNeverBlocks ==
  \A t \in Threads : readerPreferring /\ reads[t] > 0 =>
    /\ pc[t] # "ro_parked"
    /\ pc[t] = "ro_try" => ~BlocksReader(observed[t])

\* Writer preference: once a writer has announced itself the readers drain and a
\* writer gets in, however many new readers keep coming.
WriterAdmitted == (word.ww /\ ~readerPreferring) ~> word.wl

\* Nobody stays parked for ever while the holders release; but readers may keep the
\* writers of the reader-preferring lock out.
ParkedWakes == \A t \in Threads :
  /\ (pc[t] = "ro_parked") ~> (pc[t] # "ro_parked")
  /\ (pc[t] = "rw_parked" /\ ~readerPreferring) ~> (pc[t] # "rw_parked")
================================================================================
