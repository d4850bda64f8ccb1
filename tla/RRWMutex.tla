-------------------------------- MODULE RRWMutex --------------------------------
(***************************************************************************)
(* The reader-writer mutexes over an operating system's lock:              *)
(* threading/posix/rw_mutex.hpp and windows/rw_mutex.hpp (of a debug       *)
(* build), and rrw_mutex.hpp with read_recursion_registry.hpp.             *)
(*                                                                         *)
(* kind   of each mutex: "plain" (rw_mutex, whose reads must not nest and  *)
(*        are checked not to), "recursive" (basic_rrw_mutex, whose nested  *)
(*        reads are only counted) or "reader" (the lock of glibc that      *)
(*        prefers readers, and has no registry)                            *)
(* held   the registry of each thread: held_, a vector of read_hold        *)
(* os     the lock under each mutex: how often each thread reads, who      *)
(*        writes, and who is blocked inside (readers and writers)          *)
(* reads  the read locks each thread has been given and has not returned   *)
(*                                                                         *)
(* An allocation that fails throws before anything has changed, and so     *)
(* does a try that the lock refuses: neither is a step.                    *)
(***************************************************************************)
EXTENDS Integers, Sequences, FiniteSets

CONSTANTS Threads,   \* the threads that use the mutexes
          Mutexes,   \* the mutexes
          MaxNest    \* bound: read locks of one thread on one mutex

VARIABLES kind, held, os, reads

vars == <<kind, held, os, reads>>

Kinds == {"plain", "recursive", "reader"}

Init ==
  /\ kind \in [Mutexes -> Kinds]
  /\ held = [t \in Threads |-> <<>>]
  /\ os = [m \in Mutexes |-> [readers |-> [t \in Threads |-> 0], writer |-> {},
                              rdBlocked |-> {}, wrBlocked |-> {}]]
  /\ reads = [t \in Threads |-> [m \in Mutexes |-> 0]]

Running(t) == \A m \in Mutexes : t \notin os[m].rdBlocked \cup os[m].wrBlocked

Writing(t) == {m \in Mutexes : t \in os[m].writer}

Given(t, m, n) == reads' = [reads EXCEPT ![t][m] = @ + n]
--------------------------------------------------------------------------------
(* The registry: enter, leave, bump_if_held, note_first *)

Entry(t, m) == {i \in DOMAIN held[t] : held[t][i].mutex = m}

Bump(t, i, n) == held' = [held EXCEPT ![t][i].depth = @ + n]

\* on_ro_acquire: the assertion that a plain mutex makes.
Nests(t, m) == kind[m] = "plain" /\ Entry(t, m) # {}

NoteFirst(t, m) == held' = [held EXCEPT ![t] = Append(@, [mutex |-> m, depth |-> 1])]

\* Mutant: pop_back() without having moved the last entry.
RemovePopOnly(t, i) == held' = [held EXCEPT ![t] = SubSeq(@, 1, Len(@) - 1)]

\* held_[ i ] = held_.back(); held_.pop_back()
Remove(t, i) ==
  held' = [held EXCEPT ![t] = SubSeq([@ EXCEPT ![i] = held[t][Len(held[t])]], 1, Len(@) - 1)]
--------------------------------------------------------------------------------
(* The operating system's lock: a reader may have to wait behind a writer that *)
(* waits (pthread_rwlock_t, SRWLOCK), and may not.                             *)

OsReads(t, m, n) == os' = [os EXCEPT ![m].readers[t] = @ + n]

OsFreeForReader(m) == os[m].writer = {}
OsFreeForWriter(m) == os[m].writer = {} /\ \A t \in Threads : os[m].readers[t] = 0

\* pthread_rwlock_rdlock, AcquireSRWLockShared return.
OsReaderIn(t, m) ==
  /\ t \in os[m].rdBlocked /\ OsFreeForReader(m)
  /\ os' = [os EXCEPT ![m].rdBlocked = @ \ {t}, ![m].readers[t] = @ + 1]
  /\ Given(t, m, 1)
  /\ UNCHANGED held

\* pthread_rwlock_wrlock, AcquireSRWLockExclusive return.
OsWriterIn(t, m) ==
  /\ t \in os[m].wrBlocked /\ OsFreeForWriter(m)
  /\ os' = [os EXCEPT ![m].wrBlocked = @ \ {t}, ![m].writer = {t}]
  /\ UNCHANGED <<held, reads>>
--------------------------------------------------------------------------------
(* The mutex *)

\* Balanced use, and verify_deadlock(): no read lock under one's own write lock;
\* who blocks for a write lock holds nothing.
MayRead(t, m) == Running(t) /\ Writing(t) = {} /\ reads[t][m] < MaxNest /\ ~Nests(t, m)

MayWrite(t) ==
  Running(t) /\ Writing(t) = {} /\ \A m \in Mutexes : reads[t][m] = 0

\* Mutant: every acquire goes to the operating system.
AcquireRoAlways(t, m) ==
  /\ MayRead(t, m)
  /\ NoteFirst(t, m)
  /\ os' = [os EXCEPT ![m].rdBlocked = @ \cup {t}]
  /\ UNCHANGED reads

\* acquire_ro: a nested one only counts; the first one is noted, and then goes to
\* the operating system's lock, as every one does where there is no registry.
AcquireRo(t, m) ==
  /\ MayRead(t, m)
  /\ \/ \E i \in Entry(t, m) : Bump(t, i, 1) /\ Given(t, m, 1) /\ UNCHANGED os
     \/ /\ Entry(t, m) = {}
        /\ IF kind[m] = "reader" THEN UNCHANGED held ELSE NoteFirst(t, m)
        /\ os' = [os EXCEPT ![m].rdBlocked = @ \cup {t}]
        /\ UNCHANGED reads

\* try_acquire_ro that succeeds: nested, or by os_try_acquire_ro.
TryAcquireRo(t, m) ==
  /\ MayRead(t, m)
  /\ Given(t, m, 1)
  /\ \/ \E i \in Entry(t, m) : Bump(t, i, 1) /\ UNCHANGED os
     \/ /\ Entry(t, m) = {} /\ OsFreeForReader(m)
        /\ OsReads(t, m, 1)
        /\ IF kind[m] = "reader" THEN UNCHANGED held ELSE NoteFirst(t, m)

\* release_ro: the last one gives the operating system's lock back.  (leave() without
\* an entry, a no-op, is unreachable for balanced use: RegistryExact.)
ReleaseRo(t, m) ==
  /\ Running(t) /\ reads[t][m] > 0
  /\ Given(t, m, -1)
  /\ \/ \E i \in Entry(t, m) :
          IF held[t][i].depth = 1 THEN Remove(t, i) /\ OsReads(t, m, -1)
                                  ELSE Bump(t, i, -1) /\ UNCHANGED os
     \/ kind[m] = "reader" /\ OsReads(t, m, -1) /\ UNCHANGED held

\* acquire_rw, try_acquire_rw, release_rw: inherited from rw_mutex.
AcquireRw(t, m) ==
  /\ MayWrite(t)
  /\ os' = [os EXCEPT ![m].wrBlocked = @ \cup {t}]
  /\ UNCHANGED <<held, reads>>

TryAcquireRw(t, m) ==
  /\ MayWrite(t) /\ OsFreeForWriter(m)
  /\ os' = [os EXCEPT ![m].writer = {t}]
  /\ UNCHANGED <<held, reads>>

ReleaseRw(t, m) ==
  /\ Running(t) /\ t \in os[m].writer
  /\ os' = [os EXCEPT ![m].writer = {}]
  /\ UNCHANGED <<held, reads>>

Next ==
  /\ \E t \in Threads, m \in Mutexes :
       \/ AcquireRo(t, m) \/ TryAcquireRo(t, m) \/ ReleaseRo(t, m)
       \/ AcquireRw(t, m) \/ TryAcquireRw(t, m) \/ ReleaseRw(t, m)
       \/ OsReaderIn(t, m) \/ OsWriterIn(t, m)
  /\ UNCHANGED kind

SafeSpec == Init /\ [][Next]_vars
--------------------------------------------------------------------------------
\* A writer is alone: who has been given a read lock, however it was come by, keeps
\* writers out until its last release.
MutualExclusion ==
  \A m \in Mutexes : os[m].writer # {} => \A t \in Threads : reads[t][m] = 0

\* The registry has one entry for each mutex that the thread reads or is about to,
\* with the depth of its reads, and the operating system's lock is read exactly
\* once for all of them ("held for the union of all live read holds"); a lock that
\* prefers readers is read once for each, and needs no entry.
RegistryExact ==
  \A t \in Threads, m \in Mutexes :
    LET asked  == IF t \in os[m].rdBlocked THEN 1 ELSE 0
        native == kind[m] = "reader"
    IN  /\ os[m].readers[t] = IF native \/ reads[t][m] = 0 THEN reads[t][m] ELSE 1
        /\ Cardinality(Entry(t, m)) = IF ~native /\ reads[t][m] + asked > 0 THEN 1 ELSE 0
        /\ \A i \in Entry(t, m) : held[t][i].depth = reads[t][m] + asked

\* Nested reads never wait: a thread that reads a mutex is never blocked inside of
\* its lock, where a writer that waits for this thread would keep it; but in a lock
\* that prefers readers, which lets it pass.  (A plain mutex refuses it before that.)
NestedReadNeverBlocks ==
  \A m \in Mutexes, t \in Threads :
    t \in os[m].rdBlocked /\ reads[t][m] > 0 => kind[m] = "reader" /\ OsFreeForReader(m)
================================================================================
