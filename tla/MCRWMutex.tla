------------------------------- MODULE MCRWMutex -------------------------------
(***************************************************************************)
(* The reader-writer locks for TLC: the futex one, in both policies, or    *)
(* two mutexes over the operating system's lock, the one of any kind and   *)
(* the other recursive (they share the registry), chosen in the initial    *)
(* state; the variables of the other family stay as they are.              *)
(***************************************************************************)
EXTENDS FutexRWMutex, TLC

CONSTANTS t1, t2, t3, m1, m2,
          Mutexes   \* over the operating system's lock

VARIABLES family,                  \* "futex" or "os"
          kind, held, os, holds    \* of the operating system's

rrwVars == <<kind, held, os, holds>>

OverOs == INSTANCE RRWMutex WITH reads <- holds

MCInit ==
  /\ Init /\ OverOs!Init
  /\ \/ family = "futex" /\ \A m \in Mutexes : kind[m] = "plain"
     \/ family = "os" /\ ~readerPreferring /\ kind[m2] = "recursive"

FutexNext == family = "futex" /\ Next /\ UNCHANGED <<family, rrwVars>>
OsNext    == family = "os" /\ OverOs!Next /\ UNCHANGED <<family, vars>>

MCSpec ==
  /\ MCInit
  /\ [][FutexNext \/ OsNext]_<<family, vars, rrwVars>>
  /\ \A t \in Threads :
       /\ WF_<<family, vars, rrwVars>>
            (family = "futex" /\ Progress(t) /\ UNCHANGED <<family, rrwVars>>)
       /\ WF_<<family, vars, rrwVars>>
            (family = "futex" /\ Release(t) /\ UNCHANGED <<family, rrwVars>>)

\* A writer is alone, in the futex locks and in the others.
Exclusion == MutualExclusion /\ OverOs!MutualExclusion

\* What the locks remember is who is inside: the futex word (WordExact), and the
\* registry of the others (RegistryExact).
InsideExact == WordExact /\ OverOs!RegistryExact

\* A nested read never waits, by reader preference, by the registry, or for
\* being refused.
NestedReadsNeverBlock == NestedReadNeverBlocks /\ OverOs!NestedReadNeverBlocks
================================================================================
