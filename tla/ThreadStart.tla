------------------------------- MODULE ThreadStart -------------------------------
(***************************************************************************)
(* threading/thread.hpp: the assignment of a functor to a thread, which    *)
(* starts it.  A small functor (a pool's worker_loop is made small for it) *)
(* travels in the argument of the thread procedure; one that may throw     *)
(* when it is moved travels on the heap; any other stays in the frame of   *)
(* the starting thread, which waits in the destructor of                   *)
(* synchronized_invocation until the new thread has moved it to its own.   *)
(*                                                                         *)
(* starter   what the starting thread does     current   whom it starts    *)
(* copied    functor_copied_ of the context in the starter's frame, where  *)
(*           one start's context follows another's                         *)
(* threads   what the new threads do           way       how each started  *)
(* owners    of each heap functor: the unique_ptrs that would free it (for *)
(*           a moment two, of which the starter's is released)             *)
(* History: ran, freed (how often each functor ran, was freed).            *)
(***************************************************************************)
EXTENDS Integers, FiniteSets

CONSTANTS NewThreads,   \* bound: the threads that get started
          MayFail       \* whether the system may refuse a thread

VARIABLES starter, current, copied, threads, way, owners, ran, freed

vars == <<starter, current, copied, threads, way, owners, ran, freed>>

Nobody == "nobody"
Ways   == {"pointer", "frame", "heap"}

Init ==
  /\ starter = "out" /\ current = Nobody /\ copied = FALSE
  /\ threads = [t \in NewThreads |-> "none"]
  /\ way = [t \in NewThreads |-> "none"]
  /\ owners = [t \in NewThreads |-> {}]
  /\ ran = [t \in NewThreads |-> 0]
  /\ freed = [t \in NewThreads |-> 0]

Starter(l)   == starter' = l
Thread(t, l) == threads' = [threads EXCEPT ![t] = l]
--------------------------------------------------------------------------------
(* The starting thread *)

\* operator=( F && ), by the kind of functor.
Assign(t, w) ==
  /\ starter = "out" /\ way[t] = "none"
  /\ way' = [way EXCEPT ![t] = w]
  /\ owners' = [owners EXCEPT ![t] = IF w = "heap" THEN {"starter"} ELSE {}]
  /\ copied' = IF w = "frame" THEN FALSE ELSE copied
  /\ current' = t
  /\ Starter("create")
  /\ UNCHANGED <<threads, ran, freed>>

\* create(): the thread exists, ...
Create ==
  /\ starter = "create"
  /\ Thread(current, "start")
  /\ owners' = [owners EXCEPT ![current] = IF way[current] = "heap" THEN @ \cup {"thread"} ELSE @]
  /\ Starter(IF way[current] = "frame" THEN "look" ELSE "leave")
  /\ UNCHANGED <<current, copied, way, ran, freed>>

\* ... or an exception leaves the scope of whatever was made for it.
CreateFails ==
  /\ starter = "create" /\ MayFail
  /\ Thread(current, "refused")
  /\ Starter(IF way[current] = "frame" THEN "look" ELSE "throw")
  /\ UNCHANGED <<current, copied, way, owners, ran, freed>>

\* Mutant: the destructor does not wait.
LookOnce ==
  /\ starter = "look"
  /\ Starter("leave")
  /\ UNCHANGED <<current, copied, threads, way, owners, ran, freed>>

\* ~synchronized_invocation: looks at the flag, which no mutex protects from notify(), ...
Look ==
  /\ starter = "look"
  /\ Starter(IF copied THEN "leave" ELSE "park")
  /\ UNCHANGED <<current, copied, threads, way, owners, ran, freed>>

\* ... and waits.
Park ==
  /\ starter = "park"
  /\ Starter("parked")
  /\ UNCHANGED <<current, copied, threads, way, owners, ran, freed>>

SpuriousWake ==
  /\ starter = "parked"
  /\ Starter("look")
  /\ UNCHANGED <<current, copied, threads, way, owners, ran, freed>>

\* release() of the unique_ptr, and the return.
Leave ==
  /\ starter = "leave"
  /\ owners' = [owners EXCEPT ![current] = @ \ {"starter"}]
  /\ current' = Nobody
  /\ Starter("out")
  /\ UNCHANGED <<copied, threads, way, ran, freed>>

\* "Not enough resources to create a new thread": the unique_ptr frees the functor.
Throw ==
  /\ starter = "throw"
  /\ freed' = [freed EXCEPT ![current] = @ + Cardinality(owners[current])]
  /\ owners' = [owners EXCEPT ![current] = {}]
  /\ current' = Nobody
  /\ Starter("out")
  /\ UNCHANGED <<copied, threads, way, ran>>
--------------------------------------------------------------------------------
(* The new threads *)

\* Moves the functor out of the starter's frame, ...
Copies(t) ==
  /\ threads[t] = "start" /\ way[t] = "frame"
  /\ Thread(t, "copied")
  /\ UNCHANGED <<starter, current, copied, way, owners, ran, freed>>

\* ... sets the flag of the context there ...
Flags(t) ==
  /\ threads[t] = "copied"
  /\ copied' = TRUE
  /\ Thread(t, "notify")
  /\ UNCHANGED <<starter, current, way, owners, ran, freed>>

\* ... and notifies.  The starter may have seen the flag and left: the condition is gone
\* then, which is undefined.  Of what can come of it there is a notification of whoever
\* waits at that address by now, and nothing at all; damage to what else is there is not
\* modelled, and no property is about it.
Notifies(t) ==
  /\ threads[t] = "notify"
  /\ \/ Starter(IF starter = "parked" THEN "look" ELSE starter)
     \/ current # t /\ UNCHANGED starter
  /\ Thread(t, "run")
  /\ UNCHANGED <<current, copied, way, owners, ran, freed>>

Runs(t) ==
  /\ \/ threads[t] = "run"
     \/ threads[t] = "start" /\ way[t] # "frame"
  /\ ran' = [ran EXCEPT ![t] = @ + 1]
  /\ Thread(t, "ran")
  /\ UNCHANGED <<starter, current, copied, way, owners, freed>>

\* The thread's unique_ptr frees a functor on the heap.
Ends(t) ==
  /\ threads[t] = "ran"
  /\ freed' = [freed EXCEPT ![t] = @ + (IF "thread" \in owners[t] THEN 1 ELSE 0)]
  /\ owners' = [owners EXCEPT ![t] = @ \ {"thread"}]
  /\ Thread(t, "done")
  /\ UNCHANGED <<starter, current, copied, way, ran>>
--------------------------------------------------------------------------------
StarterStep == Create \/ CreateFails \/ Look \/ Park \/ Leave \/ Throw

ThreadStep(t) == Copies(t) \/ Flags(t) \/ Notifies(t) \/ Runs(t) \/ Ends(t)

Next == \/ StarterStep \/ SpuriousWake
        \/ \E t \in NewThreads : ThreadStep(t) \/ \E w \in Ways : Assign(t, w)

\* Everybody gets to run; conditions wake by themselves, or not.
Spec == /\ Init /\ [][Next]_vars /\ WF_vars(StarterStep)
        /\ \A t \in NewThreads : WF_vars(ThreadStep(t))
--------------------------------------------------------------------------------
\* A new thread moves its functor out of the starter's frame while the starter is
\* still there, on its behalf; a functor on the heap is freed once, and not before it
\* has run, whoever comes last, and also when there is no thread; a functor runs once,
\* and not at all without a thread.
FunctorLifetime ==
  \A t \in NewThreads :
    /\ threads[t] \in {"start", "copied"} /\ way[t] = "frame" =>
         current = t /\ starter \in {"look", "park", "parked"}
    /\ "thread" \in owners[t] => freed[t] = 0
    /\ threads[t] = "done" \/ (threads[t] = "refused" /\ current # t) =>
         /\ ran[t] = IF threads[t] = "done" THEN 1 ELSE 0
         /\ freed[t] = (IF way[t] = "heap" THEN 1 ELSE 0)

\* Every assignment returns or throws: "throw std::runtime_error( "Not enough resources
\* to create a new thread" )".
StartEnds == (starter # "out") ~> (starter = "out")
================================================================================
