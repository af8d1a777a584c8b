---------------------------- MODULE SimpleSync ----------------------------
(***************************************************************************)
(* runtime/simple_sync.c: the library a transformed loop is linked with.   *)
(* It keeps the handles of the worker threads and the queues of the        *)
(* channels; its five functions are the operators below, for the code that *)
(* calls them to use as (parts of) its steps.                              *)
(*                                                                         *)
(* A queue is what queue.h promises (BoundedFIFO, which Queue implements): *)
(* a sequence a push appends to and a pop takes the head of, each at one   *)
(* instant, blocking when full and when empty.                             *)
(***************************************************************************)
EXTENDS Integers, Sequences

CONSTANTS NUM_THREADS,   (* length of threads[]                             *)
          NUM_QUEUES,    (* length of data_queues[]                         *)
          QUEUE_MAXLEN,  (* capacity of one queue                           *)
          NoThread,      (* a threads[] entry never written: zero           *)
          Garbage,       (* an element something else wrote over            *)
          MaxFailures    (* bound: pthread_create calls that fail           *)

Queues == 0 .. NUM_QUEUES - 1

ASSUME SyncAssumption ==
    /\ NUM_THREADS \in Nat \ {0}
    /\ NUM_QUEUES \in Nat \ {0}
    /\ QUEUE_MAXLEN \in Nat \ {0}
    /\ MaxFailures \in Nat

VARIABLES threads,      (* threads[]: the handle of each worker             *)
          data_queues,  (* data_queues[]: the elements of each queue        *)
          alive,        (* the threads created that have not returned       *)
          failures      (* the pthread_create calls that have failed        *)

syncVars == <<threads, data_queues, alive, failures>>

\* Static storage: zero handles, zeroed queues.
SyncStart == /\ threads = [i \in 0 .. NUM_THREADS - 1 |-> NoThread]
             /\ data_queues = [q \in Queues |-> <<>>]
             /\ alive = {}
             /\ failures = 0

\* Mutant: the queues keep what they hold.
sync_init_keep(i) == UNCHANGED syncVars

\* One round of the loop of sync_init: whatever queue i held is forgotten.
sync_init(i) == /\ data_queues' = [data_queues EXCEPT ![i] = <<>>]
                /\ UNCHANGED <<threads, alive, failures>>

\* What data_queues may hold after a write to threads[tid] with tid past the
\* end: the word is padding, or a slot of the first queue's ring.
Clobbered == {data_queues} \cup
             {[data_queues EXCEPT ![0][i] = Garbage] :
                 i \in IF 0 \in Queues THEN DOMAIN data_queues[0] ELSE {}}

\* Mutant: every handle goes to threads[0].
CreatedFirst(tid, h) == /\ alive' = alive \cup {h}
                        /\ threads' = [threads EXCEPT ![0] = h]
                        /\ UNCHANGED <<data_queues, failures>>

\* pthread_create starts thread h and writes its handle to threads[tid],
\* tid unchecked.
Created(tid, h) == /\ alive' = alive \cup {h}
                   /\ IF tid < NUM_THREADS
                      THEN /\ threads' = [threads EXCEPT ![tid] = h]
                           /\ UNCHANGED data_queues
                      ELSE /\ data_queues' \in Clobbered
                           /\ UNCHANGED threads
                   /\ UNCHANGED failures

\* It fails, its result is dropped and nothing starts; what threads[tid] holds
\* then is undefined: what it held, zero, or a handle that is no thread's.
NotCreated(tid, h) ==
    /\ failures < MaxFailures
    /\ failures' = failures + 1
    /\ IF tid < NUM_THREADS
       THEN /\ \E left \in {threads[tid], NoThread, h} :
                  threads' = [threads EXCEPT ![tid] = left]
            /\ UNCHANGED data_queues
       ELSE /\ data_queues' \in Clobbered
            /\ UNCHANGED threads
    /\ UNCHANGED alive

sync_delegate(tid, h) == Created(tid, h) \/ NotCreated(tid, h)

\* Mutant: pthread_join is left out.
sync_join_never(i) == UNCHANGED syncVars

\* One round of the loop of sync_join: entry i is zero, or its thread ended.
\* (What a failed creation left there may name no thread, or one joined before;
\* what pthread_join does then is undefined: it returns, or the master stops
\* here for good.)
sync_join(i) == /\ threads[i] = NoThread \/ threads[i] \notin alive
                /\ UNCHANGED syncVars

\* Mutants: an element that finds the queue full is dropped; the last slot of
\* a queue is never used.
sync_produce_drop(elem, q) ==
    /\ data_queues' = [data_queues EXCEPT
                          ![q] = IF Len(@) < QUEUE_MAXLEN THEN Append(@, elem) ELSE @]
    /\ UNCHANGED <<threads, alive, failures>>

sync_produce_short(elem, q) ==
    /\ Len(data_queues[q]) < QUEUE_MAXLEN - 1
    /\ data_queues' = [data_queues EXCEPT ![q] = Append(@, elem)]
    /\ UNCHANGED <<threads, alive, failures>>

sync_produce(elem, q) ==
    /\ Len(data_queues[q]) < QUEUE_MAXLEN
    /\ data_queues' = [data_queues EXCEPT ![q] = Append(@, elem)]
    /\ UNCHANGED <<threads, alive, failures>>

sync_consume(q) == /\ data_queues[q] # <<>>
                   /\ data_queues' = [data_queues EXCEPT ![q] = Tail(@)]
                   /\ UNCHANGED <<threads, alive, failures>>

\* The function pthread_create was given returns.
ThreadReturns(h) == /\ alive' = alive \ {h}
                    /\ UNCHANGED <<threads, data_queues, failures>>
=============================================================================
