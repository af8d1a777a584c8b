------------------------------- MODULE Queue -------------------------------
(***************************************************************************)
(* runtime/queue.c: the blocking queue every channel of a transformed loop *)
(* is made of.  A ring buffer, a mutex and two condition variables; any    *)
(* number of threads inside queue_push and queue_pop at once.              *)
(*                                                                         *)
(* The steps of a call are the points where another thread can run:        *)
(* taking the mutex, waiting on a condition variable, the update of the    *)
(* ring, the signal, and giving the mutex back.  The three assignments of  *)
(* the ring update are one step: only the holder of the mutex reads or     *)
(* writes head, tail, size and arr.                                        *)
(***************************************************************************)
EXTENDS Integers, FiniteSets

CONSTANTS Producers,     (* the threads that call queue_push                *)
          Consumers,     (* the threads that call queue_pop                 *)
          Values,        (* the elements pushed                             *)
          NoValue,       (* an array slot never written, no local value     *)
          Free,          (* the owner of a mutex nobody holds               *)
          QUEUE_MAXLEN,  (* length of the ring                              *)
          MaxSpurious    (* bound: spurious wakeups in a behaviour          *)

Threads == Producers \cup Consumers

ASSUME QueueAssumption ==
    /\ QUEUE_MAXLEN \in Nat \ {0}
    /\ MaxSpurious \in Nat
    /\ IsFiniteSet(Producers)
    /\ IsFiniteSet(Consumers)
    /\ NoValue \notin Values
    /\ Free \notin Threads

VARIABLES arr,          (* q->arr                                           *)
          head,         (* q->head                                          *)
          tail,         (* q->tail                                          *)
          size,         (* q->size                                          *)
          mutex,        (* q->mutex: its owner, or Free                     *)
          empty_cvar,   (* the threads waiting on q->empty_cvar             *)
          full_cvar,    (* the threads waiting on q->full_cvar              *)
          pc,           (* where each thread is                             *)
          val,          (* elem in a push, ret_val in a pop                 *)
          spurious      (* the spurious wakeups so far                      *)

ring == <<arr, head, tail, size>>
vars == <<ring, mutex, empty_cvar, full_cvar, pc, val, spurious>>

Slots == 0 .. QUEUE_MAXLEN - 1

PushPc == {"push_lock", "push_test", "push_wait", "push_signal", "push_unlock"}
PopPc  == {"pop_lock", "pop_test", "pop_wait", "pop_signal", "pop_unlock"}

\* The places where a thread owns the mutex.
Holding == {"push_test", "push_signal", "push_unlock",
            "pop_test", "pop_signal", "pop_unlock"}

-----------------------------------------------------------------------------
\* queue_init; the contents of arr are whatever the memory held.
Init == /\ arr = [i \in Slots |-> NoValue]
        /\ head = 0
        /\ tail = 0
        /\ size = 0
        /\ mutex = Free
        /\ empty_cvar = {}
        /\ full_cvar = {}
        /\ pc = [t \in Threads |-> "idle"]
        /\ val = [t \in Threads |-> NoValue]
        /\ spurious = 0

Goto(t, place) == pc' = [pc EXCEPT ![t] = place]

\* A thread calls queue_push(q, v) or queue_pop(q).
PushCall(t, v) == /\ pc[t] = "idle"
                  /\ Goto(t, "push_lock")
                  /\ val' = [val EXCEPT ![t] = v]
                  /\ UNCHANGED <<ring, mutex, empty_cvar, full_cvar, spurious>>

PopCall(t) == /\ pc[t] = "idle"
              /\ Goto(t, "pop_lock")
              /\ UNCHANGED <<ring, mutex, empty_cvar, full_cvar, val, spurious>>

\* pthread_mutex_lock, and the way out of pthread_cond_wait: both lead to the
\* test of the while loop.
PushLock(t) == /\ pc[t] = "push_lock"
               /\ mutex = Free
               /\ mutex' = t
               /\ Goto(t, "push_test")
               /\ UNCHANGED <<ring, empty_cvar, full_cvar, val, spurious>>

PopLock(t) == /\ pc[t] = "pop_lock"
              /\ mutex = Free
              /\ mutex' = t
              /\ Goto(t, "pop_test")
              /\ UNCHANGED <<ring, empty_cvar, full_cvar, val, spurious>>

\* pthread_cond_wait gives up the mutex and joins the waiters in one step.
PushWait(t) == /\ pc[t] = "push_test"
               /\ size = QUEUE_MAXLEN
               /\ mutex' = Free
               /\ full_cvar' = full_cvar \cup {t}
               /\ Goto(t, "push_wait")
               /\ UNCHANGED <<ring, empty_cvar, val, spurious>>

PopWait(t) == /\ pc[t] = "pop_test"
              /\ size = 0
              /\ mutex' = Free
              /\ empty_cvar' = empty_cvar \cup {t}
              /\ Goto(t, "pop_wait")
              /\ UNCHANGED <<ring, full_cvar, val, spurious>>

\* Mutant: tail is not taken modulo the length.
PushStorePastEnd(t) ==
    /\ pc[t] = "push_test"
    /\ size # QUEUE_MAXLEN
    /\ arr' = [arr EXCEPT ![tail] = val[t]]
    /\ tail' = tail + 1
    /\ size' = size + 1
    /\ Goto(t, "push_signal")
    /\ UNCHANGED <<head, mutex, empty_cvar, full_cvar, val, spurious>>

PushStore(t) == /\ pc[t] = "push_test"
                /\ size # QUEUE_MAXLEN
                /\ arr' = [arr EXCEPT ![tail] = val[t]]
                /\ tail' = (tail + 1) % QUEUE_MAXLEN
                /\ size' = size + 1
                /\ Goto(t, "push_signal")
                /\ UNCHANGED <<head, mutex, empty_cvar, full_cvar, val, spurious>>

\* Mutant: the element pushed last is taken.
PopTakeNewest(t) ==
    /\ pc[t] = "pop_test"
    /\ size # 0
    /\ val' = [val EXCEPT ![t] = arr[(head + size - 1) % QUEUE_MAXLEN]]
    /\ tail' = (head + size - 1) % QUEUE_MAXLEN
    /\ size' = size - 1
    /\ Goto(t, "pop_signal")
    /\ UNCHANGED <<arr, head, mutex, empty_cvar, full_cvar, spurious>>

PopTake(t) == /\ pc[t] = "pop_test"
              /\ size # 0
              /\ val' = [val EXCEPT ![t] = arr[head]]
              /\ head' = (head + 1) % QUEUE_MAXLEN
              /\ size' = size - 1
              /\ Goto(t, "pop_signal")
              /\ UNCHANGED <<arr, tail, mutex, empty_cvar, full_cvar, spurious>>

\* Mutants: only the push into an empty queue signals; a pop never does.
PushSignalFirst(t) ==
    /\ pc[t] = "push_signal"
    /\ IF empty_cvar = {} \/ size # 1
       THEN Goto(t, "push_unlock") /\ UNCHANGED empty_cvar
       ELSE \E c \in empty_cvar :
               /\ empty_cvar' = empty_cvar \ {c}
               /\ pc' = [pc EXCEPT ![t] = "push_unlock", ![c] = "pop_lock"]
    /\ UNCHANGED <<ring, mutex, full_cvar, val, spurious>>

PopSignalNever(t) ==
    /\ pc[t] = "pop_signal"
    /\ Goto(t, "pop_unlock")
    /\ UNCHANGED <<ring, mutex, empty_cvar, full_cvar, val, spurious>>

\* pthread_cond_signal: with a waiter, one of them leaves the condition
\* variable and goes for the mutex; with none, nothing is remembered.
PushSignal(t) ==
    /\ pc[t] = "push_signal"
    /\ \/ /\ empty_cvar = {}
          /\ Goto(t, "push_unlock")
          /\ UNCHANGED empty_cvar
       \/ \E c \in empty_cvar :
             /\ empty_cvar' = empty_cvar \ {c}
             /\ pc' = [pc EXCEPT ![t] = "push_unlock", ![c] = "pop_lock"]
    /\ UNCHANGED <<ring, mutex, full_cvar, val, spurious>>

PopSignal(t) ==
    /\ pc[t] = "pop_signal"
    /\ \/ /\ full_cvar = {}
          /\ Goto(t, "pop_unlock")
          /\ UNCHANGED full_cvar
       \/ \E p \in full_cvar :
             /\ full_cvar' = full_cvar \ {p}
             /\ pc' = [pc EXCEPT ![t] = "pop_unlock", ![p] = "push_lock"]
    /\ UNCHANGED <<ring, mutex, empty_cvar, val, spurious>>

\* pthread_mutex_unlock and the return: the locals are gone.
Unlock(t) == /\ pc[t] \in {"push_unlock", "pop_unlock"}
             /\ mutex' = Free
             /\ Goto(t, "idle")
             /\ val' = [val EXCEPT ![t] = NoValue]
             /\ UNCHANGED <<ring, empty_cvar, full_cvar, spurious>>

\* POSIX lets pthread_cond_wait return without a signal.
SpuriousWakeup(t) ==
    /\ spurious < MaxSpurious
    /\ spurious' = spurious + 1
    /\ \/ /\ t \in empty_cvar
          /\ empty_cvar' = empty_cvar \ {t}
          /\ Goto(t, "pop_lock")
          /\ UNCHANGED full_cvar
       \/ /\ t \in full_cvar
          /\ full_cvar' = full_cvar \ {t}
          /\ Goto(t, "push_lock")
          /\ UNCHANGED empty_cvar
    /\ UNCHANGED <<ring, mutex, val>>

\* What a thread inside a call does next.
Push(t) == PushLock(t) \/ PushWait(t) \/ PushStore(t) \/ PushSignal(t)
Pop(t)  == PopLock(t) \/ PopWait(t) \/ PopTake(t) \/ PopSignal(t)
Step(t) == Push(t) \/ Pop(t) \/ Unlock(t)

Next == \/ \E t \in Producers, v \in Values : PushCall(t, v)
        \/ \E t \in Consumers : PopCall(t)
        \/ \E t \in Threads : Step(t) \/ SpuriousWakeup(t)

Spec == Init /\ [][Next]_vars

\* The scheduler runs every thread that can run; the mutex is not fair.
FairSpec == Spec /\ \A t \in Threads : WF_vars(Step(t))

-----------------------------------------------------------------------------
TypeOK ==
    /\ arr \in [Slots -> Values \cup {NoValue}]
    /\ head \in Slots
    /\ tail \in Slots
    /\ size \in 0 .. QUEUE_MAXLEN
    /\ mutex \in Threads \cup {Free}
    /\ empty_cvar \subseteq Consumers
    /\ full_cvar \subseteq Producers
    /\ pc \in [Threads -> PushPc \cup PopPc \cup {"idle"}]
    /\ val \in [Threads -> Values \cup {NoValue}]
    /\ spurious \in 0 .. MaxSpurious

\* A consumer that will look at the queue again without being signalled, and
\* a producer that will.
PopComing  == {t \in Consumers : pc[t] \in {"pop_lock", "pop_test"}}
PushComing == {t \in Producers : pc[t] \in {"push_lock", "push_test"}}

\* A thread about to signal the consumers, and one about to signal the
\* producers.
PushSignalling == {t \in Producers : pc[t] = "push_signal"}
PopSignalling  == {t \in Consumers : pc[t] = "pop_signal"}

\* No wakeup is lost (queue.c:22-29 and 36-43).  While a consumer sleeps,
\* every element in the queue has a thread on its way to it: a consumer that
\* is going to test size again, or a producer that has yet to signal.  The
\* same holds of the free slots while a producer sleeps.
NoLostWakeup ==
    /\ empty_cvar # {} =>
          size <= Cardinality(PopComing) + Cardinality(PushSignalling)
    /\ full_cvar # {} =>
          QUEUE_MAXLEN - size <= Cardinality(PushComing) + Cardinality(PopSignalling)

\* The facts that make the two above inductive.  A thread is past a lock and
\* before an unlock exactly while it owns the mutex; a thread is in a
\* condition variable exactly while its code waits on it; only producers
\* push and only consumers pop; a call carries an element exactly while it
\* has one; head, tail and size describe the same stretch of written slots.
LockInv == \A t \in Threads : pc[t] \in Holding <=> mutex = t

WaitInv == /\ \A t \in Threads : t \in empty_cvar <=> pc[t] = "pop_wait"
           /\ \A t \in Threads : t \in full_cvar <=> pc[t] = "push_wait"

RoleInv == /\ \A t \in Threads : pc[t] \in PushPc => t \in Producers
           /\ \A t \in Threads : pc[t] \in PopPc => t \in Consumers

ValInv == \A t \in Threads :
             IF pc[t] \in PushPc \cup {"pop_signal", "pop_unlock"}
             THEN val[t] \in Values ELSE val[t] = NoValue

RingInv == /\ tail = (head + size) % QUEUE_MAXLEN
           /\ \A i \in 1 .. size : arr[(head + (i - 1)) % QUEUE_MAXLEN] \in Values

CoreInv == TypeOK /\ LockInv /\ WaitInv /\ RoleInv /\ ValInv /\ RingInv

IInv == CoreInv /\ NoLostWakeup

\* The queue as the abstract FIFO (queue.h:1-4, 25-35): its elements are the
\* size slots from head on, and a call has taken effect once the ring is
\* updated.
items == [i \in 1 .. size |-> arr[(head + (i - 1)) % QUEUE_MAXLEN]]

PhaseOf(p) == CASE p = "idle" -> "idle"
                [] p \in {"push_lock", "push_test", "push_wait"} -> "pushing"
                [] p \in {"push_signal", "push_unlock"} -> "pushed"
                [] p \in {"pop_lock", "pop_test", "pop_wait"} -> "popping"
                [] p \in {"pop_signal", "pop_unlock"} -> "popped"

FIFO == INSTANCE BoundedFIFO WITH phase <- [t \in Threads |-> PhaseOf(pc[t])]

\* Every behaviour of the code is one of the bounded FIFO: elements leave in
\* the order they came, none is lost, repeated or invented, and a call takes
\* effect at one instant (queue.h:1-4).
RefinesFIFO == FIFO!Spec

\* With a scheduler that runs every runnable thread, no push waits while
\* there is room and no pop while there are elements (queue.h:25-35).
RefinesFairFIFO == FIFO!FairSpec
=============================================================================
