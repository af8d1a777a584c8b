-------------------------- MODULE ThreadPartition --------------------------
(***************************************************************************)
(* threadPartition.cpp: the components of a loop dealt out to the threads. *)
(* A priority queue holds the components whose parents all have a thread;  *)
(* each thread in turn takes the slowest of them until it has its share of *)
(* the total latency, and the last thread takes what is left.              *)
(*                                                                         *)
(* Several components of the same latency may be on top of the queue: any  *)
(* of them is.                                                             *)
(***************************************************************************)
EXTENDS Integers, FiniteSets, Functions

CONSTANTS MAX_THREAD,   (* the threads a loop is dealt out to               *)
          Latencies,    (* what a component may cost                        *)
          MaxNodes      (* bound: the components of a loop                  *)

ASSUME ThreadAssumption ==
    /\ MAX_THREAD \in Nat \ {0}
    /\ Latencies \subseteq Nat
    /\ MaxNodes \in Nat \ {0}

VARIABLES nodes,     (* the components: 0 .. sccNum - 1                     *)
          dag,       (* the edges between them: scc_parents, scc_dependents *)
          latency,   (* sccLatency                                          *)
          assigned,  (* the thread of each component; Unassigned before     *)
          est,       (* estLatency: what each thread has taken on           *)
          queue,     (* how many times Q holds each component               *)
          thread     (* the thread being filled; MAX_THREAD at the end      *)

graphVars == <<nodes, dag, latency>>
dealVars == <<assigned, est, queue, thread>>
partVars == <<graphVars, dealVars>>

ThreadIds == 0 .. MAX_THREAD - 1
Unassigned == -2

Parents(d, v) == {u \in nodes : <<u, v>> \in d}
Dependents(d, u) == {v \in nodes : <<u, v>> \in d}

\* averLatency: integer division.
Share == SumFunction(latency) \div MAX_THREAD

\* The state before the first component is dealt: the queue holds those
\* without parents.
DealStart == /\ assigned = [c \in nodes |-> Unassigned]
             /\ est = [t \in ThreadIds |-> 0]
             /\ queue = [c \in nodes |-> IF Parents(dag, c) = {} THEN 1 ELSE 0]
             /\ thread = 0

\* What findSCC leaves: components numbered so that the edges ascend.
GraphInit == \E n \in 1 .. MaxNodes :
                /\ nodes = 0 .. n - 1
                /\ dag \in SUBSET {e \in nodes \X nodes : e[1] < e[2]}
                /\ latency \in [nodes -> Latencies]

PartInit == GraphInit /\ DealStart

QueueEmpty == \A c \in nodes : queue[c] = 0

\* Mutant: one parent with a thread is enough.
ReadyAny(u) == {v \in Dependents(dag, u) :
                   /\ assigned'[v] = Unassigned
                   /\ \E p \in Parents(dag, v) : assigned'[p] >= 0}

\* What a push adds to the queue when u gets its thread: the dependents of u
\* without a thread whose parents have theirs.
Ready(u) == {v \in Dependents(dag, u) :
                /\ assigned'[v] = Unassigned
                /\ \A p \in Parents(dag, v) : assigned'[p] >= 0}

\* Mutants: the last thread stops at its share as well; a thread is done with
\* one component.
HasShareLast == est'[thread] >= Share
HasShareOne == thread # MAX_THREAD - 1

\* The thread has its share and leaves the rest to the next.
HasShare == est'[thread] >= Share /\ thread # MAX_THREAD - 1

\* One round of the inner loop: the top of the queue goes to this thread, and
\* the thread is done when it has its share, unless it is the last.
Deal(u) == /\ thread < MAX_THREAD
           /\ queue[u] > 0
           /\ \A c \in nodes : queue[c] > 0 => latency[c] <= latency[u]
           /\ assigned' = [assigned EXCEPT ![u] = thread]
           /\ est' = [est EXCEPT ![thread] = @ + latency[u]]
           /\ queue' = [c \in nodes |-> queue[c] - (IF c = u THEN 1 ELSE 0)
                                                 + (IF c \in Ready(u) THEN 1 ELSE 0)]
           /\ thread' = IF HasShare THEN thread + 1 ELSE thread
           /\ UNCHANGED graphVars

\* Mutants: the loop over the threads never leaves the last; it leaves a
\* thread at any moment.
NextThreadNotLast == /\ thread < MAX_THREAD - 1
                     /\ QueueEmpty
                     /\ thread' = thread + 1
                     /\ UNCHANGED <<graphVars, assigned, est, queue>>

NextThreadEarly == /\ thread < MAX_THREAD
                   /\ thread' = thread + 1
                   /\ UNCHANGED <<graphVars, assigned, est, queue>>

\* The queue is empty: on to the next thread.
NextThread == /\ thread < MAX_THREAD
              /\ QueueEmpty
              /\ thread' = thread + 1
              /\ UNCHANGED <<graphVars, assigned, est, queue>>

DealNext == (\E u \in nodes : Deal(u)) \/ NextThread

PartSpec == PartInit /\ [][DealNext]_partVars

Dealt == thread = MAX_THREAD

\* part[t].
part(t) == {c \in nodes : assigned[c] = t}

-----------------------------------------------------------------------------
PartTypeOK ==
    /\ dag \subseteq nodes \X nodes
    /\ assigned \in [nodes -> ThreadIds \cup {Unassigned}]
    /\ queue \in [nodes -> Nat]
    /\ thread \in 0 .. MAX_THREAD

\* A component is never in an earlier thread than one it depends on, so every
\* produce is in a lower thread than its consume, or in the same
\* (CodeTransformation.cpp:578-579).
Upwards == \A e \in dag : assigned[e[2]] # Unassigned =>
              /\ assigned[e[1]] # Unassigned
              /\ assigned[e[1]] <= assigned[e[2]]

\* Every component has a thread at the end: the error of
\* threadPartition.cpp:83-84 is never reached.
AllAssigned == Dealt => \A c \in nodes : assigned[c] \in ThreadIds

\* No component waits in the queue twice, or after it got its thread
\* (threadPartition.cpp:50-69).
QueuedOnce == \A c \in nodes : queue[c] > 0 =>
                 queue[c] = 1 /\ assigned[c] = Unassigned

\* The threads left without a component are the last ones
\* (threadPartition.cpp:71-74).
EmptyLast == Dealt => \A t1, t2 \in ThreadIds :
                         t1 < t2 /\ part(t1) = {} => part(t2) = {}

\* A thread that leaves components to the next has taken its share, and no
\* more than the last component it took made it exceed that.
FairShares ==
    Dealt => \A t \in ThreadIds \ {MAX_THREAD - 1} :
                /\ part(t + 1) # {} => est[t] >= Share
                /\ est[t] >= Share /\ Share > 0 => \E c \in part(t) : est[t] - latency[c] < Share
                /\ est[t] = SumFunctionOnSet(latency, part(t))
=============================================================================
