----------------------------- MODULE SplitLoop -----------------------------
(***************************************************************************)
(* A loop after the pass, running: the block that replaces it in the       *)
(* master (preLoopSplit), the functions of the MAX_THREAD workers          *)
(* (loopSplit, insertProduce, insertConsume) and the library they share.   *)
(*                                                                         *)
(* The loops are those with one block: a worker executes each of its       *)
(* produces and consumes once in an iteration.  They stand in the order of *)
(* the instructions they were inserted at, which is any order: Init picks  *)
(* one for each worker.  The loop may be reached several times.            *)
(***************************************************************************)
EXTENDS SimpleSync, FiniteSets, Functions

CONSTANTS MAX_THREAD,   (* the number of workers                            *)
          uthread,      (* the worker that produces on each channel         *)
          vthread,      (* the worker that consumes from each channel       *)
          Executions,   (* bound: times the loop is reached                 *)
          MaxTrips      (* bound: iterations of one execution               *)

Workers == 0 .. MAX_THREAD - 1

\* Channel numbers count up from 0 and go upwards in threads
\* (CodeTransformation.cpp:570-597); the queues in use are all the queues.
ASSUME SplitAssumption ==
    /\ MAX_THREAD \in Nat \ {0}
    /\ Executions \in Nat \ {0}
    /\ MaxTrips \in Nat \ {0}
    /\ uthread \in [Queues -> Workers]
    /\ vthread \in [Queues -> Workers]
    /\ \A q \in Queues : uthread[q] < vthread[q]

Execs == 1 .. Executions

\* A run of worker w: its thread in execution x of the loop.
Runs == Execs \X Workers

ASSUME NoThreadAssumption == NoThread \notin Runs

\* The channels a worker produces on or consumes from.
Channels(w) == {q \in Queues : w \in {uthread[q], vthread[q]}}
NumOps(w) == Cardinality(Channels(w))

VARIABLES master,  (* where the replacing block is                          *)
          next,    (* the queue, worker or thread its current loop is at    *)
          exec,    (* the execution of the loop it is in                    *)
          trips,   (* the iterations each execution takes                   *)
          order,   (* order[w][q]: when in an iteration w comes to q        *)
          iter,    (* the iterations a run has completed                    *)
          pos,     (* the produce or consume a run is at                    *)
          stored   (* the runs whose liveouts are in the out struct         *)

masterVars == <<master, next, exec>>
workerVars == <<iter, pos, stored>>
fixed == <<trips, order>>
vars == <<syncVars, masterVars, workerVars, fixed>>

\* The orders the instructions of the workers may stand in.
Orders == {o \in [Workers -> UNION {[Channels(w) -> 1 .. NumOps(w)] : w \in Workers}] :
             \A w \in Workers : o[w] \in Bijection(Channels(w), 1 .. NumOps(w))}

Init == /\ SyncStart
        /\ master = "init"
        /\ next = 0
        /\ exec = 1
        /\ trips \in [Execs -> 1 .. MaxTrips]
        /\ order \in Orders
        /\ iter = [r \in Runs |-> 0]
        /\ pos = [r \in Runs |-> 1]
        /\ stored = {}

-----------------------------------------------------------------------------
(* The block that replaces the loop: sync_init, a sync_delegate for each    *)
(* worker, sync_join, the loads of the liveouts (lines 97-171).             *)

Advance(bound, place) == IF next + 1 < bound
                         THEN next' = next + 1 /\ UNCHANGED master
                         ELSE next' = 0 /\ master' = place

InitQueue == /\ master = "init"
             /\ sync_init(next)
             /\ Advance(NUM_QUEUES, "delegate")
             /\ UNCHANGED <<exec, workerVars, fixed>>

Delegate == /\ master = "delegate"
            /\ sync_delegate(next, <<exec, next>>)
            /\ Advance(MAX_THREAD, "join")
            /\ UNCHANGED <<exec, workerVars, fixed>>

Join == /\ master = "join"
        /\ sync_join(next)
        /\ Advance(NUM_THREADS, "load")
        /\ UNCHANGED <<exec, workerVars, fixed>>

\* The liveouts are read, and the program goes on, perhaps to the loop again.
Load == /\ master = "load"
        /\ IF exec < Executions
           THEN master' = "init" /\ exec' = exec + 1
           ELSE master' = "done" /\ UNCHANGED exec
        /\ UNCHANGED <<next, syncVars, workerVars, fixed>>

Master == InitQueue \/ Delegate \/ Join \/ Load

-----------------------------------------------------------------------------
(* A worker: run r = <<x, w>> is worker w of execution x.                   *)

\* The call of sync_produce or sync_consume that r is at, if any.
At(r, q) == /\ q \in Channels(r[2])
            /\ order[r[2]][q] = pos[r]
            /\ iter[r] < trips[r[1]]

\* The values of iteration n of execution x travel as <<x, n>>.
Produce(r, q) == /\ At(r, q)
                 /\ uthread[q] = r[2]
                 /\ sync_produce(<<r[1], iter[r] + 1>>, q)
                 /\ pos' = [pos EXCEPT ![r] = @ + 1]
                 /\ UNCHANGED <<iter, stored, masterVars, fixed>>

Consume(r, q) == /\ At(r, q)
                 /\ vthread[q] = r[2]
                 /\ sync_consume(q)
                 /\ pos' = [pos EXCEPT ![r] = @ + 1]
                 /\ UNCHANGED <<iter, stored, masterVars, fixed>>

\* The branch at the end of the block.
EndIteration(r) == /\ iter[r] < trips[r[1]]
                   /\ pos[r] = NumOps(r[2]) + 1
                   /\ iter' = [iter EXCEPT ![r] = @ + 1]
                   /\ pos' = [pos EXCEPT ![r] = 1]
                   /\ UNCHANGED <<stored, syncVars, masterVars, fixed>>

\* new-exit: the liveouts of the worker go to the out struct, and it returns.
Finish(r) == /\ iter[r] = trips[r[1]]
             /\ stored' = stored \cup {r}
             /\ ThreadReturns(r)
             /\ UNCHANGED <<iter, pos, masterVars, fixed>>

Worker(r) == /\ r \in alive
             /\ \/ \E q \in Queues : Produce(r, q) \/ Consume(r, q)
                \/ EndIteration(r)
                \/ Finish(r)

Next == Master \/ \E r \in Runs : Worker(r)

Spec == Init /\ [][Next]_vars

\* The master and the workers are threads of the operating system.
FairSpec == /\ Spec
            /\ WF_vars(Master)
            /\ \A r \in Runs : WF_vars(Worker(r))

-----------------------------------------------------------------------------
Elems == (Execs \X (1 .. MaxTrips)) \cup {Garbage}

TypeOK ==
    /\ threads \in [0 .. NUM_THREADS - 1 -> Runs \cup {NoThread}]
    /\ data_queues \in [Queues -> Seq(Elems)]
    /\ alive \subseteq Runs
    /\ failures \in 0 .. MaxFailures
    /\ master \in {"init", "delegate", "join", "load", "done"}
    /\ next \in Nat
    /\ exec \in Execs
    /\ trips \in [Execs -> 1 .. MaxTrips]
    /\ order \in Orders
    /\ iter \in [Runs -> 0 .. MaxTrips]
    /\ pos \in [Runs -> Nat]
    /\ \A r \in Runs : pos[r] \in 1 .. NumOps(r[2]) + 1
    /\ stored \subseteq Runs

\* The workers sync_join can wait for: those with an entry in threads[].
Joinable == {w \in Workers : w < NUM_THREADS}

\* The code joins the workers back before it loads the liveouts
\* (CodeTransformation.cpp:138-145, 471-484): at the load every worker of the
\* execution has written its own, unless a thread could not be created.
AllLiveoutsReady ==
    failures = 0 /\ master = "load" => \A w \in Workers : <<exec, w>> \in stored

\* Those sync_join can wait for have (simple_sync.c:37).
LiveoutsReady ==
    failures = 0 /\ master = "load" => \A w \in Joinable : <<exec, w>> \in stored

\* A queue is initialised (simple_sync.c:47-49, queue.c:4-11) only while none of
\* the workers that can be joined is running, and, if all can be and all were
\* created, while nothing is in it.
QuietInit ==
    master = "init" =>
       /\ \A r \in alive : r[2] \notin Joinable
       /\ failures = 0 /\ Joinable = Workers =>
             \A q \in Queues : data_queues[q] = <<>>

\* No worker of an earlier execution can be running: there was none, or all
\* its workers were joined.
Undisturbed == exec = 1 \/ Joinable = Workers

\* A handle written past the end of threads[] (simple_sync.c:31).
Stray(q, e) == q = 0 /\ e = Garbage /\ Joinable # Workers

\* A worker in iteration n of execution x finds, at every consume, the value
\* produced in that iteration of that execution: never one of an earlier
\* iteration or of an earlier execution, whichever creations failed.  All a
\* stray handle can do is to stand in the place of a value in the first queue.
ElementsMatch ==
    Undisturbed =>
       \A r \in alive, q \in Queues :
          At(r, q) /\ vthread[q] = r[2] /\ data_queues[q] # <<>> =>
             LET e == Head(data_queues[q])
             IN  e = <<r[1], iter[r] + 1>> \/ Stray(q, e)

\* A worker that is not blocked in a call.
CanStep(r) == \/ \E q \in Queues : /\ At(r, q)
                                   /\ IF uthread[q] = r[2]
                                      THEN Len(data_queues[q]) < QUEUE_MAXLEN
                                      ELSE data_queues[q] # <<>>
              \/ iter[r] < trips[r[1]] /\ pos[r] = NumOps(r[2]) + 1
              \/ iter[r] = trips[r[1]]

\* The workers never all wait for each other, in whatever order their
\* produces and consumes stand and however short the queues are: once all
\* are started, one of those that have not returned can go on.
NoGridlock ==
    Undisturbed /\ failures = 0 /\ master \in {"join", "load", "done"} =>
       alive = {} \/ \E r \in alive : CanStep(r)

\* A thread whose handle the library kept has ended when the join is over
\* (simple_sync.c:34-42).
JoinedEnded ==
    master = "load" =>
       \A i \in 0 .. NUM_THREADS - 1 : threads[i] \notin alive

-----------------------------------------------------------------------------
(* The strengthening that makes these inductive.                            *)

\* The creation of the thread of r has been tried.
Started(r) == \/ r[1] < exec
              \/ /\ r[1] = exec
                 /\ \/ master = "delegate" /\ r[2] < next
                    \/ master \in {"join", "load", "done"}

\* The loops of the master stay within their bounds.
MasterInv == /\ master = "init" => next \in Queues
             /\ master = "delegate" => next \in Workers
             /\ master = "join" => next \in 0 .. NUM_THREADS - 1
             /\ master \in {"load", "done"} => next = 0

\* A run is alive, or over, once it is started, unless its creation failed.
RunInv == \A r \in Runs :
             /\ r \notin alive \cup stored => iter[r] = 0 /\ pos[r] = 1
             /\ r \in alive \cup stored => Started(r)
             /\ failures = 0 /\ Started(r) => r \in alive \cup stored
             /\ r \in alive => r \notin stored
             /\ r \in stored => iter[r] = trips[r[1]]
             /\ iter[r] <= trips[r[1]]
             /\ iter[r] = trips[r[1]] => pos[r] = 1

\* A thread that can be joined runs only until it has been.
JoinInv == \A r \in alive : r[2] \in Joinable =>
              /\ r[1] = exec
              /\ threads[r[2]] = r
              /\ master \in {"delegate", "join"}
              /\ master = "join" => next <= r[2]

\* How often a run has been through its operation on channel q.
Made(r, q) == iter[r] + (IF order[r[2]][q] < pos[r] THEN 1 ELSE 0)

Produced(q) == Made(<<exec, uthread[q]>>, q)
Consumed(q) == Made(<<exec, vthread[q]>>, q)

\* What an execution cut short by a failed creation left, to be initialised.
Leftover(q) == failures > 0 /\ master = "init" /\ next <= q

\* A queue holds the values its producer is ahead of its consumer, in order.
QueueInv == \A q \in Queues :
               Undisturbed /\ ~Leftover(q) =>
                  /\ Produced(q) - Consumed(q) \in 0 .. QUEUE_MAXLEN
                  /\ Len(data_queues[q]) = Produced(q) - Consumed(q)
                  /\ \A i \in 1 .. Len(data_queues[q]) :
                        \/ data_queues[q][i] = <<exec, Consumed(q) + i>>
                        \/ Stray(q, data_queues[q][i])

IInv == TypeOK /\ MasterInv /\ RunInv /\ JoinInv /\ QueueInv

-----------------------------------------------------------------------------
\* Every execution of the loop comes to its end, and its threads with it, unless
\* a thread could not be created.
Terminates == <>(failures > 0 \/ (master = "done" /\ alive = {}))
=============================================================================
