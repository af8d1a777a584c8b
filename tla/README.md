# A verification of the DSWP pass and its runtime

The repository is an LLVM pass that takes a loop apart into a pipeline of
threads (decoupled software pipelining), and the small runtime library the
transformed program is linked with. This directory holds TLA+ models of both,
the TLC runs that check them on small instances, and proofs, checked by TLAPS,
of what holds for every size.

- [The system](#the-system)
- [The modules](#the-modules)
- [The runs](#the-runs)
- [The proofs](#the-proofs)
- [What the checks found](#what-the-checks-found)
- [What is not modelled](#what-is-not-modelled)
- [Plan](#plan)

## The system

A loop goes through the pass in one sequence of calls (`DSWP::runOnLoop`,
`pipeline.cpp:145-179`); the result runs later, with the runtime.

| Part | State it keeps | Operations | What makes it correct |
|---|---|---|---|
| `runtime/queue.c` | ring `arr`, `head`, `tail`, `size`; a mutex, two condition variables | `queue_init`, `queue_push`, `queue_pop` | a FIFO; no waiter is forgotten; a push blocks only while full, a pop only while empty |
| `runtime/simple_sync.c` | `threads[NUM_THREADS]`, `data_queues[NUM_QUEUES]` | `sync_init`, `sync_delegate`, `sync_join`, `sync_produce`, `sync_consume` | join waits for all; init only resets what nobody uses |
| the transformed loop | the out struct, the position of each worker | init, delegate to `MAX_THREAD` workers, join, load liveouts; produce and consume in the workers | values meet the iteration they belong to, no deadlock, liveouts complete before they are read |
| `buildPDG.cpp` | `pdg`, `rev`, `allEdges` | register, memory and control dependences (the last on the loop peeled once) | no dependence is missed, those carried to the next iteration included |
| `buildSCC.cpp` | `used`, `list`, `sccId`, `InstInSCC`, `scc_parents`, `scc_dependents`, `dag_added` | two depth first searches | the strongly connected components, numbered so that edges ascend; every dependence between two is an edge |
| `threadPartition.cpp` | `assigned`, `estLatency`, a priority queue, `part` | deals the components to the threads | every component has one thread, and no dependence leads back |
| `CodeTransformation.cpp` | `allFunc`, `instMap`, `newToOld`, live values, dominators | `preLoopSplit`, `loopSplit`, `insertSynchronization`, `cleanup`, `clear` | every worker's graph is well formed, produces and consumes are executed equally often, in the same order of iterations |
| `pipeline.cpp`, `DSWP.h` | all of the above between loops, `generated`, `loopCounter` | `initialize`, `runOnLoop`, `addEdge` | nothing of one loop leaks into the next; generated functions are left alone |

The parts interact by shared fields inside the pass (each phase reads what the
previous one left), by the code the pass emits (calls of the five `sync_`
functions with channel and worker numbers), and, when that code runs, through
the queues and the out struct.

What is hard: the interleavings of the threads inside a queue, and of the
workers and the master over the queues, the handles and the out struct; a
creation that fails without anybody being told; a second execution of a loop
over the state the first left; a search that reads a component number before it
is assigned; the bounds (`NUM_THREADS`, `NUM_QUEUES`, the ring) that are
checked nowhere. `PROJECT.json` lists these hazards at their lines, each
with the properties that cover it or the reason none does yet.

## The modules

| Module | Models | State and actions |
|---|---|---|
| `BoundedFIFO` | what `queue.h` promises, abstractly | a sequence; a call, its effect at one instant, its return |
| `Queue` | `queue.c` | the fields of `queue_t`, the waiters of each condition variable, a place for every thread; an action for each point where another thread can get in between: lock, wait, store or take, signal, unlock, spurious wakeup |
| `SimpleSync` | `simple_sync.c` | the two arrays, the threads alive; one operator per function, for its caller to use as a step. A queue is the sequence of `BoundedFIFO`, which `Queue` is shown to implement |
| `SplitLoop` | the code `preLoopSplit` and `loopSplit` emit, running | the master's place and loop counter, a run of each worker in each execution: iteration, position; actions InitQueue, Delegate, Join, Load, and Produce, Consume, EndIteration, Finish |
| `FindSCC` | `buildSCC.cpp` | the fields of the same names and an explicit call stack; one action per call, edge and return of each search |
| `ThreadPartition` | `threadPartition.cpp` | `assigned`, `est`, the queue as a multiplicity, the thread being filled; `Deal` is a round of the inner loop |
| `Partition` | `runOnLoop` from `findSCC` to `threadPartition` | both of the above, the table of instruction latencies, and the call that hands graph and latencies over |
| `LoopGraph` | what LLVM's analyses say of a control flow graph | operators only: reachability, post-dominators, the iteration of a loop, the textbook definition of control dependence |
| `ControlDependence` | the control dependences of `buildPDG.cpp` | the search that orders the blocks (`calls`, `vis`, `bb_ordered`), and the climb over the loop peeled once, one dummy block a step |
| `LoopSplit` | `loopSplit` and `insertSynchronization`, after any partition | `thread`, `bodies`, `channels`; a step is one round of the loop over the threads; `Relevant`, `Copied` and `Target` are the blocks, instructions and branches of a thread's function |
| `Pipeline` | the functions `LoopSplit` makes, running | beside the path the sequential loop takes: the trace of each thread, the calls it has left in its block, queues, the value last consumed; actions Start, Produce, Consume, EndBlock |
| `InsertConsume` | `insertConsume` and the list of uses it changes while it walks it | the list, newest first; the consume each copy reads; one action per call |
| `RunOnLoop` | the driver over all loops of a module | the loop in work, the phase, the loops whose data each field of the pass holds, `loopCounter` and the number each loop's functions have, `generated`, whether the compiler has stopped; actions HandOver (the pass manager), Initialize, RunPhase, which completes the phase or stops |
| `MC*` | instances for TLC | |
| `QueueProofs`, `SplitLoopProofs`, `PartitionProofs` (also of `FindSCC` and `ThreadPartition`), `ControlDependenceProofs`, `LoopSplitProofs` (also of `Pipeline`), `InsertConsumeProofs`, `RunOnLoopProofs` | the theorems | |
| `BasicFacts` | lemmas several of them need | induction over sets of numbers (`UpTo`, `SmallestMember`), recursive functions (`RecursionExists`), sequences without repetition |

`LoopGraph`, `ControlDependence`, `LoopSplit` and `Pipeline` are a chain: each
module extends the one before and goes on where it ends, so `Pipeline` takes a
loop from its graph to the end of its threads. `Partition` composes `FindSCC` and
`ThreadPartition`, `SplitLoop` runs on `SimpleSync`, whose queues `Queue` refines.

Choices worth knowing:

- *Steps of the queue.* The three assignments of a ring update are one step:
  only the holder of the mutex reads or writes the ring (`LockInv`).
  `pthread_cond_wait` gives the mutex up and joins the waiters in one step, as
  POSIX says; a woken thread has to take the mutex again and goes back to the
  test of the `while`.
- *Steps of the workers.* A produce or consume is one step, the instant at
  which the queue's refinement says it takes effect. In `SplitLoop` a worker's
  loop has one basic block, and the order of its operations is chosen freely at
  the start, which covers every placement `insertProduce` and `insertConsume` can
  make in a block. In `Pipeline` the calls stand where they were inserted: a
  consume before the copy that reads it, a produce after the value.
- *A write past `threads[]`* (undefined in C) either hits padding or replaces
  some element of the first queue by `Garbage`: those are the outcomes of the
  layouts compilers produce for the two static arrays. `pthread_join` on the
  handle of a thread already joined either returns or never does.
- *A creation that fails* leaves `threads[tid]` undefined (POSIX): it keeps what it
  held, becomes zero, or is a handle no thread has.
- *Search order.* `pdg[u]` holds edges in the order they were added; `FindSCC`
  takes the edges of an instruction in any order, `ControlDependence` the
  successors of a block. *Ties* in the priority queue of `threadPartition` are
  taken in any order.
- *Loops* are natural loops with one exit whose inner loops are natural loops too
  (`IsReducible`). For a loop entered beside its header, which takes a `goto` into
  it, the one peeling of `buildPDG` does not see every dependence between
  iterations: `IterationsMissNone` fails there.
- *Instructions of a block* are numbered; the last is the terminator, and with
  several successors the one before it is the condition. Edges between blocks
  stand for those from a terminator to every instruction of a block.
- *Partitions* are all assignments that satisfy `IsPartition`, which is what
  `DependencesGoUpwards` and `EmptyLast` say of the code's own.
- *`Closed`*. A thread is closed if it has the header and, with each block, the
  branches that decide whether that block is reached. Closed threads go through
  their blocks as the loop does (`PathsKept`, `SamePath`); `Pipeline` starts only
  loops all of whose threads are closed. Those that are not are
  the subject of the configurations `entry` and `reached` below.
- *Liveouts.* No value is ever taken for one (`split_liveout`), so what a loop
  computes is what its threads leave in memory.
- *Uses.* LLVM keeps the uses of a value newest first; a use given another value
  moves to the other list, and takes the iterator of `insertConsume` with it.
- *Stops.* `error` exits the process, and a null pointer ends it too. A loop at which
  `loopSplit` (a thread without the header, line 259; a livein of a wrong type, 440),
  `insertSynchronization` (a memory dependence, 635; a value that cannot be sent, 612,
  629, 682; a use in no block, 707) or `cleanup` (an empty block, 779) stops is a kind
  of loop of its own. `getDominators` stops at a function in which an earlier loop was
  replaced, as the TODO at `CodeTransformation.cpp:490-492` says.
- *In turn.* Each value has the number of its execution. A channel is in turn
  (`InTurn`) if the sequential loop computes its value once before each use; `Surplus`
  is how much more often it computes than it uses it. What `ValuesMatch` and
  `PipelineEnds` say, they say of such channels; the findings are about the others.
- *Mutants.* Definitions whose comment starts with "Mutant" are used by no
  specification; they state plausible mistakes that each property is known to
  catch.

## The runs

| Run | Question | Bounds, and why they suffice |
|---|---|---|
| `queue` | Is a waiter ever forgotten? Does the code implement the blocking FIFO, liveness included? | 2 producers, 3 consumers, 2 slots, 2 values, 2 spurious wakeups: sleepers on either side while another thread passes, a ring that wraps, a wakeup stolen by a newcomer; no symmetry (liveness) |
| `loop_twice` | Is a loop reached twice run as a pipeline, joined, and over? What can a failed `pthread_create` do to values? | `NUM_THREADS` 4, 3 workers with channels 0-1, 0-2, 1-2, queues of 1, up to 2 iterations, 2 executions, every order of operations, up to 2 failures |
| `loop_unjoined` | (violation) finding 1, `AllLiveoutsReady` | `NUM_THREADS` 2, 3 workers: the shipped 2 and 5, reduced |
| `partition` | Are the components right, and is every one dealt, upwards, in fair shares, keeping every dependence? | every graph on 4 instructions, of which the first may depend on itself; 3 threads; 4 tables of latencies, zeros and large ones among them: components of two, chains, diamonds, more components than threads and fewer |
| `split_four` | Are the control dependences those of the textbook, within and across iterations? Do operands arrive and branches go where the loop would, in any partition? | every reducible loop of 4 blocks with up to 2 successors, 3 instructions each, 2 threads; blocks other than the header symmetric: ifs with and without else, an inner loop, several ways back |
| `split_bodies`, `split_liveout` | (violations) findings 2 and 3 | 3 blocks, 3 and 2 threads |
| `pipeline` | Do the threads follow the loop's path, take its values, and end? | a `while` and a `do while` loop with an `if`, paths of up to 6 blocks (two or three iterations), queues of 1, every partition into 3 threads that are all closed; dependences within blocks, from the header to the last block (in turn in the one loop, not in the other), and back from there to the header |
| `pipeline_starved` | (violation) finding 4, `AlwaysEnds` | the `do while` loop, 2 threads |
| `consume_orders` | Does each copy get a value of its own thread, and of its own consume? | 3 dependents, 3 later threads, every set of copies and every order of copying |
| `consume_blocks` | (violation) finding 5 | the same |
| `driver` | Does anything of one loop leak into the next? Is a loop ever left half taken apart, or given the functions of another? | 3 loops of every kind in 2 functions, in every order the loop pass manager may take |

All runs but `queue` set `CHECK_DEADLOCK FALSE`: what they model comes to an end.
That it does not stop before is what `Terminates`, `PartitionEnds` and
`PipelineEnds` say.

*Fairness.* Weak fairness per thread (`Queue`, `SplitLoop`, `Pipeline`): the operating
system runs every thread that can run. Nothing is assumed about who gets the
mutex or which waiter a signal wakes. No fairness is assumed of calls: a program
need not push or pop again. `Partition` is sequential code that goes on while it
can. Once a creation has failed nothing but safety is asked, since the
remaining workers do block for good.

*Further configurations*, to be run by hand. Each but the first has TLC show one more
thing the code does otherwise than it says, or a limit of it:

| Configuration (module) | What TLC shows |
|---|---|
| `MCSplitLoop_stray.cfg` (`MCSplitLoop`) | no violation: with `NUM_THREADS` 2, 3 workers, two executions and a failed creation, `sync_delegate` (`simple_sync.c:31`) writes a handle past the end of `threads[]`, and all it can do is to replace an element of the first queue (`Stray`); the workers that are joined have stored their liveouts |
| `MCFindSCC_edges.cfg` (`MCFindSCC`) | `dfs_reverse` (`buildSCC.cpp:77`) reads `sccId` of an instruction whose call is still running, finds 0, and records an edge from component 0 that stands for no dependence. `FalseEdgesFromFirst` says there are no other false edges, `DagAscends` that they only cost the dealing an order it need not have kept |
| `MCLoopSplit_entry.cfg` (`MCLoopSplit`) | a thread without the header has nothing to branch to from its entry (`CodeTransformation.cpp:258`) |
| `MCLoopSplit_switch.cfg` (`MCLoopSplit`) | only branches are copied as ends of blocks: a block that ends with a switch of another thread has no terminator (line 290) |
| `MCLoopSplit_reached.cfg` (`MCLoopSplit`) | the branch around the branch around an instruction is not copied (line 215), and blocks of the function are never reached |
| `MCLoopSplit_phi.cfg` (`MCLoopSplit`) | the predecessor of a phi node that the thread does not have becomes a dominator of it (line 363), which need not branch to the block of the node |
| `MCPipeline_stale.cfg` (`MCPipeline`) | `AllValuesMatch` fails for a value from a block executed more often than its user's block: the user takes that of an earlier iteration (line 594) |
| `MCInsertConsume_folded.cfg` (`InsertConsume`) | the clone of a branch that was replaced (line 347) is still a user of its condition, and belongs to no function whose name could be read (line 707) |
| `MCInsertConsume_twelve.cfg` (`InsertConsume`) | with more than ten threads the last digit of a function's name is not its thread (line 707) |

## The proofs

Proved for every value of the constants. None of the provers has induction; what
stands for it is in `BasicFacts`: a set of numbers with 0 and with every successor
holds all numbers (`UpTo`), and a set with a member has a least one
(`SmallestMember`). An induction is then over the set of the numbers for which
something holds, and a path or a sum is handled by a set closed under its steps.

- **`Queue`** (`QueueProofs`): type correctness, `NoLostWakeup`, and that every
  behaviour is one of `BoundedFIFO`. The invariant is `IInv`: the mutex is owned
  exactly by the thread in the critical section, the wait sets are the threads
  waiting, `head`, `tail` and `size` describe one stretch of written slots; and
  the counting argument of `NoLostWakeup`, which is inductive on top of those:
  each step that takes a coming thread away takes an element away as well, or
  leaves a signaller in its place. It assumes only what `QueueAssumption` says.
- **`SplitLoop`** (`SplitLoopProofs`): type correctness, `LiveoutsReady`, `QuietInit`,
  `ElementsMatch`, `NoGridlock` and `JoinedEnded`, for any number of workers, channels,
  iterations and executions, any order of operations, any length of `threads[]` and any
  failures: the theorems have no hypothesis, and the properties say themselves what they
  are about. `LiveoutsReady` and `QuietInit` are about the workers that can be joined,
  those with an entry in `threads[]` (`Joinable`): as shipped two of five.
  `ElementsMatch` and `NoGridlock` are about the executions that are `Undisturbed`: the
  first one always, so also as shipped, and the later ones if all workers can be
  joined. `NoGridlock` and the liveouts ask besides that no creation failed,
  `ElementsMatch` does not: what a failed creation leaves behind is in the queues only
  until `sync_init` comes to them (`Leftover`). A handle written past the end of
  `threads[]` may stand in the place of a value of the first queue (`Stray`), and can
  do nothing else. The heart of `IInv` is `QueueInv`: a queue holds exactly the values
  its producer is ahead of its consumer. Gridlock is excluded by looking at the worker
  that is least far: the least iteration, and in it the least worker; it can never wait
  for a full queue, and to wait for an empty one its producer would be behind it.
- **`FindSCC`** (`PartitionProofs`): `SCCTypeOK`, `DagAscends`, `DagComplete`,
  `PartsAgree`, `FalseEdgesFromFirst` and `SccCorrect`, what `ThreadPartition` and the later
  phases rely on, for every graph and every order of its edges. The invariant
  follows `Comp(i)`, the component an instruction is in or will be in once its
  call returns: edges looked at are inside one or recorded; every instruction of
  a component counted has returned, so its number is below the next one.
  For `SccCorrect`, `ReachInv` adds what the first search is for: an edge out of the
  instructions listed up to some place leads to one from which the instruction at that
  place can be reached (`LeftInv`). So, apart from what is in earlier components,
  all that leads to the root of a component can be reached from it
  (`RootLeadsBack`). To be reached is to be in every closed set; no path is counted.
- **`ThreadPartition`** (`PartitionProofs`): `Upwards`, `AllAssigned`,
  `QueuedOnce`, `EmptyLast`, `FairShares`. The invariant says that the queue holds, once each,
  exactly the components without a thread whose parents have theirs. That every
  component is dealt follows because the edges ascend: the least component left
  over would be in the queue. For the shares, `FairInv` says what each thread passed
  was left with. The sum of the latencies is a fold that takes the elements in
  some order; `SumOfOneMore` shows that the order does not matter.
- **`Partition`** (`PartitionProofs`): `DependencesGoUpwards`, `FairShares` and the action
  property `CalledRight`, of the two phases one after
  the other. `LoopInv` joins their invariants: that of the search holds throughout,
  and once there is a graph of components it is the one the search left, with the
  invariant of the dealing on it. One thing has to be added, `Bounded`: no edge leads
  to a component that does not exist. `CalledRight` has the hypotheses that `MaxNodes` and `Latencies`,
  the bounds `ThreadPartition` puts on its own inputs, leave room for a loop of
  `NumInsts` instructions; there are no more components than instructions
  because none is empty.
- **`ControlDependence`** (`ControlDependenceProofs`): `NoneMissed` for every control flow
  graph and every order of the search; `IterationsMissNone` and `NoneInvented` for
  every reducible loop with one exit. What can be
  reached is computed in layers, and shown to be the least closed set (`ReachedFacts`). That one
  block post-dominates another is shown by a `Barrier`, a set around the second, without
  the exit, that is left by the edges of the first only; such sets carry over between
  the loop and its two peeled halves. The peeling takes an edge for one to the
  next iteration by the order of the search: `DfsInv` shows that in a reducible
  loop this is so exactly if its end dominates its beginning.
- **`LoopSplit`** (`LoopSplitProofs`): `WorkKept` for any loops and dependences;
  `SplitTypeOK`, `OperandsArrive` and `PathsKept` for every reducible loop, any
  dependences between its instructions, any number of threads and every partition
  `IsPartition` admits; and together with the control dependences, that all of them
  hold of the specification the run checks (`SplitIsRight`).
  What loses the bodies of `split_bodies` loses no work, because the threads without
  instructions are the last (`EmptyLast`, which `IsPartition` repeats).
  `OperandsArrive` comes down to a branch that keeps its condition: it decides a
  block of the thread, so its own thread is not later, nor that of the condition.
- **`Pipeline`** (`LoopSplitProofs`): `SamePath`, for any path through any reducible
  loop, any dependences, partition, number of threads and length of the queues,
  when no block ends with a switch (`Switches = {}`: the terminator of such a block
  may not be copied, `MCLoopSplit_switch.cfg`). Under the same condition and no other,
  for dependences between blocks and round the loop as well: `ValuesMatch`, that a
  channel in turn hands over the values of the loop, and `Drained`, that what is left
  in any channel at the end is its `Surplus`. `StepsAreServed` says which channels are
  in turn with nothing left over, by the loop alone: those to a later instruction of
  the same block, and those between two blocks that take turns (`Alternate`: from the
  start, and again from the second, control comes to the first before the second; from
  the first it comes to the second before the first and before the exit). Among
  the others are those of `pipeline_starved` and `MCPipeline_stale.cfg`. The invariant `PipeInv`
  keeps, with that of the compiler, two facts.
  `FlowInv`: a channel holds, in order, the values its producer has come to more
  often than its consumer, and the consumer holds the last it has taken. So at a
  branch the condition is that of this visit (`ChosenIsCurrent`), whichever thread
  computes it. `Placed`: a thread has come, of the blocks it has, to as many as the
  path up to some place, and to each as often. The branch then goes where the path
  goes from that place (`BranchFollows`), and by `PathsKept` that is the next block
  of the path that the thread has (`NextStop`). That a value is the right one, and
  that as many are taken as are sent, follows by comparing the two threads of a
  channel with the one path.
- **`InsertConsume`** (`InsertConsumeProofs`): `AllReplaced`, `ThreadsApart` and
  `OwnInProgramOrder`, for any number of dependents and any copies in any order, under
  `OneDigit`: at most ten threads (there are 5), which
  `MCInsertConsume_twelve.cfg` shows to be needed. The invariant counts: a thread has as many
  copies with the old value as calls to come. In program order they are the same
  copies, so the newest use is the one the call is for.
- **`RunOnLoop`** (`RunOnLoopProofs`): `WorkersLeftAlone`, `LoopsWhole` and
  `FieldsFresh`, for any loops in any functions, any phases that stop at them and any
  order of the pass manager. For `LoopsWhole` the invariant says that the numbers given
  to loops are at most `loopCounter` and all different, and that only the loop in hand,
  which is the one the compiler stops at, can have functions and not be replaced. For
  `FieldsFresh`, `FieldsInv` says what every field holds before each of the nine phases.

Left to TLC: liveness and termination (`RefinesFairFIFO`, `Terminates`,
`PartitionEnds`, `PipelineEnds`), which the prover does not do.

## What the checks found

1. `loop_unjoined`: `sync_join` (`simple_sync.c:37`) goes through `NUM_THREADS` = 2
   entries, the pass starts `MAX_THREAD` = 5 workers. The others are not joined,
   and the master goes on, past the loads of the liveouts, while they may still be
   running. By finding 3 nothing is in the out struct at this commit; the effects on
   memory of those workers come late all the same.
2. `split_bodies`: at the first thread without instructions `loopSplit` returns
   (`CodeTransformation.cpp:233`), and the functions of the later ones, which the
   master starts as well, have no body.
3. `split_liveout`: `getLiveinfo` (line 530) looks at the value used instead of its
   user, so no value is ever found to be used after the loop.
4. `pipeline_starved`: a value computed inside an `if` and used after it is
   consumed more often than it is produced (line 594): the loop hangs.
5. `consume_blocks`: `insertConsume` (line 705) gives each consume to the newest
   use in the thread. With dependents in several blocks, which are copied in the order
   of their addresses, a copy may read the consume placed before another one.

The configurations run by hand show the others listed above.

## What is not modelled

- The memory and register dependences (`buildPDG.cpp:49-154`): LLVM's answers,
  translated edge by edge. `FindSCC` takes every graph, `Pipeline` chosen ones. A true
  memory dependence across threads stops the compiler (`CodeTransformation.cpp:635`),
  which `RunOnLoop` has as a kind of loop.
- The values of phi nodes, and what `cleanup` moves: `LoopSplit` has their predecessors
  only (lines 352-375), which already go wrong. The loops of the examples are
  compiled without optimisation and have none.
- Blocks that end with a switch: `LoopSplit` says that the terminator is not copied,
  and what becomes of a copy is left open.
- The livein half of `getLiveinfo`, which copies values into a struct and out of it in
  one order; types and casts of the values sent; instruction names.
- The number of channels against `NUM_QUEUES` (256): no small loop reaches it.
- All output (`DSWP_DEBUG.cpp`, `Utils`, `raw_os_ostream.cpp`, `runtime_debug.c`).
- `sync_tbb.cpp` and `queue_tbb.cpp`, which nothing builds; `queue_destroy`, which
  nothing calls; the tests and examples.
- The vendored oneTBB files under `include/`, `lib/`, `share/` and
  `runtime/common/`. `pipeline.cpp` includes a header of theirs and uses nothing of
  it. They are some 34 000 of the 40 000 lines of code in the repository.

## Plan

Done: the runtime, the partition, the control dependences, the split of the loop, its
execution and the driver, and the proofs of every safety property the passing runs
check. Left, the most important first:

1. A theorem that the threads of `Pipeline` never all wait while the loop is not over,
   when every channel is in turn: the argument of `NoGridlock` in `SplitLoopProofs`,
   with the place of a thread on the path for its iteration.
2. The later executions of a loop with workers that are not joined: their elements may
   be of another execution (`Undisturbed` leaves them out), and what they can do to
   the queues of the next is not said.
