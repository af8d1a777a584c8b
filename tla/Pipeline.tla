------------------------------ MODULE Pipeline ------------------------------
(***************************************************************************)
(* The functions LoopSplit makes, running: each thread goes through its    *)
(* copies of the blocks, consuming before and producing after the          *)
(* instructions the calls were inserted at, beside the sequential loop the *)
(* threads stand for, which takes some path from the header to the exit.   *)
(*                                                                         *)
(* A value is the number of its execution: the n-th value of u is what the *)
(* sequential loop computes when it comes to u for the n-th time.          *)
(***************************************************************************)
EXTENDS LoopSplit

CONSTANTS Flows, Deps,    (* the loops, and the dependences each may have   *)
          Capacity,       (* what a queue holds                             *)
          MaxPath         (* bound: blocks the sequential loop goes through *)

ASSUME PipelineAssumption == /\ Capacity \in Nat \ {0}
                             /\ MaxPath \in Nat
                             /\ Flows \subseteq Loops
                             /\ Deps \subseteq SUBSET (Insts \X Insts)

VARIABLES path,           (* the blocks of the sequential loop, then exit   *)
          trace,          (* the blocks each thread has come to             *)
          left,           (* the channels it has yet to use in the last one *)
          queues,         (* what is in each channel                        *)
          held            (* the value last consumed from each channel      *)

runVars == <<path, trace, left, queues, held>>
pipeVars == <<splitVars, runVars>>

PipeInit == /\ SplitFrom(Flows)
            /\ path = <<>> /\ trace = <<>> /\ left = <<>>
            /\ queues = <<>> /\ held = <<>>

Compile == /\ BuildStep \/ AssignThreads(Deps) \/ SplitStep
           /\ UNCHANGED runVars

\* The threads that do more than return.
Workers == {i \in bodies : Relevant(i) # {}}

Paths == {p \in UNION {[1 .. n -> Blocks] : n \in 1 .. MaxPath} :
             /\ p[1] = header
             /\ \A n \in 1 .. Len(p) - 1 : p[n + 1] \in succs[p[n]]
             /\ exit \in succs[p[Len(p)]]}

Produces(i, c) == assigned[c[1]] = i
Consumes(i, c) == c[3] = i

\* Mutant: nothing is consumed for a branch that reads no condition.
OpsOfReaders(i, b) == {c \in channels : \/ Produces(i, c) /\ c[1][1] = b
                                        \/ Consumes(i, c) /\ c[2][1] = b /\ Reads(i, c[2]) # {}}

\* The channels thread i uses in block b: after the instruction it produces
\* for, before the one it consumes for.
Ops(i, b) == {c \in channels : \/ Produces(i, c) /\ c[1][1] = b
                               \/ Consumes(i, c) /\ c[2][1] = b}

Place(i, c) == IF Produces(i, c) THEN 2 * c[1][2] ELSE 2 * c[2][2] - 1

\* The loop is reached and the threads start, at their copies of the header.
Start == /\ Split
         /\ path = <<>>
         /\ \A i \in Workers : Closed(i)
         /\ path' \in {Append(p, exit) : p \in Paths}
         /\ trace' = [i \in Workers |-> <<header>>]
         /\ left' = [i \in Workers |-> Ops(i, header)]
         /\ queues' = [c \in channels |-> <<>>]
         /\ held' = [c \in channels |-> 0]
         /\ UNCHANGED splitVars

At(i) == trace[i][Len(trace[i])]

\* How often b is among the first n elements of s.
Times(s, n, b) == Cardinality({k \in 1 .. n : s[k] = b})
Visits(i) == Times(trace[i], Len(trace[i]), At(i))

\* The next call of thread i; those at one place stand in any order.
IsNext(i, c) == /\ c \in left[i]
                /\ \A d \in left[i] : Place(i, c) <= Place(i, d)
                /\ left' = [left EXCEPT ![i] = @ \ {c}]
                /\ UNCHANGED <<splitVars, path, trace>>

Produce(i, c) == /\ IsNext(i, c)
                 /\ Produces(i, c)
                 /\ Len(queues[c]) < Capacity
                 /\ queues' = [queues EXCEPT ![c] = Append(@, Visits(i))]
                 /\ UNCHANGED held

Consume(i, c) == /\ IsNext(i, c)
                 /\ Consumes(i, c)
                 /\ queues[c] # <<>>
                 /\ held' = [held EXCEPT ![c] = Head(queues[c])]
                 /\ queues' = [queues EXCEPT ![c] = Tail(@)]

\* Where the n-th execution of b is on the path; 0 when there is none.
Position(b, n) == LET found == {k \in DOMAIN path : path[k] = b /\ Times(path, k, b) = n}
                  IN  IF found = {} THEN 0 ELSE CHOOSE k \in found : TRUE

\* The execution of the condition of b the branch in thread i goes by; 0, none,
\* when it is left with the undefined value of the deleted loop.
Chosen(i, b) == LET c == <<Condition(b), Branch(b), i>>
                IN  IF assigned[Condition(b)] = i THEN Visits(i)
                    ELSE IF c \in channels THEN held[c] ELSE 0

\* Mutant: the calls after the branch are never come to.
EndBlockEarly(i) ==
    /\ At(i) # exit
    /\ \A c \in left[i] : Place(i, c) >= 2 * Size - 2
    /\ \E s \in succs[At(i)] :
          /\ Conditional(i, At(i)) /\ Position(At(i), Chosen(i, At(i))) # 0
                => s = path[Position(At(i), Chosen(i, At(i))) + 1]
          /\ trace' = [trace EXCEPT ![i] = Append(@, Target(i, s))]
          /\ left' = [left EXCEPT ![i] = Ops(i, Target(i, s))]
    /\ UNCHANGED <<splitVars, path, queues, held>>

\* The branch; by a value the loop never computes it goes either way.
EndBlock(i) ==
    /\ At(i) # exit
    /\ left[i] = {}
    /\ \E s \in succs[At(i)] :
          /\ Conditional(i, At(i)) /\ Position(At(i), Chosen(i, At(i))) # 0
                => s = path[Position(At(i), Chosen(i, At(i))) + 1]
          /\ trace' = [trace EXCEPT ![i] = Append(@, Target(i, s))]
          /\ left' = [left EXCEPT ![i] = Ops(i, Target(i, s))]
    /\ UNCHANGED <<splitVars, path, queues, held>>

Worker(i) == \/ \E c \in channels : Produce(i, c) \/ Consume(i, c)
             \/ EndBlock(i)

Running == path # <<>>

PipeNext == Compile \/ Start \/ (Running /\ \E i \in Workers : Worker(i))

PipeSpec == PipeInit /\ [][PipeNext]_pipeVars

\* The threads are threads of the operating system.
PipeFairSpec == /\ PipeSpec
                /\ \A i \in ThreadIds : WF_pipeVars(Running /\ i \in Workers /\ Worker(i))
-----------------------------------------------------------------------------
Ended == Running /\ \A i \in Workers : At(i) = exit

\* The blocks of the path thread i comes to, how many are among the first k,
\* and which is the n-th.
Stops(i) == Relevant(i) \cup {exit}
Rank(i, k) == Cardinality({m \in 1 .. k : path[m] \in Stops(i)})
IsStop(i, n, b) == \E k \in DOMAIN path : path[k] = b /\ b \in Stops(i) /\ Rank(i, k) = n

\* How far the path is when the n-th value of v of channel c is computed, its
\* k-th block being that of v, as far as u is concerned.
Before(c, k) == IF c[1][1] = c[2][1] /\ c[1][2] >= c[2][2] THEN k - 1 ELSE k

\* The sequential loop computes u once before each v; and never after the last.
InTurn(c) == \A k \in DOMAIN path : path[k] = c[2][1] =>
                Times(path, Before(c, k), c[1][1]) = Times(path, k, c[2][1])
Surplus(c) == Times(path, Len(path), c[1][1]) - Times(path, Len(path), c[2][1])

\* The value thread i is about to consume from c, and the one the sequential
\* loop has there: the last before.
Consuming(i, c) == c \in left[i] /\ Consumes(i, c) /\ queues[c] # <<>>
ValueMatches(i, c) ==
    Head(queues[c]) = Times(path, Before(c, Position(At(i), Visits(i))), c[1][1])

\* What a thread consumes is the value the sequential loop would have there,
\* if that computes the two in turn (insertProduce, insertConsume).
ValuesMatch ==
    Running => \A i \in Workers, c \in channels :
                  Consuming(i, c) /\ InTurn(c) => ValueMatches(i, c)

\* "Legal produce/consume dependences only go *upwards* in thread counts"
\* (CodeTransformation.cpp:578): whatever the two ends, it is that value.
AllValuesMatch ==
    Running => \A i \in Workers, c \in channels : Consuming(i, c) => ValueMatches(i, c)

\* A thread goes through those blocks of the path that it has, in order: its
\* n-th block is the n-th of them.
SamePath ==
    Running => \A i \in Workers : \A n \in DOMAIN trace[i] : IsStop(i, n, trace[i][n])

\* What is left in a channel at the end is what the loop computes more often
\* than it uses it, so nothing if it does both in turn (lines 594-596).
Drained == Ended => \A c \in channels : Len(queues[c]) = Surplus(c)

\* The threads do not wait for one another in a circle, or for ever, when what
\* they send one another is computed and used in turn.
PipelineEnds ==
    (Running /\ \A c \in channels : InTurn(c) /\ Surplus(c) = 0) ~> Ended

\* "Legal produce/consume dependences only go *upwards* in thread counts"
\* (CodeTransformation.cpp:578): that suffices for the threads to end.
AlwaysEnds == Running ~> Ended
=============================================================================
