----------------------------- MODULE LoopSplit -----------------------------
(***************************************************************************)
(* loopSplit and insertSynchronization (CodeTransformation.cpp): a loop    *)
(* whose instructions have their threads becomes one function per thread.  *)
(*                                                                         *)
(* Each block has Size instructions.  The last is its terminator; when the *)
(* block has several successors, the one before is the condition it reads. *)
(* The steps of ControlDependence come first; then a step is one round of  *)
(* the loop over the threads, or the insertion of the channels.            *)
(***************************************************************************)
EXTENDS ControlDependence

CONSTANTS Size,          (* instructions of a block                         *)
          MaxData,       (* bound: dependences other than of terminators    *)
          MAX_THREAD,    (* the number of threads                           *)
          Switches,      (* the blocks that end with a switch, not a branch *)
          UsedAfter      (* the instructions used after the loop            *)

ASSUME SplitAssumption == /\ Size \in Nat \ {0, 1}
                          /\ MaxData \in Nat
                          /\ MAX_THREAD \in Nat \ {0}
                          /\ Switches \subseteq Blocks
                          /\ UsedAfter \subseteq Blocks \X (1 .. Size)

Insts == Blocks \X (1 .. Size)
Branch(b) == <<b, Size>>
Condition(b) == <<b, Size - 1>>
IsBranch(u) == u[2] = Size
ThreadIds == 0 .. MAX_THREAD - 1

VARIABLES data,          (* the register and memory dependences considered  *)
          edges,         (* the dependence graph                            *)
          pdom,          (* the post-dominators of each block               *)
          assigned,      (* the thread of each instruction                  *)
          thread,        (* the thread to make the function of              *)
          bodies,        (* the threads whose functions have a body         *)
          channels       (* <<u, v, j>>: from u's thread to v's copy in j   *)

loopVars == <<buildVars, data, edges, pdom, assigned>>
splitVars == <<loopVars, thread, bodies, channels>>
-----------------------------------------------------------------------------
\* The dependence graph, with the register and memory dependences d.
ValueEdges(d) == d \cup {<<Condition(b), Branch(b)>> :
                            b \in {c \in Blocks : Cardinality(succs[c]) > 1}}

Edges(d) == ValueEdges(d) \cup
               {<<Branch(p[1]), <<p[2], k>>>> : p \in control, k \in 1 .. Size}

\* The blocks the branch of a decides.
Decided(a) == {e[2][1] : e \in {d \in edges : d[1] = Branch(a)}}

\* What Partition leaves: dependences never go to an earlier thread, and the
\* threads without instructions are the last ones.
IsPartition(t) == /\ \A e \in edges' : t[e[1]] <= t[e[2]]
                  /\ \A i \in ThreadIds : (\E u \in Insts : t[u] = i) =>
                        \A j \in 0 .. i : \E u \in Insts : t[u] = j

\* The users of u, in the loop and after it.
Users(u) == {e[2] : e \in {d \in edges : d[1] = u /\ ~IsBranch(u)}} \cup
            (IF u \in UsedAfter THEN {<<exit, 1>>} ELSE {})

\* What getLiveinfo takes for the user in a use of u: the use, converted, is
\* the value used and not the instruction that uses it.
UserSeen(u, user) == u

\* The values the threads are to store for what comes after the loop.
liveout == {u \in Insts : \E user \in Users(u) : UserSeen(u, user) \notin Insts}

Part(i) == {u \in Insts : assigned[u] = i}

\* The blocks the function of a thread has: those of its instructions and of
\* what these depend on directly (relbb).
Relevant(i) == {u[1] : u \in Part(i)} \cup
               {e[1][1] : e \in {d \in edges : d[2] \in Part(i)}}

\* The instructions copied into it: its own, and the branch of each block.
Copied(i) == Part(i) \cup {Branch(b) : b \in Relevant(i) \ Switches}

\* Mutant: the walk stops at the first post-dominator, relevant or not.
TargetExit(i, s) == IF s \in Relevant(i) THEN s ELSE exit

\* Where a branch to s goes in thread i: up the post-dominator tree until a
\* block the thread has.
Target(i, s) ==
    LET found == pdom[s] \cap Relevant(i)
    IN  IF found = {} THEN exit
        ELSE CHOOSE d \in found : found \subseteq pdom[d]

Targets(i, b) == {Target(i, s) : s \in succs[b]}

Dominators(b) == {d \in Blocks : Dominates(succs, header, d, b)}

\* What a phi node in thread i has for its predecessor p: up the dominator
\* tree until a block the thread has, its entry at the latest.
Incoming(i, p) ==
    LET found == Dominators(p) \cap Relevant(i)
    IN  IF found = {} THEN "new-entry"
        ELSE CHOOSE d \in found : found \subseteq Dominators(d)

\* Mutant: a branch stays conditional when its targets have become equal.
ConditionalAlways(i, b) == Cardinality(succs[b]) > 1

\* The copy of the branch of b still reads its condition.
Conditional(i, b) == Cardinality(Targets(i, b)) > 1

\* What copy v in thread i reads.
Reads(i, v) == IF IsBranch(v) /\ ~Conditional(i, v[1]) THEN {}
               ELSE {e[1] : e \in {d \in edges : d[2] = v /\ ~IsBranch(d[1])}}
-----------------------------------------------------------------------------
\* The sets of up to MaxData dependences.
Dependences ==
    LET between == {e \in Insts \X Insts :
                      e[1] # e[2] /\ ~IsBranch(e[1]) /\ ~IsBranch(e[2])}
        D[n \in 0 .. MaxData] ==
            IF n = 0 THEN {{}}
            ELSE LET fewer == D[n - 1]
                 IN  fewer \cup {d \cup {e} : d \in fewer, e \in between}
    IN  D[MaxData]

SplitFrom(loops) == /\ BuildFrom(loops)
                    /\ data = {} /\ edges = {} /\ pdom = <<>> /\ assigned = <<>>
                    /\ thread = -1
                    /\ bodies = {}
                    /\ channels = {}

SplitInit == SplitFrom(Loops)

BuildStep == /\ thread = -1
             /\ BuildNext
             /\ UNCHANGED <<data, edges, pdom, assigned, thread, bodies, channels>>

\* buildPDG returns, and its variables with it; what comes between it and the
\* split leaves the graph with some data dependences, a partition of it, and
\* the post-dominators.
AssignThreads(dependences) ==
    /\ Built
    /\ vis' = {} /\ bb_ordered' = <<>> /\ it' = 0
    /\ data' \in dependences
    /\ edges' = Edges(data')
    /\ assigned' \in {t \in [Insts -> ThreadIds] : IsPartition(t)}
    /\ pdom' = [b \in Blocks \cup {exit} |-> PostDominators(succs, exit, b)]
    /\ thread' = 0
    /\ UNCHANGED <<succs, calls, control, bodies, channels>>

\* Mutant: a thread whose blocks were all given to an earlier one is empty too.
SplitSeen ==
    /\ thread \in ThreadIds
    /\ bodies' = bodies \cup {thread}
    /\ thread' = IF Relevant(thread) \subseteq UNION {Relevant(i) : i \in bodies}
                 THEN MAX_THREAD ELSE thread + 1
    /\ UNCHANGED <<loopVars, channels>>

\* Mutant: one thread too many.
SplitBeyond ==
    /\ thread \in 0 .. MAX_THREAD
    /\ bodies' = bodies \cup {thread}
    /\ thread' = IF Relevant(thread) = {} THEN MAX_THREAD ELSE thread + 1
    /\ UNCHANGED <<loopVars, channels>>

\* One round of loopSplit, which returns at the first thread without blocks.
SplitThread ==
    /\ thread \in ThreadIds
    /\ bodies' = bodies \cup {thread}
    /\ thread' = IF Relevant(thread) = {} THEN MAX_THREAD ELSE thread + 1
    /\ UNCHANGED <<loopVars, channels>>

\* A channel to every later thread that has a copy of the dependent.
Channel(e, j) == e[2] \in Copied(j) /\ j > assigned[e[1]]

InsertSynchronization ==
    /\ thread = MAX_THREAD
    /\ channels' = {<<c[1][1], c[1][2], c[2]>> : c \in
                      {d \in edges \X bodies : ~IsBranch(d[1][1]) /\ Channel(d[1], d[2])}}
    /\ thread' = MAX_THREAD + 1
    /\ UNCHANGED <<loopVars, bodies>>

SplitStep == SplitThread \/ InsertSynchronization

SplitNext == BuildStep \/ AssignThreads(Dependences) \/ SplitStep

SplitSpec == SplitInit /\ [][SplitNext]_splitVars
-----------------------------------------------------------------------------
Split == thread = MAX_THREAD + 1

SplitTypeOK == /\ BuildTypeOK
               /\ thread \in -1 .. MAX_THREAD + 1
               /\ thread >= 0 => assigned \in [Insts -> ThreadIds]
               /\ bodies \subseteq ThreadIds
               /\ channels \subseteq Insts \X Insts \X ThreadIds

\* Thread i has the header, and with a block the branches that decide it.
Closed(i) == /\ header \in Relevant(i)
             /\ \A a \in Blocks : Decided(a) \cap Relevant(i) # {} => a \in Relevant(i)

\* In such a thread a branch goes where the loop would come next of what the
\* thread has, on whatever path (lines 319-331).
PathsKept ==
    Split => \A i \in bodies : Closed(i) =>
       \A b \in Relevant(i) : \A s \in succs[b] :
          Reached([c \in Blocks |-> IF c \in Relevant(i) THEN {} ELSE succs[c]], s)
             \cap (Relevant(i) \cup {exit}) = {Target(i, s)}

\* Whatever a copy reads is computed in its thread or comes by a channel: no
\* operand is left to the deleted loop (lines 450-457, 568-599).
OperandsArrive ==
    Split => \A i \in bodies : \A v \in Copied(i) : \A u \in Reads(i, v) :
                u \in Part(i) \/ <<u, v, i>> \in channels

\* No work is lost: an instruction is copied, whole and once, in its thread.
WorkKept == Split => \A u \in Insts : assigned[u] \in bodies

\* "create function body for each thread" (CodeTransformation.cpp:194).
EveryThreadHasBody == Split => bodies = ThreadIds

\* "branch from the entry block to the new header" (line 258): there is one.
EntryHasHeader == \A i \in bodies : Relevant(i) # {} => header \in Relevant(i)

\* "at a minimum we're inserting the terminator from this block" (283-284).
BlocksEnd == \A i \in bodies : \A b \in Relevant(i) : Branch(b) \in Copied(i)

\* "Find variables defined in the loop, and those that are used outside the
\* loop" (lines 516-517).
LiveoutsFound == Split => UsedAfter \subseteq liveout

\* "re-point block predecessors of phi nodes" (line 353): what a node has for
\* a predecessor in the thread is one.
PhisAgree ==
    Split => \A i \in bodies : Closed(i) =>
       \A p \in Blocks : \A b \in succs[p] \cap Relevant(i) :
          Incoming(i, p) \in Relevant(i) /\ b \in Targets(i, Incoming(i, p))

\* "figure out which blocks we use or are dependent on in this thread"
\* (line 199): a block of a thread that has a way in can be come to.
BlocksReached ==
    \A i \in bodies : header \in Relevant(i) =>
       Relevant(i) \subseteq
          Reached([b \in Relevant(i) |-> Targets(i, b)], header)
=============================================================================
