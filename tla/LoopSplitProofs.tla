-------------------------- MODULE LoopSplitProofs --------------------------
(***************************************************************************)
(* The functions loopSplit makes of a loop, of any number of blocks, for   *)
(* any partition of its dependence graph and any number of threads: no     *)
(* instruction is lost, whatever a copy reads arrives, and the copies go   *)
(* where the loop goes.  Then those functions running, on any path through *)
(* the loop and with queues of any length.                                 *)
(***************************************************************************)
EXTENDS Pipeline, ControlDependenceProofs

\* The compiler, when the dependences other than of terminators are one of d.
CompileNext(d) == BuildStep \/ AssignThreads(d) \/ SplitStep

-----------------------------------------------------------------------------
(* loopSplit returns at the first thread without blocks; those after the    *)
(* first thread without instructions have none either.                      *)

\* The threads without instructions are the last ones.
Contiguous == \A i \in ThreadIds : Part(i) # {} => \A j \in 0 .. i : Part(j) # {}

\* While the loop over the threads runs, those before the current one have
\* their bodies; once it has ended, the others have nothing to do.
WorkInv == /\ thread \in -1 .. MAX_THREAD + 1
           /\ bodies \subseteq ThreadIds
           /\ thread = -1 => bodies = {}
           /\ thread >= 0 => /\ it = 0
                             /\ assigned \in [Insts -> ThreadIds]
                             /\ Contiguous
           /\ thread \in ThreadIds => bodies = 0 .. thread - 1
           /\ thread >= MAX_THREAD => \A j \in ThreadIds \ bodies : Part(j) = {}

\* A thread without blocks has no instructions.
LEMMA NoBlocks == ASSUME NEW i, Relevant(i) = {}
                  PROVE  Part(i) = {}
  BY DEF Relevant

LEMMA RoundKeeps == WorkInv /\ SplitThread => WorkInv'
<1> SUFFICES ASSUME WorkInv, SplitThread PROVE WorkInv'
  OBVIOUS
<1> USE SplitAssumption DEF ThreadIds
<1>1. /\ thread \in ThreadIds /\ thread \in Nat /\ MAX_THREAD \in Nat
      /\ bodies = 0 .. thread - 1
      /\ bodies' = bodies \cup {thread}
      /\ thread' = IF Relevant(thread) = {} THEN MAX_THREAD ELSE thread + 1
      /\ UNCHANGED <<it, assigned>>
      /\ Contiguous /\ it = 0 /\ assigned \in [Insts -> ThreadIds]
  BY DEF SplitThread, WorkInv, loopVars, buildVars
<1>2. bodies' = 0 .. thread
  BY <1>1
<1>3. \A j \in ThreadIds : Part(j)' = Part(j)
  BY <1>1 DEF Part
<1>4. Contiguous'
  BY <1>1, <1>3 DEF Contiguous
<1>5. CASE Relevant(thread) = {}
  <2>1. Part(thread) = {} /\ thread' = MAX_THREAD
    BY <1>1, <1>5, NoBlocks
  <2>2. \A j \in ThreadIds \ bodies' : Part(j) = {}
    <3> SUFFICES ASSUME NEW j \in ThreadIds, j \notin bodies', Part(j) # {}
                 PROVE  FALSE
      OBVIOUS
    <3>1. thread \in 0 .. j
      BY <1>1, <1>2
    <3> QED BY <1>1, <2>1, <3>1 DEF Contiguous
  <2> QED BY <1>1, <1>3, <1>4, <2>1, <2>2 DEF WorkInv
<1>6. CASE Relevant(thread) # {}
  <2>1. thread' = thread + 1
    BY <1>1, <1>6
  <2>2. thread' >= MAX_THREAD => ThreadIds \subseteq bodies'
    BY <1>1, <1>2, <2>1
  <2>3. thread' \in ThreadIds => bodies' = 0 .. thread' - 1
    BY <1>1, <1>2, <2>1
  <2> QED BY <1>1, <1>4, <2>1, <2>2, <2>3 DEF WorkInv
<1> QED BY <1>5, <1>6

LEMMA PartitionComes == ASSUME NEW d, WorkInv, AssignThreads(d)
                        PROVE  WorkInv'
<1> USE SplitAssumption DEF ThreadIds
<1>1. /\ thread = -1 /\ bodies = {}
  <2>1. thread \in -1 .. MAX_THREAD + 1 /\ ~(thread >= 0)
    BY NotBuilt DEF WorkInv, AssignThreads
  <2> QED BY <2>1 DEF WorkInv
<1>2. /\ it' = 0 /\ thread' = 0 /\ bodies' = {}
      /\ assigned' \in [Insts -> ThreadIds]
      /\ \A i \in ThreadIds : (\E u \in Insts : assigned'[u] = i) =>
            \A j \in 0 .. i : \E u \in Insts : assigned'[u] = j
  BY <1>1 DEF AssignThreads, IsPartition
<1>3. \A i \in ThreadIds : Part(i)' # {} <=> \E u \in Insts : assigned'[u] = i
  BY DEF Part
<1>4. Contiguous'
  BY <1>2, <1>3 DEF Contiguous
<1> QED BY <1>2, <1>4 DEF WorkInv

LEMMA WorkStart == ASSUME NEW loops, SplitFrom(loops)
                   PROVE  WorkInv
  BY SplitAssumption DEF SplitFrom, WorkInv, ThreadIds

LEMMA CompileKeeps ==
  ASSUME NEW d, WorkInv, CompileNext(d)
  PROVE  WorkInv'
<1> USE SplitAssumption DEF ThreadIds
<1>1. CASE BuildStep
  <2>1. thread = -1 /\ UNCHANGED <<thread, bodies>>
    BY <1>1 DEF BuildStep
  <2> QED BY <2>1 DEF WorkInv
<1>2. CASE InsertSynchronization
  <2>1. /\ thread = MAX_THREAD /\ thread' = MAX_THREAD + 1
        /\ UNCHANGED <<it, assigned, bodies>>
    BY <1>2 DEF InsertSynchronization, loopVars, buildVars
  <2>2. \A j \in ThreadIds : Part(j)' = Part(j)
    BY <2>1 DEF Part
  <2> QED BY <2>1, <2>2 DEF WorkInv, Contiguous
<1> QED BY <1>1, <1>2, RoundKeeps, PartitionComes DEF CompileNext, SplitStep

LEMMA StutterKeeps == WorkInv /\ UNCHANGED splitVars => WorkInv'
<1> SUFFICES ASSUME WorkInv, UNCHANGED splitVars PROVE WorkInv'
  OBVIOUS
<1> USE SplitAssumption DEF ThreadIds
<1>1. UNCHANGED <<it, assigned, thread, bodies>>
  BY DEF splitVars, loopVars, buildVars
<1>2. \A j \in ThreadIds : Part(j)' = Part(j)
  BY <1>1 DEF Part
<1> QED BY <1>1, <1>2 DEF WorkInv, Contiguous

LEMMA NothingLeftOver == WorkInv => WorkKept
<1> SUFFICES ASSUME WorkInv, Split, NEW u \in Insts PROVE assigned[u] \in bodies
  BY DEF WorkKept
<1>1. thread >= MAX_THREAD /\ thread >= 0
  BY SplitAssumption DEF Split
<1>2. assigned[u] \in ThreadIds /\ u \in Part(assigned[u])
  BY <1>1 DEF WorkInv, Part
<1> QED BY <1>1, <1>2 DEF WorkInv

\* Every instruction is in the function of its thread, although loopSplit
\* returns early (CodeTransformation.cpp:227-234), whatever the loops and the
\* dependences considered: those of Pipeline as well as those of LoopSplit.
THEOREM NoWorkIsLost ==
  ASSUME NEW CONSTANT loops, NEW CONSTANT d
  PROVE  SplitFrom(loops) /\ [][CompileNext(d)]_splitVars => []WorkKept
<1>1. SplitFrom(loops) => WorkInv
  BY WorkStart
<1>2. WorkInv /\ [CompileNext(d)]_splitVars => WorkInv'
  BY CompileKeeps, StutterKeeps
<1> QED BY <1>1, <1>2, NothingLeftOver, PTL

-----------------------------------------------------------------------------
(* What the split works on: a dependence graph that misses no dependence,   *)
(* and a partition no dependence of which goes back.                        *)

DataSets == SUBSET SUBSET (Insts \X Insts)

GraphInv ==
    /\ thread = -1 => DfsInv /\ ClimbInv
    /\ thread >= 0 => /\ ~Built
                      /\ calls = <<>> /\ vis = {} /\ bb_ordered = <<>> /\ it = 0
                      /\ succs \in GoodGraphs
                      /\ control \subseteq Blocks \X Blocks
                      /\ Decisions(succs, exit) \subseteq control
                      /\ data \subseteq Insts \X Insts
                      /\ edges = Edges(data)
                      /\ assigned \in [Insts -> ThreadIds]
                      /\ \A e \in edges : assigned[e[1]] <= assigned[e[2]]
                      /\ pdom = [b \in Blocks \cup {exit} |-> PostDominators(succs, exit, b)]

\* The channels are there once they are inserted.
ChannelInv == IF Split
              THEN channels = {<<c[1][1], c[1][2], c[2]>> : c \in
                      {d \in edges \X bodies : ~IsBranch(d[1][1]) /\ Channel(d[1], d[2])}}
              ELSE channels = {}

CompileInv == WorkInv /\ GraphInv /\ ChannelInv

LEMMA ControlOfBlocks == SearchInv /\ ClimbInv => control \subseteq Blocks \X Blocks
<1> SUFFICES ASSUME SearchInv, ClimbInv, NEW e \in control PROVE e \in Blocks \X Blocks
  OBVIOUS
<1>1. PICK n \in 0 .. it - 1 : \E c \in Climbed(dummylist(n)) : e = <<dummylist(n)[1], c[1]>>
  BY DEF ClimbInv
<1>2. PICK c \in Climbed(dummylist(n)) : e = <<dummylist(n)[1], c[1]>>
  BY <1>1
<1>3. c \in Dummies
  BY DummyFacts DEF Climbed, ClimbToExit, PostDominators
<1>4. dummylist(n)[1] \in Blocks
  <2>1. /\ Len(bb_ordered) \in Nat /\ bb_ordered \in [1 .. Len(bb_ordered) -> Blocks]
        /\ it \in 0 .. 2 * Len(bb_ordered)
    BY DEF SearchInv
  <2>2. Len(bb_ordered) - (n \div 2) \in 1 .. Len(bb_ordered)
    BY <2>1
  <2> QED BY <2>1, <2>2 DEF dummylist
<1> QED BY <1>2, <1>3, <1>4 DEF Dummies

LEMMA GraphStart == ASSUME NEW loops \in SUBSET GoodGraphs, SplitFrom(loops)
                    PROVE  GraphInv /\ ChannelInv
<1>1. loops \in SUBSET AnyGraphs
  BY DEF GoodGraphs
<1>2. DfsInv /\ ClimbInv
  BY <1>1, DfsStart, SearchStart DEF SplitFrom
<1> QED BY <1>2, SplitAssumption DEF SplitFrom, GraphInv, ChannelInv, Split

LEMMA GraphBuilt == ASSUME CompileInv, BuildStep
                    PROVE  GraphInv' /\ ChannelInv'
<1>1. /\ thread = -1 /\ thread' = -1 /\ BuildNext
      /\ UNCHANGED <<bodies, channels>>
  BY DEF BuildStep
<1>2. DfsInv' /\ ClimbInv'
  BY <1>1, DfsKeeps DEF CompileInv, GraphInv
<1> QED BY <1>1, <1>2, SplitAssumption DEF CompileInv, GraphInv, ChannelInv, Split

LEMMA GraphComes == ASSUME NEW d \in DataSets, CompileInv, AssignThreads(d)
                    PROVE  GraphInv' /\ ChannelInv'
<1>1. thread = -1
  <2>1. thread \in -1 .. MAX_THREAD + 1 /\ ~(thread >= 0)
    BY DEF CompileInv, GraphInv, WorkInv, AssignThreads
  <2> QED BY <2>1
<1>2. DfsInv /\ ClimbInv /\ SearchInv
  BY <1>1 DEF CompileInv, GraphInv, DfsInv
<1>3. /\ Built /\ thread' = 0
      /\ vis' = {} /\ bb_ordered' = <<>> /\ it' = 0
      /\ data' \in d
      /\ edges' = Edges(data')
      /\ assigned' \in {t \in [Insts -> ThreadIds] : IsPartition(t)}
      /\ pdom' = [b \in Blocks \cup {exit} |-> PostDominators(succs, exit, b)]
      /\ UNCHANGED <<succs, calls, control, bodies, channels>>
  BY DEF AssignThreads
<1>4. Complete /\ Ordered
  BY <1>2, <1>3, BuiltIsComplete, BuiltIsOrdered
<1>5. calls = <<>>
  <2>1. it > 0
    BY <1>2, <1>3, NotBuilt DEF SearchInv
  <2> QED BY <1>2, <2>1 DEF SearchInv
<1>6. Decisions(succs, exit) \subseteq control
  BY <1>4, AllFound
<1>7. control \subseteq Blocks \X Blocks
  BY <1>2, ControlOfBlocks
<1>8. Edges(data') = Edges(data)'
  BY <1>3 DEF Edges, ValueEdges
<1>9. ~Built'
  <2>1. Blocks # {} /\ IsFiniteSet(Blocks)
    BY LoopAssumption
  <2>2. Cardinality(Blocks) \in Nat /\ Cardinality(Blocks) # 0
    BY <2>1, FS_CardinalityType, FS_EmptySet
  <2> QED BY <1>3, <2>2 DEF Built
<1>10. channels' = {} /\ ~Split'
  <2>1. ~Split /\ ~Split'
    BY <1>1, <1>3, SplitAssumption DEF Split
  <2> QED BY <1>3, <2>1 DEF CompileInv, ChannelInv
<1>11. /\ assigned' \in [Insts -> ThreadIds]
       /\ \A e \in edges' : assigned'[e[1]] <= assigned'[e[2]]
  BY <1>3 DEF IsPartition
<1>12. data' \subseteq Insts \X Insts
  BY <1>3 DEF DataSets
<1>13. pdom' = [b \in Blocks \cup {exit} |-> PostDominators(succs', exit, b)]
  BY <1>3
<1>14. succs' \in GoodGraphs
  BY <1>3, <1>4 DEF Ordered
<1>15. /\ Decisions(succs', exit) \subseteq control'
       /\ control' \subseteq Blocks \X Blocks /\ calls' = <<>>
  BY <1>3, <1>5, <1>6, <1>7
<1>16. GraphInv'
  BY <1>3, <1>8, <1>9, <1>11, <1>12, <1>13, <1>14, <1>15 DEF GraphInv
<1> QED BY <1>10, <1>16 DEF ChannelInv

\* The split itself leaves all of that alone.
LEMMA GraphStays ==
  ASSUME CompileInv, UNCHANGED loopVars, thread >= 0, thread' >= 0
  PROVE  GraphInv'
<1>1. UNCHANGED <<succs, calls, vis, bb_ordered, it, control, data, edges, pdom, assigned>>
  BY DEF loopVars, buildVars
<1>2. Edges(data)' = Edges(data)
  BY <1>1 DEF Edges, ValueEdges
<1>3. Built' = Built
  BY <1>1 DEF Built
<1> QED BY <1>1, <1>2, <1>3 DEF CompileInv, GraphInv

LEMMA GraphSplits == ASSUME CompileInv, SplitStep
                     PROVE  GraphInv' /\ ChannelInv'
<1>1. CASE SplitThread
  <2>1. /\ thread \in ThreadIds /\ UNCHANGED <<loopVars, channels>>
        /\ thread' \in {MAX_THREAD, thread + 1}
    BY <1>1 DEF SplitThread
  <2>2. thread >= 0 /\ thread' >= 0 /\ ~Split /\ ~Split'
    BY <2>1, SplitAssumption DEF Split, ThreadIds
  <2> QED BY <2>1, <2>2, GraphStays DEF CompileInv, ChannelInv
<1>2. CASE InsertSynchronization
  <2>1. /\ thread = MAX_THREAD /\ thread' = MAX_THREAD + 1
        /\ UNCHANGED <<loopVars, bodies>>
    BY <1>2 DEF InsertSynchronization
  <2>2. thread >= 0 /\ thread' >= 0 /\ Split'
    BY <2>1, SplitAssumption DEF Split
  <2>3. UNCHANGED <<edges, assigned, succs>>
    BY <2>1 DEF loopVars, buildVars
  <2>4. \A e, j : Channel(e, j)' <=> Channel(e, j)
    BY <2>3 DEF Channel, Copied, Part, Relevant
  <2>5. ChannelInv'
    BY <1>2, <2>1, <2>2, <2>3, <2>4 DEF InsertSynchronization, ChannelInv
  <2> QED BY <2>1, <2>2, <2>5, GraphStays
<1> QED BY <1>1, <1>2 DEF SplitStep

LEMMA StutterStays == ASSUME CompileInv, UNCHANGED splitVars
                      PROVE  GraphInv' /\ ChannelInv'
<1>1. /\ UNCHANGED <<succs, calls, vis, bb_ordered, it, control, data, edges, pdom, assigned>>
      /\ UNCHANGED <<thread, bodies, channels>> /\ UNCHANGED buildVars /\ UNCHANGED loopVars
  BY DEF splitVars, loopVars, buildVars
<1>2. ASSUME thread = -1 PROVE DfsInv' /\ ClimbInv'
  BY <1>1, <1>2, DfsKeeps DEF CompileInv, GraphInv
<1>3. GraphInv'
  <2>1. CASE thread = -1
    BY <1>1, <1>2, <2>1 DEF GraphInv
  <2>2. CASE thread >= 0
    BY <1>1, <2>2, GraphStays
  <2> QED BY <2>1, <2>2 DEF CompileInv, WorkInv
<1>4. \A e, j : Channel(e, j)' <=> Channel(e, j)
  BY <1>1 DEF Channel, Copied, Part, Relevant
<1>5. ChannelInv'
  BY <1>1, <1>4 DEF CompileInv, ChannelInv, Split
<1> QED BY <1>3, <1>5

LEMMA CompileStart == ASSUME NEW loops \in SUBSET GoodGraphs, SplitFrom(loops)
                      PROVE  CompileInv
  BY WorkStart, GraphStart DEF CompileInv

LEMMA CompileStep == ASSUME NEW d \in DataSets, CompileInv, [CompileNext(d)]_splitVars
                     PROVE  CompileInv'
<1>1. WorkInv'
  BY CompileKeeps, StutterKeeps DEF CompileInv
<1>2. GraphInv' /\ ChannelInv'
  BY GraphBuilt, GraphComes, GraphSplits, StutterStays DEF CompileNext
<1> QED BY <1>1, <1>2 DEF CompileInv

-----------------------------------------------------------------------------
(* Whatever a copy reads is in its thread or comes from an earlier one.     *)

LEMMA SplitFacts ==
  ASSUME CompileInv, Split
  PROVE  /\ succs \in GoodGraphs /\ succs \in AnyGraphs /\ DOMAIN succs = Blocks
         /\ Decisions(succs, exit) \subseteq control /\ control \subseteq Blocks \X Blocks
         /\ assigned \in [Insts -> ThreadIds]
         /\ \A e \in edges : assigned[e[1]] <= assigned[e[2]]
         /\ pdom = [b \in Blocks \cup {exit} |-> PostDominators(succs, exit, b)]
<1>1. thread >= 0
  BY SplitAssumption DEF Split
<1> QED BY <1>1 DEF CompileInv, GraphInv, GoodGraphs, AnyGraphs

LEMMA EdgesOfInsts ==
  ASSUME control \subseteq Blocks \X Blocks, NEW d, d \subseteq Insts \X Insts
  PROVE  Edges(d) \subseteq Insts \X Insts
<1> SUFFICES ASSUME NEW e \in Edges(d) PROVE e \in Insts \X Insts
  OBVIOUS
<1>1. Size \in 1 .. Size /\ Size - 1 \in 1 .. Size
  BY SplitAssumption
<1>2. CASE e \in d
  BY <1>2
<1>3. CASE \E b \in Blocks : e = <<Condition(b), Branch(b)>>
  BY <1>1, <1>3 DEF Insts, Condition, Branch
<1>4. CASE \E p \in control, k \in 1 .. Size : e = <<Branch(p[1]), <<p[2], k>>>>
  BY <1>1, <1>4 DEF Insts, Branch
<1> QED BY <1>2, <1>3, <1>4 DEF Edges, ValueEdges

\* The terminator of a block that decides another stays with it.
LEMMA DeciderBefore ==
  ASSUME CompileInv, Split, NEW b \in Blocks, NEW i \in ThreadIds, NEW c \in Relevant(i),
         <<b, c>> \in control
  PROVE  assigned[Branch(b)] <= i
<1>1. edges = Edges(data) /\ edges \subseteq Insts \X Insts
  BY SplitAssumption, EdgesOfInsts DEF Split, CompileInv, GraphInv
<1>2. \A k \in 1 .. Size : <<Branch(b), <<c, k>>>> \in edges
  BY <1>1 DEF Edges
<1>3. \A u \in Insts : u[1] = c => assigned[Branch(b)] <= assigned[u]
  <2> SUFFICES ASSUME NEW k \in 1 .. Size PROVE assigned[Branch(b)] <= assigned[<<c, k>>]
    BY DEF Insts
  <2>1. <<Branch(b), <<c, k>>>> \in edges
    BY <1>2
  <2> QED BY <2>1, SplitFacts
<1>4. \A u \in Insts : assigned[u] \in Int
  BY SplitFacts DEF ThreadIds
<1>5. Branch(b) \in Insts
  BY SplitAssumption DEF Branch, Insts
<1>6. i \in Int
  BY DEF ThreadIds
<1>7. CASE \E u \in Part(i) : c = u[1]
  BY <1>3, <1>7 DEF Part
<1>8. CASE \E e \in edges : e[2] \in Part(i) /\ c = e[1][1]
  <2>1. PICK e \in edges : e[2] \in Part(i) /\ c = e[1][1]
    BY <1>8
  <2>2. assigned[Branch(b)] <= assigned[e[1]]
    BY <1>1, <1>3, <2>1
  <2>3. assigned[e[1]] <= assigned[e[2]] /\ assigned[e[2]] = i
    BY <2>1, SplitFacts DEF Part
  <2>4. e[1] \in Insts
    BY <1>1
  <2> QED BY <1>4, <1>5, <1>6, <2>2, <2>3, <2>4
<1> QED BY <1>7, <1>8 DEF Relevant

\* A branch that stays conditional decides a block of its thread.
LEMMA ConditionalDecides ==
  ASSUME CompileInv, Split, NEW i \in ThreadIds, NEW b \in Blocks, Conditional(i, b)
  PROVE  \E c \in Relevant(i) : <<b, c>> \in Decisions(succs, exit)
<1> DEFINE PD(s) == PostDominators(succs, exit, s)
<1>1. \A s \in succs[b] : pdom[s] = PD(s)
  BY SplitFacts DEF AnyGraphs
<1>2. PICK s \in succs[b], t \in succs[b] : Target(i, s) # Target(i, t)
  <2> SUFFICES ASSUME \A s \in succs[b], t \in succs[b] : Target(i, s) = Target(i, t)
               PROVE  FALSE
    OBVIOUS
  <2>1. Targets(i, b) = {} \/ \E x : Targets(i, b) = {x}
    BY DEF Targets
  <2>2. Cardinality(Targets(i, b)) \in {0, 1}
    BY <2>1, FS_EmptySet, FS_Singleton
  <2> QED BY <2>2 DEF Conditional
<1>3. pdom[s] \cap Relevant(i) # pdom[t] \cap Relevant(i)
  <2> DEFINE Choice(f) == IF f = {} THEN exit ELSE CHOOSE d \in f : f \subseteq pdom[d]
  <2>1. /\ Target(i, s) = Choice(pdom[s] \cap Relevant(i))
        /\ Target(i, t) = Choice(pdom[t] \cap Relevant(i))
    BY DEF Target
  <2> HIDE DEF Choice
  <2> QED BY <1>2, <2>1
<1>4. PICK c \in Relevant(i) : \/ c \in PD(s) /\ c \notin PD(t)
                               \/ c \in PD(t) /\ c \notin PD(s)
  BY <1>1, <1>3
<1> HIDE DEF PD
<1>5. <<b, c>> \in {b} \X {x \in UNION {PD(r) : r \in succs[b]} :
                              \E w \in {PD(r) : r \in succs[b]} : x \notin w}
  BY <1>4
<1>6. <<b, c>> \in Decisions(succs, exit)
  BY <1>5, SplitFacts DEF Decisions, PD
<1> QED BY <1>6

LEMMA NoOperandMissing == CompileInv => OperandsArrive
<1> SUFFICES ASSUME CompileInv, Split, NEW i \in bodies, NEW v \in Copied(i),
                    NEW u \in Reads(i, v)
             PROVE  u \in Part(i) \/ <<u, v, i>> \in channels
  BY DEF OperandsArrive
<1>0. i \in ThreadIds
  BY DEF CompileInv, WorkInv
<1>1. edges = Edges(data) /\ edges \subseteq Insts \X Insts
  BY SplitAssumption, EdgesOfInsts DEF Split, CompileInv, GraphInv
<1>2. <<u, v>> \in edges /\ ~IsBranch(u) /\ (IsBranch(v) => Conditional(i, v[1]))
  <2>1. PICK e \in edges : e[2] = v /\ ~IsBranch(e[1]) /\ e[1] = u
    BY DEF Reads
  <2>2. e = <<u, v>>
    BY <1>1, <2>1
  <2> QED BY <2>1, <2>2 DEF Reads
<1>3. u \in Insts /\ v \in Insts /\ i \in Int /\ assigned[u] \in Int /\ assigned[v] \in Int
  BY <1>0, <1>1, <1>2, SplitFacts DEF ThreadIds
<1>4. assigned[v] <= i
  <2>1. CASE v \in Part(i)
    BY <1>3, <2>1 DEF Part
  <2>2. CASE v \notin Part(i)
    <3>1. PICK b \in Relevant(i) : v = Branch(b)
      BY <2>2 DEF Copied
    <3>2. IsBranch(v) /\ v[1] = b /\ b \in Blocks
      BY <1>3, <3>1 DEF IsBranch, Branch, Insts
    <3>3. PICK c \in Relevant(i) : <<b, c>> \in Decisions(succs, exit)
      BY <1>0, <1>2, <3>2, ConditionalDecides
    <3>4. <<b, c>> \in control
      BY <3>3, SplitFacts
    <3> QED BY <1>0, <3>1, <3>2, <3>4, DeciderBefore
  <2> QED BY <2>1, <2>2
<1>5. assigned[u] <= assigned[v]
  BY <1>2, SplitFacts
<1>6. CASE assigned[u] = i
  BY <1>3, <1>6 DEF Part
<1>7. CASE assigned[u] # i
  <2>1. i > assigned[u]
    BY <1>3, <1>4, <1>5, <1>7
  <2>2. <<<<u, v>>, i>> \in {d \in edges \X bodies : ~IsBranch(d[1][1]) /\ Channel(d[1], d[2])}
    BY <1>2, <2>1 DEF Channel
  <2>3. <<u, v, i>> \in channels
    BY <2>2 DEF CompileInv, ChannelInv
  <2> QED BY <2>3
<1> QED BY <1>6, <1>7

-----------------------------------------------------------------------------
(* The copies go where the loop goes.                                       *)

\* Two blocks do not post-dominate one another.
LEMMA Antisymmetric ==
  ASSUME succs \in GoodGraphs, NEW x \in Blocks, NEW y \in Blocks,
         x \in PostDominators(succs, exit, y), y \in PostDominators(succs, exit, x)
  PROVE  x = y
<1> SUFFICES ASSUME x # y PROVE FALSE
  OBVIOUS
<1>1. DOMAIN succs = Blocks /\ IsFiniteSet(Blocks) /\ exit \notin Blocks
  BY LoopAssumption DEF GoodGraphs, AnyGraphs
<1>2. PICK S : y \in S /\ Barrier(succs, exit, x, S)
  BY <1>1, BarrierThere
<1>3. PICK T : x \in T /\ Barrier(succs, exit, y, T)
  BY <1>1, BarrierThere
<1> DEFINE A == {v \in Blocks : x \in PostDominators(succs, exit, v)}
           B == {v \in Blocks : y \in PostDominators(succs, exit, v)}
<1>4. ASSUME NEW v \in A, v # x, NEW w \in succs[v] PROVE w \in A
  <2>1. PICK U : v \in U /\ Barrier(succs, exit, x, U)
    BY <1>1, BarrierThere
  <2>2. w \in U /\ w # exit
    BY <1>1, <1>4, <2>1 DEF Barrier
  <2>3. w \in Blocks
    BY <2>2 DEF GoodGraphs, AnyGraphs
  <2> QED BY <1>1, <2>1, <2>2, <2>3, BarrierMakes
<1>5. ASSUME NEW v \in B, v # y, NEW w \in succs[v] PROVE w \in B
  <2>1. PICK U : v \in U /\ Barrier(succs, exit, y, U)
    BY <1>1, BarrierThere
  <2>2. w \in U /\ w # exit
    BY <1>1, <1>5, <2>1 DEF Barrier
  <2>3. w \in Blocks
    BY <2>2 DEF GoodGraphs, AnyGraphs
  <2> QED BY <1>1, <2>1, <2>2, <2>3, BarrierMakes
<1>6. x \in B /\ y \in A
  OBVIOUS
<1> DEFINE C == A \cup B
<1> HIDE DEF A, B
<1>7. \A v \in C : \A w \in succs[v] : w \in C
  BY <1>4, <1>5, <1>6
<1>8. IsClosed(succs, C) /\ x \in C
  BY <1>1, <1>6, <1>7 DEF IsClosed
<1>9. exit \in C
  <2> HIDE DEF C
  <2> QED BY <1>1, <1>8, ReachedFacts, ExitReached
<1> QED BY <1>1, <1>9 DEF A, B

\* A block that decides nothing of R post-dominates what its successors do.
LEMMA SameOfAll ==
  ASSUME succs \in GoodGraphs, NEW v \in Blocks, NEW w \in succs[v], NEW R, v \notin R,
         \A c \in R : <<v, c>> \notin Decisions(succs, exit)
  PROVE  PostDominators(succs, exit, v) \cap R = PostDominators(succs, exit, w) \cap R
<1> DEFINE PD(s) == PostDominators(succs, exit, s)
<1>1. DOMAIN succs = Blocks /\ IsFiniteSet(Blocks) /\ exit \notin Blocks
  BY LoopAssumption DEF GoodGraphs, AnyGraphs
<1>2. ASSUME NEW c \in R, c \in PD(v) PROVE c \in PD(w)
  <2>1. PICK U : v \in U /\ Barrier(succs, exit, c, U)
    BY <1>1, <1>2, BarrierThere
  <2>2. c \in Blocks /\ w \in U
    BY <1>1, <1>2, <2>1 DEF Barrier, PostDominators
  <2> QED BY <1>1, <2>1, <2>2, BarrierMakes
<1>3. ASSUME NEW c \in R, c \in PD(w) PROVE c \in PD(v)
  <2>1. \A t \in succs[v] : c \in PD(t)
    <3> SUFFICES ASSUME NEW t \in succs[v], c \notin PD(t) PROVE FALSE
      OBVIOUS
    <3> HIDE DEF PD
    <3>1. <<v, c>> \in {v} \X {x \in UNION {PD(r) : r \in succs[v]} :
                                 \E u \in {PD(r) : r \in succs[v]} : x \notin u}
      BY <1>3
    <3>2. <<v, c>> \in Decisions(succs, exit)
      BY <1>1, <3>1 DEF Decisions, PD
    <3> QED BY <3>2
  <2>2. c \in Blocks
    BY <1>1, <1>3 DEF PostDominators
  <2> DEFINE S == {x \in Blocks : c \in PD(x)} \cup {v}
  <2>3. ASSUME NEW x \in S, x # c, NEW t \in succs[x] PROVE t \in S
    <3>1. c \in PD(t)
      <4>1. CASE x = v
        BY <2>1, <4>1
      <4>2. CASE c \in PD(x)
        <5>1. PICK U : x \in U /\ Barrier(succs, exit, c, U)
          BY <1>1, <4>2, BarrierThere
        <5>2. t \in U
          BY <1>1, <2>3, <5>1 DEF Barrier
        <5> QED BY <1>1, <2>2, <5>1, <5>2, BarrierMakes
      <4> QED BY <4>1, <4>2
    <3>2. t # exit
      BY <1>1, <3>1, AtTheExit
    <3>3. t \in Blocks
      BY <3>2 DEF GoodGraphs, AnyGraphs
    <3> QED BY <3>1, <3>3
  <2>4. Barrier(succs, exit, c, S) /\ v \in S
    BY <1>1, <2>3 DEF Barrier
  <2> HIDE DEF S
  <2> QED BY <1>1, <2>2, <2>4, BarrierMakes
<1> QED BY <1>2, <1>3

LEMMA PathsStay == CompileInv => PathsKept
<1> SUFFICES ASSUME CompileInv, Split, NEW i \in bodies, Closed(i),
                    NEW b \in Relevant(i), NEW s \in succs[b]
             PROVE  Reached([c \in Blocks |-> IF c \in Relevant(i) THEN {} ELSE succs[c]], s)
                       \cap (Relevant(i) \cup {exit}) = {Target(i, s)}
  BY DEF PathsKept
<1> DEFINE R == Relevant(i)
           cut == [c \in Blocks |-> IF c \in R THEN {} ELSE succs[c]]
           PD(x) == PostDominators(succs, exit, x)
           found == PD(s) \cap R
           Q == Reached(cut, s)
<1>1. succs \in GoodGraphs /\ DOMAIN succs = Blocks /\ IsFiniteSet(Blocks) /\ exit \notin Blocks
  BY SplitFacts, LoopAssumption
<1>2. edges = Edges(data) /\ edges \subseteq Insts \X Insts
  BY SplitFacts, SplitAssumption, EdgesOfInsts DEF Split, CompileInv, GraphInv
<1>3. R \subseteq Blocks
  BY <1>2 DEF Relevant, Part, Insts
<1>4. s \in Blocks \cup {exit}
  BY <1>1, <1>3 DEF GoodGraphs, AnyGraphs
<1>5. s \in Q /\ IsClosed(cut, Q) /\ \A S : s \in S /\ IsClosed(cut, S) => Q \subseteq S
  BY <1>1, ReachedFacts
<1>6. \A v \in Q \cap Blocks : v \notin R => succs[v] \subseteq Q
  BY <1>5 DEF IsClosed
<1> HIDE DEF Q
\* Outside of R nothing of R is decided.
<1>7. ASSUME NEW v \in Blocks, v \notin R, NEW c \in R
      PROVE  <<v, c>> \notin Decisions(succs, exit)
  <2> SUFFICES ASSUME <<v, c>> \in control PROVE FALSE
    BY SplitFacts
  <2>1. 1 \in 1 .. Size
    BY SplitAssumption
  <2>2. <<Branch(v), <<c, 1>>>> \in edges
    BY <1>2, <2>1 DEF Edges
  <2>3. c \in Decided(v)
    BY <2>2 DEF Decided
  <2> QED BY <1>7, <2>3 DEF Closed
<1>8. \A v \in Q : PD(v) \cap R = found
  <2> DEFINE S == {v \in Blocks \cup {exit} : PD(v) \cap R = found}
  <2>1. ASSUME NEW v \in S \cap Blocks, v \notin R, NEW w \in succs[v] PROVE w \in S
    <3>1. PD(v) \cap R = PD(w) \cap R
      BY <1>1, <1>7, <2>1, SameOfAll
    <3>2. w \in Blocks \cup {exit}
      BY <1>1 DEF GoodGraphs, AnyGraphs
    <3> QED BY <3>1, <3>2
  <2> HIDE DEF found, PD
  <2>2. IsClosed(cut, S)
    BY <2>1 DEF IsClosed
  <2>3. s \in S
    BY <1>4 DEF found
  <2> QED BY <1>5, <2>2, <2>3
<1>9. \A v \in R : v \in PD(v)
  BY <1>1, <1>3, OwnPostDominator
<1>10. PD(exit) = {}
  BY <1>1, AtTheExit
\* Some end is come to.
<1>11. exit \in Q \/ \E v \in R : v \in Q
  <2> SUFFICES ASSUME exit \notin Q, \A v \in R : v \notin Q PROVE FALSE
    OBVIOUS
  <2>1. IsClosed(succs, Q)
    BY <1>1, <1>6 DEF IsClosed
  <2>2. Reached(succs, s) \subseteq Q
    BY <1>1, <1>5, <2>1, ReachedFacts
  <2>3. s \in Blocks
    BY <1>4, <1>5
  <2> QED BY <1>1, <2>2, <2>3, ExitReached
<1>12. pdom[s] = PD(s) /\ \A v \in Blocks : pdom[v] = PD(v)
  BY <1>4, SplitFacts
<1> HIDE DEF PD
<1>13. CASE found = {}
  <2>1. Target(i, s) = exit
    BY <1>12, <1>13 DEF Target
  <2>2. \A v \in R : v \notin Q
    BY <1>8, <1>9, <1>13
  <2> QED BY <1>11, <2>1, <2>2 DEF Q
<1>14. CASE found # {}
  <2>1. exit \notin Q
    BY <1>8, <1>10, <1>14
  <2>2. \A v \in R \cap Q : v \in found /\ found \subseteq PD(v)
    BY <1>8, <1>9
  <2>3. \A v, w \in found : v \in PD(w) /\ w \in PD(v) => v = w
    BY <1>1, <1>3, Antisymmetric DEF PD
  <2>4. PICK t \in R : t \in Q
    BY <1>11, <2>1
  <2>5. Target(i, s) = CHOOSE d \in found : found \subseteq pdom[d]
    BY <1>12, <1>14 DEF Target
  <2>6. \A d \in found : found \subseteq pdom[d] <=> d = t
    <3> SUFFICES ASSUME NEW d \in found PROVE found \subseteq pdom[d] <=> d = t
      OBVIOUS
    <3>1. pdom[d] = PD(d)
      BY <1>3, <1>12
    <3>2. t \in found /\ found \subseteq PD(t)
      BY <2>2, <2>4
    <3> QED BY <2>3, <3>1, <3>2
  <2>7. t \in found
    BY <2>2, <2>4
  <2> HIDE DEF found
  <2>8. Target(i, s) = t
    BY <2>5, <2>6, <2>7
  <2>9. \A v \in R \cap Q : v = t
    BY <2>2, <2>3, <2>4, <2>7
  <2> QED BY <2>1, <2>4, <2>8, <2>9 DEF Q
<1> QED BY <1>13, <1>14

-----------------------------------------------------------------------------
(* The types, and what is true of the dependence graph the compiler builds. *)

LEMMA Types == CompileInv => SplitTypeOK
<1> SUFFICES ASSUME CompileInv PROVE SplitTypeOK
  OBVIOUS
<1> USE SplitAssumption DEF ThreadIds
<1>1. thread \in -1 .. MAX_THREAD + 1 /\ bodies \subseteq ThreadIds
      /\ (thread >= 0 => assigned \in [Insts -> ThreadIds])
  BY DEF CompileInv, WorkInv
<1>2. Cardinality(Blocks) \in Nat
  BY LoopAssumption, FS_CardinalityType
<1>3. BuildTypeOK
  <2>1. CASE thread = -1
    <3>1. DfsInv /\ SearchInv /\ ClimbInv
      BY <2>1 DEF CompileInv, GraphInv, DfsInv
    <3>2. it \in 0 .. 2 * Cardinality(Blocks)
      BY <3>1, OrderFits DEF SearchInv
    <3> QED BY <3>1, <3>2, VisSubset, ControlOfBlocks DEF SearchInv, AnyGraphs, BuildTypeOK
  <2>2. CASE thread >= 0
    <3>1. <<>> \in Seq(Blocks)
      OBVIOUS
    <3> QED BY <1>2, <2>2, <3>1 DEF CompileInv, GraphInv, GoodGraphs, AnyGraphs, BuildTypeOK
  <2> QED BY <1>1, <2>1, <2>2
<1>4. channels \subseteq Insts \X Insts \X ThreadIds
  <2>1. CASE Split
    <3>1. edges \subseteq Insts \X Insts
      BY <2>1, EdgesOfInsts DEF Split, CompileInv, GraphInv
    <3>2. ASSUME NEW c \in channels PROVE c \in Insts \X Insts \X ThreadIds
      <4>1. PICK e \in edges, i \in bodies : c = <<e[1], e[2], i>>
        BY <2>1 DEF CompileInv, ChannelInv
      <4>2. e[1] \in Insts /\ e[2] \in Insts /\ i \in ThreadIds
        BY <1>1, <3>1
      <4> QED BY <4>1, <4>2
    <3> QED BY <3>2
  <2>2. CASE ~Split
    BY <2>2 DEF CompileInv, ChannelInv
  <2> QED BY <2>1, <2>2
<1> QED BY <1>1, <1>3, <1>4 DEF SplitTypeOK

LEMMA GraphIsRight == CompileInv => NoneMissed /\ IterationsMissNone /\ NoneInvented
<1> SUFFICES ASSUME CompileInv, Built PROVE NoneMissed /\ IterationsMissNone /\ NoneInvented
  BY DEF NoneMissed, IterationsMissNone, NoneInvented
<1>1. thread = -1
  BY DEF CompileInv, WorkInv, GraphInv
<1>2. Complete /\ Ordered
  BY <1>1, BuiltIsComplete, BuiltIsOrdered DEF CompileInv, GraphInv, DfsInv
<1> QED BY <1>2, AllFound, AllOfIterationFound, OnlyChoices
        DEF NoneMissed, IterationsMissNone, NoneInvented, Iter

\* The dependences TLC considers are data dependences, however many.
LEMMA DependencesAreData == Dependences \in DataSets
<1> DEFINE X == DataSets
           between == {e \in Insts \X Insts :
                         e[1] # e[2] /\ ~IsBranch(e[1]) /\ ~IsBranch(e[2])}
           More(D) == D \cup {c \cup {e} : c \in D, e \in between}
           F == [n \in Nat |-> [D \in X |-> More(D)]]
           Sets(D) == D = [n \in 0 .. MaxData |-> IF n = 0 THEN {{}} ELSE More(D[n - 1])]
           D0 == CHOOSE D : Sets(D)
<1>1. MaxData \in Nat
  BY SplitAssumption
<1>2. \A D \in X : More(D) \in X
  BY DEF DataSets
<1>3. F \in [Nat -> [X -> X]]
  BY <1>2
<1>4. {{}} \in X
  BY DEF DataSets
<1>5. \A n \in Nat : \A D \in X : F[n][D] = More(D)
  BY <1>2
<1> HIDE DEF F, More, X
<1>6. \E D : Sets(D)
  <2>1. PICK g \in [0 .. MaxData -> X] : Follows(g, MaxData, {{}}, F)
    BY <1>1, <1>3, <1>4, RecursionExists
  <2>2. ASSUME NEW n \in 0 .. MaxData, n # 0
        PROVE  F[n][g[n - 1]] = More(g[n - 1])
    <3>1. n - 1 \in 0 .. MaxData /\ n \in Nat
      BY <1>1, <2>2
    <3>2. g[n - 1] \in X
      BY <3>1
    <3> QED BY <1>5, <3>1, <3>2
  <2>3. g = [n \in 0 .. MaxData |-> IF n = 0 THEN {{}} ELSE More(g[n - 1])]
    BY <2>1, <2>2 DEF Follows
  <2> QED BY <2>3
<1>7. Sets(D0)
  BY <1>6
<1> HIDE DEF D0
<1>8. \A n \in 0 .. MaxData : D0[n] \in X
  <2> DEFINE T == {n \in Nat : n \in 0 .. MaxData => D0[n] \in X}
  <2>1. 0 \in T
    BY <1>1, <1>4, <1>7
  <2>2. ASSUME NEW n \in 0 .. MaxData - 1, n \in T PROVE n + 1 \in T
    <3>1. n + 1 \in 0 .. MaxData /\ n \in 0 .. MaxData /\ (n + 1) - 1 = n /\ n + 1 # 0
      BY <1>1
    <3>2. D0[n + 1] = More(D0[n])
      BY <1>7, <3>1
    <3> QED BY <1>2, <2>2, <3>1, <3>2
  <2> HIDE DEF T
  <2>3. 0 .. MaxData \subseteq T
    BY <1>1, <2>1, <2>2, UpTo
  <2> USE DEF T
  <2> QED BY <2>3
<1>9. Dependences = D0[MaxData]
  BY DEF Dependences, D0, More
<1>10. D0[MaxData] \in X
  BY <1>1, <1>8
<1> QED BY <1>9, <1>10 DEF X

-----------------------------------------------------------------------------
(* The theorems, for every set of loops the pass works on and every choice  *)
(* of the other dependences, and for the runs.                              *)

\* The state of the compiler has its types throughout.
THEOREM SplitTypes ==
  ASSUME NEW CONSTANT loops \in SUBSET GoodGraphs, NEW CONSTANT d \in DataSets
  PROVE  SplitFrom(loops) /\ [][CompileNext(d)]_splitVars => []SplitTypeOK
<1>1. SplitFrom(loops) => CompileInv
  BY CompileStart
<1>2. CompileInv /\ [CompileNext(d)]_splitVars => CompileInv'
  BY CompileStep
<1> QED BY <1>1, <1>2, Types, PTL

\* The dependence graph misses and invents no control dependence, whatever
\* the compiler does with it after.
THEOREM ControlIsRight ==
  ASSUME NEW CONSTANT loops \in SUBSET GoodGraphs, NEW CONSTANT d \in DataSets
  PROVE  SplitFrom(loops) /\ [][CompileNext(d)]_splitVars
            => [](NoneMissed /\ IterationsMissNone /\ NoneInvented)
<1>1. SplitFrom(loops) => CompileInv
  BY CompileStart
<1>2. CompileInv /\ [CompileNext(d)]_splitVars => CompileInv'
  BY CompileStep
<1> QED BY <1>1, <1>2, GraphIsRight, PTL

\* Whatever a copy of an instruction reads is computed in its thread or comes
\* to it by a channel (CodeTransformation.cpp:450-457, 568-599): a branch that
\* keeps its condition decides a block of the thread, so that its own thread
\* and that of its condition are not later.
THEOREM NoOperandIsMissing ==
  ASSUME NEW CONSTANT loops \in SUBSET GoodGraphs, NEW CONSTANT d \in DataSets
  PROVE  SplitFrom(loops) /\ [][CompileNext(d)]_splitVars => []OperandsArrive
<1>1. SplitFrom(loops) => CompileInv
  BY CompileStart
<1>2. CompileInv /\ [CompileNext(d)]_splitVars => CompileInv'
  BY CompileStep
<1> QED BY <1>1, <1>2, NoOperandMissing, PTL

\* A branch of a thread that has the branches its blocks depend on goes where
\* the loop would come next of what the thread has, on whatever path
\* (CodeTransformation.cpp:319-331): the climb of the post-dominator tree finds
\* the one block all paths come to first.
THEOREM PathsAreKept ==
  ASSUME NEW CONSTANT loops \in SUBSET GoodGraphs, NEW CONSTANT d \in DataSets
  PROVE  SplitFrom(loops) /\ [][CompileNext(d)]_splitVars => []PathsKept
<1>1. SplitFrom(loops) => CompileInv
  BY CompileStart
<1>2. CompileInv /\ [CompileNext(d)]_splitVars => CompileInv'
  BY CompileStep
<1> QED BY <1>1, <1>2, PathsStay, PTL

\* What the runs check, for the whole of the specification they check it of.
THEOREM SplitIsRight ==
  SplitSpec => [](SplitTypeOK /\ NoneMissed /\ IterationsMissNone /\ NoneInvented
                  /\ OperandsArrive /\ PathsKept /\ WorkKept)
<1>1. SplitInit => CompileInv
  BY LoopsAreGood, CompileStart DEF SplitInit
<1>2. CompileInv /\ [SplitNext]_splitVars => CompileInv'
  BY DependencesAreData, CompileStep DEF SplitNext, CompileNext
<1>3. CompileInv => SplitTypeOK /\ NoneMissed /\ IterationsMissNone /\ NoneInvented
                    /\ OperandsArrive /\ PathsKept /\ WorkKept
  BY Types, GraphIsRight, NoOperandMissing, PathsStay, NothingLeftOver DEF CompileInv
<1> QED BY <1>1, <1>2, <1>3, PTL DEF SplitSpec

-----------------------------------------------------------------------------
(* How often something comes in the first part of a sequence.               *)

LEMMA UpToFinite == ASSUME NEW n \in Nat, NEW T
                    PROVE  /\ IsFiniteSet({k \in 1 .. n : k \in T})
                           /\ Cardinality({k \in 1 .. n : k \in T}) \in Nat
<1>1. IsFiniteSet(1 .. n)
  BY FS_Interval
<1> QED BY <1>1, FS_Subset, FS_CardinalityType

\* From n to m nothing of T comes but m.
LEMMA OneMore ==
  ASSUME NEW n \in Nat, NEW m \in Nat, n < m, NEW T,
         \A q \in n + 1 .. m - 1 : q \notin T
  PROVE  Cardinality({k \in 1 .. m : k \in T})
            = Cardinality({k \in 1 .. n : k \in T}) + (IF m \in T THEN 1 ELSE 0)
<1> DEFINE A == {k \in 1 .. n : k \in T}
           B == {k \in 1 .. m : k \in T}
<1> SUFFICES Cardinality(B) = Cardinality(A) + (IF m \in T THEN 1 ELSE 0)
  OBVIOUS
<1>1. IsFiniteSet(A) /\ Cardinality(A) \in Nat /\ m \notin A
  BY UpToFinite
<1>2. IF m \in T THEN B = A \cup {m} ELSE B = A
  OBVIOUS
<1> HIDE DEF A, B
<1> QED BY <1>1, <1>2, FS_AddElement

LEMMA TimesInNat == ASSUME NEW s, NEW n \in Nat, NEW b
                    PROVE  Times(s, n, b) \in Nat
<1> DEFINE T == {k \in 1 .. n : s[k] = b}
<1>1. {k \in 1 .. n : k \in T} = T
  OBVIOUS
<1> HIDE DEF T
<1>2. Cardinality(T) \in Nat
  BY <1>1, UpToFinite
<1> QED BY <1>2 DEF Times, T

LEMMA TimesOnce ==
  ASSUME NEW s, NEW n \in Nat, NEW m \in Nat, n < m, NEW b,
         \A q \in n + 1 .. m - 1 : s[q] # b
  PROVE  Times(s, m, b) = Times(s, n, b) + (IF s[m] = b THEN 1 ELSE 0)
<1> DEFINE T == {k \in Nat : s[k] = b}
<1>1. /\ {k \in 1 .. m : k \in T} = {k \in 1 .. m : s[k] = b}
      /\ {k \in 1 .. n : k \in T} = {k \in 1 .. n : s[k] = b}
      /\ \A q \in n + 1 .. m - 1 : q \notin T
      /\ m \in T <=> s[m] = b
  OBVIOUS
<1> HIDE DEF T
<1>2. Cardinality({k \in 1 .. m : k \in T})
         = Cardinality({k \in 1 .. n : k \in T}) + (IF m \in T THEN 1 ELSE 0)
  BY <1>1, OneMore
<1> QED BY <1>1, <1>2 DEF Times

LEMMA TimesAppended ==
  ASSUME NEW S, NEW s \in Seq(S), NEW x \in S, NEW b
  PROVE  Times(Append(s, x), Len(Append(s, x)), b)
            = Times(s, Len(s), b) + (IF x = b THEN 1 ELSE 0)
<1> DEFINE t == Append(s, x)
<1>1. /\ Len(s) \in Nat /\ Len(t) = Len(s) + 1 /\ t[Len(s) + 1] = x
      /\ \A k \in 1 .. Len(s) : t[k] = s[k]
  OBVIOUS
<1> HIDE DEF t
<1>2. Times(t, Len(t), b) = Times(t, Len(s), b) + (IF x = b THEN 1 ELSE 0)
  BY <1>1, TimesOnce
<1>3. {k \in 1 .. Len(s) : t[k] = b} = {k \in 1 .. Len(s) : s[k] = b}
  BY <1>1
<1> QED BY <1>2, <1>3 DEF t, Times

\* A block does not come to the same count twice.
LEMMA TimesGrow ==
  ASSUME NEW s, NEW n \in Nat, NEW m \in Nat, n < m, NEW b, s[m] = b
  PROVE  Times(s, n, b) < Times(s, m, b)
<1>1. Times(s, m, b) = Times(s, m - 1, b) + 1
  BY TimesOnce
<1>2. Times(s, n, b) <= Times(s, m - 1, b)
  <2> DEFINE A == {k \in 1 .. n : s[k] = b}
             B == {k \in 1 .. m - 1 : s[k] = b}
  <2>1. IsFiniteSet(1 .. m - 1) /\ B \subseteq 1 .. m - 1 /\ A \subseteq B
    BY FS_Interval
  <2>2. Cardinality(A) <= Cardinality(B)
    BY <2>1, FS_Subset
  <2> QED BY <2>2 DEF Times
<1>3. Times(s, n, b) \in Nat /\ Times(s, m - 1, b) \in Nat
  BY TimesInNat
<1> QED BY <1>1, <1>2, <1>3

-----------------------------------------------------------------------------
(* The invariant                                                            *)

\* The values sent into a channel, and those taken out of it.
Sent(c) == LET j == assigned[c[1]]
           IN  Times(trace[j], Len(trace[j]), c[1][1]) - (IF c \in left[j] THEN 1 ELSE 0)
Taken(c) == Times(trace[c[3]], Len(trace[c[3]]), c[2][1]) - (IF c \in left[c[3]] THEN 1 ELSE 0)

\* The path leads through the loop, from its header to its exit.
PathOK == /\ path \in Seq(Blocks \cup {exit})
          /\ Len(path) > 1
          /\ path[1] = header
          /\ path[Len(path)] = exit
          /\ \A n \in 1 .. Len(path) - 1 : path[n] \in Blocks /\ path[n + 1] \in succs[path[n]]

RunTypeOK == /\ \A i \in Workers : Closed(i)
             /\ trace \in [Workers -> Seq(Blocks \cup {exit})]
             /\ \A i \in Workers : trace[i] # <<>>
             /\ left \in [Workers -> SUBSET channels]
             /\ \A i \in Workers : left[i] \subseteq Ops(i, At(i))
             /\ queues \in [channels -> Seq(Nat)]
             /\ held \in [channels -> Nat]

\* Thread i has come as far as the k-th block of the path.
IsAt(i, k) == /\ path[k] = At(i)
              /\ path[k] \in Stops(i)
              /\ Rank(i, k) = Len(trace[i])
              /\ \A b \in Stops(i) : Times(trace[i], Len(trace[i]), b) = Times(path, k, b)

\* A channel holds the values sent and not taken, in order.
FlowInv == \A c \in channels :
              /\ Len(queues[c]) = Sent(c) - Taken(c)
              /\ \A n \in 1 .. Len(queues[c]) : queues[c][n] = Taken(c) + n
              /\ held[c] = Taken(c)

Placed == \A i \in Workers : \E k \in DOMAIN path : IsAt(i, k)

\* The dependences are among those considered, however far the split is.
DataInv == thread >= 0 => data \in Deps

PipeInv == /\ CompileInv
           /\ DataInv
           /\ Running => Split /\ PathOK /\ RunTypeOK /\ FlowInv /\ Placed
           /\ SamePath

LEMMA PathFacts ==
  ASSUME PathOK
  PROVE  /\ Len(path) \in Nat /\ DOMAIN path = 1 .. Len(path)
         /\ \A n \in 1 .. Len(path) : path[n] \in Blocks \cup {exit}
         /\ \A n \in 1 .. Len(path) : path[n] = exit => n = Len(path)
         /\ path # <<>>
  BY LoopAssumption DEF PathOK

LEMMA WorkerFacts ==
  ASSUME CompileInv, Split, NEW i \in Workers
  PROVE  i \in bodies /\ i \in ThreadIds /\ Relevant(i) \subseteq Blocks /\ exit \notin Relevant(i)
<1>1. edges = Edges(data) /\ edges \subseteq Insts \X Insts
  BY SplitFacts, SplitAssumption, EdgesOfInsts DEF Split, CompileInv, GraphInv
<1>2. Relevant(i) \subseteq Blocks
  BY <1>1 DEF Relevant, Part, Insts
<1> QED BY <1>2, LoopAssumption DEF Workers, CompileInv, WorkInv

\* A channel leads from one thread of the loop to a later one.
LEMMA ChannelEnds ==
  ASSUME CompileInv, Split, NEW c \in channels
  PROVE  /\ c = <<c[1], c[2], c[3]>>
         /\ <<c[1], c[2]>> \in edges /\ ~IsBranch(c[1])
         /\ assigned[c[1]] \in Workers /\ c[3] \in Workers
         /\ assigned[c[1]] # c[3]
         /\ c[1][1] \in Relevant(assigned[c[1]]) /\ c[2][1] \in Relevant(c[3])
<1>1. edges = Edges(data) /\ edges \subseteq Insts \X Insts
  BY SplitFacts, SplitAssumption, EdgesOfInsts DEF Split, CompileInv, GraphInv
<1>2. PICK d \in edges \X bodies : /\ ~IsBranch(d[1][1]) /\ Channel(d[1], d[2])
                                   /\ c = <<d[1][1], d[1][2], d[2]>>
  BY DEF CompileInv, ChannelInv
<1>3. /\ c = <<c[1], c[2], c[3]>> /\ ~IsBranch(c[1])
      /\ <<c[1], c[2]>> \in edges /\ c[1] \in Insts /\ c[2] \in Insts
      /\ c[3] \in bodies /\ c[2] \in Copied(c[3]) /\ c[3] > assigned[c[1]]
  BY <1>1, <1>2 DEF Channel
<1>4. assigned[c[1]] \in bodies /\ c[1] \in Part(assigned[c[1]]) /\ assigned[c[1]] \in Int
  BY <1>3, NothingLeftOver, SplitFacts DEF CompileInv, WorkKept, Part, ThreadIds
<1>5. c[1][1] \in Relevant(assigned[c[1]])
  BY <1>4 DEF Relevant
<1>6. c[2][1] \in Relevant(c[3])
  BY <1>3 DEF Copied, Relevant, Branch
<1>7. c[3] \in Int
  BY <1>3, SplitAssumption DEF CompileInv, WorkInv, ThreadIds
<1> QED BY <1>3, <1>4, <1>5, <1>6, <1>7 DEF Workers

-----------------------------------------------------------------------------
(* A step of the compiler; the start of the threads.                        *)

LEMMA CompileOver == ASSUME CompileInv, Split PROVE ~Compile
<1>1. thread = MAX_THREAD + 1 /\ thread >= 0 /\ MAX_THREAD \in Nat
  BY SplitAssumption DEF Split
<1>2. ~Built
  BY <1>1 DEF CompileInv, GraphInv
<1> QED BY <1>1, <1>2 DEF Compile, BuildStep, AssignThreads, SplitStep, SplitThread,
                          InsertSynchronization, ThreadIds

LEMMA DepsAreData == Deps \in DataSets /\ Flows \in SUBSET GoodGraphs
  BY PipelineAssumption, LoopsAreGood DEF DataSets

LEMMA PipeStart == PipeInit => PipeInv
  BY DepsAreData, CompileStart, SplitAssumption
  DEF PipeInit, PipeInv, DataInv, SplitFrom, Running, SamePath

LEMMA PipeCompiles == ASSUME PipeInv, Compile PROVE PipeInv'
<1>1. ~Running /\ UNCHANGED runVars
  BY CompileOver DEF PipeInv, Compile
<1>2. CompileInv'
  BY DepsAreData, CompileStep DEF PipeInv, Compile, CompileNext
<1>3. ~Running'
  BY <1>1 DEF Running, runVars
<1>4. DataInv'
  <2>1. CASE BuildStep
    BY <2>1, SplitAssumption DEF BuildStep, DataInv
  <2>2. CASE AssignThreads(Deps)
    BY <2>2 DEF AssignThreads, DataInv
  <2>3. CASE SplitStep
    <3>1. thread >= 0 /\ data' = data
      BY <2>3, SplitAssumption
      DEF SplitStep, SplitThread, InsertSynchronization, ThreadIds, loopVars
    <3> QED BY <3>1 DEF PipeInv, DataInv
  <2> QED BY <2>1, <2>2, <2>3 DEF Compile
<1> QED BY <1>2, <1>3, <1>4 DEF PipeInv, SamePath

\* The copy of the header is the first block of the path.
LEMMA PipeStarts == ASSUME PipeInv, Start PROVE PipeInv'
<1>1. /\ Split /\ CompileInv /\ UNCHANGED splitVars
      /\ \A i \in Workers : Closed(i)
  BY DEF Start, PipeInv
<1>2. UNCHANGED <<succs, edges, data, assigned, thread, bodies, channels>>
  BY <1>1 DEF splitVars, loopVars, buildVars
<1>3. /\ CompileInv' /\ DataInv' /\ Split'
      /\ Workers' = Workers
      /\ \A i \in Workers : Closed(i)' /\ Stops(i)' = Stops(i) /\ Relevant(i)' = Relevant(i)
  <2>1. CompileInv'
    BY <1>1, CompileStep, DepsAreData
  <2>2. \A i : Relevant(i)' = Relevant(i)
    BY <1>2 DEF Relevant, Part
  <2>3. \A b : Decided(b)' = Decided(b)
    BY <1>2 DEF Decided
  <2>4. Workers' = Workers
    BY <1>2, <2>2 DEF Workers
  <2> QED BY <1>1, <1>2, <2>1, <2>2, <2>3, <2>4
          DEF PipeInv, DataInv, Split, Closed, Stops
<1>4. PICK p \in Paths : path' = Append(p, exit)
  BY DEF Start
<1>5. PathOK'
  <2>1. /\ p \in Seq(Blocks) /\ Len(p) \in Nat /\ Len(p) > 0
        /\ p[1] = header
        /\ \A n \in 1 .. Len(p) - 1 : p[n + 1] \in succs[p[n]]
        /\ exit \in succs[p[Len(p)]]
    BY PipelineAssumption DEF Paths
  <2>2. /\ path' \in Seq(Blocks \cup {exit}) /\ Len(path') = Len(p) + 1
        /\ \A n \in 1 .. Len(p) : path'[n] = p[n] /\ p[n] \in Blocks
        /\ path'[Len(p) + 1] = exit
    BY <1>4, <2>1
  <2> QED BY <1>2, <2>1, <2>2 DEF PathOK
<1>6. ASSUME NEW i \in Workers
      PROVE  /\ trace'[i] = <<header>> /\ left'[i] = Ops(i, header)'
             /\ header \in Relevant(i) /\ At(i)' = header
  <2>1. trace'[i] = <<header>> /\ left'[i] = Ops(i, header)
    BY DEF Start
  <2>2. Ops(i, header)' = Ops(i, header)
    BY <1>2 DEF Ops, Produces, Consumes
  <2> QED BY <1>1, <2>1, <2>2 DEF Closed, At
<1>7. RunTypeOK'
  <2>1. trace' \in [Workers -> Seq(Blocks \cup {exit})]
    BY LoopAssumption DEF Start
  <2>2. left' \in [Workers -> SUBSET channels]
    BY DEF Start, Ops
  <2>3. queues' \in [channels -> Seq(Nat)] /\ held' \in [channels -> Nat]
    BY DEF Start
  <2>4. ASSUME NEW i \in Workers PROVE trace'[i] # <<>> /\ left'[i] \subseteq Ops(i, At(i))'
    <3>1. Ops(i, At(i))' = Ops(i, header)'
      BY <1>6 DEF Ops
    <3> QED BY <1>6, <3>1
  <2> QED BY <1>2, <1>3, <2>1, <2>2, <2>3, <2>4 DEF RunTypeOK
<1>8. ASSUME NEW i \in Workers, NEW b
      PROVE  Times(trace'[i], Len(trace'[i]), b) = IF b = header THEN 1 ELSE 0
  <2>1. {k \in 1 .. 1 : <<header>>[k] = b} = IF b = header THEN {1} ELSE {}
    OBVIOUS
  <2>2. Cardinality({1}) = 1 /\ Cardinality({}) = 0
    BY FS_Singleton, FS_EmptySet
  <2>3. trace'[i] = <<header>> /\ Len(<<header>>) = 1
    BY <1>6
  <2>4. Times(<<header>>, 1, b) = IF b = header THEN 1 ELSE 0
    BY <2>1, <2>2 DEF Times
  <2> QED BY <2>3, <2>4
<1>9. FlowInv'
  <2> SUFFICES ASSUME NEW c \in channels
               PROVE  /\ queues'[c] = <<>> /\ held'[c] = 0
                      /\ Sent(c)' = 0 /\ Taken(c)' = 0
    BY <1>2 DEF FlowInv
  <2>1. /\ assigned[c[1]] \in Workers /\ c[3] \in Workers /\ assigned[c[1]] # c[3]
    BY <1>1, ChannelEnds
  <2>2. c \in Ops(assigned[c[1]], header) <=> c[1][1] = header
    BY <2>1 DEF Ops, Produces, Consumes
  <2>3. c \in Ops(c[3], header) <=> c[2][1] = header
    BY <2>1 DEF Ops, Produces, Consumes
  <2>4. left'[assigned[c[1]]] = Ops(assigned[c[1]], header) /\ left'[c[3]] = Ops(c[3], header)
    BY <2>1 DEF Start
  <2>5. Sent(c)' = 0
    BY <1>2, <1>8, <2>1, <2>2, <2>4 DEF Sent
  <2>6. Taken(c)' = 0
    BY <1>2, <1>8, <2>1, <2>3, <2>4 DEF Taken
  <2> QED BY <2>5, <2>6 DEF Start
<1>10. ASSUME NEW i \in Workers PROVE IsAt(i, 1)'
  <2>1. path'[1] = header /\ header \in Stops(i)
    BY <1>5, <1>6 DEF PathOK, Stops
  <2>2. {m \in 1 .. 1 : path'[m] \in Stops(i)} = {1}
    BY <2>1
  <2>3. Rank(i, 1)' = 1
    BY <1>3, <2>2, FS_Singleton DEF Rank
  <2>4. ASSUME NEW b PROVE Times(path', 1, b) = IF b = header THEN 1 ELSE 0
    <3>1. {m \in 1 .. 1 : path'[m] = b} = IF b = header THEN {1} ELSE {}
      BY <2>1
    <3> QED BY <3>1, FS_Singleton, FS_EmptySet DEF Times
  <2>5. Len(trace'[i]) = 1
    BY <1>6
  <2>6. \A b : Times(trace'[i], Len(trace'[i]), b) = Times(path', 1, b)
    BY <1>8, <2>4
  <2>7. /\ path'[1] = At(i)' /\ path'[1] \in Stops(i)'
        /\ Rank(i, 1)' = Len(trace'[i])
    BY <1>3, <1>6, <2>1, <2>3, <2>5
  <2> QED BY <2>6, <2>7 DEF IsAt
<1>11. Placed' /\ SamePath'
  <2>1. 1 \in DOMAIN path'
    BY <1>5 DEF PathOK
  <2>2. Placed'
    BY <1>3, <1>10, <2>1 DEF Placed
  <2>3. ASSUME NEW i \in Workers, NEW n \in DOMAIN trace'[i]
        PROVE  IsStop(i, n, trace[i][n])'
    <3>1. n = 1 /\ trace'[i][n] = header
      BY <1>6, <2>3
    <3>2. path'[1] = header /\ path'[1] \in Stops(i)' /\ Rank(i, 1)' = 1
      BY <1>6, <1>10 DEF IsAt
    <3> QED BY <2>1, <3>1, <3>2 DEF IsStop
  <2> QED BY <1>3, <2>1, <2>2, <2>3 DEF SamePath
<1> QED BY <1>3, <1>5, <1>7, <1>9, <1>11 DEF PipeInv

-----------------------------------------------------------------------------
(* A produce or a consume.                                                  *)

\* What it leaves alone.
LEMMA CallLeaves ==
  ASSUME PipeInv, Running, UNCHANGED <<splitVars, path, trace>>
  PROVE  /\ CompileInv' /\ DataInv' /\ Split' /\ PathOK' /\ Placed' /\ SamePath'
         /\ Workers' = Workers
         /\ UNCHANGED <<succs, edges, data, assigned, thread, bodies, channels>>
         /\ \A i : At(i)' = At(i) /\ Closed(i)' = Closed(i)
         /\ \A i, b : Ops(i, b)' = Ops(i, b)
<1>1. UNCHANGED <<succs, edges, data, assigned, thread, bodies, channels>>
  BY DEF splitVars, loopVars, buildVars
<1>2. CompileInv'
  BY CompileStep, DepsAreData DEF PipeInv
<1>3. \A i : Relevant(i)' = Relevant(i) /\ Stops(i)' = Stops(i)
  BY <1>1 DEF Relevant, Part, Stops
<1>4. \A b : Decided(b)' = Decided(b)
  BY <1>1 DEF Decided
<1>5. Workers' = Workers
  BY <1>1, <1>3 DEF Workers
<1>6. \A i : At(i)' = At(i) /\ Closed(i)' = Closed(i)
  BY <1>1, <1>3, <1>4 DEF At, Closed
<1>7. \A i, b : Ops(i, b)' = Ops(i, b)
  BY <1>1 DEF Ops, Produces, Consumes
<1>8. PathOK' /\ DataInv' /\ Split'
  BY <1>1 DEF PipeInv, PathOK, DataInv, Split
<1>9. \A i, k : IsAt(i, k)' <=> IsAt(i, k)
  BY <1>3, <1>6 DEF IsAt, Rank
<1>10. Placed'
  BY <1>5, <1>9 DEF PipeInv, Placed
<1>11. SamePath'
  <2>1. \A i, n, b : IsStop(i, n, b)' <=> IsStop(i, n, b)
    BY <1>3 DEF IsStop, Rank
  <2> QED BY <1>5, <2>1 DEF PipeInv, SamePath
<1> QED BY <1>1, <1>2, <1>5, <1>6, <1>7, <1>8, <1>10, <1>11

\* A call of thread i on c is one value more for one end of c, and nothing for
\* any other.
LEMMA CallCounts ==
  ASSUME PipeInv, Running, NEW i \in Workers, NEW c \in channels, IsNext(i, c)
  PROVE  /\ assigned[c[1]] = i => /\ c[3] # i /\ At(i) = c[1][1]
                                  /\ Sent(c) = Visits(i) - 1 /\ Sent(c)' = Visits(i)
                                  /\ Taken(c)' = Taken(c)
         /\ c[3] = i => /\ assigned[c[1]] # i /\ At(i) = c[2][1]
                        /\ Taken(c) = Visits(i) - 1 /\ Taken(c)' = Visits(i)
                        /\ Sent(c)' = Sent(c)
         /\ \A d \in channels \ {c} : Sent(d)' = Sent(d) /\ Taken(d)' = Taken(d)
         /\ Visits(i) \in Nat
<1>1. /\ c \in left[i] /\ left' = [left EXCEPT ![i] = @ \ {c}]
      /\ UNCHANGED <<splitVars, path, trace>>
  BY DEF IsNext
<1>2. assigned' = assigned
  BY <1>1 DEF splitVars, loopVars
<1>3. CompileInv /\ Split /\ RunTypeOK
  BY DEF PipeInv
<1>4. /\ \A j \in Workers : \A d : d \in left'[j] <=> d \in left[j] /\ ~(j = i /\ d = c)
      /\ c \in Ops(i, At(i))
  BY <1>1, <1>3 DEF RunTypeOK
<1>5. \A d \in channels : /\ assigned[d[1]] \in Workers /\ d[3] \in Workers
                          /\ assigned[d[1]] # d[3]
  BY <1>3, ChannelEnds
<1>6. ASSUME NEW d \in channels
      PROVE  /\ d # c => Sent(d)' = Sent(d) /\ Taken(d)' = Taken(d)
             /\ assigned[d[1]] # i => Sent(d)' = Sent(d)
             /\ d[3] # i => Taken(d)' = Taken(d)
  BY <1>1, <1>2, <1>4, <1>5 DEF Sent, Taken
<1>7. Visits(i) \in Nat /\ Visits(i) = Times(trace[i], Len(trace[i]), At(i))
  <2>1. Len(trace[i]) \in Nat
    BY <1>3 DEF RunTypeOK
  <2> QED BY <2>1, TimesInNat DEF Visits
<1>8. ASSUME assigned[c[1]] = i
      PROVE  c[3] # i /\ At(i) = c[1][1] /\ Sent(c) = Visits(i) - 1 /\ Sent(c)' = Visits(i)
  <2>1. c[3] # i
    BY <1>5, <1>8
  <2>2. At(i) = c[1][1]
    BY <1>4, <2>1 DEF Ops, Consumes
  <2>3. c \notin left'[i]
    BY <1>4
  <2> QED BY <1>1, <1>2, <1>7, <1>8, <2>1, <2>2, <2>3 DEF Sent
<1>9. ASSUME c[3] = i
      PROVE  assigned[c[1]] # i /\ At(i) = c[2][1] /\ Taken(c) = Visits(i) - 1 /\ Taken(c)' = Visits(i)
  <2>1. assigned[c[1]] # i
    BY <1>5, <1>9
  <2>2. At(i) = c[2][1]
    BY <1>4, <2>1 DEF Ops, Produces
  <2>3. c \notin left'[i]
    BY <1>4
  <2> QED BY <1>1, <1>2, <1>7, <1>9, <2>1, <2>2, <2>3 DEF Taken
<1> QED BY <1>5, <1>6, <1>7, <1>8, <1>9

LEMMA CountTypes ==
  ASSUME CompileInv, Split, RunTypeOK, NEW c \in channels
  PROVE  Sent(c) \in Int /\ Taken(c) \in Int
<1>1. assigned[c[1]] \in Workers /\ c[3] \in Workers
  BY ChannelEnds
<1>2. Len(trace[assigned[c[1]]]) \in Nat /\ Len(trace[c[3]]) \in Nat
  BY <1>1 DEF RunTypeOK
<1> QED BY <1>2, TimesInNat DEF Sent, Taken

LEMMA CallTypes ==
  ASSUME PipeInv, Running, NEW i \in Workers, NEW c \in channels, IsNext(i, c),
         queues' \in [channels -> Seq(Nat)], held' \in [channels -> Nat]
  PROVE  RunTypeOK'
<1>1. RunTypeOK /\ left' = [left EXCEPT ![i] = @ \ {c}] /\ trace' = trace
  BY DEF PipeInv, IsNext
<1>2. /\ Workers' = Workers /\ channels' = channels
      /\ \A j : At(j)' = At(j) /\ Closed(j)' = Closed(j)
      /\ \A j, b : Ops(j, b)' = Ops(j, b)
  BY CallLeaves DEF IsNext
<1>3. left' \in [Workers -> SUBSET channels] /\ \A j \in Workers : left'[j] \subseteq left[j]
  BY <1>1 DEF RunTypeOK
<1> QED BY <1>1, <1>2, <1>3 DEF RunTypeOK

LEMMA PipeProduces ==
  ASSUME PipeInv, Running, NEW i \in Workers, NEW c \in channels, Produce(i, c)
  PROVE  PipeInv'
<1>1. /\ IsNext(i, c) /\ assigned[c[1]] = i
      /\ queues' = [queues EXCEPT ![c] = Append(@, Visits(i))] /\ held' = held
  BY DEF Produce, Produces
<1>2. RunTypeOK /\ FlowInv /\ CompileInv /\ Split
  BY DEF PipeInv
<1>3. /\ Visits(i) \in Nat /\ Sent(c) = Visits(i) - 1 /\ Sent(c)' = Visits(i)
      /\ Taken(c)' = Taken(c)
      /\ \A d \in channels \ {c} : Sent(d)' = Sent(d) /\ Taken(d)' = Taken(d)
  BY <1>1, CallCounts
<1>4. queues \in [channels -> Seq(Nat)] /\ held \in [channels -> Nat]
  BY <1>2 DEF RunTypeOK
<1>5. queues' \in [channels -> Seq(Nat)] /\ held' \in [channels -> Nat]
  BY <1>1, <1>3, <1>4
<1>6. RunTypeOK'
  BY <1>1, <1>5, CallTypes
<1>7. FlowInv'
  <2> SUFFICES ASSUME NEW d \in channels
               PROVE  /\ Len(queues'[d]) = Sent(d)' - Taken(d)'
                      /\ \A n \in 1 .. Len(queues'[d]) : queues'[d][n] = Taken(d)' + n
                      /\ held'[d] = Taken(d)'
    BY <1>1, CallLeaves DEF FlowInv, IsNext
  <2>1. CASE d # c
    BY <1>1, <1>2, <1>3, <1>4, <2>1 DEF FlowInv
  <2>2. CASE d = c
    <3>1. /\ queues[c] \in Seq(Nat) /\ queues'[c] = Append(queues[c], Visits(i))
          /\ Len(queues[c]) = Sent(c) - Taken(c) /\ held[c] = Taken(c)
          /\ \A n \in 1 .. Len(queues[c]) : queues[c][n] = Taken(c) + n
      BY <1>1, <1>2, <1>4 DEF FlowInv
    <3>2. Taken(c) \in Int
      BY <1>2, CountTypes
    <3>3. /\ Len(queues'[c]) = Len(queues[c]) + 1
          /\ \A n \in 1 .. Len(queues[c]) : queues'[c][n] = queues[c][n]
          /\ queues'[c][Len(queues[c]) + 1] = Visits(i)
      BY <1>3, <3>1
    <3> QED BY <1>1, <1>3, <2>2, <3>1, <3>2, <3>3
  <2> QED BY <2>1, <2>2
<1> QED BY <1>1, <1>6, <1>7, CallLeaves DEF PipeInv, IsNext

LEMMA PipeConsumes ==
  ASSUME PipeInv, Running, NEW i \in Workers, NEW c \in channels, Consume(i, c)
  PROVE  PipeInv'
<1>1. /\ IsNext(i, c) /\ c[3] = i /\ queues[c] # <<>>
      /\ held' = [held EXCEPT ![c] = Head(queues[c])]
      /\ queues' = [queues EXCEPT ![c] = Tail(@)]
  BY DEF Consume, Consumes
<1>2. RunTypeOK /\ FlowInv /\ CompileInv /\ Split
  BY DEF PipeInv
<1>3. /\ Visits(i) \in Nat /\ Taken(c) = Visits(i) - 1 /\ Taken(c)' = Visits(i)
      /\ Sent(c)' = Sent(c)
      /\ \A d \in channels \ {c} : Sent(d)' = Sent(d) /\ Taken(d)' = Taken(d)
  BY <1>1, CallCounts
<1>4. queues \in [channels -> Seq(Nat)] /\ held \in [channels -> Nat]
  BY <1>2 DEF RunTypeOK
<1>5. /\ queues[c] \in Seq(Nat) /\ Len(queues[c]) \in Nat /\ Len(queues[c]) > 0
      /\ Len(queues[c]) = Sent(c) - Taken(c)
      /\ \A n \in 1 .. Len(queues[c]) : queues[c][n] = Taken(c) + n
  BY <1>1, <1>2, <1>4 DEF FlowInv
<1>6. /\ Tail(queues[c]) \in Seq(Nat) /\ Head(queues[c]) \in Nat
      /\ Head(queues[c]) = queues[c][1]
      /\ Len(Tail(queues[c])) = Len(queues[c]) - 1
      /\ \A n \in 1 .. Len(queues[c]) - 1 : Tail(queues[c])[n] = queues[c][n + 1]
  BY <1>1, <1>5
<1>7. queues' \in [channels -> Seq(Nat)] /\ held' \in [channels -> Nat]
  BY <1>1, <1>4, <1>6
<1>8. RunTypeOK'
  BY <1>1, <1>7, CallTypes
<1>9. FlowInv'
  <2> SUFFICES ASSUME NEW d \in channels
               PROVE  /\ Len(queues'[d]) = Sent(d)' - Taken(d)'
                      /\ \A n \in 1 .. Len(queues'[d]) : queues'[d][n] = Taken(d)' + n
                      /\ held'[d] = Taken(d)'
    BY <1>1, CallLeaves DEF FlowInv, IsNext
  <2>1. CASE d # c
    BY <1>1, <1>2, <1>3, <1>4, <2>1 DEF FlowInv
  <2>2. CASE d = c
    <3>1. queues'[c] = Tail(queues[c]) /\ held'[c] = Head(queues[c])
      BY <1>1, <1>4
    <3>2. Sent(c) \in Int
      BY <1>2, CountTypes
    <3>3. Len(queues'[c]) = Sent(c)' - Taken(c)'
      BY <1>3, <1>5, <1>6, <3>1, <3>2
    <3>4. held'[c] = Taken(c)'
      <4>1. 1 \in 1 .. Len(queues[c])
        BY <1>5
      <4>2. queues[c][1] = Taken(c) + 1
        BY <1>5, <4>1
      <4> QED BY <1>3, <1>6, <3>1, <4>2
    <3>5. ASSUME NEW n \in 1 .. Len(queues'[c]) PROVE queues'[c][n] = Taken(c)' + n
      <4>1. n \in 1 .. Len(queues[c]) - 1 /\ n + 1 \in 1 .. Len(queues[c])
        BY <1>5, <1>6, <3>1
      <4>2. queues'[c][n] = Taken(c) + (n + 1)
        BY <1>5, <1>6, <3>1, <4>1
      <4> QED BY <1>3, <4>1, <4>2
    <3> QED BY <2>2, <3>3, <3>4, <3>5
  <2> QED BY <2>1, <2>2
<1> QED BY <1>1, <1>8, <1>9, CallLeaves DEF PipeInv, IsNext

-----------------------------------------------------------------------------
(* The end of a block: the branch is taken as the loop takes it.            *)

\* What comes to the count that b has at its place k of the path is there.
LEMMA OnePosition ==
  ASSUME PathOK, NEW k \in DOMAIN path
  PROVE  Position(path[k], Times(path, k, path[k])) = k
<1> DEFINE found == {m \in DOMAIN path : /\ path[m] = path[k]
                                         /\ Times(path, m, path[k]) = Times(path, k, path[k])}
<1>1. DOMAIN path \subseteq Nat
  <2>1. DOMAIN path = 1 .. Len(path) /\ Len(path) \in Nat
    BY PathFacts
  <2> QED BY <2>1
<1>2. ASSUME NEW m \in found PROVE m = k
  <2>1. m \in Nat /\ k \in Nat /\ path[m] = path[k]
    BY <1>1
  <2>2. ~(m < k) /\ ~(k < m)
    <3>1. ASSUME m < k PROVE Times(path, m, path[k]) < Times(path, k, path[k])
      BY <2>1, <3>1, TimesGrow
    <3>2. ASSUME k < m PROVE Times(path, k, path[k]) < Times(path, m, path[k])
      BY <2>1, <3>2, TimesGrow
    <3>3. Times(path, m, path[k]) = Times(path, k, path[k]) /\ Times(path, k, path[k]) \in Nat
      BY <2>1, TimesInNat
    <3> QED BY <3>1, <3>2, <3>3
  <2> QED BY <2>1, <2>2
<1>3. found = {k}
  BY <1>2
<1> QED BY <1>3 DEF Position

\* A block has finitely many successors, and no more targets.
LEMMA TargetsFinite ==
  ASSUME CompileInv, Split, NEW i, NEW b \in Blocks
  PROVE  /\ IsFiniteSet(succs[b]) /\ IsFiniteSet(Targets(i, b))
         /\ Cardinality(Targets(i, b)) <= Cardinality(succs[b])
<1>1. IsFiniteSet(Blocks \cup {exit})
  BY LoopAssumption, FS_AddElement
<1>2. succs[b] \in SUBSET (Blocks \cup {exit})
  BY SplitFacts DEF AnyGraphs
<1>3. IsFiniteSet(succs[b])
  BY <1>1, <1>2, FS_Subset
<1> DEFINE f == [s \in succs[b] |-> Target(i, s)]
<1>4. f \in Surjection(succs[b], Targets(i, b))
  BY DEF Surjection, Targets
<1> HIDE DEF f
<1> QED BY <1>3, <1>4, FS_Surjection

\* The values of a thread at the branch of a block are those of this visit: of
\* its own condition, or of the one consumed for it.
LEMMA ChosenIsCurrent ==
  ASSUME PipeInv, Running, Switches = {}, NEW i \in Workers, left[i] = {},
         At(i) \in Relevant(i), Conditional(i, At(i))
  PROVE  Chosen(i, At(i)) = Visits(i)
<1> DEFINE b == At(i)
           c == <<Condition(b), Branch(b), i>>
<1>1. CompileInv /\ Split /\ FlowInv
  BY DEF PipeInv
<1>2. b \in Blocks /\ i \in bodies
  BY <1>1, WorkerFacts
<1>3. edges = Edges(data)
  BY <1>1, SplitAssumption DEF Split, CompileInv, GraphInv
<1>4. Cardinality(succs[b]) > 1
  <2>1. /\ IsFiniteSet(succs[b]) /\ IsFiniteSet(Targets(i, b))
        /\ Cardinality(Targets(i, b)) <= Cardinality(succs[b])
    BY <1>1, <1>2, TargetsFinite
  <2>2. Cardinality(Targets(i, b)) \in Nat /\ Cardinality(succs[b]) \in Nat
    BY <2>1, FS_CardinalityType
  <2> QED BY <2>1, <2>2 DEF Conditional
<1>5. <<Condition(b), Branch(b)>> \in edges
  BY <1>2, <1>3, <1>4 DEF Edges, ValueEdges
<1>6. Branch(b) \in Copied(i) /\ IsBranch(Branch(b)) /\ ~IsBranch(Condition(b))
      /\ Branch(b)[1] = b
  BY SplitAssumption DEF Copied, IsBranch, Branch, Condition
<1>7. Condition(b) \in Reads(i, Branch(b))
  BY <1>5, <1>6 DEF Reads
<1>8. Condition(b) \in Part(i) \/ c \in channels
  BY <1>1, <1>2, <1>6, <1>7, NoOperandMissing DEF OperandsArrive
<1>9. CASE assigned[Condition(b)] = i
  BY <1>9 DEF Chosen
<1>10. CASE assigned[Condition(b)] # i
  <2>1. c \in channels /\ Chosen(i, b) = held[c]
    BY <1>8, <1>10 DEF Part, Chosen
  <2>2. held[c] = Taken(c)
    BY <1>1, <2>1 DEF FlowInv
  <2>3. Taken(c) = Times(trace[i], Len(trace[i]), b) - 0
    BY <1>6 DEF Taken
  <2>4. Times(trace[i], Len(trace[i]), b) \in Nat
    <3>1. Len(trace[i]) \in Nat
      BY DEF PipeInv, RunTypeOK
    <3> QED BY <3>1, TimesInNat
  <2> QED BY <2>1, <2>2, <2>3, <2>4 DEF Visits
<1> QED BY <1>9, <1>10

LEMMA AllEqual ==
  ASSUME NEW S, IsFiniteSet(S), ~(Cardinality(S) > 1), NEW x \in S, NEW y \in S
  PROVE  x = y
<1> SUFFICES ASSUME x # y PROVE FALSE
  OBVIOUS
<1>1. IsFiniteSet({x}) /\ Cardinality({x}) = 1
  BY FS_Singleton
<1>2. Cardinality({x} \cup {y}) = 2
  BY <1>1, FS_AddElement
<1>3. {x} \cup {y} \in SUBSET S /\ Cardinality(S) \in Nat
  BY FS_CardinalityType
<1>4. Cardinality({x} \cup {y}) <= Cardinality(S)
  BY <1>3, FS_Subset
<1> QED BY <1>2, <1>3, <1>4

\* The next block of the path that thread i has is where its copy of the edge
\* of the path goes.
LEMMA NextStop ==
  ASSUME PipeInv, Running, NEW i \in Workers,
         NEW k \in 1 .. Len(path) - 1, path[k] \in Relevant(i)
  PROVE  \E m \in k + 1 .. Len(path) :
            /\ path[m] = Target(i, path[k + 1]) /\ path[m] \in Stops(i)
            /\ \A q \in k + 1 .. m - 1 : path[q] \notin Stops(i)
<1> DEFINE cut == [c \in Blocks |-> IF c \in Relevant(i) THEN {} ELSE succs[c]]
           Q == Reached(cut, path[k + 1])
           T == {m \in Nat : m \in k + 1 .. Len(path) /\ path[m] \in Stops(i)}
<1>1. CompileInv /\ Split /\ PathOK /\ RunTypeOK
  BY DEF PipeInv
<1>2. Len(path) \in Nat /\ path[k + 1] \in succs[path[k]]
  BY <1>1, PathFacts DEF PathOK
<1>3. T \subseteq Nat /\ T # {}
  <2>1. Len(path) \in T
    BY <1>1, <1>2 DEF PathOK, Stops
  <2> QED BY <2>1
<1>4. PICK m \in T : \A q \in T : m <= q
  <2> HIDE DEF T
  <2> QED BY <1>3, SmallestMember
<1>5. /\ m \in Nat /\ m \in k + 1 .. Len(path) /\ path[m] \in Stops(i)
      /\ \A q \in k + 1 .. m - 1 : path[q] \notin Stops(i)
  BY <1>2, <1>4
<1>6. path[k + 1] \in Q /\ IsClosed(cut, Q)
  BY LoopAssumption, ReachedFacts
<1> HIDE DEF Q
<1>7. path[m] \in Q
  <2> DEFINE U == {n \in Nat : path[k + 1 + n] \in Q}
             top == m - k - 1
  <2>1. 0 \in U
    BY <1>2, <1>6
  <2>2. ASSUME NEW n \in 0 .. top - 1, n \in U PROVE n + 1 \in U
    <3>1. /\ k + 1 + n \in k + 1 .. m - 1 /\ k + 1 + n \in 1 .. Len(path) - 1
          /\ (k + 1 + n) + 1 = k + 1 + (n + 1)
      BY <1>2, <1>5
    <3>2. /\ path[k + 1 + n] \in Blocks /\ path[k + 1 + n] \notin Relevant(i)
          /\ path[k + 1 + (n + 1)] \in succs[path[k + 1 + n]]
      BY <1>1, <1>5, <3>1 DEF PathOK, Stops
    <3>3. path[k + 1 + (n + 1)] \in Q
      BY <1>6, <2>2, <3>2 DEF IsClosed
    <3> QED BY <3>3
  <2>3. top \in Nat /\ k + 1 + top = m
    BY <1>2, <1>5
  <2> HIDE DEF U, top
  <2>4. top \in U
    <3>1. 0 .. top \subseteq U
      BY <2>1, <2>2, <2>3, UpTo
    <3> QED BY <2>3, <3>1
  <2> QED BY <2>3, <2>4 DEF U
<1>8. Q \cap (Relevant(i) \cup {exit}) = {Target(i, path[k + 1])}
  BY <1>1, <1>2, WorkerFacts, PathsStay DEF PathsKept, RunTypeOK, Q
<1> QED BY <1>5, <1>7, <1>8 DEF Stops

\* The branch goes where the loop goes from that place of the path.
LEMMA BranchFollows ==
  ASSUME PipeInv, Running, Switches = {}, NEW i \in Workers, EndBlock(i),
         NEW k \in DOMAIN path, IsAt(i, k)
  PROVE  /\ k \in 1 .. Len(path) - 1 /\ path[k] \in Relevant(i) /\ left[i] = {}
         /\ trace' = [trace EXCEPT ![i] = Append(@, Target(i, path[k + 1]))]
         /\ left' = [left EXCEPT ![i] = Ops(i, Target(i, path[k + 1]))]
<1>1. CompileInv /\ Split /\ PathOK
  BY DEF PipeInv
<1>2. /\ At(i) # exit /\ left[i] = {}
      /\ path[k] = At(i) /\ At(i) \in Relevant(i)
  BY DEF EndBlock, IsAt, Stops
<1>3. k \in 1 .. Len(path) - 1
  BY <1>1, <1>2, PathFacts DEF PathOK
<1>4. Visits(i) = Times(path, k, path[k])
  BY <1>2 DEF IsAt, Visits
<1>5. PICK s \in succs[At(i)] :
         /\ Conditional(i, At(i)) /\ Position(At(i), Chosen(i, At(i))) # 0
               => s = path[Position(At(i), Chosen(i, At(i))) + 1]
         /\ trace' = [trace EXCEPT ![i] = Append(@, Target(i, s))]
         /\ left' = [left EXCEPT ![i] = Ops(i, Target(i, s))]
  BY DEF EndBlock
<1>6. Target(i, s) = Target(i, path[k + 1])
  <2>1. CASE Conditional(i, At(i))
    <3>1. Position(At(i), Chosen(i, At(i))) = k /\ k # 0
      BY <1>1, <1>2, <1>3, <1>4, <2>1, ChosenIsCurrent, OnePosition
    <3> QED BY <1>5, <2>1, <3>1
  <2>2. CASE ~Conditional(i, At(i))
    <3>1. path[k + 1] \in succs[At(i)]
      BY <1>1, <1>2, <1>3 DEF PathOK
    <3>2. IsFiniteSet(Targets(i, At(i)))
      BY <1>1, <1>2, WorkerFacts, TargetsFinite
    <3>3. Target(i, s) \in Targets(i, At(i)) /\ Target(i, path[k + 1]) \in Targets(i, At(i))
      BY <3>1 DEF Targets
    <3>4. ~(Cardinality(Targets(i, At(i))) > 1)
      BY <2>2 DEF Conditional
    <3> QED BY <3>2, <3>3, <3>4, AllEqual
  <2> QED BY <2>1, <2>2
<1> QED BY <1>2, <1>3, <1>5, <1>6

LEMMA PipeEndsBlock ==
  ASSUME PipeInv, Running, Switches = {}, NEW i \in Workers, EndBlock(i)
  PROVE  PipeInv'
<1>1. CompileInv /\ Split /\ PathOK /\ RunTypeOK /\ FlowInv /\ Placed /\ SamePath
  BY DEF PipeInv
<1>2. PICK k \in DOMAIN path : IsAt(i, k)
  BY <1>1 DEF Placed
<1>3. /\ k \in 1 .. Len(path) - 1 /\ path[k] \in Relevant(i) /\ left[i] = {}
      /\ trace' = [trace EXCEPT ![i] = Append(@, Target(i, path[k + 1]))]
      /\ left' = [left EXCEPT ![i] = Ops(i, Target(i, path[k + 1]))]
  BY <1>2, BranchFollows
<1>4. PICK m \in k + 1 .. Len(path) :
         /\ path[m] = Target(i, path[k + 1]) /\ path[m] \in Stops(i)
         /\ \A q \in k + 1 .. m - 1 : path[q] \notin Stops(i)
  BY <1>3, NextStop
<1> DEFINE t == path[m]
<1>5. /\ trace' = [trace EXCEPT ![i] = Append(@, t)]
      /\ left' = [left EXCEPT ![i] = Ops(i, t)]
      /\ UNCHANGED <<splitVars, path, queues, held>>
  BY <1>3, <1>4 DEF EndBlock
<1>6. UNCHANGED <<succs, edges, data, assigned, thread, bodies, channels>>
  BY <1>5 DEF splitVars, loopVars, buildVars
<1>7. \A j : Relevant(j)' = Relevant(j) /\ Stops(j)' = Stops(j)
  BY <1>6 DEF Relevant, Part, Stops
<1>8. /\ Workers' = Workers /\ \A j : Closed(j)' = Closed(j)
      /\ \A j, b : Ops(j, b)' = Ops(j, b)
  BY <1>6, <1>7 DEF Workers, Closed, Decided, Ops, Produces, Consumes
<1>9. CompileInv' /\ DataInv' /\ Split' /\ PathOK' /\ Running'
  <2>1. CompileInv'
    BY <1>1, <1>5, CompileStep, DepsAreData
  <2> QED BY <1>1, <1>5, <1>6, <2>1 DEF PipeInv, DataInv, Split, PathOK, Running
<1>10. /\ k \in Nat /\ m \in Nat /\ k < m /\ Len(path) \in Nat
       /\ m \in DOMAIN path /\ t \in Blocks \cup {exit}
  <2>1. Len(path) \in Nat /\ DOMAIN path = 1 .. Len(path)
    BY <1>1, PathFacts
  <2>2. k \in Nat /\ m \in Nat /\ k < m /\ m \in 1 .. Len(path)
    BY <1>3, <1>4, <2>1
  <2> QED BY <1>1, <2>1, <2>2, PathFacts
<1>11. /\ trace[i] \in Seq(Blocks \cup {exit}) /\ Len(trace[i]) \in Nat
       /\ trace'[i] = Append(trace[i], t) /\ Len(trace'[i]) = Len(trace[i]) + 1
       /\ trace'[i] \in Seq(Blocks \cup {exit})
       /\ \A n \in 1 .. Len(trace[i]) : trace'[i][n] = trace[i][n]
       /\ trace'[i][Len(trace[i]) + 1] = t
       /\ At(i)' = t
       /\ left'[i] = Ops(i, t)
       /\ \A j \in Workers \ {i} : trace'[j] = trace[j] /\ left'[j] = left[j]
  BY <1>1, <1>5, <1>10 DEF RunTypeOK, At
<1>12. \A j \in Workers \ {i} : At(j)' = At(j)
  BY <1>11 DEF At
<1>13. \A b : Times(trace'[i], Len(trace'[i]), b)
                 = Times(trace[i], Len(trace[i]), b) + (IF t = b THEN 1 ELSE 0)
  BY <1>10, <1>11, TimesAppended
<1> HIDE DEF t
<1>14. RunTypeOK'
  <2>1. trace' \in [Workers -> Seq(Blocks \cup {exit})]
    BY <1>1, <1>5, <1>11 DEF RunTypeOK
  <2>2. left' \in [Workers -> SUBSET channels]
    BY <1>1, <1>5 DEF RunTypeOK, Ops
  <2>3. \A j \in Workers : trace'[j] # <<>>
    BY <1>1, <1>11 DEF RunTypeOK
  <2>4. \A j \in Workers : left'[j] \subseteq Ops(j, At(j)')
    BY <1>1, <1>11, <1>12 DEF RunTypeOK
  <2>5. \A j \in Workers : Ops(j, At(j))' = Ops(j, At(j)')
    BY <1>6 DEF Ops, Produces, Consumes
  <2>6. queues' \in [channels -> Seq(Nat)] /\ held' \in [channels -> Nat]
    BY <1>1, <1>5 DEF RunTypeOK
  <2> QED BY <1>1, <1>6, <1>8, <2>1, <2>2, <2>3, <2>4, <2>5, <2>6 DEF RunTypeOK
<1>15. FlowInv'
  <2> SUFFICES ASSUME NEW c \in channels
               PROVE  Sent(c)' = Sent(c) /\ Taken(c)' = Taken(c)
    BY <1>1, <1>5, <1>6 DEF FlowInv
  <2>1. /\ assigned[c[1]] \in Workers /\ c[3] \in Workers /\ assigned[c[1]] # c[3]
    BY <1>1, ChannelEnds
  <2>2. \A b : Times(trace[i], Len(trace[i]), b) \in Nat
    BY <1>11, TimesInNat
  <2>3. Sent(c)' = Sent(c)
    <3>1. CASE assigned[c[1]] = i
      <4>1. c \in left'[i] <=> t = c[1][1]
        BY <1>11, <2>1, <3>1 DEF Ops, Produces, Consumes
      <4> QED BY <1>3, <1>6, <1>13, <2>2, <3>1, <4>1 DEF Sent
    <3>2. CASE assigned[c[1]] # i
      BY <1>6, <1>11, <2>1, <3>2 DEF Sent
    <3> QED BY <3>1, <3>2
  <2>4. Taken(c)' = Taken(c)
    <3>1. CASE c[3] = i
      <4>1. c \in left'[i] <=> t = c[2][1]
        BY <1>11, <2>1, <3>1 DEF Ops, Produces, Consumes
      <4> QED BY <1>3, <1>13, <2>2, <3>1, <4>1 DEF Taken
    <3>2. CASE c[3] # i
      BY <1>11, <2>1, <3>2 DEF Taken
    <3> QED BY <3>1, <3>2
  <2> QED BY <2>3, <2>4
<1>16. IsAt(i, m)'
  <2>1. path'[m] = At(i)' /\ path'[m] \in Stops(i)'
    BY <1>4, <1>5, <1>7, <1>11 DEF t
  <2>2. Rank(i, m) = Rank(i, k) + 1
    <3> DEFINE V == {n \in Nat : path[n] \in Stops(i)}
    <3>1. \A n \in Nat : {q \in 1 .. n : q \in V} = {q \in 1 .. n : path[q] \in Stops(i)}
      OBVIOUS
    <3>2. m \in V /\ \A q \in k + 1 .. m - 1 : q \notin V
      BY <1>4, <1>10
    <3> HIDE DEF V
    <3>3. Cardinality({q \in 1 .. m : q \in V})
             = Cardinality({q \in 1 .. k : q \in V}) + (IF m \in V THEN 1 ELSE 0)
      BY <1>10, <3>2, OneMore
    <3> QED BY <1>10, <3>1, <3>2, <3>3 DEF Rank
  <2>3. Rank(i, m)' = Len(trace'[i])
    <3>1. Rank(i, m)' = Rank(i, m)
      BY <1>5, <1>7 DEF Rank
    <3> QED BY <1>2, <1>11, <2>2, <3>1 DEF IsAt
  <2>4. ASSUME NEW b \in Stops(i)
        PROVE  Times(trace'[i], Len(trace'[i]), b) = Times(path', m, b)
    <3>1. \A q \in k + 1 .. m - 1 : path[q] # b
      BY <1>4
    <3>2. Times(path, m, b) = Times(path, k, b) + (IF path[m] = b THEN 1 ELSE 0)
      BY <1>10, <3>1, TimesOnce
    <3> QED BY <1>2, <1>5, <1>13, <3>2 DEF IsAt, t
  <2> QED BY <1>7, <2>1, <2>3, <2>4 DEF IsAt
<1>17. Placed'
  <2> SUFFICES ASSUME NEW j \in Workers PROVE \E n \in DOMAIN path : IsAt(j, n)'
    BY <1>5, <1>8 DEF Placed
  <2>1. CASE j = i
    BY <1>10, <1>16, <2>1
  <2>2. CASE j # i
    <3>1. PICK n \in DOMAIN path : IsAt(j, n)
      BY <1>1 DEF Placed
    <3>2. IsAt(j, n)'
      BY <1>5, <1>7, <1>11, <1>12, <2>2, <3>1 DEF IsAt, Rank
    <3> QED BY <3>2
  <2> QED BY <2>1, <2>2
<1>18. SamePath'
  <2>1. \A j, n, b : IsStop(j, n, b)' <=> IsStop(j, n, b)
    BY <1>5, <1>7 DEF IsStop, Rank
  <2> SUFFICES ASSUME NEW j \in Workers, NEW n \in DOMAIN trace'[j]
               PROVE  IsStop(j, n, trace'[j][n])
    BY <1>8, <2>1 DEF SamePath
  <2>2. CASE n \in DOMAIN trace[j] /\ trace'[j][n] = trace[j][n]
    BY <1>1, <2>2 DEF PipeInv, SamePath
  <2>3. CASE j = i /\ n = Len(trace'[i])
    <3>1. path[m] = trace'[i][n] /\ path[m] \in Stops(i)
      BY <1>4, <1>11, <2>3 DEF t
    <3>2. Rank(i, m)' = n /\ Rank(i, m)' = Rank(i, m)
      BY <1>5, <1>7, <1>16, <2>3 DEF IsAt, Rank
    <3> QED BY <1>10, <2>3, <3>1, <3>2 DEF IsStop
  <2>4. CASE j # i
    BY <1>11, <2>2, <2>4
  <2>5. CASE j = i /\ n # Len(trace'[i])
    <3>1. n \in 1 .. Len(trace[i])
      BY <1>11, <2>5
    <3>2. n \in DOMAIN trace[j] /\ trace'[j][n] = trace[j][n]
      BY <1>11, <2>5, <3>1
    <3> QED BY <2>2, <3>2
  <2> QED BY <2>3, <2>4, <2>5
<1> QED BY <1>9, <1>14, <1>15, <1>17, <1>18 DEF PipeInv

-----------------------------------------------------------------------------
(* What follows from the invariant.                                         *)

LEMMA InvValues == PipeInv => ValuesMatch
<1> SUFFICES ASSUME PipeInv, Running, NEW i \in Workers, NEW c \in channels,
                    Consuming(i, c), InTurn(c)
             PROVE  ValueMatches(i, c)
  BY DEF ValuesMatch
<1>1. CompileInv /\ Split /\ PathOK /\ RunTypeOK /\ FlowInv /\ Placed
  BY DEF PipeInv
<1>2. c \in left[i] /\ c \in Ops(i, At(i)) /\ c[3] = i /\ queues[c] # <<>>
  BY <1>1 DEF RunTypeOK, Consuming, Consumes
<1>4. At(i) = c[2][1]
  <2>1. assigned[c[1]] # i
    BY <1>1, <1>2, ChannelEnds
  <2> QED BY <1>2, <2>1 DEF Ops, Produces
<1>5. PICK k \in DOMAIN path : IsAt(i, k)
  BY <1>1 DEF Placed
<1>6. /\ path[k] = At(i) /\ Visits(i) = Times(path, k, path[k])
  BY <1>5 DEF IsAt, Visits
<1>7. Position(At(i), Visits(i)) = k
  BY <1>1, <1>6, OnePosition
<1>8. Visits(i) \in Nat /\ Taken(c) = Visits(i) - 1
  <2>1. Len(trace[i]) \in Nat
    BY <1>1 DEF RunTypeOK
  <2> QED BY <1>2, <1>4, <2>1, TimesInNat DEF Visits, Taken
<1>9. Head(queues[c]) = Taken(c) + 1
  <2>1. queues[c] \in Seq(Nat)
    BY <1>1, <1>2 DEF RunTypeOK
  <2>2. 1 \in 1 .. Len(queues[c]) /\ Head(queues[c]) = queues[c][1]
    BY <1>2, <2>1
  <2> QED BY <1>1, <1>2, <2>2 DEF FlowInv
<1>10. Head(queues[c]) = Times(path, k, c[2][1])
  BY <1>4, <1>6, <1>8, <1>9
<1>11. Times(path, Before(c, k), c[1][1]) = Times(path, k, c[2][1])
  BY <1>4, <1>6 DEF InTurn
<1> QED BY <1>7, <1>10, <1>11 DEF ValueMatches

LEMMA InvDrained == PipeInv => Drained
<1> SUFFICES ASSUME PipeInv, Ended, NEW c \in channels
             PROVE  Len(queues[c]) = Surplus(c)
  BY DEF Drained
<1>1. Running /\ \A i \in Workers : At(i) = exit
  BY DEF Ended
<1>2. CompileInv /\ Split /\ PathOK /\ RunTypeOK /\ FlowInv /\ Placed
  BY <1>1 DEF PipeInv
<1>4. /\ assigned[c[1]] \in Workers /\ c[3] \in Workers
      /\ c[1][1] \in Relevant(assigned[c[1]]) /\ c[2][1] \in Relevant(c[3])
  BY <1>2, ChannelEnds
<1>5. ASSUME NEW i \in Workers, NEW b \in Relevant(i)
      PROVE  Times(trace[i], Len(trace[i]), b) = Times(path, Len(path), b)
  <2>1. PICK k \in DOMAIN path : IsAt(i, k)
    BY <1>2 DEF Placed
  <2>2. k = Len(path)
    BY <1>1, <1>2, <2>1, PathFacts DEF IsAt
  <2> QED BY <2>1, <2>2 DEF IsAt, Stops
<1>6. ASSUME NEW i \in Workers, NEW d \in channels PROVE d \notin left[i]
  <2>1. left[i] \subseteq Ops(i, exit)
    BY <1>1, <1>2 DEF RunTypeOK
  <2>2. Ops(i, exit) = {}
    <3>1. ASSUME NEW x \in channels PROVE x[1][1] # exit /\ x[2][1] # exit
      <4>1. /\ assigned[x[1]] \in Workers /\ x[1][1] \in Relevant(assigned[x[1]])
            /\ x[3] \in Workers /\ x[2][1] \in Relevant(x[3])
        BY <1>2, ChannelEnds
      <4> QED BY <1>2, <4>1, WorkerFacts
    <3> QED BY <3>1 DEF Ops
  <2> QED BY <2>1, <2>2
<1>7. \A b : Times(path, Len(path), b) \in Nat
  BY <1>2, PathFacts, TimesInNat
<1>8. Sent(c) = Times(path, Len(path), c[1][1])
  BY <1>4, <1>5, <1>6, <1>7 DEF Sent
<1>9. Taken(c) = Times(path, Len(path), c[2][1])
  BY <1>4, <1>5, <1>6, <1>7 DEF Taken
<1> QED BY <1>2, <1>8, <1>9 DEF FlowInv, Surplus

-----------------------------------------------------------------------------
(* What of the loop makes it compute the ends of a channel in turn.         *)

\* From the start, and again from b, control comes to a before b; from a, it
\* comes to b before a and before the exit.
Cut(a) == [succs EXCEPT ![a] = {}]
ToFirst(a, b) == UNION {Reached(Cut(a), s) : s \in {header} \cup succs[b]}
ToSecond(a, b) == UNION {Reached(Cut(b), s) : s \in succs[a]}
Alternate(a, b) == /\ a # b
                   /\ b \notin ToFirst(a, b)
                   /\ a \notin ToSecond(a, b) /\ exit \notin ToSecond(a, b)

\* The use follows in the block of its value, or in one that takes turns with it.
InStep(c) == \/ c[1][1] = c[2][1] /\ c[1][2] < c[2][2]
             \/ Alternate(c[1][1], c[2][1])

LEMMA CutReached ==
  ASSUME succs \in AnyGraphs, NEW a \in Blocks, NEW s
  PROVE  /\ s \in Reached(Cut(a), s)
         /\ \A x \in Reached(Cut(a), s) \cap Blocks : x # a => succs[x] \subseteq Reached(Cut(a), s)
<1>1. DOMAIN Cut(a) = Blocks /\ \A x \in Blocks : x # a => Cut(a)[x] = succs[x]
  BY DEF Cut, AnyGraphs
<1>2. IsFiniteSet(DOMAIN Cut(a))
  BY <1>1, LoopAssumption
<1> HIDE DEF Cut
<1>3. s \in Reached(Cut(a), s) /\ IsClosed(Cut(a), Reached(Cut(a), s))
  BY <1>2, ReachedFacts
<1> QED BY <1>1, <1>3 DEF IsClosed

\* Where the path goes after its n-th block, and which of the two is ahead.
Turns(a, b, n) ==
    \/ /\ Times(path, n, a) = Times(path, n, b)
       /\ path[n + 1] \in ToFirst(a, b)
    \/ /\ Times(path, n, a) = Times(path, n, b) + 1
       /\ path[n + 1] \in ToSecond(a, b)

LEMMA TakeTurns ==
  ASSUME PathOK, succs \in AnyGraphs, NEW a \in Blocks, NEW b \in Blocks, Alternate(a, b)
  PROVE  \A n \in 0 .. Len(path) - 1 : Turns(a, b, n)
<1> DEFINE T == {n \in Nat : Turns(a, b, n)}
           m == Len(path) - 1
<1>1. m \in Nat /\ m >= 1
  BY PathFacts DEF PathOK
<1>2. 0 \in T
  <2>1. \A x : Times(path, 0, x) = 0
    <3>1. \A x : {k \in 1 .. 0 : path[k] = x} = {}
      OBVIOUS
    <3> QED BY <3>1, FS_EmptySet DEF Times
  <2>2. path[0 + 1] \in ToFirst(a, b)
    <3>1. path[0 + 1] = header /\ header \in Reached(Cut(a), header)
      BY CutReached DEF PathOK
    <3> QED BY <3>1 DEF ToFirst
  <2> QED BY <2>1, <2>2 DEF Turns
<1>3. ASSUME NEW n \in 0 .. m - 1, n \in T PROVE n + 1 \in T
  <2> DEFINE x == path[n + 1]
             y == path[(n + 1) + 1]
  <2>1. x \in Blocks /\ y \in succs[x] /\ n \in Nat /\ n + 1 \in Nat
    <3>1. n + 1 \in 1 .. Len(path) - 1 /\ n \in Nat /\ n + 1 \in Nat
      BY <1>1, <1>3
    <3> QED BY <3>1 DEF PathOK
  <2>2. \A z : Times(path, n + 1, z) = Times(path, n, z) + (IF x = z THEN 1 ELSE 0)
    <3>1. n < n + 1 /\ \A q \in n + 1 .. (n + 1) - 1 : FALSE
      BY <2>1
    <3> QED BY <2>1, <3>1, TimesOnce
  <2>3. Times(path, n, a) \in Nat /\ Times(path, n, b) \in Nat
    BY <2>1, TimesInNat
  <2>4. Turns(a, b, n) /\ a # b
    BY <1>3 DEF Alternate
  <2> HIDE DEF y
  <2>5. CASE Times(path, n, a) = Times(path, n, b) /\ x \in ToFirst(a, b)
    <3>1. x # b
      BY <2>5 DEF Alternate
    <3>2. CASE x = a
      <4>1. y \in ToSecond(a, b)
        BY <2>1, <3>2, CutReached DEF ToSecond
      <4> QED BY <2>1, <2>2, <2>3, <2>4, <2>5, <3>1, <3>2, <4>1 DEF Turns, y
    <3>3. CASE x # a
      <4>1. y \in ToFirst(a, b)
        BY <2>1, <2>5, <3>3, CutReached DEF ToFirst
      <4> QED BY <2>1, <2>2, <2>3, <2>5, <3>1, <3>3, <4>1 DEF Turns, y
    <3> QED BY <3>2, <3>3
  <2>6. CASE Times(path, n, a) = Times(path, n, b) + 1 /\ x \in ToSecond(a, b)
    <3>1. x # a
      BY <2>6 DEF Alternate
    <3>2. CASE x = b
      <4>1. y \in ToFirst(a, b)
        BY <2>1, <3>2, CutReached DEF ToFirst
      <4> QED BY <2>1, <2>2, <2>3, <2>4, <2>6, <3>1, <3>2, <4>1 DEF Turns, y
    <3>3. CASE x # b
      <4>1. y \in ToSecond(a, b)
        BY <2>1, <2>6, <3>3, CutReached DEF ToSecond
      <4> QED BY <2>1, <2>2, <2>3, <2>6, <3>1, <3>3, <4>1 DEF Turns, y
    <3> QED BY <3>2, <3>3
  <2> QED BY <2>4, <2>5, <2>6 DEF Turns
<1> HIDE DEF T, m
<1>4. 0 .. m \subseteq T
  BY <1>1, <1>2, <1>3, UpTo
<1> QED BY <1>4 DEF T, m

LEMMA InStepInTurn ==
  ASSUME CompileInv, Split, PathOK, NEW c \in channels, InStep(c)
  PROVE  InTurn(c) /\ Surplus(c) = 0
<1> DEFINE a == c[1][1]
           b == c[2][1]
<1>1. succs \in AnyGraphs
  BY SplitFacts
<1>2. /\ a \in Blocks /\ b \in Blocks
      /\ c[1][2] \in Int /\ c[2][2] \in Int
  <2>1. edges \subseteq Insts \X Insts /\ <<c[1], c[2]>> \in edges
    BY ChannelEnds, SplitFacts, SplitAssumption, EdgesOfInsts DEF Split, CompileInv, GraphInv
  <2> QED BY <2>1, SplitAssumption DEF Insts
<1>3. Len(path) \in Nat /\ Len(path) > 1 /\ DOMAIN path = 1 .. Len(path)
  BY PathFacts DEF PathOK
<1>4. \A n \in Nat : \A x : Times(path, n, x) \in Nat
  BY TimesInNat
<1>5. CASE a = b /\ c[1][2] < c[2][2]
  <2>1. \A k : Before(c, k) = k
    BY <1>2, <1>5 DEF Before
  <2> QED BY <1>3, <1>4, <1>5, <2>1 DEF InTurn, Surplus
<1>6. CASE Alternate(a, b)
  <2>1. a # b /\ \A n \in 0 .. Len(path) - 1 : Turns(a, b, n)
    BY <1>1, <1>2, <1>6, TakeTurns DEF Alternate
  <2>2. \A k : Before(c, k) = k
    BY <2>1 DEF Before
  <2>3. \A k \in 1 .. Len(path) : \A x :
           /\ k - 1 \in Nat /\ k \in Nat
           /\ Times(path, k, x) = Times(path, k - 1, x) + (IF path[k] = x THEN 1 ELSE 0)
    <3> TAKE k \in 1 .. Len(path)
    <3>1. k - 1 \in Nat /\ k \in Nat /\ k - 1 < k /\ \A q \in (k - 1) + 1 .. k - 1 : FALSE
      BY <1>3
    <3> QED BY <3>1, TimesOnce
  <2>4. InTurn(c)
    <3> SUFFICES ASSUME NEW k \in 1 .. Len(path), path[k] = b
                 PROVE  Times(path, k, a) = Times(path, k, b)
      BY <1>3, <2>2 DEF InTurn
    <3>1. k - 1 \in 0 .. Len(path) - 1 /\ (k - 1) + 1 = k
      BY <1>3
    <3>2. Turns(a, b, k - 1)
      BY <2>1, <3>1
    <3>3. Times(path, k - 1, a) = Times(path, k - 1, b) + 1
      BY <1>6, <3>1, <3>2 DEF Turns, Alternate
    <3>4. /\ Times(path, k, a) = Times(path, k - 1, a)
          /\ Times(path, k, b) = Times(path, k - 1, b) + 1
      <4>1. /\ Times(path, k, a) = Times(path, k - 1, a) + (IF path[k] = a THEN 1 ELSE 0)
            /\ Times(path, k, b) = Times(path, k - 1, b) + (IF path[k] = b THEN 1 ELSE 0)
            /\ Times(path, k - 1, a) \in Nat
        BY <1>4, <2>3
      <4> QED BY <2>1, <4>1
    <3> QED BY <3>3, <3>4
  <2>5. Surplus(c) = 0
    <3> DEFINE l == Len(path)
    <3>1. l - 1 \in 0 .. l - 1 /\ (l - 1) + 1 = l /\ l \in 1 .. l
      BY <1>3
    <3>2. Turns(a, b, l - 1)
      BY <2>1, <3>1
    <3>3. Times(path, l - 1, a) = Times(path, l - 1, b)
      BY <1>6, <3>1, <3>2 DEF Turns, Alternate, PathOK
    <3>4. path[l] # a /\ path[l] # b
      BY <1>2, LoopAssumption DEF PathOK
    <3>5. Times(path, l, a) = Times(path, l, b) /\ Times(path, l, b) \in Nat
      <4>1. /\ Times(path, l, a) = Times(path, l - 1, a) + (IF path[l] = a THEN 1 ELSE 0)
            /\ Times(path, l, b) = Times(path, l - 1, b) + (IF path[l] = b THEN 1 ELSE 0)
            /\ Times(path, l - 1, a) \in Nat /\ Times(path, l - 1, b) \in Nat
        BY <1>4, <2>3, <3>1
      <4> QED BY <3>3, <3>4, <4>1
    <3> QED BY <3>5 DEF Surplus
  <2> QED BY <2>4, <2>5
<1> QED BY <1>5, <1>6 DEF InStep

\* Whatever else there is, such a channel serves: each value it hands over is the
\* one of the loop, and none is left over.
StepsServe ==
    Running => \A c \in channels : InStep(c) =>
                  /\ \A i \in Workers : Consuming(i, c) => ValueMatches(i, c)
                  /\ Ended => Len(queues[c]) = 0

LEMMA PipeStep ==
  ASSUME Switches = {}, PipeInv, [PipeNext]_pipeVars
  PROVE  PipeInv'
<1>1. CASE Compile
  BY <1>1, PipeCompiles
<1>2. CASE Start
  BY <1>2, PipeStarts
<1>3. ASSUME Running, NEW i \in Workers, Worker(i) PROVE PipeInv'
  BY <1>3, PipeProduces, PipeConsumes, PipeEndsBlock DEF Worker
<1>4. CASE UNCHANGED pipeVars
  <2>1. UNCHANGED <<splitVars, path, trace, left, queues, held>>
    BY <1>4 DEF pipeVars, runVars
  <2>2. CompileInv'
    BY <2>1, CompileStep, DepsAreData DEF PipeInv
  <2>3. DataInv' /\ Running' = Running
    BY <2>1 DEF splitVars, loopVars, buildVars, PipeInv, DataInv, Running
  <2>4. CASE ~Running
    BY <2>2, <2>3, <2>4 DEF PipeInv, SamePath
  <2>5. CASE Running
    <3>1. /\ Split' /\ PathOK' /\ Placed' /\ SamePath' /\ Workers' = Workers
          /\ UNCHANGED <<assigned, channels>>
          /\ \A i : At(i)' = At(i) /\ Closed(i)' = Closed(i)
          /\ \A i, b : Ops(i, b)' = Ops(i, b)
      BY <2>1, <2>5, CallLeaves
    <3>2. RunTypeOK'
      BY <2>1, <2>5, <3>1 DEF PipeInv, RunTypeOK
    <3>3. \A c : Sent(c)' = Sent(c) /\ Taken(c)' = Taken(c)
      BY <2>1, <3>1 DEF Sent, Taken
    <3>4. FlowInv'
      BY <2>1, <2>5, <3>1, <3>3 DEF PipeInv, FlowInv
    <3> QED BY <2>2, <2>3, <3>1, <3>2, <3>4 DEF PipeInv
  <2> QED BY <2>4, <2>5
<1> QED BY <1>1, <1>2, <1>3, <1>4 DEF PipeNext

-----------------------------------------------------------------------------
\* Without a switch, every thread goes through its blocks as the sequential
\* loop does, whatever the dependences, and however long it waits for the
\* others: for a condition of another thread it has consumed the value of this
\* visit (CodeTransformation.cpp:319-331, 450-457).
THEOREM ThreadsTakeThePath ==
  ASSUME Switches = {}
  PROVE  PipeSpec => []SamePath
<1>1. PipeInit => PipeInv
  BY PipeStart
<1>2. PipeInv /\ [PipeNext]_pipeVars => PipeInv'
  BY PipeStep
<1>3. PipeInv => SamePath
  BY DEF PipeInv
<1> QED BY <1>1, <1>2, <1>3, PTL DEF PipeSpec

\* What is consumed is what the sequential loop would have there, the last value
\* before the use, wherever that computes the two in turn; whatever the other
\* dependences (insertProduce and insertConsume, CodeTransformation.cpp:602-718).
THEOREM ValuesArrive ==
  ASSUME Switches = {}
  PROVE  PipeSpec => []ValuesMatch
<1>1. PipeInit => PipeInv
  BY PipeStart
<1>2. PipeInv /\ [PipeNext]_pipeVars => PipeInv'
  BY PipeStep
<1>3. PipeInv => ValuesMatch
  BY InvValues
<1> QED BY <1>1, <1>2, <1>3, PTL DEF PipeSpec

\* When the threads have ended there is left in each channel what the path has
\* come to more often at its one end than at its other, and never less than
\* nothing (CodeTransformation.cpp:594-596).
THEOREM ChannelsDrain ==
  ASSUME Switches = {}
  PROVE  PipeSpec => []Drained
<1>1. PipeInit => PipeInv
  BY PipeStart
<1>2. PipeInv /\ [PipeNext]_pipeVars => PipeInv'
  BY PipeStep
<1>3. PipeInv => Drained
  BY InvDrained
<1> QED BY <1>1, <1>2, <1>3, PTL DEF PipeSpec

\* A value used further down its own block, or in another block that takes turns
\* with it, arrives as the sequential loop has it, and none is left over, on every
\* path of every loop, and whatever other dependences there are (insertProduce,
\* insertConsume; CodeTransformation.cpp:594-596).
THEOREM StepsAreServed ==
  ASSUME Switches = {}
  PROVE  PipeSpec => []StepsServe
<1>1. PipeInit => PipeInv
  BY PipeStart
<1>2. PipeInv /\ [PipeNext]_pipeVars => PipeInv'
  BY PipeStep
<1>3. PipeInv => StepsServe
  <2> SUFFICES ASSUME PipeInv, Running, NEW c \in channels, InStep(c)
               PROVE  /\ \A i \in Workers : Consuming(i, c) => ValueMatches(i, c)
                      /\ Ended => Len(queues[c]) = 0
    BY DEF StepsServe
  <2>1. InTurn(c) /\ Surplus(c) = 0
    BY InStepInTurn DEF PipeInv
  <2>2. ValuesMatch /\ Drained
    BY InvValues, InvDrained
  <2> QED BY <2>1, <2>2 DEF ValuesMatch, Drained
<1> QED BY <1>1, <1>2, <1>3, PTL DEF PipeSpec
=============================================================================
