----------------------------- MODULE Partition -----------------------------
(***************************************************************************)
(* From the dependence graph of a loop to the threads of its instructions: *)
(* findSCC and then threadPartition, as runOnLoop calls them.  FindSCC and *)
(* ThreadPartition share no variable; what one hands to the other is read  *)
(* here.                                                                   *)
(***************************************************************************)
EXTENDS FindSCC, ThreadPartition

CONSTANT InstLatencies   (* the tables of what getLatency returns           *)

ASSUME LatencyAssumption == InstLatencies \subseteq [Insts -> Nat]

VARIABLE instLatency     (* getLatency of each instruction                  *)

allVars == <<sccVars, partVars, instLatency>>

\* The graph of the components before there is one.
NoGraph == nodes = {}

LoopInit == /\ SCCInit
            /\ nodes = {} /\ dag = {} /\ latency = <<>>
            /\ assigned = <<>> /\ est = [t \in ThreadIds |-> 0]
            /\ queue = <<>> /\ thread = 0
            /\ instLatency = <<>>

FindStep == /\ SCCNext
            /\ UNCHANGED <<partVars, instLatency>>

getLatency(i) == instLatency'[i]

\* sccLatency: the sum that the loop over the instructions builds up for component c.
sccLatency(c) == SumFunction([i \in {j \in Insts : sccId[j] = c} |-> getLatency(i)])

\* threadPartition is called, unless there is a single component.
PartitionCall ==
    /\ search = "done"
    /\ sccNum # 1
    /\ NoGraph
    /\ instLatency' \in InstLatencies
    /\ nodes' = SCCs
    /\ dag' = dag_added
    /\ latency' = [c \in SCCs |-> sccLatency(c)]
    /\ assigned' = [c \in SCCs |-> Unassigned]
    /\ est' = [t \in ThreadIds |-> 0]
    /\ queue' = [c \in SCCs |-> IF \E e \in dag_added : e[2] = c THEN 0 ELSE 1]
    /\ thread' = 0
    /\ UNCHANGED sccVars

DealComponents == /\ search = "done"
                  /\ ~NoGraph
                  /\ DealNext
                  /\ UNCHANGED <<sccVars, instLatency>>

LoopNext == FindStep \/ PartitionCall \/ DealComponents

LoopSpec == LoopInit /\ [][LoopNext]_allVars

LoopFairSpec == LoopSpec /\ WF_allVars(LoopNext)

\* getInstAssigned: the thread of an instruction.
getInstAssigned(i) == assigned[sccId[i]]

Partitioned == ~NoGraph /\ Dealt

-----------------------------------------------------------------------------
\* threadPartition is only called with what it relies on: components numbered
\* from 0, edges between them that ascend, and every component with its
\* latency (threadPartition.cpp:9-42).
CalledRight == [][NoGraph /\ nodes' # {} => PartInit']_allVars

\* Every dependence leads to the same thread or a later one, so a channel
\* inserted for it goes upwards (CodeTransformation.cpp:575-579), and a cycle
\* of dependences is in one thread.
DependencesGoUpwards ==
    Partitioned => \A e \in pdg : getInstAssigned(e[1]) <= getInstAssigned(e[2])

\* Both phases come to their end, with a thread for every component unless
\* there is but one.
PartitionEnds == <>(search = "done" /\ (sccNum = 1 \/ Dealt))
=============================================================================
