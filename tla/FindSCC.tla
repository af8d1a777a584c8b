------------------------------ MODULE FindSCC ------------------------------
(***************************************************************************)
(* buildSCC.cpp: the strongly connected components of the program          *)
(* dependence graph and the edges between them.  Two depth first searches, *)
(* dfs_forward along pdg and dfs_reverse along rev; a step is one edge     *)
(* looked at, one instruction entered or one left.                         *)
(*                                                                         *)
(* Instructions are numbered in the order the blocks of the loop list      *)
(* them.  The vectors pdg[u] and rev[v] hold the edges in the order they   *)
(* were added, which is any order: a search takes the edges of an          *)
(* instruction one by one in an order it chooses.                          *)
(***************************************************************************)
EXTENDS Integers, Sequences, FiniteSets

CONSTANTS NumInsts,   (* the instructions of the loop                       *)
          PDGs        (* the dependence graphs considered: sets of pairs    *)

Insts == 1 .. NumInsts

ASSUME GraphAssumption ==
    /\ NumInsts \in Nat \ {0}
    /\ \A g \in PDGs : g \subseteq Insts \X Insts

VARIABLES pdg,        (* the edges: <<u, v>> when v depends on u            *)
          search,     (* the search running: forward, reverse, or done      *)
          used,       (* the instructions the search has entered            *)
          stack,      (* the calls of the search, the current one last      *)
          todo,       (* the ends of the edges a call has yet to look at    *)
          list,       (* the instructions in the order dfs_forward left     *)
          next,       (* the position in list findSCC is at                 *)
          sccNum,     (* the components complete                            *)
          sccId,      (* the component of an instruction; 0 until assigned  *)
          InstInSCC,  (* the instructions of each component                 *)
          dag_added   (* the edges between components                       *)

sccVars == <<pdg, search, used, stack, todo, list, next, sccNum, sccId,
             InstInSCC, dag_added>>

Successors(u) == {v \in Insts : <<u, v>> \in pdg}

\* Mutant: dfs_reverse goes through pdg, not rev.
PredecessorsByPdg(v) == Successors(v)

Predecessors(v) == {u \in Insts : <<u, v>> \in pdg}

Top == stack[Len(stack)]
Popped == SubSeq(stack, 1, Len(stack) - 1)

SCCInit == /\ pdg \in PDGs
           /\ search = "forward"
           /\ used = {}
           /\ stack = <<>>
           /\ todo = [i \in Insts |-> {}]
           /\ list = <<>>
           /\ next = 0
           /\ sccNum = 0
           /\ sccId = [i \in Insts |-> 0]
           /\ InstInSCC = <<>>
           /\ dag_added = {}

\* A call of a search on i, whose edges lead to ends.
Enter(i, ends) == /\ used' = used \cup {i}
                  /\ stack' = Append(stack, i)
                  /\ todo' = [todo EXCEPT ![i] = ends]

-----------------------------------------------------------------------------
(* dfs_forward, and the loop over the blocks that calls it                  *)

ForwardRoot == /\ search = "forward"
               /\ stack = <<>>
               /\ \E i \in Insts \ used :
                     /\ \A j \in Insts \ used : i <= j
                     /\ Enter(i, Successors(i))
               /\ UNCHANGED <<pdg, search, list, next, sccNum, sccId, InstInSCC, dag_added>>

ForwardEdge == /\ search = "forward"
               /\ stack # <<>>
               /\ \E v \in todo[Top] :
                     IF v \in used
                     THEN /\ todo' = [todo EXCEPT ![Top] = @ \ {v}]
                          /\ UNCHANGED <<used, stack>>
                     ELSE /\ used' = used \cup {v}
                          /\ stack' = Append(stack, v)
                          /\ todo' = [todo EXCEPT ![Top] = @ \ {v},
                                                  ![v] = Successors(v)]
               /\ UNCHANGED <<pdg, search, list, next, sccNum, sccId, InstInSCC, dag_added>>

ForwardReturn == /\ search = "forward"
                 /\ stack # <<>>
                 /\ todo[Top] = {}
                 /\ list' = Append(list, Top)
                 /\ stack' = Popped
                 /\ UNCHANGED <<pdg, search, used, todo, next, sccNum, sccId, InstInSCC,
                                dag_added>>

\* used.clear() and what follows it.
ForwardEnd == /\ search = "forward"
              /\ stack = <<>>
              /\ used = Insts
              /\ search' = "reverse"
              /\ used' = {}
              /\ dag_added' = {}
              /\ sccNum' = 0
              /\ InstInSCC' = <<>>
              /\ next' = Len(list)
              /\ UNCHANGED <<pdg, stack, todo, list, sccId>>

-----------------------------------------------------------------------------
(* dfs_reverse, and the loop down list that calls it                        *)

\* Mutant: an instruction already in a component is looked at again.
ReverseStay == /\ search = "reverse"
               /\ stack = <<>>
               /\ next > 0
               /\ list[next] \in used
               /\ UNCHANGED sccVars

ReverseSkip == /\ search = "reverse"
               /\ stack = <<>>
               /\ next > 0
               /\ list[next] \in used
               /\ next' = next - 1
               /\ UNCHANGED <<pdg, search, used, stack, todo, list, sccNum, sccId, InstInSCC,
                              dag_added>>

ReverseRoot == /\ search = "reverse"
               /\ stack = <<>>
               /\ next > 0
               /\ list[next] \notin used
               /\ InstInSCC' = Append(InstInSCC, {})
               /\ Enter(list[next], Predecessors(list[next]))
               /\ UNCHANGED <<pdg, search, list, next, sccNum, sccId, dag_added>>

\* Mutants of the test of line 78 and of the edge recorded after it.
EdgesNotFromFirst(u) == IF sccId[u] \in {0, sccNum} THEN {} ELSE {<<sccId[u], sccNum>>}
EdgesBackwards(u) == IF sccId[u] = sccNum THEN {} ELSE {<<sccNum, sccId[u]>>}
EdgesFromPrevious(u) == IF sccId[u] = sccNum THEN {} ELSE {<<sccNum - 1, sccNum>>}

\* An edge from an instruction already entered is taken for one between two
\* components unless sccId says otherwise; sccId of an instruction whose call
\* has not returned is still 0.
SCCEdges(u) == IF sccId[u] = sccNum THEN {} ELSE {<<sccId[u], sccNum>>}

ReverseEdge == /\ search = "reverse"
               /\ stack # <<>>
               /\ \E u \in todo[Top] :
                     IF u \in used
                     THEN /\ todo' = [todo EXCEPT ![Top] = @ \ {u}]
                          /\ dag_added' = dag_added \cup SCCEdges(u)
                          /\ UNCHANGED <<used, stack>>
                     ELSE /\ used' = used \cup {u}
                          /\ stack' = Append(stack, u)
                          /\ todo' = [todo EXCEPT ![Top] = @ \ {u},
                                                  ![u] = Predecessors(u)]
                          /\ UNCHANGED dag_added
               /\ UNCHANGED <<pdg, search, list, next, sccNum, sccId, InstInSCC>>

\* Mutant: the component is numbered after it is counted.
ReverseReturnNumberLate ==
    /\ search = "reverse"
    /\ stack # <<>>
    /\ todo[Top] = {}
    /\ sccId' = [sccId EXCEPT ![Top] = sccNum + 1]
    /\ stack' = Popped
    /\ IF Len(stack) = 1 THEN sccNum' = sccNum + 1 /\ next' = next - 1
                         ELSE UNCHANGED <<sccNum, next>>
    /\ UNCHANGED <<pdg, search, used, todo, list, InstInSCC, dag_added>>

\* The call returns; back in findSCC the component is complete.
ReverseReturn == /\ search = "reverse"
                 /\ stack # <<>>
                 /\ todo[Top] = {}
                 /\ sccId' = [sccId EXCEPT ![Top] = sccNum]
                 /\ InstInSCC' = [InstInSCC EXCEPT ![sccNum + 1] = @ \cup {Top}]
                 /\ stack' = Popped
                 /\ IF Len(stack) = 1
                    THEN sccNum' = sccNum + 1 /\ next' = next - 1
                    ELSE UNCHANGED <<sccNum, next>>
                 /\ UNCHANGED <<pdg, search, used, todo, list, dag_added>>

\* Mutant: the loop down list leaves out its first element.
ReverseEndEarly == /\ search = "reverse"
                   /\ stack = <<>>
                   /\ next <= 1
                   /\ search' = "done"
                   /\ UNCHANGED <<pdg, used, stack, todo, list, next, sccNum, sccId,
                                  InstInSCC, dag_added>>

ReverseEnd == /\ search = "reverse"
              /\ stack = <<>>
              /\ next = 0
              /\ search' = "done"
              /\ UNCHANGED <<pdg, used, stack, todo, list, next, sccNum, sccId, InstInSCC,
                             dag_added>>

SCCNext == \/ ForwardRoot \/ ForwardEdge \/ ForwardReturn \/ ForwardEnd
           \/ ReverseSkip \/ ReverseRoot \/ ReverseEdge \/ ReverseReturn \/ ReverseEnd

SCCSpec == SCCInit /\ [][SCCNext]_sccVars

-----------------------------------------------------------------------------
SCCs == 0 .. sccNum - 1

SCCTypeOK ==
    /\ pdg \in PDGs
    /\ search \in {"forward", "reverse", "done"}
    /\ used \subseteq Insts
    /\ stack \in Seq(Insts)
    /\ todo \in [Insts -> SUBSET Insts]
    /\ list \in Seq(Insts)
    /\ next \in 0 .. Len(list)
    /\ sccNum \in Nat
    /\ sccId \in [Insts -> 0 .. sccNum]
    /\ InstInSCC \in Seq(SUBSET Insts)
    /\ dag_added \subseteq (0 .. sccNum) \X (0 .. sccNum)

\* v can be reached from u: it is in every set that holds u and is closed
\* under the edges.
Reaches(u, v) == \A S \in SUBSET Insts :
                    u \in S /\ (\A e \in pdg : e[1] \in S => e[2] \in S) => v \in S

\* The components are the strongly connected ones (buildSCC.cpp:10-40): two
\* instructions have the same number exactly when each can be reached from
\* the other.
SccCorrect ==
    search = "done" => \A u, v \in Insts :
                          sccId[u] = sccId[v] <=> Reaches(u, v) /\ Reaches(v, u)

\* InstInSCC, the inverse of sccId that the later phases walk, agrees with it.
PartsAgree ==
    search = "done" => /\ Len(InstInSCC) = sccNum
                       /\ \A c \in SCCs :
                             InstInSCC[c + 1] = {i \in Insts : sccId[i] = c} /\ InstInSCC[c + 1] # {}

\* Every dependence between two components is an edge of the graph of the
\* components (buildSCC.cpp:76-88): a missing one would let a component be
\* scheduled before one it depends on.
DagComplete ==
    search = "done" =>
       \A e \in pdg : \/ sccId[e[1]] = sccId[e[2]]
                      \/ <<sccId[e[1]], sccId[e[2]]>> \in dag_added

\* The edges between components lead from lower to higher numbers at every
\* moment, those read too early (line 77) included, so there is no cycle
\* among them and threadPartition can deal every component.
DagAscends == \A e \in dag_added : e[1] < e[2]

\* An edge between components that no dependence stands for comes from
\* component 0: it was read from an instruction whose call had not returned.
FalseEdgesFromFirst ==
    search = "done" =>
       \A e \in dag_added :
          e[1] = 0 \/ \E d \in pdg : sccId[d[1]] = e[1] /\ sccId[d[2]] = e[2]

\* "Represents edge between two different SCCs" (buildSCC.cpp:76): every edge
\* recorded stands for a dependence between its two components.
DagEdgesReal ==
    search = "done" =>
       \A e \in dag_added : \E d \in pdg : sccId[d[1]] = e[1] /\ sccId[d[2]] = e[2]
=============================================================================
