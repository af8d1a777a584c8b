-------------------------- MODULE PartitionProofs --------------------------
(***************************************************************************)
(* findSCC and threadPartition one after the other, as runOnLoop calls     *)
(* them: whatever the graph, the order of its edges and the latencies, no  *)
(* dependence between instructions leads to an earlier thread.             *)
(***************************************************************************)
EXTENDS Partition, BasicFacts, FiniteSetTheorems, TLAPS

-----------------------------------------------------------------------------
(* findSCC: what the two searches of buildSCC.cpp leave for every           *)
(* dependence graph, whatever the order in which they take the edges.       *)

\* The instructions whose call has not returned.
Calls == Listed(stack)

\* The component an instruction entered is in, or will be in when its call
\* returns.
Comp(i) == IF i \in Calls THEN sccNum ELSE sccId[i]

StackInv == Distinct(stack) /\ Calls \subseteq used

\* dfs_forward lists what it leaves; the loop down list misses nothing.
ListInv ==
    /\ search = "forward" => /\ sccNum = 0
                             /\ dag_added = {}
                             /\ \A i \in used : i \in Calls \cup Listed(list)
    /\ search # "forward" => Insts \subseteq Listed(list)
    /\ search = "reverse" =>
          /\ \A k \in 1 .. Len(list) : k > next => list[k] \in used
          /\ stack # <<>> => next > 0 /\ list[next] \in used
    /\ search = "done" => stack = <<>> /\ used = Insts

\* sccId is 0 until the call returns, and then below what sccNum will be.
NumberInv ==
    search # "forward" =>
       /\ Len(InstInSCC) = IF stack = <<>> THEN sccNum ELSE sccNum + 1
       /\ stack = <<>> => \A i \in used : sccId[i] < sccNum
       /\ \A i \in Insts : i \notin used \/ i \in Calls => sccId[i] = 0
       /\ \A i \in used \ Calls : todo[i] = {}

PartsInv ==
    search # "forward" =>
       \A c \in 1 .. Len(InstInSCC) :
          /\ InstInSCC[c] = {i \in used \ Calls : sccId[i] = c - 1}
          /\ c <= sccNum => InstInSCC[c] # {}

\* What is left to look at are edges, and those looked at so far are inside a
\* component or recorded.
EdgeInv ==
    search # "forward" =>
       \A i \in used :
          /\ todo[i] \subseteq Predecessors(i)
          /\ \A u \in Predecessors(i) \ todo[i] :
                /\ u \in used
                /\ Comp(u) = Comp(i) \/ <<Comp(u), Comp(i)>> \in dag_added

\* What is recorded, except from component 0, is an edge.
RealInv ==
    \A e \in dag_added :
       e[1] = 0 \/ \E d \in pdg : /\ d[1] \in used /\ d[2] \in used
                                  /\ Comp(d[1]) = e[1] /\ Comp(d[2]) = e[2]

SCCInv == /\ SCCTypeOK /\ StackInv /\ ListInv /\ NumberInv /\ PartsInv
          /\ EdgeInv /\ RealInv /\ DagAscends

-----------------------------------------------------------------------------
(* The invariant holds at the start and is kept by dfs_forward              *)

LEMMA SCCInitial == SCCInit => SCCInv
<1> SUFFICES ASSUME SCCInit PROVE SCCInv
  OBVIOUS
<1> USE DEF SCCInit
<1>1. Calls = {} /\ Distinct(stack) /\ Listed(list) = {}
  BY EmptyFacts DEF Calls
<1>2. SCCTypeOK
  BY DEF SCCTypeOK
<1> QED BY <1>1, <1>2 DEF SCCInv, StackInv, ListInv, NumberInv, PartsInv, EdgeInv,
                          RealInv, DagAscends

\* Outside dfs_reverse only the stack and the list matter.
LEMMA ForwardPush ==
  ASSUME SCCInv, search = "forward", NEW i \in Insts \ used,
         used' = used \cup {i},
         stack' = Append(stack, i),
         todo' \in [Insts -> SUBSET Insts],
         UNCHANGED <<pdg, search, list, next, sccNum, sccId, InstInSCC, dag_added>>
  PROVE  SCCInv'
<1>1. stack \in Seq(Insts) /\ Distinct(stack) /\ i \notin Listed(stack)
  BY DEF SCCInv, SCCTypeOK, StackInv, Calls
<1>2. stack' \in Seq(Insts) /\ Distinct(stack') /\ Calls' = Calls \cup {i}
  BY <1>1, PushFacts DEF Calls
<1>3. SCCTypeOK'
  BY <1>2 DEF SCCInv, SCCTypeOK
<1>4. StackInv' /\ ListInv'
  BY <1>2 DEF SCCInv, StackInv, ListInv
<1> QED BY <1>3, <1>4 DEF SCCInv, ListInv, NumberInv, PartsInv, EdgeInv, RealInv, DagAscends

LEMMA ForwardStep ==
  ASSUME SCCInv, ForwardRoot \/ ForwardEdge \/ ForwardReturn \/ ForwardEnd
  PROVE  SCCInv'
<1> USE DEF SCCInv
<1>1. CASE ForwardRoot
  <2>1. PICK i \in Insts \ used : Enter(i, Successors(i))
    BY <1>1 DEF ForwardRoot
  <2>2. todo' \in [Insts -> SUBSET Insts]
    BY <2>1 DEF Enter, SCCTypeOK, Successors
  <2> QED BY <1>1, <2>1, <2>2, ForwardPush DEF ForwardRoot, Enter
<1>2. CASE ForwardEdge
  <2>1. PICK v \in todo[Top] :
           IF v \in used
           THEN todo' = [todo EXCEPT ![Top] = @ \ {v}] /\ UNCHANGED <<used, stack>>
           ELSE /\ used' = used \cup {v}
                /\ stack' = Append(stack, v)
                /\ todo' = [todo EXCEPT ![Top] = @ \ {v}, ![v] = Successors(v)]
    BY <1>2 DEF ForwardEdge
  <2>2. Top \in Insts /\ v \in Insts
    BY <1>2, <2>1, PopFacts DEF ForwardEdge, SCCTypeOK, StackInv, Top
  <2>3. todo' \in [Insts -> SUBSET Insts]
    BY <2>1, <2>2 DEF SCCTypeOK, Successors
  <2>4. CASE v \in used
    <3>1. UNCHANGED <<pdg, search, used, stack, list, next, sccNum, sccId, InstInSCC, dag_added>>
      BY <1>2, <2>1, <2>4 DEF ForwardEdge
    <3>2. SCCTypeOK'
      BY <2>3, <3>1 DEF SCCTypeOK
    <3> QED BY <1>2, <3>1, <3>2 DEF ForwardEdge, StackInv, ListInv, NumberInv, PartsInv, EdgeInv,
                               RealInv, DagAscends, Calls
  <2>5. CASE v \notin used
    BY <1>2, <2>1, <2>2, <2>3, <2>5, ForwardPush DEF ForwardEdge
  <2> QED BY <2>4, <2>5
<1>3. CASE ForwardReturn
  <2>1. stack \in Seq(Insts) /\ stack # <<>> /\ Distinct(stack)
    BY <1>3 DEF ForwardReturn, SCCTypeOK, StackInv
  <2>2. /\ stack' \in Seq(Insts) /\ Distinct(stack')
        /\ Top \in Insts /\ Top \in Calls
        /\ Calls' = Calls \ {Top}
    BY <1>3, <2>1, PopFacts DEF ForwardReturn, Top, Popped, Calls
  <2>3. list \in Seq(Insts) /\ next \in 0 .. Len(list)
    BY DEF SCCTypeOK
  <2>4. /\ list' \in Seq(Insts) /\ next' \in 0 .. Len(list')
        /\ Listed(list') = Listed(list) \cup {Top}
    BY <1>3, <2>2, <2>3, AppendFacts DEF ForwardReturn
  <2>5. SCCTypeOK'
    BY <1>3, <2>2, <2>4 DEF ForwardReturn, SCCTypeOK
  <2>6. StackInv' /\ ListInv'
    BY <1>3, <2>2, <2>4 DEF ForwardReturn, StackInv, ListInv
  <2> QED BY <1>3, <2>5, <2>6 DEF ForwardReturn, ListInv, NumberInv, PartsInv, EdgeInv, RealInv,
                                  DagAscends
<1>4. CASE ForwardEnd
  <2>1. Calls = {} /\ Calls' = {} /\ Distinct(stack')
    BY <1>4, EmptyFacts DEF ForwardEnd, Calls
  <2>2. sccId \in [Insts -> 0 .. 0]
    BY <1>4 DEF ForwardEnd, SCCTypeOK, ListInv
  <2>3. SCCTypeOK'
    BY <1>4, <2>2 DEF ForwardEnd, SCCTypeOK
  <2>4. ListInv'
    <3>1. Insts \subseteq Listed(list)
      BY <1>4, <2>1 DEF ForwardEnd, ListInv
    <3>2. \A k \in 1 .. Len(list) : ~(k > Len(list))
      BY DEF SCCTypeOK
    <3> QED BY <1>4, <3>1, <3>2 DEF ForwardEnd, ListInv
  <2>5. NumberInv' /\ PartsInv'
    BY <1>4, <2>1, <2>2 DEF ForwardEnd, NumberInv, PartsInv
  <2> QED BY <1>4, <2>1, <2>3, <2>4, <2>5 DEF ForwardEnd, StackInv, EdgeInv, RealInv, DagAscends
<1> QED BY <1>1, <1>2, <1>3, <1>4

-----------------------------------------------------------------------------
(* dfs_reverse keeps the invariant                                          *)

LEMMA ReverseSkipStep == SCCInv /\ ReverseSkip => SCCInv'
<1> SUFFICES ASSUME SCCInv, ReverseSkip PROVE SCCInv'
  OBVIOUS
<1> USE DEF SCCInv, ReverseSkip
<1>1. next \in Nat /\ next > 0 /\ Len(list) \in Nat /\ next <= Len(list)
  BY DEF SCCTypeOK
<1>2. SCCTypeOK'
  BY <1>1 DEF SCCTypeOK
<1>3. ListInv'
  <2>1. \A k \in 1 .. Len(list) : k > next - 1 => k > next \/ k = next
    BY <1>1
  <2> QED BY <2>1 DEF ListInv
<1> QED BY <1>2, <1>3 DEF StackInv, NumberInv, PartsInv, EdgeInv, RealInv, DagAscends, Calls,
                          Comp, Predecessors

\* dfs_reverse is called on i: what is alike whoever calls.
LEMMA ReversePush ==
  ASSUME SCCInv, search = "reverse", NEW i \in Insts \ used,
         used' = used \cup {i},
         stack' = Append(stack, i),
         todo' \in [Insts -> SUBSET Insts],
         todo'[i] = Predecessors(i),
         \A j \in Insts \ {i} : todo'[j] = todo[j] \/ (j \in Calls /\ todo'[j] = todo[j] \ {i}),
         UNCHANGED <<pdg, search, list, next, sccNum, sccId, dag_added>>
  PROVE  /\ stack' \in Seq(Insts) /\ stack' # <<>>
         /\ Calls' = Calls \cup {i}
         /\ i \notin Calls
         /\ StackInv' /\ EdgeInv' /\ RealInv' /\ DagAscends'
<1> USE DEF SCCInv
<1>1. stack \in Seq(Insts) /\ Distinct(stack) /\ i \notin Listed(stack) /\ Calls \subseteq used
  BY DEF SCCTypeOK, StackInv, Calls
<1>2. /\ stack' \in Seq(Insts) /\ stack' # <<>> /\ Distinct(stack')
      /\ Calls' = Calls \cup {i} /\ i \notin Calls
  BY <1>1, PushFacts DEF Calls
<1>3. \A j \in used : Comp(j)' = Comp(j)
  BY <1>2 DEF Comp
<1>4. \A j \in Calls' : Comp(j)' = sccNum
  BY DEF Comp
<1>5. StackInv'
  BY <1>1, <1>2 DEF StackInv
<1>6. EdgeInv'
  <2>0. \A j \in used' : todo'[j] \subseteq Predecessors(j)
    BY DEF EdgeInv, SCCTypeOK
  <2> SUFFICES ASSUME NEW j \in used', NEW u \in Predecessors(j) \ todo'[j]
               PROVE  /\ u \in used'
                      /\ Comp(u)' = Comp(j)' \/ <<Comp(u)', Comp(j)'>> \in dag_added
    BY <2>0 DEF EdgeInv, Predecessors
  <2>1. j # i /\ j \in used /\ j \in Insts
    BY DEF SCCTypeOK
  <2>2. CASE u \in todo[j]
    BY <1>2, <1>4, <2>1, <2>2
  <2>3. CASE u \notin todo[j]
    <3>1. u \in used /\ (Comp(u) = Comp(j) \/ <<Comp(u), Comp(j)>> \in dag_added)
      BY <2>1, <2>3 DEF EdgeInv
    <3> QED BY <1>3, <2>1, <3>1
  <2> QED BY <2>2, <2>3
<1>7. RealInv'
  BY <1>3 DEF RealInv
<1> QED BY <1>2, <1>5, <1>6, <1>7 DEF DagAscends

LEMMA ReverseRootStep == SCCInv /\ ReverseRoot => SCCInv'
<1> SUFFICES ASSUME SCCInv, ReverseRoot PROVE SCCInv'
  OBVIOUS
<1> DEFINE i == list[next]
<1> USE DEF SCCInv
<1>1. /\ search = "reverse" /\ stack = <<>> /\ next > 0 /\ i \notin used
      /\ InstInSCC' = Append(InstInSCC, {})
      /\ used' = used \cup {i} /\ stack' = Append(stack, i)
      /\ todo' = [todo EXCEPT ![i] = Predecessors(i)]
      /\ UNCHANGED <<pdg, search, list, next, sccNum, sccId, dag_added>>
  BY DEF ReverseRoot, Enter
<1>2. i \in Insts
  BY <1>1 DEF SCCTypeOK
<1>3. Calls = {} /\ Len(InstInSCC) = sccNum /\ sccNum \in Nat /\ InstInSCC \in Seq(SUBSET Insts)
  BY <1>1, EmptyFacts DEF Calls, NumberInv, SCCTypeOK
<1> HIDE DEF i
<1>4. todo' \in [Insts -> SUBSET Insts] /\ todo'[i] = Predecessors(i)
      /\ \A j \in Insts \ {i} : todo'[j] = todo[j]
  BY <1>1, <1>2 DEF SCCTypeOK, Predecessors
<1>5. /\ stack' \in Seq(Insts) /\ stack' # <<>> /\ Calls' = {i}
      /\ StackInv' /\ EdgeInv' /\ RealInv' /\ DagAscends'
  <2>1. \A j \in Insts \ {i} : todo'[j] = todo[j] \/ (j \in Calls /\ todo'[j] = todo[j] \ {i})
    BY <1>4
  <2>2. SCCInv /\ i \in Insts \ used
    BY <1>1, <1>2
  <2> HIDE DEF SCCInv
  <2>3. /\ stack' \in Seq(Insts) /\ stack' # <<>>
        /\ Calls' = Calls \cup {i}
        /\ StackInv' /\ EdgeInv' /\ RealInv' /\ DagAscends'
    BY <1>1, <1>4, <2>1, <2>2, ReversePush
  <2> QED BY <1>3, <2>3
<1>6. /\ InstInSCC' \in Seq(SUBSET Insts) /\ Len(InstInSCC') = sccNum + 1
      /\ \A c \in 1 .. sccNum : InstInSCC'[c] = InstInSCC[c]
      /\ InstInSCC'[sccNum + 1] = {}
  BY <1>1, <1>3
<1>7. SCCTypeOK'
  BY <1>1, <1>2, <1>4, <1>5, <1>6 DEF SCCTypeOK
<1>8. ListInv'
  <2>1. next \in 1 .. Len(list)
    BY <1>1 DEF SCCTypeOK
  <2> QED BY <1>1, <2>1 DEF ListInv, i
<1>9. NumberInv'
  BY <1>1, <1>2, <1>3, <1>4, <1>5, <1>6 DEF NumberInv, SCCTypeOK
<1>10. PartsInv'
  <2> SUFFICES ASSUME NEW c \in 1 .. sccNum + 1
               PROVE  /\ InstInSCC'[c] = {j \in used' \ Calls' : sccId'[j] = c - 1}
                      /\ c <= sccNum => InstInSCC'[c] # {}
    BY <1>1, <1>6 DEF PartsInv
  <2>1. used' \ Calls' = used /\ sccId' = sccId
    BY <1>1, <1>5
  <2>2. CASE c \in 1 .. sccNum
    <3>1. c \in 1 .. Len(InstInSCC) /\ InstInSCC'[c] = InstInSCC[c]
      BY <1>3, <1>6, <2>2
    <3>2. /\ InstInSCC[c] = {j \in used \ Calls : sccId[j] = c - 1}
          /\ c <= sccNum => InstInSCC[c] # {}
      <4>1. PartsInv /\ search # "forward"
        BY <1>1
      <4> QED BY <3>1, <4>1 DEF PartsInv
    <3>3. used' \ Calls' = used \ Calls
      BY <1>3, <2>1
    <3> QED BY <2>1, <3>1, <3>2, <3>3
  <2>3. CASE c = sccNum + 1
    <3>1. \A j \in used : sccId[j] < sccNum /\ sccId[j] \in Nat
      BY <1>1 DEF NumberInv, SCCTypeOK
    <3>2. {j \in used : sccId[j] = c - 1} = {}
      BY <1>3, <2>3, <3>1
    <3> QED BY <1>3, <1>6, <2>1, <2>3, <3>2
  <2> QED BY <1>3, <2>2, <2>3
<1> QED BY <1>5, <1>7, <1>8, <1>9, <1>10

LEMMA ReverseEdgeStep == SCCInv /\ ReverseEdge => SCCInv'
<1> SUFFICES ASSUME SCCInv, ReverseEdge PROVE SCCInv'
  OBVIOUS
<1> USE DEF SCCInv
<1> DEFINE t == Top
<1>1. PICK u \in todo[t] :
         IF u \in used
         THEN /\ todo' = [todo EXCEPT ![t] = @ \ {u}]
              /\ dag_added' = dag_added \cup SCCEdges(u)
              /\ UNCHANGED <<used, stack>>
         ELSE /\ used' = used \cup {u}
              /\ stack' = Append(stack, u)
              /\ todo' = [todo EXCEPT ![t] = @ \ {u}, ![u] = Predecessors(u)]
              /\ UNCHANGED dag_added
  BY DEF ReverseEdge
<1>2. /\ search = "reverse" /\ stack # <<>>
      /\ UNCHANGED <<pdg, search, list, next, sccNum, sccId, InstInSCC>>
  BY DEF ReverseEdge
<1>3. t \in Insts /\ t \in Calls /\ t \in used
  BY <1>2, PopFacts DEF SCCTypeOK, StackInv, Top, Calls
<1> HIDE DEF t
<1>4. u \in Insts /\ u \in Predecessors(t) /\ <<u, t>> \in pdg
  BY <1>2, <1>3, <1>1 DEF EdgeInv, Predecessors
<1>5. todo' \in [Insts -> SUBSET Insts]
  BY <1>1, <1>3, <1>4 DEF SCCTypeOK, Predecessors
<1>6. CASE u \in used
  <2>1. /\ todo' = [todo EXCEPT ![t] = @ \ {u}]
        /\ dag_added' = dag_added \cup SCCEdges(u)
        /\ UNCHANGED <<used, stack>>
    BY <1>1, <1>6
  <2>2. Calls' = Calls /\ \A i \in Insts : Comp(i)' = Comp(i)
    BY <1>2, <2>1 DEF Calls, Comp
  <2>3. sccNum \in Nat /\ sccId[u] \in 0 .. sccNum
    BY <1>4 DEF SCCTypeOK
  <2>4. SCCTypeOK'
    BY <1>2, <1>5, <2>1, <2>3 DEF SCCTypeOK, SCCEdges
  <2>5. DagAscends'
    BY <2>1, <2>3 DEF DagAscends, SCCEdges
  <2>6. EdgeInv'
    <3>1. Comp(t) = sccNum
      BY <1>3 DEF Comp
    <3>2. Comp(u) = Comp(t) \/ <<Comp(u), Comp(t)>> \in dag_added'
      BY <2>1, <3>1 DEF Comp, SCCEdges
    <3> SUFFICES ASSUME NEW i \in used
                 PROVE  /\ todo'[i] \subseteq Predecessors(i)
                        /\ \A v \in Predecessors(i) \ todo'[i] :
                              v \in used /\ (Comp(v) = Comp(i) \/ <<Comp(v), Comp(i)>> \in dag_added')
      BY <1>2, <2>1, <2>2 DEF EdgeInv, Predecessors, SCCTypeOK
    <3>3. todo'[i] = IF i = t THEN todo[t] \ {u} ELSE todo[i]
      BY <1>3, <2>1 DEF SCCTypeOK
    <3> QED BY <1>2, <1>6, <2>1, <3>2, <3>3 DEF EdgeInv
  <2>7. RealInv'
    <3>1. CASE u \in Calls \/ sccId[u] = sccNum
      <4>1. \A e \in dag_added' : e \in dag_added \/ e[1] = 0
        BY <1>2, <1>4, <2>1, <3>1 DEF SCCEdges, NumberInv
      <4> QED BY <1>2, <2>1, <2>2, <4>1 DEF RealInv, SCCTypeOK
    <3>2. CASE u \notin Calls /\ sccId[u] # sccNum
      <4>1. \A e \in dag_added' : e \in dag_added \/ e = <<Comp(u), Comp(t)>>
        BY <1>3, <2>1, <3>2 DEF SCCEdges, Comp
      <4> SUFFICES ASSUME NEW e \in dag_added', e[1] # 0
                   PROVE  \E d \in pdg : /\ d[1] \in used /\ d[2] \in used
                                         /\ Comp(d[1]) = e[1] /\ Comp(d[2]) = e[2]
        <5>1. \A d \in pdg : d[1] \in used /\ d[2] \in used
                             => Comp(d[1])' = Comp(d[1]) /\ Comp(d[2])' = Comp(d[2])
          BY <2>2 DEF SCCTypeOK
        <5> QED BY <1>2, <2>1, <5>1 DEF RealInv
      <4>2. CASE e \in dag_added
        BY <4>2 DEF RealInv
      <4>3. CASE e = <<Comp(u), Comp(t)>>
        <5> DEFINE d == <<u, t>>
        <5>1. d \in pdg /\ d[1] = u /\ d[2] = t
          BY <1>4
        <5> HIDE DEF d
        <5>2. e[1] = Comp(u) /\ e[2] = Comp(t)
          BY <4>3
        <5> QED BY <1>3, <1>6, <5>1, <5>2
      <4> QED BY <4>1, <4>2, <4>3
    <3> QED BY <3>1, <3>2
  <2>8. StackInv' /\ ListInv' /\ PartsInv'
    BY <1>2, <2>1, <2>2 DEF StackInv, ListInv, PartsInv
  <2>9. NumberInv'
    BY <1>2, <1>3, <2>1, <2>2 DEF NumberInv, SCCTypeOK
  <2> QED BY <2>4, <2>5, <2>6, <2>7, <2>8, <2>9
<1>7. CASE u \notin used
  <2>1. /\ used' = used \cup {u} /\ stack' = Append(stack, u)
        /\ todo' = [todo EXCEPT ![t] = @ \ {u}, ![u] = Predecessors(u)]
        /\ UNCHANGED dag_added
    BY <1>1, <1>7
  <2>2. /\ todo'[u] = Predecessors(u)
        /\ \A j \in Insts \ {u} : todo'[j] = todo[j] \/ (j \in Calls /\ todo'[j] = todo[j] \ {u})
    BY <1>3, <1>4, <2>1 DEF SCCTypeOK
  <2>3. SCCInv /\ u \in Insts \ used
    BY <1>4, <1>7
  <2>4. /\ stack' \in Seq(Insts) /\ stack' # <<>>
        /\ Calls' = Calls \cup {u} /\ u \notin Calls
        /\ StackInv' /\ EdgeInv' /\ RealInv' /\ DagAscends'
    <3> HIDE DEF SCCInv
    <3> QED BY <1>2, <1>5, <2>1, <2>2, <2>3, ReversePush
  <2>5. SCCTypeOK'
    BY <1>2, <1>4, <1>5, <2>1, <2>4 DEF SCCTypeOK
  <2>6. ListInv'
    BY <1>2, <2>1 DEF ListInv
  <2>7. used' \ Calls' = used \ Calls
    BY <1>7, <2>1, <2>4
  <2>8. NumberInv'
    BY <1>2, <1>3, <1>7, <2>1, <2>2, <2>4, <2>7 DEF NumberInv, SCCTypeOK
  <2>9. PartsInv'
    BY <1>2, <2>7 DEF PartsInv
  <2> QED BY <2>4, <2>5, <2>6, <2>8, <2>9
<1> QED BY <1>6, <1>7

\* When a call returns its instruction is in the component it was to be in.
LEMMA ReturnKeepsComp == SCCInv /\ ReverseReturn => \A i \in Insts : Comp(i)' = Comp(i)
<1> SUFFICES ASSUME SCCInv, ReverseReturn, NEW i \in Insts PROVE Comp(i)' = Comp(i)
  OBVIOUS
<1> USE DEF SCCInv
<1> DEFINE t == Top
<1>1. /\ stack # <<>> /\ sccId' = [sccId EXCEPT ![t] = sccNum]
      /\ sccNum' = IF Len(stack) = 1 THEN sccNum + 1 ELSE sccNum
      /\ stack' = SubSeq(stack, 1, Len(stack) - 1)
  BY DEF ReverseReturn, Popped
<1>2. /\ stack' = <<>> <=> Len(stack) = 1
      /\ t \in Insts /\ t \in Calls /\ Calls' = Calls \ {t}
  BY <1>1, PopFacts DEF SCCTypeOK, StackInv, Top, Calls
<1> HIDE DEF t
<1>3. stack' = <<>> => Calls' = {}
  BY EmptyFacts DEF Calls
<1>4. sccId'[t] = sccNum /\ \A j \in Insts \ {t} : sccId'[j] = sccId[j]
  BY <1>1, <1>2 DEF SCCTypeOK
<1>5. CASE i = t
  BY <1>2, <1>4, <1>5 DEF Comp
<1>6. CASE i # t /\ i \in Calls
  BY <1>1, <1>2, <1>3, <1>6 DEF Comp
<1>7. CASE i # t /\ i \notin Calls
  BY <1>2, <1>4, <1>7 DEF Comp
<1> QED BY <1>5, <1>6, <1>7

LEMMA ReverseReturnStep == SCCInv /\ ReverseReturn => SCCInv'
<1> SUFFICES ASSUME SCCInv, ReverseReturn PROVE SCCInv'
  OBVIOUS
<1> USE DEF SCCInv
<1> DEFINE t == Top
<1>1. /\ search = "reverse" /\ stack # <<>> /\ todo[t] = {}
      /\ sccId' = [sccId EXCEPT ![t] = sccNum]
      /\ InstInSCC' = [InstInSCC EXCEPT ![sccNum + 1] = @ \cup {t}]
      /\ sccNum' = IF Len(stack) = 1 THEN sccNum + 1 ELSE sccNum
      /\ next' = IF Len(stack) = 1 THEN next - 1 ELSE next
      /\ UNCHANGED <<pdg, search, used, todo, list, dag_added>>
  BY DEF ReverseReturn
<1>2. /\ stack' \in Seq(Insts) /\ Distinct(stack')
      /\ stack' = <<>> <=> Len(stack) = 1
      /\ t \in Insts /\ t \in Calls /\ t \in used
      /\ Calls' = Calls \ {t}
  BY PopFacts DEF ReverseReturn, SCCTypeOK, StackInv, Top, Popped, Calls
<1> HIDE DEF t
<1>3. stack' = <<>> => Calls' = {}
  BY EmptyFacts DEF Calls
<1>4. /\ sccNum \in Nat /\ sccId \in [Insts -> 0 .. sccNum]
      /\ InstInSCC \in Seq(SUBSET Insts) /\ Len(InstInSCC) = sccNum + 1
  BY <1>1 DEF SCCTypeOK, NumberInv
<1>5. /\ sccId' \in [Insts -> 0 .. sccNum] /\ sccId'[t] = sccNum
      /\ \A i \in Insts \ {t} : sccId'[i] = sccId[i]
  BY <1>1, <1>2, <1>4
<1>6. /\ InstInSCC' \in Seq(SUBSET Insts) /\ Len(InstInSCC') = sccNum + 1
      /\ \A c \in 1 .. sccNum : InstInSCC'[c] = InstInSCC[c]
      /\ InstInSCC'[sccNum + 1] = InstInSCC[sccNum + 1] \cup {t}
  BY <1>1, <1>2, <1>4
<1>7. \A i \in Insts : Comp(i)' = Comp(i)
  BY ReturnKeepsComp
<1>8. next' \in 0 .. Len(list) /\ sccNum' \in Nat /\ 0 .. sccNum \subseteq 0 .. sccNum'
  BY <1>1, <1>4 DEF SCCTypeOK, ListInv
<1>9. SCCTypeOK'
  BY <1>1, <1>2, <1>5, <1>6, <1>8 DEF SCCTypeOK
<1>10. StackInv'
  BY <1>1, <1>2 DEF StackInv
<1>11. ListInv'
  <2>1. next \in Nat /\ Len(list) \in Nat /\ next > 0 /\ list[next] \in used
    BY <1>1 DEF SCCTypeOK, ListInv
  <2>2. \A k \in 1 .. Len(list) : k > next' => k > next \/ k = next
    BY <1>1, <2>1
  <2>3. \A k \in 1 .. Len(list) : k > next' => list[k] \in used
    BY <1>1, <2>1, <2>2 DEF ListInv
  <2>4. stack' # <<>> => next' > 0 /\ list[next'] \in used
    BY <1>1, <1>2, <2>1
  <2> QED BY <1>1, <2>3, <2>4 DEF ListInv
<1>12. NumberInv'
  <2>1. Len(InstInSCC') = IF stack' = <<>> THEN sccNum' ELSE sccNum' + 1
    BY <1>1, <1>2, <1>6
  <2>2. stack' = <<>> => \A i \in used : sccId'[i] < sccNum'
    BY <1>1, <1>2, <1>4, <1>5 DEF SCCTypeOK
  <2>3. \A i \in Insts : i \notin used \/ i \in Calls' => sccId'[i] = 0
    BY <1>1, <1>2, <1>5 DEF NumberInv
  <2>4. \A i \in used \ Calls' : todo[i] = {}
    BY <1>1, <1>2 DEF NumberInv
  <2> QED BY <1>1, <2>1, <2>2, <2>3, <2>4 DEF NumberInv
<1>13. PartsInv'
  <2> SUFFICES ASSUME NEW c \in 1 .. sccNum + 1
               PROVE  /\ InstInSCC'[c] = {i \in used \ Calls' : sccId'[i] = c - 1}
                      /\ c <= sccNum' => InstInSCC'[c] # {}
    BY <1>1, <1>6 DEF PartsInv
  <2>1. /\ used \ Calls' = (used \ Calls) \cup {t}
        /\ \A i \in used \ Calls : sccId'[i] = sccId[i] /\ i # t
    BY <1>2, <1>5 DEF SCCTypeOK
  <2>2. InstInSCC[c] = {i \in used \ Calls : sccId[i] = c - 1}
    BY <1>1, <1>4 DEF PartsInv
  <2>3. CASE c \in 1 .. sccNum
    <3>1. sccId'[t] # c - 1 /\ c <= sccNum
      BY <1>4, <1>5, <2>3
    <3>2. InstInSCC'[c] = InstInSCC[c] /\ InstInSCC[c] # {}
      BY <1>1, <1>4, <1>6, <2>3, <3>1 DEF PartsInv
    <3> QED BY <2>1, <2>2, <3>1, <3>2
  <2>4. CASE c = sccNum + 1
    <3>1. sccId'[t] = c - 1 /\ InstInSCC'[c] = InstInSCC[c] \cup {t}
      BY <1>4, <1>5, <1>6, <2>4
    <3> QED BY <2>1, <2>2, <3>1
  <2> QED BY <1>4, <2>3, <2>4
<1>14. EdgeInv'
  BY <1>1, <1>7 DEF EdgeInv, Predecessors, SCCTypeOK
<1>15. RealInv'
  BY <1>1, <1>7 DEF RealInv, SCCTypeOK
<1>16. DagAscends'
  BY <1>1 DEF DagAscends
<1> QED BY <1>9, <1>10, <1>11, <1>12, <1>13, <1>14, <1>15, <1>16

LEMMA ReverseEndStep == SCCInv /\ ReverseEnd => SCCInv'
<1> SUFFICES ASSUME SCCInv, ReverseEnd PROVE SCCInv'
  OBVIOUS
<1> USE DEF SCCInv, ReverseEnd
<1>1. used = Insts
  <2>1. \A k \in 1 .. Len(list) : k > 0 => list[k] \in used
    BY DEF ListInv
  <2>2. Listed(list) \subseteq used
    BY <2>1 DEF Listed
  <2> QED BY <2>2 DEF ListInv, SCCTypeOK
<1> QED BY <1>1 DEF SCCTypeOK, StackInv, ListInv, NumberInv, PartsInv, EdgeInv, RealInv,
                    DagAscends, Calls, Comp, Predecessors

-----------------------------------------------------------------------------
LEMMA SCCStep == SCCInv /\ [SCCNext]_sccVars => SCCInv'
<1> SUFFICES ASSUME SCCInv, [SCCNext]_sccVars PROVE SCCInv'
  OBVIOUS
<1>1. CASE UNCHANGED sccVars
  BY <1>1 DEF sccVars, SCCInv, SCCTypeOK, StackInv, ListInv, NumberInv, PartsInv, EdgeInv,
              RealInv, DagAscends, Calls, Comp, Predecessors
<1>2. CASE SCCNext
  BY <1>2, ForwardStep, ReverseSkipStep, ReverseRootStep, ReverseEdgeStep, ReverseReturnStep,
     ReverseEndStep DEF SCCNext
<1> QED BY <1>1, <1>2

LEMMA SCCAlways == SCCSpec => []SCCInv
  BY SCCInitial, SCCStep, PTL DEF SCCSpec

\* buildSCC.cpp:9-104: the positions at which list is read (line 31) and
\* InstInSCC is written (line 91) are inside the vectors, and no number is
\* above sccNum.
THEOREM SCCTypeCorrect == SCCSpec => []SCCTypeOK
<1>1. SCCInv => SCCTypeOK
  BY DEF SCCInv
<1> QED BY <1>1, SCCAlways, PTL

\* buildSCC.cpp:76-88: every edge between components leads from a lower to a
\* higher number, so threadPartition is given a graph without a cycle.
THEOREM DagAlwaysAscends == SCCSpec => []DagAscends
<1>1. SCCInv => DagAscends
  BY DEF SCCInv
<1> QED BY <1>1, SCCAlways, PTL

LEMMA DoneIsComplete == SCCInv => DagComplete
<1> SUFFICES ASSUME SCCInv, search = "done", NEW e \in pdg
             PROVE  \/ sccId[e[1]] = sccId[e[2]]
                    \/ <<sccId[e[1]], sccId[e[2]]>> \in dag_added
  BY DEF DagComplete
<1> USE DEF SCCInv
<1>1. stack = <<>> /\ used = Insts /\ Calls = {}
  BY EmptyFacts DEF ListInv, Calls
<1>2. pdg \subseteq Insts \X Insts
  BY GraphAssumption DEF SCCTypeOK
<1>3. e[1] \in Insts /\ e[2] \in Insts /\ e[1] \in Predecessors(e[2])
  BY <1>2 DEF Predecessors
<1>4. todo[e[2]] = {}
  BY <1>1, <1>3 DEF NumberInv
<1> QED BY <1>1, <1>3, <1>4 DEF EdgeInv, Comp

\* buildSCC.cpp:76-88: when the search is done no dependence between two
\* components is missing from the edges between components.
THEOREM DagIsComplete == SCCSpec => []DagComplete
  BY DoneIsComplete, SCCAlways, PTL

\* buildSCC.cpp:33 and 90-91: InstInSCC lists each instruction under the
\* number sccId has for it, and no component is empty.
THEOREM PartsAlwaysAgree == SCCSpec => []PartsAgree
<1>1. SCCInv => PartsAgree
  <2> SUFFICES ASSUME SCCInv, search = "done" PROVE PartsAgree
    BY DEF PartsAgree
  <2> USE DEF SCCInv
  <2>1. stack = <<>> /\ used \ Calls = Insts
    BY EmptyFacts DEF ListInv, Calls
  <2>2. Len(InstInSCC) = sccNum /\ sccNum \in Nat
    BY <2>1 DEF NumberInv, SCCTypeOK
  <2>3. \A c \in SCCs : c + 1 \in 1 .. Len(InstInSCC) /\ (c + 1) - 1 = c /\ c + 1 <= sccNum
    BY <2>2 DEF SCCs
  <2> QED BY <2>1, <2>2, <2>3 DEF PartsInv, PartsAgree
<1> QED BY <1>1, SCCAlways, PTL

\* buildSCC.cpp:77-86: an edge between components that no dependence stands
\* for comes from component 0: sccId was read (line 77) before it was assigned.
THEOREM FalseEdges == SCCSpec => []FalseEdgesFromFirst
<1>1. SCCInv => FalseEdgesFromFirst
  <2>1. ASSUME SCCInv, search = "done" PROVE \A i \in Insts : Comp(i) = sccId[i]
    BY <2>1, EmptyFacts DEF SCCInv, ListInv, Calls, Comp
  <2> QED BY <2>1 DEF SCCInv, SCCTypeOK, RealInv, FalseEdgesFromFirst
<1> QED BY <1>1, SCCAlways, PTL

-----------------------------------------------------------------------------
(* The components are the strongly connected ones.  What can be reached is  *)
(* told by the sets closed under the edges, so nothing is said of paths.    *)

LEMMA ReachesFacts == /\ \A u : Reaches(u, u)
                      /\ \A e \in pdg : Reaches(e[1], e[2])
                      /\ \A u, v, w : Reaches(u, v) /\ Reaches(v, w) => Reaches(u, w)
  BY DEF Reaches

LEMMA WayOut == ASSUME NEW u, NEW v, Reaches(u, v), NEW S \in SUBSET Insts, u \in S, v \notin S
                PROVE  \E e \in pdg : e[1] \in S /\ e[2] \notin S
  BY DEF Reaches

LEMMA ReachesStays == UNCHANGED pdg => \A u, v : Reaches(u, v)' <=> Reaches(u, v)
  BY DEF Reaches

\* The instructions dfs_forward left first, up to the p-th.
Before(p) == {list[q] : q \in 1 .. p}

\* When dfs_forward leaves an instruction, those of its calls that have not
\* returned lead to it, and all other ends of edges have been left before.
LeftInv ==
    /\ Distinct(list)
    /\ \A p \in 1 .. Len(list) : \A e \in pdg :
          e[1] \in Before(p) => e[2] \in Before(p) \/ Reaches(e[2], list[p])

\* dfs_forward while it runs: its calls are a path.
ForwardInv ==
    search = "forward" =>
       /\ Listed(list) = used \ Calls
       /\ \A i \in used : Successors(i) \ todo[i] \subseteq used /\ todo[i] \subseteq Successors(i)
       /\ \A i \in used \ Calls : todo[i] = {}
       /\ \A k \in 1 .. Len(stack) : \A j \in 1 .. k : Reaches(stack[j], stack[k])

\* dfs_reverse: each can be reached from each in a component, complete or not;
\* what was left after the one it was called on is in an earlier component.
CompInv ==
    search # "forward" =>
       /\ search = "reverse" /\ stack # <<>> =>
             /\ Comp(list[next]) = sccNum
             /\ \A k \in 1 .. Len(list) : k > next => Comp(list[k]) < sccNum
       /\ \A i, j \in used : Comp(i) = Comp(j) => Reaches(i, j)

ReachInv == LeftInv /\ ForwardInv /\ CompInv

LEMMA ReachStart == SCCInit => ReachInv
<1> SUFFICES ASSUME SCCInit PROVE ReachInv
  OBVIOUS
<1>1. /\ search = "forward" /\ used = {} /\ stack = <<>> /\ list = <<>>
  BY DEF SCCInit
<1>2. Len(<<>>) = 0 /\ 1 .. 0 = {} /\ Listed(<<>>) = {} /\ Distinct(<<>>)
  BY EmptyFacts
<1> QED BY <1>1, <1>2 DEF ReachInv, LeftInv, ForwardInv, CompInv

LEMMA ForwardPushReach ==
  ASSUME SCCInv, ReachInv, search = "forward", NEW i \in Insts \ used,
         used' = used \cup {i},
         stack' = Append(stack, i),
         todo'[i] = Successors(i),
         \A j \in Insts \ {i} : todo'[j] = todo[j] \/ (j \in Calls /\ todo'[j] = todo[j] \ {i}),
         stack # <<>> => Reaches(Top, i),
         UNCHANGED <<pdg, search, list>>
  PROVE  ReachInv'
<1> DEFINE n == Len(stack)
<1>1. stack \in Seq(Insts) /\ Distinct(stack) /\ i \notin Listed(stack) /\ used \subseteq Insts
  BY DEF SCCInv, SCCTypeOK, StackInv, Calls
<1>2. /\ Calls' = Calls \cup {i} /\ n \in Nat
      /\ Len(stack') = n + 1 /\ stack'[n + 1] = i
      /\ \A k \in 1 .. n : stack'[k] = stack[k]
  BY <1>1, PushFacts DEF Calls
<1>3. \A u, v : Reaches(u, v)' <=> Reaches(u, v)
  BY ReachesStays
<1>4. \A j : Successors(j)' = Successors(j)
  BY DEF Successors
<1>5. LeftInv'
  BY <1>3 DEF ReachInv, LeftInv, Before
<1>6. ASSUME NEW k \in 1 .. n + 1, NEW j \in 1 .. k
      PROVE  Reaches(stack'[j], stack'[k])
  <2>1. CASE k \in 1 .. n
    <3>1. j \in 1 .. n
      BY <1>2, <2>1
    <3> QED BY <1>2, <2>1, <3>1 DEF ReachInv, ForwardInv
  <2>2. CASE k = n + 1 /\ j = n + 1
    BY <2>2, ReachesFacts
  <2>3. CASE k = n + 1 /\ j \in 1 .. n
    <3>1. n \in 1 .. n /\ stack # <<>>
      BY <1>1, <1>2, <2>3, EmptySeq
    <3>2. Reaches(stack[j], stack[n])
      BY <2>3, <3>1 DEF ReachInv, ForwardInv
    <3>3. Reaches(stack[n], i)
      BY <3>1 DEF Top
    <3>4. Reaches(stack[j], i)
      BY <3>2, <3>3, ReachesFacts
    <3> QED BY <1>2, <2>3, <3>4
  <2> QED BY <1>2, <2>1, <2>2, <2>3
<1> HIDE DEF n
<1>7. ForwardInv'
  <2>1. Listed(list) = used' \ Calls'
    BY <1>1, <1>2 DEF ReachInv, ForwardInv, Calls
  <2>2. \A j \in used' : Successors(j) \ todo'[j] \subseteq used' /\ todo'[j] \subseteq Successors(j)
    BY <1>1 DEF ReachInv, ForwardInv
  <2>3. \A j \in used' \ Calls' : todo'[j] = {}
    BY <1>1, <1>2 DEF ReachInv, ForwardInv
  <2> QED BY <1>2, <1>3, <1>4, <1>6, <2>1, <2>2, <2>3 DEF ForwardInv
<1> QED BY <1>5, <1>7 DEF ReachInv, CompInv

LEMMA ForwardReach ==
  ASSUME SCCInv, ReachInv, ForwardRoot \/ ForwardEdge \/ ForwardReturn \/ ForwardEnd
  PROVE  ReachInv'
<1>0. /\ stack \in Seq(Insts) /\ Distinct(stack) /\ todo \in [Insts -> SUBSET Insts]
      /\ list \in Seq(Insts) /\ used \subseteq Insts /\ Calls \subseteq used
  BY DEF SCCInv, SCCTypeOK, StackInv
<1>1. CASE ForwardRoot
  <2>1. PICK i \in Insts \ used : Enter(i, Successors(i))
    BY <1>1 DEF ForwardRoot
  <2>2. /\ search = "forward" /\ stack = <<>> /\ UNCHANGED <<pdg, search, list>>
    BY <1>1 DEF ForwardRoot
  <2>3. /\ used' = used \cup {i} /\ stack' = Append(stack, i)
        /\ todo'[i] = Successors(i) /\ \A j \in Insts \ {i} : todo'[j] = todo[j]
    BY <1>0, <2>1 DEF Enter
  <2> QED BY <2>2, <2>3, ForwardPushReach
<1>2. CASE ForwardEdge
  <2>1. PICK v \in todo[Top] :
           IF v \in used
           THEN todo' = [todo EXCEPT ![Top] = @ \ {v}] /\ UNCHANGED <<used, stack>>
           ELSE /\ used' = used \cup {v}
                /\ stack' = Append(stack, v)
                /\ todo' = [todo EXCEPT ![Top] = @ \ {v}, ![v] = Successors(v)]
    BY <1>2 DEF ForwardEdge
  <2>2. /\ search = "forward" /\ stack # <<>> /\ UNCHANGED <<pdg, search, list>>
    BY <1>2 DEF ForwardEdge
  <2>3. Top \in Insts /\ Top \in Calls /\ Top \in used
    BY <1>0, <2>2, PopFacts DEF Top, Calls
  <2>4. v \in Insts /\ <<Top, v>> \in pdg
    BY <2>1, <2>2, <2>3 DEF ReachInv, ForwardInv, Successors
  <2>5. Reaches(Top, v)
    BY <2>4, ReachesFacts
  <2>6. CASE v \in used
    <3>1. /\ \A j \in Insts : todo'[j] = IF j = Top THEN todo[j] \ {v} ELSE todo[j]
          /\ UNCHANGED <<used, stack>>
      BY <1>0, <2>1, <2>3, <2>6
    <3>2. /\ \A u, w : Reaches(u, w)' <=> Reaches(u, w)
          /\ \A j : Successors(j)' = Successors(j)
          /\ Calls' = Calls
      BY <2>2, <3>1, ReachesStays DEF Successors, Calls
    <3>3. \A j \in used : Successors(j) \ todo'[j] \subseteq used /\ todo'[j] \subseteq Successors(j)
      BY <1>0, <2>2, <2>6, <3>1 DEF ReachInv, ForwardInv
    <3>4. \A j \in used \ Calls : todo'[j] = {}
      BY <1>0, <2>2, <2>3, <3>1 DEF ReachInv, ForwardInv
    <3>5. ForwardInv'
      BY <2>2, <3>1, <3>2, <3>3, <3>4 DEF ReachInv, ForwardInv
    <3>6. LeftInv'
      BY <2>2, <3>2 DEF ReachInv, LeftInv, Before
    <3> QED BY <2>2, <3>5, <3>6 DEF ReachInv, CompInv
  <2>7. CASE v \notin used
    <3>1. /\ used' = used \cup {v} /\ stack' = Append(stack, v)
          /\ todo'[v] = Successors(v)
          /\ \A j \in Insts \ {v} : todo'[j] = todo[j] \/ (j \in Calls /\ todo'[j] = todo[j] \ {v})
      BY <1>0, <2>1, <2>3, <2>4, <2>7
    <3> QED BY <2>2, <2>4, <2>5, <2>7, <3>1, ForwardPushReach
  <2> QED BY <2>6, <2>7
<1>3. CASE ForwardReturn
  <2> DEFINE t == Top
             m == Len(list)
             n == Len(stack)
  <2>1. /\ search = "forward" /\ stack # <<>> /\ todo[t] = {}
        /\ list' = Append(list, t) /\ stack' = SubSeq(stack, 1, n - 1)
        /\ UNCHANGED <<pdg, search, used, todo>>
    BY <1>3 DEF ForwardReturn, Popped
  <2>2. /\ t \in Insts /\ t \in Calls /\ Calls' = Calls \ {t}
        /\ Len(stack') = n - 1 /\ n \in Nat /\ \A k \in 1 .. n - 1 : stack'[k] = stack[k]
    BY <1>0, <2>1, PopFacts DEF Top, Calls
  <2>3. Listed(list) = used \ Calls
    BY <2>1 DEF ReachInv, ForwardInv
  <2>4. /\ Distinct(list') /\ Len(list') = m + 1 /\ m \in Nat /\ list'[m + 1] = t
        /\ \A k \in 1 .. m : list'[k] = list[k]
        /\ Listed(list') = Listed(list) \cup {t}
    <3> HIDE DEF t
    <3>1. t \notin Listed(list)
      BY <2>2, <2>3
    <3> QED BY <1>0, <2>1, <2>2, <3>1, PushFacts DEF ReachInv, LeftInv
  <2>5. /\ \A u, w : Reaches(u, w)' <=> Reaches(u, w)
        /\ \A j : Successors(j)' = Successors(j)
    BY <2>1, ReachesStays DEF Successors
  <2>6. \A c \in Calls : Reaches(c, t)
    <3> SUFFICES ASSUME NEW j \in 1 .. n PROVE Reaches(stack[j], t)
      BY DEF Calls, Listed
    <3>1. n \in 1 .. n
      BY <2>2
    <3> QED BY <2>1, <3>1 DEF ReachInv, ForwardInv, Top
  <2> HIDE DEF t
  <2>7. ForwardInv'
    <3>1. Listed(list') = used' \ Calls'
      BY <1>0, <2>1, <2>2, <2>3, <2>4
    <3>2. \A j \in used \ Calls' : todo[j] = {}
      BY <2>1, <2>2 DEF ReachInv, ForwardInv
    <3>3. \A k \in 1 .. n - 1 : \A j \in 1 .. k : Reaches(stack'[j], stack'[k])
      <4> SUFFICES ASSUME NEW k \in 1 .. n - 1, NEW j \in 1 .. k
                   PROVE  Reaches(stack[j], stack[k]) /\ j \in 1 .. n - 1
        BY <2>2
      <4>1. k \in 1 .. n /\ j \in 1 .. n - 1
        BY <2>2
      <4> QED BY <2>1, <4>1 DEF ReachInv, ForwardInv, n
    <3> QED BY <2>1, <2>2, <2>5, <3>1, <3>2, <3>3 DEF ReachInv, ForwardInv
  <2>8. LeftInv'
    <3> DEFINE B(p) == {list'[q] : q \in 1 .. p}
    <3>1. ASSUME NEW p \in 1 .. m + 1, NEW e \in pdg, e[1] \in B(p)
          PROVE  e[2] \in B(p) \/ Reaches(e[2], list'[p])
      <4>1. CASE p \in 1 .. m
        <5>1. B(p) = Before(p)
          <6>1. \A q \in 1 .. p : q \in 1 .. m
            BY <2>4, <4>1
          <6> QED BY <2>4, <6>1 DEF Before
        <5> QED BY <2>4, <3>1, <4>1, <5>1 DEF ReachInv, LeftInv
      <4>2. CASE p = m + 1
        <5>1. B(p) = Listed(list')
          BY <2>4, <4>2 DEF Listed
        <5>2. e[1] \in Insts /\ e[2] \in Insts /\ e[1] \in used /\ e = <<e[1], e[2]>>
          <6>1. pdg \subseteq Insts \X Insts
            BY GraphAssumption DEF SCCInv, SCCTypeOK
          <6>2. e \in Insts \X Insts
            BY <6>1
          <6>3. e[1] \in Listed(list')
            BY <3>1, <5>1
          <6>4. e[1] \in used
            BY <1>0, <2>2, <2>3, <2>4, <6>3
          <6> QED BY <6>2, <6>4
        <5>3. e[2] \in Successors(e[1])
          BY <5>2 DEF Successors
        <5>4. todo[e[1]] = {}
          BY <2>1, <2>2, <2>3, <2>4, <3>1, <5>1 DEF ReachInv, ForwardInv
        <5>5. e[2] \in used
          BY <2>1, <5>2, <5>3, <5>4 DEF ReachInv, ForwardInv
        <5>6. e[2] \in Listed(list) \/ e[2] \in Calls
          BY <2>3, <5>5
        <5> QED BY <2>4, <2>6, <4>2, <5>1, <5>6
      <4> QED BY <2>4, <4>1, <4>2
    <3> QED BY <2>1, <2>4, <2>5, <3>1 DEF LeftInv, Before
  <2> QED BY <2>1, <2>7, <2>8 DEF ReachInv, CompInv
<1>4. CASE ForwardEnd
  <2>1. /\ search' = "reverse" /\ stack' = <<>> /\ used' = {} /\ UNCHANGED <<pdg, list>>
    BY <1>4 DEF ForwardEnd
  <2>2. \A u, w : Reaches(u, w)' <=> Reaches(u, w)
    BY <2>1, ReachesStays
  <2>3. LeftInv'
    BY <2>1, <2>2 DEF ReachInv, LeftInv, Before
  <2> QED BY <2>1, <2>3 DEF ReachInv, ForwardInv, CompInv
<1> QED BY <1>1, <1>2, <1>3, <1>4

-----------------------------------------------------------------------------
(* dfs_reverse enters only what belongs to the component of the root        *)

\* Off a set closed against the edges, where what was left after the root
\* lies, all that leads to the root can be reached from it.
LEMMA RootLeadsBack ==
  ASSUME list \in Seq(Insts), next \in 1 .. Len(list), LeftInv,
         Insts \subseteq Listed(list), pdg \subseteq Insts \X Insts,
         NEW U \in SUBSET Insts,
         \A e \in pdg : e[2] \in U => e[1] \in U,
         \A k \in 1 .. Len(list) : k > next => list[k] \in U,
         NEW x \in Insts \ U, Reaches(x, list[next])
  PROVE  Reaches(list[next], x)
<1> DEFINE r == list[next]
           Bad == {p \in 1 .. next : /\ list[p] \notin U
                                     /\ Reaches(list[p], r)
                                     /\ ~Reaches(r, list[p])}
<1>0. Len(list) \in Nat /\ next \in Nat /\ next <= Len(list)
  OBVIOUS
<1>1. \A y \in Insts \ U : \E k \in 1 .. next : y = list[k]
  <2> SUFFICES ASSUME NEW y \in Insts \ U PROVE \E k \in 1 .. next : y = list[k]
    OBVIOUS
  <2>1. PICK k \in 1 .. Len(list) : y = list[k]
    BY DEF Listed
  <2>2. ~(k > next)
    BY <2>1
  <2>3. k \in 1 .. next
    BY <1>0, <2>2
  <2> QED BY <2>1, <2>3
<1>2. Bad = {}
  <2> SUFFICES ASSUME Bad # {} PROVE FALSE
    OBVIOUS
  <2> HIDE DEF r
  <2>1. PICK p \in Bad : \A k \in Bad : k <= p
    <3> DEFINE T == {next - k : k \in Bad}
    <3>1. T \subseteq Nat /\ T # {}
      BY <1>0
    <3>2. PICK d \in T : \A f \in T : d <= f
      BY <3>1, SmallestMember
    <3>3. PICK p \in Bad : d = next - p
      BY <3>2
    <3>4. \A k \in Bad : next - p <= next - k /\ k \in Int
      <4>1. \A k \in Bad : next - k \in T /\ k \in Int
        OBVIOUS
      <4> HIDE DEF T
      <4> QED BY <3>2, <3>3, <4>1
    <3>5. p \in Int
      BY <3>3
    <3> QED BY <1>0, <3>3, <3>4, <3>5
  <2>2. p \in 1 .. next /\ list[p] \notin U /\ Reaches(list[p], r) /\ ~Reaches(r, list[p])
    BY <2>1
  <2>3. \A k \in 1 .. next : k > p => k \notin Bad
    BY <2>1, <2>2
  <2>4. p \in 1 .. Len(list) /\ p < next
    <3>1. p # next
      BY <2>2, ReachesFacts DEF r
    <3> QED BY <1>0, <2>2, <3>1
  <2> DEFINE S == {y \in Insts : (y \in Before(p) /\ y \notin U) \/ ~Reaches(y, r)}
  <2>5. list[p] \in S
    <3>1. list[p] \in Insts
      BY <2>4
    <3>2. p \in 1 .. p
      BY <2>4
    <3> QED BY <2>2, <3>1, <3>2 DEF Before
  <2>6. r \notin S
    <3>1. r \notin Before(p)
      <4> SUFFICES ASSUME NEW q \in 1 .. p PROVE list[q] # list[next]
        BY DEF Before, r
      <4>1. q \in 1 .. Len(list) /\ q # next
        BY <1>0, <2>4
      <4> QED BY <4>1 DEF LeftInv, Distinct
    <3> QED BY <3>1, ReachesFacts
  <2>7. PICK e \in pdg : e[1] \in S /\ e[2] \notin S
    <3>1. S \in SUBSET Insts
      OBVIOUS
    <3> HIDE DEF S
    <3> QED BY <2>2, <2>5, <2>6, <3>1, WayOut
  <2>8. e[2] \in Insts
    <3>1. e \in Insts \X Insts
      BY <2>7
    <3> QED BY <3>1
  <2>9. Reaches(e[2], r)
    BY <2>7, <2>8
  <2>10. Reaches(e[1], r)
    BY <2>7, <2>9, ReachesFacts
  <2>11. e[1] \in Before(p) /\ e[1] \notin U
    BY <2>7, <2>10
  <2>12. e[2] \notin U
    BY <2>7, <2>11
  <2>13. e[2] \notin Before(p)
    BY <2>7, <2>8, <2>12
  <2> HIDE DEF S, Bad
  <2>14. Reaches(e[2], list[p])
    BY <2>4, <2>7, <2>11, <2>13 DEF LeftInv
  <2>15. PICK k \in 1 .. next : e[2] = list[k]
    BY <1>1, <2>8, <2>12
  <2>16. k > p
    <3>1. k \notin 1 .. p
      BY <2>13, <2>15 DEF Before
    <3> QED BY <2>4, <3>1
  <2>17. Reaches(r, e[2])
    BY <2>3, <2>9, <2>12, <2>15, <2>16 DEF Bad
  <2> QED BY <2>2, <2>14, <2>17, ReachesFacts
<1> QED BY <1>1, <1>2

\* The components complete are closed against the edges.
LEMMA EarlierClosed ==
  ASSUME SCCInv, search = "reverse", NEW e \in pdg,
         e[2] \in used, Comp(e[2]) < sccNum
  PROVE  e[1] \in used /\ Comp(e[1]) < sccNum
<1>1. /\ pdg \subseteq Insts \X Insts /\ used \subseteq Insts /\ sccNum \in Nat
      /\ sccId \in [Insts -> 0 .. sccNum]
  BY GraphAssumption DEF SCCInv, SCCTypeOK
<1>2. e \in Insts \X Insts
  BY <1>1
<1>3. e[1] \in Insts /\ e[2] \in Insts /\ e = <<e[1], e[2]>>
  BY <1>2
<1>4. e[1] \in Predecessors(e[2])
  BY <1>3 DEF Predecessors
<1>5. e[2] \notin Calls
  BY <1>1 DEF Comp
<1>6. todo[e[2]] = {}
  BY <1>5 DEF SCCInv, NumberInv
<1>7. /\ e[1] \in used
      /\ Comp(e[1]) = Comp(e[2]) \/ <<Comp(e[1]), Comp(e[2])>> \in dag_added
  BY <1>4, <1>6 DEF SCCInv, EdgeInv
<1>8. CASE Comp(e[1]) = Comp(e[2])
  BY <1>7, <1>8
<1>9. CASE <<Comp(e[1]), Comp(e[2])>> \in dag_added
  <2>1. Comp(e[1]) < Comp(e[2])
    BY <1>9 DEF SCCInv, DagAscends
  <2>2. Comp(e[1]) \in Int /\ Comp(e[2]) \in Int
    BY <1>1, <1>3 DEF Comp
  <2> QED BY <1>1, <1>7, <2>1, <2>2
<1> QED BY <1>7, <1>8, <1>9

\* dfs_reverse enters u, from which an edge leads to the instruction on top.
LEMMA ReversePushReach ==
  ASSUME SCCInv, ReachInv, search = "reverse", stack # <<>>,
         NEW t \in used, Comp(t) = sccNum,
         NEW u \in Insts \ used, <<u, t>> \in pdg,
         used' = used \cup {u},
         stack' = Append(stack, u),
         UNCHANGED <<pdg, search, list, next, sccNum, sccId>>
  PROVE  ReachInv'
<1> DEFINE r == list[next]
           U == {i \in used : Comp(i) < sccNum}
<1>1. /\ stack \in Seq(Insts) /\ Distinct(stack) /\ u \notin Listed(stack) /\ used \subseteq Insts
      /\ Calls \subseteq used /\ list \in Seq(Insts) /\ next \in 0 .. Len(list)
      /\ next > 0 /\ r \in used /\ Insts \subseteq Listed(list) /\ sccNum \in Nat
      /\ \A k \in 1 .. Len(list) : k > next => list[k] \in used
      /\ pdg \subseteq Insts \X Insts
  BY GraphAssumption DEF SCCInv, SCCTypeOK, StackInv, ListInv, Calls
<1>2. Calls' = Calls \cup {u}
  BY <1>1, PushFacts DEF Calls
<1>3. /\ \A i \in used : Comp(i)' = Comp(i)
      /\ Comp(u)' = sccNum
  BY <1>1, <1>2 DEF Comp
<1>4. \A a, b : Reaches(a, b)' <=> Reaches(a, b)
  BY ReachesStays
<1>5. LeftInv'
  BY <1>4 DEF ReachInv, LeftInv, Before
<1>6. /\ Comp(r) = sccNum
      /\ \A k \in 1 .. Len(list) : k > next => Comp(list[k]) < sccNum
      /\ \A i, j \in used : Comp(i) = Comp(j) => Reaches(i, j)
  BY DEF ReachInv, CompInv
<1>7. Reaches(u, r)
  <2> DEFINE e == <<u, t>>
  <2>1. e \in pdg /\ e[1] = u /\ e[2] = t
    OBVIOUS
  <2> HIDE DEF e, r
  <2>2. Reaches(u, t)
    BY <2>1, ReachesFacts
  <2>3. Reaches(t, r)
    BY <1>1, <1>6
  <2> QED BY <2>2, <2>3, ReachesFacts
<1>8. Reaches(r, u)
  <2>1. next \in 1 .. Len(list)
    BY <1>1
  <2>2. ASSUME NEW e \in pdg, e[2] \in U PROVE e[1] \in U
    BY <2>2, EarlierClosed
  <2>3. \A k \in 1 .. Len(list) : k > next => list[k] \in U
    BY <1>1, <1>6
  <2>4. U \in SUBSET Insts /\ u \in Insts \ U
    BY <1>1
  <2>5. LeftInv
    BY DEF ReachInv
  <2> HIDE DEF U
  <2> QED BY <1>1, <1>7, <2>1, <2>2, <2>3, <2>4, <2>5, RootLeadsBack
<1> HIDE DEF r
<1>9. \A i, j \in used' : Comp(i)' = Comp(j)' => Reaches(i, j)
  <2> SUFFICES ASSUME NEW i \in used', NEW j \in used', Comp(i)' = Comp(j)'
               PROVE  Reaches(i, j)
    OBVIOUS
  <2>1. CASE i \in used /\ j \in used
    BY <1>3, <1>6, <2>1
  <2>2. CASE i = u /\ j = u
    BY <2>2, ReachesFacts
  <2>3. CASE i = u /\ j \in used
    <3>1. Reaches(r, j)
      BY <1>1, <1>3, <1>6, <2>3
    <3> QED BY <1>7, <2>3, <3>1, ReachesFacts
  <2>4. CASE i \in used /\ j = u
    <3>1. Reaches(i, r)
      BY <1>1, <1>3, <1>6, <2>4
    <3> QED BY <1>8, <2>4, <3>1, ReachesFacts
  <2> QED BY <2>1, <2>2, <2>3, <2>4
<1>10. CompInv'
  <2>1. Comp(list[next])' = sccNum'
    BY <1>1, <1>3, <1>6 DEF r
  <2>2. (\A k \in 1 .. Len(list) : k > next => Comp(list[k]) < sccNum)'
    BY <1>1, <1>3, <1>6
  <2> QED BY <1>4, <1>9, <2>1, <2>2 DEF CompInv
<1> QED BY <1>5, <1>10 DEF ReachInv, ForwardInv

LEMMA ReverseReach ==
  ASSUME SCCInv, ReachInv, ReverseSkip \/ ReverseRoot \/ ReverseEdge \/ ReverseReturn \/ ReverseEnd
  PROVE  ReachInv'
<1>0. /\ stack \in Seq(Insts) /\ Distinct(stack) /\ used \subseteq Insts
      /\ Calls \subseteq used /\ list \in Seq(Insts) /\ next \in 0 .. Len(list)
      /\ Insts \subseteq Listed(list) /\ sccNum \in Nat
      /\ search = "reverse" /\ UNCHANGED <<pdg, list>>
  BY DEF SCCInv, SCCTypeOK, StackInv, ListInv, ReverseSkip, ReverseRoot, ReverseEdge,
         ReverseReturn, ReverseEnd
<1>01. \A a, b : Reaches(a, b)' <=> Reaches(a, b)
  BY <1>0, ReachesStays
<1>02. LeftInv'
  BY <1>0, <1>01 DEF ReachInv, LeftInv, Before
<1>03. search' # "forward" => ForwardInv'
  BY DEF ForwardInv
<1>04. \A i, j \in used : Comp(i) = Comp(j) => Reaches(i, j)
  BY <1>0 DEF ReachInv, CompInv
<1>1. CASE ReverseSkip
  <2>1. UNCHANGED <<used, stack, sccNum, sccId, search>> /\ stack = <<>>
    BY <1>1 DEF ReverseSkip
  <2>2. \A i : Comp(i)' = Comp(i)
    BY <2>1 DEF Comp, Calls
  <2>3. CompInv'
    BY <1>0, <1>01, <1>04, <2>1, <2>2 DEF CompInv
  <2> QED BY <1>0, <1>02, <1>03, <2>1, <2>3 DEF ReachInv
<1>2. CASE ReverseEnd
  <2>1. UNCHANGED <<used, stack, sccNum, sccId>> /\ search' = "done"
    BY <1>2 DEF ReverseEnd
  <2>2. \A i : Comp(i)' = Comp(i)
    BY <2>1 DEF Comp, Calls
  <2>3. CompInv'
    BY <1>0, <1>01, <1>04, <2>1, <2>2 DEF CompInv
  <2> QED BY <1>02, <1>03, <2>1, <2>3 DEF ReachInv
<1>3. CASE ReverseRoot
  <2>0. PICK r : r = list[next]
    OBVIOUS
  <2>1. /\ stack = <<>> /\ next > 0 /\ r \notin used
        /\ used' = used \cup {r} /\ stack' = Append(stack, r)
        /\ UNCHANGED <<search, next, sccNum, sccId>>
    BY <1>3, <2>0 DEF ReverseRoot, Enter
  <2>2. r \in Insts /\ Calls = {}
    BY <1>0, <2>0, <2>1, EmptyFacts DEF Calls
  <2>3. Calls' = {r}
    <3>1. r \notin Listed(stack)
      BY <2>2 DEF Calls
    <3>2. Listed(Append(stack, r)) = Listed(stack) \cup {r}
      BY <1>0, <2>2, <3>1, PushFacts
    <3> QED BY <2>1, <2>2, <3>2 DEF Calls
  <2>4. /\ \A i \in used : Comp(i)' = Comp(i) /\ Comp(i) < sccNum
        /\ Comp(r)' = sccNum
    <3>1. \A i \in used : sccId[i] < sccNum
      BY <1>0, <2>1 DEF SCCInv, NumberInv
    <3>2. \A i \in used : i \notin Calls /\ i \notin Calls' /\ i \in Insts
      BY <1>0, <2>1, <2>2, <2>3
    <3> QED BY <2>1, <2>2, <2>3, <3>1, <3>2 DEF Comp
  <2>5. \A k \in 1 .. Len(list) : k > next => list[k] \in used
    BY <1>0 DEF SCCInv, ListInv
  <2>6. ASSUME NEW i \in used', NEW j \in used', Comp(i)' = Comp(j)'
        PROVE  Reaches(i, j)
    <3>1. CASE i \in used /\ j \in used
      BY <1>04, <2>4, <2>6, <3>1
    <3>2. CASE i = r /\ j = r
      BY <3>2, ReachesFacts
    <3>3. \A k \in used : Comp(k)' # Comp(r)'
      <4>1. \A k \in used : Comp(k) \in Int
        BY <1>0 DEF Comp, SCCInv, SCCTypeOK
      <4> QED BY <1>0, <2>4, <4>1
    <3> QED BY <2>1, <2>6, <3>1, <3>2, <3>3
  <2>7. Comp(list[next])' = sccNum'
    BY <1>0, <2>0, <2>1, <2>4
  <2>8. (\A k \in 1 .. Len(list) : k > next => Comp(list[k]) < sccNum)'
    BY <1>0, <2>1, <2>4, <2>5
  <2>9. CompInv'
    BY <1>01, <2>6, <2>7, <2>8 DEF CompInv
  <2> QED BY <1>0, <1>02, <1>03, <2>1, <2>9 DEF ReachInv
<1>4. CASE ReverseEdge
  <2> DEFINE t == Top
  <2>1. PICK u \in todo[t] :
           IF u \in used
           THEN UNCHANGED <<used, stack>>
           ELSE used' = used \cup {u} /\ stack' = Append(stack, u)
    BY <1>4 DEF ReverseEdge
  <2>2. stack # <<>> /\ UNCHANGED <<search, next, sccNum, sccId>>
    BY <1>4 DEF ReverseEdge
  <2>3. t \in Calls /\ t \in used
    BY <1>0, <2>2, PopFacts DEF Top, Calls
  <2> HIDE DEF t
  <2>4. u \in Insts /\ <<u, t>> \in pdg
    BY <1>0, <2>1, <2>3 DEF SCCInv, EdgeInv, Predecessors
  <2>5. CASE u \in used
    <3>1. \A i : Comp(i)' = Comp(i)
      BY <2>1, <2>2, <2>5 DEF Comp, Calls
    <3>2. CompInv'
      BY <1>0, <1>01, <2>1, <2>2, <2>5, <3>1 DEF ReachInv, CompInv
    <3> QED BY <1>0, <1>02, <1>03, <2>2, <3>2 DEF ReachInv
  <2>6. CASE u \notin used
    <3>1. Comp(t) = sccNum
      BY <2>3 DEF Comp
    <3> QED BY <1>0, <2>1, <2>2, <2>3, <2>4, <2>6, <3>1, ReversePushReach
  <2> QED BY <2>5, <2>6
<1>5. CASE ReverseReturn
  <2>1. \A i \in Insts : Comp(i)' = Comp(i)
    BY <1>5, ReturnKeepsComp
  <2>2. /\ stack # <<>> /\ UNCHANGED <<search, used>>
        /\ Len(stack) # 1 => UNCHANGED <<sccNum, next>>
        /\ stack' = SubSeq(stack, 1, Len(stack) - 1)
    BY <1>5 DEF ReverseReturn, Popped
  <2>3. stack' # <<>> => Len(stack) # 1
    BY <1>0, <2>2, PopFacts
  <2>4. \A i, j \in used' : Comp(i)' = Comp(j)' => Reaches(i, j)
    BY <1>0, <1>04, <2>1, <2>2
  <2>5. stack' # <<>> => /\ Comp(list[next])' = sccNum'
                         /\ (\A k \in 1 .. Len(list) : k > next => Comp(list[k]) < sccNum)'
    <3> SUFFICES ASSUME stack' # <<>>
                 PROVE  /\ Comp(list[next])' = sccNum
                        /\ \A k \in 1 .. Len(list) : k > next => Comp(list[k])' < sccNum
      BY <1>0, <2>2, <2>3
    <3>1. next \in 1 .. Len(list) /\ \A k \in 1 .. Len(list) : list[k] \in Insts
      BY <1>0, <2>2 DEF SCCInv, ListInv
    <3>2. UNCHANGED <<list, next>>
      BY <1>0, <2>2, <2>3
    <3> QED BY <1>0, <2>1, <2>2, <3>1, <3>2 DEF ReachInv, CompInv
  <2>6. CompInv'
    BY <1>01, <2>4, <2>5 DEF CompInv
  <2> QED BY <1>0, <1>02, <1>03, <2>2, <2>6 DEF ReachInv
<1> QED BY <1>1, <1>2, <1>3, <1>4, <1>5

LEMMA ReachAlways == SCCSpec => []ReachInv
<1>1. SCCInv /\ ReachInv /\ [SCCNext]_sccVars => ReachInv'
  <2> SUFFICES ASSUME SCCInv, ReachInv, [SCCNext]_sccVars PROVE ReachInv'
    OBVIOUS
  <2>1. CASE UNCHANGED sccVars
    <3>1. \A a, b : Reaches(a, b)' <=> Reaches(a, b)
      BY <2>1, ReachesStays DEF sccVars
    <3>2. LeftInv'
      BY <2>1, <3>1 DEF sccVars, ReachInv, LeftInv, Before
    <3>3. ForwardInv'
      BY <2>1, <3>1 DEF sccVars, ReachInv, ForwardInv, Calls, Successors
    <3>4. CompInv'
      BY <2>1, <3>1 DEF sccVars, ReachInv, CompInv, Comp, Calls
    <3> QED BY <3>2, <3>3, <3>4 DEF ReachInv
  <2>2. CASE SCCNext
    BY <2>2, ForwardReach, ReverseReach DEF SCCNext
  <2> QED BY <2>1, <2>2
<1> QED BY <1>1, ReachStart, SCCAlways, PTL DEF SCCSpec

LEMMA ReachTellsComponents == SCCInv /\ ReachInv => SccCorrect
<1> SUFFICES ASSUME SCCInv, ReachInv, search = "done", NEW u \in Insts, NEW v \in Insts
             PROVE  sccId[u] = sccId[v] <=> Reaches(u, v) /\ Reaches(v, u)
  BY DEF SccCorrect
<1>1. /\ used = Insts /\ sccNum \in Nat /\ sccId \in [Insts -> 0 .. sccNum]
      /\ pdg \subseteq Insts \X Insts /\ \A i \in Insts : Comp(i) = sccId[i]
  BY GraphAssumption, EmptyFacts DEF SCCInv, SCCTypeOK, ListInv, Calls, Comp
<1>2. sccId[u] = sccId[v] => Reaches(u, v) /\ Reaches(v, u)
  BY <1>1 DEF ReachInv, CompInv
<1>3. \A a, b \in Insts : Reaches(a, b) => sccId[a] <= sccId[b]
  <2> SUFFICES ASSUME NEW a \in Insts, NEW b \in Insts, Reaches(a, b)
               PROVE  sccId[a] <= sccId[b]
    OBVIOUS
  <2> DEFINE S == {i \in Insts : sccId[a] <= sccId[i]}
  <2>1. a \in S /\ S \in SUBSET Insts
    BY <1>1
  <2>2. ASSUME NEW e \in pdg, e[1] \in S PROVE e[2] \in S
    <3>1. e \in Insts \X Insts
      BY <1>1
    <3>2. e[1] \in Insts /\ e[2] \in Insts
      BY <3>1
    <3>3. sccId[e[1]] = sccId[e[2]] \/ <<sccId[e[1]], sccId[e[2]]>> \in dag_added
      BY DoneIsComplete DEF DagComplete
    <3>4. sccId[e[1]] <= sccId[e[2]]
      <4>1. CASE <<sccId[e[1]], sccId[e[2]]>> \in dag_added
        <5>1. sccId[e[1]] < sccId[e[2]]
          BY <4>1 DEF SCCInv, DagAscends
        <5> QED BY <1>1, <3>2, <5>1
      <4> QED BY <1>1, <3>2, <3>3, <4>1
    <3>5. sccId[a] <= sccId[e[1]]
      BY <2>2
    <3>6. sccId[a] \in Int /\ sccId[e[1]] \in Int /\ sccId[e[2]] \in Int
      BY <1>1, <3>2
    <3> QED BY <3>2, <3>4, <3>5, <3>6
  <2> HIDE DEF S
  <2>3. b \in S
    BY <2>1, <2>2, WayOut
  <2> QED BY <2>3 DEF S
<1>4. Reaches(u, v) /\ Reaches(v, u) => sccId[u] = sccId[v]
  BY <1>1, <1>3
<1> QED BY <1>2, <1>4

\* buildSCC.cpp:10-40: whatever the dependence graph and whatever the order in
\* which the searches take its edges, two instructions have one number when
\* the searches are done exactly if each depends on the other: the components
\* threadPartition deals are the strongly connected ones.
THEOREM ComponentsAreStronglyConnected == SCCSpec => []SccCorrect
  BY ReachTellsComponents, SCCAlways, ReachAlways, PTL

-----------------------------------------------------------------------------
(* threadPartition: what dealing guarantees for every graph of components,    *)
(* every latency and every number of threads.                               *)

\* The edges ascend, so a component without a thread has one among its
\* ancestors, or is itself, whose parents all have theirs.
GraphOK == /\ nodes \subseteq Nat
           /\ dag \subseteq nodes \X nodes
           /\ \A e \in dag : e[1] < e[2]

\* The queue holds, once each, the components that could be dealt next.
QueueOK == \A c \in nodes :
              /\ queue[c] \in {0, 1}
              /\ queue[c] = 1 <=> /\ assigned[c] = Unassigned
                                  /\ \A p \in Parents(dag, c) : assigned[p] # Unassigned

\* No component is in a thread not reached yet; a thread left empty is left
\* so because nothing was to be dealt.
ThreadOK == /\ \A c \in nodes : assigned[c] <= thread
            /\ \A t \in ThreadIds : t < thread /\ part(t) = {} =>
                  QueueEmpty /\ \A c \in nodes : assigned[c] < t
            /\ Dealt => QueueEmpty

PInv == PartTypeOK /\ GraphOK /\ QueueOK /\ ThreadOK /\ Upwards

LEMMA DealInit == PartInit => PInv
<1> SUFFICES ASSUME PartInit PROVE PInv
  OBVIOUS
<1> USE ThreadAssumption DEF PartInit, GraphInit, DealStart, Unassigned, ThreadIds
<1>1. GraphOK
  BY DEF GraphOK
<1>2. PartTypeOK
  <2>1. dag \subseteq nodes \X nodes
    BY <1>1 DEF GraphOK
  <2>2. assigned \in [nodes -> ThreadIds \cup {Unassigned}]
    OBVIOUS
  <2>3. queue \in [nodes -> Nat]
    OBVIOUS
  <2>4. thread \in 0 .. MAX_THREAD
    OBVIOUS
  <2> QED BY <2>1, <2>2, <2>3, <2>4 DEF PartTypeOK
<1>3. QueueOK
  BY DEF QueueOK, Parents
<1>4. ThreadOK
  BY DEF ThreadOK, Dealt
<1>5. Upwards
  BY DEF Upwards
<1> QED BY <1>1, <1>2, <1>3, <1>4, <1>5 DEF PInv

LEMMA DealStep == PInv /\ [DealNext]_partVars => PInv'
<1> SUFFICES ASSUME PInv, [DealNext]_partVars PROVE PInv'
  OBVIOUS
<1> USE ThreadAssumption DEF Unassigned, ThreadIds
<1>1. ASSUME NEW u \in nodes, Deal(u)
      PROVE  PInv'
  <2>1. /\ UNCHANGED <<nodes, dag, latency>>
        /\ assigned' = [assigned EXCEPT ![u] = thread]
        /\ assigned \in [nodes -> ThreadIds \cup {Unassigned}]
        /\ thread \in ThreadIds /\ thread < MAX_THREAD
        /\ thread' \in {thread, thread + 1} /\ thread' # MAX_THREAD
        /\ queue' = [c \in nodes |-> queue[c] - (IF c = u THEN 1 ELSE 0)
                                              + (IF c \in Ready(u) THEN 1 ELSE 0)]
    BY <1>1 DEF Deal, HasShare, graphVars, PInv, PartTypeOK
  <2>2. /\ queue[u] = 1 /\ assigned[u] = Unassigned
        /\ \A p \in Parents(dag, u) : assigned[p] # Unassigned
    BY <1>1 DEF Deal, PInv, QueueOK
  <2>3. GraphOK'
    BY <2>1 DEF PInv, GraphOK
  <2>4. QueueOK'
    <3> SUFFICES ASSUME NEW c \in nodes
                 PROVE  /\ queue'[c] \in {0, 1}
                        /\ queue'[c] = 1 <=>
                              /\ assigned'[c] = Unassigned
                              /\ \A p \in Parents(dag, c) : assigned'[p] # Unassigned
      BY <2>1 DEF QueueOK, Parents
    <3>1. c \in Ready(u) <=> /\ <<u, c>> \in dag /\ assigned'[c] = Unassigned
                             /\ \A p \in Parents(dag, c) : assigned'[p] >= 0
      BY <2>1 DEF Ready, Dependents, Parents
    <3>2. \A p \in nodes : assigned'[p] >= 0 <=> assigned'[p] # Unassigned
      BY <2>1
    <3>3. CASE c = u
      BY <2>1, <2>2, <3>1, <3>3
    <3>4. CASE c # u
      <4>1. assigned'[c] = assigned[c] /\ \A p \in nodes : p # u => assigned'[p] = assigned[p]
        BY <2>1, <3>4
      <4>2. u \in Parents(dag, c) <=> <<u, c>> \in dag
        BY DEF Parents
      <4>3. Parents(dag, c) \subseteq nodes
        BY DEF Parents
      <4>4. assigned'[u] # Unassigned
        BY <2>1
      <4>5. /\ queue[c] \in {0, 1}
            /\ queue[c] = 1 <=> /\ assigned[c] = Unassigned
                                /\ \A p \in Parents(dag, c) : assigned[p] # Unassigned
        BY DEF PInv, QueueOK
      <4>6. CASE c \in Ready(u)
        <5>1. queue[c] = 0
          BY <2>2, <3>1, <4>2, <4>5, <4>6
        <5>2. queue'[c] = 1
          BY <2>1, <3>4, <4>6, <5>1
        <5> QED BY <3>1, <3>2, <4>3, <4>6, <5>2
      <4>7. CASE c \notin Ready(u)
        <5>1. queue'[c] = queue[c]
          BY <2>1, <3>4, <4>5, <4>7
        <5>2. (\A p \in Parents(dag, c) : assigned'[p] # Unassigned) /\ assigned[c] = Unassigned
                 => u \notin Parents(dag, c)
          BY <3>1, <3>2, <4>1, <4>2, <4>3, <4>7
        <5> QED BY <4>1, <4>3, <4>4, <4>5, <5>1, <5>2
      <4> QED BY <4>6, <4>7
    <3> QED BY <3>3, <3>4
  <2>5. PartTypeOK'
    <3>2. queue' \in [nodes -> Nat]
      BY <2>1, <2>4 DEF QueueOK
    <3>3. assigned' \in [nodes -> ThreadIds \cup {Unassigned}]
      BY <2>1
    <3>4. thread' \in 0 .. MAX_THREAD
      BY <2>1
    <3>5. dag \subseteq nodes \X nodes
      BY DEF PInv, PartTypeOK
    <3> QED BY <2>1, <3>2, <3>3, <3>4, <3>5 DEF PartTypeOK
  <2>6. ThreadOK'
    <3>1. \A c \in nodes : assigned'[c] <= thread'
      BY <2>1 DEF PInv, ThreadOK
    <3>2. ASSUME NEW t \in ThreadIds, t < thread', part(t)' = {}
          PROVE  FALSE
      <4>1. t # thread
        BY <2>1, <3>2 DEF part
      <4>2. t < thread
        BY <2>1, <3>2, <4>1
      <4>3. part(t) = {}
        BY <2>1, <2>2, <3>2 DEF part
      <4> QED BY <2>2, <4>2, <4>3 DEF PInv, ThreadOK, QueueEmpty
    <3> QED BY <2>1, <3>1, <3>2 DEF ThreadOK, Dealt
  <2>7. Upwards'
    <3> SUFFICES ASSUME NEW e \in dag, assigned'[e[2]] # Unassigned
                 PROVE  assigned'[e[1]] # Unassigned /\ assigned'[e[1]] <= assigned'[e[2]]
      BY <2>1 DEF Upwards
    <3>1. e[1] \in nodes /\ e[2] \in nodes /\ e = <<e[1], e[2]>> /\ e[1] # e[2]
      <4>1. e \in nodes \X nodes /\ e[1] < e[2] /\ nodes \subseteq Nat
        BY DEF PInv, GraphOK
      <4>2. e[1] \in nodes /\ e[2] \in nodes /\ e = <<e[1], e[2]>>
        BY <4>1
      <4>3. \A a, b \in Nat : a < b => a # b
        OBVIOUS
      <4>4. e[1] \in Nat /\ e[2] \in Nat
        BY <4>1, <4>2
      <4>5. e[1] # e[2]
        BY <4>1, <4>3, <4>4
      <4> QED BY <4>2, <4>5
    <3>2. CASE e[2] = u
      <4>1. e[1] \in Parents(dag, u)
        BY <3>1, <3>2 DEF Parents
      <4>2. assigned'[e[1]] = assigned[e[1]] /\ assigned'[e[2]] = thread
        BY <2>1, <3>1, <3>2
      <4> QED BY <2>2, <3>1, <4>1, <4>2 DEF PInv, ThreadOK
    <3>3. CASE e[2] # u
      <4>1. assigned[e[2]] # Unassigned /\ assigned'[e[2]] = assigned[e[2]]
        BY <2>1, <3>1, <3>3
      <4>2. e[1] # u
        BY <2>2, <4>1 DEF PInv, Upwards
      <4> QED BY <2>1, <3>1, <4>1, <4>2 DEF PInv, Upwards
    <3> QED BY <3>2, <3>3
  <2> QED BY <2>3, <2>4, <2>5, <2>6, <2>7 DEF PInv
<1>2. CASE NextThread
  <2>1. /\ UNCHANGED <<nodes, dag, latency, assigned, est, queue>>
        /\ thread \in ThreadIds /\ thread' = thread + 1 /\ QueueEmpty
    BY <1>2 DEF NextThread, graphVars, PInv, PartTypeOK
  <2>2. PartTypeOK' /\ GraphOK' /\ Upwards'
    BY <2>1 DEF PInv, PartTypeOK, GraphOK, Upwards
  <2>3. QueueOK'
    BY <2>1 DEF PInv, QueueOK, Parents
  <2>4. QueueEmpty'
    BY <2>1 DEF QueueEmpty
  <2>5. \A t \in ThreadIds : part(t)' = part(t)
    BY <2>1 DEF part
  <2>6. ASSUME NEW t \in ThreadIds, t < thread', part(t) = {}, NEW c \in nodes
        PROVE  assigned[c] < t
    <3>1. CASE t = thread
      <4>1. assigned[c] # t
        BY <2>6 DEF part
      <4>2. assigned[c] <= thread /\ assigned[c] \in ThreadIds \cup {Unassigned}
        BY DEF PInv, ThreadOK, PartTypeOK
      <4> QED BY <3>1, <4>1, <4>2
    <3>2. CASE t # thread
      BY <2>1, <2>6, <3>2 DEF PInv, ThreadOK
    <3> QED BY <3>1, <3>2
  <2>7. \A c \in nodes : assigned[c] <= thread'
    BY <2>1 DEF PInv, ThreadOK, PartTypeOK
  <2> QED BY <2>1, <2>2, <2>3, <2>4, <2>5, <2>6, <2>7 DEF PInv, ThreadOK
<1>3. CASE UNCHANGED partVars
  BY <1>3 DEF partVars, graphVars, dealVars, PInv, PartTypeOK, GraphOK, QueueOK, ThreadOK,
              Upwards, Parents, part, QueueEmpty, Dealt
<1> QED BY <1>1, <1>2, <1>3 DEF DealNext

LEMMA DealAlways == PartSpec => []PInv
  BY DealInit, DealStep, PTL DEF PartSpec

\* With nothing left to deal, every component has its thread: the least one
\* without would have to be in the queue.
LEMMA EmptyMeansAssigned ==
  ASSUME PInv, QueueEmpty
  PROVE  \A c \in nodes : assigned[c] # Unassigned
<1> DEFINE Left == {c \in nodes : assigned[c] = Unassigned}
<1>1. SUFFICES ASSUME Left # {} PROVE FALSE
  OBVIOUS
<1>2. PICK c \in Left : \A d \in Left : c <= d
  <2>1. Left \subseteq Nat
    BY DEF PInv, GraphOK
  <2> HIDE DEF Left
  <2> QED BY <1>1, <2>1, SmallestMember
<1>3. ASSUME NEW p \in Parents(dag, c)
      PROVE  assigned[p] # Unassigned
  <2>1. p \in nodes /\ p < c /\ p \in Nat /\ c \in Nat
    BY DEF Parents, PInv, GraphOK
  <2> QED BY <1>2, <2>1
<1>4. queue[c] = 1
  BY <1>3 DEF PInv, QueueOK
<1> QED BY <1>4 DEF QueueEmpty

\* A component never comes before one it depends on
\* (CodeTransformation.cpp:578-579).
THEOREM DealsUpwards == PartSpec => []Upwards
<1>1. PInv => Upwards
  BY DEF PInv
<1> QED BY <1>1, DealAlways, PTL

LEMMA DealtMeansAssigned == PInv => AllAssigned
  BY EmptyMeansAssigned DEF PInv, ThreadOK, PartTypeOK, AllAssigned

\* Every component is dealt to some thread (threadPartition.cpp:82-88).
THEOREM DealsAll == PartSpec => []AllAssigned
  BY DealtMeansAssigned, DealAlways, PTL

\* No component is queued twice (threadPartition.cpp:54-68).
THEOREM DealsOnce == PartSpec => []QueuedOnce
<1>1. PInv => QueuedOnce
  BY DEF PInv, QueueOK, QueuedOnce
<1> QED BY <1>1, DealAlways, PTL

\* The threads without a component are the last (threadPartition.cpp:71-74).
THEOREM DealsToTheFirst == PartSpec => []EmptyLast
<1>1. ASSUME PInv PROVE EmptyLast
  <2> SUFFICES ASSUME Dealt, NEW t1 \in ThreadIds, NEW t2 \in ThreadIds,
                      t1 < t2, part(t1) = {}
               PROVE  part(t2) = {}
    BY DEF EmptyLast
  <2>1. \A c \in nodes : assigned[c] < t1
    BY <1>1, ThreadAssumption DEF PInv, ThreadOK, Dealt, ThreadIds
  <2>2. \A c \in nodes : assigned[c] \in ThreadIds \cup {Unassigned}
    BY <1>1 DEF PInv, PartTypeOK
  <2> QED BY <2>1, <2>2, ThreadAssumption DEF part, ThreadIds, Unassigned
<1> QED BY <1>1, DealAlways, PTL

-----------------------------------------------------------------------------
(* Sums over finite sets do not depend on the order of the elements         *)

Some(s) == CHOOSE x \in s : TRUE

\* g holds the sums over the subsets of S as SumFunctionOnSet finds them.
Sums(S, f, g) == g = [s \in SUBSET S |-> IF s = {} THEN 0 ELSE f[Some(s)] + g[s \ {Some(s)}]]

LEMMA SumsFacts ==
  ASSUME NEW S, NEW f, NEW g, Sums(S, f, g)
  PROVE  /\ g[{}] = 0
         /\ \A s \in SUBSET S : s # {} => /\ Some(s) \in s
                                          /\ g[s] = f[Some(s)] + g[s \ {Some(s)}]
<1>1. \A s : s # {} => Some(s) \in s
  BY DEF Some
<1>2. \A s \in SUBSET S : g[s] = IF s = {} THEN 0 ELSE f[Some(s)] + g[s \ {Some(s)}]
  BY DEF Sums
<1> QED BY <1>1, <1>2

LEMMA Smaller == ASSUME NEW s, IsFiniteSet(s), NEW x \in s
                 PROVE  /\ IsFiniteSet(s \ {x}) /\ Cardinality(s) \in Nat
                        /\ Cardinality(s \ {x}) \in Nat
                        /\ Cardinality(s \ {x}) = Cardinality(s) - 1
  BY FS_RemoveElement, FS_CardinalityType

LEMMA SumsExist ==
  ASSUME NEW S, IsFiniteSet(S), NEW f, \A x \in S : f[x] \in Int
  PROVE  \E g \in [SUBSET S -> Int] : Sums(S, f, g)
<1> DEFINE X == [SUBSET S -> Int]
           m == Cardinality(S)
           More(h) == [s \in SUBSET S |-> IF s = {} THEN 0 ELSE f[Some(s)] + h[s \ {Some(s)}]]
           F == [n \in Nat |-> [h \in X |-> More(h)]]
           z == [s \in SUBSET S |-> 0]
<1>1. m \in Nat /\ z \in X
  BY FS_CardinalityType
<1>2. \A s : s # {} => Some(s) \in s
  BY DEF Some
<1>3. ASSUME NEW h \in X PROVE More(h) \in X
  <2>1. ASSUME NEW s \in SUBSET S, s # {} PROVE f[Some(s)] + h[s \ {Some(s)}] \in Int
    <3>1. Some(s) \in S /\ s \ {Some(s)} \in SUBSET S
      BY <1>2, <2>1
    <3>2. f[Some(s)] \in Int /\ h[s \ {Some(s)}] \in Int
      BY <3>1
    <3> QED BY <3>2
  <2> QED BY <2>1
<1> HIDE DEF More
<1>4. F \in [Nat -> [X -> X]]
  BY <1>3
<1>5. PICK G \in [0 .. m -> X] : Follows(G, m, z, F)
  <2> HIDE DEF X, F, m, z
  <2> QED BY <1>1, <1>4, RecursionExists
<1>6. /\ G[0] = z
      /\ \A n \in 1 .. m : G[n] = More(G[n - 1])
  <2>1. \A n \in 0 .. m : G[n] = IF n = 0 THEN z ELSE F[n][G[n - 1]]
    BY <1>5 DEF Follows
  <2>2. ASSUME NEW n \in 1 .. m PROVE G[n] = More(G[n - 1])
    <3>1. n \in 0 .. m /\ n \in Nat /\ n # 0 /\ n - 1 \in 0 .. m
      BY <1>1
    <3>2. G[n - 1] \in X
      BY <3>1
    <3> HIDE DEF X
    <3> QED BY <2>1, <3>1, <3>2
  <2>3. G[0] = z
    <3>1. 0 \in 0 .. m
      BY <1>1
    <3> HIDE DEF z, F, m
    <3> QED BY <2>1, <3>1
  <2> QED BY <2>2, <2>3
<1> DEFINE g == [s \in SUBSET S |-> G[Cardinality(s)][s]]
<1>7. ASSUME NEW s \in SUBSET S
      PROVE  IsFiniteSet(s) /\ Cardinality(s) \in 0 .. m
  BY <1>1, FS_Subset, FS_CardinalityType
<1>8. g \in [SUBSET S -> Int]
  <2>1. ASSUME NEW s \in SUBSET S PROVE G[Cardinality(s)][s] \in Int
    BY <1>5, <1>7
  <2> QED BY <2>1
<1>9. ASSUME NEW s \in SUBSET S
      PROVE  g[s] = IF s = {} THEN 0 ELSE f[Some(s)] + g[s \ {Some(s)}]
  <2>1. CASE s = {}
    BY <1>6, <2>1, FS_EmptySet
  <2>2. CASE s # {}
    <3> DEFINE r == s \ {Some(s)}
    <3>1. Some(s) \in s /\ r \in SUBSET S
      BY <1>2, <2>2
    <3>2. Cardinality(s) \in 1 .. m /\ Cardinality(r) = Cardinality(s) - 1
      <4>1. Cardinality(s) \in 0 .. m /\ IsFiniteSet(s)
        BY <1>7
      <4>2. Cardinality(r) \in Nat /\ Cardinality(r) = Cardinality(s) - 1
        BY <3>1, <4>1, Smaller
      <4> HIDE DEF r, m
      <4> QED BY <1>1, <4>1, <4>2
    <3>3. G[Cardinality(s)] = More(G[Cardinality(s) - 1])
      BY <1>6, <3>2
    <3>4. G[Cardinality(s)][s] = f[Some(s)] + G[Cardinality(s) - 1][r]
      BY <2>2, <3>3 DEF More
    <3>5. g[s] = G[Cardinality(s)][s] /\ g[r] = G[Cardinality(r)][r]
      BY <3>1
    <3> QED BY <2>2, <3>2, <3>4, <3>5
  <2> QED BY <2>1, <2>2
<1>10. Sums(S, f, g)
  <2>1. g = [s \in SUBSET S |-> g[s]]
    OBVIOUS
  <2> HIDE DEF g
  <2> QED BY <1>9, <2>1 DEF Sums
<1> QED BY <1>8, <1>10

\* Two of them agree where both say something.
LEMMA SumsAgree ==
  ASSUME NEW S1, NEW S2, NEW f, NEW g, NEW h, Sums(S1, f, g), Sums(S2, f, h),
         NEW s \in (SUBSET S1) \cap (SUBSET S2), IsFiniteSet(s)
  PROVE  g[s] = h[s]
<1> DEFINE Good == {n \in Nat : \A t \in (SUBSET S1) \cap (SUBSET S2) :
                                   IsFiniteSet(t) /\ Cardinality(t) = n => g[t] = h[t]}
<1>1. 0 \in Good
  BY SumsFacts, FS_EmptySet
<1>2. ASSUME NEW n \in Nat, n \in Good PROVE n + 1 \in Good
  <2> SUFFICES ASSUME NEW t \in (SUBSET S1) \cap (SUBSET S2), IsFiniteSet(t), Cardinality(t) = n + 1
               PROVE  g[t] = h[t]
    OBVIOUS
  <2>1. t # {}
    BY FS_EmptySet
  <2>2. Some(t) \in t /\ g[t] = f[Some(t)] + g[t \ {Some(t)}] /\ h[t] = f[Some(t)] + h[t \ {Some(t)}]
    <3>1. Some(t) \in t /\ g[t] = f[Some(t)] + g[t \ {Some(t)}]
      <4>1. \A v \in SUBSET S1 : v # {} => Some(v) \in v /\ g[v] = f[Some(v)] + g[v \ {Some(v)}]
        BY SumsFacts
      <4> QED BY <2>1, <4>1
    <3>2. h[t] = f[Some(t)] + h[t \ {Some(t)}]
      <4>1. \A v \in SUBSET S2 : v # {} => h[v] = f[Some(v)] + h[v \ {Some(v)}]
        BY SumsFacts
      <4> QED BY <2>1, <4>1
    <3> QED BY <3>1, <3>2
  <2>3. IsFiniteSet(t \ {Some(t)}) /\ Cardinality(t \ {Some(t)}) = n
    BY <2>2, Smaller
  <2>4. g[t \ {Some(t)}] = h[t \ {Some(t)}]
    BY <1>2, <2>3
  <2> QED BY <2>2, <2>4
<1> HIDE DEF Good
<1>3. Cardinality(s) \in Good
  <2>1. Cardinality(s) \in Nat
    BY FS_CardinalityType
  <2>2. 0 .. Cardinality(s) \subseteq Good
    <3>1. \A n \in 0 .. Cardinality(s) - 1 : n \in Nat
      BY <2>1
    <3> QED BY <1>1, <1>2, <2>1, <3>1, UpTo
  <2> QED BY <2>1, <2>2
<1> QED BY <1>3 DEF Good

\* Any element may be the first.
AnyFirst(S, f, g) == \A s \in SUBSET S : \A x \in s : g[s] = f[x] + g[s \ {x}]

LEMMA SumsRemove ==
  ASSUME NEW S, IsFiniteSet(S), NEW f, \A x \in S : f[x] \in Int
  PROVE  \A g \in [SUBSET S -> Int] : Sums(S, f, g) => AnyFirst(S, f, g)
<1> TAKE g \in [SUBSET S -> Int]
<1> HAVE Sums(S, f, g)
<1> DEFINE Good == {n \in Nat : \A t \in SUBSET S :
                                   Cardinality(t) = n => \A y \in t : g[t] = f[y] + g[t \ {y}]}
<1>0. \A t \in SUBSET S : IsFiniteSet(t) /\ Cardinality(t) \in Nat /\ g[t] \in Int
  BY FS_Subset, FS_CardinalityType
<1>1. 0 \in Good
  BY <1>0, FS_EmptySet
<1>2. ASSUME NEW n \in Nat, n \in Good PROVE n + 1 \in Good
  <2> SUFFICES ASSUME NEW t \in SUBSET S, Cardinality(t) = n + 1, NEW y \in t
               PROVE  g[t] = f[y] + g[t \ {y}]
    OBVIOUS
  <2> DEFINE z == Some(t)
  <2>1. z \in t /\ g[t] = f[z] + g[t \ {z}]
    <3>1. \A v \in SUBSET S : v # {} => Some(v) \in v /\ g[v] = f[Some(v)] + g[v \ {Some(v)}]
      BY SumsFacts
    <3> QED BY <3>1
  <2> HIDE DEF z
  <2>2. CASE y = z
    BY <2>1, <2>2
  <2>3. CASE y # z
    <3>1. Cardinality(t \ {z}) = n /\ Cardinality(t \ {y}) = n
      BY <1>0, <2>1, Smaller
    <3>2. t \ {z} \in SUBSET S /\ t \ {y} \in SUBSET S /\ (t \ {z}) \ {y} \in SUBSET S
          /\ (t \ {z}) \ {y} = (t \ {y}) \ {z} /\ y \in t \ {z} /\ z \in t \ {y}
      BY <2>1, <2>3
    <3>3. g[t \ {z}] = f[y] + g[(t \ {z}) \ {y}]
      BY <1>2, <3>1, <3>2
    <3>4. g[t \ {y}] = f[z] + g[(t \ {y}) \ {z}]
      BY <1>2, <3>1, <3>2
    <3>5. f[y] \in Int /\ f[z] \in Int /\ g[(t \ {z}) \ {y}] \in Int
      BY <1>0, <2>1, <3>2
    <3>6. g[(t \ {y}) \ {z}] = g[(t \ {z}) \ {y}]
      BY <3>2
    <3> QED BY <2>1, <3>3, <3>4, <3>5, <3>6
  <2> QED BY <2>2, <2>3
<1> HIDE DEF Good
<1> SUFFICES ASSUME NEW s \in SUBSET S PROVE \A x \in s : g[s] = f[x] + g[s \ {x}]
  BY DEF AnyFirst
<1>3. Cardinality(s) \in Good
  <2>1. Cardinality(s) \in Nat
    BY <1>0
  <2>2. 0 .. Cardinality(s) \subseteq Good
    <3>1. \A n \in 0 .. Cardinality(s) - 1 : n \in Nat
      BY <2>1
    <3> QED BY <1>1, <1>2, <2>1, <3>1, UpTo
  <2> QED BY <2>1, <2>2
<1> QED BY <1>3 DEF Good

LEMMA SumIsOneOf ==
  ASSUME NEW S, IsFiniteSet(S), NEW f, \A x \in S : f[x] \in Int
  PROVE  \E g \in [SUBSET S -> Int] : Sums(S, f, g) /\ SumFunctionOnSet(f, S) = g[S]
<1>1. PICK g \in [SUBSET S -> Int] : Sums(S, f, g)
  BY SumsExist
<1>2. SumFunctionOnSet(f, S) = (CHOOSE h : Sums(S, f, h))[S]
  BY DEF SumFunctionOnSet, FoldFunctionOnSet, MapThenFoldSet, Sums, Some
<1> DEFINE h == CHOOSE h : Sums(S, f, h)
<1>3. Sums(S, f, h)
  BY <1>1
<1> HIDE DEF h
<1>4. g[S] = h[S]
  <2>1. S \in (SUBSET S) \cap (SUBSET S)
    OBVIOUS
  <2> QED BY <1>1, <1>3, <2>1, SumsAgree
<1> QED BY <1>1, <1>2, <1>4 DEF h

LEMMA SumOfNone == ASSUME NEW f PROVE SumFunctionOnSet(f, {}) = 0
<1>1. PICK g \in [SUBSET {} -> Int] : Sums({}, f, g) /\ SumFunctionOnSet(f, {}) = g[{}]
  BY FS_EmptySet, SumIsOneOf
<1> QED BY <1>1, SumsFacts

LEMMA SumOfOneMore ==
  ASSUME NEW S, IsFiniteSet(S), NEW x, x \notin S, NEW f, f[x] \in Int, \A y \in S : f[y] \in Int
  PROVE  /\ SumFunctionOnSet(f, S) \in Int
         /\ SumFunctionOnSet(f, S \cup {x}) = SumFunctionOnSet(f, S) + f[x]
<1> PICK T : T = S \cup {x}
  OBVIOUS
<1>1. IsFiniteSet(T) /\ \A y \in T : f[y] \in Int
  BY FS_AddElement
<1>2. PICK g \in [SUBSET S -> Int] : Sums(S, f, g) /\ SumFunctionOnSet(f, S) = g[S]
  BY SumIsOneOf
<1>3. PICK h \in [SUBSET T -> Int] : Sums(T, f, h) /\ SumFunctionOnSet(f, T) = h[T]
  BY <1>1, SumIsOneOf
<1>4. T \ {x} = S /\ S \in SUBSET T /\ S \in SUBSET S /\ T \in SUBSET T /\ x \in T
  OBVIOUS
<1>5. h[T] = f[x] + h[T \ {x}]
  <2>1. h \in [SUBSET T -> Int] /\ Sums(T, f, h)
    BY <1>3
  <2>2. AnyFirst(T, f, h)
    BY <1>1, <2>1, SumsRemove
  <2> QED BY <1>4, <2>2 DEF AnyFirst
<1>6. g[S] = h[S]
  <2>1. S \in (SUBSET S) \cap (SUBSET T)
    BY <1>4
  <2>2. Sums(S, f, g) /\ Sums(T, f, h)
    BY <1>2, <1>3
  <2> QED BY <2>1, <2>2, SumsAgree
<1>7. g[S] \in Int /\ f[x] \in Int
  BY <1>2, <1>4
<1>8. SumFunctionOnSet(f, S) = g[S]
  BY <1>2
<1>9. SumFunctionOnSet(f, T) = h[T]
  BY <1>3
<1>10. h[T] = g[S] + f[x]
  <2>1. h[T] = f[x] + h[S]
    BY <1>4, <1>5
  <2> QED BY <2>1, <1>6, <1>7
<1> QED BY <1>7, <1>8, <1>9, <1>10

LEMMA SumOfNats ==
  ASSUME NEW S, IsFiniteSet(S), NEW f, \A x \in S : f[x] \in Nat
  PROVE  SumFunctionOnSet(f, S) \in Nat
<1>1. PICK g \in [SUBSET S -> Int] : Sums(S, f, g) /\ SumFunctionOnSet(f, S) = g[S]
  <2>1. \A x \in S : f[x] \in Int
    OBVIOUS
  <2> QED BY <2>1, SumIsOneOf
<1> DEFINE Good == {n \in Nat : \A t \in SUBSET S : Cardinality(t) = n => g[t] \in Nat}
<1>2. \A t \in SUBSET S : t # {} => Some(t) \in t /\ g[t] = f[Some(t)] + g[t \ {Some(t)}]
  <2>1. Sums(S, f, g)
    BY <1>1
  <2> QED BY <2>1, SumsFacts
<1>3. g[{}] = 0
  BY <1>1, SumsFacts
<1>4. \A t \in SUBSET S : IsFiniteSet(t) /\ Cardinality(t) \in Nat
  BY FS_Subset, FS_CardinalityType
<1>5. 0 \in Good
  BY <1>3, <1>4, FS_EmptySet
<1>6. ASSUME NEW n \in Nat, n \in Good PROVE n + 1 \in Good
  <2> SUFFICES ASSUME NEW t \in SUBSET S, Cardinality(t) = n + 1
               PROVE  g[t] \in Nat
    OBVIOUS
  <2>1. t # {}
    <3>1. n + 1 # 0
      OBVIOUS
    <3> QED BY <3>1, FS_EmptySet
  <2> PICK z : z = Some(t)
    OBVIOUS
  <2>2. z \in t /\ g[t] = f[z] + g[t \ {z}]
    BY <1>2, <2>1
  <2>3. t \ {z} \in SUBSET S /\ Cardinality(t \ {z}) = n
    BY <1>4, <2>2, Smaller
  <2>4. g[t \ {z}] \in Nat
    BY <1>6, <2>3
  <2>5. f[z] \in Nat
    BY <2>2
  <2> QED BY <2>2, <2>4, <2>5
<1> HIDE DEF Good
<1>7. Cardinality(S) \in Good
  <2>1. Cardinality(S) \in Nat
    BY FS_CardinalityType
  <2>2. 0 .. Cardinality(S) \subseteq Good
    <3>1. \A n \in 0 .. Cardinality(S) - 1 : n \in Nat
      BY <2>1
    <3> QED BY <1>5, <1>6, <2>1, <3>1, UpTo
  <2> QED BY <2>1, <2>2
<1>8. g[S] \in Nat
  BY <1>7 DEF Good
<1> QED BY <1>1, <1>8

-----------------------------------------------------------------------------
(* The shares                                                               *)

Latency == /\ IsFiniteSet(nodes)
           /\ \A c \in nodes : latency[c] \in Int
           /\ DOMAIN latency = nodes
           /\ DOMAIN est = ThreadIds

\* A thread left without its share was left because nothing was to be dealt;
\* one that has it got it with one of its components; the one being filled
\* does not have it yet.
FairInv ==
    /\ Latency
    /\ \A t \in ThreadIds : est[t] = SumFunctionOnSet(latency, part(t))
    /\ \A t \in ThreadIds \ {MAX_THREAD - 1} :
          /\ t < thread /\ est[t] < Share => QueueEmpty /\ \A c \in nodes : assigned[c] <= t
          /\ t < thread /\ est[t] >= Share /\ Share > 0 =>
                \E c \in part(t) : est[t] - latency[c] < Share
          /\ t >= thread /\ Share > 0 => est[t] < Share

LEMMA PartIsFinite == ASSUME Latency, NEW t PROVE IsFiniteSet(part(t))
<1>1. part(t) \in SUBSET nodes
  BY DEF part
<1> QED BY <1>1, FS_Subset DEF Latency

LEMMA SumIsInt == ASSUME Latency, NEW S \in SUBSET nodes
                  PROVE  SumFunctionOnSet(latency, S) \in Int
<1>1. IsFiniteSet(S) /\ \A c \in S : latency[c] \in Int
  BY FS_Subset DEF Latency
<1>2. PICK g \in [SUBSET S -> Int] : SumFunctionOnSet(latency, S) = g[S]
  BY <1>1, SumIsOneOf
<1> QED BY <1>2

LEMMA ShareIsInt == ASSUME Latency PROVE Share \in Int
<1>1. SumFunction(latency) \in Int
  BY SumIsInt DEF SumFunction, Latency
<1> QED BY <1>1, ThreadAssumption DEF Share

\* What threadPartition is called with, whatever the bounds.
Called == /\ \E n \in Nat \ {0} : nodes = 0 .. n - 1
          /\ dag \subseteq {e \in nodes \X nodes : e[1] < e[2]}
          /\ latency \in [nodes -> Nat]
          /\ DealStart

LEMMA FairStart == Called => FairInv
<1> SUFFICES ASSUME Called PROVE FairInv
  OBVIOUS
<1> USE ThreadAssumption
<1>1. Latency
  <2>1. PICK n \in Nat \ {0} : nodes = 0 .. n - 1
    BY DEF Called
  <2>2. IsFiniteSet(0 .. n - 1)
    BY FS_Interval
  <2>3. latency \in [nodes -> Nat] /\ DOMAIN est = ThreadIds
    BY DEF Called, DealStart
  <2>4. \A c \in nodes : latency[c] \in Int
    BY <2>3
  <2> QED BY <2>1, <2>2, <2>3, <2>4 DEF Latency
<1>2. \A t \in ThreadIds : part(t) = {}
  BY DEF Called, DealStart, part, Unassigned, ThreadIds
<1>3. \A t \in ThreadIds : est[t] = 0 /\ ~(t < thread)
  BY DEF Called, DealStart, ThreadIds
<1>4. Share \in Int
  BY <1>1, ShareIsInt
<1>5. \A t \in ThreadIds : est[t] = SumFunctionOnSet(latency, part(t))
  BY <1>2, <1>3, SumOfNone
<1> QED BY <1>1, <1>3, <1>4, <1>5 DEF FairInv

LEMMA PartInitIsCalled == PartInit => Called
<1> SUFFICES ASSUME PartInit PROVE Called
  OBVIOUS
<1>1. \A n \in 1 .. MaxNodes : n \in Nat \ {0}
  BY ThreadAssumption
<1>2. [nodes -> Latencies] \subseteq [nodes -> Nat]
  BY ThreadAssumption
<1> QED BY <1>1, <1>2 DEF PartInit, GraphInit, Called

LEMMA DealIsFair == ASSUME PInv, FairInv, NEW u \in nodes, Deal(u) PROVE FairInv'
<1> USE ThreadAssumption
<1>1. /\ UNCHANGED <<nodes, dag, latency>>
      /\ thread \in ThreadIds
      /\ assigned' = [assigned EXCEPT ![u] = thread]
      /\ est' = [est EXCEPT ![thread] = @ + latency[u]]
      /\ thread' = IF HasShare THEN thread + 1 ELSE thread
      /\ assigned \in [nodes -> ThreadIds \cup {Unassigned}]
      /\ assigned[u] = Unassigned /\ queue[u] > 0
  BY DEF Deal, graphVars, PInv, PartTypeOK, QueueOK, ThreadIds
<1>2. Latency /\ Latency' /\ Share' = Share /\ Share \in Int
  <2>1. Latency /\ Latency'
    BY <1>1 DEF FairInv, Latency
  <2>2. Share' = Share
    BY <1>1 DEF Share
  <2> QED BY <2>1, <2>2, ShareIsInt
<1> PICK k \in ThreadIds : k = thread
  BY <1>1
<1>3. /\ part(k)' = part(k) \cup {u} /\ u \notin part(k)
      /\ \A t \in ThreadIds \ {k} : part(t)' = part(t)
  <2>1. \A c \in nodes : assigned'[c] = IF c = u THEN k ELSE assigned[c]
    BY <1>1
  <2>2. \A t \in ThreadIds : t # Unassigned
    BY DEF ThreadIds, Unassigned
  <2>3. \A t \in ThreadIds : part(t)' = {c \in nodes : assigned'[c] = t}
    BY <1>1 DEF part
  <2>4. \A t \in ThreadIds : part(t) = {c \in nodes : assigned[c] = t}
    BY DEF part
  <2>5. u \notin part(k)
    BY <1>1, <2>2, <2>4
  <2>6. part(k)' = part(k) \cup {u}
    <3>1. \A c \in nodes : assigned'[c] = k <=> c = u \/ assigned[c] = k
      BY <2>1
    <3> QED BY <2>3, <2>4, <3>1
  <2>7. ASSUME NEW t \in ThreadIds \ {k} PROVE part(t)' = part(t)
    <3>1. assigned[u] # t /\ assigned'[u] # t
      BY <1>1, <2>1, <2>2
    <3>2. \A c \in nodes : assigned'[c] = t <=> assigned[c] = t
      BY <2>1, <3>1
    <3> QED BY <2>3, <2>4, <3>2
  <2> QED BY <2>5, <2>6, <2>7
<1>4. /\ est'[k] = est[k] + latency[u]
      /\ \A t \in ThreadIds \ {k} : est'[t] = est[t]
  BY <1>1, <1>2 DEF Latency
<1>5. \A t \in ThreadIds : est[t] = SumFunctionOnSet(latency, part(t)) /\ est[t] \in Int
  <2>1. \A t : part(t) \in SUBSET nodes
    BY DEF part
  <2> QED BY <1>2, <2>1, SumIsInt DEF FairInv
<1>6. \A t \in ThreadIds : est'[t] = SumFunctionOnSet(latency', part(t)')
  <2> SUFFICES ASSUME NEW t \in ThreadIds PROVE est'[t] = SumFunctionOnSet(latency, part(t)')
    BY <1>1
  <2>1. CASE t = k
    <3>1. IsFiniteSet(part(k)) /\ \A y \in part(k) : latency[y] \in Int
      BY <1>2, PartIsFinite DEF part, Latency
    <3>2. latency[u] \in Int
      BY <1>2 DEF Latency
    <3>3. SumFunctionOnSet(latency, part(k) \cup {u})
             = SumFunctionOnSet(latency, part(k)) + latency[u]
      BY <1>3, <3>1, <3>2, SumOfOneMore
    <3> QED BY <1>1, <1>3, <1>4, <1>5, <2>1, <3>3
  <2>2. CASE t # k
    BY <1>3, <1>4, <1>5, <2>2
  <2> QED BY <2>1, <2>2
<1>7. ASSUME NEW t \in ThreadIds \ {MAX_THREAD - 1}
      PROVE  /\ ~(t < thread' /\ est'[t] < Share)
             /\ t < thread' /\ est'[t] >= Share /\ Share > 0 =>
                   \E c \in part(t)' : est'[t] - latency[c] < Share
             /\ t >= thread' /\ Share > 0 => est'[t] < Share
  <2>1. thread \in Int /\ t \in Int /\ latency[u] \in Int /\ est[t] \in Int /\ est[thread] \in Int
    BY <1>1, <1>2, <1>5 DEF Latency, ThreadIds
  <2>2. ~QueueEmpty
    BY <1>1 DEF QueueEmpty
  <2>3. HasShare <=> est'[thread] >= Share /\ thread # MAX_THREAD - 1
    BY <1>2 DEF HasShare
  <2>4. CASE t = thread
    <3>1. Share > 0 => est[thread] < Share
      BY <2>1, <2>4 DEF FairInv
    <3>2. CASE HasShare
      <4>1. thread' = thread + 1 /\ est'[thread] >= Share
        BY <1>1, <2>3, <3>2
      <4>2. u \in part(t)' /\ (Share > 0 => est'[t] - latency[u] < Share)
        BY <1>2, <1>3, <1>4, <2>1, <2>4, <3>1
      <4> QED BY <1>2, <1>4, <2>1, <2>4, <4>1, <4>2
    <3>3. CASE ~HasShare
      <4>1. thread' = thread /\ ~(est'[thread] >= Share)
        BY <1>1, <2>3, <2>4, <3>3
      <4> QED BY <1>2, <1>4, <2>1, <2>4, <4>1
    <3> QED BY <3>2, <3>3
  <2>5. CASE t < thread
    <3>1. est'[t] = est[t] /\ part(t)' = part(t)
      BY <1>3, <1>4, <2>1, <2>5
    <3>2. ~(est[t] < Share)
      BY <2>2, <2>5 DEF FairInv
    <3>3. est[t] >= Share /\ Share > 0 => \E c \in part(t) : est[t] - latency[c] < Share
      BY <2>5 DEF FairInv
    <3>4. ~(t >= thread')
      BY <1>1, <2>1, <2>5
    <3> QED BY <3>1, <3>2, <3>3, <3>4
  <2>6. CASE t > thread
    <3>1. est'[t] = est[t]
      BY <1>4, <2>1, <2>6
    <3>2. Share > 0 => est[t] < Share
      BY <2>1, <2>6 DEF FairInv
    <3>3. ~(t < thread')
      BY <1>1, <2>1, <2>6
    <3> QED BY <3>1, <3>2, <3>3
  <2> QED BY <2>1, <2>4, <2>5, <2>6
<1> QED BY <1>1, <1>2, <1>6, <1>7 DEF FairInv

LEMMA NextIsFair == ASSUME PInv, FairInv, NextThread PROVE FairInv'
<1>1. /\ UNCHANGED <<nodes, dag, latency, assigned, est, queue>>
      /\ thread \in Int /\ thread' = thread + 1 /\ QueueEmpty
  BY ThreadAssumption DEF NextThread, graphVars, PInv, PartTypeOK
<1>2. /\ Latency' /\ QueueEmpty' /\ Share' = Share /\ Share \in Int
      /\ \A t : part(t)' = part(t)
  <2>1. Share \in Int
    BY ShareIsInt DEF FairInv
  <2> QED BY <1>1, <2>1 DEF FairInv, Latency, QueueEmpty, Share, part
<1>3. \A c \in nodes : assigned[c] <= thread
  BY DEF PInv, ThreadOK
<1>4. ASSUME NEW t \in ThreadIds \ {MAX_THREAD - 1}
      PROVE  /\ t < thread' /\ est[t] < Share => \A c \in nodes : assigned[c] <= t
             /\ t < thread' /\ est[t] >= Share /\ Share > 0 =>
                   \E c \in part(t) : est[t] - latency[c] < Share
             /\ t >= thread' /\ Share > 0 => est[t] < Share
  <2>1. t \in Int
    BY ThreadAssumption DEF ThreadIds
  <2>2. est[t] \in Int
    <3>1. part(t) \in SUBSET nodes
      BY DEF part
    <3> QED BY <3>1, SumIsInt DEF FairInv
  <2>3. CASE t = thread
    <3>1. Share > 0 => est[t] < Share
      BY <2>1, <2>3 DEF FairInv
    <3> QED BY <1>1, <1>2, <1>3, <2>1, <2>2, <2>3, <3>1
  <2>4. CASE t < thread
    BY <1>1, <2>1, <2>4 DEF FairInv
  <2>5. CASE t > thread
    <3>1. Share > 0 => est[t] < Share
      BY <2>1, <2>5, <1>1 DEF FairInv
    <3> QED BY <1>1, <2>1, <2>5, <3>1
  <2> QED BY <1>1, <2>1, <2>3, <2>4, <2>5
<1>5. \A t \in ThreadIds : est[t] = SumFunctionOnSet(latency, part(t))
  BY DEF FairInv
<1> QED BY <1>1, <1>2, <1>4, <1>5 DEF FairInv

LEMMA FairAtTheEnd == ASSUME PInv, FairInv PROVE FairShares
<1> SUFFICES ASSUME Dealt, NEW t \in ThreadIds \ {MAX_THREAD - 1}
             PROVE  /\ part(t + 1) # {} => est[t] >= Share
                    /\ est[t] >= Share /\ Share > 0 =>
                          \E c \in part(t) : est[t] - latency[c] < Share
                    /\ est[t] = SumFunctionOnSet(latency, part(t))
  BY DEF FairShares
<1>1. t \in Int /\ t < thread /\ Share \in Int /\ est[t] \in Int
  <2>1. part(t) \in SUBSET nodes
    BY DEF part
  <2>2. est[t] \in Int
    BY <2>1, SumIsInt DEF FairInv
  <2> QED BY <2>2, ShareIsInt, ThreadAssumption DEF Dealt, ThreadIds, FairInv
<1>2. est[t] < Share => part(t + 1) = {}
  <2>1. est[t] < Share => \A c \in nodes : assigned[c] <= t
    BY <1>1 DEF FairInv
  <2>2. ~(t + 1 <= t)
    BY <1>1
  <2> QED BY <2>1, <2>2 DEF part
<1> QED BY <1>1, <1>2 DEF FairInv

\* A thread that leaves components to the next has its share of the latency,
\* and would not have had it without one of its components; estLatency is what
\* its components cost (threadPartition.cpp:36-78).
THEOREM SharesAreFair == PartSpec => []FairShares
<1>1. PInv /\ FairInv /\ [DealNext]_partVars => FairInv'
  <2> SUFFICES ASSUME PInv, FairInv, [DealNext]_partVars PROVE FairInv'
    OBVIOUS
  <2>1. CASE UNCHANGED partVars
    BY <2>1 DEF partVars, graphVars, dealVars, FairInv, Latency, Share, QueueEmpty, part
  <2> QED BY <2>1, DealIsFair, NextIsFair DEF DealNext
<1>2. PInv /\ FairInv => FairShares
  BY FairAtTheEnd
<1>3. PartInit => FairInv
  BY PartInitIsCalled, FairStart
<1> QED BY <1>1, <1>2, <1>3, DealAlways, PTL DEF PartSpec

-----------------------------------------------------------------------------
(* Both, one after the other.                                               *)

\* A component an edge leads to is complete, or the one in work.
Bounded == stack = <<>> => \A e \in dag_added : e[2] < sccNum

\* The invariant of the search holds throughout; once threadPartition is
\* called it deals the components the search left.
LoopInv == /\ SCCInv
           /\ Bounded
           /\ ~NoGraph => /\ search = "done"
                          /\ nodes = SCCs
                          /\ dag = dag_added
                          /\ PInv

LEMMA LoopInitial == LoopInit => LoopInv
  BY SCCInitial DEF LoopInit, LoopInv, NoGraph, SCCInit, Bounded

LEMMA BoundedStep == SCCInv /\ Bounded /\ [SCCNext]_sccVars => Bounded'
<1> SUFFICES ASSUME SCCInv, Bounded, [SCCNext]_sccVars PROVE Bounded'
  OBVIOUS
<1>1. CASE ReverseReturn
  <2>1. /\ stack \in Seq(Insts) /\ stack # <<>> /\ Distinct(stack)
        /\ sccNum \in Nat
        /\ dag_added \subseteq (0 .. sccNum) \X (0 .. sccNum)
    BY <1>1 DEF SCCInv, SCCTypeOK, StackInv, ReverseReturn
  <2>2. /\ stack' = SubSeq(stack, 1, Len(stack) - 1)
        /\ sccNum' = IF Len(stack) = 1 THEN sccNum + 1 ELSE sccNum
        /\ dag_added' = dag_added
    BY <1>1 DEF ReverseReturn, Popped
  <2>3. stack' = <<>> => sccNum' = sccNum + 1
    BY <2>1, <2>2, PopFacts
  <2> QED BY <2>1, <2>2, <2>3 DEF Bounded
<1>2. CASE ForwardRoot \/ ForwardEdge \/ ForwardReturn \/ ForwardEnd
  <2>1. dag_added = {} /\ dag_added' = dag_added
    BY <1>2 DEF ForwardRoot, ForwardEdge, ForwardReturn, ForwardEnd, Enter, SCCInv, ListInv
  <2> QED BY <2>1 DEF Bounded
<1>3. CASE ReverseRoot
  <2>1. stack' # <<>>
    <3>1. stack \in Seq(Insts)
      BY DEF SCCInv, SCCTypeOK
    <3> QED BY <1>3, <3>1 DEF ReverseRoot, Enter
  <2> QED BY <2>1 DEF Bounded
<1>4. CASE ReverseEdge
  <2>1. stack' # <<>>
    <3>1. stack \in Seq(Insts)
      BY DEF SCCInv, SCCTypeOK
    <3> QED BY <1>4, <3>1 DEF ReverseEdge
  <2> QED BY <2>1 DEF Bounded
<1>5. CASE ReverseSkip \/ ReverseEnd \/ UNCHANGED sccVars
  <2>1. UNCHANGED <<stack, dag_added, sccNum>>
    BY <1>5 DEF ReverseSkip, ReverseEnd, sccVars
  <2> QED BY <2>1 DEF Bounded
<1> QED BY <1>1, <1>2, <1>3, <1>4, <1>5 DEF SCCNext

\* When the search is done nothing changes what it found.
LEMMA SearchIsOver == search = "done" => ~SCCNext
  BY DEF SCCNext, ForwardRoot, ForwardEdge, ForwardReturn, ForwardEnd, ReverseSkip,
         ReverseRoot, ReverseEdge, ReverseReturn, ReverseEnd

\* threadPartition is called with edges that ascend, between the components.
LEMMA CallStarts == LoopInv /\ PartitionCall => PInv'
<1> SUFFICES ASSUME LoopInv, PartitionCall PROVE PInv'
  OBVIOUS
<1> USE ThreadAssumption DEF Unassigned, ThreadIds
<1>1. /\ search = "done" /\ nodes' = SCCs /\ dag' = dag_added
      /\ assigned' = [c \in SCCs |-> Unassigned]
      /\ queue' = [c \in SCCs |-> IF \E e \in dag_added : e[2] = c THEN 0 ELSE 1]
      /\ thread' = 0
  BY DEF PartitionCall
<1>2. /\ SCCs \subseteq Nat
      /\ dag_added \subseteq SCCs \X SCCs
      /\ \A e \in dag_added : e[1] < e[2]
  <2>1. /\ sccNum \in Nat
        /\ dag_added \subseteq (0 .. sccNum) \X (0 .. sccNum)
        /\ \A e \in dag_added : e[1] < e[2]
    BY DEF LoopInv, SCCInv, SCCTypeOK, DagAscends
  <2>2. \A e \in dag_added : e[2] < sccNum
    BY <1>1 DEF LoopInv, Bounded, SCCInv, ListInv
  <2>3. ASSUME NEW e \in dag_added
        PROVE  e \in SCCs \X SCCs
    <3>1. /\ e = <<e[1], e[2]>> /\ e[1] \in 0 .. sccNum /\ e[2] \in 0 .. sccNum
          /\ e[1] < e[2] /\ e[2] < sccNum
      BY <2>1, <2>2
    <3>2. e[1] \in 0 .. sccNum - 1 /\ e[2] \in 0 .. sccNum - 1
      BY <2>1, <3>1
    <3> QED BY <3>1, <3>2 DEF SCCs
  <2> QED BY <2>1, <2>3 DEF SCCs
<1>3. GraphOK'
  BY <1>1, <1>2 DEF GraphOK
<1>4. PartTypeOK'
  BY <1>1, <1>2 DEF PartTypeOK
<1>5. QueueOK'
  <2> SUFFICES ASSUME NEW c \in SCCs
               PROVE  /\ queue'[c] \in {0, 1}
                      /\ queue'[c] = 1 <=> {u \in SCCs : <<u, c>> \in dag_added} = {}
    BY <1>1 DEF QueueOK, Parents
  <2>1. ASSUME NEW e \in dag_added, e[2] = c
        PROVE  e[1] \in SCCs /\ <<e[1], c>> \in dag_added
    <3>1. e \in SCCs \X SCCs
      BY <1>2
    <3> QED BY <2>1, <3>1
  <2>2. queue'[c] = IF \E e \in dag_added : e[2] = c THEN 0 ELSE 1
    BY <1>1
  <2>3. CASE \E e \in dag_added : e[2] = c
    <3>1. PICK u \in SCCs : <<u, c>> \in dag_added
      BY <2>1, <2>3
    <3>2. queue'[c] = 0
      BY <2>2, <2>3
    <3> QED BY <3>1, <3>2
  <2>4. CASE ~\E e \in dag_added : e[2] = c
    <3>1. \A u \in SCCs : <<u, c>> \notin dag_added
      BY <2>4
    <3>2. queue'[c] = 1
      BY <2>2, <2>4
    <3> QED BY <3>1, <3>2
  <2> QED BY <2>3, <2>4
<1>6. ThreadOK'
  BY <1>1 DEF ThreadOK, Dealt
<1>7. Upwards'
  BY <1>1, <1>2 DEF Upwards
<1> QED BY <1>3, <1>4, <1>5, <1>6, <1>7 DEF PInv

LEMMA LoopStep == LoopInv /\ [LoopNext]_allVars => LoopInv'
<1> SUFFICES ASSUME LoopInv, [LoopNext]_allVars PROVE LoopInv'
  OBVIOUS
<1>1. CASE FindStep
  <2>1. NoGraph /\ NoGraph'
    BY <1>1, SearchIsOver DEF FindStep, LoopInv, NoGraph, partVars, graphVars
  <2> QED BY <1>1, <2>1, SCCStep, BoundedStep DEF LoopInv, FindStep
<1>2. CASE PartitionCall
  <2>1. UNCHANGED sccVars /\ search' = "done" /\ nodes' = SCCs' /\ dag' = dag_added'
    BY <1>2 DEF PartitionCall, sccVars, SCCs
  <2> QED BY <1>2, <2>1, CallStarts, SCCStep, BoundedStep DEF LoopInv
<1>3. CASE DealComponents
  <2>1. UNCHANGED sccVars /\ ~NoGraph /\ DealNext
    BY <1>3 DEF DealComponents
  <2>2. UNCHANGED <<nodes, dag>>
    BY <2>1 DEF DealNext, Deal, NextThread, graphVars
  <2>3. SCCInv' /\ Bounded' /\ PInv'
    BY <2>1, SCCStep, BoundedStep, DealStep DEF LoopInv
  <2>4. search' = "done" /\ nodes' = SCCs' /\ dag' = dag_added'
    BY <2>1, <2>2 DEF LoopInv, sccVars, SCCs
  <2> QED BY <2>3, <2>4 DEF LoopInv
<1>4. CASE UNCHANGED allVars
  <2>1. UNCHANGED sccVars /\ UNCHANGED partVars
    BY <1>4 DEF allVars
  <2>2. SCCInv' /\ Bounded' /\ (PInv => PInv')
    BY <2>1, SCCStep, BoundedStep, DealStep DEF LoopInv
  <2>3. UNCHANGED <<nodes, dag, search, sccNum, dag_added>>
    BY <2>1 DEF sccVars, partVars, graphVars
  <2> QED BY <2>2, <2>3 DEF LoopInv, NoGraph, SCCs
<1> QED BY <1>1, <1>2, <1>3, <1>4 DEF LoopNext

LEMMA LoopAlways == LoopSpec => []LoopInv
  BY LoopInitial, LoopStep, PTL DEF LoopSpec

\* No component is empty, so there are no more than instructions.
LEMMA ComponentsAreFew ==
  ASSUME SCCInv, search = "done"
  PROVE  sccNum \in 1 .. NumInsts
<1> USE GraphAssumption
<1>1. /\ sccNum \in Nat /\ Len(InstInSCC) = sccNum
      /\ \A c \in 1 .. sccNum : \E i \in Insts : sccId[i] = c - 1
      /\ \A i \in Insts : sccId[i] < sccNum /\ sccId[i] \in Nat
  <2>1. stack = <<>> /\ used = Insts /\ sccNum \in Nat /\ sccId \in [Insts -> 0 .. sccNum]
    BY DEF SCCInv, ListInv, SCCTypeOK
  <2>2. Len(InstInSCC) = sccNum /\ \A i \in Insts : sccId[i] < sccNum
    BY <2>1 DEF SCCInv, NumberInv
  <2>3. ASSUME NEW c \in 1 .. sccNum PROVE \E i \in Insts : sccId[i] = c - 1
    <3>1. InstInSCC[c] = {i \in used \ Calls : sccId[i] = c - 1} /\ InstInSCC[c] # {}
      BY <2>1, <2>2 DEF SCCInv, PartsInv
    <3> QED BY <2>1, <3>1
  <2> QED BY <2>1, <2>2, <2>3
<1>2. sccNum > 0
  <2>1. 1 \in Insts
    BY DEF Insts
  <2>2. sccId[1] < sccNum /\ sccId[1] \in Nat
    BY <1>1, <2>1
  <2> QED BY <1>1, <2>2
<1> DEFINE f == [c \in 1 .. sccNum |-> CHOOSE i \in Insts : sccId[i] = c - 1]
<1>3. \A c \in 1 .. sccNum : f[c] \in Insts /\ sccId[f[c]] = c - 1
  BY <1>1
<1>4. f \in [1 .. sccNum -> Insts]
  BY <1>3
<1> HIDE DEF f
<1>5. ASSUME NEW c \in 1 .. sccNum, NEW d \in 1 .. sccNum, f[c] = f[d] PROVE c = d
  <2>1. c - 1 = d - 1
    BY <1>3, <1>5
  <2> QED BY <1>1, <2>1
<1>6. f \in Injection(1 .. sccNum, Insts)
  BY <1>4, <1>5 DEF Injection, IsInjective
<1>7. IsFiniteSet(Insts) /\ Cardinality(Insts) = NumInsts
  <2>1. IsFiniteSet(1 .. NumInsts) /\ Cardinality(1 .. NumInsts) = NumInsts
    BY FS_Interval
  <2> QED BY <2>1 DEF Insts
<1>8. Cardinality(1 .. sccNum) = sccNum
  BY <1>1, FS_Interval
<1>9. Cardinality(1 .. sccNum) <= Cardinality(Insts)
  BY <1>6, <1>7, FS_Injection
<1> QED BY <1>1, <1>2, <1>7, <1>8, <1>9

\* threadPartition.cpp:9-42: what it relies on holds when it is called.
LEMMA CallBegins == LoopInv /\ PartitionCall => Called' /\ nodes' = SCCs /\ sccNum \in 1 .. NumInsts
<1> SUFFICES ASSUME LoopInv, PartitionCall
             PROVE  Called' /\ nodes' = SCCs /\ sccNum \in 1 .. NumInsts
  OBVIOUS
<1>1. /\ search = "done" /\ nodes' = SCCs /\ dag' = dag_added
      /\ instLatency' \in InstLatencies
      /\ latency' = [c \in SCCs |-> sccLatency(c)]
      /\ assigned' = [c \in SCCs |-> Unassigned]
      /\ est' = [t \in ThreadIds |-> 0]
      /\ queue' = [c \in SCCs |-> IF \E e \in dag_added : e[2] = c THEN 0 ELSE 1]
      /\ thread' = 0
  BY DEF PartitionCall
<1>2. sccNum \in 1 .. NumInsts /\ sccNum \in Nat \ {0}
  <2>1. sccNum \in 1 .. NumInsts
    BY <1>1, ComponentsAreFew DEF LoopInv
  <2> QED BY <2>1, GraphAssumption
<1>3. ASSUME NEW c \in SCCs PROVE sccLatency(c) \in Nat
  <2> DEFINE S == {j \in Insts : sccId[j] = c}
             h == [i \in S |-> instLatency'[i]]
  <2>1. IsFiniteSet(S)
    <3>1. IsFiniteSet(1 .. NumInsts)
      BY GraphAssumption, FS_Interval
    <3>2. S \in SUBSET (1 .. NumInsts)
      BY DEF Insts
    <3> HIDE DEF S
    <3> QED BY <3>1, <3>2, FS_Subset
  <2>2. instLatency' \in [Insts -> Nat]
    BY <1>1, LatencyAssumption
  <2>3. \A i \in S : h[i] \in Nat
    BY <2>2
  <2>4. DOMAIN h = S
    OBVIOUS
  <2>5. sccLatency(c) = SumFunctionOnSet(h, S)
    BY DEF sccLatency, getLatency, SumFunction
  <2> HIDE DEF h, S
  <2> QED BY <2>1, <2>3, <2>5, SumOfNats
<1>4. PInv'
  BY CallStarts
<1>5. dag' \subseteq {e \in SCCs \X SCCs : e[1] < e[2]}
  BY <1>1, <1>4 DEF PInv, GraphOK
<1>6. queue' = [c \in SCCs |-> IF {u \in SCCs : <<u, c>> \in dag_added} = {} THEN 1 ELSE 0]
  <2>1. ASSUME NEW c \in SCCs
        PROVE  (\E e \in dag_added : e[2] = c) <=> {u \in SCCs : <<u, c>> \in dag_added} # {}
    <3>1. ASSUME NEW e \in dag_added, e[2] = c
          PROVE  e[1] \in SCCs /\ <<e[1], c>> \in dag_added
      <4>1. e \in SCCs \X SCCs
        BY <1>1, <1>5
      <4> QED BY <3>1, <4>1
    <3> QED BY <3>1
  <2> QED BY <1>1, <2>1
<1>7. DealStart'
  BY <1>1, <1>6 DEF DealStart, Parents
<1> QED BY <1>1, <1>2, <1>3, <1>5, <1>7 DEF Called, SCCs

\* threadPartition.cpp:9-42: it is called with components numbered from 0
\* without a gap, edges between them that ascend, and a latency for each.  The
\* hypotheses are the bounds of ThreadPartition: as many components and as
\* great latencies as a loop of NumInsts instructions can have.
THEOREM CallIsRight ==
  ASSUME NumInsts <= MaxNodes, Nat \subseteq Latencies
  PROVE  LoopSpec => CalledRight
<1>1. ASSUME LoopInv, [LoopNext]_allVars, NoGraph, nodes' # {} PROVE PartInit'
  <2>1. PartitionCall
    <3>1. nodes' # nodes
      BY <1>1 DEF NoGraph
    <3>2. ~FindStep /\ ~DealComponents /\ ~UNCHANGED allVars
      BY <1>1, <3>1 DEF FindStep, DealComponents, allVars, partVars, graphVars
    <3> QED BY <1>1, <3>2 DEF LoopNext
  <2>2. Called' /\ nodes' = 0 .. sccNum - 1 /\ sccNum \in 1 .. NumInsts
    BY <1>1, <2>1, CallBegins DEF SCCs
  <2>3. sccNum \in 1 .. MaxNodes
    BY <2>2, GraphAssumption, ThreadAssumption
  <2>4. latency' \in [nodes' -> Latencies]
    BY <2>2 DEF Called
  <2> QED BY <2>2, <2>3, <2>4 DEF Called, PartInit, GraphInit
<1>2. LoopInv /\ [LoopNext]_allVars => [NoGraph /\ nodes' # {} => PartInit']_allVars
  BY <1>1
<1> QED BY <1>2, LoopAlways, PTL DEF LoopSpec, CalledRight

\* What SharesAreFair says holds of the loops that runOnLoop deals: the shares
\* are of what getLatency says of their instructions
\* (threadPartition.cpp:18-78).
THEOREM SharesOfTheLoopAreFair == LoopSpec => []FairShares
<1> DEFINE SharesInv == (NoGraph => thread = 0) /\ (~NoGraph => FairInv)
<1>1. LoopInit => SharesInv
  BY DEF LoopInit, NoGraph
<1>2. Called => FairInv
  BY FairStart
<1>3. LoopInv /\ PartitionCall => Called'
  BY CallBegins
<1>4. LoopInv /\ PartitionCall => FairInv'
  BY <1>2, <1>3, PTL
<1>5. LoopInv /\ SharesInv /\ [LoopNext]_allVars => SharesInv'
  <2> SUFFICES ASSUME LoopInv, SharesInv, [LoopNext]_allVars PROVE SharesInv'
    OBVIOUS
  <2>1. CASE PartitionCall
    <3>1. ~NoGraph'
      BY <2>1, CallBegins DEF NoGraph, SCCs
    <3> QED BY <2>1, <1>4, <3>1
  <2>2. CASE DealComponents
    <3>1. ~NoGraph /\ DealNext /\ PInv /\ FairInv
      BY <2>2 DEF DealComponents, LoopInv
    <3>2. UNCHANGED nodes
      BY <3>1 DEF DealNext, Deal, NextThread, graphVars
    <3> QED BY <3>1, <3>2, DealIsFair, NextIsFair DEF DealNext, NoGraph
  <2>3. CASE FindStep \/ UNCHANGED allVars
    <3>1. UNCHANGED partVars
      BY <2>3 DEF FindStep, allVars
    <3> QED BY <3>1 DEF partVars, graphVars, dealVars, NoGraph, FairInv, Latency, Share,
                        QueueEmpty, part
  <2> QED BY <2>1, <2>2, <2>3 DEF LoopNext
<1>6. LoopInv /\ SharesInv => FairShares
  <2>1. CASE NoGraph /\ SharesInv
    BY <2>1, ThreadAssumption DEF FairShares, Dealt
  <2>2. CASE ~NoGraph /\ SharesInv /\ LoopInv
    BY <2>2, FairAtTheEnd DEF LoopInv
  <2> QED BY <2>1, <2>2
<1> HIDE DEF SharesInv
<1> QED BY <1>1, <1>5, <1>6, LoopAlways, PTL DEF LoopSpec

\* No dependence between two instructions leads to an earlier thread, so
\* every channel goes upwards (CodeTransformation.cpp:575-579): the
\* components lose no dependence, and the dealing keeps all of them.
THEOREM DependencesKeepTheirOrder == LoopSpec => []DependencesGoUpwards
<1>1. ASSUME LoopInv, Partitioned, NEW e \in pdg
      PROVE  getInstAssigned(e[1]) <= getInstAssigned(e[2])
  <2>1. /\ search = "done" /\ nodes = SCCs /\ dag = dag_added /\ PInv /\ SCCInv
    BY <1>1 DEF LoopInv, Partitioned
  <2>2. e[1] \in Insts /\ e[2] \in Insts
    BY <1>1, <2>1, GraphAssumption DEF SCCInv, SCCTypeOK
  <2>3. sccId[e[1]] \in SCCs /\ sccId[e[2]] \in SCCs
    <3>1. /\ sccNum \in Nat
          /\ \A i \in Insts : sccId[i] \in 0 .. sccNum /\ sccId[i] < sccNum
      BY <2>1 DEF SCCInv, SCCTypeOK, ListInv, NumberInv
    <3> QED BY <2>2, <3>1 DEF SCCs
  <2>4. /\ assigned[sccId[e[1]]] \in ThreadIds /\ assigned[sccId[e[2]]] \in ThreadIds
    BY <1>1, <2>1, <2>3, DealtMeansAssigned DEF AllAssigned, Partitioned
  <2>5. CASE sccId[e[1]] = sccId[e[2]]
    BY <2>4, <2>5, ThreadAssumption DEF getInstAssigned, ThreadIds
  <2>6. CASE sccId[e[1]] # sccId[e[2]]
    <3>1. <<sccId[e[1]], sccId[e[2]]>> \in dag
      BY <1>1, <2>1, <2>6, DoneIsComplete DEF DagComplete
    <3>2. assigned[sccId[e[2]]] # Unassigned
      BY <2>4, ThreadAssumption DEF ThreadIds, Unassigned
    <3> QED BY <2>1, <3>1, <3>2 DEF PInv, Upwards, getInstAssigned
  <2> QED BY <2>5, <2>6
<1>2. LoopInv => DependencesGoUpwards
  BY <1>1 DEF DependencesGoUpwards
<1> QED BY <1>2, LoopAlways, PTL
=============================================================================
