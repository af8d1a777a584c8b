-------------------------- MODULE RunOnLoopProofs --------------------------
(***************************************************************************)
(* The driver over any number of loops and functions.                      *)
(***************************************************************************)
EXTENDS RunOnLoop, TLAPS

DriverTypeOK == /\ kind \in [Loops -> Kinds]
                /\ loop \in Places \cup {None}
                /\ phase \in 0 .. 9
                /\ loop = None => phase = 0
                /\ loopCounter \in Nat
                /\ made \in [Loops -> Nat]
                /\ split \subseteq Loops

\* What runOnLoop has found out about a loop on the way to a phase.
KindInv == /\ phase > 0 => loop[2] = "source" /\ kind[loop[1]] \notin {"inner", "bad"}
           /\ phase > 0 => loopCounter > 0
           /\ phase > 2 => kind[loop[1]] # "single"
           /\ phase > 5 => ~Stale
           /\ phase > 6 => made[loop[1]] = loopCounter /\ loopCounter \in generated

\* A loop is handed over once, so split once, and then its threads are known.
SplitInv == /\ \A l \in split : /\ <<l, "source">> \in visited
                                /\ made[l] # 0 /\ made[l] \in generated
            /\ loop # None => /\ loop \in visited
                              /\ loop[2] = "source" => loop[1] \notin split
                              /\ loop[2] = "worker" => loop[1] \in split

\* Threads are made for the loop in hand only, under a number not yet used.
MadeInv == /\ \A l \in Loops : /\ made[l] <= loopCounter
                               /\ 0 < phase /\ phase <= 6 => made[l] < loopCounter
                               /\ made[l] # 0 => l \in split \/ (phase > 6 /\ l = loop[1])
           /\ \A l, m \in Loops : made[l] # 0 /\ made[l] = made[m] => l = m

DriverInv == DriverTypeOK /\ KindInv /\ SplitInv /\ MadeInv

LEMMA PlaceFacts == \A x \in Places : /\ x[1] \in Loops
                                      /\ x = <<x[1], x[2]>>
                                      /\ x[2] \in {"source", "worker"}
                                      /\ x # None
  BY DriverAssumption DEF Places

LEMMA DriverInitial == Init => DriverInv
  BY PlaceFacts DEF Init, DriverInv, DriverTypeOK, KindInv, SplitInv, MadeInv

LEMMA HandOverKeeps == ASSUME DriverInv, NEW x \in Places, HandOver(x)
                       PROVE  DriverInv'
<1>1. /\ loop = None /\ phase = 0 /\ x \notin visited
      /\ x[2] = "worker" => x[1] \in split
      /\ visited' = visited \cup {x} /\ loop' = x
      /\ UNCHANGED <<kind, place, phase, loopCounter, made, generated, split>>
  BY DEF HandOver, madeVars, DriverInv, DriverTypeOK
<1>2. x[2] = "source" => x[1] \notin split
  BY <1>1, PlaceFacts DEF DriverInv, SplitInv
<1>3. DriverTypeOK'
  BY <1>1, PlaceFacts DEF DriverInv, DriverTypeOK
<1>4. SplitInv'
  BY <1>1, <1>2 DEF DriverInv, SplitInv
<1>5. MadeInv'
  BY <1>1 DEF DriverInv, MadeInv
<1> QED BY <1>1, <1>3, <1>4, <1>5 DEF DriverInv, KindInv

LEMMA InitializeKeeps == DriverInv /\ Initialize => DriverInv'
<1> SUFFICES ASSUME DriverInv, Initialize PROVE DriverInv'
  OBVIOUS
<1>1. /\ loop # None /\ phase = 0
      /\ UNCHANGED <<kind, place, visited, made, generated, split>>
      /\ \/ loop' = None /\ phase' = 0 /\ loopCounter' \in {loopCounter, loopCounter + 1}
         \/ /\ phase' = 1 /\ loop' = loop /\ loopCounter' = loopCounter + 1
            /\ ~Skipped /\ kind[loop[1]] # "bad"
  BY DEF Initialize, Return
<1>2. loop \in Places
  BY <1>1 DEF DriverInv, DriverTypeOK
<1>3. ~Skipped => loop[2] = "source" /\ kind[loop[1]] # "inner"
  <2>1. CASE loop[2] = "source"
    BY <2>1 DEF Skipped
  <2>2. CASE loop[2] = "worker"
    <3>1. FunctionOf(loop) = made[loop[1]]
      BY <2>2 DEF FunctionOf
    <3>2. loop[1] \in split
      BY <1>1, <2>2 DEF DriverInv, SplitInv
    <3> QED BY <3>1, <3>2 DEF Skipped, DriverInv, SplitInv
  <2> QED BY <1>2, <2>1, <2>2, PlaceFacts
<1>4. DriverTypeOK' /\ SplitInv'
  BY <1>1, <1>2, PlaceFacts DEF DriverInv, DriverTypeOK, SplitInv
<1>5. KindInv'
  <2>1. phase' = 1 => loopCounter' > 0
    BY <1>1 DEF DriverInv, DriverTypeOK
  <2> QED BY <1>1, <1>3, <2>1 DEF KindInv
<1>6. MadeInv'
  BY <1>1 DEF MadeInv, DriverInv, DriverTypeOK
<1> QED BY <1>4, <1>5, <1>6 DEF DriverInv

LEMMA CompleteKeeps ==
  ASSUME DriverInv, loop # None, phase > 0, ~Fails(Phases[phase]), Complete(Phases[phase]),
         UNCHANGED <<kind, place, visited>>
  PROVE  DriverInv'
<1> DEFINE p == Phases[phase]
<1>1. /\ loop \in Places /\ phase \in 1 .. 9
      /\ loop[2] = "source" /\ kind[loop[1]] \notin {"inner", "bad"}
      /\ loop[1] \in Loops /\ loop[1] \notin split /\ loop \in visited
      /\ loop = <<loop[1], "source">>
  BY PlaceFacts DEF DriverInv, DriverTypeOK, KindInv, SplitInv
<1>2. /\ loopCounter' = loopCounter
      /\ IF p = "preLoopSplit"
         THEN /\ made' = [made EXCEPT ![loop[1]] = loopCounter]
              /\ generated' = generated \cup {loopCounter}
         ELSE made' = made /\ generated' = generated
      /\ split' = IF p = "cleanup" THEN split \cup {loop[1]} ELSE split
      /\ IF (p = "findSCC" /\ kind[loop[1]] = "single") \/ p = "cleanup"
         THEN loop' = None /\ phase' = 0
         ELSE phase' = phase + 1 /\ loop' = loop
  BY DEF Complete, Return
<1>3. /\ p = "findSCC" <=> phase = 2
      /\ p = "getDominators" <=> phase = 5
      /\ p = "preLoopSplit" <=> phase = 6
      /\ p = "cleanup" <=> phase = 9
  <2>1. \/ phase = 1 \/ phase = 2 \/ phase = 3 \/ phase = 4 \/ phase = 5
        \/ phase = 6 \/ phase = 7 \/ phase = 8 \/ phase = 9
    BY <1>1
  <2> QED BY <2>1 DEF Phases
<1>4. phase = 5 => ~Stale
  BY <1>3 DEF Fails
<1> HIDE DEF p
<1>5. CASE phase = 9
  <2>1. /\ loop' = None /\ phase' = 0 /\ split' = split \cup {loop[1]}
        /\ generated' = generated /\ made' = made
    BY <1>2, <1>3, <1>5
  <2>2. /\ made[loop[1]] = loopCounter /\ loopCounter \in generated
        /\ made[loop[1]] # 0
    BY <1>1, <1>5 DEF DriverInv, DriverTypeOK, KindInv, MadeInv
  <2>3. DriverTypeOK'
    BY <1>1, <1>2, <2>1 DEF DriverInv, DriverTypeOK
  <2>4. SplitInv'
    BY <1>1, <1>2, <2>1, <2>2 DEF DriverInv, SplitInv
  <2>5. KindInv'
    BY <1>2, <2>1 DEF KindInv
  <2>6. MadeInv'
    BY <1>2, <2>1 DEF DriverInv, MadeInv
  <2> QED BY <2>3, <2>4, <2>5, <2>6 DEF DriverInv
<1>6. CASE phase = 2 /\ kind[loop[1]] = "single"
  <2>1. loop' = None /\ phase' = 0 /\ UNCHANGED <<split, generated, made>>
    BY <1>2, <1>3, <1>6
  <2>2. DriverTypeOK' /\ SplitInv' /\ KindInv'
    BY <1>2, <2>1 DEF DriverInv, DriverTypeOK, SplitInv, KindInv
  <2>3. MadeInv'
    BY <1>2, <1>6, <2>1 DEF DriverInv, MadeInv
  <2> QED BY <2>2, <2>3 DEF DriverInv
<1>7. CASE phase = 6
  <2>1. /\ loop' = loop /\ phase' = 7 /\ split' = split
        /\ made' = [made EXCEPT ![loop[1]] = loopCounter]
        /\ generated' = generated \cup {loopCounter}
    BY <1>2, <1>3, <1>7
  <2>2. /\ loopCounter \in Nat /\ made \in [Loops -> Nat]
        /\ \A l \in Loops : made[l] < loopCounter
    BY <1>7 DEF DriverInv, DriverTypeOK, MadeInv
  <2>3. DriverTypeOK'
    BY <1>1, <1>2, <2>1, <2>2 DEF DriverInv, DriverTypeOK
  <2>4. \A l \in Loops : made'[l] = IF l = loop[1] THEN loopCounter ELSE made[l]
    BY <2>1, <2>2
  <2>5. SplitInv'
    BY <1>1, <2>1, <2>4 DEF DriverInv, DriverTypeOK, SplitInv
  <2>6. ~Stale'
    BY <1>7, <2>1 DEF DriverInv, KindInv, Stale
  <2>7. KindInv'
    BY <1>1, <1>2, <1>7, <2>1, <2>4, <2>6 DEF DriverInv, KindInv
  <2>8. MadeInv'
    BY <1>1, <1>2, <1>7, <2>1, <2>2, <2>4 DEF DriverInv, MadeInv
  <2> QED BY <2>3, <2>5, <2>7, <2>8 DEF DriverInv
<1>8. CASE phase \notin {6, 9} /\ ~(phase = 2 /\ kind[loop[1]] = "single")
  <2>1. /\ loop' = loop /\ phase' = phase + 1
        /\ UNCHANGED <<split, made, generated>>
    BY <1>2, <1>3, <1>8
  <2>2. DriverTypeOK'
    BY <1>1, <1>2, <1>8, <2>1, PlaceFacts DEF DriverInv, DriverTypeOK
  <2>3. SplitInv'
    BY <1>2, <2>1 DEF DriverInv, SplitInv
  <2>4. KindInv'
    <3>1. phase' > 2 => kind[loop[1]] # "single"
      BY <1>1, <1>8, <2>1 DEF DriverInv, KindInv
    <3>2. phase' > 5 => ~Stale'
      BY <1>1, <1>4, <2>1 DEF DriverInv, KindInv, Stale
    <3>3. phase' > 6 => made'[loop[1]] = loopCounter /\ loopCounter \in generated'
      BY <1>1, <1>8, <2>1 DEF DriverInv, KindInv
    <3>4. loopCounter' > 0
      BY <1>1, <1>2 DEF DriverInv, KindInv
    <3> QED BY <1>1, <1>2, <2>1, <3>1, <3>2, <3>3, <3>4 DEF KindInv
  <2>5. MadeInv'
    <3>1. phase > 6 <=> phase' > 6
      BY <1>1, <1>8, <2>1
    <3>2. 0 < phase' /\ phase' <= 6 => 0 < phase /\ phase <= 6
      BY <1>1, <2>1
    <3> QED BY <1>2, <2>1, <3>1, <3>2 DEF DriverInv, MadeInv
  <2> QED BY <2>2, <2>3, <2>4, <2>5 DEF DriverInv
<1> QED BY <1>1, <1>5, <1>6, <1>7, <1>8

LEMMA StutterKeeps ==
  ASSUME DriverInv, UNCHANGED <<kind, place, visited, loop, phase, loopCounter, made, generated, split>>
  PROVE  DriverInv'
  BY DEF DriverInv, DriverTypeOK, KindInv, SplitInv, MadeInv, Stale

LEMMA DriverAlways == Spec => []DriverInv
<1>1. DriverInv /\ [Next]_driverVars => DriverInv'
  <2> SUFFICES ASSUME DriverInv, [Next]_driverVars PROVE DriverInv'
    OBVIOUS
  <2>1. CASE UNCHANGED driverVars
    BY <2>1, StutterKeeps DEF driverVars, madeVars
  <2>2. CASE RunPhase
    <3>1. CASE Fails(Phases[phase])
      BY <2>2, <3>1, StutterKeeps DEF RunPhase, Stop, madeVars
    <3> QED BY <2>2, <3>1, CompleteKeeps DEF RunPhase
  <2> QED BY <2>1, <2>2, HandOverKeeps, InitializeKeeps DEF Next
<1> QED BY <1>1, DriverInitial, PTL DEF Spec

\* The functions made for the threads are never split again (pipeline.cpp:149).
THEOREM WorkersAreLeftAlone == Spec => []WorkersLeftAlone
<1>1. DriverInv => WorkersLeftAlone
  BY DEF DriverInv, KindInv, WorkersLeftAlone
<1> QED BY <1>1, DriverAlways, PTL

\* No loop is left half taken apart, and no two have threads of one name, at
\* whatever phases the pass stops (CodeTransformation.cpp:62-74, pipeline.cpp:131).
THEOREM LoopsAreWhole == Spec => []LoopsWhole
<1>1. DriverInv => LoopsWhole
  <2> SUFFICES ASSUME DriverInv, loop = None
               PROVE  /\ \A l \in Loops : made[l] # 0 => l \in split
                      /\ \A l, m \in split : made[l] = made[m] => l = m
    BY DEF LoopsWhole
  <2>1. ~(phase > 6) /\ split \subseteq Loops
    BY DEF DriverInv, DriverTypeOK
  <2>2. \A l \in Loops : made[l] # 0 => l \in split
    BY <2>1 DEF DriverInv, MadeInv
  <2>3. \A l, m \in split : made[l] = made[m] => l = m
    BY <2>1 DEF DriverInv, SplitInv, MadeInv
  <2> QED BY <2>2, <2>3
<1> QED BY <1>1, DriverAlways, PTL

-----------------------------------------------------------------------------
(* What each phase reads has been filled by one before, of the same loop.   *)

\* What a phase fills or sets anew.
Adds(n) == Fills[Phases[n]] \cup Sets[Phases[n]]

FilledBefore(n) == IF n = 0 THEN {}
                   ELSE {"header"} \cup {f \in Fields : \E k \in 1 .. n - 1 : f \in Adds(k)}

FieldsInv == fields = [f \in Fields |-> IF f \in FilledBefore(phase) THEN {loop} ELSE {}]

LEMMA FillsTable == /\ Fills[Phases[1]] = {"pdg", "rev", "allEdges", "dname"}
                    /\ Fills[Phases[2]] = {"list", "sccId", "scc_parents", "scc_dependents"}
                    /\ Fills[Phases[5]] = {"idom", "postidom"}
                    /\ Fills[Phases[7]] = {"instMap", "newToOld", "newInstAssigned"}
                    /\ Fills[Phases[8]] = {"placeEquivalents"}
                    /\ \A n \in {3, 4, 6, 9} : Fills[Phases[n]] = {}
  BY DEF Fills, Phases

LEMMA SetsTable == /\ Sets[Phases[2]] = {"used", "dag_added", "sccNum", "InstInSCC"}
                   /\ Sets[Phases[3]] = {"sccLatency", "assigned", "part"}
                   /\ Sets[Phases[4]] = {"defin", "livein", "liveout"}
                   /\ Sets[Phases[6]] = {"replaceBlock", "allFunc", "argStructTy"}
                   /\ \A n \in {1, 5, 7, 8, 9} : Sets[Phases[n]] = {}
  BY DEF Sets, Phases

LEMMA AddsTable == /\ Adds(1) = {"pdg", "rev", "allEdges", "dname"}
                   /\ Adds(2) = {"list", "sccId", "scc_parents", "scc_dependents",
                                 "used", "dag_added", "sccNum", "InstInSCC"}
                   /\ Adds(3) = {"sccLatency", "assigned", "part"}
                   /\ Adds(4) = {"defin", "livein", "liveout"}
                   /\ Adds(5) = {"idom", "postidom"}
                   /\ Adds(6) = {"replaceBlock", "allFunc", "argStructTy"}
                   /\ Adds(7) = {"instMap", "newToOld", "newInstAssigned"}
                   /\ Adds(8) = {"placeEquivalents"}
                   /\ Adds(9) = {}
  BY FillsTable, SetsTable DEF Adds

LEMMA ReadsTable ==
    /\ Reads[Phases[1]] = {"header"}
    /\ Reads[Phases[2]] = {"pdg", "rev"}
    /\ Reads[Phases[3]] = {"sccNum", "sccId", "scc_parents", "scc_dependents"}
    /\ Reads[Phases[4]] = {}
    /\ Reads[Phases[5]] = {"header"}
    /\ Reads[Phases[6]] = {"header", "livein", "liveout"}
    /\ Reads[Phases[7]] = {"header", "part", "InstInSCC", "rev", "assigned", "sccId", "idom",
                           "postidom", "livein", "liveout", "allFunc", "argStructTy"}
    /\ Reads[Phases[8]] = {"header", "allEdges", "assigned", "sccId", "instMap", "newToOld"}
    /\ Reads[Phases[9]] = {"allFunc"}
  BY DEF Reads, Phases

LEMMA FieldsAre == Fields = {"header"} \cup Adds(1) \cup Adds(2) \cup Adds(3) \cup Adds(4)
                            \cup Adds(5) \cup Adds(6) \cup Adds(7) \cup Adds(8) \cup Adds(9)
<1>1. DOMAIN Fills = {Phases[n] : n \in 1 .. 9}
  BY DEF Fills, Phases
<1>2. Fields = {"header"} \cup UNION {Adds(n) : n \in 1 .. 9}
  BY <1>1 DEF Fields, Adds
<1>3. UNION {Adds(n) : n \in 1 .. 9} = Adds(1) \cup Adds(2) \cup Adds(3) \cup Adds(4)
         \cup Adds(5) \cup Adds(6) \cup Adds(7) \cup Adds(8) \cup Adds(9)
  OBVIOUS
<1> QED BY <1>2, <1>3

LEMMA Phase == ASSUME NEW n \in 1 .. 9
               PROVE  \/ n = 1 \/ n = 2 \/ n = 3 \/ n = 4 \/ n = 5
                      \/ n = 6 \/ n = 7 \/ n = 8 \/ n = 9
  OBVIOUS

LEMMA PhaseFacts ==
  ASSUME NEW n \in 1 .. 9
  PROVE  /\ Phases[n] \in DOMAIN Fills
         /\ Reads[Phases[n]] \subseteq FilledBefore(n) \cap Fields
         /\ Fills[Phases[n]] \cap FilledBefore(n) = {}
         /\ FilledBefore(n + 1) \cap Fields = (FilledBefore(n) \cup Adds(n)) \cap Fields
<1>1. FilledBefore(n + 1) \cap Fields = (FilledBefore(n) \cup Adds(n)) \cap Fields
  <2>1. 1 .. n = (1 .. n - 1) \cup {n} /\ n + 1 - 1 = n /\ n + 1 # 0 /\ n # 0
    OBVIOUS
  <2>2. FilledBefore(n + 1) = {"header"} \cup {f \in Fields : \E k \in 1 .. n : f \in Adds(k)}
    BY <2>1 DEF FilledBefore
  <2> QED BY <2>1, <2>2 DEF FilledBefore
<1>2. Phases[n] \in DOMAIN Fills
  BY Phase DEF Phases, Fills
<1>3. Reads[Phases[n]] \subseteq Fields
  BY Phase, ReadsTable, AddsTable, FieldsAre
<1>4. ASSUME NEW f \in Reads[Phases[n]] \ {"header"}
      PROVE  \E k \in 1 .. n - 1 : f \in Adds(k)
  <2>1. CASE f \in {"pdg", "rev", "allEdges"}
    <3>1. n > 1
      BY <1>4, <2>1, Phase, ReadsTable
    <3> QED BY <2>1, <3>1, AddsTable
  <2>2. CASE f \in {"sccNum", "sccId", "scc_parents", "scc_dependents", "InstInSCC"}
    <3>1. n > 2
      BY <1>4, <2>2, Phase, ReadsTable
    <3> QED BY <2>2, <3>1, AddsTable
  <2>3. CASE f \in {"assigned", "part"}
    <3>1. n > 3
      BY <1>4, <2>3, Phase, ReadsTable
    <3> QED BY <2>3, <3>1, AddsTable
  <2>4. CASE f \in {"livein", "liveout"}
    <3>1. n > 4
      BY <1>4, <2>4, Phase, ReadsTable
    <3> QED BY <2>4, <3>1, AddsTable
  <2>5. CASE f \in {"idom", "postidom"}
    <3>1. n > 5
      BY <1>4, <2>5, Phase, ReadsTable
    <3> QED BY <2>5, <3>1, AddsTable
  <2>6. CASE f \in {"allFunc", "argStructTy"}
    <3>1. n > 6
      BY <1>4, <2>6, Phase, ReadsTable
    <3> QED BY <2>6, <3>1, AddsTable
  <2>7. CASE f \in {"instMap", "newToOld"}
    <3>1. n > 7
      BY <1>4, <2>7, Phase, ReadsTable
    <3> QED BY <2>7, <3>1, AddsTable
  <2> QED BY <1>4, <2>1, <2>2, <2>3, <2>4, <2>5, <2>6, <2>7, Phase, ReadsTable
<1>5. Reads[Phases[n]] \subseteq FilledBefore(n)
  BY <1>3, <1>4 DEF FilledBefore
<1>6. Fills[Phases[n]] \cap FilledBefore(n) = {}
  <2>1. ASSUME NEW f \in Fills[Phases[n]], NEW k \in 1 .. n - 1
        PROVE  f # "header" /\ f \notin Adds(k)
    <3>1. n \in {2, 5, 7, 8}
      <4>1. n # 1
        OBVIOUS
      <4> QED BY <2>1, <4>1, Phase, FillsTable
    <3>2. CASE n = 2
      <4>1. k = 1
        BY <3>2
      <4> QED BY <2>1, <3>2, <4>1, FillsTable, AddsTable
    <3>3. CASE n = 5
      <4>1. k = 1 \/ k = 2 \/ k = 3 \/ k = 4
        BY <3>3
      <4> QED BY <2>1, <3>3, <4>1, FillsTable, AddsTable
    <3>4. CASE n = 7
      <4>1. k = 1 \/ k = 2 \/ k = 3 \/ k = 4 \/ k = 5 \/ k = 6
        BY <3>4
      <4> QED BY <2>1, <3>4, <4>1, FillsTable, AddsTable
    <3>5. CASE n = 8
      <4>1. k = 1 \/ k = 2 \/ k = 3 \/ k = 4 \/ k = 5 \/ k = 6 \/ k = 7
        BY <3>5
      <4> QED BY <2>1, <3>5, <4>1, FillsTable, AddsTable
    <3> QED BY <3>1, <3>2, <3>3, <3>4, <3>5
  <2>2. "header" \notin Fills[Phases[n]]
    BY Phase, FillsTable
  <2> QED BY <2>1, <2>2 DEF FilledBefore
<1> QED BY <1>1, <1>2, <1>3, <1>5, <1>6

LEMMA FieldsStep == DriverInv /\ FieldsInv /\ [Next]_driverVars => FieldsInv'
<1> SUFFICES ASSUME DriverInv, FieldsInv, [Next]_driverVars PROVE FieldsInv'
  OBVIOUS
<1>1. Empty = [f \in Fields |-> IF f \in FilledBefore(0) THEN {loop'} ELSE {}]
  BY DEF Empty, FilledBefore
<1>2. phase = 0 => fields = Empty
  BY DEF FieldsInv, FilledBefore, Empty
<1>3. CASE \E x \in Places : HandOver(x)
  <2>1. phase = 0 /\ phase' = 0 /\ fields' = fields
    BY <1>3 DEF HandOver, DriverInv, DriverTypeOK
  <2> QED BY <1>1, <1>2, <2>1 DEF FieldsInv
<1>4. CASE Initialize
  <2>1. /\ phase = 0
        /\ \/ phase' = 0 /\ fields' = fields
           \/ phase' = 0 /\ fields' = Empty
           \/ /\ phase' = 1 /\ loop' = loop
              /\ fields' = [fields EXCEPT !["header"] = {loop}]
    BY <1>4 DEF Initialize, Return
  <2>2. FilledBefore(1) = {"header"}
    <3>1. 1 .. 1 - 1 = {}
      OBVIOUS
    <3> QED BY <3>1 DEF FilledBefore
  <2>3. CASE phase' = 1 /\ loop' = loop /\ fields' = [fields EXCEPT !["header"] = {loop}]
    <3>1. fields' = [f \in Fields |-> IF f = "header" THEN {loop} ELSE {}]
      BY <1>2, <2>1, <2>3 DEF Empty
    <3> QED BY <2>2, <2>3, <3>1 DEF FieldsInv
  <2> QED BY <1>1, <1>2, <2>1, <2>3 DEF FieldsInv
<1>5. CASE RunPhase
  <2> DEFINE p == Phases[phase]
  <2>1. /\ phase \in 1 .. 9
        /\ \/ phase' = 0 /\ fields' = Empty
           \/ phase' = phase + 1 /\ loop' = loop /\ fields' = AfterPhase(p)
           \/ UNCHANGED <<phase, loop, fields>>
    BY <1>5 DEF RunPhase, Complete, Stop, Return, Single, DriverInv, DriverTypeOK
  <2>2. CASE phase' = phase + 1 /\ loop' = loop /\ fields' = AfterPhase(p)
    <3>1. \A f \in Fields : f \in FilledBefore(phase + 1) <=>
                              f \in FilledBefore(phase) \/ f \in Fills[p] \/ f \in Sets[p]
      BY <2>1, PhaseFacts DEF Adds
    <3>2. fields' = [f \in Fields |-> IF f \in Sets[p] THEN {loop}
                                      ELSE IF f \in Fills[p] THEN fields[f] \cup {loop}
                                      ELSE fields[f]]
      BY <2>2 DEF AfterPhase
    <3>3. \A f \in Fields : fields[f] = IF f \in FilledBefore(phase) THEN {loop} ELSE {}
      BY DEF FieldsInv
    <3>4. \A f \in Fields : fields[f] \cup {loop} = {loop}
      BY <3>3
    <3> QED BY <2>2, <3>1, <3>2, <3>3, <3>4 DEF FieldsInv
  <2>3. CASE UNCHANGED <<phase, loop, fields>>
    BY <2>3 DEF FieldsInv
  <2> QED BY <1>1, <2>1, <2>2, <2>3 DEF FieldsInv
<1>6. CASE UNCHANGED driverVars
  BY <1>6 DEF driverVars, FieldsInv
<1> QED BY <1>3, <1>4, <1>5, <1>6 DEF Next

\* Every field a phase reads was filled for this loop by a phase before it, and
\* what it adds to is empty (pipeline.cpp:145-179).
THEOREM FieldsAreFresh == Spec => []FieldsFresh
<1>1. Init => FieldsInv
  BY DEF Init, FieldsInv, FilledBefore, Empty
<1>2. DriverInv /\ FieldsInv => FieldsFresh
  <2> SUFFICES ASSUME DriverInv, FieldsInv, loop # None, phase > 0
               PROVE  /\ \A f \in Reads[Phases[phase]] : fields[f] = {loop}
                      /\ \A f \in Fills[Phases[phase]] : fields[f] = {}
                      /\ phase > 5 => ~Stale
    BY DEF FieldsFresh
  <2>1. phase \in 1 .. 9
    BY DEF DriverInv, DriverTypeOK
  <2>2. Fills[Phases[phase]] \subseteq Fields
    <3>1. Phases[phase] \in DOMAIN Fills
      BY <2>1, PhaseFacts
    <3>2. Fills[Phases[phase]] \cup Sets[Phases[phase]]
             \in {Fills[q] \cup Sets[q] : q \in DOMAIN Fills}
      BY <3>1
    <3> QED BY <3>2 DEF Fields
  <2>3. /\ Reads[Phases[phase]] \subseteq FilledBefore(phase) \cap Fields
        /\ Fills[Phases[phase]] \cap FilledBefore(phase) = {}
    BY <2>1, PhaseFacts
  <2>4. \A f \in Fields : fields[f] = IF f \in FilledBefore(phase) THEN {loop} ELSE {}
    BY Zenon DEF FieldsInv
  <2>5. phase > 5 => ~Stale
    BY DEF DriverInv, KindInv
  <2> QED BY <2>2, <2>3, <2>4, <2>5
<1> QED BY <1>1, <1>2, DriverAlways, FieldsStep, PTL DEF Spec
=============================================================================
