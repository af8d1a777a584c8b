----------------------------- MODULE RunOnLoop -----------------------------
(***************************************************************************)
(* The pass over a module (pipeline.cpp): the loop pass manager hands it   *)
(* the loops of one function after another, the functions it makes itself  *)
(* included, and runOnLoop calls the phases, each of which reads fields of *)
(* the pass that earlier ones filled.  The fields outlive the loop, and    *)
(* the dominator trees are those of the function when its first loop came. *)
(***************************************************************************)
EXTENDS Integers, Sequences, FiniteSets

CONSTANTS Loops,         (* the loops of the module                         *)
          Functions,     (* its functions                                   *)
          None           (* no loop                                         *)

ASSUME DriverAssumption == None \notin Loops \X {"source", "worker"}

\* A loop of the module, or what the threads made of it have of it.
Places == Loops \X {"source", "worker"}

Phases == <<"buildPDG", "findSCC", "threadPartition", "getLiveinfo",
            "getDominators", "preLoopSplit", "loopSplit",
            "insertSynchronization", "cleanup">>

\* The phases that stop the compiler at some loops: in CodeTransformation.cpp, a
\* thread lacks the header (259) or a livein has the wrong type (440); a
\* dependence is of memory (635), a value cannot be sent (612, 629, 682) or a
\* use is in no block (707); a block has been left empty (779).
Stoppers == {"loopSplit", "insertSynchronization", "cleanup"}

\* What the pass finds of a loop: it lies inside another; its exit or its
\* predecessor is not unique; it is one component; the phase that stops at
\* it; or it can be split.
Kinds == {"inner", "bad", "single", "splits"} \cup Stoppers

\* The fields a phase fills by adding to what is there.  Nothing is added to
\* placeEquivalents but what reading it adds (CodeTransformation.cpp:279, 609).
Fills == [buildPDG |-> {"pdg", "rev", "allEdges", "dname"},
          findSCC |-> {"list", "sccId", "scc_parents", "scc_dependents"},
          threadPartition |-> {}, getLiveinfo |-> {},
          getDominators |-> {"idom", "postidom"},
          preLoopSplit |-> {},
          loopSplit |-> {"instMap", "newToOld", "newInstAssigned"},
          insertSynchronization |-> {"placeEquivalents"}, cleanup |-> {}]
\* Those it sets anew.
Sets == [buildPDG |-> {},
         findSCC |-> {"used", "dag_added", "sccNum", "InstInSCC"},
         threadPartition |-> {"sccLatency", "assigned", "part"},
         getLiveinfo |-> {"defin", "livein", "liveout"},
         getDominators |-> {},
         preLoopSplit |-> {"replaceBlock", "allFunc", "argStructTy"},
         loopSplit |-> {}, insertSynchronization |-> {}, cleanup |-> {}]
\* Those of earlier phases that it reads; header stands for all that initialize
\* sets (pipeline.cpp:123-130).
Reads == [buildPDG |-> {"header"},
          findSCC |-> {"pdg", "rev"},
          threadPartition |-> {"sccNum", "sccId", "scc_parents", "scc_dependents"},
          getLiveinfo |-> {},
          getDominators |-> {"header"},
          preLoopSplit |-> {"header", "livein", "liveout"},
          loopSplit |-> {"header", "part", "InstInSCC", "rev", "assigned", "sccId", "idom",
                         "postidom", "livein", "liveout", "allFunc", "argStructTy"},
          insertSynchronization |-> {"header", "allEdges", "assigned", "sccId", "instMap",
                                     "newToOld"},
          cleanup |-> {"allFunc"}]
Fields == {"header"} \cup UNION {Fills[p] \cup Sets[p] : p \in DOMAIN Fills}

VARIABLES kind,          (* what each loop is                               *)
          place,         (* the function each loop is in                    *)
          visited,       (* the loops the manager has handed over           *)
          loop,          (* the one runOnLoop is called for                 *)
          phase,         (* the number of the next phase; 0 before them     *)
          fields,        (* the loops each field holds something of         *)
          loopCounter,   (* the number of the loop in hand                  *)
          made,          (* that of each loop with threads, 0 without       *)
          generated,     (* the numbers of the generated functions          *)
          split,         (* the loops replaced                              *)
          stopped        (* the compiler has come to an early end           *)

madeVars == <<loopCounter, made, generated, split>>
driverVars == <<kind, place, visited, loop, phase, fields, madeVars, stopped>>

Empty == [f \in Fields |-> {}]

Init == /\ kind \in [Loops -> Kinds]
        /\ place \in [Loops -> Functions]
        /\ visited = {}
        /\ loop = None
        /\ phase = 0
        /\ fields = Empty
        /\ loopCounter = 0
        /\ made = [l \in Loops |-> 0]
        /\ generated = {}
        /\ split = {}
        /\ stopped = FALSE

\* The function of a loop: those of the threads have the number of the loop in
\* their names, and a name there is already gets the function it has.
FunctionOf(x) == IF x[2] = "source" THEN place[x[1]] ELSE made[x[1]]

\* The manager goes on to another function when it is through with one; the
\* loops of the threads exist once the loop is split.
HandOver(x) ==
    /\ loop = None
    /\ ~stopped
    /\ x \notin visited
    /\ x[2] = "worker" => x[1] \in split
    /\ \A y \in visited : FunctionOf(y) = FunctionOf(x) \/
          \A z \in Places : FunctionOf(z) = FunctionOf(y) => z \in visited
    /\ visited' = visited \cup {x}
    /\ loop' = x
    /\ UNCHANGED <<kind, place, phase, fields, madeVars, stopped>>

Return == loop' = None /\ phase' = 0

\* Mutant: generated functions are not told from the others.
SkippedInner == kind[loop[1]] = "inner"

\* Only outermost loops are of interest, and none of generated code.
Skipped == kind[loop[1]] = "inner" \/ FunctionOf(loop) \in generated

\* runOnLoop up to the first phase (lines 146-156).
Initialize ==
    /\ loop # None
    /\ phase = 0
    /\ IF Skipped
       THEN Return /\ UNCHANGED <<fields, loopCounter>>
       ELSE /\ loopCounter' = loopCounter + 1
            /\ IF kind[loop[1]] = "bad"
               THEN Return /\ fields' = Empty
               ELSE phase' = 1 /\ fields' = [fields EXCEPT !["header"] = {loop}]
                    /\ UNCHANGED loop
    /\ UNCHANGED <<kind, place, visited, made, generated, split, stopped>>

AfterPhase(p) == [f \in Fields |-> IF f \in Sets[p] THEN {loop}
                                   ELSE IF f \in Fills[p] THEN fields[f] \cup {loop}
                                   ELSE fields[f]]

\* Mutant: the early return forgets the fields.
SingleKeeps(p) == fields' = AfterPhase(p)

\* "only one SCC, can't do nuttin" (lines 162-166).
Single(p) == fields' = Empty

\* The dominator trees lack the block that replaced a loop of the function.
Stale == \E l \in split : place[l] = place[loop[1]]

\* getDominators dereferences what the trees lack (CodeTransformation.cpp:490-505).
Fails(p) == kind[loop[1]] = p \/ (p = "getDominators" /\ Stale)

\* Mutant: an error is reported, and the loop given up.
StopReturns == /\ fields' = Empty /\ Return
               /\ UNCHANGED <<madeVars, stopped>>

\* error exits the process (Utils.cpp:15-18), as a null pointer does.
Stop == /\ stopped' = TRUE
        /\ UNCHANGED <<loop, phase, fields, madeVars>>

\* A phase that comes to its end; cleanup is followed by clear.
Complete(p) ==
    /\ IF p = "preLoopSplit"
       THEN /\ made' = [made EXCEPT ![loop[1]] = loopCounter]
            /\ generated' = generated \cup {loopCounter}
       ELSE UNCHANGED <<made, generated>>
    /\ split' = IF p = "cleanup" THEN split \cup {loop[1]} ELSE split
    /\ IF p = "findSCC" /\ kind[loop[1]] = "single"
       THEN Single(p) /\ Return
       ELSE IF p = "cleanup"
       THEN fields' = Empty /\ Return
       ELSE fields' = AfterPhase(p) /\ phase' = phase + 1 /\ UNCHANGED loop
    /\ UNCHANGED <<loopCounter, stopped>>

RunPhase ==
    /\ loop # None /\ phase > 0 /\ ~stopped
    /\ IF Fails(Phases[phase]) THEN Stop ELSE Complete(Phases[phase])
    /\ UNCHANGED <<kind, place, visited>>

Next == (\E x \in Places : HandOver(x)) \/ Initialize \/ RunPhase

Spec == Init /\ [][Next]_driverVars
-----------------------------------------------------------------------------
\* A phase reads what earlier phases found of the same loop, and nothing left
\* of another: every return of runOnLoop clears what it has filled.  From
\* getDominators on the trees are those of the function as it is.
FieldsFresh ==
    loop # None /\ phase > 0 =>
       /\ \A f \in Reads[Phases[phase]] : fields[f] = {loop}
       /\ \A f \in Fills[Phases[phase]] : fields[f] = {}
       /\ phase > 5 => ~Stale

\* The functions of the threads are not split again: generated is not cleared
\* between loops (line 149, CodeTransformation.cpp:73).
WorkersLeftAlone == phase > 0 => loop[2] = "source"

\* Whatever comes after the pass gets no loop half taken apart: who has threads
\* is replaced, and they are its own, because every way out of runOnLoop after
\* the functions are made either finishes the loop or ends the compiler, and
\* loopCounter is not cleared (CodeTransformation.cpp:62-74, 259, 635).
LoopsWhole ==
    loop = None => /\ \A l \in Loops : made[l] # 0 => l \in split
                   /\ \A l, m \in split : made[l] = made[m] => l = m
=============================================================================
