--------------------------- MODULE InsertConsume ---------------------------
(***************************************************************************)
(* insertConsume (CodeTransformation.cpp:658-750) and the list of uses it  *)
(* goes through: a value of thread 0 has dependents 1 .. NumUses, numbered *)
(* in program order, with copies in later threads that still read the old  *)
(* value; each call puts a consume before one copy and then walks the uses *)
(* of the old value to make a user in that thread read it instead.         *)
(*                                                                         *)
(* LLVM keeps the uses of a value with the newest first.  A use given      *)
(* another value moves to that value's list while the walk stands on it,   *)
(* so the walk goes on in the new list and comes to no other use.          *)
(***************************************************************************)
EXTENDS Integers, Sequences, FiniteSets

CONSTANTS NumUses,      (* the dependents                                   *)
          MAX_THREAD,   (* the number of threads                            *)
          MaxCopies,    (* bound: threads with a copy of one dependent      *)
          MayFold       (* the dependents that may be branches with equal   *)
                        (* targets, whose first copy stays outside any block *)

Uses == 1 .. NumUses
Later == 1 .. MAX_THREAD - 1

ASSUME UsesAssumption == /\ NumUses \in Nat \ {0}
                         /\ MAX_THREAD \in Nat \ {0}
                         /\ MayFold \subseteq Uses

VARIABLES order,        (* the n-th dependent a thread copies               *)
          copies,       (* the threads that copy each dependent             *)
          folded,       (* the copies that belong to no block               *)
          users,        (* the uses of the old value, newest first          *)
          source,       (* the consume each copy reads, once it does        *)
          calls,        (* the calls of insertConsume still to come         *)
          crashed

useVars == <<order, copies, folded, users, source, calls, crashed>>

Clones == {c \in Uses \X Later : c[2] \in copies[c[1]]}
Existing(c) == c[2] \in copies[c[1]]

\* The elements of a sequence that exist, in its order: SelectSeq, as a
\* function that can be reasoned about.
ThoseExisting(s) ==
    LET T[n \in 0 .. Len(s)] ==
            IF n = 0 THEN <<>>
            ELSE IF Existing(s[n]) THEN Append(T[n - 1], s[n]) ELSE T[n - 1]
    IN  T[Len(s)]

\* The copies as loopSplit makes them, thread by thread, the newest first;
\* and as the edges of the value come to insertConsume, use by use.
NewestFirst == [n \in 1 .. NumUses * (MAX_THREAD - 1) |->
                   <<order[NumUses - ((n - 1) % NumUses)],
                     MAX_THREAD - 1 - ((n - 1) \div NumUses)>>]
UseByUse == [n \in 1 .. NumUses * (MAX_THREAD - 1) |->
                <<NumUses - ((n - 1) \div (MAX_THREAD - 1)),
                  1 + ((n - 1) % (MAX_THREAD - 1))>>]

Init ==
    /\ order \in {o \in [Uses -> Uses] : \A v \in Uses : \E n \in Uses : o[n] = v}
    /\ copies \in [Uses -> {T \in SUBSET Later : Cardinality(T) <= MaxCopies}]
    /\ folded \in SUBSET {c \in Clones : c[1] \in MayFold}
    \* loopSplit copies thread by thread, a copy's use going to the front.
    /\ users = ThoseExisting(NewestFirst)
    /\ source = [c \in Clones |-> <<>>]
    \* The edges of a value were added in the order of its uses.
    /\ calls = ThoseExisting(UseByUse)
    /\ crashed = FALSE

\* Mutants: any user will do; only the newest user is looked at; the last
\* user of the thread is taken.
FoundAny(n) == n \in DOMAIN users
FoundNewest(n) == n = 1 /\ n \in DOMAIN users /\ users[n][2] % 10 = calls[1][2]
FoundOldest(n) == /\ n \in DOMAIN users
                  /\ users[n][2] % 10 = calls[1][2]
                  /\ \A k \in n + 1 .. Len(users) : users[k][2] % 10 # calls[1][2]

\* The n-th user is in a function whose name ends like that of the thread
\* of the call: the last digit is compared (line 707).
Found(n) == n \in DOMAIN users /\ users[n][2] % 10 = calls[1][2]

\* The users the walk comes to before one that is found, and that one.
Walked == {k \in DOMAIN users : \A n \in 1 .. k - 1 : ~Found(n)}

insertConsume ==
    /\ ~crashed
    /\ calls # <<>>
    /\ calls' = Tail(calls)
    /\ crashed' = (\E k \in Walked : users[k] \in folded)
    /\ LET hit == {k \in Walked : Found(k)}
       IN  IF hit = {} \/ crashed'
           THEN UNCHANGED <<users, source>>
           ELSE \E n \in hit :
                  /\ source' = [source EXCEPT ![users[n]] = calls[1]]
                  /\ users' = SubSeq(users, 1, n - 1) \o SubSeq(users, n + 1, Len(users))
    /\ UNCHANGED <<order, copies, folded>>

Spec == Init /\ [][insertConsume]_useVars
-----------------------------------------------------------------------------
Done == calls = <<>> /\ ~crashed

\* No copy is left with the value of the deleted loop, in whatever order the
\* threads copy their instructions (lines 696-717, 828-833).
AllReplaced == Done => \A c \in Clones : source[c] # <<>>

\* A copy reads a consume of its own function, and no consume twice.
ThreadsApart == \A c, d \in Clones : source[c] # <<>> =>
                   /\ source[c][2] = c[2]
                   /\ source[c] = source[d] => c = d

\* A copy reads the consume placed before it.
OwnConsume == \A c \in Clones : source[c] \in {<<>>, c}

\* It does when the threads copy the instructions in program order, as those
\* of one block are (lines 275-401).
OwnInProgramOrder == (\A n \in Uses : order[n] = n) => OwnConsume

\* The walk comes to instructions of functions only (line 707).
NoCrash == ~crashed
=============================================================================
