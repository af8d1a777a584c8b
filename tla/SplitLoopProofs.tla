-------------------------- MODULE SplitLoopProofs --------------------------
(***************************************************************************)
(* What a transformed loop guarantees: for any number of workers, channels *)
(* and iterations, any queue length, and any order of the produces and     *)
(* consumes within a worker; however long threads[] is, and whichever of   *)
(* the pthread_create calls fail.                                          *)
(***************************************************************************)
EXTENDS SplitLoop, BasicFacts, FiniteSetTheorems, SequenceTheorems, TLAPS

-----------------------------------------------------------------------------
(* The order of the operations in a worker                                  *)

LEMMA OpsFinite ==
  ASSUME NEW w \in Workers
  PROVE  IsFiniteSet(Channels(w)) /\ NumOps(w) \in Nat
<1>1. IsFiniteSet(Queues)
  BY SyncAssumption, FS_Interval DEF Queues
<1>2. Channels(w) \subseteq Queues
  BY DEF Channels
<1> QED BY <1>1, <1>2, FS_Subset, FS_CardinalityType DEF NumOps

\* order[w] numbers the operations of w from 1 to NumOps(w).
LEMMA OrderFacts ==
  ASSUME order \in Orders, NEW w \in Workers
  PROVE  /\ \A q \in Channels(w) : order[w][q] \in 1 .. NumOps(w)
         /\ \A q1, q2 \in Channels(w) : order[w][q1] = order[w][q2] => q1 = q2
         /\ \A n \in 1 .. NumOps(w) : \E q \in Channels(w) : order[w][q] = n
<1>1. order[w] \in Bijection(Channels(w), 1 .. NumOps(w))
  BY DEF Orders
<1> QED BY <1>1 DEF Bijection, Injection, Surjection, IsInjective

\* Every channel has a worker at each end, and they differ.
LEMMA Ends ==
  ASSUME NEW q \in Queues
  PROVE  /\ uthread[q] \in Workers /\ vthread[q] \in Workers
         /\ uthread[q] < vthread[q] /\ uthread[q] # vthread[q]
         /\ q \in Channels(uthread[q]) /\ q \in Channels(vthread[q])
  BY SplitAssumption DEF Channels, Workers

LEMMA RunFacts ==
  /\ \A x \in Execs, w \in Workers :
        <<x, w>> \in Runs /\ <<x, w>>[1] = x /\ <<x, w>>[2] = w
  /\ \A r \in Runs : r[1] \in Execs /\ r[2] \in Workers /\ r = <<r[1], r[2]>>
  BY DEF Runs

-----------------------------------------------------------------------------
(* The invariant                                                            *)

LEMMA InvInit == Init => IInv
<1> SUFFICES ASSUME Init PROVE IInv
  OBVIOUS
<1> USE SyncAssumption, SplitAssumption DEF Init, SyncStart
<1>1. exec = 1 /\ exec \in Execs
  BY DEF Execs
<1>2. TypeOK
  <2>1. \A r \in Runs : pos[r] \in 1 .. NumOps(r[2]) + 1
    BY OpsFinite, RunFacts
  <2>2. data_queues \in [Queues -> Seq(Elems)]
    BY EmptySeq
  <2>3. iter \in [Runs -> 0 .. MaxTrips]
    OBVIOUS
  <2> QED BY <1>1, <2>1, <2>2, <2>3 DEF TypeOK
<1>3. MasterInv
  BY DEF MasterInv, Queues
<1>4. \A r \in Runs : ~Started(r)
  BY RunFacts DEF Started, Execs
<1>5. RunInv
  <2>1. \A r \in Runs : trips[r[1]] \in 1 .. MaxTrips
    BY RunFacts
  <2> QED BY <1>4, <2>1 DEF RunInv
<1>6. JoinInv
  BY DEF JoinInv
<1>7. QueueInv
  <2> SUFFICES ASSUME NEW q \in Queues
               PROVE  /\ Produced(q) - Consumed(q) \in 0 .. QUEUE_MAXLEN
                      /\ Len(data_queues[q]) = Produced(q) - Consumed(q)
                      /\ \A i \in 1 .. Len(data_queues[q]) :
                            \/ data_queues[q][i] = <<exec, Consumed(q) + i>>
                            \/ Stray(q, data_queues[q][i])
    BY DEF QueueInv
  <2>1. Produced(q) = 0 /\ Consumed(q) = 0
    <3>1. order[uthread[q]][q] >= 1 /\ order[vthread[q]][q] >= 1
          /\ order[uthread[q]][q] \in Int /\ order[vthread[q]][q] \in Int
      BY Ends, OrderFacts, OpsFinite
    <3> QED BY <1>1, <3>1, Ends, RunFacts DEF Produced, Consumed, Made
  <2> QED BY <2>1
<1> QED BY <1>2, <1>3, <1>5, <1>6, <1>7 DEF IInv

\* Before the workers of an execution are created they have done nothing.
LEMMA NoneMade ==
  ASSUME IInv, master = "init", NEW q \in Queues
  PROVE  Produced(q) = 0 /\ Consumed(q) = 0
<1> USE DEF IInv
<1>1. ASSUME NEW r \in Runs, r[1] = exec
      PROVE  iter[r] = 0 /\ pos[r] = 1
  <2>1. ~Started(r)
    BY <1>1, RunFacts DEF Started, TypeOK, Execs
  <2> QED BY <2>1 DEF RunInv
<1>2. order[uthread[q]][q] >= 1 /\ order[vthread[q]][q] >= 1
      /\ order[uthread[q]][q] \in Int /\ order[vthread[q]][q] \in Int
  BY Ends, OrderFacts, OpsFinite DEF TypeOK
<1>3. exec \in Execs
  BY DEF TypeOK
<1> QED BY <1>1, <1>2, <1>3, Ends, RunFacts DEF Produced, Consumed, Made

\* The parts of the invariant that look at nothing the step changes.
LEMMA QueueInvKept ==
  ASSUME QueueInv, UNCHANGED <<data_queues, exec, iter, pos, order>>,
         \A q \in Queues : Leftover(q) => Leftover(q)'
  PROVE  QueueInv'
<1>1. \A q \in Queues : Produced(q)' = Produced(q) /\ Consumed(q)' = Consumed(q)
  BY DEF Produced, Consumed, Made
<1>2. Undisturbed' = Undisturbed
  BY DEF Undisturbed
<1> SUFFICES ASSUME NEW q \in Queues, Undisturbed', ~Leftover(q)'
             PROVE  /\ Produced(q)' - Consumed(q)' \in 0 .. QUEUE_MAXLEN
                    /\ Len(data_queues'[q]) = Produced(q)' - Consumed(q)'
                    /\ \A i \in 1 .. Len(data_queues'[q]) :
                          \/ data_queues'[q][i] = <<exec', Consumed(q)' + i>>
                          \/ Stray(q, data_queues'[q][i])
  BY DEF QueueInv, Stray
<1> QED BY <1>1, <1>2 DEF QueueInv, Stray

LEMMA StepInitQueue == IInv /\ InitQueue => IInv'
<1> SUFFICES ASSUME IInv, InitQueue PROVE IInv'
  OBVIOUS
<1> USE DEF InitQueue, sync_init, workerVars, fixed
<1>1. data_queues' = [data_queues EXCEPT ![next] = <<>>]
  OBVIOUS
<1>2. /\ next \in Queues /\ exec' = exec
      /\ \/ next' = next + 1 /\ master' = "init" /\ next + 1 < NUM_QUEUES
         \/ next' = 0 /\ master' = "delegate" /\ next + 1 >= NUM_QUEUES
  BY SyncAssumption DEF Advance, IInv, MasterInv, Queues
<1>3. \A r \in Runs : Started(r)' <=> Started(r)
  BY <1>2, RunFacts DEF Started, Execs, Workers
<1>4. TypeOK'
  <2>1. next' \in Nat /\ master' \in {"init", "delegate"}
    BY <1>2, SyncAssumption DEF Queues
  <2>2. data_queues' \in [Queues -> Seq(Elems)]
    BY <1>1, EmptySeq DEF IInv, TypeOK
  <2> QED BY <1>2, <2>1, <2>2 DEF IInv, TypeOK
<1>5. MasterInv'
  BY <1>2, SyncAssumption, SplitAssumption DEF MasterInv, Queues, Workers
<1>6. RunInv'
  BY <1>2, <1>3 DEF IInv, RunInv
<1>7. JoinInv'
  BY DEF IInv, JoinInv
<1>8. QueueInv'
  <2> SUFFICES ASSUME NEW q \in Queues, Undisturbed', ~Leftover(q)'
               PROVE  /\ Produced(q)' - Consumed(q)' \in 0 .. QUEUE_MAXLEN
                      /\ Len(data_queues'[q]) = Produced(q)' - Consumed(q)'
                      /\ \A i \in 1 .. Len(data_queues'[q]) :
                            \/ data_queues'[q][i] = <<exec', Consumed(q)' + i>>
                            \/ Stray(q, data_queues'[q][i])
    BY DEF QueueInv, Stray
  <2>1. Produced(q)' = 0 /\ Consumed(q)' = 0 /\ Produced(q) = 0 /\ Consumed(q) = 0
    BY <1>2, NoneMade DEF Produced, Consumed, Made
  <2>2. Len(data_queues'[q]) = 0
    <3>1. CASE q = next
      BY <1>1, <3>1 DEF IInv, TypeOK
    <3>2. CASE q # next
      <4>1. data_queues'[q] = data_queues[q]
        BY <1>1, <3>2 DEF IInv, TypeOK
      <4>2. ~Leftover(q)
        BY <1>2, <3>2, SyncAssumption DEF Leftover, Queues
      <4>3. Undisturbed
        BY <1>2 DEF Undisturbed
      <4> QED BY <2>1, <4>1, <4>2, <4>3 DEF IInv, QueueInv
    <3> QED BY <3>1, <3>2
  <2> QED BY <2>1, <2>2, SyncAssumption
<1> QED BY <1>4, <1>5, <1>6, <1>7, <1>8 DEF IInv

\* What a write past the end of threads[] leaves of the queues.
LEMMA ClobberedFacts ==
  ASSUME data_queues \in [Queues -> Seq(Elems)], NEW d \in Clobbered
  PROVE  /\ d \in [Queues -> Seq(Elems)]
         /\ \A q \in Queues :
               /\ Len(d[q]) = Len(data_queues[q])
               /\ \A i \in 1 .. Len(d[q]) :
                     d[q][i] = data_queues[q][i] \/ (q = 0 /\ d[q][i] = Garbage)
<1>1. CASE d = data_queues
  BY <1>1
<1>2. ASSUME NEW i \in DOMAIN data_queues[0], d = [data_queues EXCEPT ![0][i] = Garbage]
      PROVE  /\ d \in [Queues -> Seq(Elems)]
             /\ \A q \in Queues :
                   /\ Len(d[q]) = Len(data_queues[q])
                   /\ \A j \in 1 .. Len(d[q]) :
                         d[q][j] = data_queues[q][j] \/ (q = 0 /\ d[q][j] = Garbage)
  <2>1. 0 \in Queues /\ data_queues[0] \in Seq(Elems)
    BY SyncAssumption DEF Queues
  <2> DEFINE s == [data_queues[0] EXCEPT ![i] = Garbage]
             n == Len(data_queues[0])
  <2>2. /\ data_queues[0] \in [1 .. n -> Elems] /\ n \in Nat /\ DOMAIN data_queues[0] = 1 .. n
    BY <2>1
  <2> HIDE DEF n
  <2>3. s \in [1 .. n -> Elems] /\ Garbage \in Elems
    BY <1>2, <2>2 DEF Elems
  <2>4. \A j \in 1 .. n : s[j] = data_queues[0][j] \/ s[j] = Garbage
    BY <1>2, <2>2
  <2>5. d = [data_queues EXCEPT ![0] = s]
    BY <1>2
  <2> HIDE DEF s
  <2>6. s \in Seq(Elems) /\ Len(s) = n
    BY <2>2, <2>3, IsASeq
  <2>7. d \in [Queues -> Seq(Elems)] /\ d[0] = s /\ \A q \in Queues \ {0} : d[q] = data_queues[q]
    BY <2>1, <2>5, <2>6
  <2>8. ASSUME NEW q \in Queues
        PROVE  /\ Len(d[q]) = Len(data_queues[q])
               /\ \A j \in 1 .. Len(d[q]) :
                     d[q][j] = data_queues[q][j] \/ (q = 0 /\ d[q][j] = Garbage)
    <3>1. CASE q = 0
      BY <2>4, <2>6, <2>7, <3>1 DEF n
    <3>2. CASE q # 0
      BY <2>7, <3>2
    <3> QED BY <3>1, <3>2
  <2> QED BY <2>7, <2>8
<1>3. 0 \in Queues
  BY SyncAssumption DEF Queues
<1> QED BY <1>1, <1>2, <1>3 DEF Clobbered

LEMMA StepDelegate == IInv /\ Delegate => IInv'
<1> SUFFICES ASSUME IInv, Delegate PROVE IInv'
  OBVIOUS
<1> USE DEF Delegate, workerVars, fixed
<1> DEFINE h == <<exec, next>>
<1>1. /\ next \in Workers /\ next \in Nat /\ exec \in Execs /\ exec' = exec /\ h \in Runs
      /\ h[1] = exec /\ h[2] = next
      /\ data_queues \in [Queues -> Seq(Elems)]
  BY RunFacts, SplitAssumption DEF IInv, MasterInv, TypeOK, Workers
<1>2. /\ failures' \in 0 .. MaxFailures
      /\ \/ alive' = alive \cup {h} /\ failures' = failures
         \/ alive' = alive /\ failures' > 0
  BY SyncAssumption DEF sync_delegate, Created, NotCreated, IInv, TypeOK
<1>3. \/ next' = next + 1 /\ master' = "delegate" /\ next + 1 < MAX_THREAD
      \/ next' = 0 /\ master' = "join" /\ next + 1 = MAX_THREAD
  BY <1>1, SplitAssumption DEF Advance, Workers
<1>4. /\ threads' \in [0 .. NUM_THREADS - 1 -> Runs \cup {NoThread}]
      /\ \A i \in 0 .. NUM_THREADS - 1 : i # next => threads'[i] = threads[i]
      /\ next < NUM_THREADS /\ h \in alive' \ alive => threads'[next] = h
  <2>1. threads \in [0 .. NUM_THREADS - 1 -> Runs \cup {NoThread}]
    BY DEF IInv, TypeOK
  <2>2. next < NUM_THREADS => next \in 0 .. NUM_THREADS - 1
    BY <1>1, SyncAssumption
  <2>3. CASE Created(next, h)
    BY <1>1, <2>1, <2>2, <2>3 DEF Created
  <2>4. CASE NotCreated(next, h)
    BY <1>1, <2>1, <2>2, <2>4 DEF NotCreated
  <2> QED BY <2>3, <2>4 DEF sync_delegate
<1>5. /\ data_queues' \in [Queues -> Seq(Elems)]
      /\ \A q \in Queues :
            /\ Len(data_queues'[q]) = Len(data_queues[q])
            /\ \A i \in 1 .. Len(data_queues'[q]) :
                  \/ data_queues'[q][i] = data_queues[q][i]
                  \/ Stray(q, data_queues'[q][i])
  <2>1. \/ data_queues' = data_queues
        \/ ~(next < NUM_THREADS) /\ data_queues' \in Clobbered
    BY DEF sync_delegate, Created, NotCreated
  <2>2. ~(next < NUM_THREADS) => Joinable # Workers
    BY <1>1 DEF Joinable
  <2> QED BY <1>1, <2>1, <2>2, ClobberedFacts DEF Stray
<1>6. \A r \in Runs : Started(r)' <=> Started(r) \/ r = h
  <2> TAKE r \in Runs
  <2>1. r[1] \in Execs /\ r[2] \in Workers /\ r = <<r[1], r[2]>>
    BY RunFacts
  <2>2. CASE r[1] = exec
    BY <1>1, <1>3, <2>1, <2>2, SplitAssumption DEF Started, Workers, Execs
  <2>3. CASE r[1] # exec
    BY <1>1, <1>3, <2>1, <2>3 DEF Started
  <2> QED BY <2>2, <2>3
<1>7. h \notin alive /\ h \notin stored
  <2>1. ~Started(h)
    BY <1>1, RunFacts DEF Started, Execs, Workers
  <2> QED BY <1>1, <2>1 DEF IInv, RunInv
<1>8. TypeOK'
  <2>1. next' \in Nat /\ master' \in {"delegate", "join"} /\ alive' \subseteq Runs
    <3>1. alive \subseteq Runs
      BY DEF IInv, TypeOK
    <3> QED BY <1>1, <1>2, <1>3, <3>1
  <2> QED BY <1>1, <1>2, <1>4, <1>5, <2>1 DEF IInv, TypeOK
<1>9. MasterInv'
  BY <1>1, <1>3, SyncAssumption, SplitAssumption DEF MasterInv, Workers
<1>10. RunInv'
  <2> SUFFICES ASSUME NEW r \in Runs
               PROVE  /\ r \notin alive' \cup stored => iter[r] = 0 /\ pos[r] = 1
                      /\ r \in alive' \cup stored => Started(r)'
                      /\ failures' = 0 /\ Started(r)' => r \in alive' \cup stored
                      /\ r \in alive' => r \notin stored
    BY DEF IInv, RunInv
  <2>1. failures' = 0 => alive' = alive \cup {h} /\ failures = 0
    BY <1>2
  <2>2. /\ r \notin alive \cup stored => iter[r] = 0 /\ pos[r] = 1
        /\ r \in alive \cup stored => Started(r)
        /\ failures = 0 /\ Started(r) => r \in alive \cup stored
        /\ r \in alive => r \notin stored
    BY DEF IInv, RunInv
  <2> HIDE DEF h
  <2> QED BY <1>2, <1>6, <1>7, <2>1, <2>2
<1>11. JoinInv'
  <2> SUFFICES ASSUME NEW r \in alive', r[2] \in Joinable
               PROVE  /\ r[1] = exec /\ threads'[r[2]] = r
                      /\ master' \in {"delegate", "join"}
                      /\ master' = "join" => next' <= r[2]
    BY <1>1 DEF JoinInv, Joinable
  <2>1. r[2] \in 0 .. NUM_THREADS - 1
    BY SyncAssumption, SplitAssumption DEF Joinable, Workers
  <2>2. CASE r \in alive
    <3>1. r[1] = exec /\ threads[r[2]] = r /\ r \in Runs
      BY <2>2 DEF IInv, JoinInv, TypeOK
    <3>2. r[2] # next
      BY <1>7, <2>2, <3>1, RunFacts
    <3> QED BY <1>3, <1>4, <2>1, <3>1, <3>2
  <2>3. CASE r \notin alive
    <3>1. r = h /\ h \in alive' \ alive
      BY <1>2, <2>3
    <3>2. next < NUM_THREADS
      BY <1>1, <2>1, <3>1, SyncAssumption
    <3>3. threads'[next] = h
      BY <1>4, <3>1, <3>2
    <3> QED BY <1>1, <1>3, <3>1, <3>3, SplitAssumption
  <2> QED BY <2>2, <2>3
<1>12. QueueInv'
  <2>1. \A q \in Queues : Produced(q)' = Produced(q) /\ Consumed(q)' = Consumed(q)
    BY <1>1 DEF Produced, Consumed, Made
  <2>2. Undisturbed' = Undisturbed /\ \A q \in Queues : ~Leftover(q)
    BY <1>1 DEF Undisturbed, Leftover
  <2> QED BY <1>1, <1>5, <2>1, <2>2 DEF IInv, QueueInv, Stray
<1> QED BY <1>8, <1>9, <1>10, <1>11, <1>12 DEF IInv

LEMMA StepJoin == IInv /\ Join => IInv'
<1> SUFFICES ASSUME IInv, Join PROVE IInv'
  OBVIOUS
<1> USE DEF Join, sync_join, syncVars, workerVars, fixed
<1>1. /\ next \in 0 .. NUM_THREADS - 1 /\ exec \in Execs /\ exec' = exec
      /\ \/ next' = next + 1 /\ master' = "join" /\ next + 1 < NUM_THREADS
         \/ next' = 0 /\ master' = "load" /\ next + 1 = NUM_THREADS
  BY SyncAssumption DEF IInv, MasterInv, TypeOK, Advance
<1>2. \A r \in Runs : Started(r)' <=> Started(r)
  BY <1>1 DEF Started
<1>3. TypeOK'
  BY <1>1, SyncAssumption DEF IInv, TypeOK
<1>4. MasterInv'
  BY <1>1, SyncAssumption DEF MasterInv
<1>5. RunInv'
  BY <1>1, <1>2 DEF IInv, RunInv
<1>6. JoinInv'
  <2> SUFFICES ASSUME NEW r \in alive, r[2] \in Joinable
               PROVE  /\ r[1] = exec /\ threads[r[2]] = r
                      /\ master' \in {"delegate", "join"}
                      /\ master' = "join" => next' <= r[2]
    BY <1>1 DEF JoinInv, Joinable
  <2>1. r[1] = exec /\ threads[r[2]] = r /\ next <= r[2] /\ r \in Runs
    BY DEF IInv, JoinInv, TypeOK
  <2>2. r[2] # next
    BY <2>1, NoThreadAssumption
  <2>3. r[2] \in Nat /\ r[2] < NUM_THREADS
    BY SplitAssumption DEF Joinable, Workers
  <2> QED BY <1>1, <2>1, <2>2, <2>3, SyncAssumption
<1>7. QueueInv'
  BY <1>1, QueueInvKept DEF IInv, Leftover
<1> QED BY <1>3, <1>4, <1>5, <1>6, <1>7 DEF IInv

\* The liveouts are loaded: no worker that can be joined is left, and a new
\* execution finds its runs unstarted.
LEMMA StepLoad == IInv /\ Load => IInv'
<1> SUFFICES ASSUME IInv, Load PROVE IInv'
  OBVIOUS
<1> USE DEF Load, syncVars, workerVars, fixed
<1>1. /\ next = 0 /\ next' = 0 /\ exec \in Execs /\ exec' \in Execs
      /\ \/ master' = "init" /\ exec' = exec + 1
         \/ master' = "done" /\ exec' = exec
  BY SplitAssumption DEF IInv, MasterInv, TypeOK, Execs
<1>2. \A r \in Runs : Started(r)' <=> Started(r)
  BY <1>1, RunFacts DEF Started, Execs
<1>3. \A r \in alive : r[2] \notin Joinable
  BY DEF IInv, JoinInv
<1>4. TypeOK'
  BY <1>1, SyncAssumption, SplitAssumption DEF IInv, TypeOK
<1>5. MasterInv'
  BY <1>1, SyncAssumption DEF MasterInv, Queues
<1>6. RunInv'
  BY <1>1, <1>2 DEF IInv, RunInv
<1>7. JoinInv'
  BY <1>3 DEF JoinInv, Joinable
<1>8. QueueInv'
  <2>1. CASE exec' = exec
    BY <1>1, <2>1, QueueInvKept DEF IInv, Leftover
  <2>2. CASE exec' = exec + 1
    <3> SUFFICES ASSUME NEW q \in Queues, Undisturbed', ~Leftover(q)'
                 PROVE  Produced(q)' = 0 /\ Consumed(q)' = 0 /\ Len(data_queues[q]) = 0
      BY SyncAssumption DEF QueueInv
    <3>1. /\ order[uthread[q]][q] \in Int /\ order[uthread[q]][q] >= 1
          /\ order[vthread[q]][q] \in Int /\ order[vthread[q]][q] >= 1
      BY Ends, OrderFacts, OpsFinite DEF IInv, TypeOK
    <3>2. \A w \in Workers : iter[<<exec', w>>] = 0 /\ pos[<<exec', w>>] = 1
      <4> TAKE w \in Workers
      <4>1. <<exec', w>> \in Runs /\ ~Started(<<exec', w>>)
        BY <1>1, <2>2, RunFacts DEF Started, Execs
      <4> QED BY <4>1 DEF IInv, RunInv
    <3>3. Produced(q)' = 0 /\ Consumed(q)' = 0
      BY <1>1, <3>1, <3>2, Ends, RunFacts DEF Produced, Consumed, Made
    <3>4. Joinable = Workers
      BY <1>1, <2>2 DEF Undisturbed, Joinable, Execs
    <3>5. failures = 0
      <4>1. failures \in Nat /\ q \in Nat
        BY SyncAssumption DEF IInv, TypeOK, Queues
      <4> QED BY <1>1, <2>2, <4>1 DEF Leftover, Execs
    <3>6. \A w \in Workers : <<exec, w>> \in stored /\ <<exec, w>> \in Runs
      <4> TAKE w \in Workers
      <4>1. <<exec, w>> \in Runs /\ <<exec, w>>[2] = w /\ Started(<<exec, w>>)
        BY <1>1, RunFacts DEF Started
      <4>2. <<exec, w>> \notin alive
        BY <1>3, <3>4, <4>1
      <4> QED BY <3>5, <4>1, <4>2 DEF IInv, RunInv
    <3>7. \A w \in Workers : iter[<<exec, w>>] = trips[exec] /\ pos[<<exec, w>>] = 1
      BY <1>1, <3>6, RunFacts DEF IInv, RunInv
    <3>8. trips[exec] \in Int
      BY <1>1 DEF IInv, TypeOK
    <3>9. Produced(q) = trips[exec] /\ Consumed(q) = trips[exec]
      BY <1>1, <3>1, <3>7, <3>8, Ends, RunFacts DEF Produced, Consumed, Made
    <3>10. Undisturbed /\ ~Leftover(q)
      BY <3>4 DEF Undisturbed, Leftover
    <3> QED BY <3>3, <3>8, <3>9, <3>10 DEF IInv, QueueInv
  <2> QED BY <1>1, <2>1, <2>2
<1> QED BY <1>4, <1>5, <1>6, <1>7, <1>8 DEF IInv

\* A run that goes past its operation on q has been through it once more, and
\* nothing else is counted anew.
LEMMA MadeOneMore ==
  ASSUME TypeOK, NEW r \in Runs, NEW q \in Queues, At(r, q),
         pos' = [pos EXCEPT ![r] = @ + 1], UNCHANGED <<iter, order>>
  PROVE  /\ Made(r, q) = iter[r] /\ Made(r, q)' = iter[r] + 1
         /\ \A s \in Runs : \A p \in Channels(s[2]) :
               (s # r \/ p # q) => Made(s, p)' = Made(s, p)
<1>1. /\ q \in Channels(r[2]) /\ order[r[2]][q] = pos[r]
      /\ pos[r] \in Nat /\ pos'[r] = pos[r] + 1 /\ iter[r] \in Nat
  BY OpsFinite, RunFacts DEF At, TypeOK
<1>2. ASSUME NEW s \in Runs, NEW p \in Channels(s[2]), s # r \/ p # q
      PROVE  Made(s, p)' = Made(s, p)
  <2>1. CASE s # r
    BY <2>1 DEF Made, TypeOK
  <2>2. CASE s = r
    <3>1. order[r[2]][p] # pos[r] /\ order[r[2]][p] \in Nat
      BY <1>1, <1>2, <2>2, RunFacts, OrderFacts, OpsFinite DEF TypeOK
    <3> QED BY <1>1, <2>2, <3>1 DEF Made
  <2> QED BY <2>1, <2>2
<1>3. Made(r, q) = iter[r] /\ Made(r, q)' = iter[r] + 1
  BY <1>1 DEF Made
<1> QED BY <1>2, <1>3

\* What holds of a run that takes a step, whatever the step.
LEMMA AliveFacts ==
  ASSUME IInv, NEW r \in alive
  PROVE  /\ r \in Runs /\ r[1] \in Execs /\ r[2] \in Workers
         /\ Started(r) /\ r \notin stored
         /\ iter[r] \in Nat /\ pos[r] \in Nat /\ NumOps(r[2]) \in Nat
         /\ trips[r[1]] \in 1 .. MaxTrips /\ exec \in Execs
  BY RunFacts, OpsFinite DEF IInv, RunInv, TypeOK

\* Only threads that cannot be joined outlive their execution.
LEMMA AliveNow ==
  ASSUME IInv, Undisturbed, NEW r \in alive
  PROVE  r[1] = exec /\ r = <<exec, r[2]>>
<1>1. r \in Runs /\ r[1] \in Execs /\ r[2] \in Workers /\ Started(r) /\ exec \in Execs
  BY AliveFacts
<1>2. CASE exec = 1
  BY <1>1, <1>2, RunFacts DEF Started, Execs
<1>3. CASE Joinable = Workers
  BY <1>1, <1>3, RunFacts DEF IInv, JoinInv
<1> QED BY <1>2, <1>3 DEF Undisturbed

\* The parts a produce and a consume leave alone or leave true.
LEMMA OpKeeps ==
  ASSUME IInv, NEW r \in alive, NEW q \in Queues, At(r, q),
         pos' = [pos EXCEPT ![r] = @ + 1],
         data_queues' \in [Queues -> Seq(Elems)],
         UNCHANGED <<threads, alive, failures, iter, stored, masterVars, fixed>>
  PROVE  TypeOK' /\ MasterInv' /\ RunInv' /\ JoinInv'
<1> USE DEF masterVars, fixed
<1>1. /\ r \in Runs /\ pos[r] \in 1 .. NumOps(r[2]) /\ NumOps(r[2]) \in Nat
      /\ iter[r] < trips[r[1]]
  BY AliveFacts, OrderFacts DEF At, IInv, TypeOK
<1>2. TypeOK'
  <2>1. \A s \in Runs : pos'[s] \in 1 .. NumOps(s[2]) + 1
    BY <1>1 DEF IInv, TypeOK
  <2>2. pos' \in [Runs -> Nat]
    BY <1>1 DEF IInv, TypeOK
  <2> QED BY <2>1, <2>2 DEF IInv, TypeOK
<1>3. MasterInv'
  BY DEF IInv, MasterInv
<1>4. \A s \in Runs : Started(s)' <=> Started(s)
  BY DEF Started
<1>5. RunInv'
  <2> SUFFICES ASSUME NEW s \in Runs
               PROVE  /\ s \notin alive \cup stored => iter[s] = 0 /\ pos'[s] = 1
                      /\ iter[s] = trips[s[1]] => pos'[s] = 1
    BY <1>4 DEF IInv, RunInv
  <2>1. CASE s = r
    BY <1>1, <1>4, <2>1, AliveFacts DEF IInv, TypeOK
  <2>2. CASE s # r
    <3>1. pos'[s] = pos[s]
      BY <2>2 DEF IInv, TypeOK
    <3> QED BY <3>1 DEF IInv, RunInv
  <2> QED BY <2>1, <2>2
<1>6. JoinInv'
  BY DEF IInv, JoinInv, Joinable
<1> QED BY <1>2, <1>3, <1>5, <1>6

LEMMA ProducedConsumedType ==
  ASSUME IInv, NEW q \in Queues
  PROVE  Produced(q) \in Nat /\ Consumed(q) \in Nat
<1>1. \A w \in Workers : iter[<<exec, w>>] \in Nat
  BY RunFacts, SplitAssumption DEF IInv, TypeOK
<1> QED BY <1>1, Ends DEF Produced, Consumed, Made

LEMMA StepProduce ==
  ASSUME IInv, NEW r \in alive, NEW q \in Queues, Produce(r, q)
  PROVE  IInv'
<1>1. /\ r \in Runs /\ At(r, q) /\ uthread[q] = r[2] /\ r[1] \in Execs
      /\ UNCHANGED <<exec, iter, order, trips>>
      /\ data_queues' = [data_queues EXCEPT ![q] = Append(@, <<r[1], iter[r] + 1>>)]
      /\ Len(data_queues[q]) < QUEUE_MAXLEN
      /\ pos' = [pos EXCEPT ![r] = @ + 1]
      /\ UNCHANGED <<threads, alive, failures, iter, stored, masterVars, fixed>>
  BY AliveFacts DEF Produce, sync_produce, masterVars, fixed
<1>2. Undisturbed =>
      /\ r[1] = exec
      /\ Produced(q) = iter[r] /\ Produced(q)' = iter[r] + 1 /\ Consumed(q)' = Consumed(q)
      /\ \A p \in Queues : p # q => Produced(p)' = Produced(p) /\ Consumed(p)' = Consumed(p)
  <2> SUFFICES ASSUME Undisturbed
               PROVE  /\ r[1] = exec
                      /\ Produced(q) = iter[r] /\ Produced(q)' = iter[r] + 1 /\ Consumed(q)' = Consumed(q)
                      /\ \A p \in Queues : p # q =>
                            Produced(p)' = Produced(p) /\ Consumed(p)' = Consumed(p)
    OBVIOUS
  <2>0. r[1] = exec /\ r = <<exec, r[2]>>
    BY AliveNow
  <2>1. \A p \in Queues : /\ <<exec, uthread[p]>> \in Runs /\ <<exec, vthread[p]>> \in Runs
                          /\ <<exec, uthread[p]>>[2] = uthread[p]
                          /\ <<exec, vthread[p]>>[2] = vthread[p]
    BY AliveFacts, Ends, RunFacts
  <2>2. <<exec, vthread[q]>> # r
    BY <1>1, <2>0, Ends
  <2>3. /\ Made(r, q) = iter[r] /\ Made(r, q)' = iter[r] + 1
        /\ \A s \in Runs : \A p \in Channels(s[2]) :
              (s # r \/ p # q) => Made(s, p)' = Made(s, p)
    <3>1. TypeOK
      BY DEF IInv
    <3> QED BY <1>1, <3>1, MadeOneMore
  <2>4. \A p \in Queues : p # q =>
           /\ Made(<<exec, uthread[p]>>, p)' = Made(<<exec, uthread[p]>>, p)
           /\ Made(<<exec, vthread[p]>>, p)' = Made(<<exec, vthread[p]>>, p)
    BY <1>1, <2>1, <2>3, Ends
  <2>5. Made(<<exec, vthread[q]>>, q)' = Made(<<exec, vthread[q]>>, q)
    BY <1>1, <2>1, <2>2, <2>3, Ends
  <2> QED BY <1>1, <2>0, <2>3, <2>4, <2>5 DEF Produced, Consumed
<1>3. <<r[1], iter[r] + 1>> \in Elems
  BY <1>1, AliveFacts, SplitAssumption DEF At, Elems
<1>4. data_queues' \in [Queues -> Seq(Elems)]
  BY <1>1, <1>3, AppendProperties DEF IInv, TypeOK
<1>5. TypeOK' /\ MasterInv' /\ RunInv' /\ JoinInv'
  BY <1>1, <1>4, OpKeeps
<1>6. QueueInv'
  <2> SUFFICES ASSUME NEW p \in Queues, Undisturbed', ~Leftover(p)'
               PROVE  /\ Produced(p)' - Consumed(p)' \in 0 .. QUEUE_MAXLEN
                      /\ Len(data_queues'[p]) = Produced(p)' - Consumed(p)'
                      /\ \A i \in 1 .. Len(data_queues'[p]) :
                            \/ data_queues'[p][i] = <<exec, Consumed(p)' + i>>
                            \/ Stray(p, data_queues'[p][i])
    BY <1>1 DEF QueueInv, Stray
  <2>0. Undisturbed /\ ~Leftover(p)
    BY <1>1 DEF Undisturbed, Leftover, masterVars
  <2>1. CASE p # q
    <3>1. data_queues'[p] = data_queues[p]
      BY <1>1, <2>1 DEF IInv, TypeOK
    <3> QED BY <1>2, <2>0, <2>1, <3>1 DEF IInv, QueueInv
  <2>2. CASE p = q
    <3> DEFINE s == data_queues[q]
               e == <<r[1], iter[r] + 1>>
    <3>1. /\ data_queues'[p] = Append(s, e) /\ s \in Seq(Elems)
          /\ Len(s) < QUEUE_MAXLEN /\ Len(s) \in Nat
      BY <1>1, <2>2 DEF IInv, TypeOK
    <3>2. /\ Len(s) = Produced(q) - Consumed(q)
          /\ \A i \in 1 .. Len(s) : s[i] = <<exec, Consumed(q) + i>> \/ Stray(q, s[i])
      BY <2>0, <2>2 DEF IInv, QueueInv
    <3> HIDE DEF s
    <3>3. /\ Len(Append(s, e)) = Len(s) + 1
          /\ \A i \in 1 .. Len(s) : Append(s, e)[i] = s[i]
          /\ Append(s, e)[Len(s) + 1] = e
      BY <1>3, <3>1, AppendProperties
    <3>4. Produced(q) \in Nat /\ Consumed(q) \in Nat
      BY ProducedConsumedType
    <3>5. /\ Produced(p)' = Produced(q) + 1 /\ Consumed(p)' = Consumed(q)
          /\ e = <<exec, Consumed(q) + (Len(s) + 1)>>
      BY <1>2, <2>0, <2>2, <3>2, <3>4
    <3> HIDE DEF e
    <3>6. Len(data_queues'[p]) = Len(s) + 1
      BY <3>1, <3>3
    <3>7. ASSUME NEW i \in 1 .. Len(s) + 1
          PROVE  data_queues'[p][i] = <<exec, Consumed(q) + i>> \/ Stray(p, data_queues'[p][i])
      <4>1. CASE i = Len(s) + 1
        BY <3>1, <3>3, <3>5, <4>1
      <4>2. CASE i # Len(s) + 1
        <5>1. i \in 1 .. Len(s)
          BY <3>1, <4>2
        <5> QED BY <2>2, <3>1, <3>2, <3>3, <5>1
      <4> QED BY <4>1, <4>2
    <3>8. /\ Produced(p)' - Consumed(p)' = Len(s) + 1
          /\ Len(s) + 1 \in 0 .. QUEUE_MAXLEN
      BY <3>1, <3>2, <3>4, <3>5, SyncAssumption
    <3> QED BY <3>5, <3>6, <3>7, <3>8
  <2> QED BY <2>1, <2>2
<1> QED BY <1>5, <1>6 DEF IInv

LEMMA StepConsume ==
  ASSUME IInv, NEW r \in alive, NEW q \in Queues, Consume(r, q)
  PROVE  IInv'
<1>1. /\ r \in Runs /\ At(r, q) /\ vthread[q] = r[2] /\ r[1] \in Execs
      /\ UNCHANGED <<exec, iter, order, trips>>
      /\ data_queues' = [data_queues EXCEPT ![q] = Tail(@)] /\ data_queues[q] # <<>>
      /\ pos' = [pos EXCEPT ![r] = @ + 1]
      /\ UNCHANGED <<threads, alive, failures, iter, stored, masterVars, fixed>>
  BY AliveFacts DEF Consume, sync_consume, masterVars, fixed
<1>2. Undisturbed =>
      /\ r[1] = exec
      /\ Consumed(q) = iter[r] /\ Consumed(q)' = iter[r] + 1 /\ Produced(q)' = Produced(q)
      /\ \A p \in Queues : p # q => Produced(p)' = Produced(p) /\ Consumed(p)' = Consumed(p)
  <2> SUFFICES ASSUME Undisturbed
               PROVE  /\ r[1] = exec
                      /\ Consumed(q) = iter[r] /\ Consumed(q)' = iter[r] + 1 /\ Produced(q)' = Produced(q)
                      /\ \A p \in Queues : p # q =>
                            Produced(p)' = Produced(p) /\ Consumed(p)' = Consumed(p)
    OBVIOUS
  <2>0. r[1] = exec /\ r = <<exec, r[2]>>
    BY AliveNow
  <2>1. \A p \in Queues : /\ <<exec, uthread[p]>> \in Runs /\ <<exec, vthread[p]>> \in Runs
                          /\ <<exec, uthread[p]>>[2] = uthread[p]
                          /\ <<exec, vthread[p]>>[2] = vthread[p]
    BY AliveFacts, Ends, RunFacts
  <2>2. <<exec, uthread[q]>> # r
    BY <1>1, <2>0, Ends
  <2>3. /\ Made(r, q) = iter[r] /\ Made(r, q)' = iter[r] + 1
        /\ \A s \in Runs : \A p \in Channels(s[2]) :
              (s # r \/ p # q) => Made(s, p)' = Made(s, p)
    <3>1. TypeOK
      BY DEF IInv
    <3> QED BY <1>1, <3>1, MadeOneMore
  <2>4. \A p \in Queues : p # q =>
           /\ Made(<<exec, uthread[p]>>, p)' = Made(<<exec, uthread[p]>>, p)
           /\ Made(<<exec, vthread[p]>>, p)' = Made(<<exec, vthread[p]>>, p)
    BY <1>1, <2>1, <2>3, Ends
  <2>5. Made(<<exec, uthread[q]>>, q)' = Made(<<exec, uthread[q]>>, q)
    BY <1>1, <2>1, <2>2, <2>3, Ends
  <2> QED BY <1>1, <2>0, <2>3, <2>4, <2>5 DEF Produced, Consumed
<1>3. /\ data_queues[q] \in Seq(Elems) /\ Tail(data_queues[q]) \in Seq(Elems)
      /\ Len(data_queues[q]) \in Nat \ {0}
      /\ Len(Tail(data_queues[q])) = Len(data_queues[q]) - 1
      /\ \A i \in 1 .. Len(data_queues[q]) - 1 :
            Tail(data_queues[q])[i] = data_queues[q][i + 1]
  BY <1>1, HeadTailProperties, EmptySeq DEF IInv, TypeOK
<1>4. data_queues' \in [Queues -> Seq(Elems)]
  BY <1>1, <1>3 DEF IInv, TypeOK
<1>5. TypeOK' /\ MasterInv' /\ RunInv' /\ JoinInv'
  BY <1>1, <1>4, OpKeeps
<1>6. QueueInv'
  <2> SUFFICES ASSUME NEW p \in Queues, Undisturbed', ~Leftover(p)'
               PROVE  /\ Produced(p)' - Consumed(p)' \in 0 .. QUEUE_MAXLEN
                      /\ Len(data_queues'[p]) = Produced(p)' - Consumed(p)'
                      /\ \A i \in 1 .. Len(data_queues'[p]) :
                            \/ data_queues'[p][i] = <<exec, Consumed(p)' + i>>
                            \/ Stray(p, data_queues'[p][i])
    BY <1>1 DEF QueueInv, Stray
  <2>0. Undisturbed /\ ~Leftover(p)
    BY <1>1 DEF Undisturbed, Leftover, masterVars
  <2>1. CASE p # q
    <3>1. data_queues'[p] = data_queues[p]
      BY <1>1, <2>1 DEF IInv, TypeOK
    <3> QED BY <1>2, <2>0, <2>1, <3>1 DEF IInv, QueueInv
  <2>2. CASE p = q
    <3>1. data_queues'[p] = Tail(data_queues[q])
      BY <1>1, <2>2 DEF IInv, TypeOK
    <3>2. /\ Len(data_queues[q]) = Produced(q) - Consumed(q)
          /\ Len(data_queues[q]) <= QUEUE_MAXLEN
          /\ \A i \in 1 .. Len(data_queues[q]) :
                \/ data_queues[q][i] = <<exec, Consumed(q) + i>>
                \/ Stray(q, data_queues[q][i])
      BY <2>0, <2>2, SyncAssumption DEF IInv, QueueInv
    <3>3. Produced(q) \in Nat /\ Consumed(q) \in Nat
      BY ProducedConsumedType
    <3>4. Produced(p)' = Produced(q) /\ Consumed(p)' = Consumed(q) + 1
      BY <1>2, <2>0, <2>2
    <3>5. ASSUME NEW i \in 1 .. Len(data_queues[q]) - 1
          PROVE  \/ data_queues'[p][i] = <<exec, Consumed(q) + 1 + i>>
                 \/ Stray(p, data_queues'[p][i])
      <4>1. i + 1 \in 1 .. Len(data_queues[q])
        BY <1>3
      <4>2. Consumed(q) + (i + 1) = Consumed(q) + 1 + i
        BY <3>3
      <4> QED BY <1>3, <2>2, <3>1, <3>2, <4>1, <4>2
    <3> DEFINE n == Len(data_queues[q])
    <3>6. Len(data_queues'[p]) = n - 1
      BY <1>3, <3>1
    <3> HIDE DEF n
    <3>7. /\ Produced(p)' - Consumed(p)' = n - 1
          /\ n - 1 \in 0 .. QUEUE_MAXLEN
      BY <1>3, <3>2, <3>3, <3>4, SyncAssumption DEF n
    <3>8. \A i \in 1 .. n - 1 : \/ data_queues'[p][i] = <<exec, Consumed(p)' + i>>
                               \/ Stray(p, data_queues'[p][i])
      BY <3>4, <3>5 DEF n
    <3> QED BY <3>6, <3>7, <3>8
  <2> QED BY <2>1, <2>2
<1> QED BY <1>5, <1>6 DEF IInv

\* An iteration that ends is counted in iter instead of in pos.
LEMMA StepEndIteration ==
  ASSUME IInv, NEW r \in alive, EndIteration(r)
  PROVE  IInv'
<1> USE DEF masterVars, syncVars, fixed
<1>1. /\ r \in Runs /\ iter[r] < trips[r[1]] /\ pos[r] = NumOps(r[2]) + 1
      /\ iter' = [iter EXCEPT ![r] = @ + 1] /\ pos' = [pos EXCEPT ![r] = 1]
      /\ UNCHANGED <<stored, syncVars, masterVars, fixed>>
  BY AliveFacts DEF EndIteration
<1>2. /\ iter \in [Runs -> 0 .. MaxTrips] /\ pos \in [Runs -> Nat]
      /\ trips[r[1]] \in 1 .. MaxTrips /\ NumOps(r[2]) \in Nat
      /\ MaxTrips \in Nat
  BY AliveFacts, SplitAssumption DEF IInv, TypeOK
<1>3. TypeOK'
  <2>1. iter' \in [Runs -> 0 .. MaxTrips] /\ pos' \in [Runs -> Nat]
    BY <1>1, <1>2
  <2>2. \A s \in Runs : pos'[s] \in 1 .. NumOps(s[2]) + 1
    BY <1>1, <1>2 DEF IInv, TypeOK
  <2> QED BY <1>1, <2>1, <2>2 DEF IInv, TypeOK
<1>4. MasterInv'
  BY <1>1 DEF IInv, MasterInv
<1>5. \A s \in Runs : Started(s)' <=> Started(s)
  BY <1>1 DEF Started
<1>6. RunInv'
  <2> SUFFICES ASSUME NEW s \in Runs
               PROVE  /\ s \notin alive \cup stored => iter'[s] = 0 /\ pos'[s] = 1
                      /\ s \in stored => iter'[s] = trips[s[1]]
                      /\ iter'[s] <= trips[s[1]]
                      /\ iter'[s] = trips[s[1]] => pos'[s] = 1
    BY <1>1, <1>5 DEF IInv, RunInv
  <2>1. CASE s = r
    BY <1>1, <1>2, <1>5, <2>1, AliveFacts
  <2>2. CASE s # r
    BY <1>1, <1>2, <1>5, <2>2 DEF IInv, RunInv
  <2> QED BY <2>1, <2>2
<1>7. JoinInv'
  BY <1>1 DEF IInv, JoinInv, Joinable
<1>8. QueueInv'
  <2>1. ASSUME NEW s \in Runs, NEW q \in Channels(s[2])
        PROVE  Made(s, q)' = Made(s, q)
    <3>1. CASE s = r
      <4>1. order[r[2]][q] \in 1 .. NumOps(r[2])
        BY <2>1, <3>1, AliveFacts, OrderFacts DEF IInv, TypeOK
      <4> QED BY <1>1, <1>2, <3>1, <4>1 DEF Made
    <3>2. CASE s # r
      BY <1>1, <1>2, <3>2 DEF Made
    <3> QED BY <3>1, <3>2
  <2>2. ASSUME NEW q \in Queues
        PROVE  Produced(q)' = Produced(q) /\ Consumed(q)' = Consumed(q)
    <3>1. exec \in Execs /\ exec' = exec
      BY <1>1 DEF IInv, TypeOK
    <3>2. /\ <<exec, uthread[q]>> \in Runs /\ <<exec, uthread[q]>>[2] = uthread[q]
          /\ <<exec, vthread[q]>> \in Runs /\ <<exec, vthread[q]>>[2] = vthread[q]
      BY <3>1, Ends, RunFacts
    <3>3. /\ Made(<<exec, uthread[q]>>, q)' = Made(<<exec, uthread[q]>>, q)
          /\ Made(<<exec, vthread[q]>>, q)' = Made(<<exec, vthread[q]>>, q)
      BY <2>1, <3>1, <3>2, Ends
    <3> QED BY <3>1, <3>3 DEF Produced, Consumed
  <2>3. Undisturbed' = Undisturbed /\ \A q \in Queues : Leftover(q)' <=> Leftover(q)
    BY <1>1 DEF Undisturbed, Leftover
  <2> QED BY <1>1, <2>2, <2>3 DEF IInv, QueueInv, Stray
<1> QED BY <1>3, <1>4, <1>6, <1>7, <1>8 DEF IInv

LEMMA StepFinish ==
  ASSUME IInv, NEW r \in alive, Finish(r)
  PROVE  IInv'
<1> USE DEF Finish, ThreadReturns, masterVars, fixed
<1>1. r \in Runs /\ Started(r) /\ iter[r] = trips[r[1]]
  BY AliveFacts
<1>2. TypeOK'
  BY <1>1 DEF IInv, TypeOK
<1>3. MasterInv'
  BY DEF IInv, MasterInv
<1>4. \A s \in Runs : Started(s)' <=> Started(s)
  BY DEF Started
<1>5. RunInv'
  BY <1>1, <1>4 DEF IInv, RunInv
<1>6. JoinInv'
  BY DEF IInv, JoinInv, Joinable
<1>7. QueueInv'
  BY QueueInvKept DEF IInv, Leftover
<1> QED BY <1>2, <1>3, <1>5, <1>6, <1>7 DEF IInv

LEMMA InvStep == IInv /\ [Next]_vars => IInv'
<1> SUFFICES ASSUME IInv, [Next]_vars PROVE IInv'
  OBVIOUS
<1>1. CASE Master
  BY <1>1, StepInitQueue, StepDelegate, StepJoin, StepLoad DEF Master
<1>2. ASSUME NEW r \in Runs, Worker(r)
      PROVE  IInv'
  BY <1>2, StepProduce, StepConsume, StepEndIteration, StepFinish DEF Worker
<1>3. CASE UNCHANGED vars
  <2> USE <1>3 DEF vars, syncVars, masterVars, workerVars, fixed
  <2>1. TypeOK'
    BY DEF IInv, TypeOK
  <2>2. \A s \in Runs : Started(s)' <=> Started(s)
    BY DEF Started
  <2>3. RunInv'
    BY <2>2 DEF IInv, RunInv
  <2>4. JoinInv'
    BY DEF IInv, JoinInv, Joinable
  <2>5. MasterInv'
    BY DEF IInv, MasterInv
  <2>6. QueueInv'
    BY QueueInvKept DEF IInv, Leftover
  <2> QED BY <2>1, <2>3, <2>4, <2>5, <2>6 DEF IInv
<1> QED BY <1>1, <1>2, <1>3 DEF Next

-----------------------------------------------------------------------------
(* What follows from it                                                     *)

LEMMA InvAlways == Spec => []IInv
<1>1. IInv /\ [Next]_vars => IInv'
  BY InvStep
<1> QED BY <1>1, InvInit, PTL DEF Spec

\* threads[] and the queues stay what they are declared to be
\* (simple_sync.c:6-7), and every worker within its iterations.
THEOREM TypeIsCorrect == Spec => []TypeOK
<1>1. IInv => TypeOK
  BY DEF IInv
<1> QED BY <1>1, InvAlways, PTL

\* The master loads the liveouts only after every worker with an entry in
\* threads[] has stored its own (CodeTransformation.cpp:138-171, 459-485).
THEOREM LiveoutsAreReady == Spec => []LiveoutsReady
<1>1. ASSUME IInv, failures = 0, master = "load", NEW w \in Joinable
      PROVE  <<exec, w>> \in stored
  <2>1. <<exec, w>> \in Runs /\ <<exec, w>>[1] = exec /\ <<exec, w>>[2] = w
    BY <1>1, RunFacts DEF IInv, TypeOK, Joinable
  <2>2. Started(<<exec, w>>)
    BY <1>1, <2>1 DEF Started
  <2>3. <<exec, w>> \notin alive
    BY <1>1, <2>1 DEF IInv, JoinInv
  <2> QED BY <1>1, <2>1, <2>2, <2>3 DEF IInv, RunInv
<1>2. IInv => LiveoutsReady
  BY <1>1 DEF LiveoutsReady
<1> QED BY <1>2, InvAlways, PTL

\* sync_init finds no thread running that can be joined, and, if all can be and
\* all were created, no element left (simple_sync.c:44-50).
THEOREM InitIsQuiet == Spec => []QuietInit
<1>1. ASSUME IInv, master = "init" PROVE \A r \in alive : r[2] \notin Joinable
  BY <1>1 DEF IInv, JoinInv
<1>2. ASSUME IInv, master = "init", failures = 0, Joinable = Workers, NEW q \in Queues
      PROVE  data_queues[q] = <<>>
  <2>1. Undisturbed /\ ~Leftover(q)
    BY <1>2 DEF Undisturbed, Leftover
  <2>2. Len(data_queues[q]) = 0
    BY <1>2, <2>1, NoneMade DEF IInv, QueueInv
  <2> QED BY <1>2, <2>2, EmptySeq DEF IInv, TypeOK
<1>3. IInv => QuietInit
  BY <1>1, <1>2 DEF QuietInit
<1> QED BY <1>3, InvAlways, PTL

\* A consume takes the value produced in the same iteration of the same
\* execution (CodeTransformation.cpp:594-596), or, with more workers than
\* threads[] has entries, a handle written over it (simple_sync.c:31).
THEOREM ElementsAlwaysMatch == Spec => []ElementsMatch
<1>1. ASSUME IInv PROVE ElementsMatch
  <2> SUFFICES ASSUME Undisturbed, NEW r \in alive, NEW q \in Queues, At(r, q),
                      vthread[q] = r[2], data_queues[q] # <<>>
               PROVE  \/ Head(data_queues[q]) = <<r[1], iter[r] + 1>>
                      \/ Stray(q, Head(data_queues[q]))
    BY DEF ElementsMatch
  <2>0. r[1] = exec /\ r = <<exec, r[2]>>
    BY <1>1, AliveNow
  <2>1. Consumed(q) = iter[r]
    <3>1. order[r[2]][q] = pos[r] /\ pos[r] \in Nat /\ iter[r] \in Nat
      BY <1>1, AliveFacts DEF At
    <3> QED BY <1>1, <2>0, <3>1 DEF Consumed, Made
  <2>2. /\ data_queues[q] \in Seq(Elems) /\ Len(data_queues[q]) \in Nat
        /\ Len(data_queues[q]) # 0
    BY <1>1, EmptySeq DEF IInv, TypeOK
  <2>3. Head(data_queues[q]) = data_queues[q][1]
    BY <2>2
  <2>4. ~Leftover(q)
    <3>1. Started(r) /\ exec \in Int
      BY <1>1, AliveFacts DEF Execs
    <3> QED BY <2>0, <3>1 DEF Started, Leftover
  <2>5. data_queues[q][1] = <<exec, Consumed(q) + 1>> \/ Stray(q, data_queues[q][1])
    BY <1>1, <2>2, <2>4 DEF IInv, QueueInv
  <2> QED BY <2>0, <2>1, <2>3, <2>5
<1> QED BY <1>1, InvAlways, PTL

\* The worker that is furthest behind, the first in the pipeline among
\* equals, is never blocked: nobody can have filled its queues with values of
\* iterations it has not reached, and those before it are further on.
THEOREM NeverGridlocked == Spec => []NoGridlock
<1>1. ASSUME IInv, Undisturbed, failures = 0, master \in {"join", "load", "done"}, alive # {}
      PROVE  \E r \in alive : CanStep(r)
  <2>0. \A r \in alive : r[1] = exec /\ r = <<exec, r[2]>>
    BY <1>1, AliveNow
  <2>1. PICK n \in {iter[r] : r \in alive} : \A m \in {iter[r] : r \in alive} : n <= m
    <3>1. {iter[r] : r \in alive} \subseteq Nat
      BY <1>1, AliveFacts
    <3>2. {iter[r] : r \in alive} # {}
      BY <1>1
    <3> QED BY <3>1, <3>2, SmallestMember
  <2> DEFINE Behind == {w \in Workers : <<exec, w>> \in alive /\ iter[<<exec, w>>] = n}
  <2>2. PICK w \in Behind : \A v \in Behind : w <= v
    <3>1. Behind \subseteq Nat
      BY SplitAssumption DEF Workers
    <3>2. Behind # {}
      <4>1. PICK r \in alive : iter[r] = n
        OBVIOUS
      <4>2. r[2] \in Behind
        BY <1>1, <2>0, <4>1, AliveFacts
      <4> QED BY <4>2
    <3> HIDE DEF Behind
    <3> QED BY <3>1, <3>2, SmallestMember
  <2> DEFINE r == <<exec, w>>
  <2>3. /\ r \in alive /\ iter[r] = n /\ w \in Workers /\ exec \in Execs
        /\ r \in Runs /\ r[1] = exec /\ r[2] = w
    BY <1>1, RunFacts DEF IInv, TypeOK
  <2> HIDE DEF r
  <2>4. /\ n \in Nat /\ iter[r] <= trips[exec] /\ trips[exec] \in Nat
        /\ NumOps(w) \in Nat /\ pos[r] \in 1 .. NumOps(w) + 1
    <3>1. iter[r] <= trips[r[1]] /\ pos[r] \in 1 .. NumOps(r[2]) + 1
      BY <1>1, <2>3 DEF IInv, RunInv, TypeOK
    <3> QED BY <1>1, <2>3, <3>1, AliveFacts
  \* Every other worker has completed at least n iterations, and those before
  \* w more than n, if there are more.
  <2>5. ASSUME NEW v \in Workers
        PROVE  /\ iter[<<exec, v>>] \in Nat /\ iter[<<exec, v>>] >= n
               /\ v < w => iter[<<exec, v>>] > n \/ iter[<<exec, v>>] = trips[exec]
    <3>1. <<exec, v>> \in Runs /\ <<exec, v>>[1] = exec
      BY <2>3, RunFacts
    <3>2. <<exec, v>> \in alive \/ <<exec, v>> \in stored
      BY <1>1, <3>1 DEF IInv, RunInv, Started
    <3>3. CASE <<exec, v>> \in alive
      <4>1. iter[<<exec, v>>] >= n /\ iter[<<exec, v>>] \in Nat
        BY <1>1, <2>1, <2>4, <3>3, AliveFacts
      <4>2. v \in Nat /\ w \in Nat
        BY SplitAssumption DEF Workers
      <4>3. iter[<<exec, v>>] = n => w <= v
        BY <2>2, <3>3
      <4> QED BY <2>4, <4>1, <4>2, <4>3
    <3>4. CASE <<exec, v>> \in stored
      <4>1. iter[<<exec, v>>] = trips[exec]
        BY <1>1, <3>1, <3>4 DEF IInv, RunInv
      <4> QED BY <2>3, <2>4, <4>1
    <3> QED BY <3>2, <3>3, <3>4
  <2>6. CASE n = trips[exec] \/ pos[r] = NumOps(w) + 1
    BY <2>3, <2>4, <2>6 DEF CanStep
  <2>7. CASE n < trips[exec] /\ pos[r] # NumOps(w) + 1
    <3>1. pos[r] \in 1 .. NumOps(w)
      BY <2>4, <2>7
    <3>2. PICK q \in Channels(w) : order[w][q] = pos[r]
      BY <1>1, <2>3, <3>1, OrderFacts DEF IInv, TypeOK
    <3>3. /\ q \in Queues /\ At(r, q)
          /\ uthread[q] \in Workers /\ vthread[q] \in Workers
          /\ uthread[q] < vthread[q] /\ uthread[q] # vthread[q]
      BY <2>3, <2>7, <3>2, Ends DEF At, Channels
    <3>4. /\ Len(data_queues[q]) = Produced(q) - Consumed(q)
          /\ Produced(q) \in Nat /\ Consumed(q) \in Nat
      BY <1>1, <3>3, ProducedConsumedType DEF IInv, QueueInv, Leftover
    <3>5. Made(r, q) = n
      BY <2>3, <2>4, <3>1, <3>2 DEF Made
    <3>6. /\ Produced(q) >= iter[<<exec, uthread[q]>>]
          /\ Consumed(q) >= iter[<<exec, vthread[q]>>]
      BY <2>5, <3>3 DEF Produced, Consumed, Made
    <3>7. CASE uthread[q] = w
      <4>1. Produced(q) = n /\ Consumed(q) >= n
        BY <2>4, <2>5, <3>3, <3>4, <3>5, <3>6, <3>7 DEF Produced, r
      <4>2. Len(data_queues[q]) < QUEUE_MAXLEN
        BY <2>4, <3>4, <4>1, SyncAssumption
      <4> QED BY <2>3, <3>3, <3>7, <4>2 DEF CanStep
    <3>8. CASE vthread[q] = w
      <4>1. Consumed(q) = n
        BY <3>5, <3>8 DEF Consumed, r
      <4>2. Produced(q) > n
        BY <2>4, <2>5, <2>7, <3>3, <3>4, <3>6, <3>8
      <4>3. data_queues[q] # <<>>
        BY <2>4, <3>4, <4>1, <4>2, EmptySeq
      <4> QED BY <2>3, <3>3, <3>8, <4>3 DEF CanStep
    <3> QED BY <3>2, <3>7, <3>8 DEF Channels
  <2> QED BY <2>3, <2>4, <2>6, <2>7
<1>2. IInv => NoGridlock
  BY <1>1 DEF NoGridlock
<1> QED BY <1>2, InvAlways, PTL
-----------------------------------------------------------------------------
(* The join, for every library: threads[] too short, creations that fail    *)

\* No thread starts while the master joins, and what was joined has ended.
JoinedSoFar ==
    /\ next \in Nat /\ exec \in Execs /\ alive \subseteq Runs
    /\ master = "delegate" => next \in Workers
    /\ master = "join" => /\ next < NUM_THREADS
                          /\ \A i \in 0 .. next - 1 : threads[i] \notin alive
    /\ JoinedEnded

LEMMA JoinedStart == Init => JoinedSoFar
  BY SplitAssumption DEF Init, SyncStart, JoinedSoFar, JoinedEnded, Execs

LEMMA JoinedStep == JoinedSoFar /\ [Next]_vars => JoinedSoFar'
<1> SUFFICES ASSUME JoinedSoFar, [Next]_vars PROVE JoinedSoFar'
  OBVIOUS
<1> USE SyncAssumption, SplitAssumption DEF JoinedSoFar, JoinedEnded
<1>1. CASE InitQueue
  <2>1. /\ UNCHANGED <<alive, exec>>
        /\ \/ next' = next + 1 /\ master' = "init"
           \/ next' = 0 /\ master' = "delegate"
    BY <1>1 DEF InitQueue, sync_init, Advance
  <2> QED BY <2>1 DEF Workers
<1>2. CASE Delegate
  <2>1. /\ next \in Workers /\ UNCHANGED exec
        /\ \/ next' = next + 1 /\ next + 1 < MAX_THREAD /\ master' = "delegate"
           \/ next' = 0 /\ master' = "join"
    BY <1>2 DEF Delegate, Advance
  <2>2. <<exec, next>> \in Runs
    BY <2>1 DEF Runs
  <2>3. alive' = alive \cup {<<exec, next>>} \/ alive' = alive
    BY <1>2 DEF Delegate, sync_delegate, Created, NotCreated
  <2> QED BY <2>1, <2>2, <2>3 DEF Workers
<1>3. CASE Join
  <2>1. /\ master = "join" /\ UNCHANGED <<exec, threads, alive>>
        /\ threads[next] = NoThread \/ threads[next] \notin alive
        /\ \/ next' = next + 1 /\ next + 1 < NUM_THREADS /\ master' = "join"
           \/ next' = 0 /\ ~(next + 1 < NUM_THREADS) /\ master' = "load"
    BY <1>3 DEF Join, sync_join, syncVars, Advance
  <2>2. threads[next] \notin alive
    BY <2>1, NoThreadAssumption
  <2>3. \A i \in 0 .. next : threads[i] \notin alive
    <3>1. \A i \in 0 .. next : i \in 0 .. next - 1 \/ i = next
      OBVIOUS
    <3> QED BY <2>1, <2>2, <3>1
  <2>4. CASE master' = "join" /\ next' = next + 1 /\ next + 1 < NUM_THREADS
    BY <2>1, <2>3, <2>4
  <2>5. CASE master' = "load" /\ next' = 0 /\ ~(next + 1 < NUM_THREADS)
    <3>1. \A i \in 0 .. NUM_THREADS - 1 : i \in 0 .. next
      BY <2>1, <2>5
    <3> QED BY <2>1, <2>3, <2>5, <3>1
  <2> QED BY <2>1, <2>4, <2>5
<1>4. CASE Load
  BY <1>4 DEF Load, syncVars, Execs
<1>5. ASSUME NEW r \in Runs, Worker(r) PROVE JoinedSoFar'
  <2>1. UNCHANGED <<next, exec, master, threads>> /\ alive' \subseteq alive
    BY <1>5 DEF Worker, Produce, Consume, EndIteration, Finish, masterVars, syncVars,
                sync_produce, sync_consume, ThreadReturns
  <2> QED BY <2>1
<1>6. CASE UNCHANGED vars
  BY <1>6 DEF vars, syncVars, masterVars
<1> QED BY <1>1, <1>2, <1>3, <1>4, <1>5, <1>6 DEF Next, Master

\* simple_sync.c:29-42: when sync_join is over, no thread whose handle
\* threads[] holds is running, however long threads[] is and whichever of the
\* pthread_create calls failed (their results are dropped).
THEOREM JoinedHaveEnded == Spec => []JoinedEnded
<1>1. JoinedSoFar => JoinedEnded
  BY DEF JoinedSoFar
<1> QED BY <1>1, JoinedStart, JoinedStep, PTL DEF Spec
=============================================================================
