---------------------------- MODULE QueueProofs ----------------------------
(***************************************************************************)
(* Theorems about Queue, for any number of producers and consumers, any    *)
(* capacity and any number of spurious wakeups.                            *)
(***************************************************************************)
EXTENDS Queue, FiniteSetTheorems, SequenceTheorems, TLAPS

\* What % does to an index that has gone at most once around the ring.
LEMMA ModWrap ==
  ASSUME NEW n \in Nat \ {0}, NEW x \in Nat, x < n + n
  PROVE  x % n = IF x < n THEN x ELSE x - n
<1>1. CASE x < n
  BY <1>1
<1>2. CASE x >= n
  BY <1>2
<1> QED BY <1>1, <1>2

\* The slot k places after slot h.
LEMMA SlotAfter ==
  ASSUME NEW h \in Slots, NEW k \in 0 .. QUEUE_MAXLEN
  PROVE  /\ (h + k) % QUEUE_MAXLEN \in Slots
         /\ (h + k) % QUEUE_MAXLEN =
               IF h + k < QUEUE_MAXLEN THEN h + k ELSE h + k - QUEUE_MAXLEN
<1> DEFINE x == h + k
<1>1. QUEUE_MAXLEN \in Nat \ {0} /\ x \in Nat /\ x < QUEUE_MAXLEN + QUEUE_MAXLEN
  BY QueueAssumption DEF Slots
<1> HIDE DEF x
<1>2. x % QUEUE_MAXLEN = IF x < QUEUE_MAXLEN THEN x ELSE x - QUEUE_MAXLEN
  BY <1>1, ModWrap
<1>3. x % QUEUE_MAXLEN \in Slots
  BY <1>1, <1>2 DEF Slots
<1> QED BY <1>1, <1>2, <1>3 DEF x, Slots

\* One step of head or tail around the ring.
LEMMA NextSlot ==
  ASSUME NEW h \in Slots, NEW k \in 0 .. QUEUE_MAXLEN - 1
  PROVE  /\ (h + 1) % QUEUE_MAXLEN \in Slots
         /\ (((h + 1) % QUEUE_MAXLEN) + k) % QUEUE_MAXLEN = (h + (k + 1)) % QUEUE_MAXLEN
         /\ (((h + k) % QUEUE_MAXLEN) + 1) % QUEUE_MAXLEN = (h + (k + 1)) % QUEUE_MAXLEN
<1> DEFINE a == (h + 1) % QUEUE_MAXLEN
           b == (h + k) % QUEUE_MAXLEN
           c == (h + (k + 1)) % QUEUE_MAXLEN
           d == (a + k) % QUEUE_MAXLEN
           e == (b + 1) % QUEUE_MAXLEN
<1> HIDE DEF a, b, c, d, e
<1>1. /\ 1 \in 0 .. QUEUE_MAXLEN
      /\ k \in 0 .. QUEUE_MAXLEN
      /\ k + 1 \in 0 .. QUEUE_MAXLEN
  BY QueueAssumption
<1>2. a \in Slots /\ a = IF h + 1 < QUEUE_MAXLEN THEN h + 1 ELSE h + 1 - QUEUE_MAXLEN
  BY <1>1, SlotAfter DEF a
<1>3. b \in Slots /\ b = IF h + k < QUEUE_MAXLEN THEN h + k ELSE h + k - QUEUE_MAXLEN
  BY <1>1, SlotAfter DEF b
<1>4. c = IF h + (k + 1) < QUEUE_MAXLEN THEN h + (k + 1) ELSE h + (k + 1) - QUEUE_MAXLEN
  BY <1>1, SlotAfter DEF c
<1>5. d = IF a + k < QUEUE_MAXLEN THEN a + k ELSE a + k - QUEUE_MAXLEN
  BY <1>1, <1>2, SlotAfter DEF d
<1>6. e = IF b + 1 < QUEUE_MAXLEN THEN b + 1 ELSE b + 1 - QUEUE_MAXLEN
  BY <1>1, <1>3, SlotAfter DEF e
<1>7. d = c /\ e = c
  BY <1>1, <1>2, <1>3, <1>4, <1>5, <1>6, QueueAssumption DEF Slots
<1> QED BY <1>2, <1>7 DEF a, b, c, d, e

\* Different distances from h, less than a turn apart, are different slots.
LEMMA SlotsDiffer ==
  ASSUME NEW h \in Slots, NEW j \in 0 .. QUEUE_MAXLEN - 1,
         NEW k \in 0 .. QUEUE_MAXLEN - 1, j # k
  PROVE  (h + j) % QUEUE_MAXLEN # (h + k) % QUEUE_MAXLEN
<1> DEFINE a == (h + j) % QUEUE_MAXLEN
           b == (h + k) % QUEUE_MAXLEN
<1> HIDE DEF a, b
<1>1. j \in 0 .. QUEUE_MAXLEN /\ k \in 0 .. QUEUE_MAXLEN
  BY QueueAssumption
<1>2. a = IF h + j < QUEUE_MAXLEN THEN h + j ELSE h + j - QUEUE_MAXLEN
  BY <1>1, SlotAfter DEF a
<1>3. b = IF h + k < QUEUE_MAXLEN THEN h + k ELSE h + k - QUEUE_MAXLEN
  BY <1>1, SlotAfter DEF b
<1>4. a # b
  BY <1>2, <1>3, QueueAssumption DEF Slots
<1> QED BY <1>4 DEF a, b

-----------------------------------------------------------------------------
(* The core invariant: types, lock ownership, waiters, roles, values, ring *)

LEMMA CoreInit == Init => CoreInv
<1> SUFFICES ASSUME Init PROVE CoreInv
  OBVIOUS
<1> USE QueueAssumption DEF Init, PushPc, PopPc, Holding, Slots
<1>1. TypeOK
  BY DEF TypeOK
<1>2. LockInv
  BY DEF LockInv
<1>3. WaitInv /\ RoleInv /\ ValInv
  BY DEF WaitInv, RoleInv, ValInv
<1>4. RingInv
  BY DEF RingInv
<1> QED BY <1>1, <1>2, <1>3, <1>4 DEF CoreInv

LEMMA CoreStep == CoreInv /\ [Next]_vars => CoreInv'
<1> SUFFICES ASSUME CoreInv, [Next]_vars PROVE CoreInv'
  OBVIOUS
<1> USE QueueAssumption DEF CoreInv, TypeOK, LockInv, WaitInv, RoleInv, ValInv,
        PushPc, PopPc, Holding, ring, Goto, Threads
<1>1. CASE UNCHANGED vars
  BY <1>1 DEF vars, RingInv
<1>2. ASSUME NEW t \in Producers, NEW v \in Values, PushCall(t, v)
      PROVE  CoreInv'
  BY <1>2 DEF PushCall, RingInv
<1>3. ASSUME NEW t \in Consumers, PopCall(t)
      PROVE  CoreInv'
  BY <1>3 DEF PopCall, RingInv
<1>4. ASSUME NEW t \in Threads, PushLock(t) \/ PopLock(t)
      PROVE  CoreInv'
  BY <1>4 DEF PushLock, PopLock, RingInv
<1>5. ASSUME NEW t \in Threads, PushWait(t) \/ PopWait(t)
      PROVE  CoreInv'
  BY <1>5 DEF PushWait, PopWait, RingInv
<1>6. ASSUME NEW t \in Threads, PushStore(t)
      PROVE  CoreInv'
  <2> USE <1>6 DEF PushStore
  <2>1. /\ size \in 0 .. QUEUE_MAXLEN - 1
        /\ tail = (head + size) % QUEUE_MAXLEN
    BY DEF RingInv
  <2>2. tail' \in Slots /\ tail' = (head' + size') % QUEUE_MAXLEN
    BY <2>1, NextSlot
  <2>3. TypeOK'
    BY <2>2
  <2>4. (LockInv /\ WaitInv /\ RoleInv /\ ValInv)'
    OBVIOUS
  <2>5. ASSUME NEW i \in 1 .. size'
        PROVE  arr'[(head' + (i - 1)) % QUEUE_MAXLEN] \in Values
    <3>1. CASE i = size'
      <4>1. (head' + (i - 1)) % QUEUE_MAXLEN = tail /\ val[t] \in Values
        BY <2>1, <3>1
      <4> QED BY <4>1
    <3>2. CASE i # size'
      <4>1. i \in 1 .. size /\ i - 1 \in 0 .. QUEUE_MAXLEN - 1 /\ i - 1 # size
        BY <2>1, <3>2
      <4>2. (head + (i - 1)) % QUEUE_MAXLEN # tail
        BY <2>1, <4>1, SlotsDiffer
      <4>3. arr[(head + (i - 1)) % QUEUE_MAXLEN] \in Values
        BY <4>1 DEF RingInv
      <4>4. (head + (i - 1)) % QUEUE_MAXLEN \in Slots
        BY <4>1, SlotAfter
      <4> QED BY <4>2, <4>3, <4>4
    <3> QED BY <3>1, <3>2
  <2> QED BY <2>2, <2>3, <2>4, <2>5 DEF RingInv
<1>7. ASSUME NEW t \in Threads, PopTake(t)
      PROVE  CoreInv'
  <2> USE <1>7 DEF PopTake
  <2>1. size \in 1 .. QUEUE_MAXLEN /\ size' = size - 1
    OBVIOUS
  <2>2. head' \in Slots
    BY <2>1, NextSlot
  <2>3. arr[head] \in Values
    <3>1. (head + (1 - 1)) % QUEUE_MAXLEN = head
      BY ONLY head \in Slots, QueueAssumption DEF Slots
    <3>2. arr[(head + (1 - 1)) % QUEUE_MAXLEN] \in Values
      BY <2>1 DEF RingInv
    <3> QED BY <3>1, <3>2
  <2>4. TypeOK'
    BY <2>2, <2>3
  <2>5. (LockInv /\ WaitInv /\ RoleInv /\ ValInv)'
    BY <2>3
  <2>6. ASSUME NEW i \in 0 .. size'
        PROVE  (head' + i) % QUEUE_MAXLEN = (head + (i + 1)) % QUEUE_MAXLEN
    <3>1. i \in 0 .. QUEUE_MAXLEN - 1
      BY <2>1
    <3> QED BY <3>1, NextSlot
  <2>7. tail' = (head' + size') % QUEUE_MAXLEN
    BY <2>1, <2>6 DEF RingInv
  <2>8. ASSUME NEW i \in 1 .. size'
        PROVE  arr'[(head' + (i - 1)) % QUEUE_MAXLEN] \in Values
    <3>1. i - 1 \in 0 .. size' /\ i + 1 \in 1 .. size
      BY <2>1
    <3>2. (head' + (i - 1)) % QUEUE_MAXLEN = (head + ((i + 1) - 1)) % QUEUE_MAXLEN
      BY <2>1, <2>6, <3>1
    <3>3. arr[(head + ((i + 1) - 1)) % QUEUE_MAXLEN] \in Values
      BY <3>1 DEF RingInv
    <3> QED BY <3>2, <3>3
  <2> QED BY <2>4, <2>5, <2>7, <2>8 DEF RingInv
<1>8. ASSUME NEW t \in Threads, PushSignal(t) \/ PopSignal(t)
      PROVE  CoreInv'
  BY <1>8 DEF PushSignal, PopSignal, RingInv
<1>9. ASSUME NEW t \in Threads, Unlock(t)
      PROVE  CoreInv'
  BY <1>9 DEF Unlock, RingInv
<1>10. ASSUME NEW t \in Threads, SpuriousWakeup(t)
       PROVE  CoreInv'
  BY <1>10 DEF SpuriousWakeup, RingInv
<1> QED
  BY <1>1, <1>2, <1>3, <1>4, <1>5, <1>6, <1>7, <1>8, <1>9, <1>10
     DEF Next, Step, Push, Pop
\* Types, lock ownership, waiters and the ring, in every reachable state.
THEOREM CoreCorrect == Spec => []CoreInv
<1> QED BY CoreInit, CoreStep, PTL DEF Spec

\* Every variable keeps its type (the fields of queue_t, queue.h:12-20): in
\* particular size never leaves 0..QUEUE_MAXLEN and head and tail never leave
\* the array.
THEOREM TypeCorrect == Spec => []TypeOK
<1>1. CoreInv => TypeOK
  BY DEF CoreInv
<1> QED BY <1>1, CoreCorrect, PTL

-----------------------------------------------------------------------------
(* No wakeup is lost *)

\* The number of the threads on their way to the queue is a number.
LEMMA ComingCount ==
  /\ IsFiniteSet(PopComing) /\ Cardinality(PopComing) \in Nat
  /\ IsFiniteSet(PushComing) /\ Cardinality(PushComing) \in Nat
  /\ IsFiniteSet(PushSignalling) /\ Cardinality(PushSignalling) \in Nat
  /\ IsFiniteSet(PopSignalling) /\ Cardinality(PopSignalling) \in Nat
<1>1. /\ PopComing \in SUBSET Consumers /\ PushComing \in SUBSET Producers
      /\ PushSignalling \in SUBSET Producers /\ PopSignalling \in SUBSET Consumers
  BY DEF PopComing, PushComing, PushSignalling, PopSignalling
<1>2. /\ IsFiniteSet(PopComing) /\ IsFiniteSet(PushComing)
      /\ IsFiniteSet(PushSignalling) /\ IsFiniteSet(PopSignalling)
  BY <1>1, FS_Subset, QueueAssumption
<1> QED BY <1>2, FS_CardinalityType

\* The effect of one more and one fewer member, as the steps below use it.
LEMMA CountAdd ==
  ASSUME NEW S, NEW x, IsFiniteSet(S), x \notin S
  PROVE  Cardinality(S \cup {x}) = Cardinality(S) + 1
BY FS_AddElement

LEMMA CountRemove ==
  ASSUME NEW S, NEW x, IsFiniteSet(S), x \in S
  PROVE  Cardinality(S \ {x}) = Cardinality(S) - 1
BY FS_RemoveElement

LEMMA WakeupInit == Init => NoLostWakeup
BY DEF Init, NoLostWakeup

LEMMA WakeupStep == CoreInv /\ NoLostWakeup /\ [Next]_vars => NoLostWakeup'
<1> SUFFICES ASSUME CoreInv, NoLostWakeup, [Next]_vars PROVE NoLostWakeup'
  OBVIOUS
<1> DEFINE pop == Cardinality(PopComing)   push == Cardinality(PushComing)
           spush == Cardinality(PushSignalling)   spop == Cardinality(PopSignalling)
<1> USE QueueAssumption DEF CoreInv, TypeOK, WaitInv, RoleInv, PushPc, PopPc,
        ring, Goto, Threads
<1>a. /\ size \in Nat /\ QUEUE_MAXLEN \in Nat
      /\ pop \in Nat /\ push \in Nat /\ spush \in Nat /\ spop \in Nat
  BY ComingCount
<1>1. CASE UNCHANGED vars
  BY <1>1 DEF vars, NoLostWakeup, PopComing, PushComing, PushSignalling, PopSignalling
<1>2. ASSUME NEW t \in Producers, NEW v \in Values, PushCall(t, v)
      PROVE  NoLostWakeup'
  <2>1. /\ PopComing' = PopComing /\ PushComing' = PushComing \cup {t}
        /\ PushSignalling' = PushSignalling /\ PopSignalling' = PopSignalling
        /\ t \notin PushComing
    BY <1>2 DEF PushCall, PopComing, PushComing, PushSignalling, PopSignalling
  <2>2. push' = push + 1
    BY <2>1, CountAdd, ComingCount
  <2> QED BY <1>2, <1>a, <2>1, <2>2 DEF PushCall, NoLostWakeup
<1>3. ASSUME NEW t \in Consumers, PopCall(t)
      PROVE  NoLostWakeup'
  <2>1. /\ PopComing' = PopComing \cup {t} /\ PushComing' = PushComing
        /\ PushSignalling' = PushSignalling /\ PopSignalling' = PopSignalling
        /\ t \notin PopComing
    BY <1>3 DEF PopCall, PopComing, PushComing, PushSignalling, PopSignalling
  <2>2. pop' = pop + 1
    BY <2>1, CountAdd, ComingCount
  <2> QED BY <1>3, <1>a, <2>1, <2>2 DEF PopCall, NoLostWakeup
<1>4. ASSUME NEW t \in Threads, PushLock(t) \/ PopLock(t) \/ Unlock(t)
      PROVE  NoLostWakeup'
  <2>1. /\ PopComing' = PopComing /\ PushComing' = PushComing
        /\ PushSignalling' = PushSignalling /\ PopSignalling' = PopSignalling
    BY <1>4 DEF PushLock, PopLock, Unlock, PopComing, PushComing, PushSignalling,
                PopSignalling
  <2> QED BY <1>4, <2>1 DEF PushLock, PopLock, Unlock, NoLostWakeup
<1>5. ASSUME NEW t \in Threads, PushWait(t)
      PROVE  NoLostWakeup'
  \* The one more sleeper finds a full queue: no slot is waiting for it.
  <2>1. /\ PopComing' = PopComing
        /\ PushSignalling' = PushSignalling
    BY <1>5 DEF PushWait, PopComing, PushSignalling
  <2>2. push' \in Nat /\ spop' \in Nat
    <3>1. PushComing' = PushComing \ {t} /\ PopSignalling' = PopSignalling
      BY <1>5 DEF PushWait, PushComing, PopSignalling
    <3> QED BY <3>1, FS_RemoveElement, FS_CardinalityType, ComingCount
  <2> QED BY <1>5, <1>a, <2>1, <2>2 DEF PushWait, NoLostWakeup
<1>6. ASSUME NEW t \in Threads, PopWait(t)
      PROVE  NoLostWakeup'
  <2>1. /\ PushComing' = PushComing
        /\ PopSignalling' = PopSignalling
    BY <1>6 DEF PopWait, PushComing, PopSignalling
  <2>2. pop' \in Nat /\ spush' \in Nat
    <3>1. PopComing' = PopComing \ {t} /\ PushSignalling' = PushSignalling
      BY <1>6 DEF PopWait, PopComing, PushSignalling
    <3> QED BY <3>1, FS_RemoveElement, FS_CardinalityType, ComingCount
  <2> QED BY <1>6, <1>a, <2>1, <2>2 DEF PopWait, NoLostWakeup
<1>7. ASSUME NEW t \in Threads, PushStore(t)
      PROVE  NoLostWakeup'
  \* One more element and one more signal to come; one fewer free slot and one
  \* fewer producer on its way to it.
  <2>1. /\ PopComing' = PopComing /\ PushComing' = PushComing \ {t}
        /\ PushSignalling' = PushSignalling \cup {t} /\ PopSignalling' = PopSignalling
        /\ t \in PushComing /\ t \notin PushSignalling
    BY <1>7 DEF PushStore, PopComing, PushComing, PushSignalling, PopSignalling
  <2>2. push' = push - 1 /\ spush' = spush + 1
    BY <2>1, CountAdd, CountRemove, ComingCount
  <2> QED BY <1>7, <1>a, <2>1, <2>2 DEF PushStore, NoLostWakeup
<1>8. ASSUME NEW t \in Threads, PopTake(t)
      PROVE  NoLostWakeup'
  <2>1. /\ PopComing' = PopComing \ {t} /\ PushComing' = PushComing
        /\ PushSignalling' = PushSignalling /\ PopSignalling' = PopSignalling \cup {t}
        /\ t \in PopComing /\ t \notin PopSignalling
    BY <1>8 DEF PopTake, PopComing, PushComing, PushSignalling, PopSignalling
  <2>2. pop' = pop - 1 /\ spop' = spop + 1
    BY <2>1, CountAdd, CountRemove, ComingCount
  <2> QED BY <1>8, <1>a, <2>1, <2>2 DEF PopTake, NoLostWakeup
<1>9. ASSUME NEW t \in Threads, PushSignal(t)
      PROVE  NoLostWakeup'
  <2>1. CASE empty_cvar = {}
    <3>1. /\ PushComing' = PushComing /\ PopSignalling' = PopSignalling
      BY <1>9, <2>1 DEF PushSignal, PushComing, PopSignalling
    <3> QED BY <1>9, <2>1, <3>1 DEF PushSignal, NoLostWakeup
  <2>2. CASE empty_cvar # {}
    \* The signal that was to come is replaced by the consumer it wakes.
    <3>1. PICK c \in empty_cvar :
                 pc' = [pc EXCEPT ![t] = "push_unlock", ![c] = "pop_lock"]
      BY <1>9, <2>2 DEF PushSignal
    <3>2. pc[t] = "push_signal" /\ pc[c] = "pop_wait" /\ c \in Consumers /\ t \in Producers
      BY <1>9 DEF PushSignal
    <3>3. /\ PopComing' = PopComing \cup {c} /\ PushComing' = PushComing
          /\ PushSignalling' = PushSignalling \ {t} /\ PopSignalling' = PopSignalling
          /\ c \notin PopComing /\ t \in PushSignalling
      BY <3>1, <3>2 DEF PopComing, PushComing, PushSignalling, PopSignalling
    <3>4. pop' = pop + 1 /\ spush' = spush - 1
      BY <3>3, CountAdd, CountRemove, ComingCount
    <3> QED BY <1>9, <1>a, <2>2, <3>3, <3>4 DEF PushSignal, NoLostWakeup
  <2> QED BY <2>1, <2>2
<1>10. ASSUME NEW t \in Threads, PopSignal(t)
       PROVE  NoLostWakeup'
  <2>1. CASE full_cvar = {}
    <3>1. /\ PopComing' = PopComing /\ PushSignalling' = PushSignalling
      BY <1>10, <2>1 DEF PopSignal, PopComing, PushSignalling
    <3> QED BY <1>10, <2>1, <3>1 DEF PopSignal, NoLostWakeup
  <2>2. CASE full_cvar # {}
    <3>1. PICK p \in full_cvar :
                 pc' = [pc EXCEPT ![t] = "pop_unlock", ![p] = "push_lock"]
      BY <1>10, <2>2 DEF PopSignal
    <3>2. pc[t] = "pop_signal" /\ pc[p] = "push_wait" /\ p \in Producers /\ t \in Consumers
      BY <1>10 DEF PopSignal
    <3>3. /\ PushComing' = PushComing \cup {p} /\ PopComing' = PopComing
          /\ PopSignalling' = PopSignalling \ {t} /\ PushSignalling' = PushSignalling
          /\ p \notin PushComing /\ t \in PopSignalling
      BY <3>1, <3>2 DEF PopComing, PushComing, PushSignalling, PopSignalling
    <3>4. push' = push + 1 /\ spop' = spop - 1
      BY <3>3, CountAdd, CountRemove, ComingCount
    <3> QED BY <1>10, <1>a, <2>2, <3>3, <3>4 DEF PopSignal, NoLostWakeup
  <2> QED BY <2>1, <2>2
<1>11. ASSUME NEW t \in Threads, SpuriousWakeup(t)
       PROVE  NoLostWakeup'
  <2>1. CASE t \in empty_cvar /\ Goto(t, "pop_lock") /\ UNCHANGED full_cvar
    <3>1. /\ PopComing' = PopComing \cup {t} /\ PushComing' = PushComing
          /\ PushSignalling' = PushSignalling /\ PopSignalling' = PopSignalling
          /\ t \notin PopComing
      BY <2>1 DEF PopComing, PushComing, PushSignalling, PopSignalling
    <3>2. pop' = pop + 1
      BY <3>1, CountAdd, ComingCount
    <3> QED BY <1>11, <1>a, <2>1, <3>1, <3>2 DEF SpuriousWakeup, NoLostWakeup
  <2>2. CASE t \in full_cvar /\ Goto(t, "push_lock") /\ UNCHANGED empty_cvar
    <3>1. /\ PushComing' = PushComing \cup {t} /\ PopComing' = PopComing
          /\ PushSignalling' = PushSignalling /\ PopSignalling' = PopSignalling
          /\ t \notin PushComing
      BY <2>2 DEF PopComing, PushComing, PushSignalling, PopSignalling
    <3>2. push' = push + 1
      BY <3>1, CountAdd, ComingCount
    <3> QED BY <1>11, <1>a, <2>2, <3>1, <3>2 DEF SpuriousWakeup, NoLostWakeup
  <2> QED BY <1>11, <2>1, <2>2 DEF SpuriousWakeup
<1> QED
  BY <1>1, <1>2, <1>3, <1>4, <1>5, <1>6, <1>7, <1>8, <1>9, <1>10, <1>11
     DEF Next, Step, Push, Pop

\* No wakeup is lost (queue.c:22-29, 36-43): while a thread sleeps on a
\* condition variable, every element or free slot it could take has an awake
\* thread on its way to it, or a signal still to come.
THEOREM NoWakeupIsLost == Spec => []NoLostWakeup
<1>1. Init => IInv
  BY CoreInit, WakeupInit DEF IInv
<1>2. IInv /\ [Next]_vars => IInv'
  BY CoreStep, WakeupStep DEF IInv
<1>3. IInv => NoLostWakeup
  BY DEF IInv
<1> QED BY <1>1, <1>2, <1>3, PTL DEF Spec
-----------------------------------------------------------------------------
(* The ring implements the abstract FIFO *)

\* Any stretch of written slots, read as a sequence, and then the contents of
\* the ring before and after a step.
LEMMA StretchSeq ==
  ASSUME NEW a, NEW h, NEW n \in Nat,
         \A i \in 1 .. n : a[(h + (i - 1)) % QUEUE_MAXLEN] \in Values,
         NEW s, s = [i \in 1 .. n |-> a[(h + (i - 1)) % QUEUE_MAXLEN]]
  PROVE  /\ s \in Seq(Values)
         /\ Len(s) = n
         /\ \A i \in 1 .. n : s[i] = a[(h + (i - 1)) % QUEUE_MAXLEN]
<1>1. s \in [1 .. n -> Values]
  OBVIOUS
<1>2. s \in Seq(Values)
  BY <1>1, SeqDef
<1>3. Len(s) = n
  BY <1>1, <1>2, LenProperties
<1> QED BY <1>2, <1>3

LEMMA ItemsSeq ==
  ASSUME CoreInv
  PROVE  /\ items \in Seq(Values)
         /\ Len(items) = size
         /\ \A i \in 1 .. size : items[i] = arr[(head + (i - 1)) % QUEUE_MAXLEN]
<1>1. size \in Nat
  BY QueueAssumption DEF CoreInv, TypeOK
<1> QED BY <1>1, StretchSeq DEF CoreInv, RingInv, items

LEMMA NextItemsSeq ==
  ASSUME CoreInv'
  PROVE  /\ items' \in Seq(Values)
         /\ Len(items') = size'
         /\ \A i \in 1 .. size' : items'[i] = arr'[(head' + (i - 1)) % QUEUE_MAXLEN]
<1>1. size' \in Nat
  BY QueueAssumption DEF CoreInv, TypeOK
<1> QED BY <1>1, StretchSeq DEF CoreInv, RingInv, items

\* A store writes the slot after the last element and disturbs no other.
LEMMA StoreAppends ==
  ASSUME CoreInv, CoreInv', NEW t \in Threads, PushStore(t)
  PROVE  items' = Append(items, val[t])
<1> USE QueueAssumption DEF PushStore
<1>1. /\ size \in 0 .. QUEUE_MAXLEN - 1 /\ size' = size + 1 /\ head' = head
      /\ head \in Slots /\ tail \in Slots /\ arr \in [Slots -> Values \cup {NoValue}]
      /\ tail = (head + size) % QUEUE_MAXLEN /\ arr' = [arr EXCEPT ![tail] = val[t]]
      /\ val[t] \in Values
  BY DEF CoreInv, TypeOK, RingInv, ValInv, PushPc
<1>2. /\ items \in Seq(Values) /\ Len(items) = size
      /\ \A i \in 1 .. size : items[i] = arr[(head + (i - 1)) % QUEUE_MAXLEN]
  BY ItemsSeq
<1>3. /\ items' \in Seq(Values) /\ Len(items') = size'
      /\ \A i \in 1 .. size' : items'[i] = arr'[(head' + (i - 1)) % QUEUE_MAXLEN]
  BY NextItemsSeq
<1>4. /\ Append(items, val[t]) \in Seq(Values)
      /\ Len(Append(items, val[t])) = size'
      /\ \A i \in 1 .. size : Append(items, val[t])[i] = items[i]
      /\ Append(items, val[t])[size + 1] = val[t]
  BY <1>1, <1>2, AppendProperties
<1>5. ASSUME NEW i \in 1 .. size'
      PROVE  items'[i] = Append(items, val[t])[i]
  <2>1. CASE i = size + 1
    <3>1. (head' + (i - 1)) % QUEUE_MAXLEN = tail
      BY <1>1, <2>1
    <3> QED BY <1>1, <1>3, <1>4, <2>1, <3>1
  <2>2. CASE i # size + 1
    <3>1. i \in 1 .. size /\ i - 1 \in 0 .. QUEUE_MAXLEN - 1 /\ i - 1 # size
      BY <1>1, <2>2
    <3>2. /\ (head + (i - 1)) % QUEUE_MAXLEN # tail
          /\ (head + (i - 1)) % QUEUE_MAXLEN \in Slots
      <4> DEFINE j == i - 1
      <4> HIDE DEF j
      <4>1. /\ j \in 0 .. QUEUE_MAXLEN - 1 /\ j \in 0 .. QUEUE_MAXLEN /\ j # size
            /\ size \in 0 .. QUEUE_MAXLEN - 1
        BY <1>1, <3>1 DEF j
      <4>2. (head + j) % QUEUE_MAXLEN # tail
        BY <1>1, <4>1, SlotsDiffer
      <4>3. (head + j) % QUEUE_MAXLEN \in Slots
        BY <1>1, <4>1, SlotAfter
      <4> QED BY <4>2, <4>3 DEF j
    <3> DEFINE x == (head + (i - 1)) % QUEUE_MAXLEN
    <3> HIDE DEF x
    <3>3. arr'[x] = arr[x]
      BY <1>1, <3>2 DEF x
    <3>4. items'[i] = arr'[x] /\ items[i] = arr[x]
      BY <1>1, <1>2, <1>3, <3>1 DEF x
    <3> QED BY <1>4, <3>1, <3>3, <3>4
  <2> QED BY <2>1, <2>2
<1> QED BY <1>1, <1>3, <1>4, <1>5, SeqEqual

\* A take reads the oldest element and leaves the others in order.
LEMMA TakePops ==
  ASSUME CoreInv, CoreInv', NEW t \in Threads, PopTake(t)
  PROVE  items # <<>> /\ Head(items) = arr[head] /\ items' = Tail(items)
<1> USE QueueAssumption DEF PopTake
<1>1. /\ size \in 1 .. QUEUE_MAXLEN /\ size' = size - 1
      /\ head \in Slots /\ head' = (head + 1) % QUEUE_MAXLEN /\ arr' = arr
  BY DEF CoreInv, TypeOK
<1>2. /\ items \in Seq(Values) /\ Len(items) = size
      /\ \A i \in 1 .. size : items[i] = arr[(head + (i - 1)) % QUEUE_MAXLEN]
  BY ItemsSeq
<1>3. /\ items' \in Seq(Values) /\ Len(items') = size'
      /\ \A i \in 1 .. size' : items'[i] = arr'[(head' + (i - 1)) % QUEUE_MAXLEN]
  BY NextItemsSeq
<1>4. items # <<>>
  BY <1>1, <1>2, EmptySeq
<1>5. Head(items) = arr[head]
  <2>1. (head + (1 - 1)) % QUEUE_MAXLEN = head
    BY <1>1 DEF Slots
  <2>2. Head(items) = items[1]
    BY <1>2, <1>4
  <2> QED BY <1>1, <1>2, <2>1, <2>2
<1>6. /\ Tail(items) \in Seq(Values) /\ Len(Tail(items)) = size'
      /\ \A i \in 1 .. size' : Tail(items)[i] = items[i + 1]
  BY <1>1, <1>2, <1>4, HeadTailProperties
<1>7. ASSUME NEW i \in 1 .. size'
      PROVE  items'[i] = Tail(items)[i]
  <2>1. /\ i - 1 \in 0 .. QUEUE_MAXLEN - 1 /\ (i - 1) + 1 = (i + 1) - 1
        /\ i + 1 \in 1 .. size
    BY <1>1
  <2>2. (head' + (i - 1)) % QUEUE_MAXLEN = (head + ((i + 1) - 1)) % QUEUE_MAXLEN
    BY <1>1, <2>1, NextSlot
  <2> QED BY <1>1, <1>2, <1>3, <1>6, <2>1, <2>2
<1> QED BY <1>3, <1>4, <1>5, <1>6, <1>7, SeqEqual

LEMMA FIFOInit == Init => FIFO!Init
<1> SUFFICES ASSUME Init PROVE FIFO!Init
  OBVIOUS
<1>1. items = <<>>
  BY DEF Init, items
<1>2. [t \in Threads |-> PhaseOf(pc[t])] = [t \in Threads |-> "idle"]
  BY DEF Init, PhaseOf
<1> QED BY <1>1, <1>2 DEF Init, FIFO!Init, FIFO!Threads, Threads

\* A thread that moves on changes its own phase and nobody else's.
LEMMA PhaseChange ==
  ASSUME NEW q, NEW r, NEW t \in Threads, NEW p,
         q \in [Threads -> PushPc \cup PopPc \cup {"idle"}], r = [q EXCEPT ![t] = p]
  PROVE  [u \in Threads |-> PhaseOf(r[u])] =
            [[u \in Threads |-> PhaseOf(q[u])] EXCEPT ![t] = PhaseOf(p)]
  OBVIOUS

LEMMA PhaseNames ==
  /\ PhaseOf("idle") = "idle"
  /\ \A p \in {"push_lock", "push_test", "push_wait"} : PhaseOf(p) = "pushing"
  /\ \A p \in {"push_signal", "push_unlock"} : PhaseOf(p) = "pushed"
  /\ \A p \in {"pop_lock", "pop_test", "pop_wait"} : PhaseOf(p) = "popping"
  /\ \A p \in {"pop_signal", "pop_unlock"} : PhaseOf(p) = "popped"
  BY DEF PhaseOf

LEMMA FIFOStep == CoreInv /\ CoreInv' /\ [Next]_vars => [FIFO!Next]_(FIFO!vars)
<1> SUFFICES ASSUME CoreInv, CoreInv', [Next]_vars PROVE [FIFO!Next]_(FIFO!vars)
  OBVIOUS
<1> DEFINE phase == [t \in Threads |-> PhaseOf(pc[t])]
<1>a. /\ pc \in [Threads -> PushPc \cup PopPc \cup {"idle"}]
      /\ val \in [Threads -> Values \cup {NoValue}]
      /\ RoleInv /\ ValInv /\ WaitInv
  BY DEF CoreInv, TypeOK
<1>b. ASSUME NEW t \in Threads, NEW p, pc' = [pc EXCEPT ![t] = p]
      PROVE  phase' = [phase EXCEPT ![t] = PhaseOf(p)]
  BY <1>a, <1>b, PhaseChange
<1>c. \A t \in Threads : phase[t] = PhaseOf(pc[t])
  OBVIOUS
<1>d. phase \in [Threads -> {PhaseOf(pc[t]) : t \in Threads}]
  OBVIOUS
<1>e. FIFO!Threads = Threads
  BY DEF FIFO!Threads, Threads
<1>f. UNCHANGED <<arr, head, size>> => UNCHANGED items
  BY DEF items
<1> HIDE DEF phase
<1> USE DEF Goto, ring
<1>1. CASE UNCHANGED vars
  BY <1>1, <1>f DEF vars, FIFO!vars, phase
<1>2. ASSUME NEW t \in Producers, NEW v \in Values, PushCall(t, v)
      PROVE  FIFO!Call(t, "pushing", v)
  <2>1. phase[t] = "idle" /\ phase' = [phase EXCEPT ![t] = "pushing"]
    <3>1. /\ t \in Threads /\ pc[t] = "idle"
          /\ pc' = [pc EXCEPT ![t] = "push_lock"]
      BY <1>2 DEF PushCall, Threads
    <3>2. phase' = [phase EXCEPT ![t] = PhaseOf("push_lock")] /\ phase[t] = PhaseOf(pc[t])
      BY <1>b, <1>c, <3>1
    <3> QED BY <3>1, <3>2, PhaseNames
  <2> QED BY <1>2, <1>f, <2>1 DEF PushCall, FIFO!Call, phase
<1>3. ASSUME NEW t \in Consumers, PopCall(t)
      PROVE  FIFO!Call(t, "popping", NoValue)
  <2>1. phase[t] = "idle" /\ phase' = [phase EXCEPT ![t] = "popping"]
    <3>1. /\ t \in Threads /\ pc[t] = "idle"
          /\ pc' = [pc EXCEPT ![t] = "pop_lock"]
      BY <1>3 DEF PopCall, Threads
    <3>2. phase' = [phase EXCEPT ![t] = PhaseOf("pop_lock")] /\ phase[t] = PhaseOf(pc[t])
      BY <1>b, <1>c, <3>1
    <3> QED BY <3>1, <3>2, PhaseNames
  <2>2. val' = [val EXCEPT ![t] = NoValue]
    <3>1. t \in Threads /\ val[t] = NoValue /\ val' = val
      BY <1>3, <1>a DEF PopCall, ValInv, PushPc, Threads
    <3> QED BY <1>a, <3>1
  <2> QED BY <1>3, <1>f, <2>1, <2>2 DEF PopCall, FIFO!Call, phase
<1>4. ASSUME NEW t \in Threads,
             PushLock(t) \/ PopLock(t) \/ PushWait(t) \/ PopWait(t) \/ SpuriousWakeup(t)
      PROVE  UNCHANGED FIFO!vars
  <2>1. PICK p : pc' = [pc EXCEPT ![t] = p] /\ PhaseOf(p) = PhaseOf(pc[t])
    BY <1>4, <1>a, PhaseNames
       DEF PushLock, PopLock, PushWait, PopWait, SpuriousWakeup, WaitInv
  <2>2. phase' = phase
    <3>1. phase' = [phase EXCEPT ![t] = PhaseOf(p)] /\ PhaseOf(p) = phase[t]
      BY <1>b, <1>c, <2>1
    <3> QED BY <1>d, <3>1
  <2>3. val' = val /\ UNCHANGED items
    BY <1>4, <1>f DEF PushLock, PopLock, PushWait, PopWait, SpuriousWakeup
  <2> QED BY <2>2, <2>3 DEF FIFO!vars, phase
<1>5. ASSUME NEW t \in Threads, PushStore(t)
      PROVE  t \in Producers /\ FIFO!DoPush(t)
  <2>1. phase[t] = "pushing" /\ phase' = [phase EXCEPT ![t] = "pushed"]
    <3>1. /\ t \in Threads /\ pc[t] = "push_test"
          /\ pc' = [pc EXCEPT ![t] = "push_signal"]
      BY <1>5 DEF PushStore
    <3>2. phase' = [phase EXCEPT ![t] = PhaseOf("push_signal")] /\ phase[t] = PhaseOf(pc[t])
      BY <1>b, <1>c, <3>1
    <3> QED BY <3>1, <3>2, PhaseNames
  <2>2. t \in Producers /\ val' = val
    BY <1>5, <1>a DEF PushStore, RoleInv, PushPc
  <2>3. Len(items) < QUEUE_MAXLEN
    BY <1>5, ItemsSeq, QueueAssumption DEF PushStore, CoreInv, TypeOK
  <2> QED BY <1>5, <2>1, <2>2, <2>3, StoreAppends DEF FIFO!DoPush, phase
<1>6. ASSUME NEW t \in Threads, PopTake(t)
      PROVE  t \in Consumers /\ FIFO!DoPop(t)
  <2>1. phase[t] = "popping" /\ phase' = [phase EXCEPT ![t] = "popped"]
    <3>1. /\ t \in Threads /\ pc[t] = "pop_test"
          /\ pc' = [pc EXCEPT ![t] = "pop_signal"]
      BY <1>6 DEF PopTake
    <3>2. phase' = [phase EXCEPT ![t] = PhaseOf("pop_signal")] /\ phase[t] = PhaseOf(pc[t])
      BY <1>b, <1>c, <3>1
    <3> QED BY <3>1, <3>2, PhaseNames
  <2>2. t \in Consumers /\ val' = [val EXCEPT ![t] = arr[head]]
    BY <1>6, <1>a DEF PopTake, RoleInv, PopPc
  <2> QED BY <1>6, <2>1, <2>2, TakePops DEF FIFO!DoPop, phase
<1>7. ASSUME NEW t \in Threads, PushSignal(t) \/ PopSignal(t)
      PROVE  UNCHANGED FIFO!vars
  <2>1. ASSUME NEW u \in Threads
        PROVE  PhaseOf(pc'[u]) = PhaseOf(pc[u])
    <3>1. CASE pc' = [pc EXCEPT ![t] = "push_unlock"] /\ pc[t] = "push_signal"
      BY <1>a, <3>1, PhaseNames
    <3>2. CASE pc' = [pc EXCEPT ![t] = "pop_unlock"] /\ pc[t] = "pop_signal"
      BY <1>a, <3>2, PhaseNames
    <3>3. ASSUME NEW c \in empty_cvar, pc[t] = "push_signal",
                 pc' = [pc EXCEPT ![t] = "push_unlock", ![c] = "pop_lock"]
          PROVE  PhaseOf(pc'[u]) = PhaseOf(pc[u])
      <4>1. c \in Threads /\ pc[c] = "pop_wait"
        BY DEF CoreInv, TypeOK, WaitInv, Threads
      <4> QED BY <1>a, <3>3, <4>1, PhaseNames
    <3>4. ASSUME NEW c \in full_cvar, pc[t] = "pop_signal",
                 pc' = [pc EXCEPT ![t] = "pop_unlock", ![c] = "push_lock"]
          PROVE  PhaseOf(pc'[u]) = PhaseOf(pc[u])
      <4>1. c \in Threads /\ pc[c] = "push_wait"
        BY DEF CoreInv, TypeOK, WaitInv, Threads
      <4> QED BY <1>a, <3>4, <4>1, PhaseNames
    <3> QED BY <1>7, <3>1, <3>2, <3>3, <3>4 DEF PushSignal, PopSignal
  <2>2. phase' = phase
    BY <2>1 DEF phase
  <2>3. val' = val /\ UNCHANGED items
    BY <1>7, <1>f DEF PushSignal, PopSignal
  <2> QED BY <2>2, <2>3 DEF FIFO!vars, phase
<1>8. ASSUME NEW t \in Threads, Unlock(t)
      PROVE  FIFO!Return(t)
  <2>1. phase[t] \in {"pushed", "popped"} /\ phase' = [phase EXCEPT ![t] = "idle"]
    <3>1. /\ t \in Threads /\ pc[t] \in {"push_unlock", "pop_unlock"}
          /\ pc' = [pc EXCEPT ![t] = "idle"]
      BY <1>8 DEF Unlock
    <3>2. phase' = [phase EXCEPT ![t] = PhaseOf("idle")] /\ phase[t] = PhaseOf(pc[t])
      BY <1>b, <1>c, <3>1
    <3> QED BY <3>1, <3>2, PhaseNames
  <2> QED BY <1>8, <1>f, <2>1 DEF Unlock, FIFO!Return, phase
<1> QED
  BY <1>1, <1>2, <1>3, <1>4, <1>5, <1>6, <1>7, <1>8, <1>e
     DEF Next, Step, Push, Pop, FIFO!Next, FIFO!SomePush, FIFO!SomePop

\* The queue of queue.c is a bounded FIFO (queue.h:1-4, 25-35), for any
\* capacity and any threads: every step of the code is a step of the abstract
\* queue on items or changes nothing it can see.
THEOREM QueueIsFIFO == Spec => RefinesFIFO
<1>1. Init => FIFO!Init
  BY FIFOInit
<1>2. CoreInv /\ CoreInv' /\ [Next]_vars => [FIFO!Next]_(FIFO!vars)
  BY FIFOStep
<1> QED BY <1>1, <1>2, CoreCorrect, PTL DEF Spec, RefinesFIFO, FIFO!Spec
=============================================================================
