---------------------------- MODULE BoundedFIFO ----------------------------
(***************************************************************************)
(* What runtime/queue.h promises of a queue_t, with nothing said of how:   *)
(* a thread-safe FIFO of at most QUEUE_MAXLEN elements, a push that blocks *)
(* while the queue is full and a pop that blocks while it is empty.        *)
(*                                                                         *)
(* A call is three steps: the thread calls, the call takes effect on the   *)
(* queue at one instant between call and return, and the call returns.     *)
(***************************************************************************)
EXTENDS Naturals, Sequences

CONSTANTS Producers,     (* the threads that call queue_push                *)
          Consumers,     (* the threads that call queue_pop                 *)
          Values,        (* the elements pushed                             *)
          NoValue,       (* no element: a thread outside a call             *)
          QUEUE_MAXLEN   (* the most elements the queue holds               *)

VARIABLES items,   (* the elements in the queue, the oldest first           *)
          phase,   (* how far each thread's call has come                   *)
          val      (* the element a thread pushes or has popped             *)

vars == <<items, phase, val>>

Threads == Producers \cup Consumers

Init == /\ items = <<>>
        /\ phase = [t \in Threads |-> "idle"]
        /\ val = [t \in Threads |-> NoValue]

Call(t, p, v) == /\ phase[t] = "idle"
                 /\ phase' = [phase EXCEPT ![t] = p]
                 /\ val' = [val EXCEPT ![t] = v]
                 /\ UNCHANGED items

\* "Pushes the specified element onto the end of the queue.  Blocks if the
\* queue is full."
DoPush(t) == /\ phase[t] = "pushing"
             /\ Len(items) < QUEUE_MAXLEN
             /\ items' = Append(items, val[t])
             /\ phase' = [phase EXCEPT ![t] = "pushed"]
             /\ UNCHANGED val

\* "Pops the next element off the head of the queue.  Blocks if the queue is
\* empty."
DoPop(t) == /\ phase[t] = "popping"
            /\ items # <<>>
            /\ items' = Tail(items)
            /\ val' = [val EXCEPT ![t] = Head(items)]
            /\ phase' = [phase EXCEPT ![t] = "popped"]

Return(t) == /\ phase[t] \in {"pushed", "popped"}
             /\ phase' = [phase EXCEPT ![t] = "idle"]
             /\ val' = [val EXCEPT ![t] = NoValue]
             /\ UNCHANGED items

SomePush == \E t \in Producers : DoPush(t)

SomePop == \E t \in Consumers : DoPop(t)

Next == \/ \E t \in Producers, v \in Values : Call(t, "pushing", v)
        \/ \E t \in Consumers : Call(t, "popping", NoValue)
        \/ SomePush
        \/ SomePop
        \/ \E t \in Threads : Return(t)

Spec == Init /\ [][Next]_vars

\* No call waits for no reason: while there is room some pending push gets
\* through, while there are elements some pending pop does, and a call that
\* took effect returns.
Fairness == /\ WF_vars(SomePush)
            /\ WF_vars(SomePop)
            /\ \A t \in Threads : WF_vars(Return(t))

FairSpec == Spec /\ Fairness
=============================================================================
