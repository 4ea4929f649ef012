---------------------------- MODULE BoundedFifo ----------------------------
(***************************************************************************)
(* What queue::ArrayBlockingQueue (queue.h) promises its callers, without  *)
(* the ring, the mutex and the condition variables: a FIFO of at most      *)
(* Capacity values that can be closed.                                     *)
(*                                                                         *)
(* A call is "called" until it has passed check_closed() and then "in".    *)
(* Closing the queue does not expel a caller that is already in: its put   *)
(* or take may still succeed, because the second check_closed() only runs  *)
(* after a wait.  Values left in a closed queue stay there.                *)
(***************************************************************************)
EXTENDS Naturals, Sequences

CONSTANTS Capacity,  \* template parameter of the queue
          Putters,   \* threads that call put()
          Takers,    \* threads that call take()
          Values,    \* what the queue holds
          None       \* no value yet

VARIABLES items,     \* the values put and not yet taken, oldest first
          closed,    \* set by close()
          stage,     \* how far each thread's current call has come
          val        \* a putter's argument, a taker's last result

vars == <<items, closed, stage, val>>

Callers == Putters \cup Takers
Stages == {"out", "called", "in"}

TypeOK ==
  /\ items \in Seq(Values)
  /\ Len(items) <= Capacity
  /\ closed \in BOOLEAN
  /\ stage \in [Callers -> Stages]
  /\ val \in [Callers -> Values \cup {None}]

Init ==
  /\ items = <<>>
  /\ closed = FALSE
  /\ stage = [t \in Callers |-> "out"]
  /\ val = [t \in Callers |-> None]

CallPut(t, v) ==
  /\ stage[t] = "out"
  /\ stage' = [stage EXCEPT ![t] = "called"]
  /\ val' = [val EXCEPT ![t] = v]
  /\ UNCHANGED <<items, closed>>

CallTake(t) ==
  /\ stage[t] = "out"
  /\ stage' = [stage EXCEPT ![t] = "called"]
  /\ UNCHANGED <<items, closed, val>>

(* check_closed() did not throw. *)
Enter(t) ==
  /\ stage[t] = "called"
  /\ ~closed
  /\ stage' = [stage EXCEPT ![t] = "in"]
  /\ UNCHANGED <<items, closed, val>>

(* check_closed() threw, before the lock or after a wait. *)
Refuse(t) ==
  /\ stage[t] \in {"called", "in"}
  /\ closed
  /\ stage' = [stage EXCEPT ![t] = "out"]
  /\ UNCHANGED <<items, closed, val>>

Put(t) ==
  /\ stage[t] = "in"
  /\ Len(items) < Capacity
  /\ items' = Append(items, val[t])
  /\ stage' = [stage EXCEPT ![t] = "out"]
  /\ UNCHANGED <<closed, val>>

Take(t) ==
  /\ stage[t] = "in"
  /\ items # <<>>
  /\ val' = [val EXCEPT ![t] = Head(items)]
  /\ items' = Tail(items)
  /\ stage' = [stage EXCEPT ![t] = "out"]
  /\ UNCHANGED closed

Close ==
  /\ closed' = TRUE
  /\ UNCHANGED <<items, stage, val>>

Next ==
  \/ \E t \in Putters : (\E v \in Values : CallPut(t, v)) \/ Put(t)
  \/ \E t \in Takers : CallTake(t) \/ Take(t)
  \/ \E t \in Callers : Enter(t) \/ Refuse(t)
  \/ Close

Spec == Init /\ [][Next]_vars

=============================================================================
