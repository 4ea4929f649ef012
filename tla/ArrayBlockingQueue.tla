------------------------- MODULE ArrayBlockingQueue -------------------------
(***************************************************************************)
(* queue::ArrayBlockingQueue (queue.h): a ring of Capacity cells guarded   *)
(* by one mutex and two condition variables, and an atomic closed flag     *)
(* that put() and take() read once before they lock the mutex and again    *)
(* after every wait.  The scoreboard holds two of them in shared memory,   *)
(* api_queue (client threads put, Raft workers take) and fsm_queue (Raft   *)
(* puts, the FSM worker takes).                                            *)
(*                                                                         *)
(* One step per shared access: a thread's pc is                            *)
(*   idle -> check -> lock -> test -> act -> unlock -> idle                *)
(*                             |  ^                                        *)
(*                          wait -> relock -> recheck                      *)
(* A thread asleep on not_full or not_empty has pc = "wait": producers     *)
(* sleep only on not_full and consumers only on not_empty.                 *)
(***************************************************************************)
EXTENDS Integers, FiniteSets

CONSTANTS Capacity,   \* template parameter of the queue
          Producers,  \* threads that call put()
          Consumers,  \* threads that call take() in a loop
          Closer,     \* the thread that calls close()
          Values,     \* what the queue holds
          None        \* no thread; a cell or result never written

Callers == Producers \cup Consumers
Threads == Callers \cup {Closer}

ASSUME QueueAssumption ==
  /\ Capacity \in Nat \ {0}
  /\ IsFiniteSet(Producers)
  /\ IsFiniteSet(Consumers)
  /\ Producers \cap Consumers = {}
  /\ Closer \notin Callers
  /\ None \notin Threads \cup Values

VARIABLES array, head, tail, count,  \* the ring
          closed,                    \* atomic<bool>
          mutex,                     \* the thread holding it, or None
          pc,                        \* where each thread is
          val                        \* put's argument, take's result

vars == <<array, head, tail, count, closed, mutex, pc, val>>
ring == <<array, head, tail, count>>

Cells == 0 .. Capacity - 1

PC == {"idle", "check", "lock", "test", "act", "unlock",
       "wait", "relock", "recheck", "exited"}

(***************************************************************************)
(* The scoreboard is built in a newly created, zero-filled file, so the    *)
(* members that the defaulted constructor leaves alone start at zero.      *)
(***************************************************************************)
Init ==
  /\ array = [i \in Cells |-> None]
  /\ head = 0
  /\ tail = 0
  /\ count = 0
  /\ closed = FALSE
  /\ mutex = None
  /\ pc = [t \in Threads |-> "idle"]
  /\ val = [t \in Callers |-> None]

(* Fault: the ring wraps one cell too late. *)
IncPastEnd(i) == IF i = Capacity THEN 0 ELSE i + 1

Inc(i) == IF i = Capacity - 1 THEN 0 ELSE i + 1

-----------------------------------------------------------------------------
(* Condition variables: notifications move sleepers of S to "relock". *)

Sleepers(S) == {t \in S : pc[t] = "wait"}

NotifyOne(S) ==
  IF Sleepers(S) = {} THEN {pc}
  ELSE {[pc EXCEPT ![w] = "relock"] : w \in Sleepers(S)}

NotifyAll(S) ==
  [t \in Threads |-> IF t \in Sleepers(S) THEN "relock" ELSE pc[t]]

Goto(t, label) == pc' = [pc EXCEPT ![t] = label]

(***************************************************************************)
(* queue_closed leaves put() or take(): a producer handles it and may call *)
(* again, a consumer's loop ends (run_fsm_worker, the Raft workers).       *)
(***************************************************************************)
Throw(t) == Goto(t, IF t \in Consumers THEN "exited" ELSE "idle")

-----------------------------------------------------------------------------
(* put() and take() *)

CallPut(p) ==
  /\ pc[p] = "idle"
  /\ \E v \in Values : val' = [val EXCEPT ![p] = v]
  /\ Goto(p, "check")
  /\ UNCHANGED <<ring, closed, mutex>>

CallTake(c) ==
  /\ pc[c] = "idle"
  /\ Goto(c, "check")
  /\ UNCHANGED <<ring, closed, mutex, val>>

(* The first check_closed() reads the flag without the mutex. *)
CheckClosed(t) ==
  /\ pc[t] = "check"
  /\ IF closed THEN Throw(t) ELSE Goto(t, "lock")
  /\ UNCHANGED <<ring, closed, mutex, val>>

(* Fault: the mutex is not waited for. *)
LockAnyway(t) ==
  /\ pc[t] \in {"lock", "relock"}
  /\ mutex' = t
  /\ Goto(t, IF pc[t] = "relock" THEN "recheck"
             ELSE IF t = Closer THEN "act" ELSE "test")
  /\ UNCHANGED <<ring, closed, val>>

Lock(t) ==
  /\ pc[t] \in {"lock", "relock"}
  /\ mutex = None
  /\ mutex' = t
  /\ Goto(t, IF pc[t] = "relock" THEN "recheck"
             ELSE IF t = Closer THEN "act" ELSE "test")
  /\ UNCHANGED <<ring, closed, val>>

Blocked(t) == IF t \in Producers THEN count = Capacity ELSE count = 0

(* The loop condition; wait() gives up the mutex as it falls asleep. *)
Test(t) ==
  /\ pc[t] = "test"
  /\ IF Blocked(t) THEN Goto(t, "wait") /\ mutex' = None
                   ELSE Goto(t, "act") /\ UNCHANGED mutex
  /\ UNCHANGED <<ring, closed, val>>

(* pthread condition variables may wake a sleeper unasked. *)
SpuriousWake(t) ==
  /\ pc[t] = "wait"
  /\ Goto(t, "relock")
  /\ UNCHANGED <<ring, closed, mutex, val>>

(* Fault: a woken thread goes straight on to its insertion or removal. *)
RecheckNotLooping(t) ==
  /\ pc[t] = "recheck"
  /\ IF closed THEN Throw(t) /\ mutex' = None
               ELSE Goto(t, "act") /\ UNCHANGED mutex
  /\ UNCHANGED <<ring, closed, val>>

(* check_closed() after a wait; the exception unwinds the lock. *)
Recheck(t) ==
  /\ pc[t] = "recheck"
  /\ IF closed THEN Throw(t) /\ mutex' = None
               ELSE Goto(t, "test") /\ UNCHANGED mutex
  /\ UNCHANGED <<ring, closed, val>>

(* Fault: put() does not notify. *)
InsertSilent(p) ==
  /\ pc[p] = "act"
  /\ array' = [array EXCEPT ![head] = val[p]]
  /\ head' = Inc(head)
  /\ count' = count + 1
  /\ Goto(p, "unlock")
  /\ UNCHANGED <<tail, closed, mutex, val>>

Insert(p) ==
  /\ pc[p] = "act"
  /\ array' = [array EXCEPT ![head] = val[p]]
  /\ head' = Inc(head)
  /\ count' = count + 1
  /\ \E notified \in NotifyOne(Consumers) :
        pc' = [notified EXCEPT ![p] = "unlock"]
  /\ UNCHANGED <<tail, closed, mutex, val>>

(* Fault: take() does not notify. *)
RemoveSilent(c) ==
  /\ pc[c] = "act"
  /\ val' = [val EXCEPT ![c] = array[tail]]
  /\ tail' = Inc(tail)
  /\ count' = count - 1
  /\ Goto(c, "unlock")
  /\ UNCHANGED <<array, head, closed, mutex>>

(* Fault: take() leaves tail where it was. *)
RemoveKeepsTail(c) ==
  /\ pc[c] = "act"
  /\ val' = [val EXCEPT ![c] = array[tail]]
  /\ count' = count - 1
  /\ \E notified \in NotifyOne(Producers) :
        pc' = [notified EXCEPT ![c] = "unlock"]
  /\ UNCHANGED <<array, head, tail, closed, mutex>>

Remove(c) ==
  /\ pc[c] = "act"
  /\ val' = [val EXCEPT ![c] = array[tail]]
  /\ tail' = Inc(tail)
  /\ count' = count - 1
  /\ \E notified \in NotifyOne(Producers) :
        pc' = [notified EXCEPT ![c] = "unlock"]
  /\ UNCHANGED <<array, head, closed, mutex>>

Unlock(t) ==
  /\ pc[t] = "unlock"
  /\ mutex' = None
  /\ Goto(t, IF t = Closer THEN "exited" ELSE "idle")
  /\ UNCHANGED <<ring, closed, val>>

-----------------------------------------------------------------------------
(* close() *)

CallClose ==
  /\ pc[Closer] = "idle"
  /\ Goto(Closer, "lock")
  /\ UNCHANGED <<ring, closed, mutex, val>>

Close ==
  /\ pc[Closer] = "act"
  /\ closed' = TRUE
  /\ pc' = [NotifyAll(Callers) EXCEPT ![Closer] = "unlock"]
  /\ UNCHANGED <<ring, mutex, val>>

-----------------------------------------------------------------------------

(* Every step of t that its thread takes by itself once it is in a call. *)
Step(t) ==
  \/ t \in Callers /\ (CheckClosed(t) \/ Test(t) \/ Recheck(t))
  \/ t \in Producers /\ Insert(t)
  \/ t \in Consumers /\ (CallTake(t) \/ Remove(t))
  \/ t = Closer /\ Close
  \/ Unlock(t)

Next ==
  \/ \E t \in Threads : Step(t) \/ Lock(t)
  \/ \E p \in Producers : CallPut(p)
  \/ \E t \in Callers : SpuriousWake(t)
  \/ CallClose

Spec == Init /\ [][Next]_vars

(***************************************************************************)
(* The scheduler runs every runnable thread, and a thread that finds the   *)
(* mutex free again and again does get it.  Nobody has to put, to close or *)
(* to wake spuriously.                                                     *)
(***************************************************************************)
Fairness ==
  \A t \in Threads : WF_vars(Step(t)) /\ SF_vars(Lock(t))

FairSpec == Spec /\ Fairness

-----------------------------------------------------------------------------
(* Properties *)

(* Type invariant of the queue object and its callers (queue.h, class      *)
(* ArrayBlockingQueue).                                                    *)
TypeOK ==
  /\ array \in [Cells -> Values \cup {None}]
  /\ head \in Cells
  /\ tail \in Cells
  /\ count \in 0 .. Capacity
  /\ closed \in BOOLEAN
  /\ mutex \in Threads \cup {None}
  /\ pc \in [Threads -> PC]
  /\ val \in [Callers -> Values \cup {None}]

Locked == {"test", "act", "unlock", "recheck"}

(* The mutex excludes: a thread is between lock and unlock of put(),       *)
(* take() or close() exactly when it is the one that holds the mutex.      *)
MutualExclusion == \A t \in Threads : pc[t] \in Locked <=> mutex = t

(* The ring cell i places after tail, as inc() walks it. *)
At(i) == IF tail + i < Capacity THEN tail + i ELSE tail + i - Capacity

(* The ring indices and the counter agree, and the count occupied cells    *)
(* from tail on were written by put(): take() never returns a cell that    *)
(* was never written, though the constructor initialises none of them.     *)
RingConsistent ==
  /\ head = IF count = Capacity THEN tail ELSE At(count)
  /\ \A i \in 0 .. count - 1 : array[At(i)] \in Values

(* Enough sleepers are woken: while the queue is open, consumers asleep on *)
(* not_empty are covered by awake ones, one for each value in the queue,   *)
(* and likewise producers on not_full for each free cell, although put()   *)
(* and take() only ever notify one thread.                                 *)
WakeupsSuffice ==
  ~closed =>
    /\ Sleepers(Consumers) # {} =>
         count <= Cardinality(Consumers \ Sleepers(Consumers))
    /\ Sleepers(Producers) # {} =>
         Capacity - count <= Cardinality(Producers \ Sleepers(Producers))

InCall == {"check", "lock", "test", "act", "wait", "relock", "recheck"}

(* The wait loops of put() and take() do their work: between the loop and  *)
(* the access to the ring nobody fills the last cell or takes the last     *)
(* value, and a producer in put() still has the argument it came with.     *)
LoopConditionHolds ==
  /\ \A t \in Callers : pc[t] = "act" => ~Blocked(t)
  /\ \A p \in Producers : pc[p] \in InCall => val[p] \in Values

Contents == [i \in 1 .. count |-> array[At(i - 1)]]

StageOf(label) == CASE label \in {"idle", "unlock", "exited"} -> "out"
                    [] label = "check" -> "called"
                    [] OTHER -> "in"

Fifo == INSTANCE BoundedFifo WITH
          Putters <- Producers,
          Takers <- Consumers,
          items <- Contents,
          stage <- [t \in Callers |-> StageOf(pc[t])]

(* The ring with its locking implements the bounded FIFO: every put()      *)
(* appends its argument once, every take() returns the oldest value, calls *)
(* that throw queue_closed change nothing and only throw once the queue is *)
(* closed.                                                                 *)
ImplementsFifo == Fifo!Spec

(* Values do not get stuck: while the queue stays open, a value in it      *)
(* leads to some take() completing (put()'s notify_one is not lost).       *)
Drains ==
  (count > 0) ~> (closed \/ \E c \in Consumers : pc[c] = "unlock")

(* Producers blocked on a full queue are not forgotten: while the queue    *)
(* stays open, take() eventually wakes one of them.                        *)
BlockedProducersWoken ==
  (Sleepers(Producers) # {}) ~>
     (closed \/ \E p \in Producers : pc[p] = "relock")

(* What raft_cleanup relies on when it closes fsm_queue and joins the      *)
(* worker, which is to log "FSM worker exiting: queue closed.": once the   *)
(* queue is closed, every thread that loops on take() ends.                *)
ConsumersExit == \A c \in Consumers : closed ~> pc[c] = "exited"

=============================================================================
