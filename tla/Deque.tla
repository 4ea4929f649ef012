------------------------------- MODULE Deque -------------------------------
(***************************************************************************)
(* queue::Deque (queue.h): an unbounded deque with one mutex and one       *)
(* condition variable.  The library has two, orphaned_calls and            *)
(* snapshot_queue, each with a single thread that takes from it.  That     *)
(* thread is joined after close(), and the deque is reset() before it is   *)
(* started again.                                                          *)
(*                                                                         *)
(* Every operation reads and writes the fields under the mutex only, so    *)
(* what it does between two points where the mutex is free is one step.    *)
(* What is put is numbered from 1 in each run.                             *)
(***************************************************************************)
EXTENDS Integers, Sequences

CONSTANTS MaxPuts,  \* bound: values put per run
          MaxRuns   \* bound: runs of the taking thread

ASSUME DequeAssumption == MaxPuts \in Nat /\ MaxRuns \in Nat \ {0}

VARIABLES deque, closed,
          taker,   \* the taking thread
          put,     \* values put in this run
          taken,   \* the last value taken in this run
          runs

vars == <<deque, closed, taker, put, taken, runs>>

(* asleep in take() or in poll_until(), woken but without the mutex yet *)
TakerStates == {"idle", "asleep", "polling", "woken", "wokenPoll", "exited"}

Init ==
  /\ deque = <<>> /\ closed = FALSE
  /\ taker = "idle"
  /\ put = 0 /\ taken = 0 /\ runs = 1

Notified == CASE taker = "asleep" -> "woken"
              [] taker = "polling" -> "wokenPoll"
              [] OTHER -> taker

-----------------------------------------------------------------------------

(* Fault: the taking thread is not notified. *)
PutSilent ==
  /\ put < MaxPuts /\ ~closed
  /\ deque' = Append(deque, put + 1)
  /\ put' = put + 1
  /\ UNCHANGED <<closed, taker, taken, runs>>

(* put(), emplace(); on a closed deque they throw and change nothing. *)
Put ==
  /\ put < MaxPuts /\ ~closed
  /\ deque' = Append(deque, put + 1)
  /\ put' = put + 1
  /\ taker' = Notified
  /\ UNCHANGED <<closed, taken, runs>>

(* With the mutex: check_closed(), then take the front or go to sleep. *)
Advance(sleep) ==
  \/ /\ closed
     /\ taker' = "exited"
     /\ UNCHANGED <<deque, taken>>
  \/ /\ ~closed /\ deque # <<>>
     /\ taken' = Head(deque) /\ deque' = Tail(deque)
     /\ taker' = "idle"
  \/ /\ ~closed /\ deque = <<>>
     /\ taker' = sleep
     /\ UNCHANGED <<deque, taken>>

(* Fault: the flag is looked at before the mutex is taken, and the thread  *)
(* goes to sleep whatever has become of it.                                *)
TakeUnchecked ==
  /\ taker = "idle"
  /\ IF deque = <<>>
     THEN taker' = "asleep" /\ UNCHANGED <<deque, taken>>
     ELSE taker' = "idle" /\ taken' = Head(deque) /\ deque' = Tail(deque)
  /\ UNCHANGED <<closed, put, runs>>

Take ==
  /\ taker = "idle" /\ Advance("asleep")
  /\ UNCHANGED <<closed, put, runs>>

Retake ==
  /\ taker = "woken" /\ Advance("asleep")
  /\ UNCHANGED <<closed, put, runs>>

(* poll_until(); when the mutex is not free in time it returns nothing and *)
(* changes nothing.                                                        *)
Poll ==
  /\ taker = "idle" /\ Advance("polling")
  /\ UNCHANGED <<closed, put, runs>>

Repoll ==
  /\ taker = "wokenPoll" /\ Advance("polling")
  /\ UNCHANGED <<closed, put, runs>>

(* wait_until reports a timeout, after a notification too when the time    *)
(* has passed by then: return without a look at the deque or the flag.     *)
PollTimeout ==
  /\ taker \in {"polling", "wokenPoll"}
  /\ taker' = "idle"
  /\ UNCHANGED <<deque, closed, put, taken, runs>>

SpuriousWake ==
  /\ taker \in {"asleep", "polling"}
  /\ taker' = Notified
  /\ UNCHANGED <<deque, closed, put, taken, runs>>

(* Fault: sleepers are not told. *)
CloseSilent ==
  /\ ~closed
  /\ closed' = TRUE
  /\ UNCHANGED <<deque, taker, put, taken, runs>>

Close ==
  /\ ~closed
  /\ closed' = TRUE
  /\ taker' = Notified
  /\ UNCHANGED <<deque, put, taken, runs>>

(* Fault: the deque is opened again with what is left in it. *)
ResetKeepsItems ==
  /\ taker = "exited" /\ runs < MaxRuns
  /\ closed' = FALSE
  /\ taker' = "idle" /\ put' = 0 /\ taken' = 0 /\ runs' = runs + 1
  /\ UNCHANGED deque

(* The thread is joined; later reset() and a new thread. *)
Reset ==
  /\ taker = "exited" /\ runs < MaxRuns
  /\ closed' = FALSE /\ deque' = <<>>
  /\ taker' = "idle" /\ put' = 0 /\ taken' = 0 /\ runs' = runs + 1

-----------------------------------------------------------------------------

TakerStep == Take \/ Retake \/ Poll \/ Repoll

Next == Put \/ TakerStep \/ PollTimeout \/ SpuriousWake \/ Close \/ Reset

Spec == Init /\ [][Next]_vars

(* The taking thread runs, gets the mutex, and takes or polls again when   *)
(* it got a value or timed out (the loops of run_orphan_gc and             *)
(* run_snapshot_worker).                                                   *)
FairSpec == Spec /\ WF_vars(TakerStep)

-----------------------------------------------------------------------------
(* Properties *)

(* Type invariant of the deque and its thread (queue.h, class Deque). *)
TypeOK ==
  /\ deque \in Seq(Nat) /\ closed \in BOOLEAN
  /\ taker \in TakerStates
  /\ put \in Nat /\ taken \in Nat /\ runs \in Nat

(* No wake-up is lost: the thread is never asleep while there is something *)
(* to take or the deque is closed.  (ArrayBlockingQueue, which checks its  *)
(* flag before it locks, does not have the second half.)                   *)
SleepsOnlyWithReason ==
  taker \in {"asleep", "polling"} => deque = <<>> /\ ~closed

(* Nothing is lost, duplicated, reordered or left over from an earlier     *)
(* run: the deque always holds exactly what was put in this run and not    *)
(* yet taken, in order.                                                    *)
HoldsTheRest ==
  /\ Len(deque) = put - taken
  /\ \A i \in 1 .. Len(deque) : deque[i] = taken + i

(* close() ends the thread, so that the joins of raft_cleanup and          *)
(* shm_cleanup return.                                                     *)
TakerEnds == closed ~> (taker = "exited")

(* Each value put is taken, unless the deque is closed first: timed-out    *)
(* polls lose no notification for good.                                    *)
AllTaken == \A n \in 1 .. MaxPuts : (put >= n) ~> (taken >= n \/ closed)

=============================================================================
