---------------------------- MODULE DequeProofs ----------------------------
(***************************************************************************)
(* Proofs that the deque of queue.h loses neither wake-ups nor values, for *)
(* any number of values and runs.                                          *)
(***************************************************************************)
EXTENDS Deque, SequenceTheorems, TLAPS

DequeInv == TypeOK /\ SleepsOnlyWithReason /\ HoldsTheRest

(* A new or newly constructed deque satisfies the invariant. *)
LEMMA DequeInit == Init => DequeInv
<1>. SUFFICES ASSUME Init PROVE DequeInv
  OBVIOUS
<1>1. closed \in BOOLEAN
  BY Zenon DEF Init
<1>2. TypeOK
  BY <1>1 DEF Init, TypeOK, TakerStates
<1>3. SleepsOnlyWithReason /\ HoldsTheRest
  BY DEF Init, SleepsOnlyWithReason, HoldsTheRest
<1>. QED  BY <1>2, <1>3 DEF DequeInv

(* A notified thread is not asleep. *)
LEMMA NotifiedAwake ==
  ASSUME TypeOK
  PROVE  Notified \in TakerStates \ {"asleep", "polling"}
BY DEF TypeOK, Notified, TakerStates

(* put() and emplace() append the next value and wake the thread. *)
LEMMA PutKeeps == ASSUME DequeInv, Put PROVE DequeInv'
<1>. USE DEF DequeInv
<1>1. /\ deque' = Append(deque, put + 1) /\ put' = put + 1 /\ taken' = taken
      /\ closed' = closed /\ runs' = runs
  BY DEF Put
<1>2. put \in Nat /\ taken \in Nat /\ deque \in Seq(Nat) /\ put + 1 \in Nat
  BY DEF TypeOK
<1>3. taker' \in TakerStates \ {"asleep", "polling"}
  BY NotifiedAwake DEF Put
<1>4. TypeOK'
  BY <1>1, <1>2, <1>3 DEF TypeOK
<1>5. SleepsOnlyWithReason'
  BY <1>3 DEF SleepsOnlyWithReason
<1>6. /\ deque' \in Seq(Nat) /\ Len(deque') = Len(deque) + 1
      /\ \A i \in 1 .. Len(deque) : deque'[i] = deque[i]
      /\ deque'[Len(deque) + 1] = put + 1
  BY <1>1, <1>2, AppendProperties
<1>7. HoldsTheRest'
  <2>1. Len(deque) = put - taken /\ Len(deque) \in Nat
    BY <1>2, LenProperties DEF HoldsTheRest
  <2>2. ASSUME NEW i \in 1 .. Len(deque') PROVE deque'[i] = taken' + i
    <3>1. CASE i \in 1 .. Len(deque)
      BY <3>1, <1>1, <1>6 DEF HoldsTheRest
    <3>2. CASE i = Len(deque) + 1
      BY <3>2, <1>1, <1>2, <1>6, <2>1
    <3>. QED  BY <3>1, <3>2, <1>6, <2>1
  <2>. QED  BY <2>1, <2>2, <1>1, <1>2, <1>6 DEF HoldsTheRest
<1>. QED  BY <1>4, <1>5, <1>7

(* A turn of take() or poll_until() with the mutex takes the oldest value, *)
(* ends the thread, or puts it to sleep with reason.                       *)
LEMMA AdvanceKeeps ==
  ASSUME DequeInv, NEW sleep \in {"asleep", "polling"}, Advance(sleep),
         UNCHANGED <<closed, put, runs>>
  PROVE  DequeInv'
<1>. USE DEF DequeInv
<1>1. put \in Nat /\ taken \in Nat /\ deque \in Seq(Nat)
  BY DEF TypeOK
<1>2. CASE closed /\ taker' = "exited" /\ UNCHANGED <<deque, taken>>
  BY <1>2 DEF TypeOK, SleepsOnlyWithReason, HoldsTheRest, TakerStates
<1>3. CASE ~closed /\ deque = <<>> /\ taker' = sleep /\ UNCHANGED <<deque, taken>>
  BY <1>3 DEF TypeOK, SleepsOnlyWithReason, HoldsTheRest, TakerStates
<1>4. ASSUME deque # <<>>, taken' = Head(deque), deque' = Tail(deque),
             taker' = "idle"
      PROVE  DequeInv'
  <2>1. /\ Head(deque) = deque[1] /\ Head(deque) \in Nat
        /\ Tail(deque) \in Seq(Nat) /\ Len(Tail(deque)) = Len(deque) - 1
        /\ \A i \in 1 .. Len(Tail(deque)) : Tail(deque)[i] = deque[i + 1]
    BY <1>1, <1>4, HeadTailProperties
  <2>2. Len(deque) \in Nat /\ Len(deque) >= 1
    BY <1>1, <1>4, EmptySeq, LenProperties
  <2>3. deque[1] = taken + 1
    BY <2>2 DEF HoldsTheRest
  <2>4. TypeOK' /\ SleepsOnlyWithReason'
    BY <1>4, <2>1 DEF TypeOK, SleepsOnlyWithReason, TakerStates
  <2>5. ASSUME NEW i \in 1 .. Len(deque') PROVE deque'[i] = taken' + i
    <3>1. i \in Int /\ i + 1 \in 1 .. Len(deque)
      BY <1>4, <2>1, <2>2, <2>5
    <3>2. deque'[i] = deque[i + 1]
      BY <1>4, <2>1, <2>5
    <3>3. deque[i + 1] = taken + (i + 1)
      BY <3>1 DEF HoldsTheRest
    <3>. QED  BY <3>1, <3>2, <3>3, <1>1, <1>4, <2>1, <2>3
  <2>6. Len(deque') = put' - taken'
    BY <1>1, <1>4, <2>1, <2>2, <2>3 DEF HoldsTheRest
  <2>. QED  BY <2>4, <2>5, <2>6 DEF HoldsTheRest
<1>. QED  BY <1>2, <1>3, <1>4 DEF Advance

(* Every step keeps the invariant. *)
LEMMA DequeNext == DequeInv /\ [Next]_vars => DequeInv'
<1>. SUFFICES ASSUME DequeInv, [Next]_vars PROVE DequeInv'
  OBVIOUS
<1>1. CASE Put
  BY <1>1, PutKeeps
<1>2. CASE TakerStep
  BY <1>2, AdvanceKeeps DEF TakerStep, Take, Retake, Poll, Repoll
<1>3. CASE PollTimeout
  BY <1>3 DEF PollTimeout, DequeInv, TypeOK, SleepsOnlyWithReason, HoldsTheRest,
              TakerStates
<1>4. CASE SpuriousWake
  BY <1>4, NotifiedAwake
     DEF SpuriousWake, DequeInv, TypeOK, SleepsOnlyWithReason, HoldsTheRest
<1>5. CASE Close
  BY <1>5, NotifiedAwake
     DEF Close, DequeInv, TypeOK, SleepsOnlyWithReason, HoldsTheRest
<1>6. CASE Reset
  <2>1. closed' \in BOOLEAN
    BY <1>6, Zenon DEF Reset
  <2>2. TypeOK'
    BY <1>6, <2>1 DEF Reset, DequeInv, TypeOK, TakerStates
  <2>3. SleepsOnlyWithReason' /\ HoldsTheRest'
    BY <1>6 DEF Reset, SleepsOnlyWithReason, HoldsTheRest
  <2>. QED  BY <2>2, <2>3 DEF DequeInv
<1>7. CASE UNCHANGED vars
  BY <1>7 DEF vars, DequeInv, TypeOK, SleepsOnlyWithReason, HoldsTheRest
<1>. QED  BY <1>1, <1>2, <1>3, <1>4, <1>5, <1>6, <1>7 DEF Next

(* The invariant holds in every run of the deque. *)
THEOREM DequeInvariance == Spec => []DequeInv
BY DequeInit, DequeNext, PTL DEF Spec

(* The thread of a deque never sleeps while there is something to take or  *)
(* the deque is closed: put(), emplace() and close() of queue.h notify     *)
(* under the mutex, and take() and poll_until() check under it.            *)
THEOREM NoLostWakeup == Spec => []SleepsOnlyWithReason
<1>1. DequeInv => SleepsOnlyWithReason
  BY DEF DequeInv
<1>. QED  BY <1>1, DequeInvariance, PTL

(* The deque holds exactly the values put in this run and not yet taken,   *)
(* in order, whatever polls time out and however often it is reset.        *)
THEOREM NothingLost == Spec => []HoldsTheRest
<1>1. DequeInv => HoldsTheRest
  BY DEF DequeInv
<1>. QED  BY <1>1, DequeInvariance, PTL

=============================================================================
