---------------------- MODULE ArrayBlockingQueueProofs ----------------------
(***************************************************************************)
(* Proofs about ArrayBlockingQueue for every capacity and all sets of      *)
(* threads and values.                                                     *)
(***************************************************************************)
EXTENDS ArrayBlockingQueue, FiniteSetTheorems, SequenceTheorems, TLAPS

(* The inductive invariant.  The bounds on count in TypeOK need the loop   *)
(* condition to hold at the ring access, which needs mutual exclusion.     *)
QueueInv == TypeOK /\ MutualExclusion /\ RingConsistent /\ LoopConditionHolds

(* notify_one moves at most one thread, from its sleep to "relock". *)
LEMMA NotifyOneEffect ==
  ASSUME pc \in [Threads -> PC], NEW S \in SUBSET Threads,
         NEW n \in NotifyOne(S)
  PROVE  /\ n \in [Threads -> PC]
         /\ \A t \in Threads : n[t] = pc[t] \/ (pc[t] = "wait" /\ n[t] = "relock")
<1>1. CASE Sleepers(S) = {}
  BY <1>1 DEF NotifyOne
<1>2. CASE Sleepers(S) # {}
  <2>1. PICK w \in Sleepers(S) : n = [pc EXCEPT ![w] = "relock"]
    BY <1>2 DEF NotifyOne
  <2>. QED  BY <2>1 DEF Sleepers, PC
<1>. QED  BY <1>1, <1>2

(* notify_all moves every sleeper to "relock" and nobody else. *)
LEMMA NotifyAllEffect ==
  ASSUME pc \in [Threads -> PC], NEW S \in SUBSET Threads
  PROVE  /\ NotifyAll(S) \in [Threads -> PC]
         /\ \A t \in Threads : \/ NotifyAll(S)[t] = pc[t]
                               \/ pc[t] = "wait" /\ NotifyAll(S)[t] = "relock"
BY DEF NotifyAll, Sleepers, PC

(* The queue starts in its invariant. *)
LEMMA QueueInit == Init => QueueInv
<1>. SUFFICES ASSUME Init PROVE QueueInv
  OBVIOUS
<1>1. TypeOK
  <2>1. closed \in BOOLEAN
    BY Zenon DEF Init
  <2>2. 0 \in Cells /\ 0 \in 0 .. Capacity
    BY QueueAssumption DEF Cells
  <2>. QED  BY <2>1, <2>2, Zenon DEF Init, TypeOK, PC
<1>2. MutualExclusion
  BY QueueAssumption DEF Init, MutualExclusion, Locked, Threads
<1>3. RingConsistent
  BY QueueAssumption DEF Init, RingConsistent, At
<1>4. LoopConditionHolds
  BY DEF Init, LoopConditionHolds, InCall, Callers, Threads
<1>. QED  BY <1>1, <1>2, <1>3, <1>4 DEF QueueInv

(* A step that leaves the ring alone and moves thread t between pcs.       *)
LEMMA ControlStep ==
  ASSUME QueueInv, NEW t \in Threads, NEW label \in PC,
         pc' = [pc EXCEPT ![t] = label],
         UNCHANGED <<array, head, tail, count, val>>,
         closed' \in BOOLEAN,
         \/ mutex' = mutex /\ (label \in Locked <=> pc[t] \in Locked)
         \/ mutex = None /\ mutex' = t /\ label \in Locked
         \/ pc[t] \in Locked /\ mutex' = None /\ label \notin Locked,
         t \in Callers /\ label = "act" => ~Blocked(t),
         t \in Producers /\ label \in InCall => pc[t] \in InCall
  PROVE  QueueInv'
<1>1. TypeOK'
  BY DEF QueueInv, TypeOK
<1>2. MutualExclusion'
  BY QueueAssumption DEF QueueInv, TypeOK, MutualExclusion, Threads
<1>3. RingConsistent'
  BY DEF QueueInv, RingConsistent, At
<1>4. LoopConditionHolds'
  BY DEF QueueInv, LoopConditionHolds, TypeOK, Blocked, Callers, Threads
<1>. QED  BY <1>1, <1>2, <1>3, <1>4 DEF QueueInv

(* put() fills the cell at head: the ring grows by the value at its end.   *)
LEMMA InsertRing ==
  ASSUME QueueInv, NEW p \in Producers, Insert(p)
  PROVE  /\ count < Capacity
         /\ At(count) = head
         /\ RingConsistent'
         /\ \A i \in 0 .. count - 1 : array'[At(i)] = array[At(i)]
         /\ array'[At(count)] = val[p]
<1>1. /\ count < Capacity
      /\ val[p] \in Values
  BY QueueAssumption
  DEF QueueInv, LoopConditionHolds, Blocked, Insert, TypeOK, Callers, InCall
<1>2. /\ At(count) = head
      /\ \A i \in 0 .. count - 1 : At(i) \in Cells /\ At(i) # head
  BY <1>1, QueueAssumption DEF QueueInv, TypeOK, RingConsistent, At, Cells
<1>3. /\ \A i \in 0 .. count - 1 : array'[At(i)] = array[At(i)]
      /\ array'[At(count)] = val[p]
  BY <1>2 DEF QueueInv, TypeOK, Insert
<1>4. RingConsistent'
  <2>1. head' = IF count' = Capacity THEN tail' ELSE At(count)'
    BY <1>1, QueueAssumption
    DEF QueueInv, TypeOK, RingConsistent, At, Cells, Insert, Inc
  <2>2. \A i \in 0 .. count' - 1 : array'[At(i)'] \in Values
    BY <1>1, <1>3 DEF QueueInv, TypeOK, RingConsistent, At, Insert
  <2>. QED  BY <2>1, <2>2 DEF RingConsistent
<1>. QED  BY <1>1, <1>2, <1>3, <1>4

(* take() empties the cell at tail: what was the i-th value after it is    *)
(* now one place nearer.                                                   *)
LEMMA RemoveRing ==
  ASSUME QueueInv, NEW c \in Consumers, Remove(c)
  PROVE  /\ count > 0
         /\ At(0) = tail
         /\ RingConsistent'
         /\ \A i \in 0 .. count - 2 : At(i)' = At(i + 1)
<1>1. count > 0
  BY QueueAssumption
  DEF QueueInv, LoopConditionHolds, Blocked, Remove, TypeOK, Callers
<1>2. /\ At(0) = tail
      /\ \A i \in 0 .. count - 2 : At(i)' = At(i + 1)
  BY <1>1, QueueAssumption DEF QueueInv, TypeOK, At, Cells, Remove, Inc
<1>3. RingConsistent'
  <2>1. head' = IF count' = Capacity THEN tail' ELSE At(count)'
    BY <1>1, QueueAssumption
    DEF QueueInv, TypeOK, RingConsistent, At, Cells, Remove, Inc
  <2>2. \A i \in 0 .. count' - 1 : array'[At(i)'] \in Values
    BY <1>1, <1>2 DEF QueueInv, TypeOK, RingConsistent, Remove
  <2>. QED  BY <2>1, <2>2 DEF RingConsistent
<1>. QED  BY <1>1, <1>2, <1>3

(* Every step preserves the invariant. *)
LEMMA QueueNext == QueueInv /\ [Next]_vars => QueueInv'
<1>. SUFFICES ASSUME QueueInv, [Next]_vars PROVE QueueInv'
  OBVIOUS
<1>. USE QueueAssumption
<1>. TypeOK /\ MutualExclusion /\ RingConsistent /\ LoopConditionHolds
  BY DEF QueueInv
<1>1. ASSUME NEW t \in Callers, CheckClosed(t) PROVE QueueInv'
  <2>. DEFINE label == IF ~closed THEN "lock"
                       ELSE IF t \in Consumers THEN "exited" ELSE "idle"
  <2>1. pc' = [pc EXCEPT ![t] = label]
    BY <1>1 DEF CheckClosed, Throw, Goto
  <2>2. label \in PC /\ label \notin Locked /\ label # "act"
    BY DEF PC, Locked
  <2>3. pc[t] \notin Locked /\ pc[t] \in InCall
    BY <1>1 DEF CheckClosed, Locked, InCall
  <2>4. UNCHANGED <<array, head, tail, count, val, closed, mutex>>
    BY <1>1 DEF CheckClosed, ring
  <2>. QED
    BY Zenon, <2>1, <2>2, <2>3, <2>4, ControlStep DEF TypeOK, Threads
<1>2. ASSUME NEW t \in Threads, Lock(t) PROVE QueueInv'
  <2>. DEFINE label == IF pc[t] = "relock" THEN "recheck"
                       ELSE IF t = Closer THEN "act" ELSE "test"
  <2>1. pc' = [pc EXCEPT ![t] = label]
    BY <1>2 DEF Lock, Goto
  <2>2. /\ label \in PC /\ label \in Locked
        /\ t \in Callers => label # "act"
    BY DEF PC, Locked
  <2>3. pc[t] \in InCall
    BY <1>2 DEF Lock, InCall
  <2>4. /\ UNCHANGED <<array, head, tail, count, val, closed>>
        /\ mutex = None /\ mutex' = t
    BY <1>2 DEF Lock, ring
  <2>. QED
    BY Zenon, <2>1, <2>2, <2>3, <2>4, ControlStep DEF TypeOK
<1>3. ASSUME NEW t \in Callers, Test(t) PROVE QueueInv'
  <2>. DEFINE label == IF Blocked(t) THEN "wait" ELSE "act"
  <2>1. pc' = [pc EXCEPT ![t] = label]
    BY <1>3 DEF Test, Goto
  <2>2. /\ label \in PC
        /\ label = "act" <=> ~Blocked(t)
        /\ label \in Locked <=> ~Blocked(t)
    BY DEF PC, Locked
  <2>3. pc[t] \in Locked /\ pc[t] \in InCall
    BY <1>3 DEF Test, Locked, InCall
  <2>4. /\ UNCHANGED <<array, head, tail, count, val, closed>>
        /\ mutex' = IF Blocked(t) THEN None ELSE mutex
    BY <1>3 DEF Test, ring
  <2>. QED
    BY Zenon, <2>1, <2>2, <2>3, <2>4, ControlStep DEF TypeOK, Threads
<1>4. ASSUME NEW t \in Callers, SpuriousWake(t) PROVE QueueInv'
  <2>1. /\ pc' = [pc EXCEPT ![t] = "relock"]
        /\ pc[t] \notin Locked /\ pc[t] \in InCall
        /\ UNCHANGED <<array, head, tail, count, val, closed, mutex>>
    BY <1>4 DEF SpuriousWake, Goto, ring, Locked, InCall
  <2>2. "relock" \in PC /\ "relock" \notin Locked /\ "relock" # "act"
    BY DEF PC, Locked
  <2>. QED
    BY Zenon, <2>1, <2>2, ControlStep DEF TypeOK, Threads
<1>5. ASSUME NEW t \in Callers, Recheck(t) PROVE QueueInv'
  <2>. DEFINE label == IF ~closed THEN "test"
                       ELSE IF t \in Consumers THEN "exited" ELSE "idle"
  <2>1. pc' = [pc EXCEPT ![t] = label]
    BY <1>5 DEF Recheck, Throw, Goto
  <2>2. label \in PC /\ label # "act" /\ (label \in Locked <=> ~closed)
    BY DEF PC, Locked
  <2>3. pc[t] \in Locked /\ pc[t] \in InCall
    BY <1>5 DEF Recheck, Locked, InCall
  <2>4. /\ UNCHANGED <<array, head, tail, count, val, closed>>
        /\ mutex' = IF closed THEN None ELSE mutex
    BY <1>5 DEF Recheck, ring
  <2>. QED
    BY Zenon, <2>1, <2>2, <2>3, <2>4, ControlStep DEF TypeOK, Threads
<1>6. ASSUME NEW t \in Threads, Unlock(t) PROVE QueueInv'
  <2>. DEFINE label == IF t = Closer THEN "exited" ELSE "idle"
  <2>1. /\ pc' = [pc EXCEPT ![t] = label]
        /\ pc[t] \in Locked
        /\ UNCHANGED <<array, head, tail, count, val, closed>>
        /\ mutex' = None
    BY <1>6 DEF Unlock, Goto, ring, Locked
  <2>2. label \in PC /\ label \notin Locked /\ label \notin InCall
        /\ label # "act"
    BY DEF PC, Locked, InCall
  <2>. QED
    BY Zenon, <2>1, <2>2, ControlStep DEF TypeOK
<1>7. ASSUME NEW c \in Consumers, CallTake(c) PROVE QueueInv'
  <2>1. /\ pc' = [pc EXCEPT ![c] = "check"]
        /\ pc[c] \notin Locked
        /\ UNCHANGED <<array, head, tail, count, val, closed, mutex>>
    BY <1>7 DEF CallTake, Goto, ring, Locked
  <2>2. "check" \in PC /\ "check" \notin Locked /\ "check" # "act"
    BY DEF PC, Locked
  <2>. QED
    BY Zenon, <2>1, <2>2, ControlStep DEF TypeOK, Threads, Callers
<1>8. ASSUME CallClose PROVE QueueInv'
  <2>1. /\ pc' = [pc EXCEPT ![Closer] = "lock"]
        /\ pc[Closer] \notin Locked
        /\ UNCHANGED <<array, head, tail, count, val, closed, mutex>>
    BY <1>8 DEF CallClose, Goto, ring, Locked
  <2>2. "lock" \in PC /\ "lock" \notin Locked
    BY DEF PC, Locked
  <2>. QED
    BY Zenon, <2>1, <2>2, ControlStep DEF TypeOK, Threads, Callers
<1>9. ASSUME NEW p \in Producers, CallPut(p) PROVE QueueInv'
  <2>1. PICK v \in Values : val' = [val EXCEPT ![p] = v]
    BY Zenon, <1>9 DEF CallPut
  <2>2. /\ pc' = [pc EXCEPT ![p] = "check"]
        /\ pc[p] = "idle"
        /\ UNCHANGED <<array, head, tail, count, closed, mutex>>
    BY <1>9 DEF CallPut, Goto, ring
  <2>3. TypeOK'
    BY Zenon, <2>1, <2>2 DEF TypeOK, PC
  <2>4. MutualExclusion'
    BY <2>2 DEF TypeOK, MutualExclusion, Locked
  <2>5. RingConsistent'
    BY <2>2 DEF RingConsistent, At
  <2>6. LoopConditionHolds'
    BY <2>1, <2>2
    DEF TypeOK, LoopConditionHolds, Blocked, Callers, Threads, InCall
  <2>. QED  BY <2>3, <2>4, <2>5, <2>6 DEF QueueInv
<1>10. ASSUME NEW p \in Producers, Insert(p) PROVE QueueInv'
  <2>1. PICK n \in NotifyOne(Consumers) : pc' = [n EXCEPT ![p] = "unlock"]
    BY Zenon, <1>10 DEF Insert
  <2>2. /\ n \in [Threads -> PC]
        /\ \A t \in Threads : n[t] = pc[t] \/ (pc[t] = "wait" /\ n[t] = "relock")
    BY NotifyOneEffect DEF TypeOK, Threads, Callers
  <2>3. /\ pc[p] = "act" /\ mutex = p
        /\ UNCHANGED <<tail, closed, mutex, val>>
    BY <1>10 DEF Insert, MutualExclusion, Locked, Threads, Callers
  <2>4. count < Capacity /\ val[p] \in Values /\ RingConsistent'
    BY <1>10, <2>3, InsertRing DEF LoopConditionHolds, InCall
  <2>5. TypeOK'
    <3>1. array' \in [Cells -> Values \cup {None}]
      BY <1>10, <2>4 DEF TypeOK, Insert
    <3>2. head' \in Cells /\ count' \in 0 .. Capacity
      BY <1>10, <2>4 DEF TypeOK, Insert, Inc, Cells
    <3>3. pc' \in [Threads -> PC]
      BY Zenon, <2>1, <2>2 DEF PC
    <3>. QED  BY <2>3, <3>1, <3>2, <3>3 DEF TypeOK
  <2>6. MutualExclusion'
    BY <2>1, <2>2, <2>3 DEF MutualExclusion, Locked
  <2>7. LoopConditionHolds'
    <3>1. \A t \in Callers : pc'[t] # "act"
      BY <2>1, <2>2, <2>3 DEF MutualExclusion, Locked, Threads
    <3>. QED
      BY <3>1, <2>1, <2>2, <2>3 DEF LoopConditionHolds, InCall, Threads, Callers
  <2>. QED  BY <2>4, <2>5, <2>6, <2>7 DEF QueueInv
<1>11. ASSUME NEW c \in Consumers, Remove(c) PROVE QueueInv'
  <2>1. PICK n \in NotifyOne(Producers) : pc' = [n EXCEPT ![c] = "unlock"]
    BY Zenon, <1>11 DEF Remove
  <2>2. /\ n \in [Threads -> PC]
        /\ \A t \in Threads : n[t] = pc[t] \/ (pc[t] = "wait" /\ n[t] = "relock")
    BY NotifyOneEffect DEF TypeOK, Threads, Callers
  <2>3. /\ pc[c] = "act" /\ mutex = c
        /\ UNCHANGED <<array, head, closed, mutex>>
        /\ val' = [val EXCEPT ![c] = array[tail]]
    BY <1>11 DEF Remove, MutualExclusion, Locked, Threads, Callers
  <2>4. count > 0 /\ RingConsistent'
    BY <1>11, RemoveRing
  <2>5. TypeOK'
    <3>1. val' \in [Callers -> Values \cup {None}]
      BY Zenon, <2>3 DEF TypeOK
    <3>2. tail' \in Cells /\ count' \in 0 .. Capacity
      BY <1>11, <2>4 DEF TypeOK, Remove, Inc, Cells
    <3>3. pc' \in [Threads -> PC]
      BY Zenon, <2>1, <2>2 DEF PC
    <3>. QED  BY <2>3, <3>1, <3>2, <3>3 DEF TypeOK
  <2>6. MutualExclusion'
    BY <2>1, <2>2, <2>3 DEF MutualExclusion, Locked
  <2>7. LoopConditionHolds'
    <3>1. \A t \in Callers : pc'[t] # "act"
      BY <2>1, <2>2, <2>3 DEF MutualExclusion, Locked, Threads
    <3>. QED
      BY <3>1, <2>1, <2>2, <2>3
      DEF LoopConditionHolds, TypeOK, InCall, Threads, Callers
  <2>. QED  BY <2>4, <2>5, <2>6, <2>7 DEF QueueInv
<1>12. ASSUME Close PROVE QueueInv'
  <2>. DEFINE n == NotifyAll(Callers)
  <2>1. /\ n \in [Threads -> PC]
        /\ \A t \in Threads : n[t] = pc[t] \/ (pc[t] = "wait" /\ n[t] = "relock")
    BY NotifyAllEffect DEF TypeOK, Threads
  <2>. HIDE DEF n
  <2>2. pc' = [n EXCEPT ![Closer] = "unlock"]
    BY <1>12 DEF Close, n
  <2>3. /\ pc[Closer] = "act" /\ mutex = Closer
        /\ UNCHANGED <<array, head, tail, count, mutex, val>>
    BY <1>12 DEF Close, MutualExclusion, Locked, Threads, ring
  <2>4. closed' \in BOOLEAN
    BY <1>12, Zenon DEF Close
  <2>5. TypeOK'
    BY Zenon, <2>1, <2>2, <2>3, <2>4 DEF TypeOK, PC
  <2>6. MutualExclusion'
    BY <2>1, <2>2, <2>3 DEF MutualExclusion, Locked
  <2>7. RingConsistent'
    BY <2>3 DEF RingConsistent, At
  <2>8. LoopConditionHolds'
    BY <2>1, <2>2, <2>3
    DEF LoopConditionHolds, Blocked, InCall, Threads, Callers
  <2>. QED  BY <2>5, <2>6, <2>7, <2>8 DEF QueueInv
<1>13. CASE UNCHANGED vars
  BY <1>13 DEF vars, QueueInv, TypeOK, MutualExclusion, RingConsistent, At,
     LoopConditionHolds, Blocked
<1>. QED
  BY <1>1, <1>2, <1>3, <1>4, <1>5, <1>6, <1>7, <1>8, <1>9, <1>10, <1>11, <1>12,
     <1>13 DEF Next, Step

(* The invariant holds throughout. *)
THEOREM QueueInvariance == Spec => []QueueInv
BY QueueInit, QueueNext, PTL DEF Spec

(* Type correctness of the queue for every capacity and thread set: the    *)
(* indices stay inside the array and count between 0 and Capacity.         *)
THEOREM TypeCorrect == Spec => []TypeOK
<1>1. QueueInv => TypeOK
  BY DEF QueueInv
<1>. QED  BY <1>1, QueueInvariance, PTL

(* The mutex excludes, for every set of threads. *)
THEOREM Exclusion == Spec => []MutualExclusion
<1>1. QueueInv => MutualExclusion
  BY DEF QueueInv
<1>. QED  BY <1>1, QueueInvariance, PTL

(* The ring indices and the counter always agree and every occupied cell   *)
(* was written by put().                                                   *)
THEOREM RingIsConsistent == Spec => []RingConsistent
<1>1. QueueInv => RingConsistent
  BY DEF QueueInv
<1>. QED  BY <1>1, QueueInvariance, PTL

(* Whoever writes a cell has room and whoever reads one finds a value: the *)
(* wait loops of put() and take() hold up to the access.                   *)
THEOREM LoopsAreSound == Spec => []LoopConditionHolds
<1>1. QueueInv => LoopConditionHolds
  BY DEF QueueInv
<1>. QED  BY <1>1, QueueInvariance, PTL

-----------------------------------------------------------------------------
(* Enough wake-ups *)

(* Fewer sleepers means more threads awake. *)
LEMMA AwakeGrows ==
  ASSUME NEW S, IsFiniteSet(S), NEW A \in SUBSET S, NEW B \in SUBSET A
  PROVE  /\ Cardinality(S \ A) \in Nat
         /\ Cardinality(S \ B) \in Nat
         /\ Cardinality(S \ A) <= Cardinality(S \ B)
<1>1. IsFiniteSet(S \ A) /\ IsFiniteSet(S \ B)
  BY FS_Subset
<1>2. S \ A \subseteq S \ B
  OBVIOUS
<1>. QED  BY <1>1, <1>2, FS_Subset, FS_CardinalityType

(* Waking one sleeper puts exactly one more thread awake. *)
LEMMA OneMoreAwake ==
  ASSUME NEW S, IsFiniteSet(S), NEW A \in SUBSET S, NEW w \in A
  PROVE  /\ Cardinality(S \ A) \in Nat
         /\ Cardinality(S \ (A \ {w})) = Cardinality(S \ A) + 1
<1>1. IsFiniteSet(S \ A)
  BY FS_Subset
<1>2. S \ (A \ {w}) = (S \ A) \cup {w} /\ w \notin S \ A
  OBVIOUS
<1>. QED  BY Zenon, <1>1, <1>2, FS_AddElement, FS_CardinalityType

(* One side of WakeupsSuffice: S sleep on a condition variable, and need   *)
(* one thread awake for each of the n things they wait for.                *)
Covered(S, n) ==
  Sleepers(S) # {} => n <= Cardinality(S \ Sleepers(S))

(* A step that puts nobody of S to sleep and makes nothing available.      *)
LEMMA CoveredQuiet ==
  ASSUME NEW S, IsFiniteSet(S), NEW n \in Int, NEW m \in Int, m <= n,
         Sleepers(S)' \subseteq Sleepers(S), Covered(S, n)
  PROVE  Sleepers(S)' # {} => m <= Cardinality(S \ Sleepers(S)')
<1>1. Sleepers(S) \in SUBSET S
  BY DEF Sleepers
<1>2. /\ Cardinality(S \ Sleepers(S)) \in Nat
      /\ Cardinality(S \ Sleepers(S)') \in Nat
      /\ Cardinality(S \ Sleepers(S)) <= Cardinality(S \ Sleepers(S)')
  BY Zenon, <1>1, AwakeGrows
<1>. QED  BY <1>2 DEF Covered

(* A step that makes one more thing available and notifies one of S.       *)
LEMMA CoveredNotify ==
  ASSUME NEW S \in SUBSET Threads, IsFiniteSet(S), NEW n \in Int,
         pc \in [Threads -> PC], NEW t \in Threads \ S,
         NEW notified \in NotifyOne(S),
         pc' = [notified EXCEPT ![t] = "unlock"], Covered(S, n)
  PROVE  Sleepers(S)' # {} => n + 1 <= Cardinality(S \ Sleepers(S)')
<1>1. CASE Sleepers(S) = {}
  <2>1. notified = pc
    BY <1>1 DEF NotifyOne
  <2>. QED  BY <1>1, <2>1 DEF Sleepers
<1>2. CASE Sleepers(S) # {}
  <2>1. PICK w \in Sleepers(S) : notified = [pc EXCEPT ![w] = "relock"]
    BY <1>2 DEF NotifyOne
  <2>2. Sleepers(S)' = Sleepers(S) \ {w}
    BY <2>1 DEF Sleepers
  <2>3. Sleepers(S) \in SUBSET S
    BY DEF Sleepers
  <2>4. /\ Cardinality(S \ Sleepers(S)) \in Nat
        /\ Cardinality(S \ (Sleepers(S) \ {w})) = Cardinality(S \ Sleepers(S)) + 1
    BY <2>1, <2>3, OneMoreAwake
  <2>. QED  BY <1>2, <2>2, <2>4 DEF Covered
<1>. QED  BY <1>1, <1>2

(* Every step preserves WakeupsSuffice. *)
LEMMA WakeNext == QueueInv /\ WakeupsSuffice /\ [Next]_vars => WakeupsSuffice'
<1>. SUFFICES ASSUME QueueInv, WakeupsSuffice, [Next]_vars, ~closed'
              PROVE  /\ Sleepers(Consumers)' # {} =>
                          count' <= Cardinality(Consumers \ Sleepers(Consumers)')
                     /\ Sleepers(Producers)' # {} =>
                          Capacity - count' <=
                             Cardinality(Producers \ Sleepers(Producers)')
  BY DEF WakeupsSuffice
<1>. DEFINE Goal == /\ Sleepers(Consumers)' # {} =>
                         count' <= Cardinality(Consumers \ Sleepers(Consumers)')
                    /\ Sleepers(Producers)' # {} =>
                         Capacity - count' <=
                            Cardinality(Producers \ Sleepers(Producers)')
<1>a. /\ IsFiniteSet(Consumers) /\ IsFiniteSet(Producers)
      /\ Capacity \in Nat /\ Producers \cap Consumers = {}
  BY QueueAssumption
<1>b. count \in 0 .. Capacity /\ pc \in [Threads -> PC]
  BY DEF QueueInv, TypeOK
<1>c. ~closed
  BY DEF Next, Step, CheckClosed, Lock, Test, SpuriousWake, Recheck, Insert,
     Remove, Unlock, CallPut, CallTake, CallClose, Close, vars, ring
<1>d. Covered(Consumers, count) /\ Covered(Producers, Capacity - count)
  BY <1>c DEF WakeupsSuffice, Covered
<1>1. ASSUME count' = count, \A t \in Callers : pc'[t] = "wait" => pc[t] = "wait"
      PROVE  Goal
  <2>1. /\ Sleepers(Consumers)' \subseteq Sleepers(Consumers)
        /\ Sleepers(Producers)' \subseteq Sleepers(Producers)
    BY <1>1 DEF Sleepers, Callers
  <2>. QED  BY <1>1, <1>a, <1>b, <1>d, <2>1, CoveredQuiet
<1>2. ASSUME NEW t \in Callers, Test(t), Blocked(t) PROVE Goal
  <2>1. pc' = [pc EXCEPT ![t] = "wait"] /\ count' = count
    BY <1>2 DEF Test, Goto, ring
  <2>2. CASE t \in Producers
    <3>1. count = Capacity
      BY <1>2, <2>2 DEF Blocked
    <3>2. Sleepers(Consumers)' \subseteq Sleepers(Consumers)
      BY <1>a, <1>b, <2>1, <2>2 DEF Sleepers, Callers, Threads
    <3>3. Sleepers(Producers)' \in SUBSET Producers
      BY DEF Sleepers
    <3>4. Cardinality(Producers \ Sleepers(Producers)') \in Nat
      BY <1>a, <3>3, FS_Subset, FS_CardinalityType
    <3>5. Sleepers(Consumers)' # {} =>
             count' <= Cardinality(Consumers \ Sleepers(Consumers)')
      BY <1>a, <1>b, <1>d, <2>1, <3>2, CoveredQuiet
    <3>. QED  BY <1>a, <1>b, <2>1, <3>1, <3>4, <3>5
  <2>3. CASE t \in Consumers
    <3>1. count = 0
      BY <1>2, <1>a, <2>3 DEF Blocked
    <3>2. Sleepers(Producers)' \subseteq Sleepers(Producers)
      BY <1>a, <1>b, <2>1, <2>3 DEF Sleepers, Callers, Threads
    <3>3. Sleepers(Consumers)' \in SUBSET Consumers
      BY DEF Sleepers
    <3>4. Cardinality(Consumers \ Sleepers(Consumers)') \in Nat
      BY <1>a, <3>3, FS_Subset, FS_CardinalityType
    <3>5. Sleepers(Producers)' # {} =>
             Capacity - count' <= Cardinality(Producers \ Sleepers(Producers)')
      BY <1>a, <1>b, <1>d, <2>1, <3>2, CoveredQuiet
    <3>. QED  BY <1>a, <1>b, <2>1, <3>1, <3>4, <3>5
  <2>. QED  BY <2>2, <2>3 DEF Callers
<1>3. ASSUME NEW p \in Producers, Insert(p) PROVE Goal
  <2>1. PICK n \in NotifyOne(Consumers) : pc' = [n EXCEPT ![p] = "unlock"]
    BY Zenon, <1>3 DEF Insert
  <2>2. count' = count + 1
    BY <1>3 DEF Insert
  <2>3. Sleepers(Consumers)' # {} =>
           count + 1 <= Cardinality(Consumers \ Sleepers(Consumers)')
    <3>1. p \in Threads \ Consumers /\ Consumers \in SUBSET Threads
      BY <1>a DEF Threads, Callers
    <3>2. count \in Int /\ Capacity - count \in Int
      BY <1>a, <1>b
    <3>. QED  BY <1>a, <1>b, <1>d, <2>1, <3>1, <3>2, CoveredNotify, Zenon
  <2>4. Sleepers(Producers)' \subseteq Sleepers(Producers)
    <3>1. \A t \in Threads : n[t] = pc[t] \/ (pc[t] = "wait" /\ n[t] = "relock")
      BY <1>b, NotifyOneEffect DEF Threads, Callers
    <3>2. n \in [Threads -> PC]
      BY <1>b, NotifyOneEffect DEF Threads, Callers
    <3>. QED  BY <2>1, <3>1, <3>2 DEF Sleepers, Threads, Callers
  <2>5. Sleepers(Producers)' # {} =>
           Capacity - count' <= Cardinality(Producers \ Sleepers(Producers)')
    BY <1>a, <1>b, <1>d, <2>2, <2>4, CoveredQuiet
  <2>. QED  BY <2>2, <2>3, <2>5
<1>4. ASSUME NEW c \in Consumers, Remove(c) PROVE Goal
  <2>1. PICK n \in NotifyOne(Producers) : pc' = [n EXCEPT ![c] = "unlock"]
    BY Zenon, <1>4 DEF Remove
  <2>2. count' = count - 1
    BY <1>4 DEF Remove
  <2>3. Sleepers(Producers)' # {} =>
           (Capacity - count) + 1 <= Cardinality(Producers \ Sleepers(Producers)')
    <3>1. c \in Threads \ Producers /\ Producers \in SUBSET Threads
      BY <1>a DEF Threads, Callers
    <3>2. count \in Int /\ Capacity - count \in Int
      BY <1>a, <1>b
    <3>. QED  BY <1>a, <1>b, <1>d, <2>1, <3>1, <3>2, CoveredNotify, Zenon
  <2>4. Sleepers(Consumers)' \subseteq Sleepers(Consumers)
    <3>1. \A t \in Threads : n[t] = pc[t] \/ (pc[t] = "wait" /\ n[t] = "relock")
      BY <1>b, NotifyOneEffect DEF Threads, Callers
    <3>2. n \in [Threads -> PC]
      BY <1>b, NotifyOneEffect DEF Threads, Callers
    <3>. QED  BY <2>1, <3>1, <3>2 DEF Sleepers, Threads, Callers
  <2>5. Sleepers(Consumers)' # {} =>
           count' <= Cardinality(Consumers \ Sleepers(Consumers)')
    BY <1>a, <1>b, <1>d, <2>2, <2>4, CoveredQuiet
  <2>6. Capacity - count' = (Capacity - count) + 1
    BY <1>a, <1>b, <2>2
  <2>. QED  BY <2>3, <2>5, <2>6
<1>5. CASE UNCHANGED vars
  BY <1>1, <1>5 DEF vars
<1>6. CASE Next
  <2>1. ASSUME NEW t \in Threads, NEW label, label # "wait",
               Goto(t, label), UNCHANGED count
        PROVE  Goal
    BY <1>1, <1>b, <2>1 DEF Goto, Callers, Threads
  <2>. HIDE DEF Goal
  <2>2. ASSUME NEW t \in Threads, Step(t) \/ Lock(t) PROVE Goal
    <3>1. CASE t \in Callers /\ (CheckClosed(t) \/ Recheck(t))
      <4>1. Goto(t, IF pc[t] = "check" THEN "lock" ELSE "test") /\ count' = count
        BY <1>c, <3>1 DEF CheckClosed, Recheck, ring
      <4>. QED  BY <2>1, <4>1
    <3>2. CASE t \in Callers /\ Test(t)
      <4>1. ~Blocked(t) => Goto(t, "act") /\ count' = count
        BY <3>2 DEF Test, ring
      <4>. QED  BY <1>2, <2>1, <3>2, <4>1
    <3>3. CASE t \in Consumers /\ CallTake(t)
      BY <2>1, <3>3 DEF CallTake, ring
    <3>4. CASE Unlock(t)
      <4>1. Goto(t, IF t = Closer THEN "exited" ELSE "idle") /\ count' = count
        BY <3>4 DEF Unlock, ring
      <4>. QED  BY <2>1, <4>1
    <3>5. CASE Lock(t)
      <4>1. count' = count /\
            Goto(t, IF pc[t] = "relock" THEN "recheck"
                    ELSE IF t = Closer THEN "act" ELSE "test")
        BY <3>5 DEF Lock, ring
      <4>. QED  BY <2>1, <4>1
    <3>6. ~Close
      BY DEF Close
    <3>. QED  BY <1>3, <1>4, <2>2, <3>1, <3>2, <3>3, <3>4, <3>5, <3>6 DEF Step
  <2>3. ASSUME NEW p \in Producers, CallPut(p) PROVE Goal
    BY <2>1, <2>3 DEF CallPut, ring, Threads, Callers
  <2>4. ASSUME NEW t \in Callers, SpuriousWake(t) PROVE Goal
    BY <2>1, <2>4 DEF SpuriousWake, ring, Threads
  <2>5. ASSUME CallClose PROVE Goal
    BY <2>1, <2>5 DEF CallClose, ring, Threads
  <2>6. Goal
    BY <1>6, <2>2, <2>3, <2>4, <2>5 DEF Next
  <2>. QED  BY <2>6 DEF Goal
<1>. QED  BY <1>5, <1>6

(* No lost wake-up while the queue is open: although put() and take()      *)
(* notify a single thread, sleepers are always covered by awake threads,   *)
(* for every capacity and every finite number of threads.                  *)
THEOREM WakeupsAlwaysSuffice == Spec => []WakeupsSuffice
<1>1. Init => WakeupsSuffice
  <2>1. ASSUME Init PROVE Sleepers(Consumers) = {} /\ Sleepers(Producers) = {}
    BY <2>1 DEF Init, Sleepers, Threads, Callers
  <2>. QED  BY <2>1 DEF WakeupsSuffice
<1>. QED  BY <1>1, WakeNext, QueueInvariance, PTL DEF Spec

-----------------------------------------------------------------------------
(* The ring implements the FIFO *)

stageOf == [t \in Callers |-> StageOf(pc[t])]

(* The contents of the ring are a sequence of count values. *)
LEMMA ContentsSeq ==
  ASSUME QueueInv
  PROVE  Contents \in Seq(Values) /\ Len(Contents) = count
<1>1. count \in Nat
  BY QueueAssumption DEF QueueInv, TypeOK
<1>2. \A i \in 1 .. count : array[At(i - 1)] \in Values
  BY <1>1 DEF QueueInv, RingConsistent
<1>. QED  BY <1>1, <1>2 DEF Contents

(* A thread that moves to label moves its stage alone. *)
LEMMA StageMoves ==
  ASSUME pc \in [Threads -> PC], NEW t \in Threads, NEW label \in PC,
         pc' = [pc EXCEPT ![t] = label]
  PROVE  /\ t \in Callers => stageOf' = [stageOf EXCEPT ![t] = StageOf(label)]
         /\ StageOf(label) = StageOf(pc[t]) => stageOf' = stageOf
         /\ t \notin Callers => stageOf' = stageOf
<1>. DEFINE s(l) == StageOf(l)
<1>1. stageOf = [u \in Callers |-> s(pc[u])] /\ stageOf' = [u \in Callers |-> s(pc'[u])]
  BY DEF stageOf
<1>2. s(label) = StageOf(label) /\ s(pc[t]) = StageOf(pc[t])
  OBVIOUS
<1>. HIDE DEF s
<1>. QED  BY <1>1, <1>2 DEF Threads

(* Waking sleepers and unlocking moves only the stage of the unlocker. *)
LEMMA StageNotified ==
  ASSUME pc \in [Threads -> PC], NEW t \in Callers, NEW n \in [Threads -> PC],
         \A u \in Threads : n[u] = pc[u] \/ (pc[u] = "wait" /\ n[u] = "relock"),
         pc' = [n EXCEPT ![t] = "unlock"]
  PROVE  stageOf' = [stageOf EXCEPT ![t] = "out"]
<1>1. StageOf("unlock") = "out" /\ StageOf("wait") = StageOf("relock")
  BY DEF StageOf
<1>2. \A u \in Callers : StageOf(n[u]) = StageOf(pc[u])
  BY <1>1 DEF Threads
<1>. QED  BY Zenon, <1>1, <1>2 DEF stageOf, Threads

(* Contents after put(). *)
LEMMA InsertContents ==
  ASSUME QueueInv, NEW p \in Producers, Insert(p)
  PROVE  Len(Contents) < Capacity /\ Contents' = Append(Contents, val[p])
<1>1. /\ count < Capacity
      /\ \A i \in 0 .. count - 1 : array'[At(i)] = array[At(i)]
      /\ array'[At(count)] = val[p]
  BY InsertRing
<1>2. count' = count + 1 /\ tail' = tail /\ count \in Nat
  BY QueueAssumption DEF Insert, QueueInv, TypeOK
<1>3. \A i \in 0 .. count : At(i)' = At(i)
  BY <1>2 DEF At
<1>4. Contents' = [i \in 1 .. count + 1 |-> array'[At(i - 1)]]
  BY <1>2, <1>3 DEF Contents
<1>5. Append(Contents, val[p]) =
        [i \in 1 .. count + 1 |-> IF i = count + 1 THEN val[p] ELSE Contents[i]]
  BY <1>2, ContentsSeq
<1>6. \A i \in 1 .. count + 1 :
        array'[At(i - 1)] = IF i = count + 1 THEN val[p] ELSE Contents[i]
  <2>1. \A i \in 1 .. count : Contents[i] = array[At(i - 1)]
    BY <1>2 DEF Contents
  <2>2. \A i \in 1 .. count : i - 1 \in 0 .. count - 1
    BY <1>2
  <2>3. (count + 1) - 1 = count
    BY <1>2
  <2>. QED  BY <1>1, <1>2, <2>1, <2>2, <2>3
<1>. QED  BY <1>1, <1>4, <1>5, <1>6, ContentsSeq

(* Contents after take(). *)
LEMMA RemoveContents ==
  ASSUME QueueInv, NEW c \in Consumers, Remove(c)
  PROVE  /\ Contents # <<>>
         /\ Head(Contents) = array[tail]
         /\ Contents' = Tail(Contents)
<1>1. /\ count > 0
      /\ At(0) = tail
      /\ \A i \in 0 .. count - 2 : At(i)' = At(i + 1)
  BY RemoveRing
<1>2. count' = count - 1 /\ array' = array /\ count \in Nat
  BY QueueAssumption DEF Remove, QueueInv, TypeOK
<1>3. Contents # <<>> /\ Head(Contents) = array[tail]
  BY <1>1, <1>2, ContentsSeq DEF Contents
<1>4. Tail(Contents) = [i \in 1 .. count - 1 |-> Contents[i + 1]]
  <2>1. Contents \in Seq(Values) /\ Len(Contents) = count
    BY ContentsSeq
  <2>2. /\ Tail(Contents) \in Seq(Values)
        /\ Len(Tail(Contents)) = count - 1
        /\ \A i \in 1 .. count - 1 : Tail(Contents)[i] = Contents[i + 1]
    BY <2>1, <1>3, HeadTailProperties
  <2>. DEFINE T == [i \in 1 .. count - 1 |-> Contents[i + 1]]
  <2>3. \A i \in 1 .. count - 1 : T[i] = Contents[i + 1] /\ T[i] \in Values
    BY <2>1, <1>2, ElementOfSeq
  <2>4. T \in Seq(Values) /\ Len(T) = count - 1
    BY <1>1, <1>2, <2>3
  <2>. HIDE DEF T
  <2>5. Tail(Contents) = T
    BY <2>2, <2>3, <2>4, SeqEqual
  <2>. QED  BY <2>5 DEF T
<1>5. \A i \in 1 .. count - 1 : Contents[i + 1] = array[At(i)]
  BY <1>2 DEF Contents
<1>6. Contents' = [i \in 1 .. count - 1 |-> array[At(i - 1)']]
  BY <1>2 DEF Contents
<1>7. \A i \in 1 .. count - 1 : At(i - 1)' = At(i)
  BY <1>1, <1>2
<1>. QED  BY <1>3, <1>4, <1>5, <1>6, <1>7

(* A step that leaves the ring, the flag, the values and the stages alone  *)
(* is a stutter of the FIFO.                                               *)
LEMMA FifoStutter ==
  ASSUME UNCHANGED <<array, tail, count, closed, val>>, stageOf' = stageOf
  PROVE  UNCHANGED Fifo!vars
<1>1. Contents' = Contents
  BY DEF Contents, At
<1>. QED  BY <1>1 DEF Fifo!vars, stageOf

(* Every step of the queue is a step of the FIFO or a stutter. *)
LEMMA FifoNext == QueueInv /\ [Next]_vars => [Fifo!Next]_(Fifo!vars)
<1>. SUFFICES ASSUME QueueInv, [Next]_vars PROVE Fifo!Next \/ UNCHANGED Fifo!vars
  OBVIOUS
<1>. USE DEF stageOf
<1>t. pc \in [Threads -> PC]
  BY DEF QueueInv, TypeOK
<1>l. /\ \A l \in {"idle", "unlock", "exited"} : StageOf(l) = "out"
      /\ StageOf("check") = "called"
      /\ \A l \in {"lock", "test", "act", "wait", "relock", "recheck"} :
            StageOf(l) = "in"
  BY DEF StageOf
<1>c. UNCHANGED <<array, tail, count>> => Contents' = Contents
  BY DEF Contents, At
<1>0. ASSUME NEW t \in Threads, NEW label \in PC, Goto(t, label),
             StageOf(label) = StageOf(pc[t]) \/ t = Closer,
             UNCHANGED <<array, tail, count, closed, val>>
      PROVE  UNCHANGED Fifo!vars
  <2>1. stageOf' = stageOf
    BY <1>0, <1>t, StageMoves, QueueAssumption DEF Goto
  <2>. QED  BY <1>0, <2>1, FifoStutter
<1>1. ASSUME NEW p \in Producers, CallPut(p) PROVE Fifo!Next
  <2>1. PICK v \in Values : val' = [val EXCEPT ![p] = v]
    BY Zenon, <1>1 DEF CallPut
  <2>2. pc[p] = "idle" /\ stageOf' = [stageOf EXCEPT ![p] = "called"]
    BY Zenon, <1>1, <1>t, <1>l, StageMoves DEF CallPut, Goto, PC, Threads, Callers
  <2>3. Contents' = Contents /\ closed' = closed
    BY <1>1, <1>c DEF CallPut, ring
  <2>4. Fifo!CallPut(p, v)
    BY <2>1, <2>2, <2>3, <1>l DEF Fifo!CallPut, Callers
  <2>. QED  BY Zenon, <2>4 DEF Fifo!Next
<1>2. ASSUME NEW c \in Consumers, CallTake(c) PROVE Fifo!Next
  <2>1. pc[c] = "idle" /\ stageOf' = [stageOf EXCEPT ![c] = "called"]
    BY Zenon, <1>2, <1>t, <1>l, StageMoves DEF CallTake, Goto, PC, Threads, Callers
  <2>2. Contents' = Contents /\ closed' = closed /\ val' = val
    BY <1>2, <1>c DEF CallTake, ring
  <2>3. Fifo!CallTake(c)
    BY <2>1, <2>2, <1>l DEF Fifo!CallTake, Callers
  <2>. QED  BY Zenon, <2>3 DEF Fifo!Next
<1>3. ASSUME NEW t \in Callers, CheckClosed(t) PROVE Fifo!Next
  <2>1. Contents' = Contents /\ closed' = closed /\ val' = val
    BY <1>3, <1>c DEF CheckClosed, ring
  <2>2. CASE closed
    <3>1. stageOf' = [stageOf EXCEPT ![t] = "out"]
      <4>1. Goto(t, IF t \in Consumers THEN "exited" ELSE "idle")
        BY <1>3, <2>2 DEF CheckClosed, Throw
      <4>. QED  BY Zenon, <4>1, <1>t, <1>l, StageMoves DEF Goto, PC, Threads
    <3>2. Fifo!Refuse(t)
      BY <1>3, <1>l, <2>1, <2>2, <3>1 DEF Fifo!Refuse, CheckClosed
    <3>. QED  BY Zenon, <3>2 DEF Fifo!Next, Fifo!Callers, Callers
  <2>3. CASE ~closed
    <3>1. stageOf' = [stageOf EXCEPT ![t] = "in"]
      <4>1. Goto(t, "lock")
        BY <1>3, <2>3 DEF CheckClosed
      <4>. QED  BY Zenon, <4>1, <1>t, <1>l, StageMoves DEF Goto, PC, Threads
    <3>2. Fifo!Enter(t)
      BY <1>3, <1>l, <2>1, <2>3, <3>1 DEF Fifo!Enter, CheckClosed
    <3>. QED  BY Zenon, <3>2 DEF Fifo!Next, Fifo!Callers, Callers
  <2>. QED  BY <2>2, <2>3
<1>4. ASSUME NEW t \in Callers, Recheck(t) PROVE Fifo!Next \/ UNCHANGED Fifo!vars
  <2>1. Contents' = Contents /\ closed' = closed /\ val' = val
    BY <1>4, <1>c DEF Recheck, ring
  <2>2. CASE closed
    <3>1. stageOf' = [stageOf EXCEPT ![t] = "out"]
      <4>1. Goto(t, IF t \in Consumers THEN "exited" ELSE "idle")
        BY <1>4, <2>2 DEF Recheck, Throw
      <4>. QED  BY Zenon, <4>1, <1>t, <1>l, StageMoves DEF Goto, PC, Threads
    <3>2. Fifo!Refuse(t)
      BY <1>4, <1>l, <2>1, <2>2, <3>1 DEF Fifo!Refuse, Recheck
    <3>. QED  BY Zenon, <3>2 DEF Fifo!Next, Fifo!Callers, Callers
  <2>3. CASE ~closed
    BY <1>4, <2>3, <1>l, <1>0 DEF Recheck, ring, PC, Threads
  <2>. QED  BY <2>2, <2>3
<1>5. ASSUME NEW p \in Producers, Insert(p) PROVE Fifo!Next
  <2>1. PICK n \in NotifyOne(Consumers) : pc' = [n EXCEPT ![p] = "unlock"]
    BY Zenon, <1>5 DEF Insert
  <2>2. stageOf' = [stageOf EXCEPT ![p] = "out"]
    BY Zenon, <1>t, <2>1, NotifyOneEffect, StageNotified DEF Threads, Callers
  <2>3. Len(Contents) < Capacity /\ Contents' = Append(Contents, val[p])
    BY <1>5, InsertContents
  <2>4. Fifo!Put(p)
    BY <1>5, <1>l, <2>2, <2>3 DEF Fifo!Put, Insert, Callers
  <2>. QED  BY Zenon, <2>4 DEF Fifo!Next
<1>6. ASSUME NEW c \in Consumers, Remove(c) PROVE Fifo!Next
  <2>1. PICK n \in NotifyOne(Producers) : pc' = [n EXCEPT ![c] = "unlock"]
    BY Zenon, <1>6 DEF Remove
  <2>2. stageOf' = [stageOf EXCEPT ![c] = "out"]
    BY Zenon, <1>t, <2>1, NotifyOneEffect, StageNotified DEF Threads, Callers
  <2>3. /\ Contents # <<>>
        /\ Head(Contents) = array[tail]
        /\ Contents' = Tail(Contents)
    BY <1>6, RemoveContents
  <2>4. Fifo!Take(c)
    BY Zenon, <1>6, <1>l, <2>2, <2>3 DEF Fifo!Take, Remove, Callers
  <2>. QED  BY Zenon, <2>4 DEF Fifo!Next
<1>7. ASSUME Close PROVE Fifo!Next
  <2>. DEFINE n == NotifyAll(Callers)
  <2>1. /\ n \in [Threads -> PC]
        /\ \A t \in Threads : n[t] = pc[t] \/ (pc[t] = "wait" /\ n[t] = "relock")
    BY <1>t, NotifyAllEffect DEF Threads
  <2>. HIDE DEF n
  <2>2. \A t \in Callers : pc'[t] = n[t]
    BY <1>7, <2>1, QueueAssumption DEF Close, n, Threads
  <2>3. \A t \in Callers : StageOf(pc'[t]) = StageOf(pc[t])
    BY <2>1, <2>2, <1>l DEF Threads
  <2>4. stageOf' = stageOf
    BY <2>3
  <2>5. Contents' = Contents /\ val' = val /\ closed' = TRUE
    BY <1>7, <1>c DEF Close, ring
  <2>6. Fifo!Close
    BY <2>4, <2>5 DEF Fifo!Close
  <2>. QED  BY Zenon, <2>6 DEF Fifo!Next
<1>8. ASSUME NEW t \in Threads, Lock(t) PROVE UNCHANGED Fifo!vars
  BY <1>8, <1>l, <1>0 DEF Lock, ring, PC
<1>9. ASSUME NEW t \in Callers, Test(t) PROVE UNCHANGED Fifo!vars
  <2>1. Goto(t, IF Blocked(t) THEN "wait" ELSE "act")
    BY <1>9 DEF Test
  <2>. QED  BY <1>9, <2>1, <1>l, <1>0 DEF Test, ring, PC, Threads
<1>10. ASSUME NEW t \in Callers, SpuriousWake(t) PROVE UNCHANGED Fifo!vars
  BY <1>10, <1>l, <1>0 DEF SpuriousWake, ring, PC, Threads
<1>11. ASSUME NEW t \in Threads, Unlock(t) PROVE UNCHANGED Fifo!vars
  BY <1>11, <1>l, <1>0 DEF Unlock, ring, PC
<1>12. ASSUME CallClose PROVE UNCHANGED Fifo!vars
  BY <1>12, <1>0 DEF CallClose, ring, PC, Threads
<1>13. CASE UNCHANGED vars
  BY <1>13, FifoStutter DEF vars
<1>. QED
  BY <1>1, <1>2, <1>3, <1>4, <1>5, <1>6, <1>7, <1>8, <1>9, <1>10, <1>11, <1>12,
     <1>13 DEF Next, Step

(* The ring, its mutex and its condition variables implement BoundedFifo,  *)
(* for every capacity, all values and every finite set of threads.         *)
THEOREM QueueImplementsFifo == Spec => ImplementsFifo
<1>1. Init => Fifo!Init
  <2>. SUFFICES ASSUME Init PROVE Fifo!Init
    OBVIOUS
  <2>1. Contents = <<>>
    BY DEF Init, Contents
  <2>2. [t \in Callers |-> StageOf(pc[t])] = [t \in Callers |-> "out"]
    BY DEF Init, StageOf, Threads
  <2>. QED  BY <2>1, <2>2 DEF Init, Fifo!Init, Fifo!Callers, Callers
<1>. QED
  BY <1>1, FifoNext, QueueInvariance, PTL DEF Spec, ImplementsFifo, Fifo!Spec

=============================================================================
