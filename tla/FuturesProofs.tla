---------------------------- MODULE FuturesProofs ---------------------------
(***************************************************************************)
(* Proofs of the safety properties of Futures, for any number of clients,  *)
(* Raft workers, slots and buffers, and of the refinement of Calls. They   *)
(* hold if the allocator does not hand out a slot that the GC has yet to   *)
(* unlock.                                                                 *)
(***************************************************************************)
EXTENDS FuturesInv, FiniteSetTheorems

-----------------------------------------------------------------------------
(* Steps of a Raft worker *)

(* Only the stage of take() moves. *)
LEMMA WorkerCallKeeps ==
  ASSUME IInv, NEW w \in Workers, WorkerCall(w)
  PROVE  IInv' /\ CallStep /\ CountStep
<1>1. /\ wpc[w] = "take"
      /\ stage' = [stage EXCEPT ![w] = "called"]
      /\ UNCHANGED <<live, slot, calls, bufs, buffers, pc, fut, buf, got, polled, wpc,
                     wslot, orphans, backlog, gc, queue, closed>>
  BY DEF WorkerCall, ApiQueue!CallTake, heap, bufHeap, client, worker, collector, api
<1>2. TypeOK'
  BY <1>1, FuturesAssumption
     DEF IInv, TypeOK, ApiQueue!TypeOK, ApiQueue!Callers, ApiQueue!Stages
<1>3. ClientInv'
  BY <1>1, FuturesAssumption DEF IInv, TypeOK, ClientInv, Queued
<1>4. WorkerInv'
  BY <1>1, FuturesAssumption DEF IInv, TypeOK, WorkerInv, Queued, Serving
<1>5. CallStep
  BY <1>1, Stutters DEF IInv, TypeOK
<1> QED
  BY <1>1, <1>2, <1>3, <1>4, <1>5, Frames DEF IInv, SameFields

(* Only the stage of take() moves. *)
LEMMA WorkerEnterKeeps ==
  ASSUME IInv, NEW w \in Workers, WorkerEnter(w)
  PROVE  IInv' /\ CallStep /\ CountStep
<1>1. /\ stage[w] = "called"
      /\ stage' = [stage EXCEPT ![w] = "in"]
      /\ UNCHANGED <<live, slot, calls, bufs, buffers, pc, fut, buf, got, polled, wpc,
                     wslot, orphans, backlog, gc, queue, closed>>
  BY DEF WorkerEnter, ApiQueue!Enter, heap, bufHeap, client, worker, collector, api
<1>2. TypeOK'
  BY <1>1, FuturesAssumption
     DEF IInv, TypeOK, ApiQueue!TypeOK, ApiQueue!Callers, ApiQueue!Stages
<1>3. ClientInv'
  BY <1>1, FuturesAssumption DEF IInv, TypeOK, ClientInv, Queued
<1>4. WorkerInv'
  BY <1>1, FuturesAssumption DEF IInv, TypeOK, WorkerInv, Queued, Serving
<1>5. CallStep
  BY <1>1, Stutters DEF IInv, TypeOK
<1> QED
  BY <1>1, <1>2, <1>3, <1>4, <1>5, Frames DEF IInv, SameFields

(* The queue holds a call once, so the worker has it alone. *)
LEMMA WorkerTakeKeeps ==
  ASSUME IInv, NEW w \in Workers, WorkerTake(w)
  PROVE  IInv' /\ CallStep /\ CountStep
<1>1. /\ stage[w] = "in" /\ queue # <<>>
      /\ wslot' = [wslot EXCEPT ![w] = Head(queue)]
      /\ queue' = Tail(queue)
      /\ stage' = [stage EXCEPT ![w] = "out"]
      /\ wpc' = [wpc EXCEPT ![w] = "serve"]
      /\ UNCHANGED <<live, slot, calls, bufs, buffers, pc, fut, buf, got, polled, orphans,
                     backlog, gc, closed>>
  BY DEF WorkerTake, ApiQueue!Take, heap, bufHeap, client, worker, collector, api
<1>2. Head(queue) = queue[1] /\ Len(queue) # 0 /\ Len(queue') = Len(queue) - 1
      /\ queue' \in Seq(Slots)
      /\ \A i \in 1 .. Len(queue') : i + 1 \in 1 .. Len(queue) /\ queue'[i] = queue[i + 1]
  <2>1. queue \in Seq(Slots)
    BY DEF IInv, TypeOK, ApiQueue!TypeOK
  <2> QED
    BY Zenon, <1>1, <2>1, Taken
<1>3. Head(queue) \in Slots /\ Queued(Head(queue))
      /\ \A i \in 1 .. Len(queue') : queue'[i] # Head(queue)
  <2>1. queue \in Seq(Slots) /\ 1 \in 1 .. Len(queue)
    <3>1. queue \in Seq(Slots)
      BY DEF IInv, TypeOK, ApiQueue!TypeOK
    <3> QED
      BY <1>2, <3>1
  <2>2. \A i \in 1 .. Len(queue') : i + 1 \in 1 .. Len(queue) /\ i + 1 # 1
    BY <1>2, <2>1
  <2>3. \A i \in 1 .. Len(queue') : queue'[i] # queue[1]
    BY <1>2, <2>1, <2>2 DEF IInv, QueueInv
  <2> QED
    BY <1>2, <2>1, <2>3 DEF Queued
<1>4. wpc[w] = "take" /\ wslot[w] = None
  BY <1>1 DEF IInv, WorkerInv, Serving
<1>5. TypeOK'
  BY <1>1, <1>2, <1>3, <1>4, FuturesAssumption
     DEF IInv, TypeOK, ApiQueue!TypeOK, ApiQueue!Callers, ApiQueue!Stages
<1>6. ClientInv'
  <2>1. \A d \in Clients : stage'[d] = stage[d]
    BY <1>1, FuturesAssumption DEF IInv, TypeOK, ApiQueue!TypeOK, ApiQueue!Callers
  <2>2. ASSUME NEW d \in Clients, pc[d] = "send"
        PROVE  ~Queued(fut[d])' /\ \A v \in Workers : wslot'[v] # fut[d]
    <3>1. ~Queued(fut[d]) /\ \A v \in Workers : wslot[v] # fut[d]
      BY <2>2 DEF IInv, ClientInv
    <3>2. \A i \in 1 .. Len(queue') : queue'[i] # fut[d]
      BY <1>2, <3>1 DEF Queued
    <3>3. Head(queue) # fut[d]
      BY <1>3, <3>1
    <3>4. \A v \in Workers : wslot'[v] # fut[d]
      BY <1>1, <3>1, <3>3 DEF IInv, TypeOK
    <3> QED
      BY <1>1, <3>2, <3>4 DEF Queued
  <2> QED
    BY <1>1, <2>1, <2>2 DEF IInv, ClientInv, Queued
<1>7. WorkerInv'
  <2>1. /\ wpc'[w] = "serve" /\ wslot'[w] = Head(queue) /\ stage'[w] = "out"
        /\ \A v \in Workers : v # w =>
             wpc'[v] = wpc[v] /\ wslot'[v] = wslot[v] /\ stage'[v] = stage[v]
    BY <1>1 DEF IInv, TypeOK, ApiQueue!TypeOK, ApiQueue!Callers
  <2>2. slot[Head(queue)].state = "Pending" /\ Head(queue) \in live
    BY <1>3 DEF IInv, QueueInv, Queued
  <2>3. \A v \in Workers : wslot[v] # Head(queue)
    <3> SUFFICES ASSUME NEW v \in Workers, wslot[v] = Head(queue) PROVE FALSE
      OBVIOUS
    <3>1. wslot[v] # None
      BY <1>3, FuturesAssumption
    <3>2. ~Queued(wslot[v])
      BY <3>1 DEF IInv, WorkerInv
    <3> QED
      BY <1>3, <3>2
  <2>4. ASSUME NEW v \in Workers, wslot'[v] # None
        PROVE  \A i \in 1 .. Len(queue') : queue'[i] # wslot'[v]
    <3>1. CASE v = w
      BY <1>3, <2>1, <3>1
    <3>2. CASE v # w
      <4>1. ~Queued(wslot[v])
        BY <2>1, <2>4, <3>2 DEF IInv, WorkerInv
      <4> QED
        BY Zenon, <1>2, <2>1, <3>2, <4>1 DEF Queued
    <3> QED
      BY <3>1, <3>2
  <2>5. \A v \in Workers : wslot'[v] # None => ~Queued(wslot[v])'
    BY <2>4 DEF Queued
  <2>6. ASSUME NEW v \in Workers
        PROVE  /\ wpc'[v] \in Serving <=> wslot'[v] # None
               /\ stage'[v] # "out" => wpc'[v] = "take"
               /\ wslot'[v] # None =>
                    /\ wslot'[v] \in live
                    /\ slot[wslot'[v]].state = "Pending" \/ wpc'[v] = "unlock"
               /\ wpc'[v] \in {"reply", "signal", "unlock"} => slot[wslot'[v]].owned = v
               /\ wpc'[v] = "signal" => slot[wslot'[v]].result \in Replies
               /\ \A u \in Workers : wslot'[u] = wslot'[v] /\ wslot'[u] # None => u = v
    <3>1. CASE v = w
      BY <1>3, <2>1, <2>2, <2>3, <3>1, FuturesAssumption DEF Serving
    <3>2. CASE v # w
      BY <2>1, <2>3, <3>2 DEF IInv, WorkerInv
    <3> QED
      BY <3>1, <3>2
  <2> QED
    BY <1>1, <2>5, <2>6 DEF WorkerInv
<1>8. QueueInv'
  BY <1>1, <1>2, <1>3, <1>4, FuturesAssumption DEF IInv, TypeOK, QueueInv
<1>9. SlotInv'
  <2>1. ~is_terminal(Head(queue)) /\ Head(queue) \in live
    BY <1>3 DEF IInv, QueueInv, Queued, is_terminal
  <2>2. \A x \in live : slot[x].client_state = "Observed" =>
          is_terminal(x) /\ \A v \in Workers : wslot'[v] # x
    BY <1>1, <2>1 DEF IInv, TypeOK, SlotInv
  <2> QED
    BY <1>1, <2>2 DEF IInv, SlotInv, Orphan, is_terminal
<1>10. CallStep
  BY <1>1, <1>2, <1>3, <1>4, Stutters DEF IInv, TypeOK
<1> QED
  BY <1>1, <1>2, <1>3, <1>4, <1>5, <1>6, <1>7, <1>8, <1>9, <1>10, Frames
     DEF IInv, SameFields

(* The worker has no call and takes none any more. *)
LEMMA WorkerRefusedKeeps ==
  ASSUME IInv, NEW w \in Workers, WorkerRefused(w)
  PROVE  IInv' /\ CallStep /\ CountStep
<1>1. /\ stage[w] # "out"
      /\ stage' = [stage EXCEPT ![w] = "out"]
      /\ wpc' = [wpc EXCEPT ![w] = "exited"]
      /\ UNCHANGED <<live, slot, calls, bufs, buffers, pc, fut, buf, got, polled, wslot,
                     orphans, backlog, gc, queue, closed>>
  BY DEF WorkerRefused, ApiQueue!Refuse, heap, bufHeap, client, worker, collector, api
<1>2. wpc[w] = "take" /\ wslot[w] = None
  BY <1>1 DEF IInv, WorkerInv, Serving
<1>3. TypeOK'
  BY <1>1, <1>2, FuturesAssumption
     DEF IInv, TypeOK, ApiQueue!TypeOK, ApiQueue!Callers, ApiQueue!Stages
<1>4. ClientInv'
  BY <1>1, <1>2, FuturesAssumption DEF IInv, TypeOK, ClientInv, Queued
<1>5. WorkerInv'
  <2>1. /\ wpc'[w] = "exited" /\ stage'[w] = "out"
        /\ \A v \in Workers : v # w => wpc'[v] = wpc[v] /\ stage'[v] = stage[v]
    BY <1>1 DEF IInv, TypeOK, ApiQueue!TypeOK, ApiQueue!Callers
  <2>2. \A v \in Workers : wslot'[v] # None => ~Queued(wslot[v])'
    BY <1>1 DEF IInv, WorkerInv, Queued
  <2>3. ASSUME NEW v \in Workers
        PROVE  /\ wpc'[v] \in Serving <=> wslot[v] # None
               /\ stage'[v] # "out" => wpc'[v] = "take"
               /\ wslot[v] # None =>
                    wslot[v] \in live /\ (slot[wslot[v]].state = "Pending" \/ wpc'[v] = "unlock")
               /\ wpc'[v] \in {"reply", "signal", "unlock"} => slot[wslot[v]].owned = v
               /\ wpc'[v] = "signal" => slot[wslot[v]].result \in Replies
               /\ \A u \in Workers : wslot[u] = wslot[v] /\ wslot[u] # None => u = v
    <3>1. CASE v = w
      BY <1>2, <2>1, <3>1 DEF Serving
    <3>2. CASE v # w
      BY <2>1, <3>2 DEF IInv, WorkerInv
    <3> QED
      BY <3>1, <3>2
  <2> QED
    BY <1>1, <2>2, <2>3 DEF WorkerInv
<1>6. CallStep
  BY <1>1, <1>2, Stutters DEF IInv, TypeOK
<1> QED
  BY Zenon, <1>1, <1>2, <1>3, <1>4, <1>5, <1>6, Frames DEF IInv, SameFields

(* The mutex was free, so no client is at its test. *)
LEMMA WorkerLockKeeps ==
  ASSUME IInv, NEW w \in Workers, WorkerLock(w)
  PROVE  IInv' /\ CallStep /\ CountStep
<1>1. /\ wpc[w] = "serve" /\ slot[wslot[w]].owned = None
      /\ slot' = [slot EXCEPT ![wslot[w]].owned = w]
      /\ wpc' = [wpc EXCEPT ![w] = "reply"]
      /\ UNCHANGED <<live, calls, bufs, buffers, pc, fut, buf, got, polled, wslot,
                     orphans, backlog, gc, queue, closed, stage>>
  BY DEF WorkerLock, heap, bufHeap, client, worker, collector, api
<1>2. wslot[w] \in Slots /\ wslot[w] \in live
  BY <1>1 DEF IInv, TypeOK, WorkerInv, Serving
<1>3. SlotIs(wslot[w], slot[wslot[w]].state, slot[wslot[w]].client_state, slot[wslot[w]].result,
             slot[wslot[w]].cmd_buf, w)
  BY Zenon, <1>1, <1>2, OwnedSet DEF IInv, TypeOK
<1>4. TypeOK'
  BY <1>1, <1>2, <1>3, FuturesAssumption
     DEF IInv, TypeOK, ApiQueue!TypeOK, ApiQueue!Callers, ApiQueue!Stages, SlotIs
<1>5. ClientInv'
  BY <1>1, <1>2, <1>3, FuturesAssumption DEF IInv, TypeOK, ClientInv, Queued, SlotIs
<1>6. WorkerInv'
  BY <1>1, <1>2, <1>3, FuturesAssumption
     DEF IInv, TypeOK, WorkerInv, Queued, Serving, SlotIs
<1>7. CallStep
  BY <1>1, <1>2, <1>3, Stutters DEF IInv, TypeOK, SlotIs
<1> QED
  BY <1>1, <1>2, <1>3, <1>4, <1>5, <1>6, <1>7, Frames DEF IInv, SameFields, SlotIs, TypeOK

(* The call is pending: nobody has read its result. *)
LEMMA ReplyResultKeeps ==
  ASSUME IInv, NEW w \in Workers, ReplyResult(w)
  PROVE  IInv' /\ CallStep /\ CountStep
<1>1. wpc[w] = "reply" /\ wpc' = [wpc EXCEPT ![w] = "signal"]
      /\ UNCHANGED <<live, calls, bufs, buffers, pc, fut, buf, got, polled, wslot,
                     orphans, backlog, gc, queue, closed, stage>>
  BY DEF ReplyResult, heap, bufHeap, client, worker, collector, api
<1>2. wslot[w] \in Slots /\ wslot[w] \in live
  BY <1>1 DEF IInv, TypeOK, WorkerInv, Serving
<1>3. PICK r \in Replies : slot' = [slot EXCEPT ![wslot[w]].result = r]
  BY Zenon DEF ReplyResult
<1>4. SlotIs(wslot[w], slot[wslot[w]].state, slot[wslot[w]].client_state, r,
             slot[wslot[w]].cmd_buf, slot[wslot[w]].owned)
  BY Zenon, <1>2, <1>3, ResultSet DEF IInv, TypeOK, Results
<1>5. TypeOK'
  BY <1>1, <1>2, <1>3, <1>4, FuturesAssumption
     DEF IInv, TypeOK, ApiQueue!TypeOK, ApiQueue!Callers, ApiQueue!Stages, SlotIs
<1>6. ClientInv'
  BY <1>1, <1>2, <1>3, <1>4, FuturesAssumption DEF IInv, TypeOK, ClientInv, Queued, SlotIs
<1>7. WorkerInv'
  BY <1>1, <1>2, <1>3, <1>4, FuturesAssumption
     DEF IInv, TypeOK, WorkerInv, Queued, Serving, SlotIs
<1>8. QueueInv'
  BY <1>1, <1>2, <1>3, <1>4, FuturesAssumption
     DEF IInv, TypeOK, QueueInv, SlotIs, WorkerInv, Queued
<1>9. SlotInv'
  BY <1>1, <1>2, <1>3, <1>4, FuturesAssumption
     DEF IInv, TypeOK, SlotInv, Orphan, is_terminal, SlotIs, WorkerInv
<1>10. BufInv'
  BY <1>1, <1>2, <1>3, <1>4, FuturesAssumption DEF IInv, TypeOK, BufInv, SlotIs
<1>11. ReadInv'
  BY <1>1, <1>2, <1>3, <1>4, FuturesAssumption
     DEF IInv, TypeOK, ReadInv, ResultIsFinal, is_terminal, SlotIs, WorkerInv
<1>12. CallStep
  <2>1. ~is_terminal(wslot[w])
    BY <1>1, <1>2, FuturesAssumption DEF IInv, WorkerInv, is_terminal
  <2> QED
    BY Zenon, <1>1, <1>2, <1>4, <2>1, Stutters DEF IInv, TypeOK, SlotIs
<1> QED
  BY Zenon, <1>1, <1>2, <1>3, <1>4, <1>5, <1>6, <1>7, <1>8, <1>9, <1>10, <1>11, <1>12, Frames
     DEF IInv, SameFields, SlotIs, TypeOK

(* The result is there before the state. *)
LEMMA ReplyStateKeeps ==
  ASSUME IInv, NEW w \in Workers, ReplyState(w)
  PROVE  IInv' /\ CallStep /\ CountStep
<1>1. /\ wpc[w] = "signal" /\ wpc' = [wpc EXCEPT ![w] = "unlock"]
      /\ slot' = [slot EXCEPT ![wslot[w]].state = IF slot[wslot[w]].result = "value"
                                                THEN "Success" ELSE "Error"]
      /\ pc' = [c \in Clients |-> IF fut[c] = wslot[w] /\ pc[c] = "asleep"
                                THEN "lock" ELSE pc[c]]
      /\ UNCHANGED <<live, calls, bufs, buffers, fut, buf, got, polled, wslot, orphans,
                     backlog, gc, queue, closed, stage>>
  BY DEF ReplyState, heap, bufHeap, client, worker, collector, api
<1>2. wslot[w] \in Slots /\ wslot[w] \in live
  BY <1>1 DEF IInv, TypeOK, WorkerInv, Serving
<1>3. SlotIs(wslot[w], IF slot[wslot[w]].result = "value" THEN "Success" ELSE "Error",
             slot[wslot[w]].client_state,
             slot[wslot[w]].result, slot[wslot[w]].cmd_buf, slot[wslot[w]].owned)
  BY Zenon, <1>1, <1>2, StateSet DEF IInv, TypeOK
<1>4. TypeOK'
  BY <1>1, <1>2, <1>3, FuturesAssumption
     DEF IInv, TypeOK, ApiQueue!TypeOK, ApiQueue!Callers, ApiQueue!Stages, SlotIs
<1>5. ClientInv'
  BY <1>1, <1>2, <1>3, FuturesAssumption DEF IInv, TypeOK, ClientInv, Queued, SlotIs
<1>6. WorkerInv'
  BY <1>1, <1>2, <1>3, FuturesAssumption
     DEF IInv, TypeOK, WorkerInv, Queued, Serving, SlotIs
<1>7. QueueInv'
  <2>1. \A i \in 1 .. Len(queue) : queue[i] # wslot[w]
    BY <1>1, <1>2, FuturesAssumption DEF IInv, WorkerInv, Queued, Serving
  <2>2. \A i \in 1 .. Len(queue) : queue[i] \in Slots
    BY DEF IInv, TypeOK, QueueInv
  <2>3. \A i \in 1 .. Len(queue) : slot'[queue[i]] = slot[queue[i]]
    BY Zenon, <1>3, <2>1, <2>2 DEF SlotIs
  <2> QED
    BY Zenon, <1>1, <2>3 DEF IInv, QueueInv
<1>8. SlotInv'
  BY <1>1, <1>2, <1>3, FuturesAssumption
     DEF IInv, TypeOK, SlotInv, Orphan, is_terminal, SlotIs, WorkerInv, Replies
<1>9. BufInv'
  BY <1>1, <1>2, <1>3, FuturesAssumption DEF IInv, TypeOK, BufInv, SlotIs
<1>10. ReadInv'
  BY <1>1, <1>2, <1>3, FuturesAssumption
     DEF IInv, TypeOK, ReadInv, ResultIsFinal, is_terminal, SlotIs, WorkerInv, Replies
<1>11. CallStep
  <2>1. slot[wslot[w]].state = "Pending" /\ slot[wslot[w]].result \in Replies
    BY <1>1, <1>2 DEF IInv, WorkerInv, Serving
  <2> QED
    BY Zenon, <1>1, <1>2, <1>3, <2>1, Answers DEF IInv, TypeOK
<1> QED
  BY Zenon, <1>1, <1>2, <1>3, <1>4, <1>5, <1>6, <1>7, <1>8, <1>9, <1>10, <1>11, Frames
     DEF IInv, SameFields, SlotIs, TypeOK

(* The worker gives up the mutex and the call. *)
LEMMA WorkerUnlockKeeps ==
  ASSUME IInv, NEW w \in Workers, WorkerUnlock(w)
  PROVE  IInv' /\ CallStep /\ CountStep
<1>1. /\ wpc[w] = "unlock" /\ wpc' = [wpc EXCEPT ![w] = "take"]
      /\ slot' = [slot EXCEPT ![wslot[w]].owned = None]
      /\ wslot' = [wslot EXCEPT ![w] = None]
      /\ UNCHANGED <<live, calls, bufs, buffers, pc, fut, buf, got, polled, orphans,
                     backlog, gc, queue, closed, stage>>
  BY DEF WorkerUnlock, heap, bufHeap, client, worker, collector, api
<1>2. wslot[w] \in Slots /\ wslot[w] \in live
  BY <1>1 DEF IInv, TypeOK, WorkerInv, Serving
<1>3. SlotIs(wslot[w], slot[wslot[w]].state, slot[wslot[w]].client_state, slot[wslot[w]].result,
             slot[wslot[w]].cmd_buf, None)
  BY Zenon, <1>1, <1>2, OwnedSet DEF IInv, TypeOK
<1>4. TypeOK'
  BY <1>1, <1>2, <1>3, FuturesAssumption
     DEF IInv, TypeOK, ApiQueue!TypeOK, ApiQueue!Callers, ApiQueue!Stages, SlotIs
<1>5. ClientInv'
  BY <1>1, <1>2, <1>3, FuturesAssumption
     DEF IInv, TypeOK, ClientInv, Queued, SlotIs, WorkerInv
<1>6. WorkerInv'
  BY <1>1, <1>2, <1>3, FuturesAssumption
     DEF IInv, TypeOK, WorkerInv, Queued, Serving, SlotIs
<1>7. SlotInv'
  BY <1>1, <1>2, <1>3, FuturesAssumption
     DEF IInv, TypeOK, SlotInv, Orphan, is_terminal, SlotIs
<1>8. CallStep
  BY <1>1, <1>2, <1>3, Stutters DEF IInv, TypeOK, SlotIs
<1> QED
  BY <1>1, <1>2, <1>3, <1>4, <1>5, <1>6, <1>7, <1>8, Frames
     DEF IInv, SameFields, SlotIs, TypeOK

-----------------------------------------------------------------------------
(* Steps of the orphan GC, and of shm_cleanup *)

(* The orphan moves from the deque to the slots to try. *)
LEMMA GcTakeKeeps ==
  ASSUME IInv, GcTake
  PROVE  IInv' /\ CallStep /\ CountStep
<1>1. /\ gc.phase = "take"
      /\ orphans # <<>>
      /\ gc' = [gc EXCEPT !.phase = "new", !.todo = {Head(orphans)}]
      /\ orphans' = Tail(orphans)
      /\ UNCHANGED <<live, slot, calls, bufs, buffers, pc, fut, buf, got, polled, wpc,
                     wslot, backlog, queue, closed, stage>>
  BY DEF GcTake, heap, bufHeap, client, worker, collector, api
<1>2. Head(orphans) = orphans[1] /\ Len(orphans) # 0 /\ Len(orphans') = Len(orphans) - 1
      /\ orphans' \in Seq(Slots) /\ \A i \in 1 .. Len(orphans') : orphans'[i] = orphans[i + 1]
  <2>1. orphans \in Seq(Slots)
    BY Zenon DEF IInv, TypeOK
  <2> QED
    BY Zenon, <1>1, <2>1, Taken
<1>3. Head(orphans) \in Slots /\ \A s \in Slots : Orphan(s) <=> Orphan(s)' \/ s = Head(orphans)
  <2>1. Head(orphans) \in Slots
    BY <1>2 DEF IInv, TypeOK
  <2>2. ASSUME NEW s \in Slots, Orphan(s), s # Head(orphans)
        PROVE  Orphan(s)'
    <3>1. PICK i \in 1 .. Len(orphans) : orphans[i] = s
      BY <2>2 DEF Orphan
    <3>2. i # 1 /\ i - 1 \in 1 .. Len(orphans') /\ orphans'[i - 1] = s
      BY <1>2, <2>2, <3>1 DEF IInv, TypeOK
    <3> QED
      BY <3>2 DEF Orphan
  <2>3. ASSUME NEW s \in Slots, Orphan(s)'
        PROVE  Orphan(s)
    <3>1. PICK i \in 1 .. Len(orphans') : orphans'[i] = s
      BY <2>3 DEF Orphan
    <3>2. i + 1 \in 1 .. Len(orphans) /\ orphans[i + 1] = s
      BY <1>2, <3>1 DEF IInv, TypeOK
    <3> QED
      BY <3>2 DEF Orphan
  <2>4. Orphan(Head(orphans))
    BY <1>2 DEF Orphan, IInv, TypeOK
  <2> QED
    BY <2>1, <2>2, <2>3, <2>4
<1>4. /\ gc' \in [phase : {"take", "new", "check", "scan"}, todo : SUBSET Slots,
                  unlock : Slots \cup {None}]
      /\ gc'.todo = {Head(orphans)} /\ gc.todo = {}
  BY Zenon, <1>1, <1>3 DEF IInv, TypeOK, GcInv
<1>5. TypeOK'
  BY <1>1, <1>2, <1>4 DEF IInv, TypeOK, ApiQueue!TypeOK
<1>6. GcInv'
  <2>1. gc'.unlock = gc.unlock /\ gc'.phase = "new"
    BY <1>1 DEF IInv, TypeOK
  <2>2. /\ 1 \in 1 .. Len(orphans)
        /\ \A i \in 1 .. Len(orphans') :
             i + 1 \in 1 .. Len(orphans) /\ i + 1 # 1 /\ orphans'[i] = orphans[i + 1]
    BY <1>2 DEF IInv, TypeOK
  <2>3. ASSUME NEW i \in 1 .. Len(orphans')
        PROVE  orphans'[i] \notin backlog \cup {Head(orphans)}
    BY Zenon, <1>2, <2>2 DEF IInv, GcInv
  <2>4. ASSUME NEW i \in 1 .. Len(orphans'), NEW j \in 1 .. Len(orphans'),
               orphans'[i] = orphans'[j]
        PROVE  i = j
    <3>1. i + 1 = j + 1
      BY Zenon, <2>2, <2>4 DEF IInv, GcInv
    <3> QED
      BY <3>1
  <2> QED
    BY <1>1, <1>4, <2>1, <2>3, <2>4 DEF IInv, GcInv
<1>7. SlotInv'
  <2>1. \A s \in Slots : s \in backlog' \cup gc'.todo \/ Orphan(s)' <=>
                          s \in backlog \cup gc.todo \/ Orphan(s)
    BY <1>1, <1>3, <1>4
  <2> QED
    BY <1>1, <2>1 DEF IInv, TypeOK, SlotInv, is_terminal
<1>8. CallStep
  BY <1>1, <1>2, <1>3, <1>4, Stutters DEF IInv, TypeOK
<1> QED
  BY <1>1, <1>2, <1>3, <1>4, <1>5, <1>6, <1>7, <1>8, Frames DEF IInv, SameFields

(* Only the GC's control moves. *)
LEMMA GcPollTimeoutKeeps ==
  ASSUME IInv, GcPollTimeout
  PROVE  IInv' /\ CallStep /\ CountStep
<1>1. /\ gc.phase = "take"
      /\ gc' = [gc EXCEPT !.phase = "check"]
      /\ UNCHANGED <<live, slot, calls, bufs, buffers, pc, fut, buf, got, polled, wpc,
                     wslot, orphans, backlog, queue, closed, stage>>
  BY DEF GcPollTimeout, heap, bufHeap, client, worker, collector, api
<1>2. TypeOK'
  BY Zenon, <1>1, FuturesAssumption
     DEF IInv, TypeOK, ApiQueue!TypeOK, ApiQueue!Callers, ApiQueue!Stages
<1>3. GcInv'
  BY <1>1, FuturesAssumption DEF IInv, TypeOK, GcInv
<1>4. SlotInv'
  BY <1>1, FuturesAssumption DEF IInv, TypeOK, SlotInv, Orphan, is_terminal
<1>5. CallStep
  BY <1>1, Stutters DEF IInv, TypeOK
<1> QED
  BY <1>1, <1>2, <1>3, <1>4, <1>5, Frames DEF IInv, SameFields

(* The orphan moves to the backlog. *)
LEMMA GcKeepKeeps ==
  ASSUME IInv, NEW s \in Slots, GcKeep(s)
  PROVE  IInv' /\ CallStep /\ CountStep
<1>1. /\ s \in gc.todo
      /\ gc' = [gc EXCEPT !.todo = @ \ {s}]
      /\ backlog' = backlog \cup {s}
      /\ UNCHANGED <<live, slot, calls, bufs, buffers, pc, fut, buf, got, polled, wpc,
                     wslot, orphans, queue, closed, stage>>
  BY DEF GcKeep, heap, bufHeap, client, worker, collector, api
<1>2. TypeOK'
  BY <1>1, FuturesAssumption
     DEF IInv, TypeOK, ApiQueue!TypeOK, ApiQueue!Callers, ApiQueue!Stages
<1>3. GcInv'
  BY <1>1, FuturesAssumption DEF IInv, TypeOK, GcInv
<1>4. SlotInv'
  BY <1>1, FuturesAssumption DEF IInv, TypeOK, SlotInv, Orphan, is_terminal
<1>5. CallStep
  BY <1>1, Stutters DEF IInv, TypeOK
<1> QED
  BY <1>1, <1>2, <1>3, <1>4, <1>5, Frames DEF IInv, SameFields

(* The call is terminal and unlocked, so Raft is done with it. *)
LEMMA GcDisposeKeeps ==
  ASSUME IInv, NEW s \in Slots, GcDispose(s)
  PROVE  IInv' /\ CallStep /\ CountStep
<1>1. /\ s \in gc.todo /\ slot[s].owned = None /\ is_terminal(s)
      /\ live' = live \ {s} /\ calls' = calls - 1
      /\ slot' = [slot EXCEPT ![s] = [NewSlot(None) EXCEPT !.owned = GC]]
      /\ IF slot[s].cmd_buf # None
         THEN bufs' = bufs \ {slot[s].cmd_buf} /\ buffers' = buffers - 1
         ELSE UNCHANGED <<bufs, buffers>>
      /\ gc' = [gc EXCEPT !.todo = @ \ {s}, !.unlock = s]
      /\ backlog' = backlog \ {s}
      /\ UNCHANGED <<pc, fut, buf, got, polled, wpc, wslot, orphans, queue, closed, stage>>
  BY DEF GcDispose, Dealloc, heap, bufHeap, client, worker, collector, api
<1>2. s \in live /\ slot[s].client_state = "Abandoned" /\ ~Orphan(s)
      /\ \A c \in Clients : fut[c] # s
  <2>1. s \in live /\ slot[s].client_state = "Abandoned"
    BY <1>1 DEF IInv, SlotInv
  <2>2. ~Orphan(s)
    BY <1>1 DEF IInv, GcInv, Orphan
  <2>3. \A c \in Clients : fut[c] # s
    BY <2>1, FuturesAssumption DEF IInv, ClientInv
  <2> QED
    BY <2>1, <2>2, <2>3
<1>3. SlotIs(s, "Pending", "Issued", "unset", None, GC)
  BY Zenon, <1>1, FreedSet DEF IInv, TypeOK
<1>4. ~Queued(s) /\ \A w \in Workers : wslot[w] # s
  BY <1>1, <1>2, FuturesAssumption
     DEF IInv, TypeOK, QueueInv, WorkerInv, Queued, is_terminal
<1>5. TypeOK'
  <2>1. /\ gc' \in [phase : {"take", "new", "check", "scan"}, todo : SUBSET Slots,
                    unlock : Slots \cup {None}]
        /\ bufs' \in SUBSET Bufs /\ buffers' \in Int
    <3>1. gc' \in [phase : {"take", "new", "check", "scan"}, todo : SUBSET Slots,
                   unlock : Slots \cup {None}]
      BY Zenon, <1>1 DEF IInv, TypeOK
    <3>2. bufs' \in SUBSET Bufs /\ buffers' \in Int
      BY <1>1 DEF IInv, TypeOK
    <3> QED
      BY <3>1, <3>2
  <2> QED
    BY <1>1, <1>3, <2>1 DEF IInv, TypeOK, ApiQueue!TypeOK, SlotIs
<1>6. ClientInv'
  BY <1>1, <1>2, <1>3, <1>4, FuturesAssumption
     DEF IInv, TypeOK, ClientInv, Queued, SlotIs, WorkerInv, QueueInv, SlotInv
<1>7. WorkerInv'
  BY <1>1, <1>2, <1>3, <1>4, FuturesAssumption
     DEF IInv, TypeOK, WorkerInv, Queued, Serving, SlotIs, QueueInv
<1>8. QueueInv'
  BY <1>1, <1>2, <1>3, <1>4, FuturesAssumption DEF IInv, TypeOK, QueueInv, SlotIs, Queued
<1>9. GcInv'
  BY <1>1, <1>2, <1>3, <1>4, FuturesAssumption
     DEF IInv, TypeOK, GcInv, SlotIs, SlotInv, Orphan
<1>10. SlotInv'
  <2>0. /\ gc'.todo = gc.todo \ {s} /\ \A x \in Slots : Orphan(x)' <=> Orphan(x)
    BY <1>1 DEF IInv, TypeOK, Orphan
  <2>1. ASSUME NEW x \in Slots
        PROVE  x \in live' <=> \/ \E d \in Clients : fut'[d] = x
                               \/ Orphan(x)' \/ x \in backlog' \cup gc'.todo
    <3>1. CASE x = s
      BY <1>1, <1>2, <2>0, <3>1
    <3>2. CASE x # s
      BY <1>1, <2>0, <3>2 DEF IInv, SlotInv
    <3> QED
      BY <3>1, <3>2
  <2>2. \A x \in Slots : Orphan(x)' \/ x \in backlog' \cup gc'.todo =>
                            slot'[x].client_state = "Abandoned"
    BY <1>1, <1>2, <1>3, <2>0 DEF IInv, SlotInv, SlotIs
  <2>3. \A x \in live' :
          /\ slot'[x].client_state = "Observed" =>
               is_terminal(x)' /\ \A w \in Workers : wslot'[w] # x
          /\ is_terminal(x)' => /\ slot'[x].result # "unset"
                                /\ slot'[x].state = "Error" <=> slot'[x].result # "value"
    BY <1>1, <1>3 DEF IInv, TypeOK, SlotInv, is_terminal, SlotIs
  <2> QED
    BY <2>1, <2>2, <2>3 DEF SlotInv
<1>11. BufInv'
  BY <1>1, <1>2, <1>3, <1>4, FuturesAssumption
     DEF IInv, TypeOK, BufInv, SlotIs, ClientInv, SlotInv
<1>12. ReadInv'
  BY <1>1, <1>2, <1>3, <1>4, FuturesAssumption
     DEF IInv, TypeOK, ReadInv, ResultIsFinal, is_terminal, SlotIs, ClientInv
<1>13. CountStep
  <2>1. Counted(live, calls, live', calls')
    BY Zenon, <1>1, <1>2 DEF Counted
  <2>2. slot[s].cmd_buf # None => slot[s].cmd_buf \in bufs
    BY Zenon, <1>2 DEF IInv, BufInv
  <2>3. Counted(bufs, buffers, bufs', buffers')
    BY Zenon, <1>1, <2>2 DEF Counted
  <2> QED
    BY Zenon, <2>1, <2>3 DEF CountStep
<1>14. CallStep
  BY <1>1, <1>2, <1>3, Frees DEF IInv, TypeOK
<1> QED
  BY Zenon, <1>1, <1>2, <1>3, <1>4, <1>5, <1>6, <1>7, <1>8, <1>9, <1>10, <1>11, <1>12, <1>13,
     <1>14, Frames DEF IInv, SameFields, SlotIs, TypeOK

(* The slot is not allocated, so nobody has its mutex. *)
LEMMA GcUnlockKeeps ==
  ASSUME IInv, GcUnlock
  PROVE  IInv' /\ CallStep /\ CountStep
<1>1. /\ gc.unlock # None
      /\ slot' = [slot EXCEPT ![gc.unlock].owned = None]
      /\ gc' = [gc EXCEPT !.unlock = None]
      /\ UNCHANGED <<live, calls, bufs, buffers, pc, fut, buf, got, polled, wpc, wslot,
                     orphans, backlog, queue, closed, stage>>
  BY DEF GcUnlock, heap, bufHeap, client, worker, collector, api
<1>2. gc.unlock \in Slots /\ gc.unlock \notin live
  BY <1>1 DEF IInv, TypeOK, GcInv
<1>3. SlotIs(gc.unlock, slot[gc.unlock].state, slot[gc.unlock].client_state, slot[gc.unlock].result,
             slot[gc.unlock].cmd_buf, None)
  BY Zenon, <1>1, <1>2, OwnedSet DEF IInv, TypeOK
<1>4. TypeOK'
  BY Zenon, <1>1, <1>2, <1>3, FuturesAssumption
     DEF IInv, TypeOK, ApiQueue!TypeOK, ApiQueue!Callers, ApiQueue!Stages, SlotIs
<1>5. ClientInv'
  BY <1>1, <1>2, <1>3, FuturesAssumption DEF IInv, TypeOK, ClientInv, Queued, SlotIs
<1>6. WorkerInv'
  BY <1>1, <1>2, <1>3, FuturesAssumption
     DEF IInv, TypeOK, WorkerInv, Queued, Serving, SlotIs
<1>7. GcInv'
  BY <1>1, <1>2, <1>3, FuturesAssumption DEF IInv, TypeOK, GcInv, SlotIs
<1>8. SlotInv'
  BY <1>1, <1>2, <1>3, FuturesAssumption
     DEF IInv, TypeOK, SlotInv, Orphan, is_terminal, SlotIs
<1>9. CallStep
  BY <1>1, <1>2, <1>3, Stutters DEF IInv, TypeOK, SlotIs
<1> QED
  BY Zenon, <1>1, <1>2, <1>3, <1>4, <1>5, <1>6, <1>7, <1>8, <1>9, Frames
     DEF IInv, SameFields, SlotIs, TypeOK

(* Only the GC's control moves. *)
LEMMA GcTriedKeeps ==
  ASSUME IInv, GcTried
  PROVE  IInv' /\ CallStep /\ CountStep
<1>1. /\ gc.todo = {}
      /\ gc' = [gc EXCEPT !.phase = IF @ = "new" THEN "check" ELSE "take"]
      /\ UNCHANGED <<live, slot, calls, bufs, buffers, pc, fut, buf, got, polled, wpc,
                     wslot, orphans, backlog, queue, closed, stage>>
  BY DEF GcTried, heap, bufHeap, client, worker, collector, api
<1>2. TypeOK'
  BY Zenon, <1>1, FuturesAssumption
     DEF IInv, TypeOK, ApiQueue!TypeOK, ApiQueue!Callers, ApiQueue!Stages
<1>3. GcInv'
  BY <1>1, FuturesAssumption DEF IInv, TypeOK, GcInv
<1>4. SlotInv'
  BY <1>1, FuturesAssumption DEF IInv, TypeOK, SlotInv, Orphan, is_terminal
<1>5. CallStep
  BY <1>1, Stutters DEF IInv, TypeOK
<1> QED
  BY <1>1, <1>2, <1>3, <1>4, <1>5, Frames DEF IInv, SameFields

(* The backlog is tried; it stays tracked. *)
LEMMA GcScanKeeps ==
  ASSUME IInv, GcScan
  PROVE  IInv' /\ CallStep /\ CountStep
<1>1. /\ gc.phase = "check"
      /\ gc' = [gc EXCEPT !.phase = "scan", !.todo = backlog]
      /\ UNCHANGED <<live, slot, calls, bufs, buffers, pc, fut, buf, got, polled, wpc,
                     wslot, orphans, backlog, queue, closed, stage>>
  BY DEF GcScan, heap, bufHeap, client, worker, collector, api
<1>2. TypeOK'
  BY Zenon, <1>1, FuturesAssumption
     DEF IInv, TypeOK, ApiQueue!TypeOK, ApiQueue!Callers, ApiQueue!Stages
<1>3. GcInv'
  BY <1>1, FuturesAssumption DEF IInv, TypeOK, GcInv
<1>4. SlotInv'
  BY <1>1, FuturesAssumption DEF IInv, TypeOK, SlotInv, Orphan, is_terminal, GcInv
<1>5. CallStep
  BY <1>1, Stutters DEF IInv, TypeOK
<1> QED
  BY <1>1, <1>2, <1>3, <1>4, <1>5, Frames DEF IInv, SameFields

(* Only the GC's control moves. *)
LEMMA GcNoScanKeeps ==
  ASSUME IInv, GcNoScan
  PROVE  IInv' /\ CallStep /\ CountStep
<1>1. /\ gc.phase = "check"
      /\ gc' = [gc EXCEPT !.phase = "take"]
      /\ UNCHANGED <<live, slot, calls, bufs, buffers, pc, fut, buf, got, polled, wpc,
                     wslot, orphans, backlog, queue, closed, stage>>
  BY DEF GcNoScan, heap, bufHeap, client, worker, collector, api
<1>2. TypeOK'
  BY Zenon, <1>1, FuturesAssumption
     DEF IInv, TypeOK, ApiQueue!TypeOK, ApiQueue!Callers, ApiQueue!Stages
<1>3. GcInv'
  BY <1>1, FuturesAssumption DEF IInv, TypeOK, GcInv
<1>4. SlotInv'
  BY <1>1, FuturesAssumption DEF IInv, TypeOK, SlotInv, Orphan, is_terminal
<1>5. CallStep
  BY <1>1, Stutters DEF IInv, TypeOK
<1> QED
  BY <1>1, <1>2, <1>3, <1>4, <1>5, Frames DEF IInv, SameFields

(* Closing moves no call. *)
LEMMA CloseApiKeeps ==
  ASSUME IInv, CloseApi
  PROVE  IInv' /\ CallStep /\ CountStep
<1>1. /\ closed' = TRUE
      /\ UNCHANGED <<live, slot, calls, bufs, buffers, pc, fut, buf, got, polled, wpc,
                     wslot, orphans, backlog, gc, queue, stage>>
  BY DEF CloseApi, ApiQueue!Close, heap, bufHeap, client, worker, collector, api
<1>2. TypeOK'
  BY <1>1, FuturesAssumption
     DEF IInv, TypeOK, ApiQueue!TypeOK, ApiQueue!Callers, ApiQueue!Stages
<1>3. CallStep
  BY <1>1, Stutters DEF IInv, TypeOK
<1> QED
  BY <1>1, <1>2, <1>3, Frames DEF IInv, SameFields

-----------------------------------------------------------------------------
(* The invariant *)

(* It holds at the start, where Calls starts too. *)
LEMMA InitInv == Init => IInv /\ AbstractCalls!Init
<1> SUFFICES ASSUME Init PROVE IInv /\ AbstractCalls!Init
  OBVIOUS
<1>1. slot \in [Slots -> Slot]
  BY DEF Init, NewSlot, Slot, Results
<1>2. polled \in [Clients -> BOOLEAN]
  BY DEF Init
<1>3. TypeOK
  <2>1. <<>> \in Seq(Slots) /\ Len(<<>>) = 0
    OBVIOUS
  <2>2. fut \in [Clients -> Slots \cup {None}] /\ wslot \in [Workers -> Slots \cup {None}]
    BY DEF Init
  <2>3. ApiQueue!TypeOK
    <3>1. queue = <<>> /\ closed = FALSE /\ stage = [t \in Clients \cup Workers |-> "out"]
      BY DEF Init, ApiQueue!Init, ApiQueue!Callers
    <3>2. queue \in Seq(Slots) /\ Len(queue) <= Capacity
      BY <2>1, <3>1, FuturesAssumption
    <3>3. closed \in BOOLEAN
      BY Zenon, <3>1
    <3>4. stage \in [Clients \cup Workers -> {"out", "called", "in"}]
      BY <3>1
    <3> QED
      BY <2>2, <3>2, <3>3, <3>4 DEF ApiQueue!TypeOK, ApiQueue!Callers, ApiQueue!Stages
  <2>4. gc \in [phase : {"take", "new", "check", "scan"}, todo : SUBSET Slots,
                unlock : Slots \cup {None}]
    BY DEF Init
  <2>5. /\ pc \in [Clients -> {"idle", "send", "ready", "lock", "test", "block", "asleep"}]
        /\ buf \in [Clients -> Bufs \cup {None}]
        /\ got \in [Clients -> Results \cup {"zero", None}]
        /\ wpc \in [Workers -> {"take", "serve", "reply", "signal", "unlock", "exited"}]
    BY DEF Init
  <2>6. /\ live \in SUBSET Slots /\ bufs \in SUBSET Bufs /\ backlog \in SUBSET Slots
        /\ calls \in Int /\ buffers \in Int /\ orphans \in Seq(Slots)
    BY <2>1 DEF Init
  <2> QED
    BY <1>1, <1>2, <2>2, <2>3, <2>4, <2>5, <2>6 DEF TypeOK
<1>4. ClientInv
  BY DEF Init, ClientInv, ApiQueue!Init, ApiQueue!Callers
<1>5. WorkerInv
  BY DEF Init, WorkerInv, Serving, ApiQueue!Init, ApiQueue!Callers
<1>6. QueueInv /\ GcInv
  BY DEF Init, QueueInv, GcInv, ApiQueue!Init
<1>7. SlotInv
  BY FuturesAssumption DEF Init, SlotInv, Orphan
<1>8. BufInv
  BY DEF Init, BufInv
<1>9. ReadInv
  BY DEF Init, ReadInv, ResultIsFinal
<1>10. AbstractCalls!Init
  BY DEF Init, AbstractCalls!Init, Abandoned
<1> QED
  BY <1>3, <1>4, <1>5, <1>6, <1>7, <1>8, <1>9, <1>10 DEF IInv

(* Every step keeps the invariant, and is a step of Calls or none. *)
LEMMA NextInv ==
  ASSUME ReuseBeforeUnlock = FALSE, IInv, [Next]_vars
  PROVE  IInv' /\ CallStep /\ CountStep
<1>1. ASSUME NEW c \in Clients, ClientStart(c) \/ ClientStep(c)
      PROVE  IInv' /\ CallStep /\ CountStep
  <2>1. CASE AllocBuf(c)
    BY <2>1, AllocBufKeeps
  <2>2. CASE FreeBuf(c)
    BY <2>2, FreeBufKeeps
  <2>3. CASE Send(c)
    BY Zenon, <2>3, SendKeeps
  <2>4. CASE SendInvalid(c)
    BY Zenon, <2>4, SendInvalidKeeps
  <2>5. CASE Wait(c)
    BY <2>5, WaitKeeps
  <2>6. CASE GetReply(c)
    BY <2>6, GetReplyKeeps
  <2>7. CASE Get(c)
    BY <2>7, GetKeeps
  <2>8. CASE Poll(c)
    BY <2>8, PollKeeps
  <2>9. CASE WaitFor(c)
    BY <2>9, WaitForKeeps
  <2>10. CASE DisposeIssued(c)
    BY <2>10, DisposeIssuedKeeps
  <2>11. CASE DisposeObserved(c)
    BY <2>11, DisposeObservedKeeps
  <2>12. CASE SpuriousWake(c)
    BY <2>12, SpuriousWakeKeeps
  <2>13. CASE SendEnter(c)
    BY <2>13, SendEnterKeeps
  <2>14. CASE SendPut(c)
    BY <2>14, SendPutKeeps
  <2>15. CASE SendRefused(c)
    BY <2>15, SendRefusedKeeps
  <2>16. CASE WaitLock(c)
    BY <2>16, WaitLockKeeps
  <2>17. CASE WaitReturn(c)
    BY <2>17, WaitReturnKeeps
  <2>18. CASE WaitBlock(c)
    BY <2>18, WaitBlockKeeps
  <2>19. CASE WaitSleep(c)
    BY <2>19, WaitSleepKeeps
  <2> QED
    BY Zenon, <1>1, <2>1, <2>2, <2>3, <2>4, <2>5, <2>6, <2>7, <2>8, <2>9, <2>10, <2>11, <2>12,
       <2>13, <2>14, <2>15, <2>16, <2>17, <2>18, <2>19 DEF ClientStart, ClientStep
<1>2. ASSUME NEW w \in Workers, WorkerStep(w)
      PROVE  IInv' /\ CallStep /\ CountStep
  <2>1. CASE WorkerCall(w)
    BY <2>1, WorkerCallKeeps
  <2>2. CASE WorkerEnter(w)
    BY <2>2, WorkerEnterKeeps
  <2>3. CASE WorkerTake(w)
    BY <2>3, WorkerTakeKeeps
  <2>4. CASE WorkerRefused(w)
    BY <2>4, WorkerRefusedKeeps
  <2>5. CASE WorkerLock(w)
    BY <2>5, WorkerLockKeeps
  <2>6. CASE ReplyResult(w)
    BY <2>6, ReplyResultKeeps
  <2>7. CASE ReplyState(w)
    BY <2>7, ReplyStateKeeps
  <2>8. CASE WorkerUnlock(w)
    BY <2>8, WorkerUnlockKeeps
  <2> QED
    BY Zenon, <1>2, <2>1, <2>2, <2>3, <2>4, <2>5, <2>6, <2>7, <2>8 DEF WorkerStep
<1>3. ASSUME NEW s \in Slots, GcKeep(s) \/ GcDispose(s)
      PROVE  IInv' /\ CallStep /\ CountStep
  <2>1. CASE GcKeep(s)
    BY <2>1, GcKeepKeeps
  <2>2. CASE GcDispose(s)
    BY <2>2, GcDisposeKeeps
  <2> QED
    BY <1>3, <2>1, <2>2
<1>4. CASE GcTake
  BY <1>4, GcTakeKeeps
<1>5. CASE GcPollTimeout
  BY Zenon, <1>5, GcPollTimeoutKeeps
<1>6. CASE GcUnlock
  BY <1>6, GcUnlockKeeps
<1>7. CASE GcTried
  BY <1>7, GcTriedKeeps
<1>8. CASE GcScan
  BY <1>8, GcScanKeeps
<1>9. CASE GcNoScan
  BY <1>9, GcNoScanKeeps
<1>10. CASE CloseApi
  BY <1>10, CloseApiKeeps
<1>11. CASE UNCHANGED vars
  <2>1. UNCHANGED <<live, slot, calls, bufs, buffers, pc, fut, buf, got, polled, wpc, wslot,
                    orphans, backlog, gc, queue, closed, stage>>
    BY <1>11 DEF vars, heap, bufHeap, client, worker, collector, api
  <2>2. TypeOK'
    BY <2>1 DEF IInv, TypeOK, ApiQueue!TypeOK, ApiQueue!Callers
  <2>3. CallStep
    BY <2>1, Stutters DEF IInv, TypeOK
  <2> QED
    BY <2>1, <2>2, <2>3, Frames DEF IInv, SameFields
<1> QED
  BY Zenon, <1>1, <1>2, <1>3, <1>4, <1>5, <1>6, <1>7, <1>8, <1>9, <1>10, <1>11 DEF Next, GcStep

(* So it always holds. *)
LEMMA Invariant ==
  ASSUME ReuseBeforeUnlock = FALSE
  PROVE  Spec => []IInv
<1>1. Init => IInv
  BY InitInv
<1>2. IInv /\ [Next]_vars => IInv'
  BY Zenon, NextInv
<1> QED
  BY <1>1, <1>2, PTL DEF Spec

(* The counters count what is allocated. *)
CountInv == calls = Cardinality(live) /\ buffers = Cardinality(bufs)

LEMMA CountedRight ==
  ASSUME NEW S, NEW n, NEW T, NEW m, IsFiniteSet(S), n = Cardinality(S), Counted(S, n, T, m)
  PROVE  m = Cardinality(T)
<1>1. CASE T = S /\ m = n
  BY <1>1
<1>2. ASSUME NEW x, x \notin S, T = S \cup {x}, m = n + 1 PROVE m = Cardinality(T)
  BY Zenon, <1>2, FS_AddElement
<1>3. ASSUME NEW x \in S, T = S \ {x}, m = n - 1 PROVE m = Cardinality(T)
  BY Zenon, <1>3, FS_RemoveElement
<1> QED
  BY Zenon, <1>1, <1>2, <1>3 DEF Counted

LEMMA CountersRight ==
  ASSUME ReuseBeforeUnlock = FALSE
  PROVE  Spec => []CountInv
<1>1. Init => CountInv
  BY FS_EmptySet DEF Init, CountInv
<1>2. ASSUME IInv, CountInv, [Next]_vars PROVE CountInv'
  <2>1. IsFiniteSet(live) /\ IsFiniteSet(bufs)
    BY Zenon, <1>2, FuturesAssumption, FS_Subset DEF IInv, TypeOK
  <2>2. CountStep
    BY Zenon, <1>2, NextInv
  <2> QED
    BY Zenon, <1>2, <2>1, <2>2, CountedRight DEF CountStep, CountInv
<1> QED
  BY <1>1, <1>2, Invariant, PTL DEF Spec

-----------------------------------------------------------------------------
(* What follows from it *)

(* Slots, queues and threads keep their types, in particular the           *)
(* api_queue never holds more than its capacity.                           *)
THEOREM TypeCorrect ==
  ASSUME ReuseBeforeUnlock = FALSE
  PROVE  Spec => []TypeOK
<1>1. IInv => TypeOK
  BY DEF IInv
<1> QED
  BY <1>1, Invariant, PTL

(* No use after free of a slot: whatever a client, the api_queue, a Raft   *)
(* worker or the GC refers to is allocated (CallSlot::dispose,             *)
(* run_orphan_gc).                                                         *)
THEOREM SlotsInUseAreAllocated ==
  ASSUME ReuseBeforeUnlock = FALSE
  PROVE  Spec => []NoDanglingSlot
<1>1. IInv => NoDanglingSlot
  <2> SUFFICES ASSUME IInv PROVE NoDanglingSlot
    OBVIOUS
  <2>1. queue \in Seq(Slots) /\ orphans \in Seq(Slots)
    BY DEF IInv, TypeOK, ApiQueue!TypeOK
  <2>2. Tracked \subseteq live
    BY <2>1 DEF IInv, TypeOK, SlotInv, Orphan, Tracked, InSeq
  <2>3. Held \subseteq live
    BY DEF IInv, ClientInv, Held
  <2>4. Served \subseteq live
    <3>1. \A i \in DOMAIN queue : queue[i] \in live
      <4>1. DOMAIN queue = 1 .. Len(queue)
        BY <2>1
      <4> QED
        BY <4>1 DEF IInv, QueueInv
    <3>2. \A w \in Workers : wslot[w] # None => wslot[w] \in live
      BY DEF IInv, WorkerInv
    <3> QED
      BY <3>1, <3>2 DEF Served, InSeq
  <2> QED
    BY <2>2, <2>3, <2>4 DEF NoDanglingSlot
<1> QED
  BY <1>1, Invariant, PTL

(* Every allocated slot has one owner, a client or the GC, so no slot is   *)
(* leaked or freed twice (CallSlot::dispose, try_dispose_orphan), and the  *)
(* counters in stats count what is allocated.                              *)
THEOREM EverySlotHasOneOwner ==
  ASSUME ReuseBeforeUnlock = FALSE
  PROVE  Spec => []OneOwner
<1>1. IInv /\ CountInv => OneOwner
  <2> SUFFICES ASSUME IInv, CountInv PROVE OneOwner
    OBVIOUS
  <2>1. orphans \in Seq(Slots) /\ live \in SUBSET Slots /\ gc.todo \in SUBSET Slots
        /\ backlog \in SUBSET Slots
    BY DEF IInv, TypeOK
  <2>2. \A s \in Slots : s \in Tracked <=> Orphan(s) \/ s \in backlog \cup gc.todo
    BY <2>1 DEF Tracked, InSeq, Orphan
  <2>3. \A s \in Slots : s \in Held <=> \E c \in Clients : fut[c] = s
    BY FuturesAssumption DEF Held
  <2>4. Tracked \subseteq Slots /\ Held \subseteq Slots
    BY <2>1 DEF Tracked, InSeq, Held, IInv, TypeOK
  <2>5. live = Held \cup Tracked
    BY <2>1, <2>2, <2>3, <2>4 DEF IInv, SlotInv
  <2>6. \A s \in live : s \in Tracked <=> slot[s].client_state = "Abandoned"
    <3> SUFFICES ASSUME NEW s \in live
                 PROVE  s \in Tracked <=> slot[s].client_state = "Abandoned"
      OBVIOUS
    <3>1. s \in Tracked => slot[s].client_state = "Abandoned"
      BY <2>1, <2>2 DEF IInv, SlotInv
    <3>2. ASSUME NEW c \in Clients, fut[c] = s
          PROVE  slot[s].client_state # "Abandoned"
      BY <2>1, <3>2, FuturesAssumption DEF IInv, ClientInv
    <3> QED
      BY <2>1, <2>2, <3>1, <3>2 DEF IInv, SlotInv
  <2> QED
    BY <2>5, <2>6 DEF IInv, ClientInv, CountInv, OneOwner
<1> QED
  BY <1>1, Invariant, CountersRight, PTL

(* Neither Raft nor a client uses a command buffer that was freed          *)
(* (raft_apply, free_raft_buffer, CallSlot::dispose).                      *)
THEOREM BuffersInUseAreAllocated ==
  ASSUME ReuseBeforeUnlock = FALSE
  PROVE  Spec => []NoDanglingBuffer
<1>1. IInv => NoDanglingBuffer
  <2> SUFFICES ASSUME IInv PROVE NoDanglingBuffer
    OBVIOUS
  <2>1. ASSUME NEW s \in live, slot[s].cmd_buf # None, slot[s].client_state # "Abandoned"
        PROVE  slot[s].cmd_buf \in bufs
    <3>1. PICK c \in Clients : fut[c] = s
      BY <2>1 DEF IInv, TypeOK, SlotInv
    <3> QED
      BY <2>1, <3>1, FuturesAssumption DEF IInv, TypeOK, BufInv
  <2> QED
    BY <2>1 DEF IInv, BufInv, NoDanglingBuffer
<1> QED
  BY <1>1, Invariant, PTL

(* A result a client has read is complete and final, whether it read it    *)
(* with the slot's mutex or, as get_ptr and future_get do, without.        *)
THEOREM ResultsAreFinal ==
  ASSUME ReuseBeforeUnlock = FALSE
  PROVE  Spec => []ResultIsFinal
<1>1. IInv => ResultIsFinal
  BY Zenon DEF IInv, ReadInv
<1> QED
  BY <1>1, Invariant, PTL

(* Futures implements Calls: what the threads do to slots, queue and       *)
(* orphans (send_request, BaseSlot::reply, CallSlot::dispose,              *)
(* run_orphan_gc) is, to a client, a sequence of calls that are answered   *)
(* once and freed once after the answer.                                   *)
THEOREM FuturesImplementCalls ==
  ASSUME ReuseBeforeUnlock = FALSE
  PROVE  Spec => ImplementsCalls
<1>1. Init => AbstractCalls!Init
  BY InitInv
<1>2. IInv /\ [Next]_vars => [AbstractCalls!Next]_(AbstractCalls!callVars)
  BY Zenon, NextInv DEF CallStep
<1> QED
  BY <1>1, <1>2, Invariant, PTL DEF Spec, ImplementsCalls, AbstractCalls!Spec

=============================================================================
