----------------------------- MODULE FuturesInv -----------------------------
(***************************************************************************)
(* The inductive invariant behind the proofs about Futures, what an        *)
(* assignment to a slot changes, what a step may be to Calls and to the    *)
(* counters, what a step leaves alone, and that the steps of a client keep *)
(* the invariant: one lemma per action.                                    *)
(***************************************************************************)
EXTENDS Futures, TLAPS

Serving == {"serve", "reply", "signal", "unlock"}
Queued(s) == \E i \in 1 .. Len(queue) : queue[i] = s
Orphan(s) == \E i \in 1 .. Len(orphans) : orphans[i] = s

(* A client holds its future alone; while it sends the call, nobody else   *)
(* knows the slot, and while it tests the state, it has the mutex.         *)
ClientInv ==
  \A c \in Clients :
    /\ pc[c] = "idle" <=> fut[c] = None
    /\ pc[c] = "send" <=> stage[c] # "out"
    /\ fut[c] # None => fut[c] \in live /\ slot[fut[c]].client_state # "Abandoned"
    /\ pc[c] = "send" => /\ slot[fut[c]].state = "Pending"
                         /\ slot[fut[c]].client_state = "Issued"
                         /\ ~Queued(fut[c]) /\ \A w \in Workers : wslot[w] # fut[c]
    /\ pc[c] \in {"test", "block"} => slot[fut[c]].owned = c
    /\ \A d \in Clients : fut[c] = fut[d] /\ fut[c] # None => c = d

(* A worker serves a pending call that no other worker has; it keeps the   *)
(* mutex from before the reply until after it.                             *)
WorkerInv ==
  \A w \in Workers :
    /\ wpc[w] \in Serving <=> wslot[w] # None
    /\ stage[w] # "out" => wpc[w] = "take"
    /\ wslot[w] # None => /\ wslot[w] \in live /\ ~Queued(wslot[w])
                          /\ slot[wslot[w]].state = "Pending" \/ wpc[w] = "unlock"
    /\ wpc[w] \in {"reply", "signal", "unlock"} => slot[wslot[w]].owned = w
    /\ wpc[w] = "signal" => slot[wslot[w]].result \in Replies
    /\ \A v \in Workers : wslot[v] = wslot[w] /\ wslot[v] # None => v = w

(* The queue holds pending calls, each once. *)
QueueInv ==
  \A i \in 1 .. Len(queue) :
    /\ queue[i] \in live /\ slot[queue[i]].state = "Pending"
    /\ \A j \in 1 .. Len(queue) : queue[i] = queue[j] => i = j

(* The GC has each orphan in one place, and none while it takes one. *)
GcInv ==
  /\ gc.unlock \notin live
  /\ gc.phase \in {"take", "check"} => gc.todo = {}
  /\ \A i \in 1 .. Len(orphans) :
       /\ orphans[i] \notin backlog \cup gc.todo
       /\ \A j \in 1 .. Len(orphans) : orphans[i] = orphans[j] => i = j

(* A slot is allocated exactly if a client or the GC has it; an observed   *)
(* call is out of Raft's hands, and a terminal one has its result.         *)
SlotInv ==
  /\ \A s \in Slots : s \in live <=> \/ \E c \in Clients : fut[c] = s
                                     \/ Orphan(s) \/ s \in backlog \cup gc.todo
  /\ \A s \in Slots : Orphan(s) \/ s \in backlog \cup gc.todo =>
                        slot[s].client_state = "Abandoned"
  /\ \A s \in live :
       /\ slot[s].client_state = "Observed" =>
            is_terminal(s) /\ \A w \in Workers : wslot[w] # s
       /\ is_terminal(s) => /\ slot[s].result # "unset"
                            /\ slot[s].state = "Error" <=> slot[s].result # "value"

(* A buffer belongs to one client, or to one abandoned call. *)
BufInv ==
  /\ \A c \in Clients :
       /\ buf[c] # None => buf[c] \in bufs
       /\ \A d \in Clients : buf[c] = buf[d] /\ buf[c] # None => c = d
       /\ fut[c] # None /\ slot[fut[c]].cmd_buf # None =>
            /\ slot[fut[c]].cmd_buf = buf[c]
            /\ got[c] # None => slot[fut[c]].client_state = "Observed"
  /\ \A s \in live : slot[s].client_state = "Abandoned" /\ slot[s].cmd_buf # None =>
       /\ slot[s].cmd_buf \in bufs
       /\ \A c \in Clients : buf[c] # slot[s].cmd_buf
       /\ \A t \in live : slot[t].client_state = "Abandoned"
                            /\ slot[t].cmd_buf = slot[s].cmd_buf => s = t

(* What a client has read is of its future. *)
ReadInv ==
  /\ ResultIsFinal
  /\ \A c \in Clients : fut[c] = None => got[c] = None /\ ~polled[c]

(* The inductive invariant *)
IInv == TypeOK /\ ClientInv /\ WorkerInv /\ QueueInv /\ GcInv /\ SlotInv
          /\ BufInv /\ ReadInv
-----------------------------------------------------------------------------
(* What take() does to a queue, as a sequence *)
LEMMA Taken ==
  ASSUME NEW S, NEW s \in Seq(S), s # <<>>
  PROVE  /\ Tail(s) \in Seq(S) /\ Len(Tail(s)) = Len(s) - 1 /\ Len(s) # 0
         /\ \A n \in 1 .. Len(Tail(s)) : n + 1 \in 1 .. Len(s) /\ Tail(s)[n] = s[n + 1]
         /\ Head(s) = s[1]
OBVIOUS

-----------------------------------------------------------------------------
(* What an assignment to a field of a slot changes *)

(* The fields of s are those given, all other slots are left alone. *)
SlotIs(s, st, cs, res, b, own) ==
  /\ slot' \in [Slots -> Slot]
  /\ \A x \in Slots : x # s => slot'[x] = slot[x]
  /\ slot'[s].state = st /\ slot'[s].client_state = cs /\ slot'[s].result = res
  /\ slot'[s].cmd_buf = b /\ slot'[s].owned = own

(* Only the mutex of a slot changes hands. *)
LEMMA OwnedSet ==
  ASSUME slot \in [Slots -> Slot], NEW s \in Slots,
         NEW v \in Clients \cup Workers \cup {GC, None},
         slot' = [slot EXCEPT ![s].owned = v]
  PROVE  SlotIs(s, slot[s].state, slot[s].client_state, slot[s].result, slot[s].cmd_buf, v)
BY DEF Slot, SlotIs

(* Only its result changes. *)
LEMMA ResultSet ==
  ASSUME slot \in [Slots -> Slot], NEW s \in Slots, NEW v \in Results,
         slot' = [slot EXCEPT ![s].result = v]
  PROVE  SlotIs(s, slot[s].state, slot[s].client_state, v, slot[s].cmd_buf, slot[s].owned)
BY DEF Slot, SlotIs

(* Only its state changes. *)
LEMMA StateSet ==
  ASSUME slot \in [Slots -> Slot], NEW s \in Slots,
         NEW v \in {"Pending", "Success", "Error"},
         slot' = [slot EXCEPT ![s].state = v]
  PROVE  SlotIs(s, v, slot[s].client_state, slot[s].result, slot[s].cmd_buf, slot[s].owned)
BY DEF Slot, SlotIs

(* Only its client_state changes. *)
LEMMA AbandonedSet ==
  ASSUME slot \in [Slots -> Slot], NEW s \in Slots,
         slot' = [slot EXCEPT ![s].client_state = "Abandoned"]
  PROVE  SlotIs(s, slot[s].state, "Abandoned", slot[s].result, slot[s].cmd_buf, slot[s].owned)
BY DEF Slot, SlotIs

(* A refused call gets its result and its state. *)
LEMMA RefusedSet ==
  ASSUME slot \in [Slots -> Slot], NEW s \in Slots,
         slot' = [slot EXCEPT ![s].result = "in_shutdown", ![s].state = "Error"]
  PROVE  SlotIs(s, "Error", slot[s].client_state, "in_shutdown", slot[s].cmd_buf, slot[s].owned)
BY Zenon DEF Slot, SlotIs, Results

(* wait() notes the observation and unlocks. *)
LEMMA ObservedSet ==
  ASSUME slot \in [Slots -> Slot], NEW s \in Slots,
         slot' = [slot EXCEPT ![s].client_state = "Observed", ![s].owned = None]
  PROVE  SlotIs(s, slot[s].state, "Observed", slot[s].result, slot[s].cmd_buf, None)
BY Zenon DEF Slot, SlotIs

(* BaseSlot's constructor *)
LEMMA NewSet ==
  ASSUME slot \in [Slots -> Slot], NEW s \in Slots, NEW b \in Bufs \cup {None},
         slot' = [slot EXCEPT ![s] = NewSlot(b)]
  PROVE  SlotIs(s, "Pending", "Issued", "unset", b, None)
BY DEF Slot, SlotIs, NewSlot, Results

(* The constructor and the refusal in make_error_request *)
LEMMA InvalidSet ==
  ASSUME slot \in [Slots -> Slot], NEW s \in Slots,
         slot' = [slot EXCEPT ![s] = [NewSlot(None) EXCEPT !.result = "invalid_address",
                                                           !.state = "Error"]]
  PROVE  SlotIs(s, "Error", "Issued", "invalid_address", None, None)
BY Zenon DEF Slot, SlotIs, NewSlot, Results

(* What a freed slot is reset to *)
LEMMA FreedSet ==
  ASSUME slot \in [Slots -> Slot], NEW s \in Slots, NEW v \in {GC, None},
         slot' = [slot EXCEPT ![s] = [NewSlot(None) EXCEPT !.owned = v]]
  PROVE  SlotIs(s, "Pending", "Issued", "unset", None, v)
BY DEF Slot, SlotIs, NewSlot, Results

-----------------------------------------------------------------------------
(* What a step is to Calls *)

(* A step of Calls, or none *)
CallStep == [AbstractCalls!Next]_(AbstractCalls!callVars)

(* The answer of a call, as Calls sees it. *)
Answered == [s \in Slots |-> IF s \in live /\ is_terminal(s) THEN slot[s].result ELSE None]

(* A step that allocates or frees no slot, abandons no call and answers    *)
(* none is no step of Calls.                                               *)
LEMMA Stutters ==
  ASSUME live' = live,
         \A s \in Slots : /\ slot'[s].state = slot[s].state
                          /\ slot'[s].client_state = "Abandoned" <=>
                               slot[s].client_state = "Abandoned"
                          /\ is_terminal(s) => slot'[s].result = slot[s].result,
         live \in SUBSET Slots
  PROVE  CallStep
<1>1. Abandoned' = Abandoned
  BY DEF Abandoned
<1>2. Answered' = Answered
  BY DEF Answered, is_terminal
<1> QED
  BY <1>1, <1>2 DEF CallStep, AbstractCalls!callVars, Answered

(* Allocating a slot issues a call, which may be refused at once. *)
LEMMA Issues ==
  ASSUME live \in SUBSET Slots, NEW s \in Slots, s \notin live, live' = live \cup {s},
         NEW st, NEW res, NEW b, SlotIs(s, st, "Issued", res, b, None),
         st = "Pending" \/ (st = "Error" /\ res = "invalid_address")
  PROVE  CallStep
<1>1. Abandoned' = Abandoned /\ (live \ Abandoned)' = (live \ Abandoned) \cup {s}
  BY DEF Abandoned, SlotIs
<1>2. Answered' = [Answered EXCEPT ![s] = IF st = "Error" THEN "invalid_address" ELSE None]
  BY Zenon DEF Answered, is_terminal, SlotIs
<1>3. \E a \in {"in_shutdown", "invalid_address"} \cup {None} :
         Answered' = [Answered EXCEPT ![s] = a]
  BY Zenon, <1>2
<1>4. AbstractCalls!Issue(s)
  BY Zenon, <1>1, <1>3 DEF AbstractCalls!Issue, Answered, Abandoned
<1> QED
  BY <1>4 DEF CallStep, AbstractCalls!Next

(* Storing a terminal state answers a call. *)
LEMMA Answers ==
  ASSUME live \in SUBSET Slots, live' = live, NEW s \in live, slot[s].state = "Pending",
         NEW st \in {"Success", "Error"}, NEW res \in Replies \cup {"in_shutdown"},
         NEW b, NEW own, SlotIs(s, st, slot[s].client_state, res, b, own)
  PROVE  CallStep
<1>1. Abandoned' = Abandoned
  BY DEF Abandoned, SlotIs
<1>2. Answered' = [Answered EXCEPT ![s] = res] /\ Answered[s] = None
  BY DEF Answered, is_terminal, SlotIs
<1>3. \E a \in Replies \cup {"in_shutdown", "invalid_address"} :
         Answered' = [Answered EXCEPT ![s] = a]
  BY Zenon, <1>2
<1>4. AbstractCalls!Answer(s)
  BY Zenon, <1>1, <1>2, <1>3 DEF AbstractCalls!Answer, Answered, Abandoned
<1> QED
  BY <1>4 DEF CallStep, AbstractCalls!Next

(* dispose() of a call that was not waited for abandons it. *)
LEMMA Abandons ==
  ASSUME live \in SUBSET Slots, live' = live, NEW s \in live,
         slot[s].client_state = "Issued", NEW b, NEW own,
         SlotIs(s, slot[s].state, "Abandoned", slot[s].result, b, own)
  PROVE  CallStep
<1>1. Abandoned' = Abandoned \cup {s} /\ s \in live \ Abandoned
  BY DEF Abandoned, SlotIs
<1>2. Answered' = Answered
  BY DEF Answered, is_terminal, SlotIs
<1>3. AbstractCalls!Abandon(s)
  BY <1>1, <1>2 DEF AbstractCalls!Abandon, Answered
<1> QED
  BY <1>3 DEF CallStep, AbstractCalls!Next

(* Freeing the slot of a completed call disposes of it or collects it. *)
LEMMA Frees ==
  ASSUME live \in SUBSET Slots, slot \in [Slots -> Slot], NEW s \in live,
         live' = live \ {s}, is_terminal(s), NEW own,
         SlotIs(s, "Pending", "Issued", "unset", None, own)
  PROVE  CallStep
<1>1. Answered' = [Answered EXCEPT ![s] = None]
  BY Zenon DEF Answered, is_terminal, SlotIs
<1>2. Answered[s] # None
  BY FuturesAssumption DEF Answered, Slot, Results, Replies
<1>3. CASE s \in Abandoned
  <2>1. Abandoned' = Abandoned \ {s} /\ (live \ Abandoned)' = live \ Abandoned
    BY <1>3 DEF Abandoned, SlotIs
  <2>2. AbstractCalls!Collect(s)
    BY <1>1, <1>2, <1>3, <2>1 DEF AbstractCalls!Collect, Answered
  <2> QED
    BY <2>2 DEF CallStep, AbstractCalls!Next
<1>4. CASE s \notin Abandoned
  <2>1. Abandoned' = Abandoned /\ (live \ Abandoned)' = (live \ Abandoned) \ {s}
    BY <1>4 DEF Abandoned, SlotIs
  <2>2. AbstractCalls!Dispose(s)
    BY <1>1, <1>2, <1>4, <2>1 DEF AbstractCalls!Dispose, Answered
  <2> QED
    BY <2>2 DEF CallStep, AbstractCalls!Next
<1> QED
  BY <1>3, <1>4

-----------------------------------------------------------------------------
(* What a step is to the counters *)

(* A counter counts the one element that is added or removed. *)
Counted(S, n, T, m) == \/ T = S /\ m = n
                       \/ \E x : x \notin S /\ T = S \cup {x} /\ m = n + 1
                       \/ \E x \in S : T = S \ {x} /\ m = n - 1

CountStep == Counted(live, calls, live', calls') /\ Counted(bufs, buffers, bufs', buffers')

-----------------------------------------------------------------------------
(* What a step does not touch *)

(* No field of a slot but its mutex changes. *)
SameFields ==
  \A s \in Slots : /\ slot'[s].state = slot[s].state
                   /\ slot'[s].client_state = slot[s].client_state
                   /\ slot'[s].result = slot[s].result
                   /\ slot'[s].cmd_buf = slot[s].cmd_buf

(* Each part of the invariant depends on these variables and fields only. *)
LEMMA Frames ==
  ASSUME IInv
  PROVE  /\ UNCHANGED <<pc, fut, stage, live, slot, queue, wslot>> => ClientInv'
         /\ UNCHANGED <<wpc, wslot, stage, live, slot, queue>> => WorkerInv'
         /\ UNCHANGED <<queue, live>> /\ SameFields => QueueInv'
         /\ UNCHANGED <<gc, live, orphans, backlog>> => GcInv'
         /\ UNCHANGED <<live, fut, orphans, backlog, gc, wslot>> /\ SameFields => SlotInv'
         /\ UNCHANGED <<buf, bufs, fut, got, live>> /\ SameFields => BufInv'
         /\ UNCHANGED <<polled, fut, got>> /\ SameFields => ReadInv'
         /\ UNCHANGED <<calls, live, buffers, bufs>> => CountStep
<1>1. UNCHANGED <<pc, fut, stage, live, slot, queue, wslot>> => ClientInv'
  BY DEF IInv, ClientInv, Queued
<1>2. UNCHANGED <<wpc, wslot, stage, live, slot, queue>> => WorkerInv'
  BY DEF IInv, WorkerInv, Queued
<1>3. UNCHANGED <<queue, live>> /\ SameFields => QueueInv'
  BY DEF IInv, QueueInv, SameFields, TypeOK
<1>4. UNCHANGED <<gc, live, orphans, backlog>> => GcInv'
  BY DEF IInv, GcInv
<1>5. UNCHANGED <<live, fut, orphans, backlog, gc, wslot>> /\ SameFields => SlotInv'
  BY DEF IInv, SlotInv, Orphan, is_terminal, SameFields, TypeOK
<1>6. UNCHANGED <<buf, bufs, fut, got, live>> /\ SameFields => BufInv'
  BY DEF IInv, BufInv, SameFields, TypeOK
<1>7. UNCHANGED <<polled, fut, got>> /\ SameFields => ReadInv'
  BY DEF IInv, ReadInv, ResultIsFinal, is_terminal, SameFields, TypeOK
<1>8. UNCHANGED <<calls, live, buffers, bufs>> => CountStep
  BY Zenon DEF CountStep, Counted
<1> QED
  BY <1>1, <1>2, <1>3, <1>4, <1>5, <1>6, <1>7, <1>8
-----------------------------------------------------------------------------
(* The steps that read a slot and leave it alone *)

(* A terminal state is seen only with its result. *)
LEMMA GetReplyKeeps ==
  ASSUME IInv, NEW c \in Clients, GetReply(c)
  PROVE  IInv' /\ CallStep /\ CountStep
<1>1. /\ pc[c] = "ready"
      /\ slot[fut[c]].cmd_buf = None \/ slot[fut[c]].client_state = "Observed"
      /\ \/ is_terminal(fut[c]) /\ got' = [got EXCEPT ![c] = slot[fut[c]].result] /\ UNCHANGED pc
         \/ pc' = [pc EXCEPT ![c] = "lock"] /\ UNCHANGED got
      /\ UNCHANGED <<live, slot, calls, bufs, buffers, fut, buf, polled, wpc, wslot,
                     orphans, backlog, gc, queue, closed, stage>>
  BY DEF GetReply, heap, bufHeap, client, worker, collector, api
<1>2. fut[c] \in Slots /\ fut[c] \in live
  BY <1>1 DEF IInv, TypeOK, ClientInv
<1>3. TypeOK'
  <2>1. got' \in [Clients -> Results \cup {"zero", None}]
    BY <1>1, <1>2 DEF IInv, TypeOK, Slot, Results, Replies
  <2> QED
    BY Zenon, <1>1, <2>1 DEF IInv, TypeOK, ApiQueue!TypeOK
<1>4. ClientInv'
  BY SMTT(30), <1>1, <1>2, FuturesAssumption DEF IInv, TypeOK, ClientInv, Queued
<1>5. BufInv'
  <2>1. fut[c] = None \/ slot[fut[c]].cmd_buf = None \/ slot[fut[c]].client_state = "Observed"
    BY <1>1
  <2>2. \A d \in Clients : d # c => got'[d] = got[d]
    BY Zenon, <1>1 DEF IInv, TypeOK
  <2> QED
    BY Zenon, <1>1, <2>1, <2>2 DEF IInv, BufInv
<1>6. ReadInv'
  <2>1. CASE is_terminal(fut[c]) /\ got' = [got EXCEPT ![c] = slot[fut[c]].result]
    <3>1. /\ got'[c] = slot[fut[c]].result
          /\ \A d \in Clients : d # c => got'[d] = got[d]
      BY <2>1 DEF IInv, TypeOK
    <3>2. /\ slot[fut[c]].result # "unset"
          /\ slot[fut[c]].state = "Error" <=> slot[fut[c]].result # "value"
      BY Zenon, <1>2, <2>1 DEF IInv, SlotInv
    <3>3. ResultIsFinal'
      BY SMTT(30), <1>1, <2>1, <3>1, <3>2 DEF IInv, ReadInv, ResultIsFinal, is_terminal, Slot
    <3> QED
      BY <1>1, <1>2, <3>1, <3>3, FuturesAssumption DEF IInv, ReadInv
  <2>2. CASE UNCHANGED got
    BY Zenon, <1>1, <2>2, Frames DEF SameFields
  <2> QED
    BY Zenon, <1>1, <2>1, <2>2
<1>7. CallStep
  BY Zenon, <1>1, <1>2, Stutters DEF IInv, TypeOK
<1> QED
  BY Zenon, <1>1, <1>2, <1>3, <1>4, <1>5, <1>6, <1>7, Frames DEF IInv, SameFields

(* The same, for calls without a command. *)
LEMMA GetKeeps ==
  ASSUME IInv, NEW c \in Clients, Get(c)
  PROVE  IInv' /\ CallStep /\ CountStep
<1>1. /\ pc[c] = "ready"
      /\ slot[fut[c]].cmd_buf = None
      /\ \/ is_terminal(fut[c]) /\ got' = [got EXCEPT ![c] = IF slot[fut[c]].result = "value"
                                                       THEN "value" ELSE "zero"] /\ UNCHANGED pc
         \/ pc' = [pc EXCEPT ![c] = "lock"] /\ UNCHANGED got
      /\ UNCHANGED <<live, slot, calls, bufs, buffers, fut, buf, polled, wpc, wslot,
                     orphans, backlog, gc, queue, closed, stage>>
  BY Zenon DEF Get, IsApply, heap, bufHeap, client, worker, collector, api
<1>2. fut[c] \in Slots /\ fut[c] \in live
  BY <1>1 DEF IInv, TypeOK, ClientInv
<1>3. TypeOK'
  <2>1. got' \in [Clients -> Results \cup {"zero", None}]
    BY ZenonT(30), <1>1, <1>2 DEF IInv, TypeOK, Slot, Results, Replies
  <2> QED
    BY Zenon, <1>1, <2>1 DEF IInv, TypeOK, ApiQueue!TypeOK
<1>4. ClientInv'
  BY <1>1, <1>2, FuturesAssumption DEF IInv, TypeOK, ClientInv, Queued
<1>5. BufInv'
  <2>1. fut[c] = None \/ slot[fut[c]].cmd_buf = None \/ slot[fut[c]].client_state = "Observed"
    BY <1>1
  <2>2. \A d \in Clients : d # c => got'[d] = got[d]
    BY Zenon, <1>1 DEF IInv, TypeOK
  <2> QED
    BY <1>1, <2>1, <2>2 DEF IInv, BufInv
<1>6. ReadInv'
  <2>1. CASE is_terminal(fut[c]) /\ got' = [got EXCEPT ![c] = IF slot[fut[c]].result = "value"
                                          THEN "value" ELSE "zero"]
    <3>1. /\ got'[c] = IF slot[fut[c]].result = "value"
                       THEN "value" ELSE "zero"
          /\ \A d \in Clients : d # c => got'[d] = got[d]
      BY <2>1 DEF IInv, TypeOK
    <3>2. /\ slot[fut[c]].result # "unset"
          /\ slot[fut[c]].state = "Error" <=> slot[fut[c]].result # "value"
      BY Zenon, <1>2, <2>1 DEF IInv, SlotInv
    <3>3. ResultIsFinal'
      BY SMTT(30), <1>1, <2>1, <3>1, <3>2 DEF IInv, ReadInv, ResultIsFinal, is_terminal, Slot
    <3> QED
      BY <1>1, <1>2, <3>1, <3>3, FuturesAssumption DEF IInv, ReadInv
  <2>2. CASE UNCHANGED got
    BY <1>1, <2>2, Frames DEF SameFields
  <2> QED
    BY <1>1, <2>1, <2>2
<1>7. CallStep
  BY Zenon, <1>1, <1>2, Stutters DEF IInv, TypeOK
<1> QED
  BY SMTT(30), <1>1, <1>2, <1>3, <1>4, <1>5, <1>6, <1>7, Frames DEF IInv, SameFields

(* A terminal state is never taken back. *)
LEMMA PollKeeps ==
  ASSUME IInv, NEW c \in Clients, Poll(c)
  PROVE  IInv' /\ CallStep /\ CountStep
<1>1. /\ pc[c] = "ready"
      /\ \E p \in BOOLEAN : (p => is_terminal(fut[c])) /\ polled' = [polled EXCEPT ![c] = p]
      /\ UNCHANGED <<live, slot, calls, bufs, buffers, pc, fut, buf, got, wpc, wslot,
                     orphans, backlog, gc, queue, closed, stage>>
  BY Zenon DEF Poll, heap, bufHeap, client, worker, collector, api
<1>2. polled' \in [Clients -> BOOLEAN] /\ (\A d \in Clients : d # c => polled'[d] = polled[d])
  BY <1>1, Zenon DEF IInv, TypeOK
<1>3. polled'[c] => is_terminal(fut[c])
  BY <1>1, Zenon DEF IInv, TypeOK
<1>4. TypeOK'
  BY SMTT(30), <1>1, <1>2, <1>3, FuturesAssumption
     DEF IInv, TypeOK, ApiQueue!TypeOK, ApiQueue!Callers, ApiQueue!Stages
<1>5. ReadInv'
  <2>1. \A d \in Clients : polled'[d] => is_terminal(fut[d])
    BY Zenon, <1>2, <1>3 DEF IInv, ReadInv, ResultIsFinal
  <2>2. fut[c] # None
    BY SMTT(30), <1>1 DEF IInv, ClientInv
  <2>3. ResultIsFinal'
    BY Zenon, <1>1, <2>1 DEF IInv, ReadInv, ResultIsFinal, is_terminal
  <2> QED
    BY ZenonT(30), <1>1, <1>2, <2>2, <2>3 DEF IInv, ReadInv
<1>6. CallStep
  BY Zenon, <1>1, <1>2, <1>3, Stutters DEF IInv, TypeOK
<1> QED
  BY <1>1, <1>2, <1>3, <1>4, <1>5, <1>6, Frames DEF IInv, SameFields

(* The same, when the lock may time out. *)
LEMMA WaitForKeeps ==
  ASSUME IInv, NEW c \in Clients, WaitFor(c)
  PROVE  IInv' /\ CallStep /\ CountStep
<1>1. /\ pc[c] = "ready"
      /\ \/ polled' = [polled EXCEPT ![c] = is_terminal(fut[c])]
         \/ polled' = [polled EXCEPT ![c] = FALSE]
      /\ UNCHANGED <<live, slot, calls, bufs, buffers, pc, fut, buf, got, wpc, wslot,
                     orphans, backlog, gc, queue, closed, stage>>
  BY Zenon DEF WaitFor, heap, bufHeap, client, worker, collector, api
<1>2. polled' \in [Clients -> BOOLEAN] /\ (\A d \in Clients : d # c => polled'[d] = polled[d])
  <2>1. is_terminal(fut[c]) \in BOOLEAN
    BY DEF is_terminal
  <2>2. CASE polled' = [polled EXCEPT ![c] = is_terminal(fut[c])]
    BY <2>1, <2>2, Zenon DEF IInv, TypeOK
  <2>3. CASE polled' = [polled EXCEPT ![c] = FALSE]
    BY <2>3 DEF IInv, TypeOK
  <2> QED
    BY <1>1, <2>2, <2>3
<1>3. polled'[c] => is_terminal(fut[c])
  BY <1>1, Zenon DEF IInv, TypeOK, is_terminal
<1>4. TypeOK'
  BY SMTT(30), <1>1, <1>2, <1>3, FuturesAssumption
     DEF IInv, TypeOK, ApiQueue!TypeOK, ApiQueue!Callers, ApiQueue!Stages
<1>5. ReadInv'
  <2>1. \A d \in Clients : polled'[d] => is_terminal(fut[d])
    BY <1>2, <1>3 DEF IInv, ReadInv, ResultIsFinal
  <2>2. fut[c] # None
    BY Zenon, <1>1 DEF IInv, ClientInv
  <2>3. ResultIsFinal'
    BY Zenon, <1>1, <2>1 DEF IInv, ReadInv, ResultIsFinal, is_terminal
  <2> QED
    BY ZenonT(30), <1>1, <1>2, <2>2, <2>3 DEF IInv, ReadInv
<1>6. CallStep
  BY <1>1, <1>2, <1>3, Stutters DEF IInv, TypeOK
<1> QED
  BY Zenon, <1>1, <1>2, <1>3, <1>4, <1>5, <1>6, Frames DEF IInv, SameFields

-----------------------------------------------------------------------------
(* The steps of a client that change a slot, a buffer or where it is *)

(* The new buffer was not allocated, so nobody else has it. *)
LEMMA AllocBufKeeps ==
  ASSUME IInv, NEW c \in Clients, AllocBuf(c)
  PROVE  IInv' /\ CallStep /\ CountStep
<1>1. PICK b \in Bufs \ bufs : bufs' = bufs \cup {b} /\ buf' = [buf EXCEPT ![c] = b]
  BY Zenon DEF AllocBuf
<1>2. pc[c] = "idle" /\ buf[c] = None /\ buffers' = buffers + 1
      /\ UNCHANGED <<live, slot, calls, pc, fut, got, polled, wpc, wslot, orphans,
                     backlog, gc, queue, closed, stage>>
  BY DEF AllocBuf, heap, bufHeap, client, worker, collector, api
<1>3. TypeOK'
  BY <1>1, <1>2, FuturesAssumption
     DEF IInv, TypeOK, ApiQueue!TypeOK, ApiQueue!Callers, ApiQueue!Stages
<1>4. BufInv'
  BY <1>1, <1>2, FuturesAssumption DEF IInv, TypeOK, BufInv, ClientInv
<1>5. CountStep
  BY Zenon, <1>1, <1>2 DEF CountStep, Counted
<1>6. CallStep
  BY <1>1, <1>2, Stutters DEF IInv, TypeOK
<1> QED
  BY <1>1, <1>2, <1>3, <1>4, <1>5, <1>6, Frames DEF IInv, SameFields

(* An idle client's buffer belongs to no call. *)
LEMMA FreeBufKeeps ==
  ASSUME IInv, NEW c \in Clients, FreeBuf(c)
  PROVE  IInv' /\ CallStep /\ CountStep
<1>1. /\ pc[c] = "idle" /\ buf[c] # None
      /\ bufs' = bufs \ {buf[c]} /\ buffers' = buffers - 1
      /\ buf' = [buf EXCEPT ![c] = None]
      /\ UNCHANGED <<live, slot, calls, pc, fut, got, polled, wpc, wslot, orphans,
                     backlog, gc, queue, closed, stage>>
  BY DEF FreeBuf, heap, bufHeap, client, worker, collector, api
<1>2. buf[c] \in bufs
  BY <1>1 DEF IInv, BufInv
<1>3. TypeOK'
  BY <1>1, <1>2, FuturesAssumption
     DEF IInv, TypeOK, ApiQueue!TypeOK, ApiQueue!Callers, ApiQueue!Stages
<1>4. BufInv'
  BY <1>1, <1>2, FuturesAssumption DEF IInv, TypeOK, BufInv, ClientInv
<1>5. CountStep
  BY Zenon, <1>1, <1>2 DEF CountStep, Counted
<1>6. CallStep
  BY SMTT(30), <1>1, <1>2, Stutters DEF IInv, TypeOK
<1> QED
  BY <1>1, <1>2, <1>3, <1>4, <1>5, <1>6, Frames DEF IInv, SameFields

(* The new slot was free, so nobody refers to it. *)
LEMMA SendKeeps ==
  ASSUME IInv, ReuseBeforeUnlock = FALSE, NEW c \in Clients, Send(c)
  PROVE  IInv' /\ CallStep /\ CountStep
<1>1. PICK s \in Slots, b \in {buf[c], None} :
        /\ s \notin live /\ s # gc.unlock /\ live' = live \cup {s}
        /\ slot' = [slot EXCEPT ![s] = NewSlot(b)] /\ calls' = calls + 1
        /\ fut' = [fut EXCEPT ![c] = s]
  BY Zenon DEF Send, Alloc
<1>2. pc[c] = "idle" /\ pc' = [pc EXCEPT ![c] = "send"] /\ stage' = [stage EXCEPT ![c] = "called"]
      /\ UNCHANGED <<bufs, buffers, buf, got, polled, wpc, wslot, orphans, backlog, gc,
                     queue, closed>>
  BY DEF Send, ApiQueue!CallPut, heap, bufHeap, client, worker, collector, api
<1>3. SlotIs(s, "Pending", "Issued", "unset", b, None)
  BY Zenon, <1>1, NewSet DEF IInv, TypeOK
<1>4. TypeOK'
  BY <1>1, <1>2, <1>3, FuturesAssumption
     DEF IInv, TypeOK, ApiQueue!TypeOK, ApiQueue!Callers, ApiQueue!Stages, SlotIs
<1>5. ClientInv'
  <2>1. /\ fut'[c] = s /\ pc'[c] = "send" /\ stage'[c] = "called"
        /\ \A d \in Clients : d # c => fut'[d] = fut[d] /\ pc'[d] = pc[d] /\ stage'[d] = stage[d]
    BY <1>1, <1>2 DEF IInv, TypeOK, ApiQueue!TypeOK, ApiQueue!Callers
  <2>2. /\ ~Queued(s) /\ \A w \in Workers : wslot[w] # s
        /\ \A d \in Clients : fut[d] # s
    <3>1. ~Queued(s)
      BY <1>1 DEF IInv, QueueInv, Queued
    <3>2. \A w \in Workers : wslot[w] # s
      BY <1>1, FuturesAssumption DEF IInv, WorkerInv
    <3>3. \A d \in Clients : fut[d] # s
      BY <1>1, FuturesAssumption DEF IInv, ClientInv
    <3> QED
      BY <3>1, <3>2, <3>3
  <2> QED
    BY <1>1, <1>2, <1>3, <2>1, <2>2, FuturesAssumption
       DEF IInv, TypeOK, ClientInv, Queued, SlotIs
<1>6. WorkerInv'
  BY <1>1, <1>2, <1>3, FuturesAssumption
     DEF IInv, TypeOK, WorkerInv, Queued, Serving, SlotIs, QueueInv
<1>7. QueueInv'
  BY <1>1, <1>2, <1>3, FuturesAssumption DEF IInv, TypeOK, QueueInv, SlotIs
<1>8. GcInv'
  BY <1>1, <1>2, <1>3, FuturesAssumption DEF IInv, TypeOK, GcInv, SlotIs, SlotInv, Orphan
<1>9. SlotInv'
  <2>1. \A x \in Slots : x \in live' <=> \/ \E d \in Clients : fut'[d] = x
                                          \/ Orphan(x)' \/ x \in (backlog \cup gc.todo)'
    BY <1>1, <1>2, <1>3, FuturesAssumption
       DEF IInv, TypeOK, SlotInv, ClientInv, Orphan, GcInv
  <2>2. \A x \in Slots : Orphan(x)' \/ x \in (backlog \cup gc.todo)' =>
                            slot'[x].client_state = "Abandoned"
    BY <1>1, <1>2, <1>3, FuturesAssumption
       DEF IInv, TypeOK, SlotInv, ClientInv, Orphan, SlotIs
  <2>3. \A x \in live' :
          /\ slot'[x].client_state = "Observed" =>
               is_terminal(x)' /\ \A w \in Workers : wslot'[w] # x
          /\ is_terminal(x)' => /\ slot'[x].result # "unset"
                                /\ slot'[x].state = "Error" <=> slot'[x].result # "value"
    BY <1>1, <1>2, <1>3, FuturesAssumption
       DEF IInv, TypeOK, SlotInv, ClientInv, is_terminal, SlotIs
  <2> QED
    BY <2>1, <2>2, <2>3 DEF SlotInv
<1>10. BufInv'
  BY <1>1, <1>2, <1>3, FuturesAssumption
     DEF IInv, TypeOK, BufInv, SlotIs, ClientInv, SlotInv, ReadInv
<1>11. ReadInv'
  BY <1>1, <1>2, <1>3, FuturesAssumption
     DEF IInv, TypeOK, ReadInv, ResultIsFinal, is_terminal, SlotIs, ClientInv
<1>12. CountStep
  BY Zenon, <1>1, <1>2 DEF CountStep, Counted
<1>13. CallStep
  BY <1>1, <1>3, Issues DEF IInv, TypeOK
<1> QED
  BY Zenon, <1>1, <1>2, <1>3, <1>4, <1>5, <1>6, <1>7, <1>8, <1>9, <1>10, <1>11, <1>12, <1>13,
     Frames DEF IInv, SameFields, SlotIs, TypeOK

(* The same, for a call that is refused as it is made. *)
LEMMA SendInvalidKeeps ==
  ASSUME IInv, ReuseBeforeUnlock = FALSE, NEW c \in Clients, SendInvalid(c)
  PROVE  IInv' /\ CallStep /\ CountStep
<1>1. PICK s \in Slots :
        /\ s \notin live /\ s # gc.unlock /\ live' = live \cup {s}
        /\ slot' = [slot EXCEPT ![s] = [NewSlot(None) EXCEPT !.result = "invalid_address",
                                                             !.state = "Error"]]
        /\ calls' = calls + 1 /\ fut' = [fut EXCEPT ![c] = s]
  BY Zenon DEF SendInvalid, Alloc
<1>2. pc[c] = "idle" /\ pc' = [pc EXCEPT ![c] = "ready"]
      /\ UNCHANGED <<bufs, buffers, buf, got, polled, wpc, wslot, orphans, backlog, gc,
                     queue, closed, stage>>
  BY DEF SendInvalid, heap, bufHeap, client, worker, collector, api
<1>3. SlotIs(s, "Error", "Issued", "invalid_address", None, None)
  BY Zenon, <1>1, InvalidSet DEF IInv, TypeOK
<1>4. TypeOK'
  BY <1>1, <1>2, <1>3, FuturesAssumption
     DEF IInv, TypeOK, ApiQueue!TypeOK, ApiQueue!Callers, ApiQueue!Stages, SlotIs
<1>5. ClientInv'
  BY <1>1, <1>2, <1>3, FuturesAssumption
     DEF IInv, TypeOK, ClientInv, Queued, SlotIs, WorkerInv, QueueInv, SlotInv
<1>6. WorkerInv'
  BY <1>1, <1>2, <1>3, FuturesAssumption
     DEF IInv, TypeOK, WorkerInv, Queued, Serving, SlotIs, QueueInv
<1>7. QueueInv'
  BY <1>1, <1>2, <1>3, FuturesAssumption DEF IInv, TypeOK, QueueInv, SlotIs
<1>8. GcInv'
  BY <1>1, <1>2, <1>3, FuturesAssumption DEF IInv, TypeOK, GcInv, SlotIs, SlotInv, Orphan
<1>9. SlotInv'
  <2>1. \A x \in Slots : x \in live' <=> \/ \E d \in Clients : fut'[d] = x
                                          \/ Orphan(x)' \/ x \in (backlog \cup gc.todo)'
    BY <1>1, <1>2, <1>3, FuturesAssumption
       DEF IInv, TypeOK, SlotInv, ClientInv, Orphan, GcInv
  <2>2. \A x \in Slots : Orphan(x)' \/ x \in (backlog \cup gc.todo)' =>
                            slot'[x].client_state = "Abandoned"
    BY <1>1, <1>2, <1>3, FuturesAssumption
       DEF IInv, TypeOK, SlotInv, ClientInv, Orphan, SlotIs
  <2>3. \A x \in live' :
          /\ slot'[x].client_state = "Observed" =>
               is_terminal(x)' /\ \A w \in Workers : wslot'[w] # x
          /\ is_terminal(x)' => /\ slot'[x].result # "unset"
                                /\ slot'[x].state = "Error" <=> slot'[x].result # "value"
    BY <1>1, <1>2, <1>3, FuturesAssumption
       DEF IInv, TypeOK, SlotInv, ClientInv, is_terminal, SlotIs
  <2> QED
    BY Zenon, <2>1, <2>2, <2>3 DEF SlotInv
<1>10. BufInv'
  BY <1>1, <1>2, <1>3, FuturesAssumption
     DEF IInv, TypeOK, BufInv, SlotIs, ClientInv, SlotInv
<1>11. ReadInv'
  BY <1>1, <1>2, <1>3, FuturesAssumption
     DEF IInv, TypeOK, ReadInv, ResultIsFinal, is_terminal, SlotIs, ClientInv
<1>12. CountStep
  BY Zenon, <1>1, <1>2 DEF CountStep, Counted
<1>13. CallStep
  BY <1>1, <1>3, Issues DEF IInv, TypeOK
<1> QED
  BY <1>1, <1>2, <1>3, <1>4, <1>5, <1>6, <1>7, <1>8, <1>9, <1>10, <1>11, <1>12, <1>13,
     Frames DEF IInv, SameFields, SlotIs, TypeOK

(* Only the stage of put() moves. *)
LEMMA SendEnterKeeps ==
  ASSUME IInv, NEW c \in Clients, SendEnter(c)
  PROVE  IInv' /\ CallStep /\ CountStep
<1>1. /\ pc[c] = "send"
      /\ stage' = [stage EXCEPT ![c] = "in"]
      /\ UNCHANGED <<live, slot, calls, bufs, buffers, pc, fut, buf, got, polled, wpc,
                     wslot, orphans, backlog, gc, queue, closed>>
  BY DEF SendEnter, ApiQueue!Enter, heap, bufHeap, client, worker, collector, api
<1>2. TypeOK'
  BY <1>1, FuturesAssumption
     DEF IInv, TypeOK, ApiQueue!TypeOK, ApiQueue!Callers, ApiQueue!Stages
<1>3. ClientInv'
  BY <1>1, FuturesAssumption DEF IInv, TypeOK, ClientInv, Queued
<1>4. WorkerInv'
  BY <1>1, FuturesAssumption DEF IInv, TypeOK, WorkerInv, Queued, Serving
<1>5. CallStep
  BY <1>1, Stutters DEF IInv, TypeOK
<1> QED
  BY <1>1, <1>2, <1>3, <1>4, <1>5, Frames DEF IInv, SameFields

(* The slot enters the queue for the first time. *)
LEMMA SendPutKeeps ==
  ASSUME IInv, NEW c \in Clients, SendPut(c)
  PROVE  IInv' /\ CallStep /\ CountStep
<1>1. /\ pc[c] = "send"
      /\ queue' = Append(queue, fut[c]) /\ Len(queue) < Capacity
      /\ stage' = [stage EXCEPT ![c] = "out"]
      /\ pc' = [pc EXCEPT ![c] = "ready"]
      /\ UNCHANGED <<live, slot, calls, bufs, buffers, fut, buf, got, polled, wpc, wslot,
                     orphans, backlog, gc, closed>>
  BY Zenon DEF SendPut, ApiQueue!Put, heap, bufHeap, client, worker, collector, api
<1>2. fut[c] \in Slots /\ fut[c] \in live
  BY <1>1 DEF IInv, TypeOK, ClientInv
<1>3. TypeOK'
  BY <1>1, <1>2, FuturesAssumption
     DEF IInv, TypeOK, ApiQueue!TypeOK, ApiQueue!Callers, ApiQueue!Stages
<1>4. ClientInv'
  BY <1>1, <1>2, FuturesAssumption
     DEF IInv, TypeOK, ClientInv, Queued, ApiQueue!TypeOK, ApiQueue!Callers
<1>5. WorkerInv'
  BY <1>1, <1>2, FuturesAssumption DEF IInv, TypeOK, WorkerInv, Queued, Serving, ClientInv
<1>6. QueueInv'
  BY <1>1, <1>2, FuturesAssumption DEF IInv, TypeOK, QueueInv, ClientInv, Queued
<1>7. CallStep
  BY <1>1, <1>2, Stutters DEF IInv, TypeOK
<1> QED
  BY Zenon, <1>1, <1>2, <1>3, <1>4, <1>5, <1>6, <1>7, Frames DEF IInv, SameFields

(* Nobody but the client knows the slot it completes. *)
LEMMA SendRefusedKeeps ==
  ASSUME IInv, NEW c \in Clients, SendRefused(c)
  PROVE  IInv' /\ CallStep /\ CountStep
<1>1. /\ pc[c] = "send"
      /\ slot' = [slot EXCEPT ![fut[c]].result = "in_shutdown", ![fut[c]].state = "Error"]
      /\ stage' = [stage EXCEPT ![c] = "out"]
      /\ pc' = [pc EXCEPT ![c] = "ready"]
      /\ UNCHANGED <<live, calls, bufs, buffers, fut, buf, got, polled, wpc, wslot,
                     orphans, backlog, gc, queue, closed>>
  BY DEF SendRefused, ApiQueue!Refuse, heap, bufHeap, client, worker, collector, api
<1>2. fut[c] \in Slots /\ fut[c] \in live
  BY SMTT(30), <1>1 DEF IInv, TypeOK, ClientInv
<1>3. SlotIs(fut[c], "Error", slot[fut[c]].client_state, "in_shutdown",
             slot[fut[c]].cmd_buf, slot[fut[c]].owned)
  BY Zenon, <1>1, <1>2, RefusedSet DEF IInv, TypeOK
<1>4. TypeOK'
  BY <1>1, <1>2, <1>3, FuturesAssumption
     DEF IInv, TypeOK, ApiQueue!TypeOK, ApiQueue!Callers, ApiQueue!Stages, SlotIs
<1>5. ClientInv'
  BY SMTT(30), <1>1, <1>2, <1>3, FuturesAssumption
     DEF IInv, TypeOK, ClientInv, Queued, SlotIs, ApiQueue!TypeOK, ApiQueue!Callers
<1>6. WorkerInv'
  BY <1>1, <1>2, <1>3, FuturesAssumption
     DEF IInv, TypeOK, WorkerInv, Queued, Serving, SlotIs, ClientInv
<1>7. QueueInv'
  BY <1>1, <1>2, <1>3, FuturesAssumption
     DEF IInv, TypeOK, QueueInv, SlotIs, ClientInv, Queued
<1>8. SlotInv'
  <2>1. \A x \in live' :
          /\ slot'[x].client_state = "Observed" =>
               is_terminal(x)' /\ \A w \in Workers : wslot'[w] # x
          /\ is_terminal(x)' => /\ slot'[x].result # "unset"
                                /\ slot'[x].state = "Error" <=> slot'[x].result # "value"
    BY <1>1, <1>2, <1>3 DEF IInv, TypeOK, SlotInv, ClientInv, is_terminal, SlotIs
  <2>2. \A x \in Slots : slot'[x].client_state = slot[x].client_state
    BY <1>3 DEF SlotIs
  <2> QED
    BY Zenon, <1>1, <2>1, <2>2 DEF IInv, SlotInv, Orphan
<1>9. BufInv'
  BY <1>1, <1>2, <1>3, FuturesAssumption DEF IInv, TypeOK, BufInv, SlotIs
<1>10. ReadInv'
  BY <1>1, <1>2, <1>3, FuturesAssumption
     DEF IInv, TypeOK, ReadInv, ResultIsFinal, is_terminal, SlotIs, ClientInv
<1>11. CallStep
  BY Zenon, <1>1, <1>2, <1>3, Answers DEF IInv, TypeOK, ClientInv
<1> QED
  BY Zenon, <1>1, <1>2, <1>3, <1>4, <1>5, <1>6, <1>7, <1>8, <1>9, <1>10, <1>11, Frames
     DEF IInv, SameFields, SlotIs, TypeOK

(* Only the client's control moves. *)
LEMMA WaitKeeps ==
  ASSUME IInv, NEW c \in Clients, Wait(c)
  PROVE  IInv' /\ CallStep /\ CountStep
<1>1. /\ pc[c] = "ready"
      /\ pc' = [pc EXCEPT ![c] = "lock"]
      /\ UNCHANGED <<live, slot, calls, bufs, buffers, fut, buf, got, polled, wpc, wslot,
                     orphans, backlog, gc, queue, closed, stage>>
  BY DEF Wait, heap, bufHeap, client, worker, collector, api
<1>2. TypeOK'
  BY <1>1, FuturesAssumption
     DEF IInv, TypeOK, ApiQueue!TypeOK, ApiQueue!Callers, ApiQueue!Stages
<1>3. ClientInv'
  BY <1>1, FuturesAssumption DEF IInv, TypeOK, ClientInv, Queued
<1>4. CallStep
  BY <1>1, Stutters DEF IInv, TypeOK
<1> QED
  BY <1>1, <1>2, <1>3, <1>4, Frames DEF IInv, SameFields

(* The mutex was free, so no worker is in the middle of a reply. *)
LEMMA WaitLockKeeps ==
  ASSUME IInv, NEW c \in Clients, WaitLock(c)
  PROVE  IInv' /\ CallStep /\ CountStep
<1>1. /\ pc[c] = "lock"
      /\ slot[fut[c]].owned = None
      /\ slot' = [slot EXCEPT ![fut[c]].owned = c]
      /\ pc' = [pc EXCEPT ![c] = "test"]
      /\ UNCHANGED <<live, calls, bufs, buffers, fut, buf, got, polled, wpc, wslot,
                     orphans, backlog, gc, queue, closed, stage>>
  BY DEF WaitLock, heap, bufHeap, client, worker, collector, api
<1>2. fut[c] \in Slots /\ fut[c] \in live
  BY <1>1 DEF IInv, TypeOK, ClientInv
<1>3. SlotIs(fut[c], slot[fut[c]].state, slot[fut[c]].client_state, slot[fut[c]].result,
             slot[fut[c]].cmd_buf, c)
  BY ZenonT(30), <1>1, <1>2, OwnedSet DEF IInv, TypeOK
<1>4. TypeOK'
  BY <1>1, <1>2, <1>3, FuturesAssumption
     DEF IInv, TypeOK, ApiQueue!TypeOK, ApiQueue!Callers, ApiQueue!Stages, SlotIs
<1>5. ClientInv'
  BY <1>1, <1>2, <1>3, FuturesAssumption DEF IInv, TypeOK, ClientInv, Queued, SlotIs
<1>6. WorkerInv'
  BY <1>1, <1>2, <1>3, FuturesAssumption
     DEF IInv, TypeOK, WorkerInv, Queued, Serving, SlotIs
<1>7. CallStep
  BY Zenon, <1>1, <1>2, <1>3, Stutters DEF IInv, TypeOK, SlotIs
<1> QED
  BY <1>1, <1>2, <1>3, <1>4, <1>5, <1>6, <1>7, Frames DEF IInv, SameFields, SlotIs, TypeOK

(* The client has the mutex, so the worker is done with the slot. *)
LEMMA WaitReturnKeeps ==
  ASSUME IInv, NEW c \in Clients, WaitReturn(c)
  PROVE  IInv' /\ CallStep /\ CountStep
<1>1. /\ pc[c] = "test"
      /\ is_terminal(fut[c])
      /\ slot' = [slot EXCEPT ![fut[c]].client_state = "Observed", ![fut[c]].owned = None]
      /\ got' = [got EXCEPT ![c] = slot[fut[c]].result]
      /\ pc' = [pc EXCEPT ![c] = "ready"]
      /\ UNCHANGED <<live, calls, bufs, buffers, fut, buf, polled, wpc, wslot, orphans,
                     backlog, gc, queue, closed, stage>>
  BY DEF WaitReturn, heap, bufHeap, client, worker, collector, api
<1>2. fut[c] \in Slots /\ fut[c] \in live
  BY SMTT(30), <1>1 DEF IInv, TypeOK, ClientInv
<1>3. SlotIs(fut[c], slot[fut[c]].state, "Observed", slot[fut[c]].result,
             slot[fut[c]].cmd_buf, None)
  BY Zenon, <1>1, <1>2, ObservedSet DEF IInv, TypeOK
<1>4. \A w \in Workers : wslot[w] # fut[c]
  BY <1>1, <1>2, FuturesAssumption DEF IInv, TypeOK, ClientInv, WorkerInv, is_terminal
<1>5. TypeOK'
  <2>1. got' \in [Clients -> Results \cup {"zero", None}]
    BY <1>1, <1>2 DEF IInv, TypeOK, Slot
  <2> QED
    BY <1>1, <1>3, <2>1 DEF IInv, TypeOK, ApiQueue!TypeOK, SlotIs
<1>6. ClientInv'
  BY <1>1, <1>2, <1>3, <1>4, FuturesAssumption DEF IInv, TypeOK, ClientInv, Queued, SlotIs
<1>7. WorkerInv'
  BY <1>1, <1>2, <1>3, <1>4, FuturesAssumption
     DEF IInv, TypeOK, WorkerInv, Queued, Serving, SlotIs
<1>8. QueueInv'
  BY <1>1, <1>2, <1>3, <1>4, FuturesAssumption DEF IInv, TypeOK, QueueInv, SlotIs
<1>9. SlotInv'
  <2>1. \A x \in Slots : x \in live' <=> \/ \E d \in Clients : fut'[d] = x
                                          \/ Orphan(x)' \/ x \in (backlog \cup gc.todo)'
    BY <1>1, <1>2, <1>3, <1>4, FuturesAssumption
       DEF IInv, TypeOK, SlotInv, ClientInv, Orphan, GcInv
  <2>2. \A x \in Slots : Orphan(x)' \/ x \in (backlog \cup gc.todo)' =>
                            slot'[x].client_state = "Abandoned"
    BY <1>1, <1>2, <1>3, <1>4, FuturesAssumption
       DEF IInv, TypeOK, SlotInv, ClientInv, Orphan, SlotIs
  <2>3. \A x \in live' :
          /\ slot'[x].client_state = "Observed" =>
               is_terminal(x)' /\ \A w \in Workers : wslot'[w] # x
          /\ is_terminal(x)' => /\ slot'[x].result # "unset"
                                /\ slot'[x].state = "Error" <=> slot'[x].result # "value"
    BY SMTT(30), <1>1, <1>2, <1>3, <1>4, FuturesAssumption
       DEF IInv, TypeOK, SlotInv, ClientInv, is_terminal, SlotIs
  <2> QED
    BY <2>1, <2>2, <2>3 DEF SlotInv
<1>10. BufInv'
  <2>1. \A x \in Slots :
          /\ slot'[x].cmd_buf = slot[x].cmd_buf
          /\ slot'[x].client_state = "Abandoned" => slot[x].client_state = "Abandoned"
    BY <1>3 DEF SlotIs
  <2>2. slot'[fut[c]].client_state = "Observed" /\ \A d \in Clients : d # c => got'[d] = got[d]
    BY <1>1, <1>3 DEF SlotIs, IInv, TypeOK
  <2>3. ASSUME NEW d \in Clients, d # c, fut[d] # None
        PROVE  slot'[fut[d]] = slot[fut[d]]
    <3>1. fut[d] \in Slots /\ fut[d] # fut[c]
      BY Zenon, <2>3 DEF IInv, TypeOK, ClientInv
    <3> QED
      BY Zenon, <1>3, <3>1 DEF SlotIs
  <2>4. ASSUME NEW d \in Clients, fut[d] # None, slot'[fut[d]].cmd_buf # None
        PROVE  /\ slot'[fut[d]].cmd_buf = buf[d]
               /\ got'[d] # None => slot'[fut[d]].client_state = "Observed"
    <3>1. fut[d] \in Slots
      BY Zenon, <2>4 DEF IInv, TypeOK
    <3>2. slot'[fut[d]].cmd_buf = buf[d]
      BY Zenon, <2>1, <2>4, <3>1 DEF IInv, BufInv
    <3>3. CASE d = c
      BY Zenon, <2>2, <3>2, <3>3
    <3>4. CASE d # c
      BY Zenon, <2>2, <2>3, <2>4, <3>2, <3>4 DEF IInv, BufInv
    <3> QED
      BY Zenon, <3>3, <3>4
  <2> QED
    BY <1>1, <2>1, <2>4 DEF IInv, TypeOK, BufInv
<1>11. ReadInv'
  <2>1. got'[c] = slot'[fut[c]].result /\ \A d \in Clients : d # c => got'[d] = got[d]
    BY <1>1, <1>3 DEF IInv, TypeOK, SlotIs
  <2>2. \A x \in Slots : slot'[x].result = slot[x].result /\ slot'[x].state = slot[x].state
    BY <1>3 DEF SlotIs
  <2>3. /\ slot[fut[c]].result # "unset"
        /\ slot[fut[c]].state = "Error" <=> slot[fut[c]].result # "value"
    BY <1>1, <1>2 DEF IInv, SlotInv
  <2>4. is_terminal(fut[c])' /\ (got'[c] = "zero" => slot'[fut'[c]].state = "Error")
    BY Zenon, <1>1, <1>2, <2>1, <2>2, <2>3 DEF is_terminal
  <2>5. ASSUME NEW d \in Clients, d # c, got[d] # None \/ polled[d]
        PROVE  /\ is_terminal(fut[d])' <=> is_terminal(fut[d])
               /\ slot'[fut'[d]].result = slot[fut[d]].result
               /\ slot'[fut'[d]].state = slot[fut[d]].state
    <3>1. fut[d] \in Slots
      BY Zenon, <2>5 DEF IInv, TypeOK, ReadInv
    <3> QED
      BY Zenon, <1>1, <2>2, <3>1 DEF is_terminal
  <2>6. ASSUME NEW d \in Clients, polled'[d]
        PROVE  is_terminal(fut[d])'
    BY Zenon, <1>1, <2>4, <2>5, <2>6 DEF IInv, ReadInv, ResultIsFinal
  <2>7. ASSUME NEW d \in Clients, got'[d] # None
        PROVE  /\ is_terminal(fut[d])' /\ got'[d] # "unset"
               /\ IF got'[d] = "zero" THEN slot'[fut'[d]].state = "Error"
                                       ELSE got'[d] = slot'[fut'[d]].result
    <3>1. CASE d = c
      BY Zenon, <1>1, <1>2, <2>1, <2>2, <2>3, <2>4, <3>1
    <3>2. CASE d # c
      BY Zenon, <2>1, <2>5, <2>7, <3>2 DEF IInv, ReadInv, ResultIsFinal
    <3> QED
      BY Zenon, <3>1, <3>2
  <2>8. \A d \in Clients : fut'[d] = None => got'[d] = None /\ ~polled'[d]
    BY Zenon, <1>1, <1>2, <2>1, FuturesAssumption DEF IInv, ReadInv
  <2> QED
    BY Zenon, <2>6, <2>7, <2>8 DEF ReadInv, ResultIsFinal
<1>12. CallStep
  <2>1. slot[fut[c]].client_state # "Abandoned"
    BY <1>2, FuturesAssumption DEF IInv, ClientInv
  <2> QED
    BY Zenon, <1>1, <1>2, <1>3, <2>1, Stutters DEF IInv, TypeOK, SlotIs
<1> QED
  BY Zenon, <1>1, <1>2, <1>3, <1>4, <1>5, <1>6, <1>7, <1>8, <1>9, <1>10, <1>11, <1>12, Frames
     DEF IInv, SameFields, SlotIs, TypeOK

(* The client keeps the mutex. *)
LEMMA WaitBlockKeeps ==
  ASSUME IInv, NEW c \in Clients, WaitBlock(c)
  PROVE  IInv' /\ CallStep /\ CountStep
<1>1. /\ pc[c] = "test"
      /\ pc' = [pc EXCEPT ![c] = "block"]
      /\ UNCHANGED <<live, slot, calls, bufs, buffers, fut, buf, got, polled, wpc, wslot,
                     orphans, backlog, gc, queue, closed, stage>>
  BY DEF WaitBlock, heap, bufHeap, client, worker, collector, api
<1>2. TypeOK'
  BY <1>1, FuturesAssumption
     DEF IInv, TypeOK, ApiQueue!TypeOK, ApiQueue!Callers, ApiQueue!Stages
<1>3. ClientInv'
  BY <1>1, FuturesAssumption DEF IInv, TypeOK, ClientInv, Queued
<1>4. CallStep
  BY <1>1, Stutters DEF IInv, TypeOK
<1> QED
  BY <1>1, <1>2, <1>3, <1>4, Frames DEF IInv, SameFields

(* The client gives up the mutex it has. *)
LEMMA WaitSleepKeeps ==
  ASSUME IInv, NEW c \in Clients, WaitSleep(c)
  PROVE  IInv' /\ CallStep /\ CountStep
<1>1. /\ pc[c] = "block"
      /\ slot' = [slot EXCEPT ![fut[c]].owned = None]
      /\ pc' = [pc EXCEPT ![c] = "asleep"]
      /\ UNCHANGED <<live, calls, bufs, buffers, fut, buf, got, polled, wpc, wslot,
                     orphans, backlog, gc, queue, closed, stage>>
  BY DEF WaitSleep, heap, bufHeap, client, worker, collector, api
<1>2. fut[c] \in Slots /\ fut[c] \in live
  BY <1>1 DEF IInv, TypeOK, ClientInv
<1>3. SlotIs(fut[c], slot[fut[c]].state, slot[fut[c]].client_state, slot[fut[c]].result,
             slot[fut[c]].cmd_buf, None)
  BY Zenon, <1>1, <1>2, OwnedSet DEF IInv, TypeOK
<1>4. TypeOK'
  BY <1>1, <1>2, <1>3, FuturesAssumption
     DEF IInv, TypeOK, ApiQueue!TypeOK, ApiQueue!Callers, ApiQueue!Stages, SlotIs
<1>5. ClientInv'
  BY <1>1, <1>2, <1>3, FuturesAssumption DEF IInv, TypeOK, ClientInv, Queued, SlotIs
<1>6. WorkerInv'
  BY <1>1, <1>2, <1>3, FuturesAssumption
     DEF IInv, TypeOK, WorkerInv, Queued, Serving, SlotIs, ClientInv
<1>7. CallStep
  BY <1>1, <1>2, <1>3, Stutters DEF IInv, TypeOK, SlotIs
<1> QED
  BY <1>1, <1>2, <1>3, <1>4, <1>5, <1>6, <1>7, Frames DEF IInv, SameFields, SlotIs, TypeOK

(* Only the client's control moves. *)
LEMMA SpuriousWakeKeeps ==
  ASSUME IInv, NEW c \in Clients, SpuriousWake(c)
  PROVE  IInv' /\ CallStep /\ CountStep
<1>1. /\ pc[c] = "asleep"
      /\ pc' = [pc EXCEPT ![c] = "lock"]
      /\ UNCHANGED <<live, slot, calls, bufs, buffers, fut, buf, got, polled, wpc, wslot,
                     orphans, backlog, gc, queue, closed, stage>>
  BY DEF SpuriousWake, heap, bufHeap, client, worker, collector, api
<1>2. TypeOK'
  BY <1>1, FuturesAssumption
     DEF IInv, TypeOK, ApiQueue!TypeOK, ApiQueue!Callers, ApiQueue!Stages
<1>3. ClientInv'
  BY <1>1, FuturesAssumption DEF IInv, TypeOK, ClientInv, Queued
<1>4. CallStep
  BY Zenon, <1>1, Stutters DEF IInv, TypeOK
<1> QED
  BY <1>1, <1>2, <1>3, <1>4, Frames DEF IInv, SameFields

(* The call changes hands, with the command it holds. *)
LEMMA DisposeIssuedKeeps ==
  ASSUME IInv, NEW c \in Clients, DisposeIssued(c)
  PROVE  IInv' /\ CallStep /\ CountStep
<1>1. /\ pc[c] = "ready"
      /\ slot[fut[c]].client_state = "Issued"
      /\ slot' = [slot EXCEPT ![fut[c]].client_state = "Abandoned"]
      /\ orphans' = Append(orphans, fut[c])
      /\ buf' = [buf EXCEPT ![c] = IF slot[fut[c]].cmd_buf = None \/ got[c] # None
                                     THEN @ ELSE None]
      /\ pc' = [pc EXCEPT ![c] = "idle"] /\ fut' = [fut EXCEPT ![c] = None]
      /\ got' = [got EXCEPT ![c] = None] /\ polled' = [polled EXCEPT ![c] = FALSE]
      /\ UNCHANGED <<live, calls, bufs, buffers, wpc, wslot, backlog, gc, queue, closed,
                     stage>>
  BY DEF DisposeIssued, Forget, heap, bufHeap, client, worker, collector, api
<1>2. fut[c] \in Slots /\ fut[c] \in live
  BY <1>1 DEF IInv, TypeOK, ClientInv
<1>3. SlotIs(fut[c], slot[fut[c]].state, "Abandoned", slot[fut[c]].result,
             slot[fut[c]].cmd_buf, slot[fut[c]].owned)
  BY Zenon, <1>1, <1>2, AbandonedSet DEF IInv, TypeOK
<1>4. TypeOK'
  BY <1>1, <1>2, <1>3, FuturesAssumption
     DEF IInv, TypeOK, ApiQueue!TypeOK, ApiQueue!Callers, ApiQueue!Stages, SlotIs
<1>5. ClientInv'
  BY <1>1, <1>2, <1>3, FuturesAssumption DEF IInv, TypeOK, ClientInv, Queued, SlotIs
<1>6. WorkerInv'
  BY <1>1, <1>2, <1>3, FuturesAssumption
     DEF IInv, TypeOK, WorkerInv, Queued, Serving, SlotIs
<1>7. QueueInv'
  BY <1>1, <1>2, <1>3, FuturesAssumption DEF IInv, TypeOK, QueueInv, SlotIs
<1>8. GcInv'
  BY SMTT(30), <1>1, <1>2, <1>3, FuturesAssumption
     DEF IInv, TypeOK, GcInv, SlotIs, ClientInv, SlotInv, Orphan
<1>9. SlotInv'
  BY SMTT(30), <1>1, <1>2, <1>3, FuturesAssumption
     DEF IInv, TypeOK, SlotInv, Orphan, is_terminal, SlotIs, ClientInv
<1>10. BufInv'
  BY SMTT(30), <1>1, <1>2, <1>3, FuturesAssumption DEF IInv, TypeOK, BufInv, SlotIs, ClientInv
<1>11. ReadInv'
  BY <1>1, <1>2, <1>3, FuturesAssumption
     DEF IInv, TypeOK, ReadInv, ResultIsFinal, is_terminal, SlotIs, ClientInv
<1>12. CallStep
  BY Zenon, <1>1, <1>2, <1>3, Abandons DEF IInv, TypeOK
<1> QED
  BY Zenon, <1>1, <1>2, <1>3, <1>4, <1>5, <1>6, <1>7, <1>8, <1>9, <1>10, <1>11, <1>12, Frames
     DEF IInv, SameFields, SlotIs, TypeOK

(* An observed call is in nobody's hands but the client's. *)
LEMMA DisposeObservedKeeps ==
  ASSUME IInv, NEW c \in Clients, DisposeObserved(c)
  PROVE  IInv' /\ CallStep /\ CountStep
<1>1. /\ pc[c] = "ready"
      /\ slot[fut[c]].client_state = "Observed"
      /\ live' = live \ {fut[c]} /\ calls' = calls - 1
      /\ slot' = [slot EXCEPT ![fut[c]] = [NewSlot(None) EXCEPT !.owned = None]]
      /\ pc' = [pc EXCEPT ![c] = "idle"] /\ fut' = [fut EXCEPT ![c] = None]
      /\ got' = [got EXCEPT ![c] = None] /\ polled' = [polled EXCEPT ![c] = FALSE]
      /\ UNCHANGED <<bufs, buffers, buf, wpc, wslot, orphans, backlog, gc, queue, closed,
                     stage>>
  BY DEF DisposeObserved, Dealloc, Forget, heap, bufHeap, client, worker, collector, api
<1>2. fut[c] \in Slots /\ fut[c] \in live
  BY <1>1 DEF IInv, TypeOK, ClientInv
<1>3. SlotIs(fut[c], "Pending", "Issued", "unset", None, None)
  BY ZenonT(30), <1>1, <1>2, FreedSet DEF IInv, TypeOK
<1>4. ~Queued(fut[c]) /\ \A w \in Workers : wslot[w] # fut[c]
  BY <1>1, <1>2 DEF IInv, QueueInv, SlotInv, Queued, is_terminal
<1>5. TypeOK'
  BY <1>1, <1>2, <1>3, <1>4, FuturesAssumption
     DEF IInv, TypeOK, ApiQueue!TypeOK, ApiQueue!Callers, ApiQueue!Stages, SlotIs
<1>6. ClientInv'
  BY <1>1, <1>2, <1>3, <1>4, FuturesAssumption
     DEF IInv, TypeOK, ClientInv, Queued, SlotIs, WorkerInv, QueueInv, SlotInv
<1>7. WorkerInv'
  BY <1>1, <1>2, <1>3, <1>4, FuturesAssumption
     DEF IInv, TypeOK, WorkerInv, Queued, Serving, SlotIs, QueueInv
<1>8. QueueInv'
  BY <1>1, <1>2, <1>3, <1>4, FuturesAssumption DEF IInv, TypeOK, QueueInv, SlotIs, Queued
<1>9. GcInv'
  BY SMTT(30), <1>1, <1>2, <1>3, <1>4, FuturesAssumption
     DEF IInv, TypeOK, GcInv, SlotIs, SlotInv, Orphan
<1>10. SlotInv'
  <2>1. /\ fut'[c] = None /\ \A d \in Clients : d # c => fut'[d] = fut[d] /\ fut[d] # fut[c]
        /\ ~Orphan(fut[c]) /\ fut[c] \notin backlog \cup gc.todo
    BY <1>1, <1>2, FuturesAssumption DEF IInv, TypeOK, ClientInv, SlotInv
  <2>2. \A x \in Slots : Orphan(x)' <=> Orphan(x)
    BY <1>1 DEF Orphan
  <2>3. ASSUME NEW x \in Slots
        PROVE  x \in live' <=> \/ \E d \in Clients : fut'[d] = x
                               \/ Orphan(x)' \/ x \in (backlog \cup gc.todo)'
    <3>1. CASE x = fut[c]
      BY <1>1, <1>2, <2>1, <2>2, <3>1, FuturesAssumption
    <3>2. CASE x # fut[c]
      BY <1>1, <2>1, <2>2, <3>2, FuturesAssumption DEF IInv, SlotInv
    <3> QED
      BY <3>1, <3>2
  <2>4. \A x \in Slots : Orphan(x)' \/ x \in (backlog \cup gc.todo)' =>
                            slot'[x].client_state = "Abandoned"
    BY <1>1, <1>3, <2>1, <2>2 DEF IInv, SlotInv, SlotIs
  <2>5. \A x \in live' :
          /\ slot'[x].client_state = "Observed" =>
               is_terminal(x)' /\ \A w \in Workers : wslot'[w] # x
          /\ is_terminal(x)' => /\ slot'[x].result # "unset"
                                /\ slot'[x].state = "Error" <=> slot'[x].result # "value"
    BY <1>1, <1>3 DEF IInv, TypeOK, SlotInv, is_terminal, SlotIs
  <2> QED
    BY Zenon, <2>3, <2>4, <2>5 DEF SlotInv
<1>11. BufInv'
  BY SMTT(30), <1>1, <1>2, <1>3, <1>4, FuturesAssumption
     DEF IInv, TypeOK, BufInv, SlotIs, ClientInv, SlotInv
<1>12. ReadInv'
  BY <1>1, <1>2, <1>3, <1>4, FuturesAssumption
     DEF IInv, TypeOK, ReadInv, ResultIsFinal, is_terminal, SlotIs, ClientInv
<1>13. CountStep
  BY Zenon, <1>1, <1>2 DEF CountStep, Counted
<1>14. CallStep
  <2>1. is_terminal(fut[c])
    BY <1>1, <1>2 DEF IInv, SlotInv
  <2> QED
    BY <1>1, <1>2, <1>3, <2>1, Frees DEF IInv, TypeOK
<1> QED
  BY Zenon, <1>1, <1>2, <1>3, <1>4, <1>5, <1>6, <1>7, <1>8, <1>9, <1>10, <1>11, <1>12, <1>13,
     <1>14, Frames DEF IInv, SameFields, SlotIs, TypeOK

=============================================================================
