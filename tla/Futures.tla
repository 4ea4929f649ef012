------------------------------ MODULE Futures ------------------------------
(***************************************************************************)
(* The life of a call from the client to Raft: a CallSlot allocated in     *)
(* shared memory (raft_shm.h, raft_shm.cc), sent through api_queue,        *)
(* answered by a Raft worker, read through the raft_future_* functions     *)
(* (raft_c_if.cc), and given back either by the client that waited for it  *)
(* or, when the client abandoned it, by the orphan GC thread.              *)
(*                                                                         *)
(* api_queue is a BoundedFifo, which ArrayBlockingQueue implements.  The   *)
(* Raft workers live in another process and another repository: they are   *)
(* modelled by what the slots require of them, which is what the FSM       *)
(* worker of this repository does: lock owned, reply() once, unlock.       *)
(*                                                                         *)
(* A client has one future at a time; calls it abandoned live on without   *)
(* it.  The call types differ in whether their arguments hold a command    *)
(* buffer (Apply) or not (all others).                                     *)
(***************************************************************************)
EXTENDS Integers, FiniteSets, Sequences

CONSTANTS Clients, Workers, GC,  \* threads
          Slots, Bufs,           \* addresses in shared memory
          Capacity,              \* of api_queue
          None,                  \* null
          ReuseBeforeUnlock      \* see Alloc

(* What Raft answers, and what a call may end with. *)
Replies == {"value", "raft_error"}
Results == Replies \cup {"unset", "in_shutdown", "invalid_address"}

ASSUME FuturesAssumption ==
  /\ Capacity \in Nat \ {0}
  /\ IsFiniteSet(Slots)
  /\ IsFiniteSet(Bufs)
  /\ Clients \cap Workers = {}
  /\ GC \notin Clients \cup Workers
  /\ None \notin Slots \cup Bufs \cup Clients \cup Workers \cup {GC}
  /\ None \notin Results
  /\ ReuseBeforeUnlock \in BOOLEAN

VARIABLES live, slot,      \* allocated slots; the fields of every slot
          bufs,            \* allocated command buffers
          calls, buffers,  \* stats: call_alloc - call_free, buffer_...
          pc, fut, buf,    \* client: control, its future, its buffer
          got, polled,     \* client: result read, poll() returned true
          wpc, wslot,      \* worker: control, the call it serves
          orphans,         \* deque orphaned_calls
          backlog,         \* list orphan_backlog of the GC thread
          gc,              \* GC: phase, slots to try, slot to unlock
          queue, closed, stage  \* api_queue

heap == <<live, slot, calls>>
bufHeap == <<bufs, buffers>>
client == <<pc, fut, buf, got, polled>>
worker == <<wpc, wslot>>
collector == <<orphans, backlog, gc>>
api == <<queue, closed, stage>>
vars == <<heap, bufHeap, client, worker, collector, api>>

(* A client puts the slot of its future, a worker takes the one it serves. *)
ApiQueue == INSTANCE BoundedFifo WITH
              Putters <- Clients, Takers <- Workers, Values <- Slots,
              items <- queue,
              val <- [t \in Clients \cup Workers |->
                        IF t \in Clients THEN fut[t] ELSE wslot[t]]

Slot == [state : {"Pending", "Success", "Error"},
         client_state : {"Issued", "Observed", "Abandoned"},
         result : Results,            \* retval and error
         cmd_buf : Bufs \cup {None},  \* args, of an Apply
         owned : Clients \cup Workers \cup {GC, None}]

(* BaseSlot's constructor. *)
NewSlot(b) == [state |-> "Pending", client_state |-> "Issued",
               result |-> "unset", cmd_buf |-> b, owned |-> None]

is_terminal(s) == slot[s].state \in {"Success", "Error"}

Init ==
  /\ live = {} /\ slot = [s \in Slots |-> NewSlot(None)]
  /\ bufs = {} /\ calls = 0 /\ buffers = 0
  /\ pc = [c \in Clients |-> "idle"]
  /\ fut = [c \in Clients |-> None] /\ buf = [c \in Clients |-> None]
  /\ got = [c \in Clients |-> None] /\ polled = [c \in Clients |-> FALSE]
  /\ wpc = [w \in Workers |-> "take"] /\ wslot = [w \in Workers |-> None]
  /\ orphans = <<>> /\ backlog = {}
  /\ gc = [phase |-> "take", todo |-> {}, unlock |-> None]
  /\ ApiQueue!Init

-----------------------------------------------------------------------------
(* Allocation *)

(***************************************************************************)
(* alloc_request_.  The GC unlocks a slot's mutex after it has freed the   *)
(* slot (see GcDispose); nothing stops the allocator from handing out the  *)
(* slot in between.  ReuseBeforeUnlock = TRUE is the code; FALSE leaves    *)
(* that one window out, to check what holds besides.                       *)
(***************************************************************************)
Alloc(s, fields) ==
  /\ s \notin live
  /\ ReuseBeforeUnlock \/ s # gc.unlock
  /\ live' = live \cup {s}
  /\ slot' = [slot EXCEPT ![s] = fields]
  /\ calls' = calls + 1

(* What a freed slot holds is not read again, only its mutex may be:       *)
(* the other fields are reset, to have fewer states.                       *)
Dealloc(s, holder) ==
  /\ live' = live \ {s}
  /\ slot' = [slot EXCEPT ![s] = [NewSlot(None) EXCEPT !.owned = holder]]
  /\ calls' = calls - 1

(* alloc_raft_buffer, before the client fills in a command. *)
AllocBuf(c) ==
  /\ pc[c] = "idle" /\ buf[c] = None
  /\ \E b \in Bufs \ bufs : bufs' = bufs \cup {b} /\ buf' = [buf EXCEPT ![c] = b]
  /\ buffers' = buffers + 1
  /\ UNCHANGED <<heap, pc, fut, got, polled, worker, collector, api>>

(* free_raft_buffer, once no call of the client holds the buffer. *)
FreeBuf(c) ==
  /\ pc[c] = "idle" /\ buf[c] # None
  /\ bufs' = bufs \ {buf[c]} /\ buffers' = buffers - 1
  /\ buf' = [buf EXCEPT ![c] = None]
  /\ UNCHANGED <<heap, pc, fut, got, polled, worker, collector, api>>

-----------------------------------------------------------------------------
(* Sending *)

(* send_api_request up to the call of put(): raft_apply with the client's  *)
(* buffer, or one of the calls without a command.                          *)
Send(c) ==
  /\ pc[c] = "idle"
  /\ \E s \in Slots :
       /\ \E b \in {buf[c], None} : Alloc(s, NewSlot(b))
       /\ fut' = [fut EXCEPT ![c] = s]
       /\ UNCHANGED wslot
       /\ ApiQueue!CallPut(c, s)
  /\ pc' = [pc EXCEPT ![c] = "send"]
  /\ UNCHANGED <<bufHeap, buf, got, polled, wpc, collector>>

(* put() goes past check_closed(), then inserts the record. *)
SendEnter(c) ==
  /\ pc[c] = "send"
  /\ UNCHANGED <<heap, bufHeap, client, worker, collector>>
  /\ ApiQueue!Enter(c)

(* Fault: put() does not wait for room. *)
SendPutOverfull(c) ==
  /\ pc[c] = "send" /\ stage[c] = "in"
  /\ queue' = Append(queue, fut[c])
  /\ stage' = [stage EXCEPT ![c] = "out"]
  /\ pc' = [pc EXCEPT ![c] = "ready"]
  /\ UNCHANGED <<heap, bufHeap, fut, buf, got, polled, worker, collector, closed>>

SendPut(c) ==
  /\ pc[c] = "send"
  /\ UNCHANGED <<heap, bufHeap, fut, buf, got, polled, worker, collector>>
  /\ ApiQueue!Put(c)
  /\ pc' = [pc EXCEPT ![c] = "ready"]

(* put() throws queue_closed: the call has failed, the slot stays. *)
SendRefused(c) ==
  /\ pc[c] = "send"
  /\ UNCHANGED <<live, calls, bufHeap, fut, buf, got, polled, worker, collector>>
  /\ ApiQueue!Refuse(c)
  /\ slot' = [slot EXCEPT ![fut[c]].result = "in_shutdown",
                          ![fut[c]].state = "Error"]
  /\ pc' = [pc EXCEPT ![c] = "ready"]

(* raft_apply of a buffer outside shared memory: make_error_request. *)
SendInvalid(c) ==
  /\ pc[c] = "idle"
  /\ \E s \in Slots :
       /\ Alloc(s, [NewSlot(None) EXCEPT !.result = "invalid_address",
                                         !.state = "Error"])
       /\ fut' = [fut EXCEPT ![c] = s]
  /\ pc' = [pc EXCEPT ![c] = "ready"]
  /\ UNCHANGED <<bufHeap, buf, got, polled, worker, collector, api>>

-----------------------------------------------------------------------------
(* Waiting and reading *)

(* raft_future_wait *)
Wait(c) ==
  /\ pc[c] = "ready"
  /\ pc' = [pc EXCEPT ![c] = "lock"]
  /\ UNCHANGED <<heap, bufHeap, fut, buf, got, polled, worker, collector, api>>

WaitLock(c) ==
  /\ pc[c] = "lock"
  /\ slot[fut[c]].owned = None
  /\ slot' = [slot EXCEPT ![fut[c]].owned = c]
  /\ pc' = [pc EXCEPT ![c] = "test"]
  /\ UNCHANGED <<live, calls, bufHeap, fut, buf, got, polled, worker, collector, api>>

(* Fault: wait() forgets to note that the result was observed. *)
WaitReturnUnobserved(c) ==
  /\ pc[c] = "test" /\ is_terminal(fut[c])
  /\ slot' = [slot EXCEPT ![fut[c]].owned = None]
  /\ got' = [got EXCEPT ![c] = slot[fut[c]].result]
  /\ pc' = [pc EXCEPT ![c] = "ready"]
  /\ UNCHANGED <<live, calls, bufHeap, fut, buf, polled, worker, collector, api>>

(* The condition holds: note the observation, unlock, return slot->error. *)
WaitReturn(c) ==
  /\ pc[c] = "test" /\ is_terminal(fut[c])
  /\ slot' = [slot EXCEPT ![fut[c]].client_state = "Observed",
                          ![fut[c]].owned = None]
  /\ got' = [got EXCEPT ![c] = slot[fut[c]].result]
  /\ pc' = [pc EXCEPT ![c] = "ready"]
  /\ UNCHANGED <<live, calls, bufHeap, fut, buf, polled, worker, collector, api>>

(* It does not: go to sleep on ret_cond, which gives up the mutex. *)
WaitBlock(c) ==
  /\ pc[c] = "test" /\ ~is_terminal(fut[c])
  /\ pc' = [pc EXCEPT ![c] = "block"]
  /\ UNCHANGED <<heap, bufHeap, fut, buf, got, polled, worker, collector, api>>

WaitSleep(c) ==
  /\ pc[c] = "block"
  /\ slot' = [slot EXCEPT ![fut[c]].owned = None]
  /\ pc' = [pc EXCEPT ![c] = "asleep"]
  /\ UNCHANGED <<live, calls, bufHeap, fut, buf, got, polled, worker, collector, api>>

SpuriousWake(c) ==
  /\ pc[c] = "asleep"
  /\ pc' = [pc EXCEPT ![c] = "lock"]
  /\ UNCHANGED <<heap, bufHeap, fut, buf, got, polled, worker, collector, api>>

(* raft_apply made the call, with a command in shared memory or elsewhere. *)
IsApply(s) == slot[s].cmd_buf # None \/ slot[s].result = "invalid_address"

(* Fault: the result is read without a look at the state. *)
GetUnchecked(c) ==
  /\ pc[c] = "ready" /\ ~IsApply(fut[c])
  /\ got' = [got EXCEPT ![c] = slot[fut[c]].result]
  /\ UNCHANGED <<heap, bufHeap, pc, fut, buf, polled, worker, collector, api>>

(***************************************************************************)
(* get_ptr reads the state without the mutex and waits only when it is not *)
(* terminal.  A client reads an Apply it sent after a wait, as             *)
(* raft_apply_sync does: a read that finds the result there leaves the     *)
(* call Issued, and with it open who frees the command.                    *)
(***************************************************************************)
GetReply(c) ==
  /\ pc[c] = "ready" /\ IsApply(fut[c])
  /\ slot[fut[c]].cmd_buf = None \/ slot[fut[c]].client_state = "Observed"
  /\ IF is_terminal(fut[c])
     THEN got' = [got EXCEPT ![c] = slot[fut[c]].result] /\ UNCHANGED pc
     ELSE pc' = [pc EXCEPT ![c] = "lock"] /\ UNCHANGED got
  /\ UNCHANGED <<heap, bufHeap, fut, buf, polled, worker, collector, api>>

(* future_get (raft_last_index, raft_leader, raft_future_get_stats) does   *)
(* the same but looks at slot->error only when it had to wait: for a call  *)
(* that has failed already it returns RAFT_SUCCESS and the initial retval. *)
Get(c) ==
  /\ pc[c] = "ready" /\ ~IsApply(fut[c])
  /\ IF is_terminal(fut[c])
     THEN got' = [got EXCEPT ![c] = IF slot[fut[c]].result = "value"
                                    THEN "value" ELSE "zero"] /\ UNCHANGED pc
     ELSE pc' = [pc EXCEPT ![c] = "lock"] /\ UNCHANGED got
  /\ UNCHANGED <<heap, bufHeap, fut, buf, polled, worker, collector, api>>

(* poll(): try_lock, and the state while it is held. *)
Poll(c) ==
  /\ pc[c] = "ready"
  /\ polled' = [polled EXCEPT
                  ![c] = slot[fut[c]].owned = None /\ is_terminal(fut[c])]
  /\ UNCHANGED <<heap, bufHeap, pc, fut, buf, got, worker, collector, api>>

(* wait_for(): timed_lock, which may time out; it does not wait for the    *)
(* condition.                                                              *)
WaitFor(c) ==
  /\ pc[c] = "ready"
  /\ \/ slot[fut[c]].owned = None
        /\ polled' = [polled EXCEPT ![c] = is_terminal(fut[c])]
     \/ polled' = [polled EXCEPT ![c] = FALSE]
  /\ UNCHANGED <<heap, bufHeap, pc, fut, buf, got, worker, collector, api>>

-----------------------------------------------------------------------------
(* Disposing *)

Forget(c) ==
  /\ pc' = [pc EXCEPT ![c] = "idle"]
  /\ fut' = [fut EXCEPT ![c] = None]
  /\ got' = [got EXCEPT ![c] = None]
  /\ polled' = [polled EXCEPT ![c] = FALSE]

(* dispose() of a call that was not waited for: it, and the command it     *)
(* holds, are handed to the GC.  (A client that did wait and read the      *)
(* result of an Apply keeps its buffer.)                                   *)
DisposeIssued(c) ==
  LET s == fut[c] IN
  /\ pc[c] = "ready" /\ slot[s].client_state = "Issued"
  /\ slot' = [slot EXCEPT ![s].client_state = "Abandoned"]
  /\ orphans' = Append(orphans, s)
  /\ buf' = [buf EXCEPT ![c] = IF slot[s].cmd_buf = None \/ got[c] # None
                                   THEN @ ELSE None]
  /\ Forget(c)
  /\ UNCHANGED <<live, calls, bufHeap, worker, backlog, gc, api>>

(* dispose() after a wait: the slot is freed on the spot, the command      *)
(* buffer stays the client's.                                              *)
DisposeObserved(c) ==
  /\ pc[c] = "ready" /\ slot[fut[c]].client_state = "Observed"
  /\ Dealloc(fut[c], None)
  /\ Forget(c)
  /\ UNCHANGED <<bufHeap, buf, worker, collector, api>>

-----------------------------------------------------------------------------
(* A Raft worker *)

WorkerCall(w) ==
  /\ wpc[w] = "take"
  /\ UNCHANGED <<heap, bufHeap, client, worker, collector>>
  /\ ApiQueue!CallTake(w)

WorkerEnter(w) ==
  /\ UNCHANGED <<heap, bufHeap, client, worker, collector>>
  /\ ApiQueue!Enter(w)

WorkerTake(w) ==
  /\ queue # <<>>
  /\ wslot' = [wslot EXCEPT ![w] = Head(queue)]
  /\ UNCHANGED <<heap, bufHeap, client, collector>>
  /\ ApiQueue!Take(w)
  /\ wpc' = [wpc EXCEPT ![w] = "serve"]

WorkerRefused(w) ==
  /\ UNCHANGED <<heap, bufHeap, client, wslot, collector>>
  /\ ApiQueue!Refuse(w)
  /\ wpc' = [wpc EXCEPT ![w] = "exited"]

WorkerLock(w) ==
  /\ wpc[w] = "serve" /\ slot[wslot[w]].owned = None
  /\ slot' = [slot EXCEPT ![wslot[w]].owned = w]
  /\ wpc' = [wpc EXCEPT ![w] = "reply"]
  /\ UNCHANGED <<live, calls, bufHeap, client, wslot, collector, api>>

(* Fault: reply() sets the state before the result. *)
ReplyStateFirst(w) ==
  /\ wpc[w] = "reply"
  /\ slot' = [slot EXCEPT ![wslot[w]].state = "Success"]
  /\ wpc' = [wpc EXCEPT ![w] = "signal"]
  /\ UNCHANGED <<live, calls, bufHeap, client, wslot, collector, api>>

(* reply(): retval and error first ... *)
ReplyResult(w) ==
  /\ wpc[w] = "reply"
  /\ \E r \in Replies : slot' = [slot EXCEPT ![wslot[w]].result = r]
  /\ wpc' = [wpc EXCEPT ![w] = "signal"]
  /\ UNCHANGED <<live, calls, bufHeap, client, wslot, collector, api>>

(* Fault: reply() does not notify. *)
ReplyStateSilent(w) ==
  LET s == wslot[w] IN
  /\ wpc[w] = "signal"
  /\ slot' = [slot EXCEPT ![s].state = IF slot[s].result = "value"
                                       THEN "Success" ELSE "Error"]
  /\ wpc' = [wpc EXCEPT ![w] = "unlock"]
  /\ UNCHANGED <<live, calls, bufHeap, client, wslot, collector, api>>

(* ... then the state, and notify_one on ret_cond. *)
ReplyState(w) ==
  LET s == wslot[w] IN
  /\ wpc[w] = "signal"
  /\ slot' = [slot EXCEPT ![s].state = IF slot[s].result = "value"
                                       THEN "Success" ELSE "Error"]
  /\ pc' = [c \in Clients |-> IF fut[c] = s /\ pc[c] = "asleep"
                              THEN "lock" ELSE pc[c]]
  /\ wpc' = [wpc EXCEPT ![w] = "unlock"]
  /\ UNCHANGED <<live, calls, bufHeap, fut, buf, got, polled, wslot, collector, api>>

WorkerUnlock(w) ==
  /\ wpc[w] = "unlock"
  /\ slot' = [slot EXCEPT ![wslot[w]].owned = None]
  /\ wslot' = [wslot EXCEPT ![w] = None]
  /\ wpc' = [wpc EXCEPT ![w] = "take"]
  /\ UNCHANGED <<live, calls, bufHeap, client, collector, api>>

-----------------------------------------------------------------------------
(* The orphan GC thread *)

(* take(), or poll_until() finding an orphan *)
GcTake ==
  /\ gc.phase = "take" /\ orphans # <<>>
  /\ gc' = [gc EXCEPT !.phase = "new", !.todo = {Head(orphans)}]
  /\ orphans' = Tail(orphans)
  /\ UNCHANGED <<heap, bufHeap, client, worker, backlog, api>>

(* poll_until() times out; it is only called with a backlog. *)
GcPollTimeout ==
  /\ gc.phase = "take" /\ backlog # {}
  /\ gc' = [gc EXCEPT !.phase = "check"]
  /\ UNCHANGED <<heap, bufHeap, client, worker, orphans, backlog, api>>

(* Fault: an orphan that cannot be freed yet is dropped. *)
GcKeepDropped(s) ==
  /\ gc.unlock = None /\ s \in gc.todo
  /\ slot[s].owned # None \/ ~is_terminal(s)
  /\ gc' = [gc EXCEPT !.todo = @ \ {s}]
  /\ UNCHANGED <<heap, bufHeap, client, worker, orphans, backlog, api>>

(* try_dispose_orphan fails: somebody holds the slot or it is unanswered. *)
GcKeep(s) ==
  /\ gc.unlock = None /\ s \in gc.todo
  /\ slot[s].owned # None \/ ~is_terminal(s)
  /\ gc' = [gc EXCEPT !.todo = @ \ {s}]
  /\ backlog' = backlog \cup {s}
  /\ UNCHANGED <<heap, bufHeap, client, worker, orphans, api>>

(* Fault: the GC does not look at the state. *)
GcDisposeUnanswered(s) ==
  /\ gc.unlock = None /\ s \in gc.todo
  /\ slot[s].owned = None
  /\ Dealloc(s, GC)
  /\ IF slot[s].cmd_buf # None
     THEN bufs' = bufs \ {slot[s].cmd_buf} /\ buffers' = buffers - 1
     ELSE UNCHANGED bufHeap
  /\ gc' = [gc EXCEPT !.todo = @ \ {s}, !.unlock = s]
  /\ backlog' = backlog \ {s}
  /\ UNCHANGED <<client, worker, orphans, api>>

(* try_dispose_orphan succeeds: dispose() of an Abandoned call frees the   *)
(* command buffer and the slot, whose mutex is still held.                 *)
GcDispose(s) ==
  /\ gc.unlock = None /\ s \in gc.todo
  /\ slot[s].owned = None /\ is_terminal(s)
  /\ Dealloc(s, GC)
  /\ IF slot[s].cmd_buf # None
     THEN bufs' = bufs \ {slot[s].cmd_buf} /\ buffers' = buffers - 1
     ELSE UNCHANGED bufHeap
  /\ gc' = [gc EXCEPT !.todo = @ \ {s}, !.unlock = s]
  /\ backlog' = backlog \ {s}
  /\ UNCHANGED <<client, worker, orphans, api>>

(* The end of try_dispose_orphan's scope unlocks the mutex, whatever the   *)
(* memory holds by now.                                                    *)
GcUnlock ==
  /\ gc.unlock # None
  /\ slot' = [slot EXCEPT ![gc.unlock].owned = None]
  /\ gc' = [gc EXCEPT !.unlock = None]
  /\ UNCHANGED <<live, calls, bufHeap, client, worker, orphans, backlog, api>>

(* Nothing left to try: on to the check of the clock, or the next round. *)
GcTried ==
  /\ gc.phase \in {"new", "scan"} /\ gc.todo = {} /\ gc.unlock = None
  /\ gc' = [gc EXCEPT !.phase = IF @ = "new" THEN "check" ELSE "take"]
  /\ UNCHANGED <<heap, bufHeap, client, worker, orphans, backlog, api>>

(* next_check has passed: scan_orphans tries the whole backlog. *)
GcScan ==
  /\ gc.phase = "check" /\ backlog # {}
  /\ gc' = [gc EXCEPT !.phase = "scan", !.todo = backlog]
  /\ UNCHANGED <<heap, bufHeap, client, worker, orphans, backlog, api>>

(* It has not, or there is no backlog. *)
GcNoScan ==
  /\ gc.phase = "check"
  /\ gc' = [gc EXCEPT !.phase = "take"]
  /\ UNCHANGED <<heap, bufHeap, client, worker, orphans, backlog, api>>

-----------------------------------------------------------------------------

(* shm_cleanup closes api_queue. *)
CloseApi ==
  /\ ~closed
  /\ UNCHANGED <<heap, bufHeap, client, worker, collector>>
  /\ ApiQueue!Close

(* What a client does of its own accord, and what it goes through with. *)
ClientStart(c) ==
  \/ AllocBuf(c) \/ FreeBuf(c) \/ Send(c) \/ SendInvalid(c)
  \/ Wait(c) \/ GetReply(c) \/ Get(c) \/ Poll(c) \/ WaitFor(c)
  \/ DisposeIssued(c) \/ DisposeObserved(c) \/ SpuriousWake(c)

ClientStep(c) ==
  \/ SendEnter(c) \/ SendPut(c) \/ SendRefused(c)
  \/ WaitLock(c) \/ WaitReturn(c) \/ WaitBlock(c) \/ WaitSleep(c)

WorkerStep(w) ==
  \/ WorkerCall(w) \/ WorkerEnter(w) \/ WorkerTake(w) \/ WorkerRefused(w)
  \/ WorkerLock(w) \/ ReplyResult(w) \/ ReplyState(w) \/ WorkerUnlock(w)

GcStep ==
  \/ GcTake \/ GcPollTimeout \/ GcUnlock \/ GcTried \/ GcScan \/ GcNoScan
  \/ \E s \in Slots : GcKeep(s) \/ GcDispose(s)

Next ==
  \/ \E c \in Clients : ClientStart(c) \/ ClientStep(c)
  \/ \E w \in Workers : WorkerStep(w)
  \/ GcStep
  \/ CloseApi

Spec == Init /\ [][Next]_vars

(***************************************************************************)
(* Threads that can run do, and one that finds a mutex free again and      *)
(* again gets it; Raft answers every call it takes.  poll_until            *)
(* takes an orphan that is there unless the deque's mutex is busy all the  *)
(* time, and time passes: next_check is reached again and again.           *)
(***************************************************************************)
Fairness ==
  /\ \A c \in Clients : WF_vars(ClientStep(c)) /\ SF_vars(WaitLock(c))
  /\ \A w \in Workers : WF_vars(WorkerStep(w)) /\ SF_vars(WorkerLock(w))
  /\ WF_vars(GcStep) /\ SF_vars(GcTake) /\ SF_vars(GcScan)

FairSpec == Spec /\ Fairness

-----------------------------------------------------------------------------
(* Properties *)

(* Type invariant of the slots, the threads and the GC's lists             *)
(* (raft_shm.h, class BaseSlot and its users).                             *)
TypeOK ==
  /\ live \in SUBSET Slots /\ slot \in [Slots -> Slot]
  /\ bufs \in SUBSET Bufs /\ calls \in Int /\ buffers \in Int
  /\ pc \in [Clients -> {"idle", "send", "ready", "lock", "test",
                       "block", "asleep"}]
  /\ fut \in [Clients -> Slots \cup {None}]
  /\ buf \in [Clients -> Bufs \cup {None}]
  /\ got \in [Clients -> Results \cup {"zero", None}]
  /\ polled \in [Clients -> BOOLEAN]
  /\ wpc \in [Workers -> {"take", "serve", "reply", "signal", "unlock", "exited"}]
  /\ wslot \in [Workers -> Slots \cup {None}]
  /\ orphans \in Seq(Slots) /\ backlog \in SUBSET Slots
  /\ gc \in [phase : {"take", "new", "check", "scan"}, todo : SUBSET Slots,
             unlock : Slots \cup {None}]
  /\ ApiQueue!TypeOK

InSeq(seq) == {seq[i] : i \in DOMAIN seq}

Tracked == InSeq(orphans) \cup backlog \cup gc.todo
Held == {fut[c] : c \in Clients} \ {None}
Served == InSeq(queue) \cup ({wslot[w] : w \in Workers} \ {None})

(* No use after free of a slot: whatever a client, the api_queue, a Raft   *)
(* worker or the GC still refers to is allocated, although client and GC   *)
(* free slots without asking Raft.                                         *)
NoDanglingSlot == Tracked \cup Held \cup Served \subseteq live

(* One owner: every allocated slot is held by exactly one client, or was   *)
(* abandoned by it and is tracked by the GC, never both, so nothing is     *)
(* leaked or freed twice.  The counters the tests compare at rest count    *)
(* what is really allocated: stats->call_alloc - call_free and             *)
(* buffer_alloc - buffer_free.                                             *)
OneOwner ==
  /\ \A c, d \in Clients : fut[c] = fut[d] /\ fut[c] # None => c = d
  /\ live = Held \cup Tracked
  /\ \A s \in live : s \in Tracked <=> slot[s].client_state = "Abandoned"
  /\ calls = Cardinality(live) /\ buffers = Cardinality(bufs)

(* Raft and the FSM never read a freed command, and client and GC never    *)
(* both free one: the buffer of an Apply stays allocated until the call is *)
(* answered, and the GC frees no buffer a client still holds.              *)
NoDanglingBuffer ==
  /\ \A s \in live : slot[s].cmd_buf # None /\ ~is_terminal(s) =>
                       slot[s].cmd_buf \in bufs
  /\ \A c \in Clients : buf[c] # None => buf[c] \in bufs

(* A result a client has read, with or without the mutex, is the final one *)
(* and was written: reply() stores the result before the state.  Only a    *)
(* failed call is ever read as RAFT_SUCCESS with the initial retval.       *)
(* poll() and wait_for() do not take back their word either: once one      *)
(* returned true, the call stays complete until the client disposes of it. *)
ResultIsFinal ==
  \A c \in Clients :
    /\ polled[c] => is_terminal(fut[c])
    /\ got[c] # None =>
         /\ is_terminal(fut[c]) /\ got[c] # "unset"
         /\ IF got[c] = "zero" THEN slot[fut[c]].state = "Error"
                               ELSE got[c] = slot[fut[c]].result

(* "RAFT_SUCCESS on success. RAFT_E_UNKNOWN_PEER if there is no current    *)
(* leader" (raft_if.h, raft_leader; likewise raft_last_index, "0 on        *)
(* error"): a call that failed is never read as a success.                 *)
ErrorsReported == \A c \in Clients : got[c] # "zero"

(* The calls as their clients see them (Calls). *)
Abandoned == {s \in live : slot[s].client_state = "Abandoned"}

AbstractCalls == INSTANCE Calls WITH
  Refusals <- {"in_shutdown", "invalid_address"}, Answers <- Replies,
  issued <- live \ Abandoned, orphaned <- Abandoned,
  answer <- [s \in Slots |-> IF s \in live /\ is_terminal(s)
                            THEN slot[s].result ELSE None]

(* Clients can rely on Calls: whatever the threads do, a call is answered  *)
(* at most once, its answer appears complete and does not change, and its  *)
(* slot is freed only after that, once.                                    *)
ImplementsCalls == AbstractCalls!Spec

(* wait() returns: a client that waits for a call gets its result, unless  *)
(* the queue is closed under it.                                           *)
WaitReturns ==
  \A c \in Clients :
     (pc[c] \in {"lock", "test", "block", "asleep"}) ~> (pc[c] = "ready" \/ closed)

(* The GC collects: a call that was abandoned is freed, unless the queue   *)
(* is closed before Raft took the call.                                    *)
OrphansFreed ==
  \A s \in Slots : (s \in live /\ slot[s].client_state = "Abandoned") ~>
                     (s \notin live \/ closed)

=============================================================================
