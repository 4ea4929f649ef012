----------------------------- MODULE FsmWorker -----------------------------
(***************************************************************************)
(* The client's side of the FSM (raft_c_if.cc, lower half): Raft sends     *)
(* FSMApply, FSMSnapshot and FSMRestore calls through fsm_queue; the FSM   *)
(* worker thread runs them against the client's FSM; snapshots are written *)
(* by a second thread, fed through the deque snapshot_queue, while further *)
(* commands are applied; raft_cleanup stops both threads.                  *)
(*                                                                         *)
(* The FSM is the letter counter of raft_client.c (the tests' DummyFSM     *)
(* does the same): a number that a command increments, a snapshot copies   *)
(* and a restore sets.  Raft is external: it allocates the calls, puts     *)
(* them without waiting for earlier ones, and frees a call once it has     *)
(* seen its reply under the slot's mutex (BaseSlot::wait).                 *)
(***************************************************************************)
EXTENDS Integers, Sequences, FiniteSets

CONSTANTS Raft, Fsm,   \* threads: Raft's FSM caller, the FSM worker
          Calls,       \* addresses of FSM call slots
          Capacity,    \* of fsm_queue
          MaxCount,    \* bound on the FSM's state
          None

ASSUME FsmAssumption ==
  /\ Capacity \in Nat \ {0} /\ MaxCount \in Nat
  /\ Raft # Fsm
  /\ None \notin Calls \cup {Raft, Fsm} \cup Nat

VARIABLES call,        \* the slots
          sending,     \* the call Raft is putting
          expected,    \* FSM state once all calls put so far have run
          fpc, fcur,   \* FSM worker: control, its call
          count,       \* the FSM's state (letter_count)
          jobs, snapClosed,  \* the deque snapshot_queue
          spc, job,    \* snapshot worker: control, its job
          mpc,         \* the thread that calls raft_cleanup
          queue, closed, stage  \* fsm_queue

raft == <<sending, expected>>
fsm == <<fpc, fcur, count>>
snap == <<jobs, spc, job>>
fsmq == <<queue, closed, stage>>
vars == <<call, raft, fsm, snap, snapClosed, mpc, fsmq>>

FsmQueue == INSTANCE BoundedFifo WITH
              Putters <- {Raft}, Takers <- {Fsm}, Values <- Calls,
              items <- queue,
              val <- [t \in {Raft, Fsm} |-> IF t = Raft THEN sending ELSE fcur]

Counts == 0 .. MaxCount

(* tag and log_type; the path of a restore names a snapshot of value arg,  *)
(* or cannot be read (None); due is what the call is to return, given the  *)
(* calls put before it.                                                    *)
Kinds == {"free", "command", "other", "snapshot", "restore"}
Call == [kind : Kinds, arg : Counts \cup {None}, due : Counts \cup {None},
         state : {"Pending", "Dispatched", "Success", "Error"},
         result : Counts \cup {None}, owned : {Fsm, None}]

NewCall(kind, arg) == [kind |-> kind, arg |-> arg, due |-> None,
                       state |-> "Pending", result |-> None, owned |-> None]

Allocated == {c \in Calls : call[c].kind # "free"}
Terminal(c) == call[c].state \in {"Success", "Error"}
Job == [call : Calls, copy : Counts]
NoJob == [call |-> None, copy |-> 0]

Init ==
  /\ call = [c \in Calls |-> NewCall("free", None)]
  /\ sending = None /\ expected = 0
  /\ fpc = "take" /\ fcur = None /\ count = 0
  /\ jobs = <<>> /\ snapClosed = FALSE /\ spc = "none" /\ job = NoJob
  /\ mpc = "run"
  /\ FsmQueue!Init

-----------------------------------------------------------------------------
(* Raft: send_fsm_request and the wait for its reply *)

RaftSend(c, kind, arg) ==
  /\ c \notin Allocated
  /\ kind = "command" => expected < MaxCount
  /\ call' = [call EXCEPT ![c] = NewCall(kind, arg)]
  /\ sending' = c
  /\ UNCHANGED <<expected, fsm, snap, snapClosed, mpc>>
  /\ FsmQueue!CallPut(Raft, c)

RaftEnter ==
  /\ UNCHANGED <<call, raft, fsm, snap, snapClosed, mpc>>
  /\ FsmQueue!Enter(Raft)

(* The state the FSM has after a call, given the one before it. *)
After(c, n) ==
  CASE call[c].kind = "command" -> n + 1
    [] call[c].kind = "restore" /\ call[c].arg # None -> call[c].arg
    [] OTHER -> n

(* Fault: put() does not wait for room. *)
RaftPutOverfull ==
  LET n == After(sending, expected) IN
  /\ stage[Raft] = "in"
  /\ call' = [call EXCEPT ![sending].due = n]
  /\ expected' = n
  /\ queue' = Append(queue, sending)
  /\ stage' = [stage EXCEPT ![Raft] = "out"]
  /\ UNCHANGED <<sending, fsm, snap, snapClosed, mpc, closed>>

RaftPut ==
  LET n == After(sending, expected) IN
  /\ stage[Raft] = "in"
  /\ call' = [call EXCEPT ![sending].due = n]
  /\ expected' = n
  /\ UNCHANGED <<sending, fsm, snap, snapClosed, mpc>>
  /\ FsmQueue!Put(Raft)

(* queue_closed is rethrown to Raft (throw_ok); the slot is leaked. *)
RaftRefused ==
  /\ UNCHANGED <<call, raft, fsm, snap, snapClosed, mpc>>
  /\ FsmQueue!Refuse(Raft)

RaftReceive(c) ==
  /\ c \in Allocated /\ Terminal(c) /\ call[c].owned = None
  /\ call' = [call EXCEPT ![c] = NewCall("free", None)]
  /\ UNCHANGED <<raft, fsm, snap, snapClosed, mpc, fsmq>>

-----------------------------------------------------------------------------
(* The FSM worker: run_fsm_worker, fsm_worker_step *)

FsmCall ==
  /\ fpc = "take"
  /\ UNCHANGED <<call, raft, fsm, snap, snapClosed, mpc>>
  /\ FsmQueue!CallTake(Fsm)

FsmEnter ==
  /\ UNCHANGED <<call, raft, fsm, snap, snapClosed, mpc>>
  /\ FsmQueue!Enter(Fsm)

FsmTake ==
  /\ queue # <<>>
  /\ fcur' = Head(queue) /\ fpc' = "lock"
  /\ UNCHANGED <<call, raft, count, snap, snapClosed, mpc>>
  /\ FsmQueue!Take(Fsm)

FsmRefused ==
  /\ fpc' = "exited"
  /\ UNCHANGED <<call, raft, fcur, count, snap, snapClosed, mpc>>
  /\ FsmQueue!Refuse(Fsm)

Dispatch(c) ==
  CASE call[c].kind = "command" -> "apply"
    [] call[c].kind = "restore" -> "restore"
    [] call[c].kind = "snapshot" -> "begin"
    [] call[c].kind = "other" -> "unlock"  \* only logged, never replied to

(* Fault: the slot stays locked while begin_snapshot runs. *)
FsmLockForSnapshot ==
  /\ fpc = "lock" /\ call[fcur].owned = None
  /\ call' = [call EXCEPT ![fcur].owned = Fsm]
  /\ fpc' = Dispatch(fcur)
  /\ UNCHANGED <<raft, fcur, count, snap, snapClosed, mpc, fsmq>>

(* Lock the slot and switch on the tag; FSMSnapshot unlocks it at once. *)
FsmLock ==
  /\ fpc = "lock" /\ call[fcur].owned = None
  /\ call' = IF call[fcur].kind = "snapshot" THEN call
             ELSE [call EXCEPT ![fcur].owned = Fsm]
  /\ fpc' = Dispatch(fcur)
  /\ UNCHANGED <<raft, fcur, count, snap, snapClosed, mpc, fsmq>>

(* dispatch_fsm_apply_cmd: Dispatched, then fsm->apply ... *)
FsmApply ==
  /\ fpc = "apply"
  /\ call' = [call EXCEPT ![fcur].state = "Dispatched"]
  /\ count' = count + 1
  /\ fpc' = "reply"
  /\ UNCHANGED <<raft, fcur, snap, snapClosed, mpc, fsmq>>

(* ... then the reply with what apply returned. *)
FsmReply ==
  /\ fpc = "reply"
  /\ call' = [call EXCEPT ![fcur].result = count, ![fcur].state = "Success"]
  /\ fpc' = "unlock"
  /\ UNCHANGED <<raft, fcur, count, snap, snapClosed, mpc, fsmq>>

(* FSMRestore: the state read from a snapshot, or the old one. *)
Restored(v) == IF v = None THEN count ELSE v

(* dispatch_fsm_restore: fsm->restore reads the snapshot, or fails. *)
FsmRestore ==
  LET v == call[fcur].arg IN
  /\ fpc = "restore"
  /\ count' = Restored(v)
  /\ call' = [call EXCEPT ![fcur].result = v,
                          ![fcur].state = IF v = None THEN "Error" ELSE "Success"]
  /\ fpc' = "unlock"
  /\ UNCHANGED <<raft, fcur, snap, snapClosed, mpc, fsmq>>

(* The lock of fsm_worker_step goes out of scope. *)
FsmUnlock ==
  /\ fpc = "unlock"
  /\ call' = [call EXCEPT ![fcur].owned = None]
  /\ fpc' = "take" /\ fcur' = None
  /\ UNCHANGED <<raft, count, snap, snapClosed, mpc, fsmq>>

(* FSMBeginSnapshot copies the state ... *)
SnapshotOf(c) == [call |-> c, copy |-> count]

(* Fault: a snapshot is answered like the other calls, when dispatched. *)
FsmBeginAsyncReplied ==
  /\ fpc = "begin" /\ ~snapClosed
  /\ jobs' = Append(jobs, SnapshotOf(fcur))
  /\ spc' = IF spc = "none" THEN "take" ELSE spc
  /\ call' = [call EXCEPT ![fcur].state = "Success", ![fcur].result = count]
  /\ fpc' = "take" /\ fcur' = None
  /\ UNCHANGED <<raft, count, job, snapClosed, mpc, fsmq>>

(* ... and hands a job to the snapshot worker, which                       *)
(* raft_fsm_take_snapshot starts when there is none.                       *)
FsmBeginAsync ==
  /\ fpc = "begin" /\ ~snapClosed
  /\ jobs' = Append(jobs, SnapshotOf(fcur))
  /\ spc' = IF spc = "none" THEN "take" ELSE spc
  /\ fpc' = "take" /\ fcur' = None
  /\ UNCHANGED <<call, raft, count, job, snapClosed, mpc, fsmq>>

(* raft_fsm_snapshot_complete: lock, reply, unlock. *)
Complete(c, success, written) ==
  /\ call[c].owned = None
  /\ call' = [call EXCEPT ![c].state = IF success THEN "Success" ELSE "Error",
                          ![c].result = IF success THEN written ELSE None]

(* An FSM may also write the snapshot itself and complete it on the spot. *)
FsmBeginSync ==
  /\ fpc = "begin"
  /\ \E success \in BOOLEAN : Complete(fcur, success, count)
  /\ fpc' = "take" /\ fcur' = None
  /\ UNCHANGED <<raft, count, snap, snapClosed, mpc, fsmq>>

-----------------------------------------------------------------------------
(* The snapshot worker *)

SnapTake ==
  /\ spc = "take" /\ ~snapClosed /\ jobs # <<>>
  /\ job' = Head(jobs) /\ jobs' = Tail(jobs)
  /\ spc' = "job"
  /\ UNCHANGED <<call, raft, fsm, snapClosed, mpc, fsmq>>

(* Fault: the snapshot holds what the FSM's state has become. *)
SnapJobLate ==
  /\ spc = "job"
  /\ \E success \in BOOLEAN : Complete(job.call, success, count)
  /\ spc' = "take" /\ job' = NoJob
  /\ UNCHANGED <<raft, fsm, jobs, snapClosed, mpc, fsmq>>

(* run_snapshot_job: open, write, close, any of which may fail. *)
SnapJob ==
  /\ spc = "job"
  /\ \E success \in BOOLEAN : Complete(job.call, success, job.copy)
  /\ spc' = "take" /\ job' = NoJob
  /\ UNCHANGED <<raft, fsm, jobs, snapClosed, mpc, fsmq>>

(* take() throws queue_closed, with jobs left in the deque or not. *)
SnapExit ==
  /\ spc = "take" /\ snapClosed
  /\ spc' = "exited"
  /\ UNCHANGED <<call, raft, fsm, jobs, job, snapClosed, mpc, fsmq>>

-----------------------------------------------------------------------------
(* raft_cleanup, up to shm_cleanup *)

CleanupCloseFsm ==
  /\ mpc = "run"
  /\ mpc' = "joinFsm"
  /\ UNCHANGED <<call, raft, fsm, snap, snapClosed>>
  /\ FsmQueue!Close

(* Fault: the FSM worker is not waited for. *)
CleanupDetachFsm ==
  /\ mpc = "joinFsm"
  /\ mpc' = "closeSnap"
  /\ UNCHANGED <<call, raft, fsm, snap, snapClosed, fsmq>>

CleanupJoinFsm ==
  /\ mpc = "joinFsm" /\ fpc = "exited"
  /\ mpc' = "closeSnap"
  /\ UNCHANGED <<call, raft, fsm, snap, snapClosed, fsmq>>

CleanupCloseSnap ==
  /\ mpc = "closeSnap"
  /\ snapClosed' = TRUE /\ mpc' = "joinSnap"
  /\ UNCHANGED <<call, raft, fsm, snap, fsmq>>

CleanupJoinSnap ==
  /\ mpc = "joinSnap" /\ spc \in {"none", "exited"}
  /\ spc' = "none" /\ mpc' = "done"
  /\ UNCHANGED <<call, raft, fsm, jobs, job, snapClosed, fsmq>>

-----------------------------------------------------------------------------

RaftStep == RaftEnter \/ RaftPut \/ RaftRefused \/ \E c \in Calls : RaftReceive(c)

FsmStep ==
  \/ FsmCall \/ FsmEnter \/ FsmTake \/ FsmRefused \/ FsmLock
  \/ FsmApply \/ FsmReply \/ FsmRestore \/ FsmUnlock
  \/ FsmBeginAsync \/ FsmBeginSync

SnapStep == SnapTake \/ SnapJob \/ SnapExit

Cleanup == CleanupCloseFsm \/ CleanupJoinFsm \/ CleanupCloseSnap \/ CleanupJoinSnap

Next ==
  \/ \E c \in Calls, kind \in Kinds \ {"free"}, arg \in Counts \cup {None} :
       (kind = "restore" \/ arg = None) /\ RaftSend(c, kind, arg)
  \/ RaftStep \/ FsmStep \/ SnapStep \/ Cleanup

Spec == Init /\ [][Next]_vars

(* Both worker threads run, and Raft finishes a put it began. *)
Fairness == WF_vars(RaftEnter \/ RaftPut) /\ WF_vars(FsmStep) /\ WF_vars(SnapStep)

FairSpec == Spec /\ Fairness

-----------------------------------------------------------------------------
(* Properties *)

(* Type invariant of the calls, the two workers and their queues           *)
(* (raft_c_if.cc, SnapshotJob and the FSM half).                           *)
TypeOK ==
  /\ call \in [Calls -> Call]
  /\ sending \in Calls \cup {None} /\ expected \in Counts
  /\ fpc \in {"take", "lock", "apply", "reply", "restore", "begin", "unlock",
              "exited"}
  /\ fcur \in Calls \cup {None} /\ count \in Counts
  /\ jobs \in Seq(Job) /\ snapClosed \in BOOLEAN
  /\ spc \in {"none", "take", "job", "exited"} /\ job \in Job \cup {NoJob}
  /\ mpc \in {"run", "joinFsm", "closeSnap", "joinSnap", "done"}
  /\ FsmQueue!TypeOK

(* Answers are those of a sequential FSM: a command returns the state      *)
(* after exactly the calls put before it, and a snapshot holds that state, *)
(* however many commands run while it is being written.                    *)
AnswersInOrder ==
  \A c \in Allocated : call[c].state = "Success" => call[c].result = call[c].due

(* The calls this process still works on, with repetitions. *)
Places(c) ==
  Cardinality({i \in DOMAIN queue : queue[i] = c})
  + (IF fcur = c THEN 1 ELSE 0)
  + Cardinality({i \in DOMAIN jobs : jobs[i].call = c})
  + (IF job.call = c THEN 1 ELSE 0)

(* Each call is worked on in one place and not answered before, so the     *)
(* asserts of fsm_worker_step (Pending) and reply() (not terminal) hold    *)
(* and Raft, which frees answered calls, never frees one still in use.     *)
WorkedOnOnce ==
  \A c \in Calls :
    /\ Places(c) <= 1
    /\ Places(c) = 1 => c \in Allocated /\ (Terminal(c) => fpc = "unlock" /\ fcur = c)
    /\ fpc = "lock" /\ fcur = c => call[c].state = "Pending"

(* raft_cleanup tears down in order: when it goes on to unmap the shared   *)
(* memory, no thread is left that could answer a call in it; the FSM       *)
(* worker, which may start the snapshot worker, has gone before the check  *)
(* whether there is one to join.                                           *)
NoAnswerAfterCleanup ==
  mpc = "done" => fpc = "exited" /\ spc = "none" /\ job = NoJob

(* Every command, restore or snapshot in fsm_queue is answered, unless the *)
(* client cleans up; a snapshot that completes inside begin_snapshot does  *)
(* not block on the slot its own thread works on.                          *)
CallsAnswered ==
  \A c \in Calls :
    (c \in Allocated /\ Places(c) = 1 /\ call[c].kind # "other")
       ~> (c \notin Allocated \/ Terminal(c) \/ closed)

=============================================================================
