-------------------------- MODULE FsmWorkerProofs --------------------------
(***************************************************************************)
(* Proofs of the safety properties of FsmWorker, for any set of call       *)
(* slots, any capacity of fsm_queue and any bound on the FSM's state.      *)
(*                                                                         *)
(* That answers are those of a sequential FSM needs to know, for every     *)
(* call in the queue, what the FSM's state will be when its turn comes:    *)
(* OrderInv chains what the calls are to return from the FSM's state, over *)
(* the call being run, to the last call put.  The rest of IInv says where  *)
(* a call can be and what may have happened to it there.                   *)
(***************************************************************************)
EXTENDS FsmWorker, TLAPS

Busy == {"lock", "apply", "reply", "restore", "begin", "unlock"}
Held == {"apply", "reply", "restore", "unlock"}
ToRun == {"lock", "apply", "restore"}

Queued(c) == \E n \in 1 .. Len(queue) : queue[n] = c
InJobs(c) == \E n \in 1 .. Len(jobs) : jobs[n].call = c

(* While Raft puts a call, nobody else knows it. *)
SendInv ==
  stage[Raft] # "out" =>
    /\ sending \in Allocated /\ call[sending].state = "Pending"
    /\ call[sending].owned = None
    /\ ~Queued(sending) /\ ~InJobs(sending) /\ fcur # sending /\ job.call # sending
    /\ call[sending].kind = "command" => expected < MaxCount

(* fsm_queue holds pending calls, each once and nowhere else. *)
QueueInv ==
  \A n \in 1 .. Len(queue) :
    /\ queue[n] \in Allocated /\ call[queue[n]].state = "Pending"
    /\ call[queue[n]].owned = None /\ call[queue[n]].due \in Counts
    /\ ~InJobs(queue[n]) /\ fcur # queue[n] /\ job.call # queue[n]
    /\ \A m \in 1 .. Len(queue) : queue[m] = queue[n] => m = n

(* The FSM worker has a call from take() to the end of fsm_worker_step; it *)
(* has the slot's mutex from the switch on, but not for a snapshot.        *)
FsmInv ==
  /\ fpc \in Busy <=> fcur # None
  /\ fpc # "take" => stage[Fsm] = "out"
  /\ fcur # None =>
       /\ fcur \in Allocated /\ ~InJobs(fcur) /\ job.call # fcur
       /\ call[fcur].owned = IF fpc \in Held THEN Fsm ELSE None
       /\ Terminal(fcur) => fpc = "unlock"
       /\ fpc = "lock" => call[fcur].state = "Pending"
       /\ fpc # "unlock" => call[fcur].due \in Counts
       /\ fpc \in {"apply", "reply"} => call[fcur].kind = "command"
       /\ fpc = "restore" => call[fcur].kind = "restore"
       /\ fpc = "begin" => call[fcur].kind = "snapshot"

(* A job is for an unanswered snapshot, whose state it holds. *)
JobFor(j) ==
  /\ j.call \in Allocated /\ call[j.call].kind = "snapshot" /\ ~Terminal(j.call)
  /\ call[j.call].owned = None /\ call[j.call].due = j.copy

JobInv ==
  /\ spc = "job" <=> job.call # None
  /\ job.call # None => JobFor(job)
  /\ \A n \in 1 .. Len(jobs) :
       /\ JobFor(jobs[n]) /\ job.call # jobs[n].call
       /\ \A m \in 1 .. Len(jobs) : jobs[m].call = jobs[n].call => m = n

(* The FSM's state once the call being run has run, and once all calls     *)
(* before the n-th in the queue have                                       *)
Now == IF fpc \in ToRun THEN call[fcur].due ELSE count
Before(n) == IF n = 1 THEN Now ELSE call[queue[n - 1]].due

OrderInv ==
  /\ fpc \in ToRun => call[fcur].due = After(fcur, count)
  /\ fpc \in {"reply", "begin"} => call[fcur].due = count
  /\ \A n \in 1 .. Len(queue) : call[queue[n]].due = After(queue[n], Before(n))
  /\ expected = Before(Len(queue) + 1)

(* raft_cleanup is past the join of a thread only if the thread has ended. *)
CleanupInv ==
  /\ mpc \in {"closeSnap", "joinSnap", "done"} => fpc = "exited"
  /\ mpc = "done" => spc = "none"

IInv == TypeOK /\ SendInv /\ QueueInv /\ FsmInv /\ JobInv /\ OrderInv
          /\ AnswersInOrder /\ CleanupInv

-----------------------------------------------------------------------------
(* The cardinality of the smallest sets, from its definition *)

LEMMA NoElement == Cardinality({}) = 0
<1>1. [T \in SUBSET {} |-> 0] =
        [T \in SUBSET {} |-> IF T = {} THEN 0
                             ELSE 1 + [U \in SUBSET {} |-> 0][T \ {CHOOSE x : x \in T}]]
  OBVIOUS
<1>2. \E f : f = [T \in SUBSET {} |-> IF T = {} THEN 0 ELSE 1 + f[T \ {CHOOSE x : x \in T}]]
  BY <1>1
<1> QED
  BY <1>2 DEF Cardinality

LEMMA OneElement == ASSUME NEW e PROVE Cardinality({e}) = 1
<1> DEFINE D == SUBSET {e}
           CS == CHOOSE f : f = [T \in D |-> IF T = {} THEN 0
                                             ELSE 1 + f[T \ {CHOOSE x : x \in T}]]
           g == [T \in D |-> IF T = {} THEN 0 ELSE 1]
<1>1. D = {{}, {e}} /\ (CHOOSE x : x \in {e}) = e
  OBVIOUS
<1>2. CS = [T \in D |-> IF T = {} THEN 0 ELSE 1 + CS[T \ {CHOOSE x : x \in T}]]
  <2>1. g[{}] = 0
    BY <1>1
  <2>2. ASSUME NEW T \in D, T # {} PROVE T \ {CHOOSE x : x \in T} = {}
    BY <1>1, <2>2
  <2>3. g = [T \in D |-> IF T = {} THEN 0 ELSE 1 + g[T \ {CHOOSE x : x \in T}]]
    BY <2>1, <2>2
  <2>4. \E f : f = [T \in D |-> IF T = {} THEN 0 ELSE 1 + f[T \ {CHOOSE x : x \in T}]]
    BY Zenon, <2>3
  <2> QED
    BY Zenon, <2>4
<1>3. Cardinality({e}) = CS[{e}]
  BY DEF Cardinality
<1> HIDE DEF CS
<1>4. CS[{}] = 0
  BY <1>1, <1>2
<1>5. {e} \ {CHOOSE x : x \in {e}} = {}
  BY <1>1
<1>6. CS[{e}] = 1 + CS[{}]
  BY <1>1, <1>2, <1>5
<1> QED
  BY <1>3, <1>4, <1>6

-----------------------------------------------------------------------------
(* What a step leaves alone *)

(* A part of the invariant is kept by a step that leaves alone what it is about. *)
LEMMA Frames ==
  ASSUME IInv
  PROVE  /\ UNCHANGED <<call, sending, expected, queue, jobs, job, fcur, stage>> => SendInv'
         /\ UNCHANGED <<call, queue, jobs, job, fcur>> => QueueInv'
         /\ UNCHANGED <<call, fpc, fcur, jobs, job, stage>> => FsmInv'
         /\ UNCHANGED <<call, spc, job, jobs>> => JobInv'
         /\ UNCHANGED <<call, fpc, fcur, count, queue, expected>> => OrderInv'
         /\ UNCHANGED call => AnswersInOrder'
         /\ UNCHANGED <<mpc, fpc, spc>> => CleanupInv'
<1>1. ASSUME UNCHANGED <<call, sending, expected, queue, jobs, job, fcur, stage>>
      PROVE  SendInv'
  BY <1>1 DEF IInv, SendInv, Queued, InJobs, Allocated
<1>2. ASSUME UNCHANGED <<call, queue, jobs, job, fcur>>
      PROVE  QueueInv'
  BY <1>2 DEF IInv, QueueInv, InJobs, Allocated
<1>3. ASSUME UNCHANGED <<call, fpc, fcur, jobs, job, stage>>
      PROVE  FsmInv'
  BY <1>3 DEF IInv, FsmInv, InJobs, Allocated, Terminal
<1>4. ASSUME UNCHANGED <<call, spc, job, jobs>>
      PROVE  JobInv'
  BY <1>4 DEF IInv, JobInv, JobFor, Allocated, Terminal
<1>5. ASSUME UNCHANGED <<call, fpc, fcur, count, queue, expected>>
      PROVE  OrderInv'
  BY <1>5 DEF IInv, OrderInv, Before, Now, After
<1>6. ASSUME UNCHANGED call PROVE AnswersInOrder'
  BY <1>6 DEF IInv, AnswersInOrder, Allocated
<1>7. ASSUME UNCHANGED <<mpc, fpc, spc>> PROVE CleanupInv'
  BY <1>7 DEF IInv, CleanupInv
<1> QED
  BY <1>1, <1>2, <1>3, <1>4, <1>5, <1>6, <1>7

(* What put() and take() do to a queue, as a sequence. *)
LEMMA Appended ==
  ASSUME NEW S, NEW s \in Seq(S), NEW e \in S
  PROVE  /\ Append(s, e) \in Seq(S) /\ Len(Append(s, e)) = Len(s) + 1
         /\ \A n \in 1 .. Len(s) : Append(s, e)[n] = s[n]
         /\ Append(s, e)[Len(s) + 1] = e
         /\ \A n \in 1 .. Len(Append(s, e)) : n \in 1 .. Len(s) \/ n = Len(s) + 1
OBVIOUS

LEMMA Taken ==
  ASSUME NEW S, NEW s \in Seq(S), s # <<>>
  PROVE  /\ Tail(s) \in Seq(S) /\ Len(Tail(s)) = Len(s) - 1 /\ 1 \in 1 .. Len(s)
         /\ \A n \in 1 .. Len(Tail(s)) : Tail(s)[n] = s[n + 1] /\ n + 1 \in 1 .. Len(s)
         /\ Head(s) = s[1] /\ s[1] \in S
OBVIOUS

(* Types of what a step leaves alone, and of fsm_queue. *)
LEMMA Types ==
  ASSUME TypeOK
  PROVE  /\ queue \in Seq(Calls) /\ Len(queue) \in Nat /\ Len(queue) <= Capacity
         /\ jobs \in Seq(Job) /\ Len(jobs) \in Nat
         /\ \A n \in 1 .. Len(queue) : queue[n] \in Calls
         /\ \A n \in 1 .. Len(jobs) : jobs[n] \in Job
         /\ stage \in [{Raft, Fsm} -> {"out", "called", "in"}] /\ closed \in BOOLEAN
         /\ sending \in Calls \cup {None} /\ fcur \in Calls \cup {None}
BY DEF TypeOK, FsmQueue!TypeOK, FsmQueue!Callers, FsmQueue!Stages

(* What TypeOK says of fsm_queue, where Raft and the FSM worker call it. *)
LEMMA QueueTypes ==
  ASSUME sending' \in Calls \cup {None}, fcur' \in Calls \cup {None},
         queue' \in Seq(Calls), Len(queue') <= Capacity, closed' \in BOOLEAN,
         stage' \in [{Raft, Fsm} -> {"out", "called", "in"}]
  PROVE  FsmQueue!TypeOK'
BY FsmAssumption DEF FsmQueue!TypeOK, FsmQueue!Callers, FsmQueue!Stages

(* The worker has a call while there is something to do for one. *)
LEMMA HasCall ==
  ASSUME IInv
  PROVE  /\ fpc \in ToRun \cup {"reply", "begin"} => fcur \in Calls
         /\ fpc \in ToRun => call[fcur].due = After(fcur, count)
         /\ fpc \in {"reply", "begin"} => call[fcur].due = count
         /\ Now \in Counts
BY FsmAssumption DEF IInv, TypeOK, FsmInv, OrderInv, Busy, ToRun, Now

(* The other calls, wherever they are, are left alone. *)
LEMMA OthersKept ==
  ASSUME IInv, NEW c \in Calls, \A x \in Calls : x # c => call'[x] = call[x]
  PROVE  /\ ~Queued(c) => \A n \in 1 .. Len(queue) : call'[queue[n]] = call[queue[n]]
         /\ ~InJobs(c) => \A n \in 1 .. Len(jobs) : call'[jobs[n].call] = call[jobs[n].call]
         /\ fcur # c => (fcur # None => call'[fcur] = call[fcur])
         /\ job.call # c => (job.call # None => call'[job.call] = call[job.call])
<1>1. ASSUME ~Queued(c), NEW n \in 1 .. Len(queue) PROVE call'[queue[n]] = call[queue[n]]
  BY <1>1, Types DEF IInv, Queued
<1>2. ASSUME ~InJobs(c), NEW n \in 1 .. Len(jobs)
      PROVE  call'[jobs[n].call] = call[jobs[n].call]
  BY <1>2, Types DEF IInv, InJobs, Job
<1>3. fcur # c => (fcur # None => call'[fcur] = call[fcur])
  BY Types DEF IInv
<1>4. job.call # c => (job.call # None => call'[job.call] = call[job.call])
  BY DEF IInv, TypeOK, Job, NoJob
<1> QED
  BY <1>1, <1>2, <1>3, <1>4

(* Nothing happens to the calls in fsm_queue. *)
LEMMA QueueKept ==
  ASSUME IInv, UNCHANGED <<fcur, queue, jobs, job>>,
         \A n \in 1 .. Len(queue) : call'[queue[n]] = call[queue[n]]
  PROVE  QueueInv'
<1>1. \A n \in 1 .. Len(queue) : queue[n] \in Allocated'
  BY DEF IInv, QueueInv, Allocated
<1> QED
  BY <1>1 DEF IInv, QueueInv, InJobs

(* Nothing happens to the call the FSM worker has. *)
LEMMA FsmKept ==
  ASSUME IInv, UNCHANGED <<fpc, fcur, jobs, job>>, stage'[Fsm] = stage[Fsm],
         fcur # None => call'[fcur] = call[fcur]
  PROVE  FsmInv'
<1>1. fcur # None => fcur \in Allocated'
  BY DEF IInv, FsmInv, Allocated
<1> QED
  BY <1>1 DEF IInv, FsmInv, InJobs, Terminal

(* Nothing happens to the calls of the snapshot worker's jobs. *)
LEMMA JobsKept ==
  ASSUME IInv, UNCHANGED <<spc, job, jobs>>,
         job.call # None => call'[job.call] = call[job.call],
         \A n \in 1 .. Len(jobs) : call'[jobs[n].call] = call[jobs[n].call]
  PROVE  JobInv'
<1>1. job.call # None => JobFor(job)'
  BY DEF IInv, JobInv, JobFor, Allocated, Terminal
<1>2. \A n \in 1 .. Len(jobs) : JobFor(jobs[n])'
  BY DEF IInv, JobInv, JobFor, Allocated, Terminal
<1> QED
  BY <1>1, <1>2 DEF IInv, JobInv

(* A step that does not change the queue must leave the FSM on its course. *)
LEMMA OrderMoves ==
  ASSUME IInv, UNCHANGED <<queue, expected>>, Now' = Now,
         \A n \in 1 .. Len(queue) : call'[queue[n]] = call[queue[n]],
         fpc' \in ToRun => call'[fcur'].due = After(fcur, count)',
         fpc' \in {"reply", "begin"} => call'[fcur'].due = count'
  PROVE  OrderInv'
<1>1. \A n \in 1 .. Len(queue) + 1 : Before(n)' = Before(n)
  BY Types DEF IInv, Before
<1>2. ASSUME NEW n \in 1 .. Len(queue)
      PROVE  call'[queue[n]].due = After(queue[n], Before(n))'
  <2>1. Before(n)' = Before(n) /\ call'[queue[n]] = call[queue[n]]
    BY <1>1, Types DEF IInv
  <2>2. call[queue[n]].due = After(queue[n], Before(n))
    BY DEF IInv, OrderInv
  <2> QED
    BY <2>1, <2>2 DEF After
<1>3. expected = Before(Len(queue) + 1)'
  BY <1>1, Types DEF IInv, OrderInv
<1> QED
  BY <1>2, <1>3 DEF OrderInv

(* In particular one that does nothing to the worker and its call. *)
LEMMA OrderKept ==
  ASSUME IInv, UNCHANGED <<fpc, fcur, count, queue, expected>>,
         \A n \in 1 .. Len(queue) : call'[queue[n]] = call[queue[n]],
         fcur # None => call'[fcur] = call[fcur]
  PROVE  OrderInv'
<1>1. fcur \in Calls => call'[fcur] = call[fcur]
  BY FsmAssumption
<1>2. fpc \in ToRun => call'[fcur].due = After(fcur, count)'
  BY <1>1, HasCall DEF After
<1>3. fpc \in {"reply", "begin"} => call'[fcur].due = count
  BY <1>1, HasCall
<1>4. Now' = Now
  BY <1>1, HasCall DEF Now
<1> QED
  BY Zenon, <1>2, <1>3, <1>4, OrderMoves

(* A call that Raft is putting stays out of everybody else's hands. *)
LEMMA SendKept ==
  ASSUME IInv, UNCHANGED <<sending, expected>>, stage'[Raft] = stage[Raft],
         stage[Raft] # "out" => /\ call'[sending] = call[sending]
                                /\ fcur' # sending /\ job'.call # sending
                                /\ ~Queued(sending)' /\ ~InJobs(sending)'
  PROVE  SendInv'
BY DEF IInv, SendInv, Allocated

(* So does a call in the queue. *)
LEMMA QueueMoves ==
  ASSUME IInv, queue' = queue,
         \A n \in 1 .. Len(queue) :
           /\ call'[queue[n]] = call[queue[n]]
           /\ fcur' # queue[n] /\ job'.call # queue[n]
           /\ \A m \in 1 .. Len(jobs') : jobs'[m].call # queue[n]
  PROVE  QueueInv'
<1>1. \A n \in 1 .. Len(queue) : queue[n] \in Allocated'
  BY DEF IInv, QueueInv, Allocated
<1> QED
  BY <1>1 DEF IInv, QueueInv, InJobs

(* The call that the worker has is nowhere else. *)
LEMMA CurrentAlone ==
  ASSUME IInv, fcur # None
  PROVE  /\ fcur \in Calls /\ fcur \in Allocated
         /\ ~Queued(fcur) /\ ~InJobs(fcur) /\ job.call # fcur
         /\ stage[Raft] # "out" => sending # fcur
BY DEF IInv, FsmInv, QueueInv, SendInv, Queued, Allocated

(* What the worker does to its call is no concern of the others. *)
LEMMA CurrentOnly ==
  ASSUME IInv, fcur # None, \A x \in Calls : x # fcur => call'[x] = call[x],
         UNCHANGED <<sending, expected, stage, queue, fcur, jobs, job, spc>>
  PROVE  /\ SendInv' /\ QueueInv' /\ JobInv'
         /\ \A n \in 1 .. Len(queue) : call'[queue[n]] = call[queue[n]]
<1>1. /\ \A n \in 1 .. Len(queue) : call'[queue[n]] = call[queue[n]]
      /\ \A n \in 1 .. Len(jobs) : call'[jobs[n].call] = call[jobs[n].call]
      /\ job.call # None => call'[job.call] = call[job.call]
  BY Zenon, CurrentAlone, OthersKept
<1>2. QueueInv' /\ JobInv'
  BY Zenon, <1>1, QueueKept, JobsKept
<1>3. stage[Raft] # "out" => call'[sending] = call[sending]
  BY CurrentAlone DEF IInv, SendInv, Allocated
<1>4. SendInv'
  BY <1>3 DEF IInv, SendInv, Queued, InJobs, Allocated
<1> QED
  BY <1>1, <1>2, <1>4

-----------------------------------------------------------------------------
(* What an assignment to a field of a call slot changes *)

(* The fields of c are those given, all other slots are left alone. *)
CallIs(c, kind, arg, due, state, result, owned) ==
  /\ call' \in [Calls -> Call]
  /\ \A x \in Calls : x # c => call'[x] = call[x]
  /\ call'[c].kind = kind /\ call'[c].arg = arg /\ call'[c].due = due
  /\ call'[c].state = state /\ call'[c].result = result /\ call'[c].owned = owned

(* A slot is allocated or freed. *)
LEMMA NewSet ==
  ASSUME call \in [Calls -> Call], NEW c \in Calls, NEW k \in Kinds,
         NEW a \in Counts \cup {None}, call' = [call EXCEPT ![c] = NewCall(k, a)]
  PROVE  CallIs(c, k, a, None, "Pending", None, None)
BY DEF Call, CallIs, NewCall

(* What a call is to return is noted when it is put. *)
LEMMA DueSet ==
  ASSUME call \in [Calls -> Call], NEW c \in Calls, NEW v \in Counts,
         call' = [call EXCEPT ![c].due = v]
  PROVE  CallIs(c, call[c].kind, call[c].arg, v, call[c].state, call[c].result, call[c].owned)
BY DEF Call, CallIs

(* Only the mutex of a slot changes hands. *)
LEMMA OwnedSet ==
  ASSUME call \in [Calls -> Call], NEW c \in Calls, NEW v \in {Fsm, None},
         call' = [call EXCEPT ![c].owned = v]
  PROVE  CallIs(c, call[c].kind, call[c].arg, call[c].due, call[c].state, call[c].result, v)
BY DEF Call, CallIs

(* A command is dispatched. *)
LEMMA DispatchedSet ==
  ASSUME call \in [Calls -> Call], NEW c \in Calls,
         call' = [call EXCEPT ![c].state = "Dispatched"]
  PROVE  CallIs(c, call[c].kind, call[c].arg, call[c].due, "Dispatched", call[c].result,
                call[c].owned)
BY DEF Call, CallIs

(* reply(): a result and a terminal state *)
LEMMA ReplySet ==
  ASSUME call \in [Calls -> Call], NEW c \in Calls, NEW v \in Counts \cup {None},
         NEW st \in {"Success", "Error"},
         \/ call' = [call EXCEPT ![c].result = v, ![c].state = st]
         \/ call' = [call EXCEPT ![c].state = st, ![c].result = v]
  PROVE  CallIs(c, call[c].kind, call[c].arg, call[c].due, st, v, call[c].owned)
<1> DEFINE new == [kind |-> call[c].kind, arg |-> call[c].arg, due |-> call[c].due,
                   state |-> st, result |-> v, owned |-> call[c].owned]
<1>1. new \in Call
  BY DEF Call
<1>2. call[c] = [kind |-> call[c].kind, arg |-> call[c].arg, due |-> call[c].due,
                 state |-> call[c].state, result |-> call[c].result,
                 owned |-> call[c].owned]
  BY DEF Call
<1>3. call' = [call EXCEPT ![c] = new]
  BY <1>2
<1> QED
  BY <1>1, <1>3 DEF CallIs

(* A step that answers a call must give it what it is due. *)
LEMMA AnswersKept ==
  ASSUME IInv, NEW c \in Calls, NEW k, NEW a, NEW d, NEW st, NEW r, NEW o,
         CallIs(c, k, a, d, st, r, o), k # "free" /\ st = "Success" => r = d
  PROVE  AnswersInOrder'
BY DEF IInv, AnswersInOrder, CallIs, Allocated

-----------------------------------------------------------------------------
(* Raft's steps *)

(* The new slot was free, so it is in no queue and no worker has it. *)
LEMMA RaftSendKeeps ==
  ASSUME IInv, NEW c \in Calls, NEW k \in Kinds \ {"free"}, NEW a \in Counts \cup {None},
         RaftSend(c, k, a)
  PROVE  IInv'
<1>1. /\ c \notin Allocated /\ (k = "command" => expected < MaxCount)
      /\ call' = [call EXCEPT ![c] = NewCall(k, a)] /\ sending' = c
      /\ stage' = [stage EXCEPT ![Raft] = "called"]
      /\ UNCHANGED <<expected, fpc, fcur, count, jobs, spc, job, snapClosed, mpc, queue, closed>>
  BY DEF RaftSend, FsmQueue!CallPut, fsm, snap
<1>2. CallIs(c, k, a, None, "Pending", None, None)
  BY Zenon, <1>1, NewSet DEF IInv, TypeOK
<1>3. fcur # c /\ job.call # c /\ ~Queued(c) /\ ~InJobs(c)
  BY <1>1, FsmAssumption DEF IInv, FsmInv, QueueInv, JobInv, JobFor, Queued, InJobs
<1>4. /\ \A n \in 1 .. Len(queue) : call'[queue[n]] = call[queue[n]]
      /\ \A n \in 1 .. Len(jobs) : call'[jobs[n].call] = call[jobs[n].call]
      /\ fcur # None => call'[fcur] = call[fcur]
      /\ job.call # None => call'[job.call] = call[job.call]
  BY Zenon, <1>2, <1>3, OthersKept DEF CallIs
<1>5. stage'[Fsm] = stage[Fsm]
  BY <1>1, Types, FsmAssumption DEF IInv
<1>6. TypeOK'
  <2>1. FsmQueue!TypeOK'
    BY <1>1, Types, QueueTypes DEF IInv
  <2> QED
    BY <1>1, <1>2, <2>1 DEF IInv, TypeOK, CallIs
<1>7. SendInv'
  BY <1>1, <1>2, <1>3 DEF SendInv, CallIs, Queued, InJobs, Allocated
<1>8. QueueInv' /\ FsmInv' /\ JobInv' /\ OrderInv'
  BY Zenon, <1>1, <1>4, <1>5, QueueKept, FsmKept, JobsKept, OrderKept
<1>9. AnswersInOrder'
  BY <1>2 DEF IInv, AnswersInOrder, CallIs, Allocated
<1> QED
  BY Zenon, <1>1, <1>6, <1>7, <1>8, <1>9, Frames DEF IInv

LEMMA RaftEnterKeeps ==
  ASSUME IInv, RaftEnter
  PROVE  IInv'
<1>1. /\ stage[Raft] = "called" /\ stage' = [stage EXCEPT ![Raft] = "in"]
      /\ UNCHANGED <<call, sending, expected, fpc, fcur, count, jobs, spc, job, snapClosed,
                     mpc, queue, closed>>
  BY DEF RaftEnter, FsmQueue!Enter, raft, fsm, snap
<1>2. stage'[Fsm] = stage[Fsm]
  BY <1>1, Types, FsmAssumption DEF IInv
<1>3. TypeOK'
  <2>1. FsmQueue!TypeOK'
    BY <1>1, Types, QueueTypes DEF IInv
  <2> QED
    BY <1>1, <2>1 DEF IInv, TypeOK
<1>4. SendInv'
  BY <1>1 DEF IInv, SendInv, Queued, InJobs, Allocated
<1>5. FsmInv'
  BY Zenon, <1>1, <1>2, FsmKept
<1> QED
  BY Zenon, <1>1, <1>3, <1>4, <1>5, Frames DEF IInv

LEMMA RaftRefusedKeeps ==
  ASSUME IInv, RaftRefused
  PROVE  IInv'
<1>1. /\ stage' = [stage EXCEPT ![Raft] = "out"]
      /\ UNCHANGED <<call, sending, expected, fpc, fcur, count, jobs, spc, job, snapClosed,
                     mpc, queue, closed>>
  BY DEF RaftRefused, FsmQueue!Refuse, raft, fsm, snap
<1>2. stage'[Fsm] = stage[Fsm] /\ stage'[Raft] = "out"
  BY <1>1, Types, FsmAssumption DEF IInv
<1>3. TypeOK'
  <2>1. FsmQueue!TypeOK'
    BY <1>1, Types, QueueTypes DEF IInv
  <2> QED
    BY <1>1, <2>1 DEF IInv, TypeOK
<1>4. SendInv'
  BY <1>2 DEF SendInv
<1>5. FsmInv'
  BY Zenon, <1>1, <1>2, FsmKept
<1> QED
  BY Zenon, <1>1, <1>3, <1>4, <1>5, Frames DEF IInv

(* The call put extends the chain of what the FSM's state will be. *)
LEMMA RaftPutKeeps ==
  ASSUME IInv, RaftPut
  PROVE  IInv'
<1> DEFINE v == After(sending, expected)
<1>1. /\ stage[Raft] = "in" /\ call' = [call EXCEPT ![sending].due = v] /\ expected' = v
      /\ Len(queue) < Capacity /\ queue' = Append(queue, sending)
      /\ stage' = [stage EXCEPT ![Raft] = "out"]
      /\ UNCHANGED <<sending, fpc, fcur, count, jobs, spc, job, snapClosed, mpc, closed>>
  BY DEF RaftPut, FsmQueue!Put, fsm, snap
<1>2. /\ sending \in Calls /\ sending \in Allocated /\ call[sending].state = "Pending"
      /\ call[sending].owned = None
      /\ ~Queued(sending) /\ ~InJobs(sending) /\ fcur # sending /\ job.call # sending
  BY <1>1 DEF IInv, SendInv, Allocated
<1>3. v \in Counts
  BY <1>1, <1>2, FsmAssumption DEF IInv, SendInv, TypeOK, After, Counts, Call, Kinds
<1> HIDE DEF v
<1>4. CallIs(sending, call[sending].kind, call[sending].arg, v, call[sending].state,
             call[sending].result, call[sending].owned)
  BY Zenon, <1>1, <1>2, <1>3, DueSet DEF IInv, TypeOK
<1>5. /\ \A n \in 1 .. Len(queue) : call'[queue[n]] = call[queue[n]]
      /\ \A n \in 1 .. Len(jobs) : call'[jobs[n].call] = call[jobs[n].call]
      /\ fcur # None => call'[fcur] = call[fcur]
      /\ job.call # None => call'[job.call] = call[job.call]
  BY Zenon, <1>2, <1>4, OthersKept DEF CallIs
<1>6. /\ queue' \in Seq(Calls) /\ Len(queue') = Len(queue) + 1
      /\ \A n \in 1 .. Len(queue) : queue'[n] = queue[n] /\ queue[n] # sending
      /\ queue'[Len(queue) + 1] = sending
      /\ \A n \in 1 .. Len(queue') : n \in 1 .. Len(queue) \/ n = Len(queue) + 1
  <2>1. queue \in Seq(Calls)
    BY Zenon, Types DEF IInv
  <2>2. \A n \in 1 .. Len(queue) : queue[n] # sending
    BY Zenon, <1>2 DEF Queued
  <2> QED
    BY <1>1, <1>2, <2>1, <2>2, Appended
<1>7. stage'[Fsm] = stage[Fsm] /\ stage'[Raft] = "out"
  BY <1>1, Types, FsmAssumption DEF IInv
<1>8. TypeOK'
  <2>1. Len(queue') <= Capacity
    BY <1>1, <1>6, Types, FsmAssumption DEF IInv
  <2>2. FsmQueue!TypeOK'
    BY <1>1, <1>6, <2>1, Types, QueueTypes DEF IInv
  <2> QED
    BY <1>1, <1>3, <1>4, <2>2 DEF IInv, TypeOK, CallIs
<1>9. SendInv'
  BY <1>7 DEF SendInv
<1>10. QueueInv'
  <2>1. ASSUME NEW n \in 1 .. Len(queue)
        PROVE  /\ queue'[n] \in Allocated' /\ call'[queue'[n]].state = "Pending"
               /\ call'[queue'[n]].owned = None /\ call'[queue'[n]].due \in Counts
               /\ ~InJobs(queue[n])
               /\ fcur' # queue'[n] /\ job'.call # queue'[n]
               /\ \A m \in 1 .. Len(queue) : queue'[m] = queue'[n] => m = n
    BY <1>1, <1>5, <1>6 DEF IInv, QueueInv, Allocated
  <2>2. /\ sending \in Allocated' /\ call'[sending].state = "Pending"
        /\ call'[sending].owned = None /\ call'[sending].due \in Counts
    BY <1>2, <1>3, <1>4 DEF CallIs, Allocated
  <2> QED
    BY <1>1, <1>2, <1>6, <2>1, <2>2 DEF QueueInv, InJobs
<1>11. FsmInv' /\ JobInv'
  BY Zenon, <1>1, <1>5, <1>7, FsmKept, JobsKept
<1>12. OrderInv'
  <2>1. Now' = Now
    BY Zenon, <1>1, <1>5, HasCall, FsmAssumption DEF Now
  <2>2. \A n \in 1 .. Len(queue) + 1 : Before(n)' = Before(n)
    BY <1>5, <1>6, <2>1, Types DEF IInv, Before
  <2>3. fpc' \in ToRun => call'[fcur'].due = After(fcur, count)'
    BY Zenon, <1>1, <1>5, HasCall, FsmAssumption DEF After
  <2>4. fpc' \in {"reply", "begin"} => call'[fcur'].due = count'
    BY Zenon, <1>1, <1>5, HasCall, FsmAssumption
  <2>5. ASSUME NEW n \in 1 .. Len(queue)
        PROVE  call'[queue'[n]].due = After(queue[n], Before(n))'
    <3>1. call[queue[n]].due = After(queue[n], Before(n)) /\ Before(n)' = Before(n)
      BY <2>2, Types DEF IInv, OrderInv
    <3> QED
      BY <3>1, <1>5, <1>6 DEF After
  <2>6. call'[sending].due = After(sending, expected) /\ v = After(sending, expected)
    BY <1>4 DEF CallIs, v
  <2>7. ASSUME NEW n \in 1 .. Len(queue'), n = Len(queue) + 1
        PROVE  call'[queue'[n]].due = After(queue[n], Before(n))'
    <3>1. Before(n)' = expected
      BY <2>2, <2>7, Types DEF IInv, OrderInv
    <3> QED
      BY <1>1, <1>4, <1>6, <2>6, <2>7, <3>1 DEF After, CallIs
  <2>8. expected' = Before(Len(queue) + 1)'
    <3>1. Len(queue') + 1 # 1 /\ (Len(queue') + 1) - 1 = Len(queue) + 1
      BY <1>6, Types DEF IInv
    <3> QED
      BY <1>1, <1>4, <1>6, <3>1 DEF Before, CallIs
  <2> QED
    BY <1>6, <2>3, <2>4, <2>5, <2>7, <2>8 DEF OrderInv
<1>13. AnswersInOrder'
  BY <1>2, <1>4 DEF IInv, AnswersInOrder, CallIs, Allocated
<1> QED
  BY Zenon, <1>1, <1>8, <1>9, <1>10, <1>11, <1>12, <1>13, Frames DEF IInv

(* An answered call is in no queue, and the FSM worker has unlocked it. *)
LEMMA RaftReceiveKeeps ==
  ASSUME IInv, NEW c \in Calls, RaftReceive(c)
  PROVE  IInv'
<1>1. /\ c \in Allocated /\ Terminal(c) /\ call[c].owned = None
      /\ call' = [call EXCEPT ![c] = NewCall("free", None)]
      /\ UNCHANGED <<sending, expected, fpc, fcur, count, jobs, spc, job, snapClosed, mpc,
                     queue, closed, stage>>
  BY DEF RaftReceive, raft, fsm, snap, fsmq
<1>2. CallIs(c, "free", None, None, "Pending", None, None)
  BY Zenon, <1>1, NewSet DEF IInv, TypeOK, Kinds
<1>3. ~Queued(c) /\ (stage[Raft] # "out" => sending # c)
  BY <1>1 DEF IInv, QueueInv, SendInv, Queued, Terminal
<1>4. fcur # c
  BY <1>1, FsmAssumption DEF IInv, FsmInv, Terminal, Held
<1>5. job.call # c /\ ~InJobs(c)
  BY <1>1, FsmAssumption DEF IInv, JobInv, JobFor, InJobs
<1>6. /\ \A n \in 1 .. Len(queue) : call'[queue[n]] = call[queue[n]]
      /\ \A n \in 1 .. Len(jobs) : call'[jobs[n].call] = call[jobs[n].call]
      /\ fcur # None => call'[fcur] = call[fcur]
      /\ job.call # None => call'[job.call] = call[job.call]
  BY Zenon, <1>2, <1>3, <1>4, <1>5, OthersKept DEF CallIs
<1>7. TypeOK'
  <2>1. FsmQueue!TypeOK'
    BY <1>1, Types, QueueTypes DEF IInv
  <2> QED
    BY <1>1, <1>2, <2>1 DEF IInv, TypeOK, CallIs
<1>8. SendInv'
  BY <1>1, <1>2, <1>3 DEF IInv, SendInv, CallIs, Queued, InJobs, Allocated
<1>9. QueueInv' /\ FsmInv' /\ JobInv' /\ OrderInv'
  BY Zenon, <1>1, <1>6, QueueKept, FsmKept, JobsKept, OrderKept
<1>10. AnswersInOrder'
  BY <1>2 DEF IInv, AnswersInOrder, CallIs, Allocated
<1> QED
  BY Zenon, <1>1, <1>7, <1>8, <1>9, <1>10, Frames DEF IInv

-----------------------------------------------------------------------------
(* The FSM worker's steps *)

LEMMA FsmCallKeeps ==
  ASSUME IInv, FsmCall
  PROVE  IInv'
<1>1. /\ fpc = "take" /\ stage' = [stage EXCEPT ![Fsm] = "called"]
      /\ UNCHANGED <<call, sending, expected, fpc, fcur, count, jobs, spc, job, snapClosed,
                     mpc, queue, closed>>
  BY DEF FsmCall, FsmQueue!CallTake, raft, fsm, snap
<1>2. stage'[Raft] = stage[Raft]
  BY <1>1, Types, FsmAssumption DEF IInv
<1>3. TypeOK'
  <2>1. FsmQueue!TypeOK'
    BY <1>1, Types, QueueTypes DEF IInv
  <2> QED
    BY <1>1, <2>1 DEF IInv, TypeOK
<1>4. SendInv'
  BY <1>1, <1>2 DEF IInv, SendInv, Queued, InJobs, Allocated
<1>5. FsmInv'
  BY <1>1 DEF IInv, FsmInv, InJobs, Terminal, Allocated
<1> QED
  BY Zenon, <1>1, <1>3, <1>4, <1>5, Frames DEF IInv

LEMMA FsmEnterKeeps ==
  ASSUME IInv, FsmEnter
  PROVE  IInv'
<1>1. /\ stage[Fsm] = "called" /\ stage' = [stage EXCEPT ![Fsm] = "in"]
      /\ UNCHANGED <<call, sending, expected, fpc, fcur, count, jobs, spc, job, snapClosed,
                     mpc, queue, closed>>
  BY DEF FsmEnter, FsmQueue!Enter, raft, fsm, snap
<1>2. stage'[Raft] = stage[Raft]
  BY <1>1, Types, FsmAssumption DEF IInv
<1>3. TypeOK'
  <2>1. FsmQueue!TypeOK'
    BY <1>1, Types, QueueTypes DEF IInv
  <2> QED
    BY <1>1, <2>1 DEF IInv, TypeOK
<1>4. SendInv'
  BY <1>1, <1>2 DEF IInv, SendInv, Queued, InJobs, Allocated
<1>5. FsmInv'
  BY <1>1 DEF IInv, FsmInv, InJobs, Terminal, Allocated
<1> QED
  BY Zenon, <1>1, <1>3, <1>4, <1>5, Frames DEF IInv

(* The first call of the queue becomes the one being run. *)
LEMMA FsmTakeKeeps ==
  ASSUME IInv, FsmTake
  PROVE  IInv'
<1>1. /\ queue # <<>> /\ fcur' = Head(queue) /\ fpc' = "lock" /\ stage[Fsm] = "in"
      /\ queue' = Tail(queue) /\ stage' = [stage EXCEPT ![Fsm] = "out"]
      /\ UNCHANGED <<call, sending, expected, count, jobs, spc, job, snapClosed, mpc, closed>>
  BY DEF FsmTake, FsmQueue!Take, raft, snap
<1>2. /\ queue' \in Seq(Calls) /\ Len(queue') = Len(queue) - 1 /\ 1 \in 1 .. Len(queue)
      /\ \A n \in 1 .. Len(queue') : queue'[n] = queue[n + 1] /\ n + 1 \in 1 .. Len(queue)
      /\ fcur' = queue[1] /\ queue[1] \in Calls
  BY Zenon, <1>1, Types, Taken DEF IInv
<1>3. fpc = "take" /\ stage'[Raft] = stage[Raft] /\ stage'[Fsm] = "out"
  BY <1>1, Types, FsmAssumption DEF IInv, FsmInv
<1>4. TypeOK'
  <2>1. Len(queue') <= Capacity
    BY <1>2, Types, FsmAssumption DEF IInv
  <2>2. FsmQueue!TypeOK'
    BY <1>1, <1>2, <2>1, Types, QueueTypes DEF IInv
  <2> QED
    BY <1>1, <1>2, <2>2 DEF IInv, TypeOK
<1>5. SendInv'
  <2>1. ASSUME stage[Raft] # "out"
        PROVE  fcur' # sending /\ ~Queued(sending)' /\ job'.call # sending
    BY <1>1, <1>2, <2>1 DEF IInv, SendInv, Queued
  <2>2. ASSUME stage[Raft] # "out" PROVE ~InJobs(sending)'
    BY <1>1, <2>2 DEF IInv, SendInv, InJobs
  <2> QED
    BY Zenon, <1>1, <1>3, <2>1, <2>2, SendKept
<1>6. QueueInv'
  <2>1. ASSUME NEW n \in 1 .. Len(queue')
        PROVE  /\ queue'[n] \in Allocated /\ call[queue'[n]].state = "Pending"
               /\ call[queue'[n]].owned = None /\ call[queue'[n]].due \in Counts
               /\ \A m \in 1 .. Len(jobs) : jobs[m].call # queue'[n]
               /\ fcur' # queue'[n] /\ job.call # queue'[n]
    <3>1. n + 1 # 1 /\ n + 1 \in 1 .. Len(queue) /\ queue'[n] = queue[n + 1]
      BY <1>2
    <3>2. ~InJobs(queue[n + 1])
      BY <3>1 DEF IInv, QueueInv
    <3> QED
      BY <1>2, <3>1, <3>2 DEF IInv, QueueInv, InJobs
  <2>2. ASSUME NEW n \in 1 .. Len(queue'), NEW m \in 1 .. Len(queue'), queue'[m] = queue'[n]
        PROVE  m = n
    BY <1>2, <2>2 DEF IInv, QueueInv
  <2> QED
    BY Zenon, <1>1, <2>1, <2>2 DEF QueueInv, InJobs, Allocated
<1>7. FsmInv'
  <2>1. /\ queue[1] \in Allocated /\ call[queue[1]].state = "Pending"
        /\ call[queue[1]].owned = None /\ call[queue[1]].due \in Counts
        /\ ~InJobs(queue[1]) /\ job.call # queue[1] /\ queue[1] # None
    BY <1>2, FsmAssumption DEF IInv, QueueInv
  <2> QED
    BY <1>1, <1>2, <1>3, <2>1 DEF FsmInv, InJobs, Allocated, Terminal, Busy, Held
<1>8. OrderInv'
  <2>1. call[queue[1]].due = After(queue[1], count)
    BY <1>2, <1>3 DEF IInv, OrderInv, Before, Now, ToRun
  <2>2. Now' = call[queue[1]].due
    BY <1>1, <1>2 DEF Now, ToRun
  <2>3. \A n \in 1 .. Len(queue') + 1 : Before(n)' = Before(n + 1)
    BY <1>1, <1>2, <2>2, Types DEF IInv, Before
  <2>4. ASSUME NEW n \in 1 .. Len(queue')
        PROVE  call'[queue'[n]].due = After(queue[n], Before(n))'
    <3>1. call[queue[n + 1]].due = After(queue[n + 1], Before(n + 1))
      BY <1>2 DEF IInv, OrderInv
    <3>2. Before(n)' = Before(n + 1) /\ queue'[n] = queue[n + 1]
      BY <1>2, <2>3, Types DEF IInv
    <3> QED
      BY <1>1, <3>1, <3>2 DEF After
  <2>5. expected' = Before(Len(queue) + 1)'
    BY <1>1, <1>2, <2>3, Types DEF IInv, OrderInv
  <2>6. call'[fcur'].due = After(fcur, count)'
    BY <1>1, <1>2, <2>1 DEF After
  <2> QED
    BY <1>1, <2>4, <2>5, <2>6 DEF OrderInv
<1>9. CleanupInv'
  BY <1>1, <1>3 DEF IInv, CleanupInv
<1> QED
  BY Zenon, <1>1, <1>4, <1>5, <1>6, <1>7, <1>8, <1>9, Frames DEF IInv

LEMMA FsmRefusedKeeps ==
  ASSUME IInv, FsmRefused
  PROVE  IInv'
<1>1. /\ fpc' = "exited" /\ stage[Fsm] # "out" /\ stage' = [stage EXCEPT ![Fsm] = "out"]
      /\ UNCHANGED <<call, sending, expected, fcur, count, jobs, spc, job, snapClosed,
                     mpc, queue, closed>>
  BY DEF FsmRefused, FsmQueue!Refuse, raft, snap
<1>2. fpc = "take" /\ stage'[Raft] = stage[Raft] /\ stage'[Fsm] = "out" /\ fcur = None
  BY <1>1, Types, FsmAssumption DEF IInv, FsmInv, Busy
<1>3. TypeOK'
  <2>1. FsmQueue!TypeOK'
    BY <1>1, Types, QueueTypes DEF IInv
  <2> QED
    BY <1>1, <2>1 DEF IInv, TypeOK
<1>4. SendInv'
  BY <1>1, <1>2 DEF IInv, SendInv, Queued, InJobs, Allocated
<1>5. FsmInv'
  BY <1>1, <1>2 DEF FsmInv, Busy
<1>6. OrderInv'
  <2>1. Now' = Now
    BY <1>1, <1>2 DEF Now, ToRun
  <2> QED
    BY <1>1, <2>1, OrderMoves DEF ToRun
<1>7. CleanupInv'
  BY <1>1 DEF IInv, CleanupInv
<1> QED
  BY Zenon, <1>1, <1>3, <1>4, <1>5, <1>6, <1>7, Frames DEF IInv

(* The switch on the tag; a snapshot leaves the FSM's state as it is, and  *)
(* so does a log entry of another type, which is not answered.             *)
LEMMA FsmLockKeeps ==
  ASSUME IInv, FsmLock
  PROVE  IInv'
<1> DEFINE o == IF call[fcur].kind = "snapshot" THEN None ELSE Fsm
<1>1. /\ fpc = "lock" /\ fpc' = Dispatch(fcur) /\ call[fcur].owned = None
      /\ call' = IF call[fcur].kind = "snapshot" THEN call
                 ELSE [call EXCEPT ![fcur].owned = Fsm]
      /\ UNCHANGED <<sending, expected, fcur, count, jobs, spc, job, snapClosed, mpc, queue,
                     closed, stage>>
  BY DEF FsmLock, raft, snap, fsmq
<1>2. fcur # None /\ fcur \in Calls
  BY <1>1, CurrentAlone DEF IInv, FsmInv, Busy
<1>3. CallIs(fcur, call[fcur].kind, call[fcur].arg, call[fcur].due, call[fcur].state,
             call[fcur].result, o)
  <2>1. CASE call[fcur].kind = "snapshot"
    BY <1>1, <2>1 DEF IInv, TypeOK, CallIs
  <2>2. CASE call[fcur].kind # "snapshot"
    BY Zenon, <1>1, <1>2, <2>2, OwnedSet DEF IInv, TypeOK
  <2> QED
    BY <2>1, <2>2
<1>4. /\ fpc' \in {"apply", "restore", "begin", "unlock"}
      /\ fpc' = "apply" <=> call[fcur].kind = "command"
      /\ fpc' = "restore" <=> call[fcur].kind = "restore"
      /\ fpc' = "begin" <=> call[fcur].kind = "snapshot"
  <2>1. call[fcur].kind \in Kinds \ {"free"}
    BY <1>2, CurrentAlone DEF IInv, TypeOK, Call, Allocated
  <2> QED
    BY <1>1, <2>1 DEF Dispatch, Kinds
<1>5. /\ SendInv' /\ QueueInv' /\ JobInv'
      /\ \A n \in 1 .. Len(queue) : call'[queue[n]] = call[queue[n]]
  BY Zenon, <1>1, <1>2, <1>3, CurrentOnly DEF CallIs
<1>6. TypeOK'
  <2>1. FsmQueue!TypeOK'
    BY <1>1, Types, QueueTypes DEF IInv
  <2> QED
    BY <1>1, <1>3, <1>4, <2>1 DEF IInv, TypeOK, CallIs
<1>7. FsmInv'
  <2>1. /\ fcur \in Allocated /\ stage[Fsm] = "out"
        /\ ~InJobs(fcur) /\ job.call # fcur
        /\ call[fcur].state = "Pending" /\ call[fcur].due \in Counts
    BY <1>1, <1>2 DEF IInv, FsmInv
  <2>2. fcur \in Allocated' /\ ~InJobs(fcur)'
    BY <1>1, <1>2, <1>3, <2>1 DEF CallIs, Allocated, InJobs
  <2>3. call'[fcur].owned = IF fpc' \in Held THEN Fsm ELSE None
    BY <1>3, <1>4 DEF CallIs, Held
  <2> QED
    BY <1>1, <1>2, <1>3, <1>4, <2>1, <2>2, <2>3 DEF FsmInv, CallIs, Busy, Terminal
<1>8. OrderInv'
  <2>1. call[fcur].due = After(fcur, count) /\ Now = call[fcur].due
    BY <1>1, HasCall DEF ToRun, Now
  <2>2. call'[fcur].due = call[fcur].due /\ After(fcur, count)' = After(fcur, count)
    BY <1>1, <1>3 DEF CallIs, After
  <2>3. fpc' \in {"begin", "unlock"} => After(fcur, count) = count
    BY <1>4 DEF After
  <2>4. Now' = Now
    BY <1>1, <1>4, <2>1, <2>2, <2>3 DEF Now, ToRun
  <2>5. fpc' \in {"reply", "begin"} => call'[fcur'].due = count'
    BY <1>1, <1>4, <2>1, <2>2, <2>3
  <2> QED
    BY Zenon, <1>1, <1>5, <2>1, <2>2, <2>4, <2>5, OrderMoves
<1>9. AnswersInOrder'
  <2>1. call[fcur].state = "Pending"
    BY <1>1, <1>2 DEF IInv, FsmInv
  <2> QED
    BY <1>2, <1>3, <2>1, AnswersKept
<1>10. CleanupInv'
  BY <1>1, <1>4 DEF IInv, CleanupInv
<1> QED
  BY Zenon, <1>5, <1>6, <1>7, <1>8, <1>9, <1>10 DEF IInv

(* The state after a command is the one the command is to return. *)
LEMMA FsmApplyKeeps ==
  ASSUME IInv, FsmApply
  PROVE  IInv'
<1>1. /\ fpc = "apply" /\ fpc' = "reply" /\ count' = count + 1
      /\ call' = [call EXCEPT ![fcur].state = "Dispatched"]
      /\ UNCHANGED <<sending, expected, fcur, jobs, spc, job, snapClosed, mpc, queue, closed,
                     stage>>
  BY DEF FsmApply, raft, snap, fsmq
<1>2. /\ fcur # None /\ fcur \in Calls /\ call[fcur].kind = "command"
      /\ call[fcur].due \in Counts /\ call[fcur].owned = Fsm
  BY <1>1, CurrentAlone DEF IInv, FsmInv, Busy, Held
<1>3. CallIs(fcur, call[fcur].kind, call[fcur].arg, call[fcur].due, "Dispatched", call[fcur].result, Fsm)
  BY Zenon, <1>1, <1>2, DispatchedSet DEF IInv, TypeOK
<1>4. /\ SendInv' /\ QueueInv' /\ JobInv'
      /\ \A n \in 1 .. Len(queue) : call'[queue[n]] = call[queue[n]]
  BY Zenon, <1>1, <1>2, <1>3, CurrentOnly DEF CallIs
<1>5. call[fcur].due = count'
  BY <1>1, <1>2, HasCall DEF After, ToRun
<1>6. TypeOK'
  <2>1. FsmQueue!TypeOK'
    BY <1>1, Types, QueueTypes DEF IInv
  <2> QED
    BY <1>1, <1>2, <1>3, <1>5, <2>1 DEF IInv, TypeOK, CallIs
<1>7. FsmInv'
  <2>1. fcur \in Allocated /\ stage[Fsm] = "out" /\ ~InJobs(fcur) /\ job.call # fcur
    BY <1>1, <1>2 DEF IInv, FsmInv
  <2>2. fcur \in Allocated' /\ ~InJobs(fcur)'
    BY <1>1, <1>2, <1>3, <2>1 DEF CallIs, Allocated, InJobs
  <2> QED
    BY <1>1, <1>2, <1>3, <2>1, <2>2 DEF FsmInv, CallIs, Busy, Held, Terminal
<1>8. OrderInv'
  <2>1. Now' = Now
    BY <1>1, <1>5 DEF Now, ToRun
  <2> QED
    BY Zenon, <1>1, <1>3, <1>4, <1>5, <2>1, OrderMoves DEF ToRun, CallIs
<1>9. AnswersInOrder'
  BY <1>2, <1>3, AnswersKept
<1>10. CleanupInv'
  BY <1>1 DEF IInv, CleanupInv
<1> QED
  BY Zenon, <1>4, <1>6, <1>7, <1>8, <1>9, <1>10 DEF IInv

(* The command returns it. *)
LEMMA FsmReplyKeeps ==
  ASSUME IInv, FsmReply
  PROVE  IInv'
<1>1. /\ fpc = "reply" /\ fpc' = "unlock" /\ count' = count
      /\ call' = [call EXCEPT ![fcur].result = count, ![fcur].state = "Success"]
      /\ UNCHANGED <<sending, expected, fcur, jobs, spc, job, snapClosed, mpc, queue, closed,
                     stage>>
  BY DEF FsmReply, raft, snap, fsmq
<1>2. /\ fcur # None /\ fcur \in Calls /\ call[fcur].kind = "command"
      /\ call[fcur].due \in Counts /\ call[fcur].owned = Fsm
  BY <1>1, CurrentAlone DEF IInv, FsmInv, Busy, Held
<1>3. CallIs(fcur, call[fcur].kind, call[fcur].arg, call[fcur].due, "Success", count, Fsm)
  BY Zenon, <1>1, <1>2, ReplySet DEF IInv, TypeOK
<1>4. /\ SendInv' /\ QueueInv' /\ JobInv'
      /\ \A n \in 1 .. Len(queue) : call'[queue[n]] = call[queue[n]]
  BY Zenon, <1>1, <1>2, <1>3, CurrentOnly DEF CallIs
<1>5. call[fcur].due = count
  BY <1>1, HasCall
<1>6. TypeOK'
  <2>1. FsmQueue!TypeOK'
    BY <1>1, Types, QueueTypes DEF IInv
  <2> QED
    BY <1>1, <1>2, <1>3, <1>5, <2>1 DEF IInv, TypeOK, CallIs
<1>7. FsmInv'
  <2>1. fcur \in Allocated /\ stage[Fsm] = "out" /\ ~InJobs(fcur) /\ job.call # fcur
    BY <1>1, <1>2 DEF IInv, FsmInv
  <2>2. fcur \in Allocated' /\ ~InJobs(fcur)'
    BY <1>1, <1>2, <1>3, <2>1 DEF CallIs, Allocated, InJobs
  <2> QED
    BY <1>1, <1>2, <1>3, <2>1, <2>2 DEF FsmInv, CallIs, Busy, Held, Terminal
<1>8. OrderInv'
  <2>1. Now' = Now
    BY <1>1, <1>5 DEF Now, ToRun
  <2> QED
    BY Zenon, <1>1, <1>3, <1>4, <1>5, <2>1, OrderMoves DEF ToRun, CallIs
<1>9. AnswersInOrder'
  BY <1>5, <1>2, <1>3, AnswersKept
<1>10. CleanupInv'
  BY <1>1 DEF IInv, CleanupInv
<1> QED
  BY Zenon, <1>4, <1>6, <1>7, <1>8, <1>9, <1>10 DEF IInv

(* A restore that succeeds returns the state restored; one that fails leaves
   the state alone and is an error. *)
LEMMA FsmRestoreKeeps ==
  ASSUME IInv, FsmRestore
  PROVE  IInv'
<1>1. /\ fpc = "restore" /\ fpc' = "unlock" /\ count' = Restored(call[fcur].arg)
      /\ call' = [call EXCEPT ![fcur].result = call[fcur].arg,
                              ![fcur].state = IF call[fcur].arg = None THEN "Error"
                                              ELSE "Success"]
      /\ UNCHANGED <<sending, expected, fcur, jobs, spc, job, snapClosed, mpc, queue, closed,
                     stage>>
  BY DEF FsmRestore, raft, snap, fsmq
<1>2. /\ fcur # None /\ fcur \in Calls /\ call[fcur].kind = "restore"
      /\ call[fcur].due \in Counts /\ call[fcur].owned = Fsm
  BY <1>1, CurrentAlone DEF IInv, FsmInv, Busy, Held
<1>3. CallIs(fcur, call[fcur].kind, call[fcur].arg, call[fcur].due, IF call[fcur].arg = None THEN "Error" ELSE "Success", call[fcur].arg, Fsm)
  <2>1. call[fcur].arg \in Counts \cup {None}
    BY <1>2 DEF IInv, TypeOK, Call
  <2> QED
    BY Zenon, <1>1, <1>2, <2>1, ReplySet DEF IInv, TypeOK
<1>4. /\ SendInv' /\ QueueInv' /\ JobInv'
      /\ \A n \in 1 .. Len(queue) : call'[queue[n]] = call[queue[n]]
  BY Zenon, <1>1, <1>2, <1>3, CurrentOnly DEF CallIs
<1>5. /\ call[fcur].due = count'
      /\ call[fcur].arg # None => call[fcur].arg = call[fcur].due
  BY <1>1, <1>2, HasCall DEF After, ToRun, Restored
<1>6. TypeOK'
  <2>1. FsmQueue!TypeOK'
    BY <1>1, Types, QueueTypes DEF IInv
  <2> QED
    BY <1>1, <1>2, <1>3, <1>5, <2>1 DEF IInv, TypeOK, CallIs
<1>7. FsmInv'
  <2>1. fcur \in Allocated /\ stage[Fsm] = "out" /\ ~InJobs(fcur) /\ job.call # fcur
    BY <1>1, <1>2 DEF IInv, FsmInv
  <2>2. fcur \in Allocated' /\ ~InJobs(fcur)'
    BY <1>1, <1>2, <1>3, <2>1 DEF CallIs, Allocated, InJobs
  <2> QED
    BY <1>1, <1>2, <1>3, <2>1, <2>2 DEF FsmInv, CallIs, Busy, Held, Terminal
<1>8. OrderInv'
  <2>1. Now' = Now
    BY <1>1, <1>5 DEF Now, ToRun
  <2> QED
    BY Zenon, <1>1, <1>3, <1>4, <1>5, <2>1, OrderMoves DEF ToRun, CallIs
<1>9. AnswersInOrder'
  BY <1>5, <1>2, <1>3, AnswersKept
<1>10. CleanupInv'
  BY <1>1 DEF IInv, CleanupInv
<1> QED
  BY Zenon, <1>4, <1>6, <1>7, <1>8, <1>9, <1>10 DEF IInv

(* Where the worker is done with a call, the FSM is where the call left it. *)
LEMMA IdleKeeps ==
  ASSUME IInv, fpc \in {"unlock", "begin"}, fpc' = "take", fcur' = None,
         UNCHANGED <<count, sending, expected, queue, mpc, stage, job>>,
         \A x \in Calls : x # fcur => call'[x] = call[x],
         \A n \in 1 .. Len(jobs') : (\E m \in 1 .. Len(jobs) : jobs'[n] = jobs[m])
                                       \/ jobs'[n].call = fcur
  PROVE  /\ SendInv' /\ QueueInv' /\ FsmInv' /\ OrderInv' /\ CleanupInv'
         /\ \A n \in 1 .. Len(jobs) : call'[jobs[n].call] = call[jobs[n].call]
         /\ job.call # None => call'[job.call] = call[job.call]
         /\ fcur # None
<1>1. fcur # None
  BY DEF IInv, FsmInv, Busy
<1>2. /\ \A n \in 1 .. Len(queue) : call'[queue[n]] = call[queue[n]]
      /\ \A n \in 1 .. Len(jobs) : call'[jobs[n].call] = call[jobs[n].call]
      /\ job.call # None => call'[job.call] = call[job.call]
  BY Zenon, <1>1, CurrentAlone, OthersKept
<1>3. SendInv'
  <2>1. SUFFICES ASSUME stage[Raft] # "out"
                 PROVE  /\ call'[sending] = call[sending]
                        /\ fcur' # sending /\ job'.call # sending
                        /\ ~Queued(sending)' /\ ~InJobs(sending)'
    BY Zenon, SendKept
  <2>2. /\ sending \in Calls /\ sending # fcur /\ ~Queued(sending) /\ ~InJobs(sending)
        /\ job.call # sending
    BY <1>1, <2>1, CurrentAlone DEF IInv, SendInv, Allocated
  <2> QED
    BY <2>2, FsmAssumption DEF Queued, InJobs
<1>4. QueueInv'
  <2>1. ASSUME NEW n \in 1 .. Len(queue)
        PROVE  /\ fcur' # queue[n] /\ job'.call # queue[n]
               /\ \A m \in 1 .. Len(jobs') : jobs'[m].call # queue[n]
    <3>1. /\ queue[n] \in Calls /\ queue[n] # fcur /\ ~InJobs(queue[n]) /\ job.call # queue[n]
      BY Types DEF IInv, QueueInv
    <3> QED
      BY <3>1, FsmAssumption DEF InJobs
  <2> QED
    BY Zenon, <1>2, <2>1, QueueMoves
<1>5. FsmInv'
  BY DEF FsmInv, Busy
<1>6. OrderInv'
  <2>1. Now' = Now
    BY DEF Now, ToRun
  <2> QED
    BY Zenon, <1>2, <2>1, OrderMoves DEF ToRun
<1>7. CleanupInv'
  BY DEF IInv, CleanupInv
<1> QED
  BY <1>1, <1>2, <1>3, <1>4, <1>5, <1>6, <1>7

LEMMA FsmUnlockKeeps ==
  ASSUME IInv, FsmUnlock
  PROVE  IInv'
<1>1. /\ fpc = "unlock" /\ fpc' = "take" /\ fcur' = None
      /\ call' = [call EXCEPT ![fcur].owned = None]
      /\ UNCHANGED <<sending, expected, count, jobs, spc, job, snapClosed, mpc, queue, closed,
                     stage>>
  BY DEF FsmUnlock, raft, snap, fsmq
<1>2. fcur # None /\ fcur \in Calls
  BY <1>1, CurrentAlone DEF IInv, FsmInv, Busy
<1>3. CallIs(fcur, call[fcur].kind, call[fcur].arg, call[fcur].due, call[fcur].state,
             call[fcur].result, None)
  BY Zenon, <1>1, <1>2, OwnedSet DEF IInv, TypeOK
<1>4. /\ SendInv' /\ QueueInv' /\ FsmInv' /\ OrderInv' /\ CleanupInv'
      /\ \A n \in 1 .. Len(jobs) : call'[jobs[n].call] = call[jobs[n].call]
      /\ job.call # None => call'[job.call] = call[job.call]
  BY Zenon, <1>1, <1>3, IdleKeeps DEF CallIs
<1>5. JobInv'
  BY Zenon, <1>1, <1>4, JobsKept
<1>6. TypeOK'
  <2>1. FsmQueue!TypeOK'
    BY <1>1, Types, QueueTypes DEF IInv
  <2> QED
    BY <1>1, <1>3, <2>1 DEF IInv, TypeOK, CallIs
<1>7. AnswersInOrder'
  <2>1. call[fcur].kind # "free" /\ call[fcur].state = "Success" =>
          call[fcur].result = call[fcur].due
    BY <1>2 DEF IInv, AnswersInOrder, Allocated
  <2> QED
    BY Zenon, <1>2, <1>3, <2>1, AnswersKept
<1> QED
  BY Zenon, <1>4, <1>5, <1>6, <1>7 DEF IInv

(* The job has the state that the snapshot is to hold. *)
LEMMA FsmBeginAsyncKeeps ==
  ASSUME IInv, FsmBeginAsync
  PROVE  IInv'
<1>1. /\ fpc = "begin" /\ fpc' = "take" /\ fcur' = None
      /\ jobs' = Append(jobs, SnapshotOf(fcur))
      /\ spc' = IF spc = "none" THEN "take" ELSE spc
      /\ UNCHANGED <<call, sending, expected, count, job, snapClosed, mpc, queue, closed, stage>>
  BY DEF FsmBeginAsync, raft, fsmq
<1>2. /\ fcur \in Calls /\ fcur \in Allocated /\ ~InJobs(fcur) /\ job.call # fcur
      /\ call[fcur].kind = "snapshot" /\ ~Terminal(fcur) /\ call[fcur].owned = None
      /\ call[fcur].due = count
  BY Zenon, <1>1, CurrentAlone, HasCall DEF IInv, FsmInv, Busy, Held
<1>3. PICK j \in Job : j = SnapshotOf(fcur) /\ j.call = fcur /\ j.copy = count
  <2>1. /\ SnapshotOf(fcur) \in Job /\ SnapshotOf(fcur).call = fcur
        /\ SnapshotOf(fcur).copy = count
    BY <1>2 DEF IInv, TypeOK, SnapshotOf, Job
  <2> QED
    BY Zenon, <2>1
<1>4. /\ jobs' \in Seq(Job) /\ Len(jobs') = Len(jobs) + 1
      /\ \A n \in 1 .. Len(jobs) : jobs'[n] = jobs[n]
      /\ jobs'[Len(jobs) + 1] = j
      /\ \A n \in 1 .. Len(jobs') : n \in 1 .. Len(jobs) \/ n = Len(jobs) + 1
  <2>1. jobs \in Seq(Job)
    BY Zenon, Types DEF IInv
  <2>2. jobs' = Append(jobs, j)
    BY Zenon, <1>1, <1>3
  <2> QED
    BY <2>1, <2>2, Appended
<1>5. SendInv' /\ QueueInv' /\ FsmInv' /\ OrderInv' /\ CleanupInv'
  <2>1. \A n \in 1 .. Len(jobs') : (\E m \in 1 .. Len(jobs) : jobs'[n] = jobs[m])
                                      \/ jobs'[n].call = fcur
    BY Zenon, <1>3, <1>4
  <2> QED
    BY Zenon, <1>1, <2>1, IdleKeeps
<1>6. JobInv'
  <2>1. JobFor(j)'
    BY Zenon, <1>1, <1>2, <1>3 DEF JobFor, Allocated, Terminal
  <2>2. ASSUME NEW n \in 1 .. Len(jobs)
        PROVE  /\ JobFor(jobs[n])' /\ job.call # jobs[n].call /\ jobs[n].call # fcur
               /\ \A m \in 1 .. Len(jobs) : jobs[m].call = jobs[n].call => m = n
    BY Zenon, <1>1, <1>2, <1>4 DEF IInv, JobInv, JobFor, InJobs, Allocated, Terminal
  <2>3. job.call # None => JobFor(job)'
    BY Zenon, <1>1 DEF IInv, JobInv, JobFor, Allocated, Terminal
  <2>4. ASSUME NEW n \in 1 .. Len(jobs'), NEW m \in 1 .. Len(jobs'),
               jobs'[m].call = jobs'[n].call
        PROVE  m = n
    BY Zenon, <1>3, <1>4, <2>2, <2>4
  <2>5. ASSUME NEW n \in 1 .. Len(jobs')
        PROVE  JobFor(jobs[n])' /\ job.call # jobs'[n].call
    <3>1. CASE n \in 1 .. Len(jobs)
      BY Zenon, <1>4, <2>2, <3>1
    <3>2. CASE n = Len(jobs) + 1
      BY <1>2, <1>3, <1>4, <2>1, <3>2 DEF JobFor
    <3> QED
      BY <1>4, <3>1, <3>2
  <2>6. spc' = "job" <=> job'.call # None
    BY Zenon, <1>1 DEF IInv, JobInv
  <2> QED
    BY Zenon, <1>1, <2>3, <2>4, <2>5, <2>6 DEF JobInv
<1>7. TypeOK'
  <2>1. FsmQueue!TypeOK'
    BY <1>1, Types, QueueTypes DEF IInv
  <2> QED
    BY <1>1, <1>4, <2>1 DEF IInv, TypeOK
<1> QED
  BY Zenon, <1>1, <1>5, <1>6, <1>7, Frames DEF IInv

(* A snapshot written on the spot is answered with the state it is due. *)
LEMMA FsmBeginSyncKeeps ==
  ASSUME IInv, FsmBeginSync
  PROVE  IInv'
<1>1. /\ fpc = "begin" /\ fpc' = "take" /\ fcur' = None
      /\ UNCHANGED <<sending, expected, count, jobs, spc, job, snapClosed, mpc, queue, closed,
                     stage>>
  BY DEF FsmBeginSync, raft, snap, fsmq
<1>2. PICK success \in BOOLEAN : Complete(fcur, success, count)
  BY Zenon DEF FsmBeginSync
<1> DEFINE st == IF success THEN "Success" ELSE "Error"
           r == IF success THEN count ELSE None
<1>3. fcur \in Calls /\ call[fcur].due = count
  BY Zenon, <1>1, CurrentAlone, HasCall DEF IInv, FsmInv, Busy
<1>4. call' = [call EXCEPT ![fcur].state = st, ![fcur].result = r]
  BY Zenon, <1>2 DEF Complete
<1>5. st \in {"Success", "Error"} /\ r \in Counts \cup {None} /\ (st = "Success" => r = count)
  BY DEF IInv, TypeOK
<1> HIDE DEF st, r
<1>6. CallIs(fcur, call[fcur].kind, call[fcur].arg, call[fcur].due, st, r, call[fcur].owned)
  BY Zenon, <1>3, <1>4, <1>5, ReplySet DEF IInv, TypeOK
<1>7. /\ SendInv' /\ QueueInv' /\ FsmInv' /\ OrderInv' /\ CleanupInv'
      /\ \A n \in 1 .. Len(jobs) : call'[jobs[n].call] = call[jobs[n].call]
      /\ job.call # None => call'[job.call] = call[job.call]
  BY Zenon, <1>1, <1>6, IdleKeeps DEF CallIs
<1>8. JobInv'
  BY Zenon, <1>1, <1>7, JobsKept
<1>9. TypeOK'
  <2>1. FsmQueue!TypeOK'
    BY <1>1, Types, QueueTypes DEF IInv
  <2> QED
    BY <1>1, <1>6, <2>1 DEF IInv, TypeOK, CallIs
<1>10. AnswersInOrder'
  BY Zenon, <1>3, <1>5, <1>6, AnswersKept
<1> QED
  BY Zenon, <1>7, <1>8, <1>9, <1>10 DEF IInv

-----------------------------------------------------------------------------
(* The snapshot worker's steps *)

LEMMA NoJobCall == NoJob.call = None
BY DEF NoJob

LEMMA SnapTakeKeeps ==
  ASSUME IInv, SnapTake
  PROVE  IInv'
<1>1. /\ spc = "take" /\ jobs # <<>> /\ job' = Head(jobs) /\ jobs' = Tail(jobs) /\ spc' = "job"
      /\ UNCHANGED <<call, sending, expected, fpc, fcur, count, snapClosed, mpc, queue, closed,
                     stage>>
  BY DEF SnapTake, raft, fsm, fsmq
<1>2. /\ jobs' \in Seq(Job) /\ Len(jobs') = Len(jobs) - 1 /\ 1 \in 1 .. Len(jobs)
      /\ \A n \in 1 .. Len(jobs') : jobs'[n] = jobs[n + 1] /\ n + 1 \in 1 .. Len(jobs)
      /\ job' = jobs[1] /\ jobs[1] \in Job
  BY Zenon, <1>1, Types, Taken DEF IInv
<1>3. ASSUME NEW x, ~InJobs(x) PROVE job'.call # x /\ ~InJobs(x)'
  BY <1>2, <1>3 DEF InJobs
<1>4. SendInv'
  <2>1. ASSUME stage[Raft] # "out"
        PROVE  fcur # sending /\ ~Queued(sending) /\ ~InJobs(sending)
    BY <2>1 DEF IInv, SendInv
  <2>2. ASSUME stage[Raft] # "out"
        PROVE  job'.call # sending /\ ~InJobs(sending)' /\ ~Queued(sending)'
    BY <1>1, <1>2, <2>1, <2>2 DEF InJobs, Queued
  <2> QED
    BY Zenon, <1>1, <2>1, <2>2, SendKept
<1>5. QueueInv'
  <2>1. ASSUME NEW n \in 1 .. Len(queue)
        PROVE  /\ fcur' # queue[n] /\ job'.call # queue[n]
               /\ \A m \in 1 .. Len(jobs') : jobs'[m].call # queue[n]
    BY <1>1, <1>2 DEF IInv, QueueInv, InJobs
  <2> QED
    BY Zenon, <1>1, <2>1, QueueMoves
<1>6. FsmInv'
  <2>1. fcur # None => job'.call # fcur /\ ~InJobs(fcur)'
    <3>1. fcur # None => ~InJobs(fcur)
      BY DEF IInv, FsmInv
    <3> QED
      BY <1>1, <1>2, <3>1 DEF InJobs
  <2> QED
    BY <1>1, <2>1 DEF IInv, FsmInv, Allocated, Terminal
<1>7. JobInv'
  <2>1. ASSUME NEW n \in 1 .. Len(jobs) PROVE JobFor(jobs[n]) /\ jobs[n].call \in Calls
    BY Types DEF IInv, JobInv, Job
  <2>2. ASSUME NEW n \in 1 .. Len(jobs')
        PROVE  /\ JobFor(jobs[n + 1]) /\ job'.call # jobs'[n].call
               /\ \A m \in 1 .. Len(jobs') : jobs'[m].call = jobs'[n].call => m = n
    <3>1. JobFor(jobs[n + 1]) /\ n + 1 # 1
      BY <1>2, <2>1
    <3>2. job'.call # jobs'[n].call
      BY <1>2, <3>1 DEF IInv, JobInv
    <3>3. ASSUME NEW m \in 1 .. Len(jobs'), jobs'[m].call = jobs'[n].call PROVE m = n
      <4>1. m + 1 = n + 1
        BY <1>2, <3>3 DEF IInv, JobInv
      <4> QED
        BY <4>1
    <3> QED
      BY <3>1, <3>2, <3>3
  <2>3. job'.call # None /\ JobFor(job)'
    BY <1>1, <1>2, <2>1, FsmAssumption DEF JobFor, Allocated, Terminal
  <2>4. ASSUME NEW n \in 1 .. Len(jobs') PROVE JobFor(jobs[n])'
    BY <1>1, <1>2, <2>2 DEF JobFor, Allocated, Terminal
  <2> QED
    BY <1>1, <2>2, <2>3, <2>4 DEF JobInv
<1>8. TypeOK'
  <2>1. FsmQueue!TypeOK'
    BY <1>1, Types, QueueTypes DEF IInv
  <2> QED
    BY <1>1, <1>2, <2>1 DEF IInv, TypeOK
<1>9. CleanupInv'
  BY <1>1 DEF IInv, CleanupInv
<1> QED
  BY Zenon, <1>1, <1>4, <1>5, <1>6, <1>7, <1>8, <1>9, Frames DEF IInv

(* The snapshot that was written is the state that the call is due. *)
LEMMA SnapJobKeeps ==
  ASSUME IInv, SnapJob
  PROVE  IInv'
<1>1. /\ spc = "job" /\ spc' = "take" /\ job' = NoJob
      /\ UNCHANGED <<sending, expected, fpc, fcur, count, jobs, snapClosed, mpc, queue, closed,
                     stage>>
  BY DEF SnapJob, raft, fsm, fsmq
<1>2. PICK success \in BOOLEAN : Complete(job.call, success, job.copy)
  BY Zenon DEF SnapJob
<1> DEFINE c == job.call
           st == IF success THEN "Success" ELSE "Error"
           r == IF success THEN job.copy ELSE None
<1>3. /\ c \in Calls /\ call[c].due = job.copy /\ job.copy \in Counts
      /\ fcur # c /\ ~Queued(c) /\ ~InJobs(c)
      /\ stage[Raft] # "out" => sending # c
  <2>1. job.call # None /\ JobFor(job) /\ job \in Job
    BY Zenon, <1>1, NoJobCall DEF IInv, TypeOK, JobInv
  <2> QED
    BY Zenon, <2>1 DEF IInv, JobInv, JobFor, FsmInv, QueueInv, SendInv, Queued, InJobs, Job
<1>4. call' = [call EXCEPT ![c].state = st, ![c].result = r]
  BY Zenon, <1>2 DEF Complete
<1>5. st \in {"Success", "Error"} /\ r \in Counts \cup {None} /\ (st = "Success" => r = job.copy)
  BY <1>3
<1> HIDE DEF c, st, r
<1>6. CallIs(c, call[c].kind, call[c].arg, call[c].due, st, r, call[c].owned)
  BY Zenon, <1>3, <1>4, <1>5, ReplySet DEF IInv, TypeOK
<1>7. /\ \A n \in 1 .. Len(queue) : call'[queue[n]] = call[queue[n]]
      /\ \A n \in 1 .. Len(jobs) : call'[jobs[n].call] = call[jobs[n].call]
      /\ fcur # None => call'[fcur] = call[fcur]
  BY Zenon, <1>3, <1>6, OthersKept DEF CallIs
<1>8. job'.call = None
  BY <1>1 DEF NoJob
<1>9. SendInv'
  <2>1. ASSUME stage[Raft] # "out"
        PROVE  /\ sending \in Calls /\ fcur # sending /\ ~Queued(sending) /\ ~InJobs(sending)
    BY <2>1 DEF IInv, SendInv, Allocated
  <2>2. ASSUME stage[Raft] # "out"
        PROVE  /\ call'[sending] = call[sending] /\ job'.call # sending
               /\ ~InJobs(sending)' /\ ~Queued(sending)'
    BY <1>1, <1>3, <1>6, <1>8, <2>1, <2>2, FsmAssumption DEF InJobs, Queued, CallIs
  <2> QED
    BY Zenon, <1>1, <2>1, <2>2, SendKept
<1>10. QueueInv'
  <2>1. ASSUME NEW n \in 1 .. Len(queue)
        PROVE  /\ fcur' # queue[n] /\ job'.call # queue[n]
               /\ \A m \in 1 .. Len(jobs') : jobs'[m].call # queue[n]
    BY <1>1, <1>8, Types, FsmAssumption DEF IInv, QueueInv, InJobs
  <2> QED
    BY Zenon, <1>1, <1>7, <2>1, QueueMoves
<1>11. FsmInv'
  <2>1. fcur # None => fcur \in Allocated' /\ ~InJobs(fcur)'
    BY <1>1, <1>7 DEF IInv, FsmInv, Allocated, InJobs
  <2> QED
    BY <1>1, <1>7, <1>8, <2>1 DEF IInv, FsmInv, Terminal
<1>12. JobInv'
  <2>1. ASSUME NEW n \in 1 .. Len(jobs)
        PROVE  JobFor(jobs[n])' /\ jobs[n].call # None
    BY <1>1, <1>7, Types, FsmAssumption DEF IInv, JobInv, JobFor, Allocated, Terminal, Job
  <2> QED
    BY Zenon, <1>1, <1>8, <2>1 DEF IInv, JobInv
<1>13. OrderInv'
  BY Zenon, <1>1, <1>7, OrderKept
<1>14. TypeOK'
  <2>1. FsmQueue!TypeOK'
    BY <1>1, Types, QueueTypes DEF IInv
  <2> QED
    BY <1>1, <1>6, <2>1 DEF IInv, TypeOK, CallIs
<1>15. AnswersInOrder'
  BY Zenon, <1>3, <1>5, <1>6, AnswersKept
<1>16. CleanupInv'
  BY <1>1 DEF IInv, CleanupInv
<1> QED
  BY Zenon, <1>9, <1>10, <1>11, <1>12, <1>13, <1>14, <1>15, <1>16 DEF IInv

LEMMA SnapExitKeeps ==
  ASSUME IInv, SnapExit
  PROVE  IInv'
<1>1. /\ spc = "take" /\ spc' = "exited"
      /\ UNCHANGED <<call, sending, expected, fpc, fcur, count, jobs, job, snapClosed, mpc,
                     queue, closed, stage>>
  BY DEF SnapExit, raft, fsm, fsmq
<1>2. TypeOK'
  <2>1. FsmQueue!TypeOK'
    BY <1>1, Types, QueueTypes DEF IInv
  <2> QED
    BY <1>1, <2>1 DEF IInv, TypeOK
<1>3. JobInv' /\ CleanupInv'
  BY Zenon, <1>1 DEF IInv, JobInv, JobFor, Allocated, Terminal, CleanupInv
<1> QED
  BY Zenon, <1>1, <1>2, <1>3, Frames DEF IInv

-----------------------------------------------------------------------------
(* raft_cleanup's steps: each join waits for the thread to end, and a thread
   that has ended stays so. *)
LEMMA CleanupKeeps ==
  ASSUME IInv, Cleanup
  PROVE  IInv'
<1>1. /\ UNCHANGED <<call, sending, expected, fpc, fcur, count, jobs, job, queue, stage>>
      /\ closed' \in {closed, TRUE} /\ snapClosed' \in {snapClosed, TRUE}
      /\ mpc' \in {"joinFsm", "closeSnap", "joinSnap", "done"}
      /\ spc' = spc \/ (spc \in {"none", "exited"} /\ spc' = "none")
  BY Zenon DEF Cleanup, CleanupCloseFsm, CleanupJoinFsm, CleanupCloseSnap, CleanupJoinSnap,
         FsmQueue!Close, raft, fsm, snap, fsmq
<1>2. CleanupInv'
  BY DEF Cleanup, CleanupCloseFsm, CleanupJoinFsm, CleanupCloseSnap, CleanupJoinSnap,
         fsm, snap, IInv, CleanupInv
<1>3. TypeOK'
  <2>1. closed' \in BOOLEAN /\ snapClosed' \in BOOLEAN
    BY Zenon, <1>1, Types DEF IInv, TypeOK
  <2>2. FsmQueue!TypeOK'
    BY <1>1, <2>1, Types, QueueTypes DEF IInv
  <2> QED
    BY <1>1, <2>1, <2>2 DEF IInv, TypeOK
<1>4. JobInv'
  BY Zenon, <1>1 DEF IInv, JobInv, JobFor, Allocated, Terminal
<1> QED
  BY Zenon, <1>1, <1>2, <1>3, <1>4, Frames DEF IInv

-----------------------------------------------------------------------------

LEMMA InitInv == Init => IInv
<1> SUFFICES ASSUME Init PROVE IInv
  OBVIOUS
<1>1. \A c \in Calls : call[c] = NewCall("free", None)
  BY DEF Init
<1>2. /\ queue = <<>> /\ closed = FALSE /\ stage = [t \in {Raft, Fsm} |-> "out"]
      /\ stage[Raft] = "out" /\ stage[Fsm] = "out" /\ jobs = <<>> /\ Len(jobs) = 0
      /\ Len(queue) = 0 /\ job.call = None
  BY DEF Init, FsmQueue!Init, FsmQueue!Callers, NoJob
<1>3. NewCall("free", None) \in Call
  BY DEF NewCall, Call, Kinds
<1>4. FsmQueue!TypeOK
  <2>1. queue \in Seq(Calls) /\ Len(queue) <= Capacity
        /\ stage \in [{Raft, Fsm} -> {"out", "called", "in"}]
    BY <1>2, FsmAssumption
  <2>2. sending = None /\ fcur = None /\ closed \in BOOLEAN
    BY Zenon, <1>2 DEF Init
  <2> QED
    BY <2>1, <2>2, FsmAssumption DEF FsmQueue!TypeOK, FsmQueue!Callers, FsmQueue!Stages
<1>5. TypeOK
  <2>1. call \in [Calls -> Call] /\ 0 \in Counts /\ jobs \in Seq(Job)
    BY <1>2, <1>3, FsmAssumption DEF Init, Counts
  <2> QED
    BY Zenon, <1>4, <2>1 DEF Init, TypeOK
<1>6. Allocated = {}
  BY <1>1 DEF Allocated, NewCall
<1>7. SendInv /\ QueueInv /\ FsmInv /\ JobInv /\ AnswersInOrder /\ CleanupInv
  <2>1. SendInv /\ AnswersInOrder /\ CleanupInv
    BY <1>2, <1>6 DEF Init, SendInv, AnswersInOrder, CleanupInv
  <2>2. QueueInv /\ FsmInv
    BY <1>2 DEF Init, QueueInv, FsmInv, Busy
  <2>3. JobInv
    BY <1>2 DEF Init, JobInv
  <2> QED
    BY <2>1, <2>2, <2>3
<1>8. OrderInv
  BY <1>2 DEF Init, OrderInv, Before, Now, ToRun
<1> QED
  BY <1>5, <1>7, <1>8 DEF IInv

LEMMA NextInv == IInv /\ [Next]_vars => IInv'
<1> SUFFICES ASSUME IInv, [Next]_vars PROVE IInv'
  OBVIOUS
<1>1. CASE \E c \in Calls, k \in Kinds \ {"free"}, a \in Counts \cup {None} : RaftSend(c, k, a)
  BY Zenon, <1>1, RaftSendKeeps
<1>2. CASE RaftStep
  BY Zenon, <1>2, RaftEnterKeeps, RaftPutKeeps, RaftRefusedKeeps, RaftReceiveKeeps DEF RaftStep
<1>3. CASE FsmStep
  BY Zenon, <1>3, FsmCallKeeps, FsmEnterKeeps, FsmTakeKeeps, FsmRefusedKeeps, FsmLockKeeps,
     FsmApplyKeeps, FsmReplyKeeps, FsmRestoreKeeps, FsmUnlockKeeps, FsmBeginAsyncKeeps,
     FsmBeginSyncKeeps DEF FsmStep
<1>4. CASE SnapStep
  BY Zenon, <1>4, SnapTakeKeeps, SnapJobKeeps, SnapExitKeeps DEF SnapStep
<1>5. CASE Cleanup
  BY Zenon, <1>5, CleanupKeeps
<1>6. CASE UNCHANGED vars
  <2>1. UNCHANGED <<call, sending, expected, fpc, fcur, count, jobs, spc, job, snapClosed, mpc,
                    queue, closed, stage>>
    BY <1>6 DEF vars, raft, fsm, snap, fsmq
  <2>2. TypeOK'
    <3>1. FsmQueue!TypeOK'
      BY <2>1, Types, QueueTypes DEF IInv
    <3> QED
      BY <2>1, <3>1 DEF IInv, TypeOK
  <2> QED
    BY Zenon, <2>1, <2>2, Frames DEF IInv
<1> QED
  BY Zenon, <1>1, <1>2, <1>3, <1>4, <1>5, <1>6 DEF Next

(* The inductive invariant holds of every behaviour of the FSM side. *)
THEOREM Invariant == Spec => []IInv
BY InitInv, NextInv, PTL DEF Spec

(* The calls, both workers and their queues keep their types, in           *)
(* particular fsm_queue never holds more than its capacity.                *)
THEOREM TypeCorrect == Spec => []TypeOK
<1>1. IInv => TypeOK
  BY DEF IInv
<1> QED
  BY <1>1, Invariant, PTL

(* A command returns, and a snapshot holds, the state of a sequential FSM  *)
(* after exactly the calls put before it.                                  *)
THEOREM InOrder == Spec => []AnswersInOrder
<1>1. IInv => AnswersInOrder
  BY DEF IInv
<1> QED
  BY <1>1, Invariant, PTL

(* A call is worked on in one place and not answered before, and Raft      *)
(* frees none that is still in use.                                        *)
THEOREM Once == Spec => []WorkedOnOnce
<1>1. ASSUME IInv PROVE WorkedOnOnce
  <2>1. SUFFICES ASSUME NEW c \in Calls
                 PROVE  /\ Places(c) <= 1
                        /\ Places(c) = 1 =>
                             c \in Allocated /\ (Terminal(c) => fpc = "unlock" /\ fcur = c)
                        /\ fpc = "lock" /\ fcur = c => call[c].state = "Pending"
    BY DEF WorkedOnOnce
  <2> DEFINE Q == {i \in DOMAIN queue : queue[i] = c}
             J == {i \in DOMAIN jobs : jobs[i].call = c}
  <2>2. DOMAIN queue = 1 .. Len(queue) /\ DOMAIN jobs = 1 .. Len(jobs)
    BY <1>1, Types DEF IInv
  <2>3. CASE Queued(c)
    <3>1. PICK n \in 1 .. Len(queue) : queue[n] = c
      BY <2>3 DEF Queued
    <3>2. Q = {n} /\ J = {}
      BY <1>1, <2>2, <3>1 DEF IInv, QueueInv, InJobs
    <3>3. /\ c \in Allocated /\ call[c].state = "Pending" /\ fcur # c /\ job.call # c
      BY <1>1, <3>1 DEF IInv, QueueInv
    <3>4. Cardinality(Q) = 1 /\ Cardinality(J) = 0
      BY Zenon, <3>2, NoElement, OneElement
    <3> QED
      BY <3>3, <3>4 DEF Places, Terminal
  <2>4. CASE InJobs(c)
    <3>1. PICK n \in 1 .. Len(jobs) : jobs[n].call = c
      BY <2>4 DEF InJobs
    <3>2. J = {n} /\ Q = {}
      BY <1>1, <2>2, <2>4, <3>1 DEF IInv, JobInv, QueueInv
    <3>3. /\ c \in Allocated /\ ~Terminal(c) /\ job.call # c
      BY <1>1, <3>1 DEF IInv, JobInv, JobFor
    <3>4. fcur # c
      BY <1>1, <2>4, FsmAssumption DEF IInv, FsmInv
    <3>5. Cardinality(Q) = 0 /\ Cardinality(J) = 1
      BY Zenon, <3>2, NoElement, OneElement
    <3> QED
      BY <3>3, <3>4, <3>5 DEF Places
  <2>5. CASE ~Queued(c) /\ ~InJobs(c)
    <3>1. Q = {} /\ J = {}
      BY Zenon, <2>2, <2>5 DEF Queued, InJobs
    <3>2. Cardinality(Q) = 0 /\ Cardinality(J) = 0
      BY Zenon, <3>1, NoElement
    <3>3. fcur = c => /\ c \in Allocated /\ job.call # c /\ (Terminal(c) => fpc = "unlock")
                      /\ fpc = "lock" => call[c].state = "Pending"
      BY <1>1, FsmAssumption DEF IInv, FsmInv
    <3>4. job.call = c => c \in Allocated /\ ~Terminal(c)
      BY <1>1, FsmAssumption DEF IInv, JobInv, JobFor
    <3> QED
      BY <3>2, <3>3, <3>4 DEF Places
  <2> QED
    BY <2>3, <2>4, <2>5
<1> QED
  BY <1>1, Invariant, PTL

(* Once raft_cleanup goes on to unmap the shared memory, no thread is left *)
(* that could answer a call in it.                                         *)
THEOREM CleanupLast == Spec => []NoAnswerAfterCleanup
<1>1. ASSUME IInv PROVE NoAnswerAfterCleanup
  <2>1. mpc = "done" => fpc = "exited" /\ spc = "none" /\ job.call = None
    BY <1>1 DEF IInv, CleanupInv, JobInv
  <2>2. job.call = None => job = NoJob
    BY <1>1, FsmAssumption DEF IInv, TypeOK, Job
  <2> QED
    BY <2>1, <2>2 DEF NoAnswerAfterCleanup
<1> QED
  BY <1>1, Invariant, PTL

=============================================================================
