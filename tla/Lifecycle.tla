----------------------------- MODULE Lifecycle -----------------------------
(***************************************************************************)
(* Starting and stopping libraft in a client process: raft_init,           *)
(* raft_shutdown, kill_raft_ and raft_cleanup (raft_c_if.cc, raft_shm.cc), *)
(* the threads they start and join, the flags of the scoreboard, the       *)
(* queues they open and close, and the Raft process with its watcher.  A   *)
(* client may start again after raft_cleanup, as the tests do.             *)
(*                                                                         *)
(* The worker threads are modelled by when they can end; what they do      *)
(* meanwhile is in FsmWorker and Futures.  The Raft process is external.   *)
(***************************************************************************)
EXTENDS Naturals

CONSTANT MaxRuns  \* bound: how often the client calls raft_init

ASSUME LifecycleAssumption == MaxRuns \in Nat \ {0}

VARIABLES main,     \* the client's thread
          alive,    \* FALSE once the client process called exit(1)
          mapped,   \* the shared memory is mapped
          file,     \* the file it is mapped from exists
          flags,    \* of the scoreboard
          thread,   \* the std::thread objects
          open,     \* the queues that are not closed
          orphans,  \* orphaned_calls holds calls
          raft,     \* the Raft process
          runs

vars == <<main, alive, mapped, file, flags, thread, open, orphans, raft, runs>>

Threads == {"raft_watcher", "orphan_gc", "fsm_worker", "snapshot_worker"}
Queues == {"api", "fsm", "snapshot", "orphan"}
Flags == {"is_raft_running", "shutdown_requested", "raft_killed"}

(* A Raft process, once started, runs until it exits with status 0 after a *)
(* Shutdown call, is terminated by kill_raft_, or fails by itself.         *)
RaftStates == {"none", "starting", "attached", "running", "told", "signalled",
               "exited", "terminated", "failed"}
Dead == {"exited", "terminated", "failed"}

Init ==
  /\ main = "out" /\ alive = TRUE /\ mapped = FALSE /\ file = FALSE
  /\ flags = [f \in Flags |-> FALSE]
  /\ thread = [t \in Threads |-> "none"]
  /\ open = Queues \ {"api", "fsm"}
  /\ orphans = FALSE
  /\ raft = "none" /\ runs = 0

Running(t) == thread[t] = "running"
Joinable(t) == thread[t] # "none"
Start(t) == thread' = [thread EXCEPT ![t] = "running"]

Goto(from, to) == alive /\ main = from /\ main' = to

-----------------------------------------------------------------------------
(* raft_init *)

InitReset ==
  /\ runs < MaxRuns /\ runs' = runs + 1
  /\ Goto("out", "shm_init")
  /\ open' = open \cup {"snapshot"}
  /\ UNCHANGED <<alive, mapped, file, flags, thread, orphans, raft>>

(* Fault: the orphan queue stays as the last run left it. *)
InitShmNoReset ==
  /\ Goto("shm_init", "run_raft")
  /\ mapped' = TRUE /\ file' = TRUE
  /\ flags' = [f \in Flags |-> FALSE]
  /\ open' = open \cup {"api", "fsm"}
  /\ UNCHANGED <<alive, thread, orphans, raft, runs>>

(* A new segment, in place of the file an earlier client may have left,    *)
(* and a new scoreboard; orphaned_calls is opened and emptied. *)
InitShm ==
  /\ Goto("shm_init", "run_raft")
  /\ mapped' = TRUE /\ file' = TRUE
  /\ flags' = [f \in Flags |-> FALSE]
  /\ open' = open \cup {"api", "fsm", "orphan"}
  /\ orphans' = FALSE
  /\ UNCHANGED <<alive, thread, raft, runs>>

(* The segment cannot be created, or fork fails: exit(1). *)
InitFails ==
  /\ alive /\ main \in {"shm_init", "run_raft"}
  /\ alive' = FALSE
  /\ UNCHANGED <<main, mapped, file, flags, thread, open, orphans, raft, runs>>

(* Fault: no watcher yet while raft_init waits. *)
InitRunRaftUnwatched ==
  /\ Goto("run_raft", "start_fsm_worker")
  /\ raft' = "starting"
  /\ Start("orphan_gc")
  /\ UNCHANGED <<alive, mapped, file, flags, open, orphans, runs>>

(* fork, and the two threads of raft_shm.cc *)
InitRunRaft ==
  /\ Goto("run_raft", "start_fsm_worker")
  /\ raft' = "starting"
  /\ thread' = [thread EXCEPT !["raft_watcher"] = "running",
                              !["orphan_gc"] = "running"]
  /\ UNCHANGED <<alive, mapped, file, flags, open, orphans, runs>>

InitStartFsm ==
  /\ Goto("start_fsm_worker", "wait_for_raft")
  /\ Start("fsm_worker")
  /\ UNCHANGED <<alive, mapped, file, flags, open, orphans, raft, runs>>

InitDone ==
  /\ Goto("wait_for_raft", "up") /\ flags["is_raft_running"]
  /\ UNCHANGED <<alive, mapped, file, flags, thread, open, orphans, raft, runs>>

-----------------------------------------------------------------------------
(* While Raft is up *)

(* A call is disposed of before it is answered. *)
Abandon ==
  /\ alive /\ main = "up" /\ "orphan" \in open
  /\ orphans' = TRUE
  /\ UNCHANGED <<main, alive, mapped, file, flags, thread, open, raft, runs>>

(* Fault: the Shutdown call goes out and the flag is not set. *)
ShutdownUnflagged ==
  /\ Goto("up", "shutdown")
  /\ raft' = IF raft = "running" THEN "told" ELSE raft
  /\ UNCHANGED <<alive, mapped, file, flags, thread, open, orphans, runs>>

(* raft_shutdown: set shutdown_requested ... *)
ShutdownFlag ==
  /\ Goto("up", "shutdown")
  /\ flags' = [flags EXCEPT !["shutdown_requested"] = TRUE]
  /\ UNCHANGED <<alive, mapped, file, thread, open, orphans, raft, runs>>

(* ... then send the call. *)
ShutdownSend ==
  /\ Goto("shutdown", "up")
  /\ raft' = IF raft = "running" THEN "told" ELSE raft
  /\ UNCHANGED <<alive, mapped, file, flags, thread, open, orphans, runs>>

(* kill_raft_: set raft_killed, then signal. *)
KillFlag ==
  /\ Goto("up", "kill")
  /\ flags' = [flags EXCEPT !["raft_killed"] = TRUE]
  /\ UNCHANGED <<alive, mapped, file, thread, open, orphans, raft, runs>>

KillSignal ==
  /\ Goto("kill", "up")
  /\ raft' = IF raft \in {"running", "told"} THEN "signalled" ELSE raft
  /\ UNCHANGED <<alive, mapped, file, flags, thread, open, orphans, runs>>

(* The FSM takes its first snapshot: raft_fsm_take_snapshot. *)
StartSnapshotWorker ==
  /\ alive /\ Running("fsm_worker") /\ ~Joinable("snapshot_worker")
  /\ Start("snapshot_worker")
  /\ UNCHANGED <<main, alive, mapped, file, flags, open, orphans, raft, runs>>

-----------------------------------------------------------------------------
(* raft_cleanup and shm_cleanup: close a queue, join its thread, go on *)

Closing(from, q, to) ==
  /\ Goto(from, to)
  /\ open' = open \ {q}
  /\ UNCHANGED <<alive, mapped, file, flags, thread, orphans, raft, runs>>

Joining(from, t, to) ==
  /\ Goto(from, to)
  /\ ~Running(t)
  /\ thread' = [thread EXCEPT ![t] = "none"]
  /\ UNCHANGED <<alive, mapped, file, flags, open, orphans, raft, runs>>

(* Fault: a thread is joined that may not be there: std::system_error. *)
JoinSnapshotUnchecked ==
  /\ Goto("join_snapshot", "close_api")
  /\ ~Running("snapshot_worker")
  /\ thread' = [thread EXCEPT !["snapshot_worker"] =
                  IF @ = "none" THEN "system_error" ELSE "none"]
  /\ UNCHANGED <<alive, mapped, file, flags, open, orphans, raft, runs>>

CloseFsm == Closing("up", "fsm", "join_fsm")
JoinFsm == Joining("join_fsm", "fsm_worker", "close_snapshot")
CloseSnapshot == Closing("close_snapshot", "snapshot", "join_snapshot")
JoinSnapshot == Joining("join_snapshot", "snapshot_worker", "close_api")
CloseApi == Closing("close_api", "api", "close_orphan")

CloseOrphan == Closing("close_orphan", "orphan", "join_gc")

JoinGc == Joining("join_gc", "orphan_gc", "join_watcher")

(* Fault: nobody waits for the watcher. *)
JoinNoWatcher ==
  /\ Goto("join_watcher", "unmap")
  /\ UNCHANGED <<alive, mapped, file, flags, thread, open, orphans, raft, runs>>

JoinWatcher == Joining("join_watcher", "raft_watcher", "unmap")

Unmap ==
  /\ Goto("unmap", "out")
  /\ mapped' = FALSE
  /\ UNCHANGED <<alive, file, flags, thread, open, orphans, raft, runs>>

-----------------------------------------------------------------------------
(* The threads *)

(* A worker's take() throws queue_closed. *)
End(t, q) ==
  /\ alive /\ Running(t) /\ q \notin open
  /\ thread' = [thread EXCEPT ![t] = "ended"]
  /\ UNCHANGED <<main, alive, mapped, file, flags, open, orphans, raft, runs>>

(* The GC takes all orphans out of its queue. *)
Collect ==
  /\ alive /\ Running("orphan_gc") /\ "orphan" \in open /\ orphans
  /\ orphans' = FALSE
  /\ UNCHANGED <<main, alive, mapped, file, flags, thread, open, raft, runs>>

EndFsm == End("fsm_worker", "fsm")
EndSnapshot == End("snapshot_worker", "snapshot")
EndGc == End("orphan_gc", "orphan")

(* An expected death of Raft, by the flags and its status. *)
Expected ==
  flags["shutdown_requested"] /\ (raft = "exited" \/ flags["raft_killed"])

(* Fault: a Raft process that was killed is always taken as expected. *)
WatchIgnoresKills ==
  /\ alive /\ Running("raft_watcher") /\ raft \in Dead
  /\ IF Expected \/ flags["raft_killed"]
     THEN /\ thread' = [thread EXCEPT !["raft_watcher"] = "ended"]
          /\ raft' = "none" /\ UNCHANGED alive
     ELSE alive' = FALSE /\ UNCHANGED <<thread, raft>>
  /\ UNCHANGED <<main, mapped, file, flags, open, orphans, runs>>

(* watch_raft_proc: waitpid reaps Raft; the watcher ends, or the client. *)
Watch ==
  /\ alive /\ Running("raft_watcher") /\ raft \in Dead
  /\ IF Expected
     THEN /\ thread' = [thread EXCEPT !["raft_watcher"] = "ended"]
          /\ raft' = "none" /\ UNCHANGED alive
     ELSE alive' = FALSE /\ UNCHANGED <<thread, raft>>
  /\ UNCHANGED <<main, mapped, file, flags, open, orphans, runs>>

-----------------------------------------------------------------------------
(* The Raft process (external) *)

RaftChanges(from, to) ==
  /\ raft \in from /\ raft' = to
  /\ UNCHANGED <<main, alive, mapped, thread, open, orphans, runs>>

(* shm_init on Raft's side: it opens the file, and unlinks it. *)
RaftAttach ==
  RaftChanges({"starting"}, "attached") /\ file /\ file' = FALSE /\ UNCHANGED flags

RaftUp ==
  /\ RaftChanges({"attached"}, "running") /\ UNCHANGED file
  /\ flags' = [flags EXCEPT !["is_raft_running"] = TRUE]

RaftExits == RaftChanges({"told"}, "exited") /\ UNCHANGED <<file, flags>>

RaftTerminated ==
  RaftChanges({"signalled"}, "terminated") /\ UNCHANGED <<file, flags>>

(* exec fails, or Raft crashes. *)
RaftFails ==
  RaftChanges({"starting", "attached", "running", "told", "signalled"}, "failed")
    /\ UNCHANGED <<file, flags>>

-----------------------------------------------------------------------------

InitStep == InitReset \/ InitShm \/ InitFails \/ InitRunRaft \/ InitStartFsm
              \/ InitDone

Call == Abandon \/ ShutdownFlag \/ ShutdownSend \/ KillFlag \/ KillSignal

Cleanup == CloseFsm \/ JoinFsm \/ CloseSnapshot \/ JoinSnapshot \/ CloseApi
             \/ CloseOrphan \/ JoinGc \/ JoinWatcher \/ Unmap

Worker == StartSnapshotWorker \/ EndFsm \/ EndSnapshot \/ EndGc \/ Collect \/ Watch

RaftProcess == RaftAttach \/ RaftUp \/ RaftExits \/ RaftTerminated \/ RaftFails

Next == InitStep \/ Call \/ Cleanup \/ Worker \/ RaftProcess

Spec == Init /\ [][Next]_vars

(* The client's thread goes through raft_init, the watcher runs, and a     *)
(* started Raft process comes up or fails.                                 *)
Fairness ==
  /\ WF_vars(InitShm \/ InitFails \/ InitRunRaft \/ InitStartFsm \/ InitDone)
  /\ WF_vars(Watch)
  /\ WF_vars(RaftAttach \/ RaftUp \/ RaftExits \/ RaftTerminated)

FairSpec == Spec /\ Fairness

-----------------------------------------------------------------------------
(* Properties *)

Mains == {"out", "shm_init", "run_raft", "start_fsm_worker", "wait_for_raft",
          "up", "shutdown", "kill", "join_fsm", "close_snapshot",
          "join_snapshot", "close_api", "close_orphan", "join_gc",
          "join_watcher", "unmap"}

(* Type invariant of the process, its threads, queues and flags. *)
TypeOK ==
  /\ main \in Mains /\ alive \in BOOLEAN /\ mapped \in BOOLEAN /\ file \in BOOLEAN
  /\ flags \in [Flags -> BOOLEAN]
  /\ thread \in [Threads -> {"none", "running", "ended"}]
  /\ open \in SUBSET Queues /\ orphans \in BOOLEAN
  /\ raft \in RaftStates /\ runs \in 0 .. MaxRuns

(* No thread outlives the mapping: shm_cleanup unmaps the scoreboard only  *)
(* when every thread that reads it or slots in it has been joined, the     *)
(* watcher, which reads the flags after Raft is dead, included.            *)
NoUseAfterUnmap == alive /\ ~mapped => \A t \in Threads : ~Running(t)

(* Every run starts afresh, also when the client starts Raft again: the    *)
(* asserts of run_raft, start_fsm_worker, raft_cleanup and shm_cleanup on  *)
(* joinable threads hold, until raft_cleanup all queues are open and all   *)
(* workers are there, no orphan of an unmapped segment is in the GC's      *)
(* queue when the GC starts, and a client that has cleaned up leaves no    *)
(* segment file behind.                                                    *)
FreshRun ==
  /\ main \in {"wait_for_raft", "up", "shutdown", "kill"} =>
       open = Queues /\ Running("fsm_worker") /\ Running("orphan_gc")
  /\ main = "run_raft" =>
       ~orphans /\ ~Joinable("raft_watcher") /\ ~Joinable("orphan_gc")
  /\ main = "start_fsm_worker" => ~Joinable("fsm_worker")
  /\ main = "join_fsm" => Joinable("fsm_worker")
  /\ main = "join_gc" => Joinable("orphan_gc")
  /\ alive /\ main = "out" => ~file

(* The watcher ends the client only for a reason: Raft failed, or it was   *)
(* killed and no shutdown was requested.  A Raft process that exits        *)
(* because raft_shutdown told it to never takes the client down with it.   *)
ExitJustified ==
  ~alive => \/ main \in {"shm_init", "run_raft"} \/ raft = "failed"
            \/ raft = "terminated" /\ ~flags["shutdown_requested"]

(* "if the process exits, the raft_watcher thread will catch it"           *)
(* (wait_for_raft): raft_init returns, or the process exits.               *)
InitReturns == (main = "wait_for_raft") ~> (main # "wait_for_raft" \/ ~alive)

(* A Raft process that dies without a request takes the client down (the   *)
(* death test of kill_raft_) unless shutdown is requested before the       *)
(* watcher looks.                                                          *)
DeathNoticed ==
  (raft = "terminated" /\ ~flags["shutdown_requested"] /\ alive)
     ~> (~alive \/ flags["shutdown_requested"])

=============================================================================
