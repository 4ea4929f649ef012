--------------------------- MODULE LifecycleProofs ---------------------------
(***************************************************************************)
(* Proofs about Lifecycle, for any number of runs in one process.  The     *)
(* safety properties are not inductive: that a thread is not there when a  *)
(* new run starts depends on every step of the previous raft_cleanup, and  *)
(* that the watcher's verdict is right depends on the order in which flags *)
(* are set and Raft is told.  IInv says, for every place in raft_init and  *)
(* raft_cleanup, which threads exist, which queues are open, which flags   *)
(* are set and what Raft can have done.                                    *)
(***************************************************************************)
EXTENDS Lifecycle, TLAPS

Starting == {"start_fsm_worker", "wait_for_raft"}
Using == {"up", "shutdown", "kill"}
NoRun == {"out", "shm_init", "run_raft", "unmap"}

(* Which threads there are *)
ThreadsAt ==
  /\ main \in NoRun \cup {"start_fsm_worker", "close_snapshot", "join_snapshot",
                          "close_api", "close_orphan", "join_gc", "join_watcher"}
       => thread["fsm_worker"] = "none"
  /\ main \in Using \cup {"wait_for_raft"} => thread["fsm_worker"] = "running"
  /\ main = "join_fsm" => thread["fsm_worker"] # "none"
  /\ main \in NoRun \cup {"join_watcher"} => thread["orphan_gc"] = "none"
  /\ main \in Starting \cup Using \cup {"join_fsm", "close_snapshot", "join_snapshot",
                                        "close_api", "close_orphan"}
       => thread["orphan_gc"] = "running"
  /\ main = "join_gc" => thread["orphan_gc"] # "none"
  /\ main \in NoRun => thread["raft_watcher"] = "none"
  /\ main \notin NoRun => thread["raft_watcher"] # "none"
  /\ main \in NoRun \cup {"start_fsm_worker", "close_api", "close_orphan",
                          "join_gc", "join_watcher"}
       => thread["snapshot_worker"] = "none"

(* What is mapped and open, and what is left in the orphan queue *)
MemoryAt ==
  /\ mapped = (main \notin {"out", "shm_init"})
  /\ main \in {"run_raft"} \cup Starting \cup Using => open = Queues
  /\ main = "shm_init" => "snapshot" \in open
  /\ main \in {"join_fsm", "close_snapshot", "join_snapshot", "close_api",
               "close_orphan"} => "orphan" \in open
  /\ main = "run_raft" => ~orphans
  /\ file => \/ main = "run_raft"
             \/ /\ main \in Starting /\ ~flags["is_raft_running"]
                /\ raft \in {"starting", "failed"}

(* What Raft can have done, by the flags *)
RaftAt ==
  /\ main \in NoRun => raft = "none"
  /\ thread["raft_watcher"] = "ended" => raft = "none"
  /\ main \in {"run_raft"} \cup Starting =>
       ~flags["shutdown_requested"] /\ ~flags["raft_killed"]
  /\ main = "run_raft" => ~flags["is_raft_running"]
  /\ main = "shutdown" => flags["shutdown_requested"]
  /\ main = "kill" => flags["raft_killed"]
  /\ raft \in {"told", "exited"} => flags["shutdown_requested"]
  /\ raft \in {"signalled", "terminated"} => flags["raft_killed"]
  /\ ExitJustified

IInv == TypeOK /\ ThreadsAt /\ MemoryAt /\ RaftAt

-----------------------------------------------------------------------------

(* The inductive invariant holds initially (the statics of raft_shm.cc). *)
LEMMA InitInv == Init => IInv
<1> SUFFICES ASSUME Init PROVE IInv
  OBVIOUS
<1>1. TypeOK
  <2>1. flags \in [Flags -> BOOLEAN] /\ alive \in BOOLEAN /\ mapped \in BOOLEAN
          /\ file \in BOOLEAN /\ orphans \in BOOLEAN
    BY Zenon DEF Init
  <2>2. main \in Mains /\ raft \in RaftStates /\ open \in SUBSET Queues
          /\ thread \in [Threads -> {"none", "running", "ended"}]
    BY DEF Init, Mains, RaftStates
  <2> QED
    BY <2>1, <2>2, LifecycleAssumption DEF Init, TypeOK
<1>2. ThreadsAt
  BY DEF Init, ThreadsAt, Threads, NoRun, Starting, Using
<1>3. MemoryAt /\ RaftAt
  BY Zenon DEF Init, MemoryAt, RaftAt, ExitJustified, Threads, NoRun, Starting, Using
<1> QED
  BY <1>1, <1>2, <1>3 DEF IInv

(* Every step of raft_init, raft_shutdown, raft_cleanup, the threads and   *)
(* the Raft process preserves it.                                          *)
LEMMA NextInv == IInv /\ [Next]_vars => IInv'
<1> SUFFICES ASSUME IInv, [Next]_vars PROVE IInv'
  OBVIOUS
<1> USE DEF IInv, TypeOK, ThreadsAt, MemoryAt, RaftAt, ExitJustified, Mains, Flags,
            Threads, Queues, RaftStates, NoRun, Starting, Using
<1>1. CASE InitReset
  BY <1>1, LifecycleAssumption DEF InitReset, Goto
<1>2. CASE InitShm
  <2>1. /\ main = "shm_init" /\ main' = "run_raft" /\ mapped' = TRUE /\ file' = TRUE
        /\ flags' = [f \in Flags |-> FALSE] /\ open' = open \cup {"api", "fsm", "orphan"}
        /\ orphans' = FALSE /\ UNCHANGED <<alive, thread, raft, runs>>
    BY Zenon, <1>2 DEF InitShm, Goto
  <2>2. /\ flags' \in [Flags -> BOOLEAN] /\ ~flags'["is_raft_running"]
        /\ ~flags'["shutdown_requested"] /\ ~flags'["raft_killed"]
    BY Zenon, <2>1
  <2>3. TypeOK'
    BY Zenon, <2>1, <2>2
  <2>4. ThreadsAt'
    BY Zenon, <2>1
  <2>5. MemoryAt'
    <3>1. "snapshot" \in open /\ open \subseteq Queues
      BY Zenon, <2>1
    <3>2. open' = Queues
      BY Zenon, <2>1, <3>1
    <3> QED
      BY Zenon, <2>1, <3>2
  <2>6. RaftAt'
    BY Zenon, <2>1, <2>2
  <2> QED
    BY Zenon, <2>3, <2>4, <2>5, <2>6
<1>3. CASE InitFails
  BY Zenon, <1>3 DEF InitFails
<1>4. CASE InitRunRaft
  BY <1>4 DEF InitRunRaft, Goto
<1>5. CASE InitStartFsm
  BY <1>5 DEF InitStartFsm, Goto, Start
<1>6. CASE InitDone
  BY <1>6 DEF InitDone, Goto
<1>7. CASE Abandon
  BY <1>7 DEF Abandon
<1>8. CASE ShutdownFlag
  BY <1>8 DEF ShutdownFlag, Goto
<1>9. CASE ShutdownSend
  BY <1>9 DEF ShutdownSend, Goto
<1>10. CASE KillFlag
  BY <1>10 DEF KillFlag, Goto
<1>11. CASE KillSignal
  BY <1>11 DEF KillSignal, Goto
<1>12. CASE CloseFsm
  BY <1>12 DEF CloseFsm, Goto, Closing
<1>13. CASE JoinFsm
  BY <1>13 DEF JoinFsm, Goto, Joining, Running
<1>14. CASE CloseSnapshot
  BY <1>14 DEF CloseSnapshot, Goto, Closing
<1>15. CASE JoinSnapshot
  BY <1>15 DEF JoinSnapshot, Goto, Joining, Running
<1>16. CASE CloseApi
  BY <1>16 DEF CloseApi, Goto, Closing
<1>17. CASE CloseOrphan
  BY <1>17 DEF CloseOrphan, Goto, Closing
<1>18. CASE JoinGc
  BY <1>18 DEF JoinGc, Goto, Joining, Running
<1>19. CASE JoinWatcher
  BY <1>19 DEF JoinWatcher, Goto, Joining, Running
<1>20. CASE Unmap
  BY Zenon, <1>20 DEF Unmap, Goto
<1>21. CASE StartSnapshotWorker
  BY <1>21 DEF StartSnapshotWorker, Running, Joinable, Start
<1>22. CASE EndFsm
  BY <1>22 DEF EndFsm, End, Running
<1>23. CASE EndSnapshot
  BY <1>23 DEF EndSnapshot, End, Running
<1>24. CASE EndGc
  BY <1>24 DEF EndGc, End, Running
<1>25. CASE Collect
  <2>1. orphans' = FALSE /\ UNCHANGED <<main, alive, mapped, file, flags, thread, open, raft, runs>>
    BY Zenon, <1>25 DEF Collect
  <2>2. TypeOK'
    BY Zenon, <2>1
  <2>3. ThreadsAt'
    BY Zenon, <2>1
  <2>4. MemoryAt' /\ RaftAt'
    BY Zenon, <2>1
  <2> QED
    BY Zenon, <2>2, <2>3, <2>4
<1>26. CASE Watch
  <2>1. CASE Expected
    <3>1. main \notin {"run_raft"} \cup Starting /\ ~file
      BY <2>1 DEF Expected
    <3> QED
      BY <1>26, <2>1, <3>1 DEF Watch, Running
  <2>2. CASE ~Expected
    <3>1. raft = "failed" \/ (raft = "terminated" /\ ~flags["shutdown_requested"])
      BY <1>26, <2>2 DEF Watch, Expected, Dead
    <3>2. /\ alive' = FALSE
          /\ UNCHANGED <<main, mapped, file, flags, thread, open, orphans, raft, runs>>
      BY Zenon, <1>26, <2>2 DEF Watch
    <3>3. TypeOK'
      BY Zenon, <3>2
    <3>4. ThreadsAt'
      BY Zenon, <3>2
    <3>5. MemoryAt'
      BY Zenon, <3>2
    <3>6. RaftAt'
      BY Zenon, <3>1, <3>2
    <3> QED
      BY Zenon, <3>3, <3>4, <3>5, <3>6
  <2> QED
    BY <2>1, <2>2
<1>27. CASE RaftAttach
  BY Zenon, <1>27 DEF RaftAttach, RaftChanges
<1>28. CASE RaftUp
  BY <1>28 DEF RaftUp, RaftChanges
<1>29. CASE RaftExits
  BY <1>29 DEF RaftExits, RaftChanges
<1>30. CASE RaftTerminated
  BY <1>30 DEF RaftTerminated, RaftChanges
<1>31. CASE RaftFails
  BY <1>31 DEF RaftFails, RaftChanges
<1>32. CASE UNCHANGED vars
  BY <1>32 DEF vars
<1> HIDE DEF IInv
<1> QED
  BY Zenon, <1>1, <1>2, <1>3, <1>4, <1>5, <1>6, <1>7, <1>8, <1>9, <1>10, <1>11,
     <1>12, <1>13, <1>14, <1>15, <1>16, <1>17, <1>18, <1>19, <1>20, <1>21, <1>22,
     <1>23, <1>24, <1>25, <1>26, <1>27, <1>28, <1>29, <1>30, <1>31, <1>32
     DEF Next, InitStep, Call, Cleanup, Worker, RaftProcess

(* So it always holds. *)
LEMMA Invariant == Spec => []IInv
BY InitInv, NextInv, PTL DEF Spec

(* The variables of the life cycle keep their types; above all no join     *)
(* ever finds a thread object that is not joinable.                        *)
THEOREM TypeCorrect == Spec => []TypeOK
<1>1. IInv => TypeOK
  BY DEF IInv
<1> QED
  BY <1>1, Invariant, PTL

(* No thread runs once shm_cleanup has unmapped the segment. *)
THEOREM UnmapIsSafe == Spec => []NoUseAfterUnmap
<1>1. IInv => NoUseAfterUnmap
  BY Zenon DEF IInv, ThreadsAt, MemoryAt, NoRun, NoUseAfterUnmap, Running, Threads
<1> QED
  BY <1>1, Invariant, PTL

(* However often raft_init follows raft_cleanup, the asserts on joinable   *)
(* threads hold, the queues are open and no orphan or file is left over.   *)
THEOREM RunsAreFresh == Spec => []FreshRun
<1>1. IInv => FreshRun
  BY DEF IInv, ThreadsAt, MemoryAt, NoRun, Starting, Using, FreshRun, Running, Joinable
<1> QED
  BY <1>1, Invariant, PTL

(* watch_raft_proc ends the client only if Raft failed, or was killed      *)
(* without a request to shut down.                                         *)
THEOREM ExitsAreJustified == Spec => []ExitJustified
<1>1. IInv => ExitJustified
  BY DEF IInv, RaftAt
<1> QED
  BY <1>1, Invariant, PTL

=============================================================================
