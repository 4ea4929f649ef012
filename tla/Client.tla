------------------------------ MODULE Client ------------------------------
(***************************************************************************)
(* Single-threaded programs that use libraft:                              *)
(*                                                                         *)
(*   main  the demonstration client raft_client.c: it parses its command   *)
(*         line into its own settings and a RaftConfig (config.cc), starts *)
(*         Raft, sends commands and snapshot requests, prints Raft's       *)
(*         statistics and shuts Raft down;                                 *)
(*   sync  a program that calls the synchronous functions of raft_c_if.cc  *)
(*         one after the other.                                            *)
(*                                                                         *)
(* Both make their calls through Calls, which Futures implements.  The     *)
(* Raft process (external) answers calls, wins and loses leadership, exits *)
(* when told to, and may die; the watcher thread then ends the program.    *)
(* raft_init and raft_cleanup are single steps here, and detailed in       *)
(* Lifecycle and FsmWorker.                                                *)
(*                                                                         *)
(* Strings are numbers that name them; an argument is such a number, with  *)
(* the letter behind it where the code looks at one.                       *)
(***************************************************************************)
EXTENDS Integers, Sequences, FiniteSets

CONSTANTS Cmdlines,            \* sequences of [opt, num, suffix]
          Slots, None,
          DefaultRuns,         \* 20
          SHM_SIZE, Kilo,      \* 64M; 1024
          Word, PortWord,      \* 2^64, 2^16
          MaxLines             \* bound: lines typed, calls of a sync program

Argument == [opt : STRING, num : Nat, suffix : STRING]

ASSUME ClientAssumption ==
  /\ Cmdlines \subseteq Seq(Argument)
  /\ None \notin Slots \cup {"value", "error", "invalid_address"}
  /\ {DefaultRuns, SHM_SIZE, MaxLines} \subseteq Nat
  /\ {Kilo, Word, PortWord} \subseteq Nat \ {0}

VARIABLES prog, pc,
          cmdline, optind, config, settings,  \* command line and its outcome
          i, fut, buf,     \* run or call number, future, command buffer
          done,            \* commands and snapshots completed
          ret,             \* what the last synchronous function returned
          issued, orphaned, answer,           \* Calls
          raft, leader, shutdown              \* Raft, and scoreboard flags

opts == <<cmdline, optind, config, settings>>
work == <<i, fut, buf, done, ret>>
calls == <<issued, orphaned, answer>>
raftVars == <<raft, leader, shutdown>>
vars == <<prog, pc, opts, work, calls, raftVars>>

Api == INSTANCE Calls WITH
         Refusals <- {"invalid_address"}, Answers <- {"value", "error"}

-----------------------------------------------------------------------------
(* config.cc.  The names of options have their dashes; the entry at the    *)
(* end of a table has no name.                                             *)

RaftOpts == << <<"--shm-path", "ShmPath">>, <<"--shm-size", "ShmSize">>,
               <<"--backend-type", "Backend">>, <<"--dir", "Dir">>,
               <<"--port", "Port">>, <<"--single", "Single">>,
               <<"--peers", "Peers">>, <<"--verbose", "Verbose">>,
               <<"--", "0">> >>

DefaultPort == 9001

(* The fields that options can change. *)
default_config ==
  [shm_path |-> 0, shm_size |-> SHM_SIZE, backend_type |-> 0, base_dir |-> 0,
   listen_port |-> DefaultPort, peers |-> 0, EnableSingleNode |-> FALSE,
   verbose |-> FALSE]

is_valid(key) == key \in {"ShmPath", "ShmSize", "Backend", "Dir", "Port",
                          "Single", "Peers", "Verbose"}

(* Fault: megabytes are taken for kilobytes. *)
UnitNoMega(suffix) == CASE suffix \in {"k", "K", "m", "M"} -> Kilo
                        [] suffix \in {"g", "G"} -> Kilo * Kilo * Kilo
                        [] OTHER -> 1

Unit(suffix) == CASE suffix \in {"k", "K"} -> Kilo
                  [] suffix \in {"m", "M"} -> Kilo * Kilo
                  [] suffix \in {"g", "G"} -> Kilo * Kilo * Kilo
                  [] OTHER -> 1  \* none, or one that is only logged

parse_size(arg) == (arg.num * Unit(arg.suffix)) % Word

apply(cfg, key, arg) ==
  CASE key = "ShmPath" -> [cfg EXCEPT !.shm_path = arg.num]
    [] key = "ShmSize" -> [cfg EXCEPT !.shm_size = parse_size(arg)]
    [] key = "Backend" -> [cfg EXCEPT !.backend_type = arg.num]
    [] key = "Dir" -> [cfg EXCEPT !.base_dir = arg.num]
    [] key = "Port" -> [cfg EXCEPT !.listen_port = arg.num % PortWord]
    [] key = "Single" -> [cfg EXCEPT !.EnableSingleNode = TRUE]
    [] key = "Peers" -> [cfg EXCEPT !.peers = arg.num]
    [] key = "Verbose" -> [cfg EXCEPT !.verbose = TRUE]

-----------------------------------------------------------------------------
(* The command line of raft_client.c *)

LONG_OPTS == << <<"--runs", "r">>, <<"--snapshots", "s">>, <<"--wait", "w">>,
                <<"--interactive", "i">>, <<"--help", "h">>, <<"--", "0">> >>

count_opts(table) == (CHOOSE n \in 1 .. Len(table) :
                        table[n][1] = "--" /\ \A m \in 1 .. n - 1 : table[m][1] # "--") - 1

merge_opts(a, b) == SubSeq(a, 1, count_opts(a)) \o SubSeq(b, 1, count_opts(b) + 1)

(* getopt_long (external): the key of an option, in either form *)
getopt_long(arg) ==
  LET long == merge_opts(LONG_OPTS, RaftOpts)
      short == << <<"-n", "n">>, <<"-s", "s">>, <<"-w", "w">>, <<"-i", "i">> >>
      keys == {e \in {long[n] : n \in 1 .. Len(long)}
                       \cup {short[n] : n \in 1 .. Len(short)} : e[1] = arg.opt}
  IN IF keys = {} THEN "?" ELSE (CHOOSE e \in keys : TRUE)[2]

Init ==
  /\ \/ prog = "main" /\ pc = "parse"
     \/ prog = "sync" /\ pc = "raft_init"
  /\ cmdline \in IF prog = "main" THEN Cmdlines ELSE {<<>>}
  /\ optind = 1 /\ config = default_config
  /\ settings = [runs |-> DefaultRuns, snapshot_period |-> 0,
                 delay |-> <<1, 0>>, interactive |-> FALSE]
  /\ i = 1 /\ fut = None /\ buf = FALSE
  /\ done = [commands |-> 0, snapshots |-> 0] /\ ret = None
  /\ Api!Init
  /\ raft = "none" /\ leader = FALSE /\ shutdown = FALSE

Goto(from, to) == pc = from /\ pc' = to /\ UNCHANGED prog

(* One turn of the loop of parse_opts, or its return.  It runs once before *)
(* raft_init and once after it, when getopt has no options left.           *)
ParseOption ==
  LET arg == cmdline[optind]
      key == getopt_long(arg)
      Set(new) == Goto("parse", "parse") /\ settings' = new /\ UNCHANGED config
  IN
  /\ optind <= Len(cmdline)
  /\ \/ /\ is_valid(key)
        /\ Goto("parse", "parse")
        /\ config' = apply(config, key, arg) /\ UNCHANGED settings
     \/ key = "n" /\ Set([settings EXCEPT !.runs = arg.num])
     \/ key = "s" /\ Set([settings EXCEPT !.snapshot_period = arg.num])
     \/ key = "w" /\ Set([settings EXCEPT !.delay =
                            <<arg.num \div 1000000, (arg.num % 1000000) * 1000>>])
     \/ key = "i" /\ Set([settings EXCEPT !.interactive = TRUE])
     \/ key = "h" /\ Goto("parse", "exit_0") /\ UNCHANGED <<config, settings>>
     \/ key \in {"?", "r"} /\ Goto("parse", "exit_2") /\ UNCHANGED <<config, settings>>
  /\ optind' = optind + 1
  /\ UNCHANGED <<cmdline, work, calls, raftVars>>

(* merge_opts fails in malloc, or the options are at their end. *)
ParseReturns ==
  /\ \/ Goto("parse", "exit_1") /\ optind = 1 /\ raft = "none"
     \/ Goto("parse", "raft_init") /\ optind > Len(cmdline) /\ raft = "none"
     \/ Goto("parse", "await") /\ raft # "none"
  /\ UNCHANGED <<opts, work, calls, raftVars>>

-----------------------------------------------------------------------------
(* raft_client.c: main and its loops *)

raft_init ==
  /\ Goto("raft_init", IF prog = "main" THEN "parse" ELSE "idle")
  /\ raft' = "up"
  /\ UNCHANGED <<opts, work, calls, leader, shutdown>>

AwaitLeader ==
  /\ Goto("await", "run") /\ leader
  /\ UNCHANGED <<opts, work, calls, raftVars>>

(* Fault: the future is disposed of as soon as the call is sent. *)
SendDisposed(s) ==
  /\ s \notin issued \cup orphaned /\ orphaned' = orphaned \cup {s}
  /\ fut' = s /\ UNCHANGED <<issued, answer>>

(* send_api_request of a call that goes out *)
Send(s) == Api!Issue(s) /\ answer'[s] = None /\ fut' = s

(* A client waits for its call and disposes of it. *)
Finish == answer[fut] # None /\ Api!Dispose(fut) /\ fut' = None

(* Fault: the loop ends one run early. *)
MoreRunsBut1 == i < settings.runs

MoreRuns == i <= settings.runs

(* run_auto's loop goes on, or a line of text is read: send_command up to  *)
(* its wait.                                                               *)
SendCommand ==
  /\ IF settings.interactive THEN i <= MaxLines ELSE MoreRuns
  /\ Goto("run", "command")
  /\ buf' = TRUE /\ \E s \in Slots : Send(s)
  /\ UNCHANGED <<opts, i, done, ret, raftVars>>

(* send_command from its wait on; an error is printed and forgotten. *)
CommandDone ==
  /\ Goto("command", IF settings.interactive THEN "next" ELSE "ran")
  /\ Finish /\ buf' = FALSE
  /\ done' = [done EXCEPT !.commands = @ + 1]
  /\ UNCHANGED <<opts, i, ret, raftVars>>

SnapshotDue == settings.snapshot_period # 0 /\ i % settings.snapshot_period = 0

(* take_snapshot up to its wait: when it is due, or S was typed *)
TakeSnapshot ==
  /\ \/ Goto("ran", "snapshot") /\ SnapshotDue
     \/ Goto("run", "snapshot") /\ settings.interactive /\ i <= MaxLines
  /\ \E s \in Slots : Send(s)
  /\ UNCHANGED <<opts, i, buf, done, ret, raftVars>>

SnapshotDone ==
  /\ Goto("snapshot", "next") /\ Finish
  /\ done' = [done EXCEPT !.snapshots = @ + 1]
  /\ UNCHANGED <<opts, i, buf, ret, raftVars>>

NextRun ==
  /\ \/ Goto("ran", "run") /\ ~SnapshotDue
     \/ Goto("next", "run")
  /\ i' = i + 1
  /\ UNCHANGED <<opts, fut, buf, done, ret, calls, raftVars>>

(* The loop ends, in interactive mode with Q or the end of the input: main *)
(* asks for the statistics.                                                *)
SendStats ==
  /\ IF settings.interactive THEN TRUE ELSE ~MoreRuns
  /\ Goto("run", "get_stats")
  /\ \E s \in Slots : Send(s)
  /\ UNCHANGED <<opts, i, buf, done, ret, raftVars>>

(* future_get in raft_future_get_stats looks at the error only if it has   *)
(* to wait; without one it takes the handle and asserts that it is not 0.  *)
(* The future is not disposed of.                                          *)
GetStats ==
  /\ \/ Goto("get_stats", "wait_stats") /\ answer[fut] = None
     \/ Goto("get_stats", "shutdown") /\ answer[fut] = "value"
     \/ Goto("get_stats", "abort") /\ answer[fut] = "error"
     \/ Goto("wait_stats", "shutdown") /\ answer[fut] = "value"
     \/ Goto("wait_stats", "exit_1") /\ answer[fut] = "error"
  /\ UNCHANGED <<opts, work, calls, raftVars>>

raft_shutdown ==
  /\ Goto("shutdown", "wait_shutdown")
  /\ shutdown' = TRUE
  /\ \E s \in Slots : Send(s)
  /\ UNCHANGED <<opts, i, buf, done, ret, raft, leader>>

ShutdownReturns ==
  /\ \/ Goto("wait_shutdown", "cleanup") /\ answer[fut] = "value"
     \/ Goto("wait_shutdown", "exit_1") /\ answer[fut] = "error"
  /\ UNCHANGED <<opts, work, calls, raftVars>>

(* It joins the watcher, which ends when Raft has. *)
raft_cleanup ==
  /\ raft = "exited"
  /\ Goto("cleanup", "exit_0")
  /\ UNCHANGED <<opts, work, calls, raftVars>>

-----------------------------------------------------------------------------
(* raft_c_if.cc: raft_apply_sync, raft_state, raft_last_contact, which     *)
(* wait for their call, and raft_last_index and raft_leader, which use     *)
(* future_eat.                                                             *)

Waiters == {"apply_sync", "state", "last_contact"}
Eaters == {"last_index", "leader"}

(* What they return when the call failed. *)
ErrorOf(fn) == CASE fn \in {"apply_sync", "leader"} -> "error"
                 [] fn = "state" -> "RAFT_INVALID_STATE"
                 [] fn \in {"last_contact", "last_index"} -> "0"

Returned(fn, value) == ret' = [fn |-> fn, answer |-> answer[fut], value |-> value]

(* The pointer for the result is NULL: no call is made. *)
SyncNull ==
  /\ i <= MaxLines /\ Goto("idle", "idle")
  /\ \E fn \in {"apply_sync", "leader"} :
       ret' = [fn |-> fn, answer |-> "invalid_address", value |-> "error"]
  /\ i' = i + 1
  /\ UNCHANGED <<opts, fut, buf, done, calls, raftVars>>

(* The command of raft_apply_sync may be outside shared memory. *)
SyncSend(fn) ==
  /\ i <= MaxLines
  /\ Goto("idle", IF fn \in Eaters THEN "get" ELSE "wait")
  /\ \E s \in Slots : /\ Api!Issue(s) /\ fut' = s
                      /\ fn # "apply_sync" => answer'[s] = None
  /\ ret' = [fn |-> fn, answer |-> None, value |-> "none"]
  /\ UNCHANGED <<opts, i, buf, done, raftVars>>

(* future_get finds the answer there and takes the value, 0 if the call    *)
(* failed; the call is disposed of without a wait.  raft_leader asserts    *)
(* that it is not 0.                                                       *)
SyncEat ==
  /\ \/ Goto("get", "idle") /\ answer[fut] = "value" /\ Returned(ret.fn, "value")
     \/ Goto("get", IF ret.fn = "leader" THEN "abort" ELSE "idle")
          /\ answer[fut] = "error" /\ Returned(ret.fn, "0")
  /\ Api!Abandon(fut) /\ fut' = None /\ i' = i + 1
  /\ UNCHANGED <<opts, buf, done, raftVars>>

SyncGet ==
  /\ Goto("get", "wait") /\ answer[fut] = None
  /\ UNCHANGED <<opts, work, calls, raftVars>>

(* Fault: the error of the wait is not looked at. *)
SyncWaitUnchecked ==
  /\ Goto("wait", "idle") /\ answer[fut] # None
  /\ Returned(ret.fn, "value")
  /\ Finish /\ i' = i + 1
  /\ UNCHANGED <<opts, buf, done, raftVars>>

SyncWait ==
  /\ Goto("wait", "idle") /\ answer[fut] # None
  /\ Returned(ret.fn, IF answer[fut] = "value" THEN "value" ELSE ErrorOf(ret.fn))
  /\ Finish /\ i' = i + 1
  /\ UNCHANGED <<opts, buf, done, raftVars>>

SyncEnds ==
  /\ Goto("idle", "shutdown") /\ ret' = None
  /\ UNCHANGED <<opts, i, fut, buf, done, calls, raftVars>>

-----------------------------------------------------------------------------
(* The orphan GC, the watcher and the Raft process *)

CollectOrphan ==
  /\ \E s \in Slots : Api!Collect(s)
  /\ UNCHANGED <<prog, pc, opts, work, raftVars>>

Exits == {"exit_0", "exit_1", "exit_2", "abort"}

(* Fault: the loop goes on if Raft dies after a shutdown was requested. *)
WatchOn ==
  /\ raft = "dead" /\ pc \notin Exits
  /\ pc' = IF shutdown THEN pc ELSE "exit_1"
  /\ UNCHANGED <<prog, opts, work, calls, raftVars>>

(* watch_raft_proc: Raft ended without, or not as, requested *)
Watch ==
  /\ raft = "dead" /\ pc \notin Exits
  /\ pc' = "exit_1" /\ UNCHANGED <<prog, opts, work, calls, raftVars>>

RaftAnswers(s) ==
  /\ raft = "up" /\ Api!Answer(s) /\ answer'[s] # "invalid_address"
  /\ UNCHANGED <<prog, pc, opts, work, raftVars>>

(* Raft exits with status 0 once it has answered the Shutdown call. *)
RaftExits ==
  /\ raft = "up" /\ shutdown /\ answer[fut] = "value"
  /\ raft' = "exited" /\ UNCHANGED <<prog, pc, opts, work, calls, leader, shutdown>>

RaftDies ==
  /\ raft = "up"
  /\ raft' = "dead" /\ UNCHANGED <<prog, pc, opts, work, calls, leader, shutdown>>

RaftLeads ==
  /\ raft = "up" /\ leader' = ~leader
  /\ UNCHANGED <<prog, pc, opts, work, calls, raft, shutdown>>

Main ==
  \/ ParseOption \/ ParseReturns \/ raft_init \/ AwaitLeader
  \/ SendCommand \/ CommandDone \/ TakeSnapshot \/ SnapshotDone \/ NextRun
  \/ SendStats \/ GetStats \/ raft_shutdown \/ ShutdownReturns \/ raft_cleanup

Sync ==
  \/ \E fn \in Waiters \cup Eaters : SyncSend(fn)
  \/ SyncNull \/ SyncEat \/ SyncGet \/ SyncWait \/ SyncEnds

Running == pc \notin Exits /\ (Main \/ Sync)

Environment ==
  /\ pc \notin Exits
  /\ \/ CollectOrphan \/ Watch \/ RaftExits \/ RaftDies \/ RaftLeads
     \/ \E s \in Slots : RaftAnswers(s)

Ended == pc \in Exits /\ UNCHANGED vars

Next == Running \/ Environment \/ Ended

Spec == Init /\ [][Next]_vars

(* The program's thread and the watcher run; Raft, while it lives, answers *)
(* every call, and exits when it has answered Shutdown.                    *)
FairSpec ==
  /\ Spec /\ WF_vars(Running) /\ WF_vars(Watch) /\ WF_vars(RaftExits)
  /\ WF_vars(CollectOrphan)
  /\ \A s \in Slots : WF_vars(RaftAnswers(s))

-----------------------------------------------------------------------------
(* Properties *)

(* Every variable has its type: a program holds at most one call it waits  *)
(* for, and only started programs make calls.                              *)
TypeOK ==
  /\ prog \in {"main", "sync"} /\ optind \in 1 .. Len(cmdline) + 1
  /\ i \in 1 .. 1 + IF prog = "sync" \/ settings.interactive THEN MaxLines
                                                             ELSE settings.runs
  /\ fut \in issued \cup {None} /\ buf \in BOOLEAN
  /\ issued \cup orphaned \subseteq Slots /\ issued \cap orphaned = {}
  /\ answer \in [Slots -> {None, "value", "error", "invalid_address"}]
  /\ raft \in {"none", "up", "exited", "dead"}
  /\ raft = "none" => issued = {}

(* Where an option was last given, 0 if it was not *)
LastGiven(options) ==
  LET at == {n \in 1 .. Len(cmdline) : cmdline[n].opt \in options}
  IN IF at = {} THEN 0 ELSE CHOOSE n \in at : \A m \in at : m <= n

(* The bytes an argument of --shm-size stands for *)
Bytes(arg) == arg.num * (IF arg.suffix \in {"k", "K"} THEN Kilo
                         ELSE IF arg.suffix \in {"m", "M"} THEN Kilo * Kilo
                         ELSE IF arg.suffix \in {"g", "G"} THEN Kilo * Kilo * Kilo
                         ELSE 1)

(* A timespec, with tv_nsec below a second, of whole microseconds *)
Lasts(delay, usec) ==
  /\ delay[1] * 1000000 + delay[2] \div 1000 = usec
  /\ 0 <= delay[2] /\ delay[2] < 1000000000 /\ delay[2] % 1000 = 0

(* Raft is started with what the command line asked for, whatever the      *)
(* order of the options and however often they are repeated: the last      *)
(* value given, or the default.  A size is exact unless it needs more than *)
(* 64 bits; the delay between commands is the microseconds given, one      *)
(* second by default.  (config.cc apply and parse_size, parse_opts)        *)
ConfigAsAsked ==
  raft # "none" /\ prog = "main" =>
    LET size == LastGiven({"--shm-size"})
        port == LastGiven({"--port"})
        wait == LastGiven({"-w", "--wait"})
        runs == LastGiven({"-n"})
        snaps == LastGiven({"-s", "--snapshots"})
    IN
    /\ IF size = 0 THEN config.shm_size = SHM_SIZE
       ELSE Bytes(cmdline[size]) < Word => config.shm_size = Bytes(cmdline[size])
    /\ IF port = 0 THEN config.listen_port = DefaultPort
       ELSE cmdline[port].num < PortWord => config.listen_port = cmdline[port].num
    /\ IF wait = 0 THEN settings.delay = <<1, 0>>
       ELSE Lasts(settings.delay, cmdline[wait].num)
    /\ settings.runs = IF runs = 0 THEN DefaultRuns ELSE cmdline[runs].num
    /\ settings.snapshot_period = IF snaps = 0 THEN 0 ELSE cmdline[snaps].num
    /\ settings.interactive = (LastGiven({"-i", "--interactive"}) # 0)
    /\ config.EnableSingleNode = (LastGiven({"--single"}) # 0)
    /\ config.verbose = (LastGiven({"--verbose"}) # 0)

(* When Raft is told to shut down, every run has been made and every       *)
(* snapshot that was due has been taken, the command buffers are freed,    *)
(* every earlier call has been answered, and the program holds no future   *)
(* but those of Stats and Shutdown.  (main, run_auto, send_command)        *)
ShutdownAfterWork ==
  shutdown =>
    /\ ~buf
    /\ \A s \in (issued \cup orphaned) \ {fut} : answer[s] # None
    /\ Cardinality(issued) = IF prog = "main" THEN 2 ELSE 1
    /\ prog = "main" /\ ~settings.interactive =>
         LET period == settings.snapshot_period IN
         /\ done.commands = settings.runs
         /\ done.snapshots = IF period = 0 THEN 0 ELSE settings.runs \div period

(* A synchronous function returns a result of Raft exactly if its own call *)
(* succeeded, and the program then holds no future.  An assertion on a     *)
(* result (raft_leader, raft_future_get_stats) fails only if Raft refused  *)
(* the call before the program looked at it.                               *)
SyncAnswers ==
  /\ pc = "idle" =>
       /\ issued = {} /\ fut = None
       /\ ret # None => (ret.answer = "value" <=> ret.value = "value")
  /\ pc = "abort" => IF prog = "main" THEN answer[fut] = "error"
                     ELSE ret.fn = "leader" /\ ret.answer = "error"

(* If Raft dies, or gets a leader that stays, the program ends: it is      *)
(* never left waiting for an answer or for the watcher.  (watch_raft_proc, *)
(* and raft_future_wait without a timeout)                                 *)
ProgramEnds == <>[](leader \/ raft \in {"exited", "dead"}) => <>(pc \in Exits)

=============================================================================
