---------------------------- MODULE ClientProofs ----------------------------
(***************************************************************************)
(* Proofs about Client, for every set of command lines and of call slots,  *)
(* every word size and every number of runs.                               *)
(*                                                                         *)
(* The inductive invariant IInv has, beside the types, one part for each   *)
(* thing the program could get wrong: ControlInv, where it may be before   *)
(* and after Raft is started and told to shut down; CallInv, which futures *)
(* it then holds; SyncInv, what a synchronous function has returned;       *)
(* WorkInv, how many commands and snapshots are done at each point of the  *)
(* loop; and ConfigInv, that each setting is what the options read so far  *)
(* ask for.  A numeral is counted up to by the provers, so large ones have *)
(* names.                                                                  *)
(***************************************************************************)
EXTENDS Client, TLAPS

-----------------------------------------------------------------------------
(* The inductive invariant *)

Config == [shm_path : Nat, shm_size : Nat, backend_type : Nat, base_dir : Nat,
           listen_port : Nat, peers : Nat, EnableSingleNode : BOOLEAN, verbose : BOOLEAN]

Settings == [runs : Nat, snapshot_period : Nat, delay : Nat \X Nat, interactive : BOOLEAN]

Calling == Waiters \cup Eaters

Replies == {None, "value", "error", "invalid_address"}

(* The runs or calls that the loop makes *)
Limit == IF prog = "sync" \/ settings.interactive THEN MaxLines ELSE settings.runs

(* The snapshots taken in n runs *)
Due(period, n) == IF period = 0 THEN 0 ELSE n \div period

Starting == {"parse", "raft_init", "await"}
Resting == Starting \cup {"run", "ran", "next", "idle"}
Waiting == {"command", "snapshot", "get_stats", "wait_stats", "get", "wait"}
Ending == {"shutdown", "wait_shutdown", "cleanup"}

(* Where main and a program of synchronous functions can be, before and    *)
(* after Raft is started and told to shut down                             *)
ControlInv ==
  /\ pc \in Resting \cup Waiting \cup Ending \cup Exits
  /\ pc \in (Resting \cup Waiting) \ {"raft_init", "idle", "get", "wait"} => prog = "main"
  /\ pc \in {"idle", "get", "wait"} => prog = "sync"
  /\ raft = "none" => pc \in {"parse", "raft_init"} \cup Exits
  /\ pc = "raft_init" => raft = "none"
  /\ raft # "none" \/ pc = "raft_init" => optind = Len(cmdline) + 1
  /\ shutdown => pc \in {"wait_shutdown", "cleanup"} \cup Exits
  /\ pc \in {"wait_shutdown", "cleanup"} => shutdown

(* The program holds the call that it waits for and no other, but for the  *)
(* one of Stats, which main keeps.  Orphans are answered.                  *)
CallInv ==
  /\ pc \in Resting => fut = None /\ issued = {}
  /\ pc \in Waiting => fut # None /\ issued = {fut}
  /\ pc = "shutdown" /\ prog = "sync" => fut = None /\ issued = {}
  /\ pc = "shutdown" /\ prog = "main" => fut # None /\ issued = {fut} /\ answer[fut] = "value"
  /\ shutdown => fut # None
  /\ shutdown /\ prog = "sync" => issued = {fut}
  /\ shutdown /\ prog = "main" =>
       \E s \in issued : s # fut /\ issued = {s, fut} /\ answer[s] = "value"
  /\ \A s \in orphaned : answer[s] # None
  /\ buf => pc = "command" \/ (pc \in Exits /\ ~shutdown)

Return == [fn : Calling, answer : Replies,
           value : {"none", "value", "error", "RAFT_INVALID_STATE", "0"}]

(* What a synchronous function has returned is about its own call. *)
SyncInv ==
  /\ ret \in {None} \cup Return
  /\ pc \in {"get", "wait"} => ret \in Return
  /\ pc \in Starting => ret = None
  /\ SyncAnswers

(* The work done, at each point of the loops *)
WorkInv ==
  /\ settings \in Settings
  /\ done \in [commands : Nat, snapshots : Nat]
  /\ pc \in Starting => i = 1 /\ done.commands = 0 /\ done.snapshots = 0
  /\ pc \in {"command", "ran", "snapshot", "next", "get", "wait"} => i <= Limit
  /\ prog = "main" /\ ~settings.interactive =>
       /\ pc \in {"run", "command"} =>
            done.commands = i - 1 /\ done.snapshots = Due(settings.snapshot_period, i - 1)
       /\ pc \in {"ran", "snapshot"} =>
            done.commands = i /\ done.snapshots = Due(settings.snapshot_period, i - 1)
       /\ pc = "snapshot" => SnapshotDue
       /\ pc = "next" => done.commands = i /\ done.snapshots = Due(settings.snapshot_period, i)
       /\ pc \in {"get_stats", "wait_stats", "shutdown"} \/ shutdown =>
            /\ done.commands = settings.runs
            /\ done.snapshots = Due(settings.snapshot_period, settings.runs)

(* v is what the last of the options in the first k - 1 arguments of line  *)
(* gives, or the default.                                                  *)
Tracks(line, k, options, v, default, given) ==
  \/ v = default /\ \A n \in 1 .. k - 1 : line[n].opt \notin options
  \/ \E n \in 1 .. k - 1 :
       /\ v = given[n] /\ line[n].opt \in options
       /\ \A m \in 1 .. k - 1 : line[m].opt \in options => m <= n

(* Microseconds as the seconds and nanoseconds of a timespec *)
Pause(usec) == <<usec \div 1000000, (usec % 1000000) * 1000>>

Sizes(line) == [n \in 1 .. Len(line) |-> parse_size(line[n])]
Ports(line) == [n \in 1 .. Len(line) |-> line[n].num % PortWord]
Delays(line) == [n \in 1 .. Len(line) |-> Pause(line[n].num)]
Nums(line) == [n \in 1 .. Len(line) |-> line[n].num]
Yes(line) == [n \in 1 .. Len(line) |-> TRUE]

(* The settings are those of the options among the first k - 1 arguments. *)
AsGiven(line, k, cfg, set) ==
  /\ Tracks(line, k, {"--shm-size"}, cfg.shm_size, SHM_SIZE, Sizes(line))
  /\ Tracks(line, k, {"--port"}, cfg.listen_port, DefaultPort, Ports(line))
  /\ Tracks(line, k, {"--single"}, cfg.EnableSingleNode, FALSE, Yes(line))
  /\ Tracks(line, k, {"--verbose"}, cfg.verbose, FALSE, Yes(line))
  /\ Tracks(line, k, {"-n"}, set.runs, DefaultRuns, Nums(line))
  /\ Tracks(line, k, {"-s", "--snapshots"}, set.snapshot_period, 0, Nums(line))
  /\ Tracks(line, k, {"-w", "--wait"}, set.delay, <<1, 0>>, Delays(line))
  /\ Tracks(line, k, {"-i", "--interactive"}, set.interactive, FALSE, Yes(line))

ConfigInv == /\ cmdline \in Seq(Argument) /\ config \in Config
             /\ AsGiven(cmdline, optind, config, settings)

IInv == TypeOK /\ ControlInv /\ CallInv /\ SyncInv /\ WorkInv /\ ConfigInv

-----------------------------------------------------------------------------
(* Arithmetic and counting *)

(* A snapshot is due once in every period. *)
LEMMA Quotient ==
  ASSUME NEW p \in Nat
  PROVE  /\ Due(p, 0) = 0
         /\ \A n \in Nat \ {0} :
              Due(p, n) = IF p # 0 /\ n % p = 0 THEN Due(p, n - 1) + 1 ELSE Due(p, n - 1)
<1>1. CASE p = 0
  BY <1>1 DEF Due
<1>2. CASE p # 0
  <2>1. 0 \div p = 0
    BY <1>2
  <2>2. ASSUME NEW n \in Nat \ {0}
        PROVE  n \div p = IF n % p = 0 THEN (n - 1) \div p + 1 ELSE (n - 1) \div p
    BY <1>2
  <2> QED
    BY <1>2, <2>1, <2>2 DEF Due
<1> QED
  BY <1>1, <1>2

(* The loop does not go past its limit. *)
LEMMA OneMoreRun ==
  ASSUME IInv, i <= Limit, i' = i + 1, UNCHANGED <<prog, settings>>
  PROVE  (i \in 1 .. 1 + IF prog = "sync" \/ settings.interactive THEN MaxLines
                                                             ELSE settings.runs)'
<1>1. Limit \in Nat
  BY ClientAssumption DEF IInv, WorkInv, Settings, Limit
<1>2. i \in Nat \ {0}
  BY DEF IInv, TypeOK
<1>3. i' \in 1 .. 1 + Limit
  BY <1>1, <1>2
<1> QED
  BY Zenon, <1>3 DEF Limit

(* A call that goes out *)
LEMMA Sent ==
  ASSUME TypeOK, NEW s \in Slots, Send(s)
  PROVE  /\ s \notin issued \cup orphaned /\ fut' = s /\ issued' = issued \cup {s}
         /\ answer' = [answer EXCEPT ![s] = None] /\ UNCHANGED orphaned
<1>1. PICK a \in {"invalid_address", None} : answer' = [answer EXCEPT ![s] = a]
  BY Zenon DEF Send, Api!Issue
<1>2. a = None
  BY <1>1 DEF TypeOK, Send
<1> QED
  BY Zenon, <1>1, <1>2 DEF Send, Api!Issue

-----------------------------------------------------------------------------
(* The command line *)

(* A table has an entry without a name at its end. *)
LEMMA OptionCount ==
  ASSUME NEW t, Len(t) \in Nat, NEW k \in 1 .. Len(t), t[k][1] = "--",
         \A m \in 1 .. k - 1 : t[m][1] # "--"
  PROVE  count_opts(t) = k - 1
<1> DEFINE P(n) == t[n][1] = "--" /\ \A m \in 1 .. n - 1 : t[m][1] # "--"
<1>1. P(k)
  OBVIOUS
<1>2. ASSUME NEW n \in 1 .. Len(t), P(n) PROVE n = k
  BY <1>1, <1>2
<1>3. (CHOOSE n \in 1 .. Len(t) : P(n)) = k
  BY <1>1, <1>2
<1> QED
  BY <1>3 DEF count_opts

LEMMA Counts == count_opts(LONG_OPTS) = 5 /\ count_opts(RaftOpts) = 8
<1>1. /\ Len(LONG_OPTS) \in Nat /\ 6 \in 1 .. Len(LONG_OPTS) /\ LONG_OPTS[6][1] = "--"
      /\ \A m \in 1 .. 6 - 1 : LONG_OPTS[m][1] # "--"
  BY DEF LONG_OPTS
<1>2. /\ Len(RaftOpts) \in Nat /\ 9 \in 1 .. Len(RaftOpts) /\ RaftOpts[9][1] = "--"
      /\ \A m \in 1 .. 9 - 1 : RaftOpts[m][1] # "--"
  BY DEF RaftOpts
<1>3. count_opts(LONG_OPTS) = 6 - 1
  BY Zenon, <1>1, OptionCount
<1>4. count_opts(RaftOpts) = 9 - 1
  BY Zenon, <1>2, OptionCount
<1> QED
  BY <1>3, <1>4

(* What merge_opts makes of the two tables *)
LEMMA Merged ==
  LET long == merge_opts(LONG_OPTS, RaftOpts) IN
  /\ Len(long) = 14
  /\ long[1] = <<"--runs", "r">> /\ long[2] = <<"--snapshots", "s">>
  /\ long[3] = <<"--wait", "w">> /\ long[4] = <<"--interactive", "i">>
  /\ long[5] = <<"--help", "h">> /\ long[6] = <<"--shm-path", "ShmPath">>
  /\ long[7] = <<"--shm-size", "ShmSize">> /\ long[8] = <<"--backend-type", "Backend">>
  /\ long[9] = <<"--dir", "Dir">> /\ long[10] = <<"--port", "Port">>
  /\ long[11] = <<"--single", "Single">> /\ long[12] = <<"--peers", "Peers">>
  /\ long[13] = <<"--verbose", "Verbose">> /\ long[14] = <<"--", "0">>
<1> DEFINE long == merge_opts(LONG_OPTS, RaftOpts)
<1>1. Len(long) = 14
  BY Counts DEF merge_opts, LONG_OPTS, RaftOpts
<1>2. /\ long[1] = <<"--runs", "r">> /\ long[2] = <<"--snapshots", "s">>
      /\ long[3] = <<"--wait", "w">> /\ long[4] = <<"--interactive", "i">>
      /\ long[5] = <<"--help", "h">>
  BY Counts DEF merge_opts, LONG_OPTS, RaftOpts
<1>3. /\ long[6] = <<"--shm-path", "ShmPath">> /\ long[7] = <<"--shm-size", "ShmSize">>
      /\ long[8] = <<"--backend-type", "Backend">> /\ long[9] = <<"--dir", "Dir">>
      /\ long[10] = <<"--port", "Port">>
  BY Counts DEF merge_opts, LONG_OPTS, RaftOpts
<1>4. /\ long[11] = <<"--single", "Single">> /\ long[12] = <<"--peers", "Peers">>
      /\ long[13] = <<"--verbose", "Verbose">> /\ long[14] = <<"--", "0">>
  BY Counts DEF merge_opts, LONG_OPTS, RaftOpts
<1> QED
  BY Zenon, <1>1, <1>2, <1>3, <1>4

(* The key of an option that sets something is no other option's. *)
LEMMA Keys ==
  ASSUME NEW arg
  PROVE  LET key == getopt_long(arg) IN
         /\ key = "ShmSize" <=> arg.opt = "--shm-size"
         /\ key = "Port" <=> arg.opt = "--port"
         /\ key = "Single" <=> arg.opt = "--single"
         /\ key = "Verbose" <=> arg.opt = "--verbose"
         /\ key = "n" <=> arg.opt = "-n"
         /\ key = "s" <=> arg.opt \in {"-s", "--snapshots"}
         /\ key = "w" <=> arg.opt \in {"-w", "--wait"}
         /\ key = "i" <=> arg.opt \in {"-i", "--interactive"}
<1> DEFINE long == merge_opts(LONG_OPTS, RaftOpts)
           short == << <<"-n", "n">>, <<"-s", "s">>, <<"-w", "w">>, <<"-i", "i">> >>
           table == {long[n] : n \in 1 .. Len(long)} \cup {short[n] : n \in 1 .. Len(short)}
           keys == {e \in table : e[1] = arg.opt}
           Right(e) == /\ e[2] = "ShmSize" <=> e[1] = "--shm-size"
                       /\ e[2] = "Port" <=> e[1] = "--port"
                       /\ e[2] = "Single" <=> e[1] = "--single"
                       /\ e[2] = "Verbose" <=> e[1] = "--verbose"
                       /\ e[2] = "n" <=> e[1] = "-n"
                       /\ e[2] = "s" <=> e[1] \in {"-s", "--snapshots"}
                       /\ e[2] = "w" <=> e[1] \in {"-w", "--wait"}
                       /\ e[2] = "i" <=> e[1] \in {"-i", "--interactive"}
<1>1. getopt_long(arg) = IF keys = {} THEN "?" ELSE (CHOOSE e \in keys : TRUE)[2]
  BY Zenon DEF getopt_long
<1>2. /\ short[1] = <<"-n", "n">> /\ short[2] = <<"-s", "s">> /\ short[3] = <<"-w", "w">>
      /\ short[4] = <<"-i", "i">> /\ Len(short) = 4
  OBVIOUS
<1> HIDE DEF short, long
<1>3. \A n \in 1 .. Len(long) : Right(long[n])
  BY Merged DEF long
<1>4. \A n \in 1 .. Len(short) : Right(short[n])
  BY <1>2
<1>5. \A o \in {"--shm-size", "--port", "--single", "--verbose", "-n", "-s", "--snapshots",
                "-w", "--wait", "-i", "--interactive"} :
        \E e \in table : e[1] = o
  BY <1>2, Merged DEF long
<1> HIDE DEF Right
<1>6. \A e \in table : Right(e)
  BY Zenon, <1>3, <1>4
<1> HIDE DEF table
<1>7. CASE keys = {}
  BY <1>1, <1>5, <1>7
<1>8. CASE keys # {}
  <2>1. PICK e \in keys : getopt_long(arg) = e[2]
    BY Zenon, <1>1, <1>8
  <2> QED
    BY <1>6, <2>1 DEF Right
<1> QED
  BY Zenon, <1>7, <1>8

(* What an option of Raft sets, and what it leaves alone *)
Sets(new, old, key, arg) ==
  /\ new \in Config
  /\ new.shm_size = IF key = "ShmSize" THEN parse_size(arg) ELSE old.shm_size
  /\ new.listen_port = IF key = "Port" THEN arg.num % PortWord ELSE old.listen_port
  /\ new.EnableSingleNode = IF key = "Single" THEN TRUE ELSE old.EnableSingleNode
  /\ new.verbose = IF key = "Verbose" THEN TRUE ELSE old.verbose

LEMMA Applied ==
  ASSUME NEW cfg \in Config, NEW key, is_valid(key), NEW arg \in Argument
  PROVE  Sets(apply(cfg, key, arg), cfg, key, arg)
<1>1. Unit(arg.suffix) \in Nat
  <2>1. Kilo \in Nat /\ Kilo * Kilo \in Nat /\ Kilo * Kilo * Kilo \in Nat
    BY ClientAssumption
  <2> QED
    BY <2>1 DEF Unit
<1>2. parse_size(arg) \in Nat
  <2>1. arg.num * Unit(arg.suffix) \in Nat
    BY <1>1 DEF Argument
  <2> QED
    BY <2>1, ClientAssumption DEF parse_size
<1>3. arg.num \in Nat /\ arg.num % PortWord \in Nat
  BY ClientAssumption DEF Argument
<1> QED
  BY Zenon, <1>2, <1>3 DEF Sets, Config, is_valid, apply

(* The last option so far is the one at k, or the one before. *)
LEMMA OneMore ==
  ASSUME NEW line, NEW k \in Nat \ {0}, NEW options, NEW v, NEW w, NEW default, NEW given,
         Tracks(line, k, options, v, default, given),
         w = IF line[k].opt \in options THEN given[k] ELSE v
  PROVE  Tracks(line, k + 1, options, w, default, given)
<1>1. (k + 1) - 1 = k /\ k \in 1 .. k
  OBVIOUS
<1>2. CASE line[k].opt \in options
  BY <1>1, <1>2 DEF Tracks
<1>3. CASE line[k].opt \notin options
  <2>1. \A n \in 1 .. k : n \in 1 .. k - 1 \/ n = k
    OBVIOUS
  <2>2. \A n \in 1 .. k - 1 : n \in 1 .. k
    OBVIOUS
  <2> QED
    BY Zenon, <1>1, <1>3, <2>1, <2>2 DEF Tracks
<1> QED
  BY Zenon, <1>2, <1>3

(* One more option is seen.  It sets what it names, and nothing else. *)
LEMMA ParseOptionKeeps ==
  ASSUME IInv, ParseOption
  PROVE  IInv'
<1> DEFINE arg == cmdline[optind]
           key == getopt_long(arg)
<1>1. /\ pc = "parse" /\ pc' \in {"parse", "exit_0", "exit_2"}
      /\ optind <= Len(cmdline) /\ optind' = optind + 1
      /\ UNCHANGED <<prog, cmdline, i, fut, buf, done, ret, issued, orphaned, answer, raft,
                     leader, shutdown>>
  BY SMT DEF ParseOption, Goto, work, calls, raftVars
<1>2. raft = "none" /\ optind \in 1 .. Len(cmdline) /\ arg \in Argument
  BY <1>1 DEF IInv, TypeOK, ControlInv, ConfigInv
<1>3. \/ /\ is_valid(key) /\ config' = apply(config, key, arg) /\ settings' = settings
      \/ /\ ~is_valid(key) /\ config' = config
         /\ \/ key = "n" /\ settings' = [settings EXCEPT !.runs = arg.num]
            \/ key = "s" /\ settings' = [settings EXCEPT !.snapshot_period = arg.num]
            \/ /\ key = "w"
               /\ settings' = [settings EXCEPT !.delay = Pause(arg.num)]
            \/ key = "i" /\ settings' = [settings EXCEPT !.interactive = TRUE]
            \/ key \notin {"n", "s", "w", "i"} /\ settings' = settings
  BY SMT DEF ParseOption, Goto, is_valid, Pause
<1> HIDE DEF key
<1>4. Sets(config', config, key, arg)
  <2>1. config \in Config
    BY Zenon DEF IInv, ConfigInv
  <2>2. CASE is_valid(key)
    <3>1. config' = apply(config, key, arg) /\ arg \in Argument
      BY Zenon, <1>2, <1>3, <2>2
    <3> HIDE DEF arg
    <3> QED
      BY <2>1, <2>2, <3>1, Applied
  <2>3. CASE ~is_valid(key)
    BY Zenon, <1>3, <2>1, <2>3 DEF Sets, is_valid
  <2> QED
    BY Zenon, <2>2, <2>3
<1>5. /\ settings' \in Settings
      /\ settings'.runs = IF key = "n" THEN arg.num ELSE settings.runs
      /\ settings'.snapshot_period = IF key = "s" THEN arg.num ELSE settings.snapshot_period
      /\ settings'.delay = IF key = "w" THEN Pause(arg.num) ELSE settings.delay
      /\ settings'.interactive = IF key = "i" THEN TRUE ELSE settings.interactive
  <2>1. settings \in Settings /\ arg.num \in Nat
    BY <1>2 DEF IInv, WorkInv, Argument
  <2>2. Pause(arg.num) \in Nat \X Nat
    BY SMT, <2>1 DEF Pause
  <2> QED
    BY Zenon, <1>3, <2>1, <2>2 DEF Settings, is_valid
<1>6. AsGiven(cmdline, optind + 1, config', settings')
  <2> DEFINE line == cmdline
             k == optind
             T(options, v, default, given) == Tracks(line, k, options, v, default, given)
  <2>1. k \in Nat \ {0} /\ k \in 1 .. Len(line)
    BY <1>2
  <2>2. /\ T({"--shm-size"}, config.shm_size, SHM_SIZE, Sizes(line))
        /\ T({"--port"}, config.listen_port, DefaultPort, Ports(line))
        /\ T({"--single"}, config.EnableSingleNode, FALSE, Yes(line))
        /\ T({"--verbose"}, config.verbose, FALSE, Yes(line))
        /\ T({"-n"}, settings.runs, DefaultRuns, Nums(line))
        /\ T({"-s", "--snapshots"}, settings.snapshot_period, 0, Nums(line))
        /\ T({"-w", "--wait"}, settings.delay, <<1, 0>>, Delays(line))
        /\ T({"-i", "--interactive"}, settings.interactive, FALSE, Yes(line))
    BY Zenon DEF IInv, ConfigInv, AsGiven
  <2>3. /\ Sizes(line)[k] = parse_size(arg) /\ Ports(line)[k] = arg.num % PortWord
        /\ Yes(line)[k] = TRUE /\ Nums(line)[k] = arg.num
        /\ Delays(line)[k] = Pause(arg.num)
    BY Zenon, <2>1 DEF Sizes, Ports, Yes, Nums, Delays
  <2>4. /\ key = "ShmSize" <=> line[k].opt \in {"--shm-size"}
        /\ key = "Port" <=> line[k].opt \in {"--port"}
        /\ key = "Single" <=> line[k].opt \in {"--single"}
        /\ key = "Verbose" <=> line[k].opt \in {"--verbose"}
        /\ key = "n" <=> line[k].opt \in {"-n"}
        /\ key = "s" <=> line[k].opt \in {"-s", "--snapshots"}
        /\ key = "w" <=> line[k].opt \in {"-w", "--wait"}
        /\ key = "i" <=> line[k].opt \in {"-i", "--interactive"}
    BY Keys DEF key
  <2> HIDE DEF line, k, arg
  <2>5. Tracks(line, k + 1, {"--shm-size"}, config'.shm_size, SHM_SIZE, Sizes(line))
    <3>1. config'.shm_size = IF line[k].opt \in {"--shm-size"} THEN Sizes(line)[k]
                                       ELSE config.shm_size
      BY Zenon, <1>4, <2>3, <2>4 DEF Sets
    <3> QED
      BY Zenon, <2>1, <2>2, <3>1, OneMore
  <2>6. Tracks(line, k + 1, {"--port"}, config'.listen_port, DefaultPort, Ports(line))
    <3>1. config'.listen_port = IF line[k].opt \in {"--port"} THEN Ports(line)[k]
                                       ELSE config.listen_port
      BY Zenon, <1>4, <2>3, <2>4 DEF Sets
    <3> QED
      BY Zenon, <2>1, <2>2, <3>1, OneMore
  <2>7. Tracks(line, k + 1, {"--single"}, config'.EnableSingleNode, FALSE, Yes(line))
    <3>1. config'.EnableSingleNode = IF line[k].opt \in {"--single"} THEN Yes(line)[k]
                                       ELSE config.EnableSingleNode
      BY Zenon, <1>4, <2>3, <2>4 DEF Sets
    <3> QED
      BY Zenon, <2>1, <2>2, <3>1, OneMore
  <2>8. Tracks(line, k + 1, {"--verbose"}, config'.verbose, FALSE, Yes(line))
    <3>1. config'.verbose = IF line[k].opt \in {"--verbose"} THEN Yes(line)[k]
                                       ELSE config.verbose
      BY Zenon, <1>4, <2>3, <2>4 DEF Sets
    <3> QED
      BY Zenon, <2>1, <2>2, <3>1, OneMore
  <2>9. Tracks(line, k + 1, {"-n"}, settings'.runs, DefaultRuns, Nums(line))
    <3>1. settings'.runs = IF line[k].opt \in {"-n"} THEN Nums(line)[k]
                                       ELSE settings.runs
      BY Zenon, <1>5, <2>3, <2>4
    <3> QED
      BY Zenon, <2>1, <2>2, <3>1, OneMore
  <2>10. Tracks(line, k + 1, {"-s", "--snapshots"}, settings'.snapshot_period, 0,
  Nums(line))
    <3>1. settings'.snapshot_period = IF line[k].opt \in {"-s",
    "--snapshots"} THEN Nums(line)[k]
                                       ELSE settings.snapshot_period
      BY Zenon, <1>5, <2>3, <2>4
    <3> QED
      BY Zenon, <2>1, <2>2, <3>1, OneMore
  <2>11. Tracks(line, k + 1, {"-w", "--wait"}, settings'.delay, <<1, 0>>, Delays(line))
    <3>1. settings'.delay = IF line[k].opt \in {"-w", "--wait"} THEN Delays(line)[k]
                                       ELSE settings.delay
      BY Zenon, <1>5, <2>3, <2>4
    <3> QED
      BY Zenon, <2>1, <2>2, <3>1, OneMore
  <2>12. Tracks(line, k + 1, {"-i", "--interactive"}, settings'.interactive, FALSE,
  Yes(line))
    <3>1. settings'.interactive = IF line[k].opt \in {"-i",
    "--interactive"} THEN Yes(line)[k]
                                       ELSE settings.interactive
      BY Zenon, <1>5, <2>3, <2>4
    <3> QED
      BY Zenon, <2>1, <2>2, <3>1, OneMore
  <2> QED
    BY Zenon, <2>5, <2>6, <2>7, <2>8, <2>9, <2>10, <2>11, <2>12 DEF AsGiven, line, k
<1>7. TypeOK'
  <2>1. i' = 1
    BY <1>1 DEF IInv, WorkInv, Starting
  <2>2. (IF prog = "sync" \/ settings.interactive THEN MaxLines ELSE settings.runs)' \in Nat
    BY <1>5, ClientAssumption DEF Settings
  <2>3. (i \in 1 .. 1 + IF prog = "sync" \/ settings.interactive THEN MaxLines
                                       ELSE settings.runs)'
    BY <2>1, <2>2
  <2>4. optind' \in 1 .. Len(cmdline') + 1
    BY <1>1, <1>2 DEF IInv, ConfigInv
  <2> QED
    BY Zenon, <1>1, <2>3, <2>4 DEF IInv, TypeOK
<1>8. ControlInv'
  BY <1>1, <1>2 DEF IInv, ControlInv, Resting, Starting, Waiting, Ending, Exits
<1>9. CallInv'
  BY <1>1 DEF IInv, ControlInv, CallInv, Resting, Starting, Waiting, Exits
<1>10. SyncInv'
  BY <1>1 DEF IInv, SyncInv, SyncAnswers, Starting
<1>11. WorkInv'
  BY <1>1, <1>5 DEF IInv, ControlInv, WorkInv, Starting, Exits
<1>12. ConfigInv'
  BY Zenon, <1>1, <1>4, <1>6 DEF Sets, IInv, ConfigInv
<1> QED
  BY Zenon, <1>7, <1>8, <1>9, <1>10, <1>11, <1>12 DEF IInv

(* Only control moves. *)
LEMMA ParseReturnsKeeps ==
  ASSUME IInv, ParseReturns
  PROVE  IInv'
<1>1. /\ pc = "parse"
      /\ \/ pc' = "exit_1" /\ raft = "none"
         \/ pc' = "raft_init" /\ optind > Len(cmdline) /\ raft = "none"
         \/ pc' = "await" /\ raft # "none"
      /\ UNCHANGED <<prog, cmdline, optind, config, settings, i, fut, buf, done, ret,
                     issued, orphaned, answer, raft, leader, shutdown>>
  BY DEF ParseReturns, Goto, opts, work, calls, raftVars
<1>2. TypeOK'
  BY <1>1, ClientAssumption DEF IInv, TypeOK, ControlInv, CallInv, WorkInv, Resting,
                                Starting, Waiting, Ending, Exits
<1>3. ControlInv'
  BY <1>1 DEF IInv, TypeOK, ControlInv, Resting, Starting, Waiting, Ending, Exits
<1>4. CallInv'
  BY <1>1, ClientAssumption DEF IInv, TypeOK, ControlInv, CallInv, Resting, Starting,
                                Waiting, Ending, Exits
<1>5. SyncInv'
  BY <1>1 DEF IInv, ControlInv, CallInv, SyncInv, SyncAnswers, Resting, Starting, Waiting,
              Ending, Exits
<1>6. WorkInv'
  BY <1>1 DEF IInv, TypeOK, ControlInv, WorkInv, Limit, SnapshotDue, Resting, Starting,
              Waiting, Ending, Exits
<1>7. ConfigInv'
  BY <1>1 DEF IInv, ConfigInv
<1> QED
  BY Zenon, <1>2, <1>3, <1>4, <1>5, <1>6, <1>7 DEF IInv

(* Raft is started once the options are at their end. *)
LEMMA raft_initKeeps ==
  ASSUME IInv, raft_init
  PROVE  IInv'
<1>1. /\ pc = "raft_init" /\ pc' = (IF prog = "main" THEN "parse" ELSE "idle")
      /\ raft' = "up"
      /\ UNCHANGED <<prog, cmdline, optind, config, settings, i, fut, buf, done, ret,
                     issued, orphaned, answer, leader, shutdown>>
  BY DEF raft_init, Goto, opts, work, calls, raftVars
<1>2. TypeOK'
  BY <1>1, ClientAssumption DEF IInv, TypeOK, ControlInv, CallInv, WorkInv, Resting,
                                Starting, Waiting, Ending, Exits
<1>3. ControlInv'
  BY <1>1 DEF IInv, TypeOK, ControlInv, Resting, Starting, Waiting, Ending, Exits
<1>4. CallInv'
  BY <1>1, ClientAssumption DEF IInv, TypeOK, ControlInv, CallInv, Resting, Starting,
                                Waiting, Ending, Exits
<1>5. SyncInv'
  BY <1>1 DEF IInv, ControlInv, CallInv, SyncInv, SyncAnswers, Resting, Starting, Waiting,
              Ending, Exits
<1>6. WorkInv'
  BY <1>1 DEF IInv, TypeOK, ControlInv, WorkInv, Limit, SnapshotDue, Resting, Starting,
              Waiting, Ending, Exits
<1>7. ConfigInv'
  BY <1>1 DEF IInv, ConfigInv
<1> QED
  BY Zenon, <1>2, <1>3, <1>4, <1>5, <1>6, <1>7 DEF IInv

(* No run is made yet. *)
LEMMA AwaitLeaderKeeps ==
  ASSUME IInv, AwaitLeader
  PROVE  IInv'
<1>1. /\ pc = "await" /\ pc' = "run"
      /\ UNCHANGED <<prog, cmdline, optind, config, settings, i, fut, buf, done, ret,
                     issued, orphaned, answer, raft, leader, shutdown>>
  BY DEF AwaitLeader, Goto, opts, work, calls, raftVars
<1>2. TypeOK'
  BY <1>1, ClientAssumption DEF IInv, TypeOK, ControlInv, CallInv, WorkInv, Resting,
                                Starting, Waiting, Ending, Exits
<1>3. ControlInv'
  BY <1>1 DEF IInv, TypeOK, ControlInv, Resting, Starting, Waiting, Ending, Exits
<1>4. CallInv'
  BY <1>1, ClientAssumption DEF IInv, TypeOK, ControlInv, CallInv, Resting, Starting,
                                Waiting, Ending, Exits
<1>5. SyncInv'
  BY <1>1 DEF IInv, ControlInv, CallInv, SyncInv, SyncAnswers, Resting, Starting, Waiting,
              Ending, Exits
<1>6. WorkInv'
  <2>1. Due(settings.snapshot_period, 0) = 0
    BY Quotient DEF IInv, WorkInv, Settings
  <2>2. settings \in Settings /\ i = 1 /\ done.commands = 0 /\ done.snapshots = 0 /\ ~shutdown
    BY <1>1 DEF IInv, WorkInv, Starting, ControlInv, Exits
  <2> QED
    BY <1>1, <2>1, <2>2 DEF IInv, WorkInv, Limit, Starting
<1>7. ConfigInv'
  BY <1>1 DEF IInv, ConfigInv
<1> QED
  BY Zenon, <1>2, <1>3, <1>4, <1>5, <1>6, <1>7 DEF IInv

(* main goes on only with the statistics. *)
LEMMA GetStatsKeeps ==
  ASSUME IInv, GetStats
  PROVE  IInv'
<1>1. /\ \/ pc \in {"get_stats", "wait_stats"} /\ pc' = "shutdown" /\ answer[fut] = "value"
         \/ pc = "get_stats" /\ pc' = "abort" /\ answer[fut] = "error"
         \/ pc \in {"get_stats", "wait_stats"} /\ pc' \in {"wait_stats", "exit_1"}
      /\ UNCHANGED <<prog, cmdline, optind, config, settings, i, fut, buf, done, ret,
                     issued, orphaned, answer, raft, leader, shutdown>>
  BY DEF GetStats, Goto, opts, work, calls, raftVars
<1>2. TypeOK'
  BY <1>1, ClientAssumption DEF IInv, TypeOK, ControlInv, CallInv, WorkInv, Resting,
                                Starting, Waiting, Ending, Exits
<1>3. ControlInv'
  BY <1>1 DEF IInv, TypeOK, ControlInv, Resting, Starting, Waiting, Ending, Exits
<1>4. CallInv'
  BY <1>1, ClientAssumption DEF IInv, TypeOK, ControlInv, CallInv, Resting, Starting,
                                Waiting, Ending, Exits
<1>5. SyncInv'
  BY <1>1 DEF IInv, ControlInv, CallInv, SyncInv, SyncAnswers, Resting, Starting, Waiting,
              Ending, Exits
<1>6. WorkInv'
  BY <1>1 DEF IInv, TypeOK, ControlInv, WorkInv, Limit, SnapshotDue, Resting, Starting,
              Waiting, Ending, Exits
<1>7. ConfigInv'
  BY <1>1 DEF IInv, ConfigInv
<1> QED
  BY Zenon, <1>2, <1>3, <1>4, <1>5, <1>6, <1>7 DEF IInv

(* Only control moves. *)
LEMMA ShutdownReturnsKeeps ==
  ASSUME IInv, ShutdownReturns
  PROVE  IInv'
<1>1. /\ pc = "wait_shutdown" /\ pc' \in {"cleanup", "exit_1"}
      /\ UNCHANGED <<prog, cmdline, optind, config, settings, i, fut, buf, done, ret,
                     issued, orphaned, answer, raft, leader, shutdown>>
  BY DEF ShutdownReturns, Goto, opts, work, calls, raftVars
<1>2. TypeOK'
  BY <1>1, ClientAssumption DEF IInv, TypeOK, ControlInv, CallInv, WorkInv, Resting,
                                Starting, Waiting, Ending, Exits
<1>3. ControlInv'
  BY <1>1 DEF IInv, TypeOK, ControlInv, Resting, Starting, Waiting, Ending, Exits
<1>4. CallInv'
  BY <1>1, ClientAssumption DEF IInv, TypeOK, ControlInv, CallInv, Resting, Starting,
                                Waiting, Ending, Exits
<1>5. SyncInv'
  BY <1>1 DEF IInv, ControlInv, CallInv, SyncInv, SyncAnswers, Resting, Starting, Waiting,
              Ending, Exits
<1>6. WorkInv'
  BY <1>1 DEF IInv, TypeOK, ControlInv, WorkInv, Limit, SnapshotDue, Resting, Starting,
              Waiting, Ending, Exits
<1>7. ConfigInv'
  BY <1>1 DEF IInv, ConfigInv
<1> QED
  BY Zenon, <1>2, <1>3, <1>4, <1>5, <1>6, <1>7 DEF IInv

(* Only control moves. *)
LEMMA raft_cleanupKeeps ==
  ASSUME IInv, raft_cleanup
  PROVE  IInv'
<1>1. /\ pc = "cleanup" /\ pc' = "exit_0"
      /\ UNCHANGED <<prog, cmdline, optind, config, settings, i, fut, buf, done, ret,
                     issued, orphaned, answer, raft, leader, shutdown>>
  BY DEF raft_cleanup, Goto, opts, work, calls, raftVars
<1>2. TypeOK'
  BY <1>1, ClientAssumption DEF IInv, TypeOK, ControlInv, CallInv, WorkInv, Resting,
                                Starting, Waiting, Ending, Exits
<1>3. ControlInv'
  BY <1>1 DEF IInv, TypeOK, ControlInv, Resting, Starting, Waiting, Ending, Exits
<1>4. CallInv'
  BY <1>1, ClientAssumption DEF IInv, TypeOK, ControlInv, CallInv, Resting, Starting,
                                Waiting, Ending, Exits
<1>5. SyncInv'
  BY <1>1 DEF IInv, ControlInv, CallInv, SyncInv, SyncAnswers, Resting, Starting, Waiting,
              Ending, Exits
<1>6. WorkInv'
  BY <1>1 DEF IInv, TypeOK, ControlInv, WorkInv, Limit, SnapshotDue, Resting, Starting,
              Waiting, Ending, Exits
<1>7. ConfigInv'
  BY <1>1 DEF IInv, ConfigInv
<1> QED
  BY Zenon, <1>2, <1>3, <1>4, <1>5, <1>6, <1>7 DEF IInv

(* Only control moves. *)
LEMMA SyncGetKeeps ==
  ASSUME IInv, SyncGet
  PROVE  IInv'
<1>1. /\ pc = "get" /\ pc' = "wait"
      /\ UNCHANGED <<prog, cmdline, optind, config, settings, i, fut, buf, done, ret,
                     issued, orphaned, answer, raft, leader, shutdown>>
  BY DEF SyncGet, Goto, opts, work, calls, raftVars
<1>2. TypeOK'
  BY <1>1, ClientAssumption DEF IInv, TypeOK, ControlInv, CallInv, WorkInv, Resting,
                                Starting, Waiting, Ending, Exits
<1>3. ControlInv'
  BY <1>1 DEF IInv, TypeOK, ControlInv, Resting, Starting, Waiting, Ending, Exits
<1>4. CallInv'
  BY <1>1, ClientAssumption DEF IInv, TypeOK, ControlInv, CallInv, Resting, Starting,
                                Waiting, Ending, Exits
<1>5. SyncInv'
  BY <1>1 DEF IInv, ControlInv, CallInv, SyncInv, SyncAnswers, Resting, Starting, Waiting,
              Ending, Exits
<1>6. WorkInv'
  BY <1>1 DEF IInv, TypeOK, ControlInv, WorkInv, Limit, SnapshotDue, Resting, Starting,
              Waiting, Ending, Exits
<1>7. ConfigInv'
  BY <1>1 DEF IInv, ConfigInv
<1> QED
  BY Zenon, <1>2, <1>3, <1>4, <1>5, <1>6, <1>7 DEF IInv

(* The program holds no future when it shuts Raft down. *)
LEMMA SyncEndsKeeps ==
  ASSUME IInv, SyncEnds
  PROVE  IInv'
<1>1. /\ pc = "idle" /\ pc' = "shutdown" /\ ret' = None
      /\ UNCHANGED <<prog, cmdline, optind, config, settings, i, fut, buf, done, issued,
                     orphaned, answer, raft, leader, shutdown>>
  BY DEF SyncEnds, Goto, opts, work, calls, raftVars
<1>2. TypeOK'
  BY <1>1, ClientAssumption DEF IInv, TypeOK, ControlInv, CallInv, WorkInv, Resting,
                                Starting, Waiting, Ending, Exits
<1>3. ControlInv'
  BY <1>1 DEF IInv, TypeOK, ControlInv, Resting, Starting, Waiting, Ending, Exits
<1>4. CallInv'
  BY <1>1, ClientAssumption DEF IInv, TypeOK, ControlInv, CallInv, Resting, Starting,
                                Waiting, Ending, Exits
<1>5. SyncInv'
  BY <1>1 DEF IInv, ControlInv, CallInv, SyncInv, SyncAnswers, Resting, Starting, Waiting,
              Ending, Exits
<1>6. WorkInv'
  BY <1>1 DEF IInv, TypeOK, ControlInv, WorkInv, Limit, SnapshotDue, Resting, Starting,
              Waiting, Ending, Exits
<1>7. ConfigInv'
  BY <1>1 DEF IInv, ConfigInv
<1> QED
  BY Zenon, <1>2, <1>3, <1>4, <1>5, <1>6, <1>7 DEF IInv

(* The watcher may end the program anywhere. *)
LEMMA WatchKeeps ==
  ASSUME IInv, Watch
  PROVE  IInv'
<1>1. /\ raft = "dead" /\ pc \notin Exits /\ pc' = "exit_1"
      /\ UNCHANGED <<prog, cmdline, optind, config, settings, i, fut, buf, done, ret,
                     issued, orphaned, answer, raft, leader, shutdown>>
  BY DEF Watch, Goto, opts, work, calls, raftVars
<1>2. TypeOK'
  BY <1>1, ClientAssumption DEF IInv, TypeOK, ControlInv, CallInv, WorkInv, Resting,
                                Starting, Waiting, Ending, Exits
<1>3. ControlInv'
  BY <1>1 DEF IInv, TypeOK, ControlInv, Resting, Starting, Waiting, Ending, Exits
<1>4. CallInv'
  BY <1>1, ClientAssumption DEF IInv, TypeOK, ControlInv, CallInv, Resting, Starting,
                                Waiting, Ending, Exits
<1>5. SyncInv'
  BY <1>1 DEF IInv, ControlInv, CallInv, SyncInv, SyncAnswers, Resting, Starting, Waiting,
              Ending, Exits
<1>6. WorkInv'
  BY <1>1 DEF IInv, TypeOK, ControlInv, WorkInv, Limit, SnapshotDue, Resting, Starting,
              Waiting, Ending, Exits
<1>7. ConfigInv'
  BY <1>1 DEF IInv, ConfigInv
<1> QED
  BY Zenon, <1>2, <1>3, <1>4, <1>5, <1>6, <1>7 DEF IInv

(* Only Raft's state changes. *)
LEMMA RaftExitsKeeps ==
  ASSUME IInv, RaftExits
  PROVE  IInv'
<1>1. /\ raft = "up" /\ raft' = "exited"
      /\ UNCHANGED <<prog, pc, cmdline, optind, config, settings, i, fut, buf, done, ret,
                     issued, orphaned, answer, leader, shutdown>>
  BY DEF RaftExits, Goto, opts, work, calls, raftVars
<1>2. TypeOK'
  BY <1>1, ClientAssumption DEF IInv, TypeOK, ControlInv, CallInv, WorkInv, Resting,
                                Starting, Waiting, Ending, Exits
<1>3. ControlInv'
  BY <1>1 DEF IInv, TypeOK, ControlInv, Resting, Starting, Waiting, Ending, Exits
<1>4. CallInv'
  BY <1>1, ClientAssumption DEF IInv, TypeOK, ControlInv, CallInv, Resting, Starting,
                                Waiting, Ending, Exits
<1>5. SyncInv'
  BY <1>1 DEF IInv, ControlInv, CallInv, SyncInv, SyncAnswers, Resting, Starting, Waiting,
              Ending, Exits
<1>6. WorkInv'
  BY <1>1 DEF IInv, TypeOK, ControlInv, WorkInv, Limit, SnapshotDue, Resting, Starting,
              Waiting, Ending, Exits
<1>7. ConfigInv'
  BY <1>1 DEF IInv, ConfigInv
<1> QED
  BY Zenon, <1>2, <1>3, <1>4, <1>5, <1>6, <1>7 DEF IInv

(* Only Raft's state changes. *)
LEMMA RaftDiesKeeps ==
  ASSUME IInv, RaftDies
  PROVE  IInv'
<1>1. /\ raft = "up" /\ raft' = "dead"
      /\ UNCHANGED <<prog, pc, cmdline, optind, config, settings, i, fut, buf, done, ret,
                     issued, orphaned, answer, leader, shutdown>>
  BY DEF RaftDies, Goto, opts, work, calls, raftVars
<1>2. TypeOK'
  BY <1>1, ClientAssumption DEF IInv, TypeOK, ControlInv, CallInv, WorkInv, Resting,
                                Starting, Waiting, Ending, Exits
<1>3. ControlInv'
  BY <1>1 DEF IInv, TypeOK, ControlInv, Resting, Starting, Waiting, Ending, Exits
<1>4. CallInv'
  BY <1>1, ClientAssumption DEF IInv, TypeOK, ControlInv, CallInv, Resting, Starting,
                                Waiting, Ending, Exits
<1>5. SyncInv'
  BY <1>1 DEF IInv, ControlInv, CallInv, SyncInv, SyncAnswers, Resting, Starting, Waiting,
              Ending, Exits
<1>6. WorkInv'
  BY <1>1 DEF IInv, TypeOK, ControlInv, WorkInv, Limit, SnapshotDue, Resting, Starting,
              Waiting, Ending, Exits
<1>7. ConfigInv'
  BY <1>1 DEF IInv, ConfigInv
<1> QED
  BY Zenon, <1>2, <1>3, <1>4, <1>5, <1>6, <1>7 DEF IInv

(* Only Raft's state changes. *)
LEMMA RaftLeadsKeeps ==
  ASSUME IInv, RaftLeads
  PROVE  IInv'
<1>1. /\ raft = "up"
      /\ UNCHANGED <<prog, pc, cmdline, optind, config, settings, i, fut, buf, done, ret,
                     issued, orphaned, answer, raft, shutdown>>
  BY DEF RaftLeads, Goto, opts, work, calls, raftVars
<1>2. TypeOK'
  BY <1>1, ClientAssumption DEF IInv, TypeOK, ControlInv, CallInv, WorkInv, Resting,
                                Starting, Waiting, Ending, Exits
<1>3. ControlInv'
  BY <1>1 DEF IInv, TypeOK, ControlInv, Resting, Starting, Waiting, Ending, Exits
<1>4. CallInv'
  BY <1>1, ClientAssumption DEF IInv, TypeOK, ControlInv, CallInv, Resting, Starting,
                                Waiting, Ending, Exits
<1>5. SyncInv'
  BY <1>1 DEF IInv, ControlInv, CallInv, SyncInv, SyncAnswers, Resting, Starting, Waiting,
              Ending, Exits
<1>6. WorkInv'
  BY <1>1 DEF IInv, TypeOK, ControlInv, WorkInv, Limit, SnapshotDue, Resting, Starting,
              Waiting, Ending, Exits
<1>7. ConfigInv'
  BY <1>1 DEF IInv, ConfigInv
<1> QED
  BY Zenon, <1>2, <1>3, <1>4, <1>5, <1>6, <1>7 DEF IInv

(* The run is complete, with the snapshot that was due. *)
LEMMA NextRunKeeps ==
  ASSUME IInv, NextRun
  PROVE  IInv'
<1>1. /\ \/ pc = "ran" /\ ~SnapshotDue
         \/ pc = "next"
      /\ pc' = "run" /\ i' = i + 1
      /\ UNCHANGED <<prog, cmdline, optind, config, settings, fut, buf, done, ret, issued,
                     orphaned, answer, raft, leader, shutdown>>
  BY DEF NextRun, Goto, opts, work, calls, raftVars
<1>2. TypeOK'
  <2>1. i <= Limit
    <3>1. pc \in {"command", "ran", "snapshot", "next", "get", "wait"}
      BY <1>1
    <3> QED
      BY Zenon, <3>1 DEF IInv, WorkInv
  <2>2. (i \in 1 .. 1 + IF prog = "sync" \/ settings.interactive THEN MaxLines
                                                            ELSE settings.runs)'
    BY Zenon, <1>1, <2>1, OneMoreRun
  <2> QED
    BY <1>1, <2>2 DEF IInv, TypeOK, ControlInv, CallInv, Resting, Starting, Waiting
<1>3. ControlInv'
  BY <1>1 DEF IInv, TypeOK, ControlInv, Resting, Starting, Waiting, Ending, Exits
<1>4. CallInv'
  BY <1>1, ClientAssumption DEF IInv, TypeOK, ControlInv, CallInv, Resting, Starting,
                                Waiting, Ending, Exits
<1>5. SyncInv'
  BY <1>1 DEF IInv, ControlInv, CallInv, SyncInv, SyncAnswers, Resting, Starting, Waiting,
              Ending, Exits
<1>6. WorkInv'
  <2>1. CASE prog = "main" /\ ~settings.interactive
    <3>1. done.commands = i /\ done.snapshots = Due(settings.snapshot_period, i)
      <4>1. i \in Nat \ {0} /\ settings.snapshot_period \in Nat
        BY DEF IInv, TypeOK, WorkInv, Settings
      <4>2. CASE pc = "ran" /\ ~SnapshotDue
        BY <2>1, <4>1, <4>2, Quotient DEF IInv, WorkInv, SnapshotDue
      <4>3. CASE pc = "next"
        BY <2>1, <4>3 DEF IInv, WorkInv
      <4> QED
        BY Zenon, <1>1, <4>2, <4>3
    <3>2. i' - 1 = i
      BY <1>1 DEF IInv, TypeOK
    <3> QED
      BY <1>1, <2>1, <3>1, <3>2 DEF IInv, ControlInv, WorkInv, Limit, Starting, Exits
  <2>2. CASE ~(prog = "main" /\ ~settings.interactive)
    BY <1>1, <2>2 DEF IInv, WorkInv, Limit, Starting
  <2> QED
    BY Zenon, <2>1, <2>2
<1>7. ConfigInv'
  BY <1>1 DEF IInv, ConfigInv
<1> QED
  BY Zenon, <1>2, <1>3, <1>4, <1>5, <1>6, <1>7 DEF IInv

(* A refused function makes no call. *)
LEMMA SyncNullKeeps ==
  ASSUME IInv, SyncNull
  PROVE  IInv'
<1>1. /\ i <= MaxLines /\ pc = "idle" /\ pc' = "idle" /\ i' = i + 1
      /\ \E fn \in {"apply_sync", "leader"} :
           ret' = [fn |-> fn, answer |-> "invalid_address", value |-> "error"]
      /\ UNCHANGED <<prog, cmdline, optind, config, settings, fut, buf, done, issued,
                     orphaned, answer, raft, leader, shutdown>>
  BY DEF SyncNull, Goto, opts, work, calls, raftVars
<1>2. TypeOK'
  <2>1. i <= Limit
    BY <1>1 DEF IInv, ControlInv, Limit
  <2>2. (i \in 1 .. 1 + IF prog = "sync" \/ settings.interactive THEN MaxLines
                                                            ELSE settings.runs)'
    BY Zenon, <1>1, <2>1, OneMoreRun
  <2> QED
    BY <1>1, <2>2 DEF IInv, TypeOK, ControlInv, CallInv, Resting, Starting, Waiting
<1>3. ControlInv'
  BY <1>1 DEF IInv, TypeOK, ControlInv, Resting, Starting, Waiting, Ending, Exits
<1>4. CallInv'
  BY <1>1, ClientAssumption DEF IInv, TypeOK, ControlInv, CallInv, Resting, Starting,
                                Waiting, Ending, Exits
<1>5. SyncInv'
  BY <1>1 DEF IInv, ControlInv, CallInv, SyncInv, SyncAnswers, Calling, Waiters, Eaters,
             Replies, Return, Resting, Starting, Waiting, Ending, Exits
<1>6. WorkInv'
  BY <1>1 DEF IInv, TypeOK, ControlInv, WorkInv, Limit, SnapshotDue, Resting, Starting,
              Waiting, Ending, Exits
<1>7. ConfigInv'
  BY <1>1 DEF IInv, ConfigInv
<1> QED
  BY Zenon, <1>2, <1>3, <1>4, <1>5, <1>6, <1>7 DEF IInv

(* A command is the only call that is out. *)
LEMMA SendCommandKeeps ==
  ASSUME IInv, SendCommand
  PROVE  IInv'
<1>1. /\ pc = "run" /\ pc' = "command" /\ buf' = TRUE
      /\ UNCHANGED <<prog, cmdline, optind, config, settings, i, done, ret, raft, leader,
                     shutdown>>
  BY Zenon DEF SendCommand, Goto, opts, work, calls, raftVars
<1>pick. PICK s \in Slots : Send(s)
  BY Zenon DEF SendCommand
<1>sent. /\ s \notin issued \cup orphaned /\ fut' = s /\ issued' = issued \cup {s}
         /\ answer' = [answer EXCEPT ![s] = None] /\ UNCHANGED orphaned
  BY Zenon, <1>pick, Sent DEF IInv
<1>2. TypeOK'
  BY <1>1, <1>sent DEF IInv, TypeOK, ControlInv, Exits
<1>3. ControlInv'
  BY <1>1, <1>sent DEF IInv, TypeOK, ControlInv, Resting, Starting, Waiting, Ending, Exits
<1>4. CallInv'
  BY <1>1, <1>sent, ClientAssumption DEF IInv, TypeOK, ControlInv, CallInv, Resting,
                                         Starting, Waiting, Ending, Exits
<1>5. SyncInv'
  BY <1>1, <1>sent DEF IInv, ControlInv, CallInv, SyncInv, SyncAnswers, Resting, Starting,
                       Waiting, Ending, Exits
<1>6. WorkInv'
  <2>1. prog = "main" /\ prog # "sync"
    BY <1>1 DEF IInv, ControlInv, Resting, Waiting, Starting
  <2>2. i <= Limit
    BY Zenon, <2>1 DEF SendCommand, MoreRuns, Limit
  <2>3. i' = i /\ Limit' = Limit
    BY Zenon, <1>1 DEF Limit
  <2> QED
    BY <1>1, <2>2, <2>3 DEF IInv, ControlInv, WorkInv, Starting, Exits
<1>7. ConfigInv'
  BY <1>1, <1>sent DEF IInv, ConfigInv
<1> QED
  BY Zenon, <1>2, <1>3, <1>4, <1>5, <1>6, <1>7 DEF IInv

(* A snapshot is taken when it is due. *)
LEMMA TakeSnapshotKeeps ==
  ASSUME IInv, TakeSnapshot
  PROVE  IInv'
<1>1. /\ \/ pc = "ran" /\ SnapshotDue
         \/ pc = "run" /\ settings.interactive /\ i <= MaxLines
      /\ pc' = "snapshot"
      /\ UNCHANGED <<prog, cmdline, optind, config, settings, i, buf, done, ret, raft,
                     leader, shutdown>>
  BY Zenon DEF TakeSnapshot, Goto, opts, work, calls, raftVars
<1>pick. PICK s \in Slots : Send(s)
  BY Zenon DEF TakeSnapshot
<1>sent. /\ s \notin issued \cup orphaned /\ fut' = s /\ issued' = issued \cup {s}
         /\ answer' = [answer EXCEPT ![s] = None] /\ UNCHANGED orphaned
  BY Zenon, <1>pick, Sent DEF IInv
<1>2. TypeOK'
  BY <1>1, <1>sent DEF IInv, TypeOK, ControlInv, Exits
<1>3. ControlInv'
  BY <1>1, <1>sent DEF IInv, TypeOK, ControlInv, Resting, Starting, Waiting, Ending, Exits
<1>4. CallInv'
  BY <1>1, <1>sent, ClientAssumption DEF IInv, TypeOK, ControlInv, CallInv, Resting,
                                         Starting, Waiting, Ending, Exits
<1>5. SyncInv'
  BY <1>1, <1>sent DEF IInv, ControlInv, CallInv, SyncInv, SyncAnswers, Resting, Starting,
                       Waiting, Ending, Exits
<1>6. WorkInv'
  BY <1>1, <1>sent DEF IInv, TypeOK, ControlInv, WorkInv, Limit, SnapshotDue, Resting,
                       Starting, Waiting, Ending, Exits
<1>7. ConfigInv'
  BY <1>1, <1>sent DEF IInv, ConfigInv
<1> QED
  BY Zenon, <1>2, <1>3, <1>4, <1>5, <1>6, <1>7 DEF IInv

(* The loop ends when every run is made. *)
LEMMA SendStatsKeeps ==
  ASSUME IInv, SendStats
  PROVE  IInv'
<1>1. /\ pc = "run" /\ pc' = "get_stats"
      /\ ~settings.interactive => ~(i <= settings.runs)
      /\ UNCHANGED <<prog, cmdline, optind, config, settings, i, buf, done, ret, raft,
                     leader, shutdown>>
  BY Zenon DEF SendStats, MoreRuns, Goto, opts, work, calls, raftVars
<1>pick. PICK s \in Slots : Send(s)
  BY Zenon DEF SendStats
<1>sent. /\ s \notin issued \cup orphaned /\ fut' = s /\ issued' = issued \cup {s}
         /\ answer' = [answer EXCEPT ![s] = None] /\ UNCHANGED orphaned
  BY Zenon, <1>pick, Sent DEF IInv
<1>2. TypeOK'
  BY <1>1, <1>sent DEF IInv, TypeOK, ControlInv, Exits
<1>3. ControlInv'
  BY <1>1, <1>sent DEF IInv, TypeOK, ControlInv, Resting, Starting, Waiting, Ending, Exits
<1>4. CallInv'
  BY <1>1, <1>sent, ClientAssumption DEF IInv, TypeOK, ControlInv, CallInv, Resting,
                                         Starting, Waiting, Ending, Exits
<1>5. SyncInv'
  BY <1>1, <1>sent DEF IInv, ControlInv, CallInv, SyncInv, SyncAnswers, Resting, Starting,
                       Waiting, Ending, Exits
<1>6. WorkInv'
  <2>1. prog = "main" /\ ~settings.interactive => i - 1 = settings.runs
    BY <1>1 DEF IInv, TypeOK, WorkInv, Settings
  <2> QED
    BY <1>1, <2>1 DEF IInv, ControlInv, WorkInv, Limit, Starting, Exits
<1>7. ConfigInv'
  BY <1>1, <1>sent DEF IInv, ConfigInv
<1> QED
  BY Zenon, <1>2, <1>3, <1>4, <1>5, <1>6, <1>7 DEF IInv

(* Shutdown is called with no call but that of Stats. *)
LEMMA raft_shutdownKeeps ==
  ASSUME IInv, raft_shutdown
  PROVE  IInv'
<1>1. /\ pc = "shutdown" /\ pc' = "wait_shutdown" /\ shutdown' = TRUE
      /\ UNCHANGED <<prog, cmdline, optind, config, settings, i, buf, done, ret, raft,
                     leader>>
  BY Zenon DEF raft_shutdown, Goto, opts, work, calls, raftVars
<1>pick. PICK s \in Slots : Send(s)
  BY Zenon DEF raft_shutdown
<1>sent. /\ s \notin issued \cup orphaned /\ fut' = s /\ issued' = issued \cup {s}
         /\ answer' = [answer EXCEPT ![s] = None] /\ UNCHANGED orphaned
  BY Zenon, <1>pick, Sent DEF IInv
<1>2. TypeOK'
  BY <1>1, <1>sent DEF IInv, TypeOK, ControlInv, Exits
<1>3. ControlInv'
  BY <1>1, <1>sent DEF IInv, TypeOK, ControlInv, Resting, Starting, Waiting, Ending, Exits
<1>4. CallInv'
  BY <1>1, <1>sent, ClientAssumption DEF IInv, TypeOK, ControlInv, CallInv, Resting,
                                         Starting, Waiting, Ending, Exits
<1>5. SyncInv'
  BY <1>1, <1>sent DEF IInv, ControlInv, CallInv, SyncInv, SyncAnswers, Resting, Starting,
                       Waiting, Ending, Exits
<1>6. WorkInv'
  BY <1>1, <1>sent DEF IInv, TypeOK, ControlInv, WorkInv, Limit, SnapshotDue, Resting,
                       Starting, Waiting, Ending, Exits
<1>7. ConfigInv'
  BY <1>1, <1>sent DEF IInv, ConfigInv
<1> QED
  BY Zenon, <1>2, <1>3, <1>4, <1>5, <1>6, <1>7 DEF IInv

(* The command is answered and its future is gone. *)
LEMMA CommandDoneKeeps ==
  ASSUME IInv, CommandDone
  PROVE  IInv'
<1>1. /\ pc = "command" /\ pc' = (IF settings.interactive THEN "next" ELSE "ran")
      /\ buf' = FALSE /\ done' = [done EXCEPT !.commands = @ + 1]
      /\ answer[fut] # None /\ fut \in issued /\ fut' = None
      /\ issued' = issued \ {fut} /\ answer' = [answer EXCEPT ![fut] = None]
      /\ UNCHANGED <<prog, cmdline, optind, config, settings, i, ret, orphaned, raft,
                     leader, shutdown>>
  BY DEF CommandDone, Finish, Api!Dispose, Goto, opts, work, calls, raftVars
<1>2. TypeOK'
  BY Zenon, <1>1, ClientAssumption DEF IInv, TypeOK, ControlInv, CallInv, WorkInv, Resting,
                                       Starting, Waiting, Ending, Exits
<1>3. ControlInv'
  BY <1>1 DEF IInv, TypeOK, ControlInv, Resting, Starting, Waiting, Ending, Exits
<1>4. CallInv'
  BY <1>1, ClientAssumption DEF IInv, TypeOK, ControlInv, CallInv, Resting, Starting,
                                Waiting, Ending, Exits
<1>5. SyncInv'
  BY <1>1 DEF IInv, ControlInv, CallInv, SyncInv, SyncAnswers, Resting, Starting, Waiting,
              Ending, Exits
<1>6. WorkInv'
  BY <1>1 DEF IInv, TypeOK, ControlInv, WorkInv, Limit, SnapshotDue, Resting, Starting,
              Waiting, Ending, Exits
<1>7. ConfigInv'
  BY <1>1 DEF IInv, ConfigInv
<1> QED
  BY Zenon, <1>2, <1>3, <1>4, <1>5, <1>6, <1>7 DEF IInv

(* One more snapshot, where one is due. *)
LEMMA SnapshotDoneKeeps ==
  ASSUME IInv, SnapshotDone
  PROVE  IInv'
<1>1. /\ pc = "snapshot" /\ pc' = "next"
      /\ done' = [done EXCEPT !.snapshots = @ + 1]
      /\ answer[fut] # None /\ fut \in issued /\ fut' = None
      /\ issued' = issued \ {fut} /\ answer' = [answer EXCEPT ![fut] = None]
      /\ UNCHANGED <<prog, cmdline, optind, config, settings, i, buf, ret, orphaned, raft,
                     leader, shutdown>>
  BY DEF SnapshotDone, Finish, Api!Dispose, Goto, opts, work, calls, raftVars
<1>2. TypeOK'
  BY <1>1, ClientAssumption DEF IInv, TypeOK, ControlInv, CallInv, WorkInv, Resting,
                                Starting, Waiting, Ending, Exits
<1>3. ControlInv'
  BY <1>1 DEF IInv, TypeOK, ControlInv, Resting, Starting, Waiting, Ending, Exits
<1>4. CallInv'
  BY <1>1, ClientAssumption DEF IInv, TypeOK, ControlInv, CallInv, Resting, Starting,
                                Waiting, Ending, Exits
<1>5. SyncInv'
  BY <1>1 DEF IInv, ControlInv, CallInv, SyncInv, SyncAnswers, Resting, Starting, Waiting,
              Ending, Exits
<1>6. WorkInv'
  <2>1. CASE prog = "main" /\ ~settings.interactive
    <3>1. done.commands = i /\ done.snapshots + 1 = Due(settings.snapshot_period, i)
      BY <1>1, <2>1, Quotient DEF IInv, WorkInv, TypeOK, SnapshotDue, Settings
    <3> QED
      BY <1>1, <2>1, <3>1 DEF IInv, ControlInv, WorkInv, Limit, Starting, Exits
  <2>2. CASE ~(prog = "main" /\ ~settings.interactive)
    BY <1>1, <2>2 DEF IInv, WorkInv, Limit, Starting
  <2> QED
    BY Zenon, <2>1, <2>2
<1>7. ConfigInv'
  BY <1>1 DEF IInv, ConfigInv
<1> QED
  BY Zenon, <1>2, <1>3, <1>4, <1>5, <1>6, <1>7 DEF IInv

(* The call may be refused at once. *)
LEMMA SyncSendKeeps ==
  ASSUME IInv, NEW fn \in Calling, SyncSend(fn)
  PROVE  IInv'
<1>1. /\ i <= MaxLines /\ pc = "idle" /\ pc' = (IF fn \in Eaters THEN "get" ELSE "wait")
      /\ ret' = [fn |-> fn, answer |-> None, value |-> "none"]
      /\ UNCHANGED <<prog, cmdline, optind, config, settings, i, buf, done, raft, leader,
                     shutdown>>
  BY Zenon DEF SyncSend, Goto, opts, raftVars
<1>pick. PICK s \in Slots : Api!Issue(s) /\ fut' = s
  BY Zenon DEF SyncSend
<1>b. PICK a \in Replies : answer' = [answer EXCEPT ![s] = a]
  BY Zenon, <1>pick DEF Api!Issue, Replies
<1>sent. /\ s \notin issued \cup orphaned /\ fut' = s /\ issued' = issued \cup {s}
         /\ UNCHANGED orphaned
  BY Zenon, <1>pick DEF Api!Issue
<1>2. TypeOK'
  <2>1. answer' \in [Slots -> {None, "value", "error", "invalid_address"}]
    BY <1>b DEF IInv, TypeOK, Replies
  <2> QED
    BY <1>1, <1>sent, <2>1 DEF IInv, TypeOK, ControlInv, Exits
<1>3. ControlInv'
  BY <1>1 DEF IInv, TypeOK, ControlInv, Resting, Starting, Waiting, Ending, Exits
<1>4. CallInv'
  BY <1>1, <1>sent, <1>b, ClientAssumption DEF IInv, TypeOK, ControlInv, CallInv, Resting,
     Starting, Waiting, Ending, Exits
<1>5. SyncInv'
  <2>1. ret' \in Return
    BY <1>1 DEF Return, Replies
  <2> QED
    BY <1>1, <2>1 DEF SyncInv, SyncAnswers, Starting
<1>6. WorkInv'
  BY <1>1 DEF IInv, TypeOK, ControlInv, WorkInv, Limit, SnapshotDue, Resting, Starting,
              Waiting, Ending, Exits
<1>7. ConfigInv'
  BY <1>1 DEF IInv, ConfigInv
<1> QED
  BY Zenon, <1>2, <1>3, <1>4, <1>5, <1>6, <1>7 DEF IInv

(* The call that is given up is answered. *)
LEMMA SyncEatKeeps ==
  ASSUME IInv, SyncEat
  PROVE  IInv'
<1>1. /\ pc = "get" /\ answer[fut] \in {"value", "error"} /\ i' = i + 1
      /\ pc' = (IF answer[fut] = "error" /\ ret.fn = "leader" THEN "abort" ELSE "idle")
      /\ ret' = [fn |-> ret.fn, answer |-> answer[fut],
                  value |-> IF answer[fut] = "value" THEN "value" ELSE "0"]
      /\ fut \in issued /\ fut' = None
      /\ issued' = issued \ {fut} /\ orphaned' = orphaned \cup {fut}
      /\ UNCHANGED <<prog, cmdline, optind, config, settings, buf, done, answer, raft,
                     leader, shutdown>>
  BY DEF SyncEat, Returned, Api!Abandon, Goto, opts, work, calls, raftVars
<1>2. TypeOK'
  <2>1. i <= Limit
    BY Zenon, <1>1 DEF IInv, WorkInv
  <2>2. (i \in 1 .. 1 + IF prog = "sync" \/ settings.interactive THEN MaxLines
                                                            ELSE settings.runs)'
    BY Zenon, <1>1, <2>1, OneMoreRun
  <2> QED
    BY <1>1, <2>2 DEF IInv, TypeOK, ControlInv, CallInv, Resting, Starting, Waiting
<1>3. ControlInv'
  BY <1>1 DEF IInv, TypeOK, ControlInv, Resting, Starting, Waiting, Ending, Exits
<1>4. CallInv'
  BY <1>1, ClientAssumption DEF IInv, TypeOK, ControlInv, CallInv, Resting, Starting,
                                Waiting, Ending, Exits
<1>5. SyncInv'
  BY <1>1 DEF IInv, ControlInv, CallInv, SyncInv, SyncAnswers, Calling, Waiters, Eaters,
             Replies, Return, Resting, Starting, Waiting, Ending, Exits
<1>6. WorkInv'
  BY <1>1 DEF IInv, TypeOK, ControlInv, WorkInv, Limit, SnapshotDue, Resting, Starting,
              Waiting, Ending, Exits
<1>7. ConfigInv'
  BY <1>1 DEF IInv, ConfigInv
<1> QED
  BY Zenon, <1>2, <1>3, <1>4, <1>5, <1>6, <1>7 DEF IInv

(* A failed call is not taken for a result. *)
LEMMA SyncWaitKeeps ==
  ASSUME IInv, SyncWait
  PROVE  IInv'
<1>1. /\ pc = "wait" /\ pc' = "idle" /\ i' = i + 1
      /\ ret' = [fn |-> ret.fn, answer |-> answer[fut],
                  value |-> IF answer[fut] = "value" THEN "value" ELSE ErrorOf(ret.fn)]
      /\ answer[fut] # None /\ fut \in issued /\ fut' = None
      /\ issued' = issued \ {fut} /\ answer' = [answer EXCEPT ![fut] = None]
      /\ UNCHANGED <<prog, cmdline, optind, config, settings, buf, done, orphaned, raft,
                     leader, shutdown>>
  BY DEF SyncWait, Returned, Finish, Api!Dispose, Goto, opts, work, calls, raftVars
<1>2. TypeOK'
  <2>1. i <= Limit
    BY Zenon, <1>1 DEF IInv, WorkInv
  <2>2. (i \in 1 .. 1 + IF prog = "sync" \/ settings.interactive THEN MaxLines
                                                            ELSE settings.runs)'
    BY Zenon, <1>1, <2>1, OneMoreRun
  <2> QED
    BY <1>1, <2>2 DEF IInv, TypeOK, ControlInv, CallInv, Resting, Starting, Waiting
<1>3. ControlInv'
  BY <1>1 DEF IInv, TypeOK, ControlInv, Resting, Starting, Waiting, Ending, Exits
<1>4. CallInv'
  BY <1>1, ClientAssumption DEF IInv, TypeOK, ControlInv, CallInv, Resting, Starting,
                                Waiting, Ending, Exits
<1>5. SyncInv'
  <2>1. ret \in Return /\ answer[fut] \in Replies
    BY <1>1 DEF IInv, SyncInv, TypeOK, Replies
  <2>2. ErrorOf(ret.fn) \in {"error", "RAFT_INVALID_STATE", "0"}
    BY <2>1 DEF Return, Calling, Waiters, Eaters, ErrorOf
  <2>3. ret' \in Return /\ (ret'.answer = "value" <=> ret'.value = "value")
    BY <1>1, <2>1, <2>2 DEF Return
  <2> QED
    BY <1>1, <2>3 DEF IInv, CallInv, Waiting, SyncInv, SyncAnswers, Starting
<1>6. WorkInv'
  BY <1>1 DEF IInv, TypeOK, ControlInv, WorkInv, Limit, SnapshotDue, Resting, Starting,
              Waiting, Ending, Exits
<1>7. ConfigInv'
  BY <1>1 DEF IInv, ConfigInv
<1> QED
  BY Zenon, <1>2, <1>3, <1>4, <1>5, <1>6, <1>7 DEF IInv

(* An orphan is no call the program holds. *)
LEMMA CollectOrphanKeeps ==
  ASSUME IInv, pc \notin Exits, CollectOrphan
  PROVE  IInv'
<1>1. /\ \E s \in Slots : /\ s \in orphaned
                           /\ orphaned' = orphaned \ {s}
                           /\ answer' = [answer EXCEPT ![s] = None]
      /\ UNCHANGED <<prog, pc, cmdline, optind, config, settings, i, fut, buf, done, ret,
                     issued, raft, leader, shutdown>>
  BY Zenon DEF CollectOrphan, Api!Collect, Goto, opts, work, calls, raftVars
<1>2. TypeOK'
  BY <1>1, ClientAssumption DEF IInv, TypeOK, ControlInv, CallInv, WorkInv, Resting,
                                Starting, Waiting, Ending, Exits
<1>3. ControlInv'
  BY <1>1 DEF IInv, TypeOK, ControlInv, Resting, Starting, Waiting, Ending, Exits
<1>4. CallInv'
  BY <1>1, ClientAssumption DEF IInv, TypeOK, ControlInv, CallInv, Resting, Starting,
                                Waiting, Ending, Exits
<1>5. SyncInv'
  BY <1>1 DEF IInv, ControlInv, CallInv, SyncInv, SyncAnswers, Resting, Starting, Waiting,
              Ending, Exits
<1>6. WorkInv'
  BY <1>1 DEF IInv, TypeOK, ControlInv, WorkInv, Limit, SnapshotDue, Resting, Starting,
              Waiting, Ending, Exits
<1>7. ConfigInv'
  BY <1>1 DEF IInv, ConfigInv
<1> QED
  BY Zenon, <1>2, <1>3, <1>4, <1>5, <1>6, <1>7 DEF IInv

(* An answer is kept, so a call is answered once. *)
LEMMA RaftAnswersKeeps ==
  ASSUME IInv, pc \notin Exits, NEW s \in Slots, RaftAnswers(s)
  PROVE  IInv'
<1>1. /\ raft = "up" /\ s \in issued \cup orphaned /\ answer[s] = None
      /\ \E a \in {"value", "error", "invalid_address"} : answer' = [answer EXCEPT ![s] = a]
      /\ UNCHANGED <<prog, pc, cmdline, optind, config, settings, i, fut, buf, done, ret,
                     issued, orphaned, raft, leader, shutdown>>
  BY Zenon DEF RaftAnswers, Api!Answer, Goto, opts, work, calls, raftVars
<1>2. TypeOK'
  BY <1>1, ClientAssumption DEF IInv, TypeOK, ControlInv, CallInv, WorkInv, Resting,
                                Starting, Waiting, Ending, Exits
<1>3. ControlInv'
  BY <1>1 DEF IInv, TypeOK, ControlInv, Resting, Starting, Waiting, Ending, Exits
<1>4. CallInv'
  BY <1>1, ClientAssumption DEF IInv, TypeOK, ControlInv, CallInv, Resting, Starting,
                                Waiting, Ending, Exits
<1>5. SyncInv'
  BY <1>1 DEF IInv, ControlInv, CallInv, SyncInv, SyncAnswers, Resting, Starting, Waiting,
              Ending, Exits
<1>6. WorkInv'
  BY <1>1 DEF IInv, TypeOK, ControlInv, WorkInv, Limit, SnapshotDue, Resting, Starting,
              Waiting, Ending, Exits
<1>7. ConfigInv'
  BY <1>1 DEF IInv, ConfigInv
<1> QED
  BY Zenon, <1>2, <1>3, <1>4, <1>5, <1>6, <1>7 DEF IInv
-----------------------------------------------------------------------------
(* The program as a whole *)

LEMMA InitOK == Init => IInv
<1> SUFFICES ASSUME Init PROVE IInv
  OBVIOUS
<1>1. /\ cmdline \in Seq(Argument) /\ Len(cmdline) \in Nat
      /\ prog = "sync" => Len(cmdline) = 0
  <2>1. \/ prog = "main" /\ cmdline \in Cmdlines
        \/ prog = "sync" /\ cmdline = <<>>
    BY Zenon DEF Init
  <2>2. CASE cmdline = <<>>
    BY <2>2
  <2>3. CASE prog = "main" /\ cmdline \in Cmdlines
    <3>1. cmdline \in Seq(Argument)
      BY Zenon, <2>3, ClientAssumption
    <3> QED
      BY <2>3, <3>1
  <2> QED
    BY Zenon, <2>1, <2>2, <2>3
<1>2. /\ issued = {} /\ orphaned = {} /\ answer = [s \in Slots |-> None]
      /\ optind = 1 /\ i = 1 /\ fut = None /\ buf = FALSE /\ ret = None
      /\ raft = "none" /\ shutdown = FALSE
      /\ \/ prog = "main" /\ pc = "parse"
         \/ prog = "sync" /\ pc = "raft_init"
  BY Zenon DEF Init, Api!Init
<1>3. /\ settings = [runs |-> DefaultRuns, snapshot_period |-> 0,
                     delay |-> <<1, 0>>, interactive |-> FALSE]
      /\ settings \in Settings
  BY ClientAssumption DEF Init, Settings
<1>4. TypeOK
  <2>1. (IF prog = "sync" \/ settings.interactive THEN MaxLines ELSE settings.runs) \in Nat
    BY <1>3, ClientAssumption DEF Settings
  <2>2. /\ i \in 1 .. 1 + IF prog = "sync" \/ settings.interactive THEN MaxLines
                                                                  ELSE settings.runs
        /\ optind \in 1 .. Len(cmdline) + 1
    BY <1>1, <1>2, <2>1
  <2> QED
    BY Zenon, <1>2, <2>2 DEF TypeOK
<1>5. ControlInv
  BY <1>1, <1>2 DEF ControlInv, Resting, Starting, Waiting, Ending, Exits
<1>6. CallInv
  BY <1>2 DEF CallInv, Resting, Starting, Waiting, Exits
<1>7. SyncInv
  BY <1>2 DEF SyncInv, SyncAnswers, Starting
<1>8. WorkInv
  BY <1>2, <1>3 DEF Init, WorkInv, Starting
<1>9. ConfigInv
  <2>1. ASSUME NEW options, NEW default, NEW given
        PROVE  Tracks(cmdline, 1, options, default, default, given)
    <3>1. 1 .. 1 - 1 = {}
      OBVIOUS
    <3> QED
      BY Zenon, <3>1 DEF Tracks
  <2>2. /\ config = default_config /\ config \in Config
        /\ config.shm_size = SHM_SIZE /\ config.listen_port = DefaultPort
        /\ config.EnableSingleNode = FALSE /\ config.verbose = FALSE
    BY SMT, ClientAssumption DEF Init, default_config, Config, DefaultPort
  <2>3. /\ settings.runs = DefaultRuns /\ settings.snapshot_period = 0
        /\ settings.delay = <<1, 0>> /\ settings.interactive = FALSE
    BY <1>3
  <2> QED
    BY Zenon, <1>1, <1>2, <2>1, <2>2, <2>3 DEF ConfigInv, AsGiven
<1> QED
  BY Zenon, <1>4, <1>5, <1>6, <1>7, <1>8, <1>9 DEF IInv

LEMMA NextKeeps == IInv /\ [Next]_vars => IInv'
<1> SUFFICES ASSUME IInv, [Next]_vars PROVE IInv'
  OBVIOUS
<1>1. CASE Main
  BY Zenon, <1>1, ParseOptionKeeps, ParseReturnsKeeps, raft_initKeeps, AwaitLeaderKeeps,
     SendCommandKeeps, CommandDoneKeeps, TakeSnapshotKeeps, SnapshotDoneKeeps, NextRunKeeps,
     SendStatsKeeps, GetStatsKeeps, raft_shutdownKeeps, ShutdownReturnsKeeps,
     raft_cleanupKeeps DEF Main
<1>2. CASE Sync
  BY Zenon, <1>2, SyncSendKeeps, SyncNullKeeps, SyncEatKeeps, SyncGetKeeps, SyncWaitKeeps,
     SyncEndsKeeps DEF Sync, Calling
<1>3. CASE Environment
  BY Zenon, <1>3, CollectOrphanKeeps, WatchKeeps, RaftExitsKeeps, RaftDiesKeeps,
     RaftLeadsKeeps, RaftAnswersKeeps DEF Environment
<1>4. CASE UNCHANGED vars
  <2>1. /\ prog' = prog /\ pc' = pc /\ cmdline' = cmdline /\ optind' = optind
        /\ config' = config /\ settings' = settings /\ i' = i /\ fut' = fut /\ buf' = buf
        /\ done' = done /\ ret' = ret /\ issued' = issued /\ orphaned' = orphaned
        /\ answer' = answer /\ raft' = raft /\ shutdown' = shutdown
    BY Zenon, <1>4 DEF vars, opts, work, calls, raftVars
  <2>2. TypeOK' /\ ControlInv'
    BY <2>1 DEF IInv, TypeOK, ControlInv
  <2>3. CallInv'
    BY <2>1 DEF IInv, CallInv
  <2>4. SyncInv' /\ ConfigInv'
    BY Zenon, <2>1 DEF IInv, SyncInv, SyncAnswers, ConfigInv
  <2>5. WorkInv'
    BY Zenon, <2>1 DEF IInv, WorkInv, Limit, SnapshotDue
  <2> QED
    BY Zenon, <2>2, <2>3, <2>4, <2>5 DEF IInv
<1> QED
  BY Zenon, <1>1, <1>2, <1>3, <1>4 DEF Next, Running, Ended

(* The inductive invariant holds in every reachable state of the client    *)
(* program, whatever the command lines, the number of slots, the word      *)
(* sizes and the lines that are typed.  (main, raft_c_if.cc)               *)
THEOREM Invariant == Spec => []IInv
<1>1. Init => IInv
  BY InitOK
<1>2. IInv /\ [Next]_vars => IInv'
  BY NextKeeps
<1> QED
  BY <1>1, <1>2, PTL DEF Spec

(* Every variable of the client program keeps its type: the loop makes no  *)
(* more runs than asked for, and no call is made before raft_init.         *)
THEOREM TypeCorrect == Spec => []TypeOK
<1>1. IInv => TypeOK
  BY DEF IInv
<1> QED
  BY <1>1, Invariant, PTL

-----------------------------------------------------------------------------
(* What follows from the invariant *)

(* The value of an option once the command line is read *)
Found(options, v, default, given) ==
  \/ LastGiven(options) = 0 /\ v = default
  \/ LastGiven(options) \in 1 .. Len(cmdline) /\ v = given[LastGiven(options)]

LEMMA Tracked ==
  ASSUME NEW options, NEW v, NEW default, NEW given, Len(cmdline) \in Nat,
         Tracks(cmdline, Len(cmdline) + 1, options, v, default, given)
  PROVE  Found(options, v, default, given)
<1> DEFINE at == {n \in 1 .. Len(cmdline) : cmdline[n].opt \in options}
<1>1. (Len(cmdline) + 1) - 1 = Len(cmdline)
  OBVIOUS
<1>2. CASE at = {}
  <2>1. LastGiven(options) = 0
    BY Zenon, <1>2 DEF LastGiven
  <2> QED
    BY Zenon, <1>1, <1>2, <2>1 DEF Found, Tracks
<1>3. CASE at # {}
  <2>1. PICK n \in 1 .. Len(cmdline) :
          /\ v = given[n] /\ cmdline[n].opt \in options
          /\ \A m \in 1 .. Len(cmdline) : cmdline[m].opt \in options => m <= n
    BY Zenon, <1>1, <1>3 DEF Tracks
  <2>2. n \in at /\ \A m \in at : m <= n
    BY Zenon, <2>1
  <2>3. \A k \in at : (\A m \in at : m <= k) => k = n
    BY <2>2
  <2> HIDE DEF at
  <2>4. (CHOOSE k \in at : \A m \in at : m <= k) = n
    BY Zenon, <2>2, <2>3
  <2>5. LastGiven(options) = n
    BY Zenon, <1>3, <2>4 DEF LastGiven, at
  <2> QED
    BY Zenon, <2>1, <2>5 DEF Found
<1> QED
  BY Zenon, <1>2, <1>3

(* A count below the word size is exact. *)
LEMMA Fits == ASSUME NEW n \in Nat, NEW w \in Nat \ {0}, n < w PROVE n % w = n
  OBVIOUS

LEMMA PauseExact == ASSUME NEW n \in Nat PROVE Lasts(Pause(n), n)
<1>1. Pause(n)[1] = n \div 1000000 /\ Pause(n)[2] = (n % 1000000) * 1000
  BY SMT DEF Pause
<1>2. /\ n % 1000000 \in Nat /\ n % 1000000 < 1000000
      /\ (n \div 1000000) * 1000000 + (n % 1000000) = n
  BY SMT
<1>3. ASSUME NEW r \in Nat PROVE (r * 1000) \div 1000 = r /\ (r * 1000) % 1000 = 0
  BY SMT
<1> QED
  BY SMT, <1>1, <1>2, <1>3 DEF Lasts

LEMMA AskedFor == IInv => ConfigAsAsked
<1> SUFFICES ASSUME IInv, raft # "none", prog = "main" PROVE ConfigAsAsked
  BY Zenon DEF ConfigAsAsked
<1> DEFINE size == LastGiven({"--shm-size"})
           port == LastGiven({"--port"})
           wait == LastGiven({"-w", "--wait"})
           runs == LastGiven({"-n"})
           snaps == LastGiven({"-s", "--snapshots"})
<1>1. optind = Len(cmdline) + 1 /\ cmdline \in Seq(Argument) /\ Len(cmdline) \in Nat
  BY DEF IInv, ControlInv, ConfigInv
<1>2. AsGiven(cmdline, Len(cmdline) + 1, config, settings)
  BY Zenon, <1>1 DEF IInv, ConfigInv
<1>3. \A n \in 1 .. Len(cmdline) : cmdline[n].num \in Nat
  <2>1. \A n \in 1 .. Len(cmdline) : cmdline[n] \in Argument
    BY <1>1
  <2> QED
    BY Zenon, <2>1 DEF Argument
<1>4. IF size = 0 THEN config.shm_size = SHM_SIZE
      ELSE Bytes(cmdline[size]) < Word => config.shm_size = Bytes(cmdline[size])
  <2>1. \/ size = 0 /\ config.shm_size = SHM_SIZE
        \/ size \in 1 .. Len(cmdline) /\ config.shm_size = Sizes(cmdline)[size]
    <3>1. Tracks(cmdline, Len(cmdline) + 1, {"--shm-size"},
                 config.shm_size, SHM_SIZE, Sizes(cmdline))
      BY Zenon, <1>2 DEF AsGiven
    <3>2. Found({"--shm-size"}, config.shm_size, SHM_SIZE, Sizes(cmdline))
      BY Zenon, <1>1, <3>1, Tracked
    <3> QED
      BY Zenon, <3>2 DEF Found
  <2>2. ASSUME size # 0, Bytes(cmdline[size]) < Word
        PROVE  config.shm_size = Bytes(cmdline[size])
    <3> DEFINE asked == Bytes(cmdline[size])
               letter == cmdline[size].suffix
    <3>1. size \in 1 .. Len(cmdline) /\ config.shm_size = parse_size(cmdline[size])
      BY Zenon, <2>1, <2>2 DEF Sizes
    <3>2. cmdline[size].num * Unit(letter) = asked
      BY Zenon DEF Unit, Bytes
    <3>3. Unit(letter) \in Nat
      <4>1. Kilo \in Nat /\ Kilo * Kilo \in Nat /\ Kilo * Kilo * Kilo \in Nat
        BY ClientAssumption
      <4> QED
        BY <4>1 DEF Unit
    <3>4. asked \in Nat
      <4>1. cmdline[size].num \in Nat
        BY Zenon, <1>3, <3>1
      <4>2. cmdline[size].num * Unit(letter) \in Nat
        BY <3>3, <4>1
      <4> QED
        BY Zenon, <3>2, <4>2
    <3>5. asked % Word = asked
      BY Zenon, <2>2, <3>4, Fits, ClientAssumption
    <3> QED
      BY Zenon, <3>1, <3>2, <3>5 DEF parse_size
  <2> QED
    BY <2>1, <2>2
<1>5. IF port = 0 THEN config.listen_port = DefaultPort
      ELSE cmdline[port].num < PortWord => config.listen_port = cmdline[port].num
  <2>1. \/ port = 0 /\ config.listen_port = DefaultPort
        \/ port \in 1 .. Len(cmdline) /\ config.listen_port = Ports(cmdline)[port]
    <3>1. Tracks(cmdline, Len(cmdline) + 1, {"--port"},
                 config.listen_port, DefaultPort, Ports(cmdline))
      BY Zenon, <1>2 DEF AsGiven
    <3>2. Found({"--port"}, config.listen_port, DefaultPort, Ports(cmdline))
      BY Zenon, <1>1, <3>1, Tracked
    <3> QED
      BY Zenon, <3>2 DEF Found
  <2>2. ASSUME port # 0, cmdline[port].num < PortWord
        PROVE  config.listen_port = cmdline[port].num
    <3>1. port \in 1 .. Len(cmdline) /\ config.listen_port = cmdline[port].num % PortWord
      BY Zenon, <2>1, <2>2 DEF Ports
    <3>2. cmdline[port].num % PortWord = cmdline[port].num
      BY Zenon, <1>3, <2>2, <3>1, Fits, ClientAssumption
    <3> QED
      BY Zenon, <3>1, <3>2
  <2> QED
    BY <2>1, <2>2
<1>6. IF wait = 0 THEN settings.delay = <<1, 0>>
      ELSE Lasts(settings.delay, cmdline[wait].num)
  <2>1. \/ wait = 0 /\ settings.delay = <<1, 0>>
        \/ wait \in 1 .. Len(cmdline) /\ settings.delay = Delays(cmdline)[wait]
    <3>1. Tracks(cmdline, Len(cmdline) + 1, {"-w", "--wait"},
                 settings.delay, <<1, 0>>, Delays(cmdline))
      BY Zenon, <1>2 DEF AsGiven
    <3>2. Found({"-w", "--wait"}, settings.delay, <<1, 0>>, Delays(cmdline))
      BY Zenon, <1>1, <3>1, Tracked
    <3> QED
      BY Zenon, <3>2 DEF Found
  <2>2. ASSUME wait # 0 PROVE Lasts(settings.delay, cmdline[wait].num)
    <3>1. settings.delay = Pause(cmdline[wait].num) /\ cmdline[wait].num \in Nat
      BY Zenon, <1>3, <2>1, <2>2 DEF Delays
    <3> QED
      BY Zenon, <3>1, PauseExact
  <2> QED
    BY <2>1, <2>2
<1>7. settings.runs = IF runs = 0 THEN DefaultRuns ELSE cmdline[runs].num
  <2>1. \/ runs = 0 /\ settings.runs = DefaultRuns
        \/ runs \in 1 .. Len(cmdline) /\ settings.runs = Nums(cmdline)[runs]
    <3>1. Tracks(cmdline, Len(cmdline) + 1, {"-n"},
                 settings.runs, DefaultRuns, Nums(cmdline))
      BY Zenon, <1>2 DEF AsGiven
    <3>2. Found({"-n"}, settings.runs, DefaultRuns, Nums(cmdline))
      BY Zenon, <1>1, <3>1, Tracked
    <3> QED
      BY Zenon, <3>2 DEF Found
  <2> QED
    BY <2>1 DEF Nums
<1>8. settings.snapshot_period = IF snaps = 0 THEN 0 ELSE cmdline[snaps].num
  <2>1. \/ snaps = 0 /\ settings.snapshot_period = 0
        \/ snaps \in 1 .. Len(cmdline) /\ settings.snapshot_period = Nums(cmdline)[snaps]
    <3>1. Tracks(cmdline, Len(cmdline) + 1, {"-s", "--snapshots"},
                 settings.snapshot_period, 0, Nums(cmdline))
      BY Zenon, <1>2 DEF AsGiven
    <3>2. Found({"-s", "--snapshots"}, settings.snapshot_period, 0, Nums(cmdline))
      BY Zenon, <1>1, <3>1, Tracked
    <3> QED
      BY Zenon, <3>2 DEF Found
  <2> QED
    BY <2>1 DEF Nums
<1>9. ASSUME NEW options, NEW v, Tracks(cmdline, Len(cmdline) + 1, options, v, FALSE,
Yes(cmdline))
      PROVE  v = (LastGiven(options) # 0)
  <2>1. \/ LastGiven(options) = 0 /\ v = FALSE
        \/ LastGiven(options) \in 1 .. Len(cmdline) /\ v = Yes(cmdline)[LastGiven(options)]
    BY Zenon, <1>1, <1>9, Tracked DEF Found
  <2>2. 0 \notin 1 .. Len(cmdline)
    BY <1>1
  <2> QED
    BY Zenon, <2>1, <2>2 DEF Yes
<1>10. /\ settings.interactive = (LastGiven({"-i", "--interactive"}) # 0)
       /\ config.EnableSingleNode = (LastGiven({"--single"}) # 0)
       /\ config.verbose = (LastGiven({"--verbose"}) # 0)
  BY Zenon, <1>2, <1>9 DEF AsGiven
<1> QED
  BY Zenon, <1>4, <1>5, <1>6, <1>7, <1>8, <1>10 DEF ConfigAsAsked

(* Raft is started with what the command line asks for: the last value     *)
(* given for each option, or its default.  (config.cc apply and            *)
(* parse_size, raft_client.c parse_opts and merge_opts)                    *)
THEOREM Configured == Spec => []ConfigAsAsked
<1>1. IInv => ConfigAsAsked
  BY AskedFor
<1> QED
  BY <1>1, Invariant, PTL

(* The cardinality of a pair, from its definition *)
LEMMA Pair == ASSUME NEW a, NEW b, a # b PROVE Cardinality({a, b}) = 2
<1> DEFINE D == SUBSET {a, b}
           CS == CHOOSE f : f = [T \in D |-> IF T = {} THEN 0
                                             ELSE 1 + f[T \ {CHOOSE x : x \in T}]]
           g == [T \in D |-> IF T = {} THEN 0 ELSE IF T = {a, b} THEN 2 ELSE 1]
<1>1. /\ {} \in D /\ {a} \in D /\ {b} \in D /\ {a, b} \in D
      /\ \A T \in D : T = {} \/ T = {a} \/ T = {b} \/ T = {a, b}
  OBVIOUS
<1>2. /\ (CHOOSE x : x \in {a}) = a /\ (CHOOSE x : x \in {b}) = b
      /\ (CHOOSE x : x \in {a, b}) \in {a, b}
  OBVIOUS
<1>3. \A e \in {a, b} : {e} \ {CHOOSE x : x \in {e}} = {}
  BY <1>2
<1>4. {a, b} \ {CHOOSE x : x \in {a, b}} = {a} \/ {a, b} \ {CHOOSE x : x \in {a, b}} = {b}
  BY Zenon, <1>2
<1>5. CS = [T \in D |-> IF T = {} THEN 0 ELSE 1 + CS[T \ {CHOOSE x : x \in T}]]
  <2>1. g[{}] = 0 /\ g[{a}] = 1 /\ g[{b}] = 1 /\ g[{a, b}] = 2
    BY <1>1
  <2>2. ASSUME NEW T \in D
        PROVE  g[T] = IF T = {} THEN 0 ELSE 1 + g[T \ {CHOOSE x : x \in T}]
    <3>1. CASE T = {}
      BY <2>1, <3>1
    <3>2. CASE T = {a} \/ T = {b}
      BY <1>3, <2>1, <3>2
    <3>3. CASE T = {a, b}
      BY <1>4, <2>1, <3>3
    <3> QED
      BY Zenon, <1>1, <3>1, <3>2, <3>3
  <2>3. g = [T \in D |-> g[T]]
    OBVIOUS
  <2>4. g = [T \in D |-> IF T = {} THEN 0 ELSE 1 + g[T \ {CHOOSE x : x \in T}]]
    BY Zenon, <2>2, <2>3
  <2>5. \E f : f = [T \in D |-> IF T = {} THEN 0 ELSE 1 + f[T \ {CHOOSE x : x \in T}]]
    BY Zenon, <2>4
  <2> QED
    BY Zenon, <2>5
<1>6. Cardinality({a, b}) = CS[{a, b}]
  BY DEF Cardinality
<1> HIDE DEF CS, D
<1>7. \A T \in D : CS[T] = IF T = {} THEN 0 ELSE 1 + CS[T \ {CHOOSE x : x \in T}]
  BY Zenon, <1>5
<1>8. CS[{a}] = 1 /\ CS[{b}] = 1
  BY <1>1, <1>3, <1>7
<1>9. CS[{a, b}] = 1 + CS[{a, b} \ {CHOOSE x : x \in {a, b}}]
  BY <1>1, <1>7
<1> QED
  BY <1>4, <1>6, <1>8, <1>9

LEMMA Single == ASSUME NEW e PROVE Cardinality({e}) = 1
<1> DEFINE D == SUBSET {e}
           CS == CHOOSE f : f = [T \in D |-> IF T = {} THEN 0
                                             ELSE 1 + f[T \ {CHOOSE x : x \in T}]]
           g == [T \in D |-> IF T = {} THEN 0 ELSE 1]
<1>1. D = {{}, {e}} /\ {e} \ {CHOOSE x : x \in {e}} = {}
  OBVIOUS
<1>2. CS = [T \in D |-> IF T = {} THEN 0 ELSE 1 + CS[T \ {CHOOSE x : x \in T}]]
  <2>1. g[{}] = 0
    BY <1>1
  <2>2. ASSUME NEW T \in D, T # {} PROVE T \ {CHOOSE x : x \in T} = {}
    BY <1>1, <2>2
  <2>3. g = [T \in D |-> IF T = {} THEN 0 ELSE 1 + g[T \ {CHOOSE x : x \in T}]]
    BY <2>1, <2>2
  <2>4. \E f : f = [T \in D |-> IF T = {} THEN 0 ELSE 1 + f[T \ {CHOOSE x : x \in T}]]
    BY Zenon, <2>3
  <2> QED
    BY Zenon, <2>4
<1>3. Cardinality({e}) = CS[{e}]
  BY DEF Cardinality
<1> HIDE DEF CS
<1>4. CS[{}] = 0 /\ CS[{e}] = 1 + CS[{}]
  BY <1>1, <1>2
<1> QED
  BY <1>3, <1>4

(* Raft is told to shut down only when every run is made, every snapshot   *)
(* that was due is taken, and every earlier call is answered.  (main,      *)
(* run_auto, send_command)                                                 *)
THEOREM ShutdownLast == Spec => []ShutdownAfterWork
<1>1. IInv => ShutdownAfterWork
  <2> SUFFICES ASSUME IInv, shutdown PROVE ShutdownAfterWork
    BY Zenon DEF ShutdownAfterWork
  <2>1. pc \in {"wait_shutdown", "cleanup"} \cup Exits /\ pc # "command"
    BY DEF IInv, ControlInv, Exits
  <2>2. ~buf
    BY Zenon, <2>1 DEF IInv, CallInv
  <2>3. prog \in {"main", "sync"}
    BY Zenon DEF IInv, TypeOK
  <2>4. \A s \in (issued \cup orphaned) \ {fut} : answer[s] # None
    BY ClientAssumption, <2>3 DEF IInv, CallInv
  <2>5. CASE prog = "main"
    <3>1. PICK s \in issued : s # fut /\ issued = {s, fut}
      BY Zenon, <2>5 DEF IInv, CallInv
    <3>2. Cardinality(issued) = 2
      BY Zenon, <3>1, Pair
    <3>3. ~settings.interactive =>
            /\ done.commands = settings.runs
            /\ done.snapshots = Due(settings.snapshot_period, settings.runs)
      BY Zenon, <2>5 DEF IInv, WorkInv
    <3> QED
      BY Zenon, <2>2, <2>4, <2>5, <3>2, <3>3 DEF ShutdownAfterWork, Due
  <2>6. CASE prog = "sync"
    <3>1. issued = {fut}
      BY Zenon, <2>6 DEF IInv, CallInv
    <3>2. Cardinality(issued) = 1
      BY Zenon, <3>1, Single
    <3>3. prog # "main"
      BY <2>6
    <3> QED
      BY Zenon, <2>2, <2>4, <3>2, <3>3 DEF ShutdownAfterWork
  <2> QED
    BY Zenon, <2>3, <2>5, <2>6
<1> QED
  BY <1>1, Invariant, PTL

(* A synchronous function returns a result of Raft exactly if its own call *)
(* succeeded, and leaves no future behind.  (raft_c_if.cc raft_apply_sync, *)
(* raft_state, raft_last_contact, raft_last_index, raft_leader)            *)
THEOREM SyncResults == Spec => []SyncAnswers
<1>1. IInv => SyncAnswers
  BY DEF IInv, SyncInv
<1> QED
  BY <1>1, Invariant, PTL

=============================================================================
