# TLA+ models of libraft

libraft lets a C or C++ program use a Raft implementation that runs in a
separate process. The two processes talk through a shared memory segment. This
directory holds specifications of the client side of that machinery, of the
programs on top of it and of the JSON tokenizer it ships, the configurations
that check them with TLC, and proofs checked with TLAPS.

## The system and its parts

A client process calls `raft_init`, which maps a new segment, builds the
*scoreboard* in it (two call queues and a few flags), forks the Raft process
and starts three threads: the FSM worker, the orphan garbage collector and the
watcher of the Raft process. A fourth thread, the snapshot worker, is started
when the first snapshot is taken.

| Part | Source | Module | State |
|---|---|---|---|
| `ArrayBlockingQueue` (the `CallQueue`s `api_queue`, `fsm_queue`) | `queue.h` | `ArrayBlockingQueue`, abstract form `BoundedFifo` | modelled, proved |
| `Deque` (`snapshot_queue`, `orphaned_calls`) | `queue.h` | `Deque` | modelled, proved |
| Call slots, futures, command buffers, counters | `raft_shm.h`, `raft_shm.cc`, `raft_c_if.cc` | `Futures`, abstract form `Calls` | modelled, proved |
| Orphan GC | `raft_shm.cc` | `Futures` | modelled, proved |
| FSM worker, snapshot worker | `raft_c_if.cc`, the FSM of `raft_client.c` | `FsmWorker` | modelled, proved |
| Startup, shutdown, watcher | `raft_shm.cc`, `raft_c_if.cc` | `Lifecycle` | modelled, proved |
| Synchronous functions | `raft_c_if.cc` | `Client` over `Calls` | modelled, proved |
| Options, `parse_size` | `config.cc` | `Client` | modelled, proved |
| Demonstration client | `raft_client.c` | `Client`; its FSM in `FsmWorker` | modelled, proved |
| `jsmn` (vendored tokenizer) | `zserge-jsmn/jsmn.c` | `Jsmn` | modelled, proved |
| `raft_print_stats`, `jsondump` | `raft_c_if.cc`, `zserge-jsmn/example/jsondump.c` | `JsonReaders` | modelled, proved |
| Timings, error texts, logging, `example/simple.c` | | | left out |
| Raft process (Go) | not in `src/` | external steps | external |

How the parts meet:

    client threads --put--> api_queue --take--> Raft workers --reply--> slot
         |  wait / poll / get / dispose                                  ^
         +-- dispose of an unanswered call --> orphaned_calls --> orphan GC
    Raft --put--> fsm_queue --take--> FSM worker --reply--> slot --> Raft
                                          |
                                          +--> snapshot_queue --> snapshot worker

The modules are composed the same way, each over the abstract form of what it
uses:

    ArrayBlockingQueue --implements--> BoundedFifo <--uses-- Futures, FsmWorker
    Futures            --implements--> Calls       <--uses-- Client
    Jsmn               <--extends--    JsonReaders

## Modules

**`BoundedFifo`** says what a call queue promises: a caller announces a call
(`CallPut`, `CallTake`), passes the closed check (`Enter`) or is refused
(`Refuse`), and at some later point its value is appended or the oldest one is
handed to it. `Close` may fall between any two of these.

**`ArrayBlockingQueue`** has the fields of the class as variables (`array`,
`head`, `tail`, `count`, `closed`), the mutex as the thread that holds it, and
the program counter of every thread. Each access to shared state is a step:
the unlocked `check_closed`, the lock, the loop condition, the wait, the
re-acquisition and second check, the ring update with its `notify_one`, the
unlock. Condition variables are external: `NotifyOne` picks any sleeper,
`SpuriousWake` wakes one unasked. Fields that the constructor does not
initialise start at zero, because the segment is a newly created file.

**`Deque`** has one taking thread, as both deques of the library do, which
alternates between `take` and `poll_until` as it likes. All fields are used
under the mutex, so an operation is one step up to the point where it sleeps.
A poll may time out after it was notified, and returns without looking again.
`Reset` joins the ended thread and starts the next run. `Futures`, `FsmWorker`
and `Lifecycle` use the operations as atomic steps.

**`Futures`** has a record per slot (`state`, `client_state`, the result, the
command buffer of an `Apply`, the holder of the mutex `owned`), the client
threads, the Raft workers, and the GC with its queue and backlog. `api_queue`
is an instance of `BoundedFifo`. Notes:

- `reply()` is two steps, result then state, because `get_ptr` and `future_get`
  read the state without the mutex. `retval` and `error` are one value.
- `Get` models `future_get` as it is: for a call that is already terminal it
  returns success and `retval`, whatever the error.
- `GcDispose` frees the slot, `GcUnlock` releases its mutex afterwards.
  The constant `ReuseBeforeUnlock` says whether the allocator may hand out the
  slot in between. The code does not prevent it (`TRUE`); the passing runs use
  `FALSE` so that they show what holds apart from this window.
- Clients are the well-behaved ones of the repository: one thread uses a
  future, a buffer that went into an abandoned call is not touched again, and
  the result of an `Apply` is read after a wait (as `raft_apply_sync` does).
- Allocation with its counter is one step. The Raft worker takes a call, locks
  the slot, replies once and unlocks, as the FSM worker of this repository does.

**`FsmWorker`** has the FSM calls, the FSM worker (take, lock, dispatch, apply,
reply, unlock), the snapshot worker with `snapshot_queue`, and the steps of
`raft_cleanup` that stop both. `fsm_queue` is an instance of `BoundedFifo`.
Raft may put calls without waiting for the earlier ones. The history field
`due` of a call is what a sequential FSM would answer, computed when the call
enters the queue. An FSM may complete a snapshot inside `begin_snapshot` (the
comment at `raft_c_if.cc:376`) or hand it to the snapshot worker. A command
counts one letter. A write or a restore may fail.

**`Lifecycle`** has the client's thread going through `raft_init`,
`raft_shutdown`, `kill_raft_` and `raft_cleanup`, the state of each
`std::thread` object, the queues that are open, the scoreboard flags, the
segment and the file it is mapped from, and the Raft process, which attaches to
the segment and unlinks the file (`RaftAttach`, the Raft side of `shm_init`),
comes up, exits when told to, is terminated or fails at any time. A client may
go through several runs.

**`Calls`** is what a client may rely on: a call is issued, answered once, keeps
its answer, and its slot is given back once, after the answer. `Futures` is
checked to implement it, with a call answered when its state is terminal.

**`Client`** has two single-threaded programs over `Calls`. `main` is
`raft_client.c`: the merged option table, `parse_opts` turn by turn, `config.cc`
(`apply`, `parse_size`), the wait for leadership, `run_auto` or
`run_interactive`, the statistics, the shutdown. `sync` is a program that calls
`raft_apply_sync`, `raft_state`, `raft_last_contact`, `raft_last_index` and
`raft_leader` in any order. Raft may answer with a value or an error, gain and
lose leadership, exit when told to, or die; the watcher then ends the program.
`raft_init` and `raft_cleanup` are single steps, because `Lifecycle` has their
detail. A string is a number that names it; a size is such a number with the
letter behind it. Option names have their dashes; the entry that ends a table
has none. Conversions keep their width: `Word` stands for 2^64,
`PortWord` for 2^16, `Kilo` for 1024.

**`Jsmn`** has one action per kind of character in the loops of `jsmn_parse`,
`jsmn_parse_string` and `jsmn_parse_primitive`. `tokens` is the part of the
caller's array in use, so `toknext` is its length. A call that returned
`JSMN_ERROR_PART` or `JSMN_ERROR_NOMEM` can be repeated on more data or with
more tokens. Characters are classes. The read of `tokens[-1]` in the case of
`,` is a choice of any type.

**`JsonReaders`** adds the programs that use it (`jsondump`'s `main` and
`dump`, `raft_print_stats`, a call without an array) and a writer, which
produces every JSON text up to a bound, character by character, with the list
of its tokens (`ref`), and which may stop early or damage the text. Reading and
writing interleave, so chunks are cut anywhere. A failing allocation ends
`jsondump`. `dump` is the sequence of tokens that the recursive function of that
name prints, over token, `count` and the number of items still to visit; token 0
in it stands for a visit behind the tokens that were found.

`MCFutures` and `MCFsmWorker` add symmetry sets, `MCClient` the command lines.
Operators marked `Fault` are wrong variants of the definition that follows
them; with one of them in its place, the property named in `PROJECT.json`
fails. They are not part of any specification.

## Runs

| Run | Instance | Shows |
|---|---|---|
| `queue` | ring of 2, 2 producers, 2 consumers, 1 value | exclusion, ring, `WakeupsSuffice`, refinement of `BoundedFifo`; values are taken, blocked producers are woken while open |
| `queue_close` | ring of 1, 1 + 1 threads | **violated**: a consumer can sleep on a closed queue |
| `deque` | 4 values, 3 runs | no lost wake-up, nothing lost, duplicated or left over; `close()` ends the thread, values are taken |
| `futures_safety` | 2 clients, 1 worker, 2 slots, 2 buffers | no dangling slot or buffer, one owner, counters, final results, refinement of `Calls` |
| `futures_progress` | 1 client, 1 worker, 2 slots | waits return, orphans are freed |
| `futures_late_unlock` | the same, reuse before unlock | **violated**: a wait may not return |
| `futures_get_error` | 1 client, 1 slot | **violated**: a failed call is read as a success |
| `fsm_safety` | 3 calls, queue of 2, FSM state up to 2 | answers in order, snapshots of one point in time, cleanup order |
| `fsm_progress` | 2 calls, queue of 2 | every call is answered |
| `lifecycle` | 3 runs | no thread outlives the mapping, asserts, fresh start, justified exits; `raft_init` returns or the client exits; deaths are noticed |
| `json` | texts of up to 8 characters, nesting 2, arrays of 2 and 3 for the statistics | jsmn stays in bounds and finds the tokens of the text; dump and statistics are complete; every reader ends |
| `client` | command lines of up to 2 options, 3 slots, 2 lines or calls | configuration as asked, shutdown after all work, results of the synchronous functions, the program ends |

Why the bounds are enough to be of interest: a ring of 2 with 2 + 2 threads has
wrap-around, full and empty, sleepers on both sides, and a newcomer that
overtakes a woken thread; with one value it does not show the order of values,
which the proof of `QueueImplementsFifo` does for all values. Two slots and two
clients give a live call next to an orphan, and reuse of a slot by another
client. Three FSM calls allow a snapshot being written while a command is
applied and another call is queued. Three runs of the lifecycle have a first, a
repeated and a last one. Eight characters hold two nested containers, a member
with its value, an escape of six characters and an array that is doubled twice;
arrays of 2 and 3 tokens are too small for some texts and large enough for
others, as the 64 of `raft_print_stats` are. Two options can be given in both
orders and twice; with `Kilo` 4 and `Word` 256 some sizes overflow with `M` and
`g` and others fit.

Deadlock is checked in the queue, futures, `json` and `client` runs. It is off
in `deque`, `fsm_*` and `lifecycle`, where the end of the process is a state
without a successor, and Raft may run out of calls or runs by the bounds.

### The three violations

1. `queue.h:54`. `take()` reads the closed flag before it locks. If `close()`
   runs in between, its `notify_all` finds no sleeper, and the consumer then
   sleeps on an empty queue. `raft_cleanup` joins that thread.
2. `raft_shm.cc:237`. `try_dispose_orphan` frees a slot whose mutex it holds and
   unlocks it on return. When the memory is a new call by then, its mutex is
   unlocked while a client is about to sleep, and the reply can be missed.
3. `raft_c_if.cc:345`. `future_get` reports an error only if it had to wait.
   `raft_leader` returns `RAFT_SUCCESS` for a call that failed early, against
   `raft_if.h:126`, and asserts on the null result.

### Fairness

Every thread that can take a step does so eventually (weak fairness). Lock
steps have strong fairness: a thread that finds a mutex free again and again
gets it. Nothing makes a client call, close, dispose or wake spuriously. In
`Futures` the Raft worker answers the calls it takes, and the GC's clock passes
`next_check` again and again (`GcScan`), and it gets at its queue (`GcTake`).
In `Lifecycle` only `raft_init`, the watcher and the Raft process are fair:
that the workers end after `close()` is not assumed, as it does not hold (see
violation 1), so nothing is claimed about `raft_cleanup` returning.
In `Client` the program's thread and the watcher run, and Raft answers every
call while it lives; `ProgramEnds` assumes that in the end there is a leader, as
the program polls for one, or Raft is gone. The bound `MaxLines` also stands
for the end of the typed input. In `JsonReaders` the reader runs and the input
comes or ends.

### What the code does that a reader may not expect

These came up while modelling. They are in the models as they are.

- `raft_last_contact` sends `GetState` (`raft_c_if.cc:211`), so it returns the
  state as a time; `raft_if.h:101` promises the time of the last contact.
- `--runs` is in the option table with key `r` (`raft_client.c:132`), which
  `parse_opts` does not handle: the client prints its help and exits with 2.
  The short form `-n` works.
- A primitive cut between two chunks becomes several tokens, as the end of the
  data ends a primitive without `JSMN_STRICT`. `TokensMatch` and `DumpsWhole`
  are stated for other cuts (`cut`).
- The future of `raft_stats()` is never disposed of by `main`
  (`ShutdownAfterWork` counts it).
- `raft_leader` and `raft_future_get_stats` assert on the result of a call
  that failed before they looked, which has the cause of violation 3.

## Proofs

`ArrayBlockingQueueProofs` proves, for every capacity of at least 1 and all
finite sets of threads (`QueueAssumption`):

- `TypeCorrect`, `Exclusion`, `RingIsConsistent`, `LoopsAreSound`. The inductive
  invariant `QueueInv` is their conjunction: the ring is consistent only because
  a thread at the update has just seen room or a value (`LoopConditionHolds`),
  and that stays true only because it holds the mutex (`MutualExclusion`).
  `InsertRing` and `RemoveRing` are the two steps that move the ring.
- `WakeupsAlwaysSuffice`: sleepers are covered by awake threads. The argument
  counts: each update changes the demand by one, and `notify_one` either finds
  no sleeper or adds one awake thread (`AwakeGrows`, `OneMoreAwake`,
  `CoveredNotify`); falling asleep happens only when the demand is zero.
- `QueueImplementsFifo`: with `Contents` reading the ring from `tail` on and
  `StageOf` mapping program counters, `Insert` is `Put`, `Remove` is `Take`, and
  all locking steps are stutters (`InsertContents`, `RemoveContents`,
  `FifoStutter`, `FifoNext`). This justifies the use of `BoundedFifo` in
  `Futures` and `FsmWorker` for safety.

`DequeProofs` proves `NoLostWakeup` and `NothingLost` for any number of values
and runs. Here the conjunction of the properties with the type invariant
(`DequeInv`) is inductive as it stands, because flag and contents change only
together with a notification.

`LifecycleProofs` proves `TypeCorrect`, `UnmapIsSafe`, `RunsAreFresh` and
`ExitsAreJustified` for any number of runs. Three facts make the invariant
inductive: which threads exist at each point of `raft_init` and `raft_cleanup`,
that the file is gone once Raft is attached, and that a watcher which has ended
normally has seen Raft exit after a request.

`JsonProofs` is about texts of any length and nesting, cut in any way, and arrays
of any size (`MaxLen`, `MaxDepth` and `StatsTokens` are arbitrary). The text that
the tokenizer is compared with is the writer's.

- `StaysInBounds`: `jsmn_parse` keeps `pos` in the text and `toknext` within the
  array, and `toksuper` names a token in use, or none when no container is open.
  The inductive invariant adds what the readers know before a call (an array
  that is read again is never smaller than what is in use). One lemma per kind
  of step carries it (`BeginKeeps`, `EndKeeps`, `CommaKeeps`, `LeafKeeps`,
  `EscapeKeeps`, `CallKeeps`, `WriteKeeps`); `LastIn` says that the innermost
  open token exists.
- `FindsTokens` (`TokensMatch`): when a call ends, the tokens are those of the
  text. The property speaks of the end of a call, the steps of the middle of the
  text, where the tokenizer is behind the writer. So the invariant `TInv` says
  that there is a history `h` of the writer (`Recorded`: `h[n]` is the state in
  which it wrote character `n + 1`, and `Wrote` is what one character does) such
  that the tokenizer holds the tokens of `h[n]`, `n` being the position at which
  the token under way began (`Matches`). That position is also where a call is
  resumed after an error, which is why `JSMN_ERROR_PART` and `JSMN_ERROR_NOMEM`
  lose nothing. `Shape` keeps the stack of the writer equal to the open tokens
  (`Innermost`), so both agree on the innermost container; `Super` says which
  token is superior in each state of the writer. A writer's step extends the
  history (`HistoryGrows`, `HistoryEnds`); a step of `jsmn_parse` moves along it
  (one lemma per action, `BeginMatches` to `ReturnMatches`).
- `DumpsTokens` (`DumpsWhole`): `jsondump` prints every token once, in order.
  The tokens of a text are a tree in preorder. `Balance` says this with a
  function `P`: `P[t]` is the number of visits still due behind token `t`, which
  each token lowers by one and raises by its items; it is zero behind the last
  token of a whole text and not before. The writer keeps it (`Tree`,
  `TreeGrows`). That the recursion of `dump` is well-defined (`RowsExist`) and
  prints the run of tokens it was called for (`PrintsNext`, `DumpsAll`) follows
  by induction from the last token to the first. The induction is written as a
  least counterexample (`MinExists`).
- `PrintsPairs` (`PrintsStats`): `raft_print_stats` prints all pairs of an object
  of strings, or reports an error when its array is too small. The number
  `jsmn_parse` returns is the number of tokens (`ParseCounts`), and an object of
  strings has twice as many tokens below it as it has members (`FlatObject`, from
  the same balance).

`FuturesProofs` proves `TypeCorrect`, `SlotsInUseAreAllocated`, `EverySlotHasOneOwner`,
`BuffersInUseAreAllocated`, `ResultsAreFinal` and `FuturesImplementCalls` for
any sets of clients and Raft workers, any finite sets of slots and buffers and
any capacity, under the assumption `ReuseBeforeUnlock = FALSE`. The assumption
is needed: with `TRUE`, which is the code, the GC may unlock a mutex that the
slot's next user holds. Then a worker may still refer to a slot its client has
freed (TLC refutes `NoDanglingSlot`), and a wait may not return (the run
`futures_late_unlock`). So the theorems are about the protocol with that one
window closed, whatever else the threads do. The inductive invariant `IInv` has
one part per owner of state:

- `ClientInv`, `WorkerInv`: who refers to a slot, and who has its mutex at which
  point. While a client sends, nobody else knows the slot; while a worker
  replies, it has the mutex and the call is pending.
- `QueueInv`, `GcInv`: the queue holds pending calls, each once, and an orphan is
  either in the deque or in the GC's hands.
- `SlotInv`: a slot is allocated exactly if a client or the GC has it; an
  observed call is terminal and no worker has it; a terminal call has its
  result. It is why a client or the GC may free a slot without asking Raft.
- `BufInv`, `ReadInv`: who owns a command, and that what was read is what the
  slot holds.

There is one lemma per action, which shows that `IInv` is kept, what the step is
to `Calls` (`Issues`, `Answers`, `Abandons`, `Frees` or `Stutters`) and what it
is to the counters (`CountStep`: a slot or buffer is new, or gone, or neither).
`CountersRight` adds up the last: the counters in `stats` are cardinalities.
`FuturesInv` holds the invariant, what an assignment to a slot changes, and the
steps of a client; `FuturesProofs` the steps of Raft workers, the orphan GC and
`shm_cleanup`, and the theorems.

`FsmWorkerProofs` proves `TypeCorrect`, `InOrder`, `Once` and `CleanupLast` for
any set of calls, any capacity of `fsm_queue` and any bound on the FSM's state
(`FsmAssumption`). That answers come in order is not inductive by itself; the
invariant says where the order is kept:

- `OrderInv` is the chain behind it. What the FSM holds, or will hold after the
  call the worker has, is what the first call in the queue starts from; each
  queued call starts from what the one before it leaves; the last one leaves
  what Raft expects. A put extends the chain at its end, a take and an apply
  move its beginning.
- `SendInv`, `QueueInv`, `FsmInv`, `JobInv`: a call is with Raft, in the queue,
  with the FSM worker or a job of the snapshot worker, and in one of them only.
  A snapshot job carries the copy that its call is due, so a later command
  cannot change it. `Once` follows from these.
- `CleanupInv`: `raft_cleanup` is past a join only if that thread has ended, and
  a thread that has ended has nothing left to answer (`CleanupLast`).

`ClientProofs` proves `TypeCorrect`, `Configured`, `ShutdownLast` and
`SyncResults` for every set of command lines and slots, any word sizes and any
number of runs, calls and lines (`ClientAssumption`):

- `Configured`: `ConfigInv` says of every setting that it is what the last of
  its options among the arguments read so far gives, or the default (`Tracks`).
  One argument more keeps this (`OneMore`), because `getopt_long` on the merged
  table has one key for each setting (`OptionCount`, `Merged`, `Keys`) and
  `apply` changes only the field of its key (`Applied`). At the end of the
  arguments it is the property, as a size below `Word` is not cut (`Fits`) and
  the split into seconds and nanoseconds loses nothing (`PauseExact`).
- `ShutdownLast`: `WorkInv` counts commands and snapshots at every point of the
  loop. A snapshot is due once a period (`Quotient`), so after the last run their
  number is `runs \div period`. `CallInv` says which futures the program holds
  where: none at rest, its own while it waits, those of Stats and Shutdown at
  the end; orphans are answered calls.
- `SyncResults`: `SyncInv` keeps a returned record with the answer of the call it
  is about, and an assertion fails only on an error that was there early.
- `ControlInv` ties all of them to the points at which Raft is not started yet,
  is up, or is told to shut down.

Every safety property of the passing runs is proved. Model-checked only: the
liveness properties, as fairness is out of the prover's reach.

## Not modelled

The Raft protocol and the Go side; the layout of the segment and running out of
memory; the synchronisation of the slot allocators (library code); weak memory
order beyond the order of the stores in the source; string and timing data;
error texts and logging; `example/simple.c`, which prints fields of one constant
document; defaults in `default_config` that no option changes and nothing in
`src/` reads. `jsmn` is modelled as it is built here, without `JSMN_STRICT` and
`JSMN_PARENT_LINKS`.
