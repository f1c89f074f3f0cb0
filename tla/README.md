# Hermit Miner: TLA+ specifications and proofs

This directory specifies the miner of this repository in TLA+, checks the
specifications with TLC on small instances and proves the central ones with
TLAPS. Source paths are relative to the repository; line numbers refer to the
commit the specifications were written from.

## 1. Inventory

`hermit_miner` is one process. The main thread reads its configuration, then
either mines one nonce (solo) or runs pool sessions until a limit or a stop
request; worker threads exist only inside `mine()`; the signal handler raises
one flag that all of them poll.

| Component | State | Operations | Interacts with |
|---|---|---|---|
| Parallel nonce search: `mine`, `src/lib/miner_runtime.cpp:245-337` | atomics `stop`, `total_hashes`; `result` (mutex); each worker's `nonce64`, `local_hashes` | spawn, hash, claim, publish, report; monitor loop; join | reads the stop flag; called by a session and by `main` |
| Stratum client: `src/lib/stratum.cpp` | `connected_`, `next_id_`, socket | connect, subscribe, authorize, wait_for_job, submit_share over send_line/receive_line/request_response | the pool over TCP; the stop flag in `wait_for_job`; EINTR in `select` |
| Session and reconnect loop: `miner_runtime.cpp:147-241, 339-419` | `SessionStats`, `cycles_done`, `backoff_sec`, `final_rc` | start a session, wait/mine/submit cycle, back off, give up | client, `mine()`, health file |
| Health snapshot and readiness: `miner_runtime.cpp:66-145` | the file `cfg.health_output` | write at the end, and after each event if configured | `SessionStats`; readers of the file |
| Program start and exit: `src/miner.cpp` | `g_stop_requested` | signal handler, start-up order, exit codes | everything |
| Configuration and JSON parser: `src/lib/miner_config.cpp` | `MinerConfig` | load, field lookup with fallback, environment override, validate | `main`, command line |
| Command line: `src/lib/miner_cli.cpp` | `MinerConfig`, config path | in-order overrides, `--config` reloads | configuration |
| Difficulty test, hex: `src/lib/job.cpp` | none | `meets_difficulty`, conversions | workers |
| SHA-256: `src/sha256.cpp` | none | double hash | workers |
| Logger: `src/lib/logger.cpp` | log file, mutex | redact, escape, append | everything |
| Fake pool: `src/fake_pool.cpp` | `notified`, `job_seq`, one connection | answers the three methods, announces jobs | the client |
| Tests, build and release scripts | | | |

**Hard behaviours.** Races between workers that find a nonce, the monitor and the
stop flag; a termination threshold compared with counts that arrive late; lines
that arrive late, twice, cut in two or never, on a connection shared by
consecutive requests; a submit that times out after the pool has credited it; a
signal that interrupts `select`; counters bumped in several functions with early
returns between them; a reconnect loop whose state outlives its sessions; a file
rewritten in place that outlives crashes and is read meanwhile. Each is
listed, at its line, under `hazards` in `PROJECT.json`, with the properties that
would catch it going wrong or the reason why none does.

**What makes each component correct.** *Search*: returns a sound answer or none;
an answer some worker computed is lost only to a stop request; counts exactly;
terminates. *Client*: `submit_share` is true only for a share the pool accepted;
jobs in order, none twice; every request and every wait for a job returns. *Sessions*: the counters agree with
each other and with the pool; limits are respected and the exit code says why the
run ended; waits follow the schedule; a stop request ends the run. *Local runs*: complete,
also if the pool comes late, and leave no pool behind. *Health*: the
file says what the counters say; a reader never sees it go back; what cannot be
read was cut off, and the next write repairs it. *Configuration*: what `validate_config` accepts
is what the other components assume of their settings; overrides apply in order.
*Pure functions*: agree with their reference definitions at the boundaries.

## 2. Modules

| Module | What it is |
|---|---|
| `MiningResults` | The contract of `mine()` as the set of results possible for given winners and stop flag. |
| `MineSpec` | The contract as a specification: returns once, with such a result. |
| `Mine` | `mine()`, one action per access to shared state. Implements `MineSpec`. |
| `StratumClient` | The client, the stream in both directions, and a pool (external) that may do anything JSON-RPC allows. |
| `ShareLedger` | What the pool-mining path promises of a share: offered, credited, settled or given up. |
| `MinerRuntime` | Sessions, reconnect loop and `main`'s pool branch; EXTENDS `StratumClient`, calls `mine()` through `MiningResults`. Implements `ShareLedger`. |
| `FakePool` | The repository's own pool for local runs, at the other end of `StratumClient`'s stream. |
| `LocalRun` | `MinerRuntime` and `FakePool`, two processes. |
| `MinerConfig` | Settings, their ranges, `load_config` and `validate_config`, as operators. |
| `Startup` | `main` up to the call that mines, `parse_args` and the exit codes. |
| `HealthFile` | The health file over several runs: a truncating write in steps, a reader, a full disk, crashes and restarts. |
| `Job` | The difficulty test, the hexadecimal forms and the two forms of a nonce. |
| `Sha256` | `double_sha256`, one step per round. |
| `JsonString` | Strings in JSON: `parse_string`, and the escaping of everything the program writes. |
| `PureFunctions` | A call of one of them with any input, and the steps of `double_sha256`. |
| `JsonText` | The rest of the configuration's JSON parser, and a grammar to compare it with. |
| `MCMine`, `MCMinerRuntime`, `MCLocalRun`, `MCStartup` | Instances for TLC. |
| `MCFunctions` | `PureFunctions` and `JsonText` with the inputs they are checked on. |
| `NaturalLemmas` | Induction, powers of two and division, for the proofs that need them. |
| `MineProofs` | TLAPS proofs about `Mine`: the invariant of the result, and the refinement of `MineSpec`. |
| `StratumClientProofs` | Proofs about `StratumClient`, for any use of it that its interface allows. |
| `MinerRuntimeProofs` | Proofs about `MinerRuntime`, from those about the client; the refinement of `ShareLedger`. |
| `LocalRunProofs` | Proofs about `LocalRun`, from those about the miner. |
| `HealthFileProofs` | Proofs about `HealthFile`. |
| `StartupProofs` | Proofs about `Startup` and `MinerConfig`. |
| `FunctionProofs` | Proofs about `PureFunctions`: what each function computes, for every input. |

### Correspondence

**Mine.** `worker[t]` is the position of worker `t` in the body of the lambda
(lines 264-294): `loop` (about to test the loop condition and the caller's flag),
`check_stop`, `hash`, `claim` (the compare-exchange), `publish` (the critical
section), `report` (`fetch_add`), `ended`. `main` is the position of the calling
thread: `spawn`, `monitor`, `poll`, `asleep`, `compare`, `join`, `returned`. The
hash function and the difficulty are the constant set `winning`. All atomics are
relaxed; no step concludes from one location about another, a stale load is the
same load made earlier, and the joins order everything before the return, so
interleaving is exact here. Hash payload and timing are left out.

**StratumClient.** `call` and `outcome` are the call being executed: `busy` inside
`receive_line`, `checking` at the head of the loop around it in `request_response` or
`wait_for_job`, `ok`/`failed` when it has returned. At the head the deadline is looked
at first (`Expire`) and then, in `wait_for_job` only, the stop flag
(`CheckStopRequested`). Time is `time_left`, the whole seconds to the deadline, set
once when a loop starts, and `line_left`, the second that `receive_line` has; `Tick`
lets a second of both go by. A line is a record of what the regular expressions
extract, `Other` one without meaning to the client. `SecondPasses` is `receive_line`
returning at its limit with its forgotten half line; `SignalInSelect` is EINTR; `Send`
may fail to a pool that is there, as `send_line` does for a line that is too long
(`stratum.cpp:136`). `Close` is the destructor: a submit still in flight may
or may not reach the pool. The pool is external to this code (`Pool*`): it handles
requests in order with any verdict, may answer twice or never, announces jobs and
writes other lines at any time, the latter without end, and may go away; it follows JSON-RPC in that an answer has a result or an
error, not both. What it credited is kept in `pool_accepted` and, of the submit that
is pending (the one with the id `request_id`), in `credited`: that an earlier submit
is credited late makes no difference to it.

**MinerRuntime.** `at` is the position of the main thread, between two calls on
the client; one action covers the code from one position to the next, its counter
updates and health snapshots included. A call of `mine()` is the choice of a
result its contract allows; that `Mine` implements the contract is checked and
proved separately. `health` holds what was last written to the health file
(`WriteOutcomes` lets opening it fail). `graceful` records the shutdown line. The
other steps are the client's own inside a call (`Receiving`), the clock
(`TimePasses`), and what is external: the pool and the user (`Environment`).

**FakePool and LocalRun.** `serving` is the position of the pool's `main`: not yet
started, waiting in `accept`, serving, about to read the end of the stream, ended. It
starts at any time (`Listen`): before the miner, as in most of the certification tests,
or while the miner fails to connect, as in `MinerRecoversAfterPoolComesOnline`
(`src/test/local_cert_tests.cpp:847-919`). `notified` and
`job_seq` are its variables. A request is read and all lines of its branch are sent
in one step; the client reads them one by one. The client's connection succeeds
while the listening socket is open (its backlog completes it), whether or not the
pool will ever accept it, and fails before and after. Two history variables state
conditions: `untimely`, that a second passed before a line was read, a deadline was
reached or a signal came; `unserved`, how many connections were tried before the pool
was there (`TooLate`: all that `--max-reconnect` allows).

**MinerConfig and Startup.** A file is what its text parses to, a function from
places (`<<section, key>>`, with `root` for the flat form) to typed values; a path
without a readable, well-formed file is outside the domain of `files`. Texts are
members of a constant set `Texts` that contains those of the code. The name
sent to the pool is the set of texts it is joined from, which is all that
validation tells apart. `at` is the position in `main`; `next_arg` is `parse_args`'
index, counted in options with their words. A failing step exits at once, as its
`return` does. `ULongMax` is the width of `std::stoul`, which differs between
Windows and Linux and decides what `--threads -1` means.

**HealthFile.** `phase` is where the process is with the file: in the session,
about to open, writing, ended normally (`over`) or gone (`off`). `count` stands for
`SessionStats`: it grows with every counter, `due` with those a snapshot follows.
`file` is the sequence of pieces on disk, each of some snapshot; it outlives the
process. `left` is a history variable: how the last stream on the file ended.
`Open` truncates, `OpenFailed` is the only failure the code looks at; `WriteFailed`
turns the stream bad, which drops the rest and is not noticed. `Crash` is any end
of the process that runs no further code: a kill, SIGPIPE, `std::terminate` when
no thread can be made. `MinerRuntime`, where only the thread that writes looks at
the file, takes the whole write for one step (`WriteHealth`). The module is about
runs with `health_output` set, one at a time on a file; a reader gets the file,
which is far below a page, in one read.

**Job and Sha256.** A byte is a number, a digit a number below 16, a word the set of
the positions of its one bits, so that the logical functions are set operations and
`Plus` has the carries. `stage`, `offset`, `w`, `v` and `round` are the loops of
`sha256`; the second pass of `double_sha256` hashes `out`. Padding is taken as one
step. `Mine` abstracts both modules to the set of nonces that win.

**JsonString and JsonText.** A text is a sequence of symbols, one per character but
for `true`, `false` and `null`. Each method of `JsonParser` is an operator of the same
name on the rest of the text, which returns the value and what is left of the text.
`Reading` is the loop of `parse_string`: `mode` is where it is, `out` its stream,
`taken` how far it moved `pos_`. `members` is the loop of `parse_object`. `MinerConfig`
starts from the parsed file. The three copies of the escaping function
(`logger.cpp:36`, `miner_runtime.cpp:35`, `stratum.cpp:250`) are one operator. What
they write is judged twice, by `parse_string` and, as no reader of the program is as
strict as RFC 8259, by which control characters (`Controls`) it still holds.

## 3. Runs

| Run | Instance | Shows |
|---|---|---|
| `mine` | 3 workers, 7 nonces, at most 2 winners | `TypeOK`, `SoundWinner`, `FirstResultKept`, `HashesAccounted`, `AnswerNotLost`, `ImplementsMineSpec` (with fairness), `Termination` |
| `mine_empty` | 2 workers, 5 nonces, any winners | `EmptyMeansNone` fails: finding 1 |
| `client` | 2 jobs, 3 requests per connection, 2 unread lines | `AcceptedMeansCredited`, `JobsInOrder`, `CallsReturn` |
| `client_notify` | same | `NotifyBuffered` fails: finding 2 |
| `runtime_limits` | 3 cycles, 2 failures allowed, snapshot after each event | `RuntimeTypeOK`, `CountersAgree`, `ReadyIsEarned`, `LimitsAndExitCode`, `HealthCurrent` |
| `runtime_unlimited` | no limits, 2 jobs per connection, file may fail to open | `SharesReconcile`, `ImplementsLedger`, `BackoffSchedule`, `StopEndsRun` |
| `local_run` | 4 cycles, 3 reconnects, a pool started at any time | `NeverStale`, `LocalRunCompletes`, `PoolEnds`, `OneSession` |
| `startup` | 345 contents of the other file with two command lines, and 2,408 command lines with two file systems; 4 environments | `StartupTypeOK`, `EffectiveSettings`, `StartedIsRunnable` |
| `health_file` | 3 runs, 3 counts each, content in 2 pieces | `TornMeansInterrupted`, `FileTellsState`, `ReadsForward`, `WritesEnd`, `HealthTypeOK` |
| `functions` | about 100,000 inputs, see below | `TypeOK`, `DifficultyCounts`, `HexAgrees`, `PaddingStandard`, `KnownDigests`, `EscapeSurvives`, `ParserAccepts`, `ParserReads`, `TruncatedRefused` |
| `runtime_graceful` | 1 cycle, 1 attempt | `StopIsGraceful` fails: finding 3 |
| `runtime_degraded` | same | `DegradedMeansFailures` fails: finding 4 |

**Bounds.** Three workers let two lose the race for one claim, and 7 = 3 + 2 + 2
nonces give them shares of different length, so the loop bound is met unevenly;
two winners are what a lost race takes. Deadlines of one and two seconds stand for the
10 of a request and `notify_timeout_sec`: two have a second that is not the last, so
that a loop can go round with time used up and time left. In the client, two unread lines allow a job and a response in
either order, or a doubled response; three requests allow the answers of two
earlier ones to come late. In the runtime, three cycles reach the readiness
threshold (3 accepted shares), two failures reach the cap; `UIntMod = 16` stands
for 2^32 with a maximum wait of 3, and the schedule property covers only maxima
whose double does not wrap. `FailureBound`, `MaxJobs`, `MaxLines`, `MaxRequests`
and `MaxAccepted` bound what the environment does; `FailureBound` also blocks a
further failure of the unlimited run until a stop is requested. The local run needs
no bound of its own: the fake pool announces one job per share, and both limits of
the configuration are finite. Four cycles are one more than readiness needs; of three
reconnects one or two can be spent on a pool that is not there yet and one is left
for a failure after that, and all three can be spent in vain.
`startup` uses the code's own numbers, except that `UIntMax = 100000` stands for
2^32 - 1 and `ULongMax = 1000000` for 2^64 - 1: what matters is that they are above
65535 and apart. Its file deviates from a runnable pool configuration in up to two
places, each at the edge of a range, of another type, in the flat form, empty or a
placeholder; three arguments are what it takes to have an option before, a
`--config`, and an option after. In `health_file` three runs let a torn file outlive
a run that writes nothing; two pieces let a write be cut off with something in the
file. `CHECK_DEADLOCK FALSE` there and in `functions`: after the last run, and after an input was evaluated, there is nothing more to do.

`functions` takes hashes with every number of leading zero bytes, a first byte
around each power of two and difficulties 0 to 264; nonces around every byte
boundary up to 2^31 - 1, where TLC's integers end; messages of 0 to 200 bytes, so
that every place in a block is met at least three times; five messages with known
digests, of one and two blocks; and every text of up to four of nine symbols that the
escaping is about, each kind of control character among them. The parser is given every text of up to four of twelve symbols and up to
six of the six that make an object; every deletion, insertion or replacement of
one symbol in a document of three members, nested and escaped; and 5,586 documents, of two
objects each and with and without blanks, with all beginnings of each. `MaxNumber` is 99
for 2^64 - 1.

**Fairness.** `Mine`: the operating system runs the calling thread and each worker
(weak fairness per thread); nothing is assumed of the user. `StratumClient`: the thread
that is in a call runs (weak fairness of `ReceiveStep`) and seconds pass (`Tick`).
That a call returns is not assumed: `CallsReturn` depends on the deadline being one of
the whole loop, and fails if a line puts it off. `MinerRuntime`: the thread runs, in a
session and in a call, `mine()` returns (that is `Termination`), sleeps end and seconds
pass. Nothing is assumed of the pool. `connect()` has no deadline of its own; that the
operating system ends it is assumed, as it is one step. `LocalSpec`: both
processes run, somebody starts the pool at some time, and what has arrived is read (weak
fairness of each); that no deadline passes first and that the pool does not come too
late are not assumed but the conditions under which `LocalRunCompletes` and `PoolEnds`
promise anything. `HealthFile`: a write that has
begun goes on (weak fairness of `Write`), as the thread that makes it runs; runs need
not end and nobody needs to start another. `Startup` is checked for safety only.

**Deadlock** is checked in every other run; the idle steps are the stop request (it may
be raised again), `Exited`, `LocalExited` and `StartupExited`.

## 4. Findings

1. *Nonce space declared exhausted one nonce early* (`mine_empty`). The monitor
   stops at 2^32 - 1 hashes of 2^32 (`miner_runtime.cpp:318`). If a worker leaves
   at its flag check before the last nonce of its share, the others have finished
   and the monitor wakes between the two, the result is "not found, not aborted"
   though that nonce wins; `main` logs "No valid nonce found in 32-bit nonce
   space" (`miner.cpp:88`) and exits with 2. `MiningResults!EmptyResults` says
   exactly when: the only winner is the last nonce of a share, and a stop was requested
   or some worker has a single nonce. As long as every worker has two
   (`SharesOfTwo`: up to 2^31 threads) the threshold is harmless without a stop request.
2. *Notify is not buffered* (`client_notify`). `stratum.cpp:242` says "Buffered
   notify while awaiting response"; the job is dropped.
3. *A stop request can end in an error exit* (`runtime_graceful`). The signal
   interrupts `select`, which fails the request and the session; the reconnect cap
   (`miner_runtime.cpp:362`) is looked at before the stop flag (line 379). The same
   happens wherever else the stop arrives before the last allowed session fails.
   `docs/RUNBOOK.md:59` expects "Graceful shutdown complete".
4. *`degraded` without failures* (`runtime_degraded`). `README.md:281` ties the
   status to failures; `compute_readiness_status` gives it to any run with one or
   two accepted shares.

Five observations that are not runs. `std::stoul` takes a minus sign, so a negative
number can wrap into the range of a setting, though `miner_cli.cpp:100` expects an
integer of at least 1: with `ULongMax = UIntMax`, the width of `unsigned long` on
Windows, `--threads -1` is accepted as 2^32 - 1 threads, and with 64 bits
-(2^64 - 1) as one thread. `EffectiveSettings` fails for such a command line; the
attempt to prove it showed that the width alone does not exclude them, and
`SettingsAreEffective` has the exact condition. And a number in the file that is out of range is replaced by the default
without a word, so the messages of `validate_config` about ranges
(`miner_config.cpp:406-423`) are never seen for a file: a `pool.port` of 70000 mines
at port 3333. A full disk leaves a torn health file without the warning "Failed to
write health snapshot" that a file which cannot be opened gets
(`miner_runtime.cpp:88-92`): the stream is not looked at after the writes, and
`FileTellsState` and `WritesEnd` have to except that case. And the escaping leaves
control characters other than `\n`, `\r` and `\t` as they are; this program's own parser
takes them, but a `node_id` that the configuration writes with `\b` or `\f` makes a
health file and log lines that strict JSON readers refuse (`EscapeSurvives` says that
this is the only exception). And `validate_config` has no upper bound for `threads`
(`miner_config.cpp:421`): with more than 2^31 of them, which no system starts, a worker
has a single nonce, and the threshold of finding 1 can end the search before the
answer, with no stop request; `NoAnswerIsLost` has `SharesOfTwo` as its condition.

## 5. Proofs

Each theorem holds for every value of the constants that the assumptions named in
the module allow, the bounds of the environment included: any number of jobs, lines,
requests, cycles, runs and failures.

### Search

`MineAssumption`: at least one worker, and no more workers than nonces (2^32), which
every setting of `threads` meets. One theorem, `NoAnswerIsLost`, needs more, and says
so: `SharesOfTwo`, two nonces for each worker.

`MineProofs` proves the invariant of the result. `TypeOK` and `SoundWinner` are not
inductive: that a worker in `publish` holds a winner needs `WorkerInv` (a worker
past the difficulty test holds a winner, one past the loop test a 32-bit nonce),
and that nobody is in `publish` once a result is there needs `FoundStops`. From
`ResultInv` follow `TypeCorrect`, `WinnerIsSound` and `FirstResultStays`.

The second half of the module proves what the result means. `SearchInv` adds

- `WorkInv`: a worker that is still searching, or left without a hit, is at
  `Nth(t, local_hashes[t])` and none of the nonces it tried wins (`Missed`); one
  that found a winner is at the last nonce it tried (`Hit`);
- `CountInv`: `total_hashes` is the cardinality of the nonces the ended workers
  tried, which needs that shares are disjoint (`NthInjective`);
- `StopInv`: `stop` has a cause (an answer, an abort, or the threshold), and a worker
  that left early did so for one of them. The step at line 268 is the delicate one: a
  worker that sees `stop` concludes something about its cause. If it was the threshold,
  the one nonce the counts may lack is the first of this worker and its whole share
  (`ExhaustedButOne`). With two nonces to a share that cannot be (`TwoMissing`); with
  one it can, and if that nonce wins it is the only winner (`LateWinner`);
- `MainInv`: the calling thread joins only after `stop`.

From it: `HashesAreExact`, `NoAnswerIsLost`, and `KeepsContract`, that `Mine`
implements `MineSpec!SpecSafety` under the mapping that shows a result once `main`
has returned. Its core is `EmptyIsAllowed`: an empty result means that no nonce
wins, or that the only winner is the last nonce of a share and a stop was requested or
a share has a single nonce. So the contract is kept for every number of threads that
the settings allow.

### Client

`ClientAssumption`. The types (`ClientTypeCorrect`, which the runs of `MinerRuntime` check as
a part of `RuntimeTypeOK`) come first. `AcceptedMeansCredited` is about a line that is read long after
it was written, so its invariant `ClientInv` is about everything that is in the two
streams: no id in them was given out that is not below `next_id` (`IdInv`), so the
id of the next request is in neither; and what carries the id of the pending request
belongs to it, a "true" for a submit only after the credit (`AnswerInv`). The step
that could break it is a line cut in two by `receive_line`'s second, whose rest can
only lose its result (`RestOfLine`). A connection ends with its streams (`LinkInv`),
which is why `next_id` may start again.

`JobsInOrder` needs the order of the lines and not only their set: the jobs in the
stream ascend, above the one returned last and up to the one announced last
(`Ordered`). The lemmas say that reading, cutting and appending keep that.

`AnyClientStep` is a call with any arguments, a step of `receive_line`, of the pool
or of the signal handler. The step lemmas are about it and not about `ClientNext`,
so that they can be cited for `MinerRuntime`, which makes the same calls from its
own positions (`RuntimeUsesClient`).

### Sessions and reconnect loop

`RuntimeAssumption`. `RuntimeTypeCorrect` first; each invariant after it is
inductive together with the types.

- `CountersAgree` needs only that a job that is being mined has been counted and not
  yet been found (`CountInv`).
- `LimitsAndExitCode` is about the end; `LimitInv` says why every position before it
  leads there: a job is waited for only with cycles left, a session is begun only
  below the cap, and `final_rc` is zero until the loop is left. A reason to leave
  that is a stop request must last (`StopStays`).
- `HealthCurrent` holds because every change of the two counters it names writes a
  snapshot in the same step (`HealthInv`); `WrittenIsCurrent` says what that leaves.
- `SharesReconcile` relates the miner's counts to the pool's. `FlightInv`: at most
  one submit is on its way to the pool, it is the pending one, and it has not been
  credited; a session that failed left none behind, as its stream is gone.
  `BalanceInv` counts the credit whose answer is awaited. `AnswerKeepsShares` needs
  `ClientInv`: a "true" that is read now was written for this share.
- From the same invariant, `ImplementsLedger`: `LedgerStep` takes the steps one by
  one, each an `Offer`, `Credit`, `Settle` or `GiveUp` of `ShareLedger` or a step
  that changes nothing it shows.
- `ReadyIsEarned` follows from `BalanceInv` (a part of the same invariant) and the
  rule of `compute_readiness_status`.
- `BackoffSchedule` is about a power of two, and needs 2^(n + 1) = 2 * 2^n
  (`PowerDoubles` of `NaturalLemmas`). `ScheduleDoubles` lifts that through the cap: doubling a
  capped wait and capping it again is capping the doubled one.

### Local run

`LocalRun` has the miner's actions and another pool. `ReplyKeepsClientInv` says what
a pool has to do to keep `ClientInv` (answer with the id of the request, say "true"
to a submit only when crediting it), and the fake pool does; so the invariants
of the miner hold here too (`BaseInv`). `NeverStale` then follows from `JobInv`: the
stream holds no job but the one announced last, and none at all once it was taken,
as the pool announces the next only when it answers a submit. `OneSession` says that the
miner recovers from a pool that is not there yet and from no other failure. It needs
`FailedEarly`: as long as the pool has not been started, the failures are those of
`unserved`, but for one that is about to be counted (`Uncounted`); and `ConnectionInv`:
a session that fails after that leaves the pool at the end of the stream or gone, and a
later connection is never answered.

### Health file

`HealthAssumption`. `HealthInv` is one invariant, as its parts need each other:
what is being written was true when it was taken (`WriterInv`); while it is written
the file holds its first pieces, and otherwise what the last stream left
(`FileInv`); nothing in the file is earlier than what a reader has seen, or later than
now (`SeenInv`). Dates are ordered by run and then by count (`NotLater`), so that the
order goes through crashes and restarts. From it: `TornFilesAreInterrupted`,
`FileAlwaysTellsState` and `ReadersSeeTimeAdvance`.

### Start

`ConfigAssumption`, `TextsAssumption` (the texts of the code are texts),
`StartupAssumption` and `SurroundingsAssumption` (a file holds what the JSON parser
returns, a command line is made of the options and their words, and the environment
of texts). `TypeInv` adds to the types that the difficulty is below 256 at every
position before the exit, since `--bits` stores a number before it looks at its range and
nothing looks at it later, and gives `StartedIsRunnable`: the settings satisfy
`ClientAssumption`, `RuntimeAssumption` and `MineAssumption`, though not `SharesOfTwo`,
for which `validate_config` would need an upper bound of the threads.

`EffectiveSettings` is about the whole command line, `SettingsInv` about the part of
it that was read. `LastIn` is the last place of an option before a position; one more
argument is the last of its option and changes no other (`LastOfMore`). `SaysConfig`
and `SaysOption` are the two cases of the loop: after `--config` every setting is the
file's and the options before it are void; after another option its setting is its word
and the others stay. `FirstPlaceSpeaks` and `LoadMeans` tie `load_config`'s order of
places to the meaning of a file. `SettingsAreEffective` has one condition,
`NoNumberWraps`: no number on the command line is below `UIntMax - ULongMax`, for
otherwise the theorem is false (section 4). The run meets it with `--threads -1`.

### Numbers and induction

`NaturalLemmas` has what the other modules share. The library's induction theorems take
a predicate as a parameter, which the provers cannot instantiate; `SetInduction` and
`BoundedInduction` take a *set* instead, so that a proof applies them to the set of the
numbers it is about. They rest on a least element, which the library has as a minimal
element of a well-founded order (`WFMin`). `PrimitiveRecursion` says that a
function defined by its first value and its next one exists and is the only one; with it
a proof exhibits what a recursive function of the model is before it says what it
computes. Powers of two come from cardinalities: a set of n elements has 2^n subsets
(`FS_SUBSET`), and those of a set with one more element are counted twice
(`PowerDoubles`). `DivideTwice` and `ShiftTwice` are what shifts do one after the other.

### Pure functions

`FunctionsAssumption`: hashes and messages are sequences of bytes, a nonce has 32 bits,
and a message less than 2^61 bytes, as a longer one has no bit length of 64 bits.
`FunctionProofs` holds for every such input what the run `functions` samples.

- `DifficultyIsCounted`: `meets_difficulty` asks whole bytes to be zero and the next to
  be below a power of two, the property asks for leading zero bits. The two agree because
  the bits of a byte below 2^k are those of its remainder (`CountingIsRight`).
- `FormsAgree`: the hexadecimal form of a hash is read back as that hash
  (`PrintingIsFaithful`), and the digits submitted for a nonce, read as a number from the
  highest on, are the number whose four bytes were hashed from the lowest on
  (`SubmittingIsFaithful`).
- `EveryPaddingStandard`: the padded message is the message, the marker, the least number
  of zeros, and eight bytes that say its length in bits; `ByteOfIs` and `DivideTwice`
  take that length apart.
- `EveryTextSurvives`: `parse_string` of an escaped text gives the text back and stops
  behind its quote, whatever follows. By `BoundedInduction` over how many symbols were
  escaped: after each of them the loop is back in the text and has written just those
  symbols. And no control character is in the escaped text but the `\b` and `\f` that
  were in the text (`RawControls`).
- `BuffersHold`: `ShaTypeOK` is inductive. That a whole block is left where one is
  loaded follows from the padded length being a multiple of 64; that no round reads
  beyond the schedule, from the order of the stages.
- `PlusIsAddition`: `Plus`, which `Sha256` defines on sets of bit positions by carries, is
  addition modulo 2^32 of the numbers they stand for. One position is a `FullAdder`;
  the induction over positions carries the carry.

### Only model-checked

- What needs fairness: `Termination` and the fairness part of the contract,
  `CallsReturn`, `StopEndsRun`, `LocalRunCompletes`, `PoolEnds`, `WritesEnd`.
- `ParserAccepts`, `ParserReads`, `TruncatedRefused`: `members`, `parse_value` and the
  grammar call each other and are recursive operators, which the provers cannot expand.
  Only `parse_string` is a recursive function, and proved about.
- `KnownDigests`: a computation on five messages, of which TLC is the better judge.
- The findings, which are counterexamples.

## 6. Plan

Done: every component of section 1 except the tests and the build, with every safety
property and action property of the runs proved except those that section 5 leaves to TLC,
and both refinements. What could follow is the parser of `JsonText` as recursive functions on the
length of the text, for a proof that its acceptance of an object ends with the brace that
closes it (`TruncatedRefused`).

## 7. Not modelled, and why

Of the logger only the escaping is modelled: redaction is two regular expressions
on text, and its mutex is never contended, since the thread of the session is the only
one that logs. The regular expressions of the client are abstracted to the fields they
extract, and job ids to numbers, so what becomes of an id with escapes (it is escaped
a second time) is not. `connect()` and name resolution, which may block for as long
as the operating system likes, are one step. A start of the fake pool that fails, for
a port in use, and a second start of it are left out. `BackoffSchedule` takes maxima
whose double fits 32 bits; the wrap of larger ones is listed as a hazard without a
property. Rates and durations come from the clock. Messages of 2^61
bytes or more, whose bit count does not fit its 64 bits, are excluded by assumption. Windows-only branches mirror the POSIX ones. Tests, CI, CMake scripts
and documents hold no state of the program.

## 8. Running

    tlc -workers 2 -config MCMine.cfg MCMine.tla
    tlc -workers 2 -config StratumClient.cfg StratumClient.tla
    tlc -workers 2 -config MCMinerRuntime.cfg MCMinerRuntime.tla
    tlc -workers 2 -config LocalRun.cfg MCLocalRun.tla
    tlc -workers 2 -config MCStartup.cfg MCStartup.tla
    tlc -workers 2 -config HealthFile.cfg HealthFile.tla
    tlc -workers 2 -config MCFunctions.cfg MCFunctions.tla
    tlapm MineProofs.tla
    tlapm StratumClientProofs.tla
    tlapm MinerRuntimeProofs.tla
    tlapm LocalRunProofs.tla
    tlapm HealthFileProofs.tla
    tlapm StartupProofs.tla
    tlapm NaturalLemmas.tla
    tlapm FunctionProofs.tla
