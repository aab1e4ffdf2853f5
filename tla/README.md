# A TLA+ model of lite-xmr

lite-xmr is a Monero miner in Rust. Mining threads hash nonces of a job with
RandomX; a tokio runtime runs a controller and either a client of a mining pool
(Stratum over TCP or TLS) or a poller of a local monerod (solo mining over
JSON-RPC). This directory holds TLA+ models of the parts in which order,
failure or arithmetic matter, the TLC configurations that check them on small
instances, and TLAPS proofs of what matters most for all instances.

Paths of the form `miner.rs:82` are below `src/src/`; README.md and
CHANGELOG.md are those of the repository.

1. [The system](#1-the-system)
2. [Modules and how they correspond to the code](#2-modules-and-how-they-correspond-to-the-code)
3. [Runs](#3-runs)
4. [Fairness and what is assumed of the environment](#4-fairness-and-what-is-assumed-of-the-environment)
5. [What is proved](#5-what-is-proved)
6. [Disagreements found](#6-disagreements-found)
7. [What is only model-checked, and what is not modelled](#7-what-is-only-model-checked-and-what-is-not-modelled)
8. [Plan](#8-plan)

## 1. The system

### Components

| component | state | operations | what makes it correct |
|---|---|---|---|
| Dataset cache, `RxDatasetCache` in `miner.rs` | one slot behind a mutex and a condition variable: Empty, Building(key), Ready(key, dataset), Failed(key) | `get_or_build`; `create_randomx_vm` over it | a VM hashes with the dataset of its seed; whoever sleeps on the condition variable is woken; a Building slot is never abandoned |
| Mining threads, `worker_loop_sync`, `mine_one_batch` in `miner.rs` | per thread: current job, VM and the seed it is for, nonce cursor | take the latest job, create a VM, hash a batch in pipelines, offer shares | no nonce hashed twice while a job stays, none skipped but a tail, the byte of a proxy kept, the dataset that of the job; a new job is taken up |
| Target and difficulty, `decode_target` in `job.rs`, `check_hash_difficulty` in `miner.rs` | none | target to difficulty, difficulty to bound | no share is thrown away, none submitted in vain |
| Job parsing, the three constructors of `Job` in `job.rs` | none | an object, an array or a daemon's template to a `Job` | target, nonce field and mask agree with the message; a job that is announced can be hashed |
| Controller, `Controller::run` in `controller.rs` | logged in or not, counters, five channels | the select loop: Ctrl+C, client events, mined shares, status line | stops on Ctrl+C; counts each answer once; knows whether it is logged in |
| Stratum client, `stratum/client.rs` | connection, login profile, queue ends | connect, login, session, back-off; `handle_msg` | reconnects; submits each share at most once and in order; events in order |
| Daemon solo mining, `Controller::run_daemon_rpc`, `daemon_rpc.rs` | templates by job id, last job id, counters | poll the daemon, publish jobs, submit blocks | the block is made from the template that was hashed; each candidate counted once; Ctrl+C |
| Statistics, `stats.rs` | atomic counters; a sample behind a mutex | `record_hashes`, `snapshot` | the rate is not nonsense, whatever the order of the threads |
| Benchmark, `run_benchmark` in `miner.rs`, `app/benchmark.rs` | two flags, two counters, the best point of a sweep | build a dataset, start, measure, join, report; with one to all threads in turn | all start together, all hashes are in the result, no dataset outlives its run, the best point is the best, it ends |
| Transport, `stratum/transport.rs` | a stream | TCP, SOCKS5, rustls, OpenSSL as fallback, certificate fingerprint | proxy, TLS version and fingerprint hold on both TLS paths |
| Configuration, `config.rs` | the parsed options | merge file and command line, choose the pool | the pool chosen is one the user enabled; URL, TLS and fingerprint belong together |
| CPU topology, `cpu.rs` | none | which PUs the threads are pinned to, and how many there are | at least one thread, no two on a core, every P-core used |
| DNS over HTTPS, `doh.rs` | none | choose servers, ask them, parse their answers, test the addresses | the parser finds what the answer says and stays inside it; start-up goes on without it; TLS keeps the name of the host |
| RandomX binding, `randomx/mod.rs`, `native_bridge.rs` | handles into the C++ library | allocate, fill a dataset in parallel, release, hash | every item of a dataset initialised once; no handle used after it is released |
| Algorithm names, `algorithms.rs` | tables | lookup | its lists agree with the native bridge's |
| Start-up, `main.rs`, `app/`, `taskbar.rs`, `error.rs` | none of interest | parse, log, fork, run | |

### How they interact

```
            job (watch)                       job (watch)
  client ------------------> threads <------------------------ job task (solo)
    ^  |                       |  |                                |
    |  | events (mpsc 256)     |  +-- dataset cache (mutex, condvar)| templates
    |  v        mined shares   |                                   v (mutex)
  controller <-----------------+-----------------------------> select loop (solo)
    |       (mpsc 256, try_send)                                   |
    +--- shares (mpsc 256) --> client --> pool                     +--> monerod
```

Mining threads are operating-system threads. Client, controller, job task and
signal handler are tokio tasks. Jobs go through a watch channel, which keeps
only the latest; the threads offer shares with `try_send`, which drops what finds
the queue full; the tasks use `send().await`, which waits for room.

### What is hard

* Threads enter the dataset cache for different seeds at once: one overwrites
  the Building slot of another while a third sleeps on it, a build may fail,
  wake-ups may have no cause.
* A job is taken, and used minutes later when its dataset is there.
* The same job is announced again and again, a different job may come under an
  id in use, and the nonce space is shared without coordination, wraps at 2^32
  and is cut at 2^24 behind a proxy.
* Two tasks fill each other's bounded queues; connections break in the middle
  of a submit; the program is stopped at any point; a pool may stay silent for
  ever, since reads have no timeout.
* In solo mode the templates a candidate may need are replaced while it is
  under way.
* Threads overtake each other between a counter, a clock and a mutex.
* The target is rounded to a difficulty and the difficulty to a bound.
* Client, workers and the C++ bridge each have a list of algorithm names and an idea of an
  empty seed of their own.
* The items of a dataset are divided among the threads of a pool, rounding up, and written
  through raw handles which `Drop` and `Arc` must not release too early or too late.
* When rustls fails everything is done again with OpenSSL, by code of its own, the
  proxy's reply included, whose length depends on its type.
* Before the first connection come some twenty requests to servers that may be silent
  or send anything, and the URL is replaced by an address after TLS and the server
  name have been derived from it.

`PROJECT.json` lists each of these under "hazards" with its line and the
properties that cover it.

## 2. Modules and how they correspond to the code

| module | models | extends |
|---|---|---|
| `DatasetCache` | `RxDatasetCache`, `create_randomx_vm` | |
| `DatasetCacheProofs` | | `DatasetCache` |
| `Miner` | `worker_loop_sync`, `mine_one_batch`, nonce functions of `job.rs` | `DatasetCache` |
| `NonceHistory` | an observer of `Miner`: which nonces are hashed | `Miner` |
| `MinerProofs` | | `NonceHistory`, `DatasetCacheProofs` |
| `Settings` | the part of `Config` that is read at run time | |
| `Channels` | the queues between threads, controller and client | `Settings` |
| `Controller` | `Controller::run` | `Channels` |
| `Transport` | `StratumTransport::connect` | `Settings` |
| `StratumClient` | `StratumClient::run` and all it calls | `Channels`, `Transport` |
| `Pipeline` | the three together | `Controller`, `StratumClient` |
| `ShareDelivery` | abstract: what the path of a share promises | |
| `PipelineProofs` | | `Pipeline` |
| `DaemonSolo`, `DaemonSoloProofs` | `run_daemon_rpc`, `DaemonRpcClient` | |
| `Stats`, `StatsProofs` | `MiningStats::record_hashes` | |
| `RandomX` | `Dataset::new`, `Dataset` and `Vm` as handles | |
| `Benchmark`, `BenchmarkProofs` | `run_benchmark`, the sweep of `app/benchmark.rs` | `RandomX` |
| `JobParsing` | the constructors of `Job`, `algorithms.rs`, `lx_randomx_apply_config` | |
| `ShareTarget`, `ShareTargetProofs` | from a message to a submitted hash: `decode_target`, `check_hash_difficulty` | `JobParsing` |
| `ThreadPlan` | `build_thread_plan`, `resolve_threads` and their use in `Controller::run` | |
| `PoolChoice` | `Config::load` | `ThreadPlan` |
| `DnsAnswer` | `parse_dns_response` | |
| `Startup`, `StartupProofs` | from `app::run` to the first connection, `doh::resolve` | `PoolChoice`, `DnsAnswer` |

The `MC*` modules give the constants values. Variables carry the names of the
code where it has one; those marked "history" in their comments, and those of `NonceHistory`, are not in the code and
influence nothing.

**DatasetCache.** `slot` is the `DatasetState` with its key and dataset; `pc[w]`
tells where a thread stands in `get_or_build`; `cur`, `vm`, `want` and `held` are the
thread's current key, the dataset its VM was made of, the key it asks for and the `Arc`
it was given. One action per stay in the critical section: `Hit`,
`Refuse`, `Sleep` and `Claim` are the arms of the match, `BuildOk` and
`BuildFail` the second critical section with its `notify_all`, `VmOk` and
`VmFail` the return from `create_randomx_vm`. `SpuriousWake` is what a condition
variable may do at any time. A key stands for a pair of seed and algorithm.

**Miner.** Adds the loop around it. `LookAtLatest` is `borrow_and_update` with
the comparison of ids; `Park`, `StartVm` and `StartBatch` are its three
continuations. `MinePipeline` hashes a full pipeline and tries to send what
meets the difficulty, `MineOut` is the early return at the end of the nonce
space. Nonces are numbers below `LoSize * HiSize`, which stands for 2^24 * 2^8,
and `Advance` wraps as `wrapping_add` does. `proxied` in a job is a fact about
the world; the code guesses it from the nonce field (`Nicehash`). Whether a hash
meets the difficulty is left open. The stratum client and the controller are
reduced to `Publish`, `Close` and `TakeShare`.

**NonceHistory.** Each step of `Miner` together with what an observer writes down of it: `tried`,
the nonces each thread has hashed for each job since the start, `stay`, those hashed since
the thread last exchanged its job, and `lapped`, the jobs for which its cursor has passed 2^32.
`Observe` looks at the jobs, at the cursor a pipeline starts from and at what is left of a batch, but not at
where a cursor starts again; a cursor that were reset while the job stays the same would show as nonces hashed twice.
When jobs go A, B, A, the code does search A from the start again, since it compares a job
only with the current one (`miner.rs:236`): those nonces are in `tried` but not in `stay`,
and are the exception `NoRescan` names.

**Channels, Controller, StratumClient, Pipeline.** Each bounded queue is a
sequence; shares are numbered in the order in which they are found. The controller
stands at `select` or inside `submit_tx.send().await`, where it does nothing
else. The events a client is waiting to send are its `outbox`: while it is
not empty the client neither reads nor submits, which is what the `await`s in
`handle_msg` and `run` amount to. `Breaks` is every error that leaves a
session: the next of the three login profiles at once, or a Disconnected event and five
seconds of waiting. `PoolCloses` is the end of the stream, which the code does not treat
as an error: the client task ends, and no Disconnected event is sent.
`StratumClient::stop` exists but is never called, so the session loops'
shutdown branch is not an action. `Find` counts shares; which hashes they are is
`Miner`'s matter. The status line the controller prints every so
often changes no state and is left out.

**Transport.** `link` is the connection: the stage it is in, the library in use, and what
it has become (proxied or not, certificate, TLS version, bytes of the proxy's reply not
read). Its steps are taken while the client stands at "connect" (`Connecting`). Any
error of the rustls handshake leads to `RustlsFails`; any other error leaves `connect` and is
the client's `Break`. The two libraries have an operator each for what they accept,
as they have code each. A fingerprint is represented by the certificate that has it;
`BadPin` is a fingerprint that is no SHA-256 digest, which makes both libraries fail.

**ShareDelivery** is a queue that may lose shares but keeps their order and
never doubles one. `Pipeline` implements it with the submit queue, the share in the
controller's hands and the mined queue laid end to end.

**DaemonSolo.** Job task, threads and select loop run in parallel. Storing a
template and publishing its job are two steps, as in the code. A candidate is
represented by the template it was found for, `block` by the template the code looks up
for it under the id; `Twin` in the MC module comes under an id in use. Whether
the daemon answers is the environment variable `current`.

**Stats.** One action each for `fetch_add`, reading the clock and the critical section,
which is where threads can overtake each other. Differences are modulo
`Width`, as u64.

**RandomX.** `cache` and `dataset` are the two native handles, `refs` is the strong count
of the `Arc<Dataset>`. A thread of rayon's pool takes a range of items in two steps,
`BeginRange` and `EndRange`, so that ranges overlap in time as the calls of
`randomx_init_dataset` do; `DatasetDone` is the return of `for_each` with the release of the
cache after it; `DropArc` is one owner going, the last of which releases the dataset. The
number of items and of threads is `size`, chosen at the start and kept.

**Benchmark.** The main thread builds a dataset, and spawns workers with an `Arc` each. Flags,
counters and both loops follow, one action per visible step; `EndWorker` and `VmFailed` drop
the worker's `Arc`, `Report` the main thread's. In a sweep `NextRun` starts over with one thread
more; `rates` (history) keeps what was measured and `best`, `bestT` are what the code
keeps of it. `AllocFails` is the error that ends the program.

**JobParsing, ShareTarget.** A message is an object with fields by name, an array with fields
by position (`from_notify`), or a daemon's template. A field is `Missing` (absent or not a
string), `NotHex`, or stands for its bytes. `PoolJob` and `TemplateJob` are the constructors,
`JobOf` adds the client's test of the algorithm, `SeedBytes` is what a worker makes
of the seed and `CanBuild` what the native bridge then accepts. `ShareTarget` takes one message through parsing,
the creation of a VM and one hash. Arithmetic is with bytes of `ByteBase` values and targets of two
and four bytes in place of four and eight, so that all targets and hashes can be
enumerated while the formulas keep the shape of the code's: `Max div target`,
then `Max div difficulty`.

**ThreadPlan, PoolChoice.** Operators with the arguments of the functions they model.
Machines, files and command lines are records; `Absent` is None and `Blank` an empty
string. A URL is a scheme, a host and a port that may be missing or no number. Options
that go unchanged from the file to the login or the log are left out.

The two lists of PUs are sets, `Sorted` puts one in order.

**DnsAnswer.** The parser works on packets of bytes as the code does: `SkipName` is a recursive
function of the position, `Questions` and `Records` give the state of the two loops after each
turn, where `Left` is a position that stands for a loop left by `return` or `break`. `IsMessage`
says what a message is (names in any encoding that the parser tells apart, any numbers of
questions and records, a header that may announce another number), `Encode` writes it
down, `Says` defines what a beginning of it still contains; the parser has to agree with it.

**Startup.** `phase` runs from "load" to "ready" (the client connects, or the solo
tasks start) or "failed" (no URL). The choice of servers and addresses by latency
is left open: any of them may be the fastest. The times of the plain DNS resolvers
(`doh.rs:182-203`) are measured and logged, but not used, and have no action.

## 3. Runs

Twelve runs; the nine below must pass, three more must be violated
(section 6). Every property has a mutant of the code in `PROJECT.json` that TLC must find.
The type invariants are proved for all instances (section 5); a run checks one only
where it says more than types: the bound of a queue (`Miner`), the number of threads (`Startup`).

| run | instance | shows |
|---|---|---|
| `dataset_cache` | 3 threads, 3 keys | no lost wake-up, no abandoned slot, right dataset |
| `miner_nonces` | 2 threads, nonces of 7 x 2, batches of 4, pipelines of 2, a pool's and a proxy's job | no two threads hash the same nonce of a job, whenever they have it; one thread does so again only after leaving the job and coming back; only a tail skipped, reserved byte kept |
| `miner_seeds` | 2 threads, jobs of 2 seeds, two of them with one id, the third from a proxy and soon used up | right dataset; every thread follows the latest job |
| `pipeline` | queues of 1, 2 and 1, 3 shares; mining over plain TCP, and in keepalive mode every combination of TLS, TLS 1.2, fingerprint and proxy | refinement of `ShareDelivery`, tallies, the controller's belief about the login, Ctrl+C and reconnection up to two named exceptions; every session over the connection that was configured |
| `daemon_solo` | 1 thread, 3 templates, 2 candidates | template on file, right block, each counted once, Ctrl+C, the daemon is followed |
| `stats` | 2 threads, total 5, 3 seconds | no wrap-around, samples only advance |
| `benchmark` | single runs and sweeps with up to 3 threads, one batch each; datasets of 3 to 7 items, 0 to 9 threads to fill them, at most 5 used | each item initialised once, handles live while used and released at the end, common start, complete result, best point, it ends |
| `share_target` | bytes of 2 bits: all targets, all difficulties of a daemon and all 256 hashes; every combination of missing, unusable and unusual fields in the three forms of a job | rounding loses no share and submits none in vain; an announced job can be hashed |
| `startup` | some 3850 inputs: pool lists, names, machines and thread settings; 5 messages of a DoH server, cut at every byte | enabled pool used, threads spread over the cores, server name kept, parser agrees with its definition, start-up goes on |

Why the bounds are enough. *Cache:* the hazard takes a builder, a sleeper and an
intruder with another key; a fourth thread or key plays one of these parts again, and
the proofs cover all numbers. Threads and keys are symmetric, and that run has only invariants.
*Nonces:* 7 is odd, so that the two threads reach the end of what a proxy
leaves them in different places, one of them in the middle of a pipeline, and
14 is small enough for the cursors of the pool's job to wrap; both happen
within a few batches. *Pipeline:* queues of one or two entries
are full after a few steps; three shares let one be lost, one be in flight and
one be delivered, in every order. Two answers can be in the queues at once.
Sessions with shares and sessions with TLS and proxy share the client's code for
connecting and breaking, and what differs does not look at the connection; so mining runs
with the plainest connection, and the many connections run without shares. Replies of the
proxy have names of up to two bytes, and both other types. *Solo:* an id used twice, a template
too short for a nonce, and a candidate that outlives its job all occur; the safety
properties are also proved for any number of threads. *Stats:* overtaking takes two threads.
*Benchmark:* one worker hashes or fails while two others still start; one
batch each is enough for a batch to be under way when the time is up. The items divide
among the threads with a last range that is shorter, one that is empty, and one that
would begin behind the end. A second run of a sweep begins with whatever the first has left.
*Start-up:* the three families of inputs vary one function each, since those do not look at
each other's part. Two places with up to three pools, enabled or not; machines with and
without SMT, hybrid, with an offline core, without cores and without hwloc; messages with
names in every encoding, aliases, data of a wrong length and wrong counts.

`CHECK_DEADLOCK FALSE` is set where the program stops by itself: threads exit
when the watch channel closes, the controller stops on Ctrl+C, the benchmark
ends or waits for a worker that failed, bounded counters run out, a target's check is done, start-up is over. `dataset_cache` and
`daemon_solo` check for deadlock; in the latter the daemon always has a step, so that it
is the two liveness properties that show the program goes on.

## 4. Fairness and what is assumed of the environment

* Mining and benchmark threads: weak fairness of each thread. They are
  operating-system threads, and a dataset build or a batch ends. Spurious wake-ups
  are not fair: nothing may depend on one.
* tokio tasks: weak fairness of a step at which a task can go on. A branch of
  `tokio::select!` has strong fairness: `select!` polls its branches
  in random order, so that a branch which is ready again and again is taken in the end.
* Writes to a socket end, with or without an error (`SubmitBranch` is fair). Reads need
  not: the code sets no timeouts, so connecting, logging in, jobs and answers
  have no fairness at all, and no liveness property depends on them.
* The JSON-RPC of the daemon ends within 15 seconds (`timeout_global`,
  `daemon_rpc.rs:92`), so `JobTask` and `SubmitAnswered` are fair whatever the daemon does.
* The pool answers only shares submitted on the same connection and each at most once.
  `AnswersTally` rests on that: the client does not look at the id of an answer
  (`client.rs:465`), so a pool that answers twice is counted twice.
* Start-up goes on (weak fairness of `Next`): the waits of `doh.rs` have timeouts of two
  seconds (UDP), five (HTTPS, end to end) and three (TCP).
* The peer of the transport may show any certificate, speak any version and fail at any
  stage, differently on each connection; the SOCKS5 proxy keeps to the format of its reply.
* The queues are first in, first out, as tokio's mpsc channels are.

## 5. What is proved

All by TLAPS, for every value of the constants that satisfies the named assumption of the
module. No step is left unproved.

**`DatasetCacheProofs`** (no assumption but that `NoKey` is no key).
`CacheInv` is the inductive invariant: types; a sleeper has a builder for its
key; a Building slot has a builder for its key; a Ready slot holds
the dataset of its key, and so does the `Arc` a thread has in hand; a VM is of the
thread's current key. The two statements about builders are needed together: a
thread goes to sleep because of the slot, but the slot may be overwritten while it
sleeps, so that "asleep implies Building" is not invariant; what stays true is
that somebody still *builds* the key. From it `CacheTypeCorrect`, `NoLostWakeup`,
`NoAbandonedBuild`, `NoForeignDataset`.

**`PipelineProofs`** (`ChannelsAssumption`, `SettingsAssumption`, `TransportAssumption`:
capacities, configurations and lengths of names are what they have to be). Three
invariants that need nothing of each other but the types:

* `LinkInv` follows the connection through its stages: the proxy has been used exactly if it is
  configured once the connection is past it; a version is agreed on only in a handshake and only one of those offered; a
  certificate that does not fit the fingerprint ends the attempt in both libraries; and nothing of the
  proxy's reply is left unread. Hence `FingerprintHolds` and `SessionsAsConfigured`.
* `PathInv`: types and capacities; `EachInOnePlace`, the shares sent and under way
  are no more than were found, which is what bounds the counters; `AnswersTally`; a closed
  submit queue is empty. Hence `PipelineTypeCorrect`, `AnswersCountedOnce`, and with `Path`, the
  three places laid end to end, `PathDelivers`: each step is one of `ShareDelivery`
  or leaves its variables alone. The tally counts events of a kind in a queue, so that
  lemmas say what appending and taking an event do to that count.
  What the abstract specification promises is then carried over to the program as `SharesInOrder`:
  `InOrder` orders the shares sent and those still on the path, and each step of
  `ShareDelivery` keeps it.
* `LoginInv` speaks of `Told`, what the controller *will* believe when it has read all that
  is queued or waiting: neither `loggedIn` nor the last event alone is related to the client's
  position while events are under way. Hence `LoginFollowed`.

**`MinerProofs`** (`MinerAssumption`: threads numbered from 0, at least one, no
more than `LoSize`). `LoopInv` adds to `CacheInv` that a thread inside
`create_randomx_vm` asks for the key of its current job: this is what makes it safe to
go on to a batch without looking at the watch channel again
(`HashesForItsSeed`). `MinerInv` adds the bounds of cursors and queue (`MinerTypeCorrect`).
The other theorems are of `HistorySpec`. To one thread a step is one of four things
(`StepOfThread`): the cursor stays, a batch is cut short, the job is exchanged, or a pipeline is hashed.
`HistoryInv` says that, before the cursor passes 2^32 for a job, it is `w + k * ThreadCount`
(`CursorInv`); that each nonce ever tried for a job is the merge of such a number (`TriedInv`), and
each one of the present stay with a job that of a number behind the cursor (`StayInv`). `TriedInv` must not speak of the
cursor: when a thread comes back to a job, what it has tried lies ahead of it. `NoncesDisjoint` follows
with a lemma on residues and one on the injectivity of `Merge` below the mask;
`NoNonceTwice`, because the numbers of the next pipeline do not lie behind the cursor
(`PipelineIsNew`). `ReservedByteKept` needs `ReservedNonZero`, an assumption stated
in the theorem: the run `miner_zero_byte` shows that it cannot be left out.
`TailInv` is the converse of `StayInv`: where the mask ends the search before 2^32 the cursor cannot wrap
(`NoWrap`, by the smallest place at which it would), and everything on the thread's track up to
less than a pipeline before the cursor has been tried. For `OnlyTailsSkipped` each missing nonce
is given a thread and a place in a pipeline, no two the same (`MissingPlaces`).

**`DaemonSoloProofs`.** `Traceable`: every template in use (published, hashed,
queued, being submitted) is on file under its id, and what is on file is that
template unless the id is in `reused`. From it `TemplatesStayOnFile` and
`RightBlockSubmitted`. `Tallied` gives `CandidatesCountedOnce`, and with the bounds of the queues
(`SoloInv`) `SoloTypeCorrect`.

**`StatsProofs`** (`MaxTotal < Width`: fewer than 2^64 hashes).
`NoReadingAhead`: types, and neither the sample nor the rate exceeds the
counter. From it `StatsTypeCorrect`, `RateNeverWraps` and `SamplesNeverRunBack`, an action property.

**`BenchmarkProofs`** (`RandomXAssumption`, `BenchmarkAssumption`). `RangesPartition` is the
arithmetic of the rounded-up division: for any number of items and threads the
ranges cover the dataset and do not overlap. `BenchInv` consists of types, `HandlesInv` (which
handles are live at which point) and `WorkersInv`, which counts: `ready` is the number of workers that have passed
their VM, and `refs` is the number of owners of the `Arc`, the main thread included. That a
counter is the cardinality of a set is what lets one worker's step be followed through both.
From it `BenchTypeCorrect`, `DatasetComplete`, `NoHandleAfterRelease`,
`MemoryFreed`, `StartsTogether`. `CountInv` treats `total` in the same way: it is the number of
the pairs of a worker and a batch it has hashed, so that a sum over the workers is the
cardinality of a set, to which a step adds one element (`OneBatchMore`). The result is that number,
`NoBatchLost`, since by `BenchInv` no batch ends once the main thread has joined. `BestInv` says what `best` and `bestT` are of `rates`:
`SweepReportsBest`.

**`ShareTargetProofs`** (`JobAssumption`: a byte has at least two values;
`MessagesAssumption`: what a target and a difficulty can be). `Checked` ties the
difficulty to the message and the outcome to the hash; the arithmetic is in
`RoundingKeeps`, rounding down `Max div target` and then `Max div` the result can only
raise the bound, and in `MeetsIsWork` and `DividedBack`, which say that it is not raised above
the work asked for. `NoGoodShareLost`, `NothingInVain`, `TargetTypeCorrect`; and
`NoJobWithoutDataset`, by cases over the lists of names.

**`StartupProofs`** (`StartupAssumption`: a URL has a host, the pools of a file are a sequence,
numbers of threads are natural numbers, and a machine has PUs, finitely many, each in at
most one core; `MessagesAssumption`: a DoH server answers with DNS messages; `AbsentAssumption`:
None is neither a configuration nor a URL).

* `NameInv` follows the URL and the SNI from `Load` to the client: `ServerNameKept`.
* `PlanInv` says that the configuration is what `Load` makes of the input, and the workers what the
  plan makes of the configuration (`PlanInvariant`, a lemma that only carries the two assignments along), so that what remains is about operators.
  `SelectedIs`: the pool taken is the first enabled one of the two places, hence
  `EnabledPoolChosen`. `SortedIs`: a finite set of numbers can be listed in order,
  each element once; `SplitIs`, `PlanIs`, `PlannedIs`: from each core one PU is taken, whichever
  way the topology was found; `Spread`, hence `CoresShared`.
* The parser. `SkipIs` says what `skip_name` does at a position, `NameSkipped` that a name is skipped to
  its end, or beyond the end of the packet if it is cut short. `QuestionTurn` and
  `RecordTurn` are one turn of each loop, `QuestionsParsed` and `RecordsParsed` all of them: as
  long as what was to be read has arrived the loop stands at the end of it, and then it
  is left. With `ParsedIs` follows `AnswersUnderstood`. `AnyBytesParsed` asks for no message
  at all: whatever the bytes, what is taken for an address lies within them.
* `ResolverInv` bounds queries and answers; with the others it gives `StartupTypes`.

A recursive function is a CHOOSE of a function that satisfies its equation, so that before
anything can be said of it there has to be such a function. The induction theorems of the library cannot be used
(they take an operator), so the function is put together from its beginnings (`Iterates`) or from the
end of the packet backwards (`LooksAhead`), and each induction is an argument about the smallest
counterexample (`SmallestOf`, from the well-foundedness of the natural numbers).

Of the temporal and action properties, `SamplesAdvance`, `NoRescan` and `SharesDelivered` are
proved; the other seven are liveness under fairness, which TLAPS cannot prove, nor ENABLED. They rest
on TLC. All invariants of the runs that must pass are proved. No module declares a RECURSIVE operator.

## 6. Disagreements found

Shown by a run that TLC violates:

* `miner_zero_byte`: CHANGELOG.md:36 says proxy-reserved nonce bytes are preserved. The miner
  to which a proxy gives byte 0 is not recognised (`job.rs:281` tests the nonce for
  zero), and its threads run through all 2^32 nonces.
* `miner_light_mode`: the log at `miner.rs:120` and CHANGELOG.md:45 announce a fallback
  to light mode when a dataset cannot be built. There is none: the thread is refused
  again and again for as long as the seed lasts.
* `ctrl_c`: "received Ctrl+C, shutting down..." (`controller.rs:420`), but the controller
  does not look while `submit_tx.send` (`controller.rs:248`) waits for room. A pool that is
  silent, or away while the client backs off, with threads that go on finding shares, makes
  it wait; if the pool stays silent, for ever.

Seen while modelling, without a run of their own:

* Controller and client can wait for each other: the one in `submit_tx.send`
  (`controller.rs:248`), the other in `event_tx.send` (`client.rs:136`), both queues full.
  Then the reconnection announced at `client.rs:135` never comes.
  `ReconnectsUnlessStuck` names this state (`WaitForEachOther`) as its only exception.
* README.md:130 says of `--keepalive` that the session is kept alive. When the pool closes
  the stream, in this mode and in the other, the client ends for good
  (`client.rs:130-133`, `PoolCloses`).
* The end of the stream in a session sends no Disconnected event, so the controller goes
  on believing it is logged in; so it does while the next login profile is tried after a session broke
  (`client.rs:176`). `LoginKnown` names these two as its only exceptions.
* Two of the three login profiles, Lite and XmrigCompat, send the same login
  (`client.rs:494-497`), so that the second attempt repeats the first.
* A login that is answered with an error object without a message is taken for a success
  (`get_json_error`, `client.rs:571-590`).
* A blob too short for a nonce is accepted and hashed as it is (`miner.rs:339`): every hash of
  such a job is the same, and if it meets the difficulty it is submitted again and again.
* A job that comes back after another one is searched from the start again (`miner.rs:236-238`), and a
  share found in the first search is found and submitted once more. `NoRescan` names this as its only
  exception before 2^32; a run of `miner_nonces` without the exception shows it after two exchanges.
* `Dataset::new` does not release the cache when the dataset cannot be allocated
  (`randomx/mod.rs:120-122`).
* The key of the dataset cache is the spelling of algorithm and seed (`miner.rs:66`): "randomx" and
  "rx/0", or a seed in capitals, make it build the same dataset again.
* A hash equal to the bound is not submitted (`miner.rs:474`), in solo mode too, where the daemon
  would take some of these.
* A job given as an array of three fields is refused (`job.rs:53`), as an object without
  "algo" it is accepted.
* README.md:390 speaks of roughly 2 GiB for the shared dataset. VMs hold the old
  dataset while the new one is built, and two keys can be under construction at
  once (`miner.rs:82`), so several datasets can be in memory.
* The comment at `job.rs:256` says the target is big-endian; the code (`from_le_bytes`) and
  its test (`job.rs:319`) say little-endian. The model follows the code.
* A benchmark worker whose VM cannot be created leaves the main thread waiting for ever
  (`miner.rs:436`); `EndsIfVmsCreated` excepts exactly this.
* After a reconnection, shares of a job of the old session are submitted in the new one.
* A template that comes under an id in use replaces the one being hashed, while the job is
  not sent again (`controller.rs:324`): `BlockOfItsCandidate` excepts exactly this. The map of
  templates is never pruned.
* README.md:168 says the first enabled pool is used. If none is enabled, the first disabled one
  is (`config.rs:572-573`); and with `--url`, the TLS, SNI and fingerprint of the file's pool
  are combined with the other pool's URL.
* `threads = 0` in the file means automatic (README.md:227), and then `max-threads-hint` in
  the next line has no effect (`config.rs:604`).
* On a hybrid CPU without SMT every core counts as a P-core (`cpu.rs:275-279`), so that
  `use_e_cores` (README.md:132) makes no difference.
* Without hwloc the threads are pinned to PUs 0, 1, ... one by one, two on a core
  (`cpu.rs:190-197`): `ThreadsSpread` speaks of machines with hwloc.
* With `--doh` and a SOCKS5 proxy the resolver itself, and its test of the pool's
  addresses, connect directly (`doh.rs:255`).
* An `https://` pool URL implies TLS (README.md:113) and also solo mining (`config.rs:706`),
  which then ignores proxy, fingerprint and resolver.
* The log line at `client.rs:342` cuts a message after 120 bytes, which panics inside a
  character and ends the client task.

## 7. What is only model-checked, and what is not modelled

Only model-checked: the seven liveness properties (`FollowsLatest`, `StopsUnlessQueueFull`,
`ReconnectsUnlessStuck`, `SoloStopsOnCtrlC`, `FollowsDaemon`, `EndsIfVmsCreated`, `ConnectsAnyway`).

Abstracted: hashes are arbitrary; text (JSON, hexadecimal, log lines) is not modelled, and
a message that cannot be parsed changes nothing; time is the order of events;
the pool's session id is not part of a share.

Not modelled, with the reason: reading arguments and files into records, and options
that only pass through (text); `filtered_algo_perf`, which decides what the login says of the hash rate; the second JSON
parser in the bridge, asked when serde has refused a line (a message can be parsed or not);
detection of caches and CPU features (only printed); the
vendored RandomX and rapidjson C++ (third-party); logging and taskbar (no
state that matters); the fork into the background after the runtime's threads exist
(`app/daemon.rs:4`), whose effect is up to the operating system.

## 8. Plan

Order of the work, most important first: dataset cache, mining threads and their
proofs; the share path with its abstract specification; solo mining; statistics,
benchmark and targets; transport; configuration, thread plan and resolver; proofs of the share
path, the benchmark and the targets; handles and job parsing; proofs of the start-up, with its
parser, and of the benchmark's count (all done). What could follow:

1. Sessions in the share path: jobs and shares that carry the session they belong to, and a pool
   that knows which jobs it has given to which.
2. More proofs: for each liveness property the safety half of its argument, such as the invariant
   that a task which waits always has somebody who will make room for it, up to the named
   exceptions; of the paths of candidates in solo mode, that they implement a channel like
   `ShareDelivery`.
3. `Startup` joined with `Pipeline`, so that the `Settings` of a run are those that
   `Load` makes.

The runs of new modules are merged with existing ones where they ask the same
question, so that each run keeps asking a question of its own.
