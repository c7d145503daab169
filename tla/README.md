# Ghost IT: a TLA+ verification project

Ghost IT is an endpoint detection and response system. Sensors on Linux (eBPF
programs and a Rust agent) and on Windows (an ETW service) send events over TCP
to a pipeline server (`pipeline/server_v2.py`), which gives them ids, keeps the
recent ones in memory, logs them, stores them as Parquet files and serves them
over HTTP. A detection engine polls that API, applies rules and posts
detections back; from there correlation, scoring and response begin.

This directory models the parts of it in which order, failure and concurrency
decide whether the system is right: the way of an event from the kernel of the
watched host through the agent to the disk and to the detection engine, and the
state machines of the Windows agent that a unit test can hardly reach. Everything is read from the code;
paths below are relative to `src/`.

    tlasany PipelineStore.tla                                  parse
    tlc -workers 2 -config MCPipelineStore.cfg MCPipelineStore  model-check
    tlapm PipelineStore_proofs.tla                             prove

Where to start: `PipelineStore` and its proofs are the core of the server side,
`ProcessHook` with `EventRings` is the example of a refinement, `KernelProbes` and
`KernelFeed` show what the Linux agent does before an event is anybody's.

`PROJECT.json` lists the runs, the lines each definition models (`map`), for
each property a mutation of the model that breaks it (`mutants`), the hazards
and the theorems.


## 1. Inventory

| Component | State | Operations | Interacts with | What is hard | Module |
|---|---|---|---|---|---|
| Pipeline: event store | `hot_buffer.wal`, `_flush_pending`, the Parquet tree | `insert_batch` (durable half), `wal_append`, `force_flush`, `flush_to_parquet`, `wal_trim_to`, `wal_recover` | connection threads, timer, `POST /admin/flush`, `main` | two flushers, deaths between two writes, swallowed I/O errors | `PipelineStore` |
| Pipeline: agent connections | per connection: authenticated?, receive buffer, `pending` | `handle_client`: key, lines, 100 ms batches, EOF | agents (TCP), event store | first-line protocol, EOF with data, events in memory only | `AgentToPipeline` |
| Pipeline: live feed | `EVENT_SEQ`, `HOT_BUFFER`, `HOST_BUFFERS` | `next_id`, `enrich_batch`, `insert_batch` (feed half), `/events`, `/events/since`, seeding in `main` | connection threads, detection engine | ids and publication under different locks, bounded buffers, quotas, restarts | `EventFeed` |
| Linux agent: outbox and client | batch, `outbox.jsonl`, TLS stream | `forward`, `send_payload`, `start_timer`, `connect`, `append`, `read_all`, `clear` | event loop, timer task, pipeline | two tasks, awaits between read and clear, reconnects | `AgentOutbox` |
| Linux agent: eBPF programs | three ring buffers; maps `openat_staging`, `fd_path_cache`, `dns_fd_cache`, `tls_fd_cache`, filters | one program per system call, `RESERVE`, `should_drop` | the kernel's threads, the reader | maps keyed by process and never cleaned, pids given out again, full rings | `KernelProbes` |
| Linux agent: reader thread and channels | two bounded channels | load and attach, `rb.poll`, callbacks, `run_event_loop` | eBPF programs, outbox | one channel blocks, the other drops, one loop drains both | `KernelFeed` |
| Text of an event (DNS name, path, escaping) | - | `try_parse_dns_query`, `json_str`, `from_raw`, `serialize_event` | eBPF programs, agents | bounds, stale bytes, a character cut in two | `EventText` |
| Windows agent: process hook | two rings, counters, the poll thread, links | `ring_write`, `ring_read`, init, shutdown, poll thread | eBPF maps, callback, readers | counters that wrap, a thread that outlives its rings | `HookRing`, `ProcessHook` |
| Windows agent: ETW events | file names, trust, parents, queue | parsers, `file_key_cache_`, `pid_trust_cache_`, `ppid_worker_loop` | ETW, forwarder | facts looked up after they have changed, identifiers given out again | `EtwEvents` |
| Windows agent: coverage mode, process rules, settings | - | `classify`, `to_json`, `classify_event`, `load_config`, the property lookup of a record | service, process hook, ETW | order of rules, boundaries of versions, what follows what could not be read | `HostRules` |
| Windows agent: JSON text of an event | - | `serialize_event`, and of the bundled library what it calls: `dump`, `dump_escaped`, `dump_integer`, `decode` | forwarder | a buffer with a margin, characters of several bytes, the smallest integer | `JsonText` |
| Windows agent: forwarder | socket, `connected_`, offline buffer | `send_event`, `send_heartbeat`, `connect_with_backoff`, `tcp_connect`, `flush_offline_buffer` | worker and heartbeat threads, pipeline | three mutexes, stale flags, partial flush | `WinForwarder` |
| Windows agent: service and ETW provider | SCM status, provider flags, session handle, five threads | start, `shutdown_components`, `EtwProvider::start`/`stop`, both `watchdog_loop`s | SCM, kernel sessions, forwarder | who joins and closes what during a stop | `WinService` |
| Windows agent: divergence detector | `pending_`, `last_alerted_` | `process_event`, `expiry_loop`, `fire_alert` | two sensor threads, sweep | matching in a window, cooldown | `DivergenceDetector` |
| Detection engine: fetch cycle | `_max_seen_id`, `_t1110_failures` | `_fetch_new`, `run_once`, `run` | live feed over HTTP | cursor against restarts, quotas, failed requests | `DetectionFeed` |
| Detection engine: rules, chains, aggregation | deduplication table, chains, lineage | `run_once`, `ChainTracker.process` and `expire` | fetch cycle, response | order of events, windows, expiry | planned |
| Response chain (causal engine) | scores, gates, rate limit, decisions | `cortex`, `risk`, `decision`, `autonomous_response`, `safety_governor` | pipeline's response hook, DuckDB | check-then-act, lost decisions, decay | planned |
| Alert engine | incidents, windows | `correlator`, `incidents`, `apt_window`, `weights` | detections | window boundaries, life cycle of an incident | planned |
| Watchdogs, heartbeats, retention, watchlist | restart counters, last-seen tables | probe loops | agent, pipeline | a timeout racing a late answer | planned |
| Threat mesh, healer, canaries, MTD, compliance, model registry, exporters | small tables and cursors | see PROJECT.json | little | expiry, roll-back | planned last |
| Single-technique detectors, behavioural models, reports, dashboard, cryptography, legacy pipeline | - | - | - | statistics, text, library calls | not modelled |

How the parts meet: on Linux the programs in the kernel reserve an event in one
of three rings; one thread of the agent empties these into two channels, and the
event loop hands what it finds there to the forwarder. On Windows the ETW
callback queues events for a worker, which completes them and hands them to the
forwarder; the process hook would do the same from its own two rings, but no
build file compiles `process_hook.c` at this commit. The agents' sockets end in one pipeline thread each; that
thread calls `insert_batch`, which fills the feed, appends to the WAL and to
`_flush_pending`, each under a lock of its own. The timer thread, and any HTTP
worker serving `/admin/flush`, empties `_flush_pending` into Parquet. The
detection engine is another process: it sees the feed through HTTP only, and
keeps a cursor over ids that belong to the pipeline. On Windows the worker and
the heartbeat thread share one socket; the service's watchdog looks after the
ETW provider, which has a watchdog of its own.

What makes each part correct is stated with the properties in section 4. Every
hazard, with its line, is in `PROJECT.json` under `hazards`.


## 2. The modules

| Module | Models | Uses |
|---|---|---|
| `PipelineStore` | the durable half of the pipeline | - |
| `PipelineStoreInv` | the inductive invariant of `PipelineStore` | extends it |
| `PipelineStore_proofs` | theorems and proofs | extends `PipelineStoreInv`, `TLAPS` |
| `AgentOutbox` | the Linux agent's forwarder | - |
| `AgentToPipeline` | the agent joined to the pipeline's connection threads | extends `AgentOutbox` |
| `AgentToPipeline_proofs` | theorems and proofs about both | extends `AgentToPipeline`, `TLAPS` |
| `Sifting` | the filtering loop, as a recursive function | - |
| `EventFeed` | ids, buffers and responses of the live feed | extends `Sifting` |
| `DetectionFeed` | the engine's fetch cycle joined to the feed | extends `EventFeed` |
| `DetectionFeed_proofs` | theorems and proofs about both | extends `DetectionFeed`, `TLAPS` |
| `KernelProbes` | the eBPF programs, their rings and maps | - |
| `KernelFeed` | the agent's reader thread and channels on top of them | extends `KernelProbes` |
| `KernelFeed_proofs` | theorems and proofs | extends `KernelFeed`, `TLAPS` |
| `HookRing` | a ring of `process_hook.c` as a value | - |
| `EventRings` | what the rings promise: the abstract specification | - |
| `ProcessHook` | poll thread, init and shutdown of the process hook | extends `HookRing`, instantiates `EventRings` |
| `ProcessHook_proofs` | theorems and proofs, the refinement among them | extends `ProcessHook`, `TLAPS` |
| `EtwEvents` | the ETW provider between a record and `on_event_` | - |
| `HostRules` | pure functions: rules for new processes, coverage, settings, properties of a record | - |
| `EventText` | pure functions: names and paths in and out of an event's fields | - |
| `JsonText` | pure functions: an event as a line of JSON | - |
| `EventChecks` | the three against reference definitions | extends or instantiates them |
| `WinForwarder` | the Windows agent's forwarder | - |
| `WinForwarder_proofs` | theorems and proofs | extends `WinForwarder`, `TLAPS` |
| `WinService` | the Windows service, the ETW provider, their threads | - |
| `WinService_proofs` | theorems and proofs | extends `WinService`, `TLAPS` |
| `DivergenceDetector` | the comparison of the two Windows sensors | extends `Sifting` |
| `WindowsSensors_proofs` | theorems and proofs about the ETW events and the detector | extends `EtwEvents`, `DivergenceDetector`, `TLAPS` |
| `MC...` | instances for TLC | |

### PipelineStore

`wal` is the file as a sequence of chunks: a whole line, which stands for its
event, or `Torn`, the start of a line whose write stopped. `disk` is the set of
Parquet files with directory, millisecond of the name, `.tmp` flag and events.
`pc`, `batch`, `dir`, `ms`, `offset` and `rest` are the locals of `force_flush`
in each thread that can be in it: the timer, administrators, and `main` while
it recovers. `InsertBatch` and `InsertUnlogged` are `insert_batch` with a
`wal_append` that succeeds, and one that fails and swallows its exception.
`StartFlush`, `WriteTmp`, `Replace`, `TrimRead` and `TrimSwap` are the steps of
`force_flush` between which another thread, or a death, can come; `FlushRaises`
is its `except` branch, which neither requeues the batch nor trims the log.
`Crash` and `CrashInAppend` kill the process; `Restart` is `wal_recover`, which
writes what it replays before the process is up. `clock` moves only past
milliseconds in which a file was named, so that a name can be used twice
exactly when the code can use it twice.

A crash is the death of the process, not of the host: what `write` was given
survives. The content of a row and Parquet's encoding are abstracted.

### AgentOutbox and AgentToPipeline

The two tasks of `pipeline.rs` run the same round: append the batch, read the
whole file, lock the stream, write, unlock, remove the file. A step is what a
task does between two awaits. `payload` is the line a task is about to append,
`flight` the writes that tokio's blocking threads have been handed and not done:
`File::write_all` returns before the file has the bytes and `append` never
flushes, so a write lands (`Land`) or fails (`WriteFails`) when it likes, two of
them in any order, and after a `clear` in a file that has no name any more
(`gone`). `late` and `overtaken` are history: the events whose append was under
way, or began, after a task's `read_all` and before its `clear`, and those of
them that the `clear` removed.

The timer reconnects (`Reconnect`) and writes the pending lines; only `connect`,
at the start of the agent, sends the API key. The write that follows a
reconnect has no timeout (`pipeline.rs:176`): it may fail after a part of its
lines (`FirstWriteFails`), and may never return. A connection is the list of
what was written to it and whether it can still arrive.

`AgentToPipeline` adds, per connection, the thread of `handle_client`: the first
line must be the key (`ReadKey`), lines go to `pending` (`ReadLine`), `pending`
goes to `insert_batch` (`Flush`, `FlushRaises`) and EOF flushes the rest (`Eof`).
What each thread has stored is kept per connection. The death of the pipeline
takes every `pending` with it (`PipelineCrash`).

### EventFeed and DetectionFeed

`insert_batch`'s feed half is three critical sections and so three actions
after the ids: `AssignId` (under `SEQ_LOCK`, once per event), `PutHot`,
`PutHost`, and `Persist`, from which on a restart finds the batch. A restart
seeds the ids from the legacy database if it exists, else from Parquet (`Seed`).
`Since` is the answer of `/events/since`: the two levels of buffers merged, and
if there are more than `limit`, the share of each host (`Balanced`).

`AssignId` gives one id: a batch gets its ids one by one, and other threads may
get ids in between. `overtaken` is history: the events that newer ones of
another connection got ahead of between `next_id` and the host's buffer, or that
the shared buffer dropped before.

`DetectionFeed` adds the engine's cycle: `Probe` (is the newest id behind the
cursor? then the pipeline was restarted), `CopyHot` and `Merge` (one request;
the pipeline copies the buffers under two locks, and the cursor moves when the
answer is there), `Extra` and `Analyse`. `Extra` is the three supplemental
fetches (`detection/engine.py:486-510`): the latest file opens below `/tmp/`, those
below `/dev/shm/` (up to `Reach` ids behind the cursor, so that most are returned
in several cycles) and the latest authentication failures. `PipelineRestarts` kills the
request in progress. A failed request is an empty answer; an exception in
`run_once` loses the cycle. `cut` and `rewound` are history: the events the quota
kept from a response, and whether a probe took a pipeline for a restarted one
that was not. Of `run_once` only T1110 is modelled, with one address: the
failures that the code keeps per `src_ip` are one list, which a burst starts
over (`_hist.clear()`).

### WinForwarder

`connected_` and the socket are written by both threads, in steps as small as
the code's locks: `Send` (`socket_mutex_`), `Mark` (`connected_ = false`, later),
`Reconnect`, `Drop`, `Dial`, `Auth`, `Up` and `Retry` (`connect_with_backoff`,
under `reconnect_mutex_`), `Flush`, `FlushLine` and `FlushEnds`
(`flush_offline_buffer`, under `buffer_mutex_`), `Resend`, `Store`. A line that is only
partly written to the offline buffer's file, or a file that cannot be opened
(`pipeline_forwarder.cpp:352`), is not modelled. `start()`
runs before the heartbeat thread exists and is that thread's first round.

### WinService

`pc` says where the service's main thread, its watchdog and the provider's
watchdog are. `Start` and `StartFails` are `EtwProvider::start`; `StopFlags`,
`StopClose`, `StopJoinProc` and `StopJoinDog` are `EtwProvider::stop`, which three
places call (`shutdown_components`, the service's watchdog, the destructor).
`kernel` is what the operating system has, `handle` what the provider believes;
`Kill` is another process that stops the session. `death` records
`std::terminate`: a joinable thread assigned to or destroyed, or joined twice.
A session that an agent which died has left behind
(`ghost_windows_service.cpp:191`) is not modelled: the service starts on a system
without one.

### DivergenceDetector

The two sensors report the facts of the world in order and within the
tolerance (`Fact`, `Miss`, `Late`); the code's actions are `ProcessEvent`, the
sweep `Sweep`, and both places that ask whether a process has cooled down and
mark it afterwards, in two critical sections: `fire_alert` (`FireAlert`,
`MarkAlerted`) and the mismatch in `process_event` (`ProcessEvent`, `MarkMismatch`).


### KernelProbes and KernelFeed

One action of `KernelProbes` is one run of a program at a system call. Most
programs only filter, reserve and submit: `Probe` stands for these, and the sets
`...Probes` name them with the ring and the filter of each. The programs that
keep state are actions of their own. `Openat` stages the path in an element of
`openat_staging` (`staging`). The program at its exit is three steps, one per call
of a helper: `OpenatReturns` looks the element up, `OpenatUnstages` deletes the
entry, `OpenatCaches` copies what the element has into `fd_path_cache` (`fdPaths`).
The memory of the map is allocated once: between the last two steps another CPU
may be given the element and write a path of another process into it, and the
copy has the one, the other, or bytes of both (`seen`). `Connect` marks the
descriptors of DNS and TLS connections, `Sendto` and `Sendmsg` capture from these.
The maps are keyed by process, the actions are those of threads, which is what
makes the properties hard. `PidReused` is a process that ends and whose pid
another gets; no program runs then, so the maps keep what they hold. `asked` and
`foreign` are history: the paths that a process has passed to `openat`, and those
of others that one of these two ways can bring to it.

`KernelFeed` adds the reader thread (`Load`, `ReaderBegins` ... `ReaderLeaves`) and
the event loop (`Forward`, `ForwardReturns`, `Turn`). The reader blocks in
`ReaderSends` until the critical channel has room, and drops a standard event when
that channel is full. The loop may stay inside `forward` for ever (`calling`): it
waits there for the stream's mutex, without a timeout. An error while loading
ends the thread and nothing else (`LoadFails`): the agent goes on without sensors.

### EventRings, HookRing, ProcessHook

`HookRing` has the two 32-bit byte counters of `ghost_ring_t`, in units of an
event: `sizeof(ghost_event_t)` is 128 and divides both capacities, so the branch
of `ring_write` that splits an event at the end of the buffer is never taken.
`ProcessHook` adds the poll thread with its two inner loops (`PollChecks`,
`PollTakes`, `PollDispatches`, `PollFindsEmpty`), the readers, and the owner of the
hook, whose shutdown waits 3000 ms for the thread and then frees the rings
whether it came or not (`Waited`, `ShutdownEnds`).

`EventRings` says what a user of the rings expects: two queues of bounded size
that lose their oldest event when they are full, and count it. `ProcessHook`
implements it: `RingsAreQueues == Queues!Spec`, where `queue` is what lies between
the counters (`Contents`) and `lost` is `dropped`.

### EtwEvents

`trace` is what ETW has recorded and not delivered: a record carries the truth
of the moment at which it was made as history, so that the properties can
compare it with what the agent says later. A record may be lost: dropped under
backpressure (`Logs`), with a session that is killed (`SessionKilled`), or because
the agent is away; `stale` has the keys whose last naming did not reach the
cache in one of these ways. `ParseStart`, `ParseName`, `ParseUse` and
`ParseOther` are the parsers: `ParseName` reports a rename for a key with another
name and, as the code does, for any name with an extension of the ransomware
list; `ParseUse` asks for the trust of the process before it looks at what kind
of record it has. What `check_process_trust` verifies is the file that is at the
image's path when it asks, and that file may have been replaced
(`ImageReplaced`). `Cached` is the eviction of `erase(begin())`, which takes any
entry of an unordered map and is done also when the key is there already.
`WorkerRefreshes`, `WorkerEnters`, `WorkerDelivers` and
`WorkerLeaves` are `ppid_worker_loop`. `AgentEnds` is the destructor, which saves
the names, or a death, which does not, or a death while saving. Whose pid the
record of a start carries, the process's or its creator's, the comments of
the source leave open (`etw_provider.cpp:459`): the model allows both.

### HostRules, EventText, JsonText, EventChecks

These have no state: each operator is one function of the code. `EventChecks`
states, as assumptions that TLC evaluates, what they compute over every input of
a bounded set, against a definition written from the purpose (the labels of the
query, not the bytes of the message). The run `kernel` evaluates them, as
`MCKernelFeed` extends `EventChecks`. Where code and comment disagree the
assumption says what the code does, and section 5 what the comment says.

| Assumptions | Of | Say |
|---|---|---|
| `DnsNameRead`, `DnsNameFits` | the DNS parser of the eBPF programs | the name is that of the query, and stays in its field |
| `EscapedFits` | `json_str` of `ghost_agent.c` | the escaped text stays in its buffer |
| `LoaderReadsWritten`, `AgentReadsCleared`, `WholePathDumps` | the path of an event, read by the C loader, by the Rust agent, and cut by the Windows agent | when it is the path that was written, and when `dump` does not throw |
| `DecodesUtf8` | `decode` of the library | it accepts UTF-8 and nothing else |
| `StringsReadBack` | `dump_escaped` | a reader of JSON gets the string back, nothing is written beyond the buffer, and no byte ends the line or the string |
| `IntegersDumped` | `dump_integer` | as many digits as were counted, none of them leading zeros, also for the smallest integer |
| `ObjectsDumped`, `EmittedNamed` | `dump`, `serialize_event` | different objects have different texts; every type that a sensor emits has a name |
| `HardRulesCritical`, `CoverageByBuild`, `ReportAndBadge` | `classify_event`, `coverage_mode.cpp` | which rules make an event critical; which builds have which layers |
| `LastUsableValue` | `load_config` | a setting has its last usable value under a head `[pipeline]` |
| `PropertyRead` | the property lookup of `etw_provider.cpp` | a property is read where it begins exactly if all before it could be formatted |


## 3. Bounds, and why they are enough

Every counter that could grow without end is cut by a constant that the module
declares as `bound`; sizes the code configures are constants too.

* `PipelineStore`: three events in batches of one and of two. Two batches are
  needed for one to be appended during the flush of the other; a batch of a raw
  event and an alert for the two files of one flush; a second crash or fault
  repeats the first from a state that one has already reached. The proofs of
  section 6 hold without bounds.
* `AgentOutbox`: three events and `BatchSize` 2, so that the event loop sends
  some payloads and the timer the others; two connections, so that there is one
  before and one after a reconnect; one of each trouble (`MaxTroubles` 4 allows all
  four in one behaviour). `AgentToPipeline` has the same instance, both tasks
  sending, with one trouble (`MaxTroubles` 1): with more, its properties claim
  less or nothing, and what is left is what `outbox` checks. Its invariants were
  checked with two troubles as well (3,381,157 states). The proofs hold without
  bounds.
* `DetectionFeed`: in `feed` one thread, two restarts, and a legacy database
  (`LegacyMax` 7), whose ids make the restarted sequence start over behind the
  cursor; events that are fetched a second time (`"tmp"`) and events that are not.
  In `feed_share` two threads and two platforms with buffers of two and a limit of
  two for three events, so that threads overtake each other, both buffers
  overflow and the quota cuts. `Reach` 1, for the code's 10,000, lets a file open
  be returned twice and drop out later. The proofs hold without bounds.
* `WinForwarder`: two events and an offline buffer of one, so that it can be
  full; one trouble (a broken connection, a torn line, a death). `MaxSocks` 6 is
  never reached: the number of states is the same with 7. The proofs hold
  without bounds.
* `WinService`: two killed sessions, two failed starts and one failed restart;
  six sessions are all that these can open (the states are the same with 7).
  The proofs hold without bounds.
* `KernelFeed`: rings and channels of one event, so that all are full at some
  time; three threads, two of them of one process, so that these share a staging
  slot; two elements of the staging map, so that a thread of the other process can
  be given one that was just deleted; a path of each kind that the code treats
  differently (`/tmp`, hidden below `/dev`, any other); two calls of `openat` or
  `connect`, which is what any of these conflicts takes; pids given out again. The
  proofs hold without bounds.
* `ProcessHook`: rings of two slots and counters that wrap after two laps
  (`Wrap` 4), so that five events wrap them; two initialisations, so that a ring
  is used again after a shutdown, and one wait that times out. The proofs hold
  without bounds.
* `EtwEvents`: two processes, two files and caches of one entry, so that every
  second insertion evicts; three records; one trouble, be it an identifier given
  out again, a file that replaces an image, a lost record, a killed session or an
  end of the agent. Files are interchangeable (`SYMMETRY`), names and processes
  are not. The proofs hold without bounds.
* `EventChecks`: sizes scaled down in the order they have in the code (a window of
  10 for 128, a name of 5 for 62, three labels for 16, a path of 4 for 64), so
  that each limit is reached; integers of ten bits for 64, and a string buffer of
  20 bytes with a margin of 13, as the code keeps one of 512 with 13.
* `DivergenceDetector`: two processes and two contents; the delays 1, 2 and 4
  keep the order of the code's (tolerance < expiry < cooldown); the clock ends
  after the last fact has expired. The proof holds without bounds.

`CHECK_DEADLOCK FALSE` is said where the system may stop: no more events to
send within the bound, a stopped service, the end of the clock. `DetectionFeed`
never stops: the engine polls for ever.

### Fairness

* `PipelineStore`: the threads that flush run, time passes, and a dead container
  is restarted (`docker-compose.yml` says `restart: unless-stopped`). Nothing
  obliges a sensor to send or anything to fail. The fairness of an
  administrator's thread changes nothing in `EventuallyStored`, which excuses
  everything after his first flush.
* `AgentToPipeline`: tokio polls a task that can go on, and its blocking threads
  end a write; each connection has a thread of its own. Nothing obliges the network to
  break or to work. The reconnect is not fair: its write has no timeout and may
  never return, and `EventuallyStored` holds with that.
* `DetectionFeed`: the engine's loop runs, and a connection thread that has
  begun an insertion finishes it.
* `WinForwarder`: threads run (`FairSpec`), and nothing is asked of the network: the
  pipeline may be away for ever. `ReachableSpec`, under which the pipeline can be
  reached again and again, is there to show that `EventuallySent` fails even then.
* `KernelFeed`: the reader thread and the event loop run, but nothing obliges a
  call of `forward` to return. The threads that are watched do as they like: they
  may call for ever or never, and `ReaderUnblocked` holds against both.
* `ProcessHook`, `EtwEvents`: no liveness is claimed, and no fairness.
* `WinService`: threads run. Whether the pipeline can ever be reached is left
  open, and nothing obliges the SCM to stop the service.
* `DivergenceDetector`: the clock, the sweep and the sensors go on.


## 4. The runs and what they show

| Run | Specification | Shows |
|---|---|---|
| `store` | `PipelineStore!FairSpec`, timer and an administrator | Until the administrator flushes: an accepted event is in the WAL or in Parquet at every instant, crashes included, unless a swallowed error hit it (`NothingLost`); no stored file is overwritten (`ParquetOnlyGrows`); the WAL is emptied (`WalDrained`); every event reaches Parquet (`EventuallyStored`); the invariant of the proofs holds (`StoreInv`). With him, too: one session stores no event twice (`NoDuplicateInOneSession`). |
| `store_two_flushers` | `PipelineStore!Spec`, timer and an administrator | Ends in a violation: with two flushers an accepted event is lost (`AcceptedIsDurable`, section 5). |
| `outbox` | `AgentOutbox!Spec`, both tasks send | Whatever overlaps, breaks or dies, only `clear` can lose an event (`OnlyClearLoses`), and without a failure each task sends an event once at most (`NoDuplicateWithoutFailure`). |
| `link` | `AgentToPipeline!LinkSpec`, both tasks send | The only events that leave the outbox unsent are those whose append was under way between `read_all` and `clear` (`NothingClearedUnsent`); while the first connection holds nothing else is lost, up to the thread of the pipeline (`NothingLostWhileConnected`); what a connection's thread stores is what was written behind its key, each line once and in order, and all of it unless something broke (`StoredAsSent`); with no trouble every event that no `clear` overtook is stored in the end (`EventuallyStored`). |
| `feed` | `DetectionFeed!LiveSpec`, one thread, restarts | No event is given to the engine twice, but those of the supplemental fetches (`DeliveredOnce`); every event is analysed (`EventuallyAnalysed`); a cursor ahead of a restarted pipeline does not stay ahead (`NeverFrozen`). |
| `feed_share` | `DetectionFeed!Spec`, two threads and platforms | Before a restart the cursor passes no event of a host's buffer, but those that the quota cut and those that another connection overtook (`NothingSkipped`); ids of stored events are unique over restarts (`StoredIdsUnique`); a platform's events are pushed out by its own only (`OnlyOwnHostEvicts`), and every platform gets its share of a response (`EveryHostServed`). |
| `winfwd` | `WinForwarder!FairSpec` | At most one connection (`OneConnection`); no event vanishes (`NothingVanishes`); none is sent twice without a failure (`NoDuplicate`); `stop()` returns although the thread it joins may be in the retry loop of a pipeline that is down for good (`StopReturns`). |
| `winsvc` | `WinService!FairSpec` | Never two ETW sessions (`OneSession`); no thread object overwritten (`NoThreadOverwritten`); nothing left after a stop that would open a session (`StoppedForGood`); the watchdogs bring the tracing back (`TracingRestored`). |
| `diverge` | `DivergenceDetector!DetectorFairSpec`, started | Complete reports raise no alert and twins never wait side by side (`ReportsPaired`); a missed event leads to an alert of its process (`SilenceNoticed`); nothing waits for ever in a detector that was started (`PendingExpires`). |
| `hook` | `ProcessHook!Spec` | The rings, whose counters wrap, are bounded queues that count what they lose (`RingsAreQueues`, the refinement of `EventRings`). While the poll thread is waited for: captured, read, pushed out and discarded events add up (`AllCounted`), and no destroyed ring is written (`NoStrayWrite`). |
| `kernel` | `KernelFeed!FeedSpec` | Rings and channels keep their bounds (`FeedTypeOK`); a descriptor is listed only under a path that its own process asked to open, or one that a reused pid or a reused element of the staging map brought there (`PathsOfOwnProcess`); a reader that waits for room for a critical event gets it, whatever the watched processes do, unless a call of `forward` never returns (`ReaderUnblocked`). It evaluates `EventChecks`. |
| `etw` | `EtwEvents!Spec` | What an event says is true of the moment of its record: the parent (`ParentTrue`) and that it is a rename, if the name is not on the ransomware list (`RenameTrue`), as long as no identifier is given out again; the name of the file, unless the record of its last naming was lost (`NameTrue`). A process is called signed only under a pid that ran a file that verified, since the agent started (`TrustTrue`). |

Each module states a type invariant. Most are not listed in a run: they are
proved (section 6), and a wrong type would show at once in the other properties.


## 5. Where the code does not do what it says

### Checked by a run

* **Two flushers** (`store_two_flushers`, `pipeline/server_v2.py:519`).
  `/admin/flush` overlaps the timer's flush. Each has noted a WAL offset; the
  one that finishes first trims the other's events off before they are in
  Parquet, and the second trims by an offset of the longer file. A death then
  loses accepted events, which `wal_trim_to`'s docstring rules out.

### Reproducible with a configuration beside the runs

Each of these configurations checks one property that the code does not have;
TLC prints the behaviour.

| Configuration | Property | What happens |
|---|---|---|
| `MCAgentOutboxTwoTasks` | `QueuedUntilWritten` | The event loop appends between the timer's `read_all` and its `clear`, which removes what it has not read (`agent/rust/src/pipeline.rs:261`). |
| `MCAgentToPipelineForced` | `QueuedUntilDelivered` | The timer's reconnect, every 60 ticks and after each failure, writes the outbox first; the pipeline takes that line for the key and rejects the connection, and the agent has cleared the outbox (`agent/rust/src/pipeline.rs:174`). |
| `MCAgentToPipelineRestart` | `QueuedUntilDelivered` | The agent clears its outbox after `write_all`; the pipeline dies with the lines in `pending`. |
| `MCDetectionFeedRace` | `AllBehindCursorHandled` | A thread takes an id, another takes a later one and publishes first; the engine's cursor passes the slower thread's event (`pipeline/server_v2.py:609`). |
| `MCDetectionFeedReuse` | `AllBehindCursorHandled` | After a restart ids are given out again; the new session passes the old cursor before the engine probes, and the events below it are skipped. |
| `MCDetectionFeedQuota` | `HighSignalDelivered` | "High-signal events always included in full": the quota cuts them too, and the cursor passes them. |
| `MCDetectionFeedBrute` | `BruteForceIsABurst` | The supplemental fetch returns the same failure in every cycle; one failed login is counted until it is a burst. |
| `MCDivergenceDetectorNotStarted` | `PendingExpires` | The service never calls `start()`: without the sweep a silenced sensor raises no alert. |

The following properties are stated in the modules and in no configuration. Take
the named file, put the property in place of its own, and make the changes:

| Configuration, changed | Property | What happens |
|---|---|---|
| `MCPipelineStore`: no administrator, `MaxCrashes = 0`, `Spec` | `AcceptedIsDurable` | A flush raises; its batch is not requeued, and the next successful flush trims it off the WAL. |
| `MCAgentOutbox`: `BatchSize = 5`, `MaxTroubles = 0` | `QueuedUntilWritten` | One task suffices: `append` returns before the bytes are in the file, which `clear` removes. |
| `MCDetectionFeedReuse`: `LegacyMax = 7`, `MaxEvents = 2` | `StoredIdsUnique` | With a legacy database each restart seeds from it and not from Parquet: ids repeat. |
| `MCDetectionFeedRace`: `BufferMax = 1` | `NeverRewound` | With two threads the newest id of the shared buffer can fall behind the cursor: the engine takes the pipeline for a restarted one and fetches everything again. |
| `MCWinForwarder` | `KeyFirst` | `socket_fd_` is set before the key is sent; a thread whose `connected_` is stale sends its line first. |
| `MCWinForwarder`: `MaxEvents = 1`, `FairSpec` | `EventuallyBuffered` | "Pipeline unreachable -- events buffered offline": while it is, the worker retries inside `connect_with_backoff` for ever, and the offline buffer is used only after `stop()`. |
| `MCWinForwarder`: `MaxEvents = 1`, `ReachableSpec` | `EventuallySent` | An event stored after the flush that follows a reconnect stays on disk until the next one, however well the pipeline can be reached. |
| `MCWinService` | `CleanStop` | `stop` does not join the worker thread that `start` made, so `~EtwProvider` destroys a joinable thread: `std::terminate`; the SCM sees a failure and restarts the service it stopped (`windows-agent/src/etw_provider.cpp:126`). |
| `MCWinService` | `EventuallyTracing` | The provider's watchdog opens a session and fails to enable or to read it; the next query finds the session there and is content. |
| `MCWinService` | `StopEnds` | `stop` closes the session while the watchdog is about to restart it: `stop` joins a thread that reads the new one. |
| `MCWinService` | `StartsTracing` | The start sends the coverage report before it starts the provider, and that send waits for the pipeline. |
| `MCDivergenceDetector`: one process, `MaxFacts = 3`, `MaxTime = 8`, `DetectorSpec` | `OneAlertPerCooldown` | The check and the mark of the cooldown are two critical sections. |
| `MCProcessHook` | `NeverStray` | The inner loops of the poll thread do not look at `running`; after 3000 ms the rings are freed under it. |
| `MCProcessHook` | `Detached` | "Detaches eBPF programs" (`process_hook.h:21`): no link is kept, so none is destroyed. |
| `MCKernelFeed` | `CriticalServed` | "Drain critical channel first - always" (`events.rs:335`): a flood of standard events keeps the loop in its second half. |
| `MCKernelFeed` | `ReaderNeverStuck` | A peer that stops reading stops the write after a reconnect (`pipeline.rs:176`, no timeout), which holds the stream's mutex; `forward` waits for that, the critical channel fills up, and the reader of all three rings waits for ever. |
| `MCKernelFeed` | `PathsAreOwn` | A process with a reused pid inherits the paths of its predecessor's descriptors; and `handle_openat_exit` copies from an element it has deleted, into which another CPU may have written another process's path (`ghost_agent.bpf.c:541-545`). |
| `MCKernelFeed` | `DescriptorNamesItsFile` | Two threads of a process share one staging slot and swap their paths; an open of a hidden path takes the path that another thread has staged. |
| `MCKernelFeed` | `SharedMemoryElevated` | "Elevate /tmp and /dev/shm opens to critical ring" (`ghost_agent.bpf.c:510`): `is_noisy_path` drops every open below `/dev/` first. |
| `MCKernelFeed` | `TlsSparesStandard` | "Zero risk to the existing ... event path" (`ghost_agent.h`): TLS events go through the standard channel and take its last place. |
| `MCEtwEvents` | `ReusedParentTrue`, `ReusedRenameTrue` | Nothing removes an entry when its process ends or its file is closed; the next owner of the pid or key gets it. |
| `MCEtwEvents` | `TrustIsCurrent` | The answer about a pid is kept, whatever runs under it later and whatever is put at the image's path. |
| `MCEtwEvents` | `LossHarmless` | A lost `NameCreate` after a rename: later writes are reported under the old name. |
| `MCEtwEvents` | `ParentKnown` | "A few seconds of staleness is harmless": the snapshot is not refreshed between two events of the queue, however many there are. |
| `MCEtwEvents` | `PriorityKept` | The worker writes the number of the layer into the priority: what a parser called critical arrives as high. |
| `MCEtwEvents`: `MaxKeys = 2` | `RenameEvictsNothing` | A full cache evicts an entry although the key is there already. |

Unless the row says otherwise the specification is `Spec` for an invariant or an action
property, and the module's specification with fairness for a temporal one. For a
temporal or action property remove a `SYMMETRY` line as well.

### Seen while reading

Those with a name in brackets are what the model says, an assumption of
`EventChecks` or an action.

* `process_hook.c` compares its list of tools with `comm`, a field of 16 bytes with
  its end: `powershell_ise.exe` and `scriptrunner.exe` never match.
* The memory of a ring is not cleared, and a probe writes a path only up to its
  end. `events.rs` takes the whole field: what an older event left is part of
  the path, or makes it no UTF-8, and then the path is empty
  (`AgentReadsCleared`). `ghost_agent.c` reads to the end and is right
  (`LoaderReadsWritten`).
* The Windows agent cuts a path to its field by bytes. A path cut inside a
  character is no UTF-8, `dump()` throws, and nobody catches it on the worker's
  thread (`WholePathDumps`).
* `process_hook.c:18` calls its rules "always CRITICAL"; the third is "high"
  (`HardRulesCritical`).
* `coverage_mode.cpp:191` asks for Windows 11 22H2; the code accepts Server 2022,
  so that a later build of Windows 11 can have less (`CoverageByBuild`).
* When the version is not known the report says "standard" and the badge
  "unknown" (`ReportAndBadge`).
* A new file whose name has an extension of the ransomware list is reported as a
  `GHOST_EVT_FILE_RENAME`, with no earlier name (`ParseName`,
  `etw_provider.cpp:757-801`): `RenameTrue` speaks of other names only.
* When the programs cannot be loaded the reader thread ends and the agent goes on
  with nothing to read (`LoadFails`).
* A full ring of the kernel refuses the newest event (`Reserve`). The comments of
  `ghost_agent.bpf.c` say that the critical ring "never drops events" (line 34) and
  the standard ring "drops oldest on overflow" (lines 10 and 43).
* `self_watch.bpf.c` is compiled, and loaded by nobody.


## 6. What is proved

Eight modules hold proofs. Each proves, from the assumptions on the constants
alone and so for every value of them, that an invariant of the component is
inductive, and from it what is worth saying. In all of them the proof has one
lemma per action, or per group of actions that touch the same state, and the
theorem combines these.

### PipelineStore_proofs

For every set of events, batches and administrators and every bound, from
`StoreAssumption`:

* `TypeCorrect`: `Spec => []TypeOK`
* `InvCorrect`: `Spec => []StoreInv`
* `NothingLostByTimer`: `Spec => []NothingLost`
* `ParquetGrowsByTimer`: `Spec => ParquetOnlyGrows`
* `StoredOnceBeforeCrash`: `Spec => []NoDuplicateInOneSession`
* `WalDrainedByTimer`: `Spec => []WalDrained`

`StoreAssumption` says that alerts are events, batches are non-empty lists of
events, `Torn` is not an event and the named threads are distinct; the bounds
are natural numbers.

`NothingLost` is not inductive: that an event is in the WAL or in Parquet says
nothing of what a trim is about to cut off. The invariant
`StoreInv == TypeOK /\ (TimerOnly => TimerInv)` (module `PipelineStoreInv`) adds:

* `OneFlusher`: `main` flushes before the process is up, the timer after, so
  that no offset is made stale by another thread's trim;
* `NamesAreNew`: the name a thread is about to use is of a later millisecond
  than every file of its directory, so that neither `.tmp` nor `os.replace`
  overwrites anything (the alerts are named after the raw file, hence the
  conjunct about the second directory);
* `BatchStored`: how much of the batch is in Parquet at each `pc`;
* `PrefixIsBatch`: the WAL before the offset holds the batch, stored events and
  excused ones only, and what `TrimRead` read is what follows the offset: this
  is what makes the trim safe;
* `WalIsKnown`: while the process is up the WAL holds nothing that is neither
  pending, nor in the timer's batch, nor stored: this makes the next
  `StartFlush` establish `PrefixIsBatch`;
* `TornIsFollowedByGlued`: an unreadable line is one that is excused, which
  takes `Kept` (over all lines) to `NothingLost` (over the readable ones).

`TimerOnly` (no administrator's thread has flushed) is needed: the run
`store_two_flushers` shows that the invariant fails with two flushers. It is a
condition of the properties on the state, so the theorems speak of all
behaviours of `Spec`, with administrators, up to the first flush of one. The
proof has one lemma per action; `ParquetOnlyGrows` follows from the invariant in
the step's first state. The run `store` checks `StoreInv` as an invariant, so TLC
sees on an instance what the proofs say in general.

`StoredOnceBeforeCrash` has administrators too, and needs an invariant of its own:
`DupInv` says that before the first crash an event is in one place, still
pending, in the hands of one thread that has yet to write it, or in one file.
`WalDrainedByTimer` strengthens `StoreInv` by `Drained`: when nothing is pending,
the offset of the timer's flush is at the end of the log, so that its trim
leaves nothing.

### AgentToPipeline_proofs

For any numbers of events, connections, breaks, forced reconnects, crashes and
errors, any size of a batch, both tasks sending, and writes that reach the file
when they like, from `OutboxAssumption` and nothing else:

* `OutboxTypeCorrect`: `Spec => []TypeOK`; part of it is that the task that writes is
  the one that holds the stream's mutex
* `OnlyClearCanLose`: `Spec => OnlyClearLoses`
* `OnceForEachSender`: `Spec => []NoDuplicateWithoutFailure`
* `OnlySentIsCleared`: `LinkSpec => []NothingClearedUnsent`
* `StoresWhatWasSent`: `LinkSpec => []StoredAsSent`
* `ConnectedKeepsAll`: `LinkSpec => []NothingLostWhileConnected`

The code has no more than that: without the exception of the events that a
`clear` overtook, `NothingClearedUnsent` is `QueuedUntilWritten`, which section 5
refutes. The theorems say that the exception is the only one, and exactly which
events are in it.

`OnlyClearLoses` is an action property, and the type invariant is all it needs: in
each step but `clear` an event that leaves the batch is in an append under way
(`Take`), one that leaves an append is in a write, in the file or in the log of
losses, and no step shortens what was written to a connection
(`Written \subseteq Written'`, said by the lemmas of the steps that write, open or
break one).

What a `clear` removes is `ClearInv`: `LateInv` says that what is in the file, in hand
or in flight while a task sends was read by that task or is in its `late`, and
`SentInv` that a task which is about to clear has written all it read.
`LinkInv == TypeOK /\ ServerInv /\ DeliveryInv /\ ClearInv` adds the pipeline's end:

* `ServerInv`: a thread has read a part of its own connection, past the key, and
  stores nothing of a connection without one;
* `DeliveryInv`: what is `stored` and `pending` of a connection together is a copy of
  what was sent on it behind the key (`Copies`), and a thread that ended without
  trouble has read it all (`Finishes`).

`FirstInv` adds for the last theorem that the first connection is the stream until
the first trouble or forced reconnect. That the lines of one task arrive before
those of another, or in the order of the events, is not claimed: appends land in
either order, and two tasks take the stream in any.

That an event is written once for each task that sends needs a count: `Counted`
bounds the places where it was written by the tasks that wrote it and have yet
to clear, while it is in the file, and after that by the tasks that no longer
have it in hand; `OnePlace` says that before it was in the file it was nowhere
else.

### DetectionFeed_proofs

For any connection threads, platforms, kinds, events, restarts and faults, and
all sizes of batches, buffers and responses, from `FeedAssumption` and
`EngineAssumption`:

* `DetectionFeedTypeCorrect`: `Spec => []TypeOK`
* `StoredIdsAreUnique`: `Spec => [](LegacyMax = 0 \/ boots = 0 => StoredIdsUnique)`
* `OnlyOwnHostEvictsCorrect`: `Spec => []OnlyOwnHostEvicts`
* `EveryHostServedCorrect`: `Spec => EveryHostServed`
* `DeliveredOnceCorrect`: `Spec => DeliveredOnce`
* `OneThreadNeverRewinds`: `Spec => []NeverRewound`, if `OneThread`
* `NothingSkippedCorrect`: `Spec => []NothingSkipped`

`DeliveredOnce` excepts the kinds of event that the engine fetches again in every
cycle, and what it is given after a probe has taken this pipeline for a
restarted one. With one connection (`OneThread`) the second exception never
happens, which is the theorem after it; with two it does
(`MCDetectionFeedRace` with a buffer of one). `NothingSkipped` is for any number of
connections, and names what the code skips: events that the quota cuts (`cut`,
`MCDetectionFeedQuota`) and events that another connection overtakes between
`next_id` and the host's buffer (`overtaken`, `MCDetectionFeedRace`). `LegacyMax = 0`
is a pipeline without a database of its predecessor, which seeds its ids from
Parquet; `MCDetectionFeedReuse` with a legacy database shows why it is needed.

The invariants, each with one lemma per step, and the next resting on the ones
before; TLC checked all of them on an instance first:

* `KnownInv`: the ids that are out were given out by `seq` and to one event each;
  over restarts, because the seed is the largest id of Parquet, and a batch that
  is not in Parquet died with the process;
* `HostInv`: a host's buffer holds events of its own, each once, and if one of
  these is missing, the buffer is full: an event falls off the front of a full
  deque only, so that `BufferMax` others have come after it (`OnlyOwnHostEvicts`);
* `FedOut`: the shared buffer and the engine's copy of it hold nothing that was not
  published. With it the arithmetic of the quota gives `EveryHostServed`: each
  host that has something newer has a share of at least one in `Balanced`, and
  `Latest` of that share is not empty;
* `HandledInv`: what was handled of this session is at or below the cursor, unless a
  probe has reset it;
* `CursorInv`: with one thread the ids leave in their order (`Ordered`), the newest
  published event is in `hot` (`HotNewest`), and a cursor that has moved is not beyond
  `hot` (`AheadInv`): the cursor is reset only when the ids really started over;
* `RaceInv`: an event on its way that something newer is ahead of is in `overtaken`;
  what else is between the two buffers, since the engine takes the locks one after
  the other, is a batch that the engine's copy has whole or not at all.
  `SkipInv` is `NothingSkipped` with what it needs of cursor and phase, for events
  in a buffer and on the way there.

### ProcessHook_proofs

For every number of slots, laps, events, initialisations and timed-out waits,
from `RingAssumption` (a ring has a slot, the counters wrap after at least two
laps) and `HookAssumption`:

* `HookTypeCorrect`, `HookInvCorrect`: `Spec => []HookInv`
* `RingsAreQueuesCorrect`: `Spec => RingsAreQueues`, the refinement of `EventRings`
* `AllCountedCorrect`: `Spec => []AllCounted`
* `NoStrayWriteCorrect`: `Spec => []NoStrayWrite`

The first half is about the ring as a value: subtraction modulo 2^32 gives the
number of events although the counters wrap (`UsedCases`); the slots that
`Contents` reads after a step of the tail are those of before, one further
(`TailShift`), because the capacity divides 2^32; so `RingWrite` is `Append`, or
`Append` to the `Tail` if the ring is full, and `RingRead` is `Tail`. The second half
is one lemma per action: it preserves `HookInv` and is a step of `EventRings` or
leaves its variables alone. `HookInv` says that no ring holds more than its
slots, that what lies between its counters is an event, that the poll thread runs
only while the owner has not freed the rings, unless a wait timed out, and that
the counters add up.

### KernelFeed_proofs

For any threads, processes, descriptors, paths, filters and sizes, from
`ProbesAssumption` and `FeedAssumption`:

* `FeedTypeCorrect`: `FeedSpec => []FeedTypeOK`, bounds of rings and channels included
* `PathsOfOwnProcessCorrect`: `FeedSpec => []PathsOfOwnProcess`
* `FeedInvCorrect`: `FeedSpec => []FeedInv`

With the lookup, the delete and the copy of `handle_openat_exit` as three steps
this is not inductive: `FeedInv` adds `Staged` (the path that is staged for a process,
and all that the element which one of its exit programs holds has contained
since, is one the process asked for or one counted in `foreign`), and that the
ring the reader is sending from is not empty (`Holding`). `foreign` is as small as
it can be: `StageIn` adds a path only to the processes that hold the very element
it is written to, and `PidReused` only what the earlier owner of the pid asked for.

### WindowsSensors_proofs

The ETW events and the divergence detector have nothing in common but this module.

The ETW events: for any processes, files, names, sizes of the caches and bounds, from
`EtwAssumption`:

* `EtwTypeCorrect`, `EtwInvCorrect`: `Spec => []EtwInv`
* `ParentTrueCorrect`, `RenameTrueCorrect`, `NameTrueCorrect`, `TrustTrueCorrect`:
  `Spec => []ParentTrue` and so on

What the agent says of an event was copied from a cache, which was filled from an
earlier record, or from the system while records were on their way, and any
record may have been lost. `EtwInv` follows a fact along that way: `Known` (nobody is
spoken of before he was started), `ParentsAgree` (system, snapshot, trace and
queue say the same parent), `TrustDeserved` (nobody is remembered as trusted
whose pid did not run a file that verified), `NamesWereHad` (a remembered name is
one that the file had before every record still to be delivered) and
`NamesAreCurrent` (the last name record of a key before a use has the name at that
use, unless a later one was lost: `stale`, `blind`). `ParentsAgree` and `NamesWereHad`
hold while no identifier was given out again, the others always: these are the
conditions of the properties, and section 5 has what happens without them. A
full cache may evict any entry: an entry that is missing says nothing.

The divergence detector: for any processes, contents, delays and length of time,
from `DetectorAssumption`:

* `ReportsArePaired`: `DetectorSpec => []ReportsPaired`

`ReportsPaired` is two claims. Nobody is alarmed while no sensor misses anything:
`pending_` is then a queue of what the sensor that lags has yet to report, in order
(`Paired`); a report either ends the queue or removes its head, and the tolerance
is shorter than the expiry. And an event never waits beside its twin of the other
sensor, once a sensor has missed something too (`ApartInv`): `process_event` removes
an entry from the middle then, but what is left was waiting before
(`ThoseAre`), the new entry joins only if no partner was found, and time only takes
entries out of the window.

### WinForwarder_proofs

For any numbers of events, sockets, breaks, faults and crashes and any size of
the offline buffer, from `ForwarderAssumption`:

* `ForwarderTypeCorrect`, `ForwarderInvCorrect`: `Spec => []ForwarderInv`
* `OneConnectionCorrect`, `NothingVanishesCorrect`, `NoDuplicateCorrect`

`OneConnection` needs `OpenIsFd`: only the socket of `socket_fd_` is open, and none is
while a thread dials. The other two need to know where an event is:
`FlushKeeps` (during a flush the file still holds all that the flush has in its
two lists and what it has sent), `OnlyTaken`, and `OnePlace` (without a crash or a
fault an event is in a thread's hands, in the file, in the flush or written, and
in one of them only).

### WinService_proofs

For any numbers of kills, failures and sessions, from `ServiceAssumption`:

* `ServiceTypeCorrect`, `ServiceInvCorrect`: `Spec => []ServiceInv`
* `OneSessionCorrect`, `NoThreadOverwrittenCorrect`, `StoppedForGoodCorrect`

`ServiceInv` says who may be where: `Places` (the main thread stops only what its own
watchdog is not touching), `QuietUnlessTracing` (a provider that does not trace has
no threads, until the service stops it), `HandleKnown` (the kernel has the session
of the handle or none), `SecondStop` (the second stop, of the destructor, finds
what the watchdog opened again during the first and closes it) and `Deaths`.

### Lemmas about the operators

Sequences are filtered with `Those` of `Sifting`, a recursive function, where the
models might have used `SelectSeq`, whose recursive definition the prover cannot
expand. An induction over the length of a sequence is done without the library's
induction rules, which need an operator as a parameter: of the lengths for which
the claim fails there is a least one (`LeastOf`, from the well-foundedness of the
natural numbers), and that one leads to a contradiction. In this way
`SiftExists` and its successors show what `Those` returns, that it keeps the order,
and which positions its elements had, and `DetectionFeed_proofs` shows what `Max`
of a finite set is. These lemmas stand in `WindowsSensors_proofs` and
`DetectionFeed_proofs` both, which have no module in common but `Sifting`.

### Model-checked only

* Liveness (`EventuallyStored`, `EventuallyAnalysed`, `NeverFrozen`,
  `StopReturns`, `TracingRestored`, `SilenceNoticed`, `PendingExpires`,
  `ReaderUnblocked`) and anything with fairness: TLAPS does not reach `ENABLED`.
* `EventText`, `JsonText` and their checks: they hold `RECURSIVE` operators, of which
  the prover can say nothing. `EventChecks` decides them over bounded inputs.

Every invariant and every action property that a passing run checks is proved,
`StoredIdsUnique` under the condition named above, which the instance satisfies.

### Not modelled

The death of the host (the code never calls `fsync`), TLS and certificate
pinning, tenants, Redis, the format of lines and files, the contents of an
event beyond what the properties tell apart, and everything the inventory calls
planned or not modelled; `PROJECT.json` gives the reason for each component.

Of the C and C++ sources, `windows-agent/src/nlohmann/json.hpp` is a third-party
library (24,765 of 30,696 lines). It is left out but for the path that an event
takes through it, from `dump` to the bytes (`JsonText`). The agents' own C and C++ is
5,931 lines, of which the map covers about three in five, and most of those with
state or a decision. What is not: start-up texts and logging, installation, the
set-up calls of Winsock and ETW, and `--interactive`, where the console's handler
runs `shutdown_components` on a thread of its own while the main thread, which it
wakes, runs it too.

`shutdown_components` destroys the divergence detector before it stops the ETW
provider, whose threads may be inside `on_ghost_event` with the old pointer
(`windows-agent/src/ghost_windows_service.cpp:387`). No module shows it: in
`WinService` a provider's thread has no state beyond running or not, and what it
does with an event belongs to `EtwEvents`, where nothing is shut down.


## 7. Plan

Done, in this order, the most important path first: event store, outbox, link,
feed and engine, Windows forwarder, Windows service, divergence detector, the
proofs of the store; process hook with its refinement and proofs, kernel feed
with its proofs, ETW events, text and rules; the proofs about the ETW events, the
Windows service, the Windows forwarder, the divergence detector and the outbox;
the proofs about the link and the feed, and the second half of the detector's.
Next:

1. **DetectionRules and ChainTracker** (`detection/engine.py:517-1290`, `rules.py`,
   `chain_tracker.py`, `aggregator.py`, `lineage.py`), on top of
   `DetectionFeed`'s `Analyse`: deduplication, sliding windows, the life of a
   chain. Properties: a chain fires once, however its steps are split over
   cycles; an expired chain is not extended; suppression of one alert never
   suppresses a different one. Abstract specification: a detector that sees
   the whole history; the cycle-by-cycle engine shown to implement it where it
   does.
2. **ResponseChain** (`server_v2.py`'s hook; `cortex.py`, `risk.py`, `decision.py`,
   `autonomous_response.py`, `safety_governor.py`, `world_model.py`): scores,
   gates, rate limit, execution, record. Properties: the rate limit with several
   callers, each with an engine and a lock of its own; what the record says was
   done was done; a higher score never leads to less.
3. **AlertCorrelation** (`alert-engine/`): windows, incidents, weights.
4. **Watchdogs** (`agent_watchdog.py`, `pipeline_watchdog.py`, the heartbeat,
   retention and watchlist threads of `server_v2.py`, `protection.rs`,
   `updater.rs`): restart counters, cool-downs, a late heartbeat.
5. Behavioural and ransomware detectors, single-technique detectors, threat
   mesh, deception, compliance and the registry: their discrete state machines,
   and pure operators checked against reference definitions over bounded inputs,
   several in one run.
6. Abstract specifications: `DurableLog` (accept, store, never lose), which
   `PipelineStore` with the timer alone implements under a refinement mapping of
   WAL and Parquet to one set; an at-least-once channel, which `AgentToPipeline`
   implements until the first trouble.
7. Proofs: the refinement of `DurableLog`; the order and the count of the feed
   with several connections, as far as the code has them.
