# A TLA+ model of Aurora

Aurora is the API server of the Hcnet network. This directory holds TLA+ models of the parts
of it that are hard to test: processes that ingest ledgers into one database, the backends
they read from, the tables and the order book built from what they read, the submission of
transactions, and the streams that clients follow. `PROJECT.json` maps every definition to
the lines it models and lists the runs, the mutants that show each property can fail, the
finding, the hazards and the theorems.

Source paths are relative to the repository; `ingest/` alone is the library, and `internal/`
stands for `services/aurora/internal/`.

## Inventory

| part | state | operations | interacts with |
|---|---|---|---|
| ingestion state machine (`internal/ingest/fsm.go`, `main.go`) | the current node of the machine and its arguments; the open transaction | `run` of start, build, resume, historyRange, waitForCheckpoint, reingestHistoryRange, verifyRange, stressTest | the database, one transaction per run; the ledger backend, the archive, the verifier goroutine |
| key value store and history tables (`internal/db2/history`) | `exp_ingest_last_ledger`, `exp_ingest_version`, `exp_state_invalid`, state tables, history tables | `SELECT ... FOR UPDATE`, updates, `TRUNCATE`, deletes of a range | every process of the cluster |
| state verifier (`internal/ingest/verify.go`, `ingest/verify`) | a goroutine with a repeatable-read snapshot; the batch being compared | `verifyState`, `GetLedgerKeys`, `Write`, `Verify`, `checkAssetStats` | spawned by resume at a checkpoint; races with builds |
| readers and change cache (`ingest/io`) | the bucket being streamed, the keys seen, a bounded channel; one squashed change per key | `Read`, `Close`, `AddChange`, `GetChanges` | the archive, the processors |
| processors (`internal/ingest/processors`) | a change cache each; the rows | `ProcessChange`, `Commit` | run inside the transactions of build and resume |
| captive core (`ingest/ledgerbackend/captive_core_backend.go`, `stellar_core_runner*.go`) | `nextLedger`, `lastLedger`, `cachedMeta`, the buffer `metaC`, the subprocess, its pipe and its exit | `PrepareRange`, `IsPrepared`, `GetLedger`, `GetLatestLedgerSequence`, `Close` | hcnet-core, the archive |
| remote captive core (`exp/services/captivecore`, `remote_captive_core.go`) | the active request, its goroutines, the client's poll | `PrepareRange`, `GetLedger`, `Shutdown`, `Close` | captive core |
| parallel reingestion (`internal/ingest/parallel.go`) | job and stop channels, the lowest failed range | `ReingestRange`, `runReingestWorker` | one ingestion system per worker |
| order book stream (`internal/ingest/orderbook.go`) | last ledger seen, when the graph was verified | `Update`, `verifyAllOffers` | offers and key value store, read; the graph, written |
| order book graph and path finding (`exp/orderbook`, `price`) | offers in two indexes and a map of pairs, a batch of pending operations | `AddOffer`, `RemoveOffer`, `Apply`, `Discard`, `FindPaths`, `FindFixedPaths` | the stream, requests |
| transaction submission (`internal/txsub`) | open submissions with listeners, a sequence queue per account | `Submit`, `Tick` | hcnet-core, the database, requests |
| ledger state cache, ticks and reaper (`internal/ledger`, `app.go`, `internal/reap`) | cached latest and elder ledgers | `UpdateLedgerState`, `Tick`, `DeleteUnretainedHistory` | the history tables |
| streaming (`internal/render/sse`, `internal/httpx`, `clients/auroraclient`) | the ledger waited from, the cursor, the limit; the client's cursor | `ServeStream`, `renderStream`, `NextLedger`, `Client.stream` | the ledger state cache, the history tables |
| other requests, command line, other services, builders, wire formats | their own | conversions, small services | see Not modelled |

What is hard. The machine gives the row lock back between its states, and in the middle of one
when a range must be prepared, so almost every decision is made on values that may be stale.
Processes of two versions overlap in an upgrade. A commit may take effect without the process
knowing. The verifier's snapshot does not protect it from `TRUNCATE`. Captive core is five
parties (caller, reader, watcher, process, pipe), any of which may stop first. The state comes from
buckets that override each other and from metas whose order matters, squashed in batches.
The graph follows a table that is compacted and replaced under it. A submission waits for a
queue that other requests, a tick and a clock move. A stream waits on a cache that is filled
value by value.

## Modules

| module | models | with |
|---|---|---|
| `LedgerBackend` | what each backend method answers and leaves behind, as operators on a record | used by `Ingestion`, implemented by `CaptiveCore` |
| `Ingestion` | a cluster of processes running the state machine on one database | refines `Durable` |
| `Durable` | abstract: the committed values alone | |
| `ParallelReingest` | caller, workers and their channels | |
| `CaptiveCore` | captive core as goroutines, pipe and subprocess | every answer is one of `LedgerBackend`'s |
| `RemoteCaptive` | the captive core server and its polling client | |
| `OrderBookStream` | `Update` against the writers of the offers table | the graph as a map |
| `OfferBook` | abstract: a map from offers to entries, with a ledger | |
| `OrderBookGraph` | the two indexes and batched updates | refines `OfferBook` |
| `Price` | conversion of amounts at the price of an offer, with fixed width | what it promises, for the offers of `OrderBookGraph` |
| `PathFinding` | both searches on the graph, with the arithmetic of `Price` | compared with exact arithmetic |
| `TxSub` | `Submit`, the queues, the open list, `Tick` | |
| `BucketReader` | `SingleLedgerStateReader` | used by `StateIngestion` |
| `StateIngestion` | processors, change cache, meta order, builds, verification | compared with the ledger itself |
| `HistoryStream` | ledger cache, reaper, streaming server and client | |
| `IngestionProofs`, `ParallelReingestProofs`, `CaptiveCoreProofs`, `RemoteCaptiveProofs`, `OrderBookStreamProofs`, `OrderBookGraphProofs` (with `Price`), `TxSubProofs`, `HistoryStreamProofs` | theorems about the module each is named after | see Proofs |
| `MC...` | the sets and functions of the `.cfg` files | |

### Ingestion

The database (`lastIngested`, `ingestVersion`, `stateInvalid`, `tables`, `history`) changes
only at commits. `lock` is the row lock, `cur[p]` the node of the machine, `phase[p]` how far
its `run` has got, `tx[p]` its uncommitted writes, `verifier[p]` its verification, `backend[p]`
its backend. `run` of a state is cut where another process can act:

1. `Begin` opens the transaction and takes the row lock (`GetLastLedgerExpIngest` reads
   `FOR UPDATE`); arguments that the code refuses before that are `InvalidArguments`.
2. One action per state (`StartStop`, `StartFromCheckpoint`, `StartFromState`, `BuildSkip`,
   `BuildState`, `ResumeGoBack`, `ResumeLedger`, `HistoryRange`, `ReingestForced`) decides from
   the locked values: it returns the next state (`Return`, whose deferred rollback frees the
   lock), stages writes (`Stage`), or releases the lock to prepare a range
   (`ReleaseToPrepare`).
3. `ProcessLedger` adds one ledger to a catch-up or forced reingestion.
4. `Commit` makes the delta durable. Its effect depends on the tables it meets: applying
   ledger *l* to tables that do not hold *l-1* corrupts them, which is how a broken lock shows.
   It also spawns a verification at a checkpoint (`maybeVerifyState`).

`PrepareRange` and `PrepareRangeError` run without the lock; the error of a process that has
exited leaves the session open, every other one closes it. `ReingestPrepare` and
`ReingestLedger` are reingestion without `--force`: a transaction for each ledger and no lock.
Failures: `RunError`, `CommitUnacknowledged`, `Crash` (the process starts again through
`Launch`) and `StreamBreaks`: an error, or a ledger out of order, gets into the buffer of
captive core, and the `GetLedger` that meets it closes the session. `CoreDelivers` and `PublishCheckpoint` are hcnet-core and the archive. A state table
is the ledger it holds, the set of versions that wrote it and whether a ledger was misapplied;
the history of a ledger is absent, live, or reingested. How tables come to hold a ledger, and
how `verifyState` comes to its verdict, is what `StateIngestion` models in detail.

### Parallel reingestion

`SendJob` is the rendezvous of the unbuffered channel and is possible even when `stop` is
closed, because `select` chooses among the cases that are ready. A failed worker reports under
the mutex (`ReportError`) and closes `stop` in a second step (`CloseStop`), so others act in
between. The batch size is the code's arithmetic.

### Captive core, local and remote

`CaptiveCore` has one caller, whose call is at a place (`call.at`) where it can block: on the
buffer, the wait group, the subprocess. `ReaderCheck`, `ReaderRead`, `ReaderSend` are the
selects of `sendLedgerMeta`, `WatcherWait` is the goroutine around `cmd.Wait`, `CoreEmit` and
`CoreExit` the process. `AnswersAsLedgerBackend` maps the session to the record of
`LedgerBackend` (`View`) and says of every `GetLedger`, on bounded and unbounded sessions and in
the fast-forward of `PrepareRange`, that its answer and what it leaves behind are those of the
operators: the answers given at once (cached, closed, behind), those of the read that ends the
call (found, missing, error), and the error that is returned after the session was closed. This
ties what `Ingestion` assumes of the backend to the code of the backend.

In `RemoteCaptive` the goroutines of `startPrepareRange` are `Workers`; a goroutine of an
earlier range may run on after its request was replaced, because `core.PrepareRange` is called
outside the lock. When two of them prepare at once the later one fails ("runner already
started"), or both saw no runner and the one that assigns the fields last has the session
(`CoreOpen`); the process of the other one is not in the model, so `ShutdownIsFinal` is about
goroutines and the session. The client's requests may be lost (`PollFails`).

### Order book

`OrderBookStream` cuts `Update` at its queries inside one repeatable-read transaction, against
`IngestLedger`, `CatchUp` (ledgers without offers changes, after the state is ahead), `Build`,
compaction and `MarkStateInvalid`. `OrderBookGraph` has the two indexes, the map of pairs and
the batch; offers in an edge are ordered by price as `edges.go` inserts them. `PathFinding` runs
both depth-first searches on the graph that the batches have made, with the conversions of
`price/main.go` at `Width` bits (`Price`), and compares them with `Reference`: all simple paths at
the amounts rational arithmetic gives.

### Transaction submission

A step of `TxSub` is what happens under one mutex, in one database transaction or in one call
to hcnet-core. `Submit` is `Check`, `SubmitPush`, `SubmitUpdate`, `Receive`, `SubmitOnce`,
`AddOpen`, `UpdateAccepted`, `Poll`, with `Cancel` where the code selects on the context;
`Tick` reads in one snapshot (`TickBegin`) and works it off. `Age` and `TimeOut` let the
clocks of queues and open submissions run out. Ledgers, drops and merges are external.
`accepted` and `deferred` remember what hcnet-core took and what it answered `TRY_AGAIN_LATER`
to, which the code treats alike.

### State tables

`BucketReader` is the goroutine of `SingleLedgerStateReader`: it preloads a bucket entry by entry,
reopens it after a failed read and discards what it had, handles entries newest bucket first
and sends what is not overridden into a bounded channel. `StateIngestion` builds tables from
every bucket list that the merging rules of CAP-20 allow for every short history of the
entries, with buckets of protocols before and after 11; then core closes a ledger whose changes
are spread over fees, transactions, operations (also of a transaction that ended in an internal
error) and upgrades; the change processors squash them, flush full batches and commit; and
`verifyState` reads a later checkpoint while ingestion goes on. The rows are accounts and trust
lines of one asset, and its statistics.

### Streaming

`HistoryStream`: ingestion commits ledgers; `TickLatest`, `TickElder`, `TickSetState` are the
three queries behind the cached `ledger.State`, and after `TickFails` the reaper meets the old
one; `ReapRecords`, `ReapLedgers` the reaper that
works from it. `Connect` to `Timeout` are `renderStream` and `ServeStream`, with the goroutine
of `NextLedger` as `Poll`. `ClientRead` and `ClientReconnects` are `Client.stream`, which takes
the identifier of the last event as its next cursor. `client.from` is the cursor the client was
given and never changes; what a client is owed is `Due` and `DueNow`.

## Runs

| run | asks | instance |
|---|---|---|
| `upgrade` | do state and history stay consistent? `TypeOK`, `StateMatchesLedger`, `NoHistoryGap`, implements `DurableSpec` | nodes of version 1 and 2, or one of them running the genesis build or a forced, unforced or invalid reingestion; databases with history up to 0, 3 or 5 and state at 0 or 4; 7 ledgers, checkpoints every 4, one fault |
| `cluster` | does a cluster of one version catch up from any database, and is no right state condemned? `CatchesUp`, `OnlyWrongStateIsInvalid` | two nodes, the same databases, one fault |
| `captive` | does a node on captive core catch up? `CatchesUp` | checkpoints every 8, buffer of 2, 15 ledgers, empty database, two faults (a broken stream among them) |
| `parallel` | `RestartPointSound`, `DisjointJobs`, `Terminates` | three workers, interval 2, ranges from 1 or 3 to 3, 6, 8 or 9, suggested sizes 0, 2 and 5 |
| `captive_core` | `StreamInOrder`, `NothingLeftBehind`, `AnswersAsLedgerBackend`, `PrepareAndCloseReturn` | five ranges inside, across and beyond the latest checkpoint, 6 ledgers, buffer of 2, one exit, failed start or skipped ledger |
| `remote` | `ShutdownIsFinal`, `PollEnds` | two goroutines, three overlapping ranges, two faults |
| `order_book` | `GraphIsLedger`, `TableHoldsUpdates`, `StreamHeals` | two offers, window of 2, 5 ledgers, two builds, one fault |
| `paths` | `IndexesAgree`, `AsksAreBest`, `PathsAreBest`, `ConversionFair`, implements `BookSpec` | four offers with ten forms over four assets, two batches of two operations, eleven queries, 6-bit amounts |
| `txsub` | `AnsweredOnce`, `NoLostWaiter`, `AnswersAreTrue`, `GrantedInOrder`, `EveryoneAnswered`, `RoomComesBack` | two requests for one transaction or for two of one account, queues of 1 and 2, one fault |
| `state` | `StateIsLedger`, `VerdictExact`, `TasksEnd` | one account, two trust lines, three ledgers of history cut into buckets everywhere, channel of 1, batches flushed after every entry or after the second, ledgers of 2 and 1 changes, one fault (failed read, missing bucket, corrupted row) |
| `stream` | `InOrderWithoutGaps`, `RetainedIsKept`, `EveryRecordArrives` | one client from the start or from `now`, three ledgers of up to two records, limit and retention of 2, one fault |
| `closed` | expected violation, see Finding | as `parallel` |

Bounds. For `Ingestion`, `MaxLedger` is past the second checkpoint, so that a build, live
ingestion over a checkpoint with its verification and a rebuild at the later checkpoint all
happen; the databases are one of each kind the start state tells apart; one fault is put at
every point of every interleaving. `CheckpointFreq = 8` in `captive` is large enough for the
special first checkpoint to differ from the general one. An interval of two gives no batch, one
batch, a last batch whole or cut, and more batches than workers. A buffer of two lets an error
queue behind a ledger. Two goroutines are enough for an abandoned range beside the active one;
a third would be another abandoned one. A compaction window of 2 in 5 ledgers puts removals on
both sides of the boundary. Six-bit amounts let conversions of single offers overflow while
sums stay small. Two requests meet in every order in one queue; a size of 1 is the limit, 2
lets both wait. Three ledgers of history give an entry every sequence of create, update, remove
and create again; a channel of 1 fills at once. With a batch size of 0 (flushed when *more* than
that many entries are in it) every change of a ledger follows a flush, with 1 the two changes of
one entry are squashed; builds, where an entry comes once, use the larger. Two faults in
`captive` let a stream break while the session of an earlier failure is being replaced. Retention of 2 with three ledgers
makes the reaper delete.

Deadlock is not checked where everybody may have ended: processes that stopped, a command that
returned, a caller that does nothing more, the bounded ledgers ingested, a node that waits in
`PrepareRange` for the ledger after the last one (`captive`).

Mutants. Each property of a passing run is broken by a small change of a mapped definition that
a programmer could make: the lock not taken, the double check of the build dropped, history not
compared with the state, a read that drops a ledger, `Close` not waiting for the reader, a
request accepted after shutdown, compaction of everything, an update of an offer that is not removed from its
old pair, a rounding in the other direction, an account that reached the sequence number taken for a
success, a session kept open behind an error, a listener kept after
its answer, fees read with the meta of their transaction, rows not counted, an error that leaves
the channel open, a cursor not kept for an empty page, a wait from the ledger that is current by
then, one ledger too many reaped.

Fairness. A process takes its steps and is restarted by its supervisor; hcnet-core and the
archive make progress: weak fairness. `Begin` has strong fairness: PostgreSQL queues the waiters
of a row. Goroutines are weakly fair (the Go scheduler): caller, reader, watcher, workers,
requests, ticks, the poll of a client, the reader of buckets and its owner. `captive_core`
assumes that hcnet-core goes on writing or exits, because otherwise `Close` may hang (below);
`remote` that captive core opens a session or fails. `order_book` assumes that a verification
becomes due again and again (strong fairness: an update may not reach it, or find it not due)
and that `Update` goes on, but not that ledgers are ingested or the state is ever rebuilt.
`txsub` assumes clocks and the request timeout, nothing of hcnet-core or ingestion. Failures,
failed ticks, verifications of the state, ledgers, timeouts of streams and the reaper have no fairness.

## Finding

`closed`: the queue loop of the parallel reingestion runs while `subRangeFrom < toLedger`
(`parallel.go:134`). A batch that ends one below `toLedger`, or a range of one ledger, leaves
`toLedger` out and reports success, although the command promises a closed interval
(`cmd/db.go:189`). `RestartPointSound` therefore says nothing about `toLedger` itself.

## Observations

Other places where the code does not do what it, or a comment, says of itself. Where a
definition is named, it states the expectation in the module and TLC refutes it; no run of the
project checks it.

* `Ingestion!VersionNeverDowngraded`: `buildState` skips only when the stored version *equals*
  its own (`fsm.go:276`); an old binary that left `startState` before a newer one built the
  state replaces it and takes the version back.
* `OnlyWrongStateIsInvalid` holds within one version only: a verification overtaken by a rebuild
  of another version finds its tables truncated and marks the fresh state invalid (`main.go:491`).
* `Ingestion!PreparedAfterPrepareRange`: `PrepareRange(from)` may leave the stream at `from + 1`
  (`captive_core_backend.go:262`), so `IsPrepared(from)` answers no right after it. The machine
  gets out of it only because `cachedMeta` survives `Close`: `captive` shows that this suffices,
  its mutant that it is needed.
* `Ingestion!WaitingEmptiesBuffer`: a node that waits asks for the newest ledger of the buffer to
  make room (`fsm.go:435`); if that ledger is the cached one nothing is consumed.
* `CaptiveCore!CloseReturns`: `Close` waits for the reader (`captive_core_backend.go:583`) before
  it kills the process; while hcnet-core writes nothing, the reader stays in the pipe.
* `CaptiveCore!LatestIsAvailable`: `GetLatestLedgerSequence` counts an error in the buffer as a
  ledger (`:564`).
* `CaptiveCore!ExitIsReported`: after a read error the exit of the process is looked for without
  waiting (`:340`); `PrepareRange` may succeed on a process that is gone.
* `CaptiveCore!PreparedIsServed`: the end of a bounded range is cut at the latest checkpoint
  (`:168`), and a session is reused whatever its end; `GetLedger` past it blocks for ever.
* `RemoteCaptive!PreparedRangeIsServed`: a goroutine of an earlier range (`api.go:69`) may replace
  the session of a range the server calls ready.
* `RemoteCaptive!CloseCancels`: `createContext` has a value receiver (`remote_captive_core.go:166`),
  so `Close` of the client cancels nothing.
* `OrderBookStream!Accurate`: a rebuild between two updates leaves no trace that `update` looks at
  (`orderbook.go:107`); the graph keeps offers the table does not have until a verification.
  `GraphIsLedger` is `Accurate` up to that, and `StreamHeals` says that it passes.
* `PathFinding!NoWrappedAmount`: conversions are checked for overflow one by one and added in a
  plain `int64` (`dfs.go:289`).
* `RoomComesBack` exempts accounts that were merged away: the database returns no sequence number for them
  (`txsub/system.go:298`), and their queues keep their places.
* `TxSub!NoMistakenBadSeq`: a second submission of an accepted transaction waits in the queue and is
  answered `tx_bad_seq` when the first acceptance moves the queue (`system.go:143`).
* `TxSub!BadSeqIfNoResult`: the failed result found on the second attempt is an error to `Submit`,
  which answers with the original `bad_seq` (`system.go:168`).
* The queue also moves behind `TRY_AGAIN_LATER`: the submitter does not treat it as an error
  (`submitter.go:62`), `Submit` updates the queue (`system.go:143`), and hcnet-core, which did not
  take the transaction, refuses the next one with `tx_bad_seq`. `GrantedInOrder` counts these
  transactions (`deferred`) as predecessors, and leaves out accounts that were merged away, whose
  sequence number is gone.
* The goroutine of `SingleLedgerStateReader` may stay blocked on a full channel after `Close`, and
  for live entries of the oldest bucket a `continue` jumps over the look at `done`
  (`single_ledger_state_reader.go:434`).
* `Stream.Err` renders a problem when no event was sent, "because it means that we haven't sent the
  preamble" (`sse/stream.go:77`); `ServeStream` sends the preamble on every turn.
* A request for `now` resolves the cursor twice, for the page query (`handler.go:215`) and for the
  query of the first turn (`:222`), with a tick in between perhaps. If the first turn finds
  nothing the stream goes on from the first resolution, and records between the two wait for the
  next ledger. If it finds something, the records between the two resolutions are lost.
* A client that reconnects before it has handled an event asks for `now` again
  (`client.go:146`), and what was ingested in between is lost. For both, `InOrderWithoutGaps` and
  `EveryRecordArrives` let the stream begin with the ledger of the first record handled.
* `DeleteUnretainedHistory` converts the retention, a `uint`, to `int32` (`reap/system.go:21`).
  From 2^31 on it is negative and the target lies after the latest ledger. `StreamAssumption`
  excludes it.
* `verifyState` returns without resetting `stateVerificationRunning` when the expected version
  differs (`verify.go:47`), before the `defer` that does so.
* The statements of the reaper are not one transaction; an interrupted run leaves ledgers without
  records, which the next one removes.

## Proofs

Every theorem is about all values of the constants within the named assumptions of the modules.
None of the properties is inductive as it stands; each proof module begins with the inductive
invariant `IInv` and has one lemma per action or group of actions that keeps it.

**Ingestion** (`BackendAssumption`, `IngestionAssumption`): any processes, versions, commands,
ledgers and faults.

* `TypeCorrect`, `StateCorrect`, `HistoryCorrect`: `Spec => []TypeOK`, `[]StateMatchesLedger`,
  `[]NoHistoryGap`; `Refinement`: `Spec => DurableSpec`.

  A commit writes what was decided earlier. `IInv` adds, for each process, `PhaseInv` (whoever is
  in a locked phase holds the lock, with validated arguments; a reingestion stays below the top
  of history) and `StagedInv` (what the staged delta was computed from still holds in the
  database). `StagedInv` is kept because any other commit needs the lock, except unforced
  reingestion, which never changes the largest ledger of history.
* `RightStateIsNotCondemned`: if all processes run one version (`OneVersion`),
  `Spec => []OnlyWrongStateIsInvalid`. The hypothesis is needed: with two versions the property is
  false (see Observations). The invariant `Calm` says that while a verification is under way the
  state is the top of history, and that no catch-up that waits for the lock begins above it. So
  history cannot get ahead of the state, nothing is reset, nothing is rebuilt, and `TRUNCATE`
  never meets the snapshot of a verification.

**Parallel reingestion** (`ParallelAssumption`): any finite set of workers, interval and request.

* `RestartCorrect`: `Spec => []RestartPointSound`; `JobsCorrect`: `Spec => []DisjointJobs`.

  Every ledger already sent is reingested, still ahead of a worker in its job, or at or above the
  lowest recorded error; jobs lie below `subRangeFrom`; the loop is only left early after an error
  was recorded.

**Captive core** (`CaptiveAssumption`): any checkpoint frequency, buffer, pipe, ranges and faults.

* `TypeCorrect`, `NothingLeft`, `StreamOrder`: `Spec => []TypeOK`, `[]NothingLeftBehind`,
  `[]StreamInOrder`; `AnswersAsSpecified`: `Spec => AnswersAsLedgerBackend`.

  `CallInv` ties the position of the caller to the session and the shutdown channel, `OwnerInv`
  says what is gone at each step of `Close`, `ErrorInv` that nothing can follow an error (the
  pipe it was read from is empty and the process has exited), and `OrderInv` gives every item of
  buffer, reader and pipe its ledger by position. That a session starts at a ledger at or before the one asked
  for needs the arithmetic of checkpoints (`RoundDown` and the lemmas after it).

**Remote captive core** (`RemoteAssumption`): any goroutines, ranges and faults.

* `TypeCorrect`, `ShutdownFinal`: `Spec => []TypeOK`, `[]ShutdownIsFinal`.

  Shutdown waits for the goroutines under the lock that a new request would need; with it goes
  that a client only ever asks for one of its ranges (`ClientInv`).

**Order book stream** (`StreamAssumption`): any offers, ledgers, builds, faults and compaction
window.

* `TypeCorrect`, `TableHoldsAllUpdates`, `GraphIsAccurate`: `Spec => []TypeOK`,
  `[]TableHoldsUpdates`, `[]GraphIsLedger`.

  `NetInv`: an offer is what it was when it was last modified. `RowInv`: a row agrees with the
  entry of the last ingested ledger, and a removal has no row only if the build came after it or
  compaction took it. `LedgersInv`: compaction stays the window behind. `StreamInv`: unless there
  was a rebuild, what an update read in its snapshot leads from the ledger of the graph to the
  ledger of the snapshot; this spans the steps between reading and applying, while ingestion
  goes on.

**Order book graph and prices** (`GraphAssumption`, `WidthAssumption`): any offers, assets, prices,
batches, ledgers and width of amounts.

* `BookIndexesAgree`, `BookAsksAreBest`: `Spec => []IndexesAgree`, `[]AsksAreBest`; `BookRefines`:
  `Spec => BookSpec`; `ConversionIsFair`: `Spec => []ConversionFair`; all from `BookInvariant`:
  `Spec => []IInv`.

  `IInv` says that nothing panicked and `Holds(graph, OfferMap)`: the graph is the book. The map of
  pairs has exactly the offers of the book, each with its pair; no key of an index is without
  offers; and the list of every pair, in both indexes, has exactly the offers of that pair, each
  once and sorted by price. That the indexes have the same offers is not inductive: `remove` looks
  an offer up through the map of pairs and panics when it is not in the list the pair names, and
  what it takes out is right only if no list has the offer twice. Sorting is part of it because
  `add` inserts before the first dearer offer.

  The argument goes up in four steps: insertion into and removal from one list (`EdgeAdd`,
  `EdgeRemove`); from one index; from the graph, where an update is a removal and an insertion; and
  a batch. `apply` is a fold over the batch, which `FoldRun` turns into a run, a sequence of graphs
  from before the first operation to after the last; `Holds` passes along it, each graph being the
  book changed by one more operation. For `BookRefines` this book is the one in which the last
  operation on an offer counts. `AsksAreBest` compares a cut through a sorted list with a count of
  distinct prices: `Levels` shows that the n-th price level of the list is the n-th smallest price.
  `ConversionIsFair` is integer arithmetic: division bounded from both sides, and the case of a
  price above one, where every unit of an offer is worth something.

**Transaction submission** (`TxSubAssumption`): any requests, transactions, accounts, queue sizes
and faults.

* `TypeCorrect`, `OneAnswer`, `WaitersKept`, `TrueAnswers`: `Spec => []TypeOK`, `[]AnsweredOnce`,
  `[]NoLostWaiter`, `[]AnswersAreTrue`; `Granted`: `Spec => GrantedInOrder`.

  `OpenInv`: a request is in the open list exactly between the end of `Submit` and its answer.
  `SeqInv`: every sequence number a queue is updated with, whoever read it and however late it is
  used, is in the ledger or belongs to a transaction hcnet-core took or deferred (`Known`, which is
  never lost). `ResInv`: what the database, and the snapshot a tick works from, say of a
  transaction is what the ledger says, which no later ledger changes.

**Streaming and reaper** (`StreamAssumption`): any ledgers, records, faults, connections, page
limit, and every retention below 2^31.

* `RetainedKept`, `InOrder`: `Spec => []RetainedIsKept`, `[]InOrderWithoutGaps`, both from
  `StreamInvariant`: `Spec => []IInv`.

  `CacheInv`: the cache, a half finished tick and the target of the reaper are never ahead of the
  latest ledger. `SentInv`: what the client handled followed by what is on the wire is in order
  and without a gap; `ServerInv` and `ClientInv` say where the server, and a new connection, go
  on. For `now` they add that until something is sent the server stands at the end of a ledger,
  so that the first page has no gap inside the ledger it begins with (`SameLedgerAfter`). That a page is a prefix of what is left (`PageFacts`) rests on `RankExists`: a finite set of
  identifiers has an element of every rank.

Induction. The library's induction theorems take the statement as an operator and cannot be used;
where induction over numbers is needed (`LargestLedger`, `RankExists`, and for the order book
`FoldExists`, `Batch` and `Levels`) the statement is turned into a set of numbers, which has a
least element (`WFMin`).

Only model-checked:

* everything under fairness (`CatchesUp`, `Terminates`, `PrepareAndCloseReturn`, `PollEnds`,
  `StreamHeals`, `EveryoneAnswered`, `RoomComesBack`, `TasksEnd`, `EveryRecordArrives`), which the
  prover does not reach;
* `PathsAreBest`: the search is a recursive operator, and `Reference` another one. What it takes
  from the graph (`AsksAreBest`) and from the arithmetic (`ConversionFair`) is proved;
* `StateIsLedger` and `VerdictExact` of `StateIngestion`: the state is a fold over the entries of
  the buckets, newest first, and over the changes of the ledgers after them, through a cache that
  squashes; the verdict compares sums over sets. Each fold would need its own induction, and the
  first one a description of all bucket lists that the archive can hold for a ledger.

## Assumptions and what is left out of the modules

* Reingestion is used on ledgers that ingestion has passed (`Launch`): a range above the top of
  history would make history that is not contiguous, which the command permits.
* The retries of `ReingestRange` are a choice between trying again and giving up, and its bounded
  captive core session is a backend that always has the ledger.
* `updateCursor` (a call to hcnet-core after a commit), metrics and logging are left out.
* A catch-up over captive core is modelled, but its progress is not claimed: `GetLedger` does not
  block on an unbounded session, so a ledger that is not yet in the buffer sends the machine back
  to start. `PrepareRange` of a ledger after `MaxLedger` waits, as it does for a ledger that is
  not closed yet.
* Requests of parallel reingestion start at ledger 1 or later.
* `StateIngestion` preloads a bucket in one batch (20000 entries in the code) and counts bytes in
  entries; a bucket whose hash is wrong is a bucket that cannot be read. The genesis reader, which
  returns one account, is not modelled.
* In `HistoryStream` the tables hold one kind of record.

## Not modelled

* `verifyRangeState` and `stressTestState`: single-process tools on an empty database that run
  the actions modelled in `Ingestion` in a loop.
* The transaction processors (operations, effects, participants, trades) and those of data,
  signers and claimable balances: translation of rows, with the batching that `StateIngestion`
  models for accounts and trust lines and no control of their own.
* Requests other than streams, resource adapters, pagination queries, protocols, `txnbuild` and
  the other clients: data conversion. A model would repeat the code field by field.
* Generated code (`xdr_generated.go`, `bindata.go`), `strkey`, `keypair`, `amount` and the support
  packages.
* Ticker, keystore, friendbot, federation, recovery signer, web auth and market tracker: separate
  services that share no state with Aurora. Apart from friendbot's pool of minions each is a
  handler in front of one table.
* Storage of the archive, its mirroring and repairing tools: I/O.

Most lines of the repository are of these kinds, and so the lines the map names are a small part
of it; they are those that carry state, order or concurrency.

## What could follow

1. Proofs about `StateIngestion`: that what `BucketReader` has not read yet, put under what it has,
   is always the state of the checkpoint; then the cache of changes as a function of the changes it
   was given.
2. The safety of a search that goes one edge at a time (visited assets, the balance left) without
   its optimality.
