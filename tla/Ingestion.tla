----------------------------- MODULE Ingestion -----------------------------
(***************************************************************************)
(* The ingestion state machine of Aurora                                   *)
(* (services/aurora/internal/ingest/fsm.go, main.go), run by several       *)
(* processes against one Aurora database.                                  *)
(*                                                                         *)
(* Every state of the machine runs in a database transaction that first    *)
(* takes the row lock on exp_ingest_last_ledger.  The model splits a run   *)
(* at the points where something else can happen: taking the lock, what is *)
(* decided from the locked values, each ledger processed, the commit.  The *)
(* writes of a transaction are a delta (tx) that reaches the database at   *)
(* the commit, so what they do depends on the tables they then meet.       *)
(***************************************************************************)
EXTENDS LedgerBackend

CONSTANTS
    Procs,        \* processes of the cluster: ingesting nodes and commands
    NoProc,       \* nobody holds the ingestion lock
    Version,      \* Version[p]: CurrentVersion of the binary p runs
    Commands,     \* Commands[p]: the machine states p may be launched in
    InitHistory,  \* latest history ledgers the database may start with
    InitIngested, \* last ingested ledgers the database may start with
    MaxFaults     \* bound on crashes and failed database calls

Versions == {Version[p] : p \in Procs}

Ledgers == 1..MaxLedger

-----------------------------------------------------------------------------
(* States of the machine.                                                  *)

NodeNames == {"down", "stop", "start", "build", "resume", "historyRange",
              "waitForCheckpoint", "reingest"}

States == [node : NodeNames, from : 0..MaxLedger, to : 0..MaxLedger, flag : BOOLEAN]

state(node, from, to, flag) == [node |-> node, from |-> from, to |-> to, flag |-> flag]

down == state("down", 0, 0, FALSE)
stop == state("stop", 0, 0, FALSE)
start == state("start", 0, 0, FALSE)
startSuggestedCheckpoint(cp) == state("start", cp, 0, FALSE)
rebuild(cp) == state("build", cp, 0, FALSE)
resume(l) == state("resume", l, 0, FALSE)
historyRange(f, t) == state("historyRange", f, t, FALSE)
waitForCheckPoint == state("waitForCheckpoint", 0, 0, FALSE)

(* Commands besides Run: BuildGenesisState and ReingestRange. *)
buildGenesis == state("build", 1, 0, TRUE)
reingestHistoryRange(f, t, force) == state("reingest", f, t, force)

(* Where a state goes when one of its database calls fails. *)
FailState(s) ==
    CASE s.node = "resume" -> s                                \* retryResume(r)
      [] s.node = "build" -> IF s.flag THEN stop ELSE start    \* nextFailState
      [] s.node = "reingest" -> stop
      [] OTHER -> start

TxKinds == {"none", "reset", "build", "ledger", "history", "reingest"}

(* A transaction's delta: its kind and the ledgers from..to it has written. *)
Txs == [kind : TxKinds, from : 0..(MaxLedger + 1), to : 0..(MaxLedger + 1)]

Tx(kind, from, to) == [kind |-> kind, from |-> from, to |-> to]
NoTx == Tx("none", 0, 0)

ASSUME IngestionAssumption ==
    /\ NoProc \notin Procs
    /\ Version \in [Procs -> Nat \ {0}]
    /\ Commands \in [Procs -> SUBSET States]
    /\ \A p \in Procs : \A c \in Commands[p] :
          \/ c \in {start, buildGenesis}
          \/ c.node = "reingest"
    /\ InitHistory \subseteq 0..MaxLedger
    /\ InitIngested \subseteq 0..MaxLedger
    /\ MaxLedger >= CheckpointFreq - 1
    /\ MaxFaults \in Nat

-----------------------------------------------------------------------------
VARIABLES
    (* The Aurora database. *)
    lastIngested,   \* exp_ingest_last_ledger
    ingestVersion,  \* exp_ingest_version
    stateInvalid,   \* exp_state_invalid
    tables,         \* the state tables: the ledger they hold, the versions
                    \* that wrote them, and whether a ledger was misapplied
    history,        \* history[l]: who wrote the history rows of ledger l
    lock,           \* holder of the row lock on exp_ingest_last_ledger
    (* The processes. *)
    cur,            \* cur[p]: the state p runs
    phase,          \* phase[p]: how far the run has got
    tx,             \* tx[p]: the uncommitted writes of p
    verifier,       \* verifier[p]: the state verification goroutine of p
    (* What they read. *)
    backend,        \* backend[p]: the ledger backend of p
    archive,        \* latest checkpoint in the history archive
    faults          \* crashes and failures so far

dbVars == <<lastIngested, ingestVersion, stateInvalid, tables, history>>
vars == <<dbVars, lock, cur, phase, tx, verifier, backend, archive, faults>>

TypeOK ==
    /\ lastIngested \in 0..MaxLedger
    /\ ingestVersion \in Versions \cup {0}
    /\ stateInvalid \in BOOLEAN
    /\ tables \in [ledger : 0..MaxLedger, writers : SUBSET Versions, corrupt : BOOLEAN]
    /\ history \in [Ledgers -> {"none", "live", "reingested"}]
    /\ lock \in Procs \cup {NoProc}
    /\ cur \in [Procs -> States]
    /\ phase \in [Procs -> {"idle", "locked", "staged", "preparing", "ranged"}]
    /\ tx \in [Procs -> Txs]
    /\ verifier \in [Procs -> {"idle", "spawned", "snapshot", "truncated", "failed"}]
    /\ backend \in [Procs -> Backends]
    /\ archive \in 0..MaxLedger
    /\ faults \in 0..MaxFaults

(* GetLatestLedger: l is the largest sequence in history_ledgers, or 0. *)
IsLatestLedger(l) ==
    /\ l # 0 => history[l] # "none"
    /\ \A k \in Ledgers : history[k] # "none" => k <= l

EmptyTables == [ledger |-> 0, writers |-> {}, corrupt |-> FALSE]

(* A database that was migrated and, possibly, ingested into before: by the old
   ingestion system (history only) or by this one, switched off since. *)
Init ==
    /\ \E h \in InitHistory : history = [l \in Ledgers |-> IF l <= h /\ l > 1 THEN "live" ELSE "none"]
    /\ \E i \in InitIngested, v \in Versions :
          /\ lastIngested = i
          /\ ingestVersion = IF i = 0 THEN 0 ELSE v
          /\ tables = IF i = 0 THEN EmptyTables
                      ELSE [ledger |-> i, writers |-> {v}, corrupt |-> FALSE]
    /\ stateInvalid = FALSE
    /\ lock = NoProc
    /\ cur = [p \in Procs |-> down]
    /\ phase = [p \in Procs |-> "idle"]
    /\ tx = [p \in Procs |-> NoTx]
    /\ verifier = [p \in Procs |-> "idle"]
    /\ backend = [p \in Procs |-> NewBackend]
    /\ archive = CheckpointFreq - 1
    /\ faults = 0

-----------------------------------------------------------------------------
(* Transitions of the machine.                                             *)

(* The run ends with transition s; the deferred Rollback frees the lock. *)
Return(p, s) ==
    /\ cur' = [cur EXCEPT ![p] = s]
    /\ phase' = [phase EXCEPT ![p] = "idle"]
    /\ tx' = [tx EXCEPT ![p] = NoTx]
    /\ lock' = IF lock = p THEN NoProc ELSE lock

(* The run ends with an error; ReingestRange may retry. *)
ReturnFailure(p) ==
    \/ Return(p, FailState(cur[p]))
    \/ cur[p].node = "reingest" /\ Return(p, cur[p])

(* The run goes on with uncommitted writes t. *)
Stage(p, t) ==
    /\ phase' = [phase EXCEPT ![p] = "staged"]
    /\ tx' = [tx EXCEPT ![p] = t]
    /\ UNCHANGED <<cur, lock>>

(* maybePrepareRange, range not prepared: the lock is released first. *)
ReleaseToPrepare(p, from) ==
    /\ phase' = [phase EXCEPT ![p] = "preparing"]
    /\ tx' = [tx EXCEPT ![p] = Tx("none", from, 0)]
    /\ lock' = NoProc
    /\ UNCHANGED cur

Running(p, node) == phase[p] = "locked" /\ cur[p].node = node

(* A process is started: aurora serving, or one of the commands.  Reingestion
   is used on ledgers that ingestion has passed, never ahead of it. *)
Launch(p) ==
    /\ cur[p] = down
    /\ \E c \in Commands[p] :
          /\ c.node = "reingest" => \E l \in Ledgers : l >= c.to /\ history[l] # "none"
          /\ cur' = [cur EXCEPT ![p] = c]
    /\ UNCHANGED <<dbVars, lock, phase, tx, verifier, backend, archive, faults>>

ValidArguments(s) ==
    CASE s.node \in {"build", "resume"} -> s.from # 0
      [] s.node \in {"historyRange", "reingest"} -> s.from # 0 /\ s.to # 0 /\ s.from <= s.to
      [] OTHER -> TRUE

InvalidArguments(p) ==
    /\ phase[p] = "idle"
    /\ ~ValidArguments(cur[p])
    /\ Return(p, IF cur[p].node = "resume" THEN start ELSE FailState(cur[p]))
    /\ UNCHANGED <<dbVars, verifier, backend, archive, faults>>

(* A state that runs in a transaction is about to begin it. *)
AtBegin(p) ==
    /\ \/ phase[p] = "idle" /\ cur[p].node \in {"start", "build", "resume", "historyRange"}
       \/ phase[p] = "ranged" /\ cur[p].flag
    /\ ValidArguments(cur[p])

(* Mutant of Begin: the row is read without FOR UPDATE. *)
BeginWithoutLock(p) ==
    /\ AtBegin(p)
    /\ lock' = p
    /\ phase' = [phase EXCEPT ![p] = "locked"]
    /\ UNCHANGED <<dbVars, cur, tx, verifier, backend, archive, faults>>

(* Begin and GetLastLedgerExpIngest: SELECT ... FOR UPDATE waits for the row. *)
Begin(p) ==
    /\ AtBegin(p)
    /\ lock = NoProc
    /\ lock' = p
    /\ phase' = [phase EXCEPT ![p] = "locked"]
    /\ UNCHANGED <<dbVars, cur, tx, verifier, backend, archive, faults>>

-----------------------------------------------------------------------------
(* startState.run                                                          *)

StartStop(p) ==
    /\ Running(p, "start")
    /\ ingestVersion > Version[p]
    /\ Return(p, stop)
    /\ UNCHANGED <<dbVars, verifier, backend, archive, faults>>

(* Empty state or a new version: catch history up with the checkpoint, wait for
   a checkpoint history has not passed, or build the state. *)
StartFromCheckpoint(p) ==
    /\ Running(p, "start")
    /\ ingestVersion <= Version[p]
    /\ ingestVersion # Version[p] \/ lastIngested = 0
    /\ \E lastHistory \in 0..MaxLedger :
          LET lastCheckpoint == IF cur[p].from # 0 THEN cur[p].from ELSE archive
          IN /\ IsLatestLedger(lastHistory)
             /\ Return(p, IF lastHistory = 0 \/ lastHistory = lastCheckpoint
                          THEN rebuild(lastCheckpoint)
                          ELSE IF lastHistory > lastCheckpoint THEN waitForCheckPoint
                          ELSE historyRange(lastHistory + 1, lastCheckpoint))
    /\ UNCHANGED <<dbVars, verifier, backend, archive, faults>>

(* Mutant of StartFromState: history ahead of the state is not reset. *)
StartFromStateWithoutReset(p) ==
    /\ Running(p, "start")
    /\ ingestVersion = Version[p] /\ lastIngested # 0
    /\ \E lastHistory \in 0..MaxLedger :
          /\ IsLatestLedger(lastHistory)
          /\ Return(p, IF lastHistory # 0 /\ lastHistory < lastIngested
                       THEN historyRange(lastHistory + 1, lastIngested)
                       ELSE resume(lastIngested))
    /\ UNCHANGED <<dbVars, verifier, backend, archive, faults>>

(* State of this version exists: reset it when history is ahead of it, catch
   history up when it is behind, and otherwise resume. *)
StartFromState(p) ==
    /\ Running(p, "start")
    /\ ingestVersion = Version[p] /\ lastIngested # 0
    /\ \E lastHistory \in 0..MaxLedger :
          /\ IsLatestLedger(lastHistory)
          /\ \/ /\ lastHistory > lastIngested
                /\ Stage(p, Tx("reset", 0, 0))
             \/ /\ lastHistory # 0 /\ lastHistory < lastIngested
                /\ Return(p, historyRange(lastHistory + 1, lastIngested))
             \/ /\ lastHistory \in {0, lastIngested}
                /\ Return(p, resume(lastIngested))
    /\ UNCHANGED <<dbVars, verifier, backend, archive, faults>>

WaitForCheckpoint(p) ==
    /\ cur[p] = waitForCheckPoint
    /\ Return(p, start)
    /\ UNCHANGED <<dbVars, verifier, backend, archive, faults>>

-----------------------------------------------------------------------------
(* buildState.run                                                          *)

(* Another instance completed the build. *)
BuildSkip(p) ==
    /\ Running(p, "build")
    /\ ingestVersion = Version[p] /\ lastIngested > 0
    /\ Return(p, FailState(cur[p]))
    /\ UNCHANGED <<dbVars, verifier, backend, archive, faults>>

(* The tables are truncated and filled from the checkpoint.  Ledger 1 is
   generated; another ledger is checked against its header in the backend. *)
BuildFromCheckpoint(p, cp, b) ==
    IF cp # 1 /\ ~IsPrepared(b, cp)
    THEN ReleaseToPrepare(p, cp) /\ UNCHANGED backend
    ELSE /\ backend' = [backend EXCEPT ![p] = IF cp = 1 THEN b ELSE GetLedger(b, cp)]
         /\ IF cp = 1 \/ GetLedgerResult(b, cp) = "found"
            THEN Stage(p, Tx("build", cp, cp))
            ELSE Return(p, FailState(cur[p]))

(* Mutant of BuildState: no double check under the lock. *)
BuildStateUnchecked(p) ==
    /\ Running(p, "build")
    /\ BuildFromCheckpoint(p, cur[p].from, backend[p])
    /\ UNCHANGED <<dbVars, verifier, archive, faults>>

(* The double check: no state of this version exists. *)
BuildState(p) ==
    /\ Running(p, "build")
    /\ ~(ingestVersion = Version[p] /\ lastIngested > 0)
    /\ BuildFromCheckpoint(p, cur[p].from, backend[p])
    /\ UNCHANGED <<dbVars, verifier, archive, faults>>

-----------------------------------------------------------------------------
(* resumeState.run                                                         *)

(* Mutant of MustRestart: what history holds is not compared with the state. *)
MustRestartIgnoringHistory(p) ==
    cur[p].from > lastIngested \/ ingestVersion # Version[p]

(* The database is not where this process left it. *)
MustRestart(p) ==
    \/ cur[p].from > lastIngested
    \/ ingestVersion # Version[p]
    \/ \E h \in Ledgers : IsLatestLedger(h) /\ h # lastIngested

ResumeGoBack(p) ==
    /\ Running(p, "resume")
    /\ MustRestart(p)
    /\ Return(p, start)
    /\ UNCHANGED <<dbVars, verifier, backend, archive, faults>>

(* Mutant of ResumeLedger: whether the ledger is closed is not checked. *)
ResumeLedgerNotClosed(p) ==
    /\ Running(p, "resume")
    /\ ~MustRestart(p)
    /\ Stage(p, Tx("ledger", lastIngested + 1, lastIngested + 1))
    /\ UNCHANGED <<dbVars, verifier, backend, archive, faults>>

(* The ledger after the last ingested one (the requested one, or bumped to it)
   is prepared, waited for, or processed. *)
ResumeLedger(p) ==
    /\ Running(p, "resume")
    /\ ~MustRestart(p)
    /\ LET ingestLedger == lastIngested + 1
           b == backend[p]
           latestLedgerCore == GetLatestLedgerSequence(b)
       IN \/ /\ ~IsPrepared(b, ingestLedger)
             /\ ReleaseToPrepare(p, ingestLedger)
             /\ UNCHANGED backend
          \/ /\ IsPrepared(b, ingestLedger)
             /\ ~HasLatestLedger(b)
             /\ Return(p, cur[p])
             /\ UNCHANGED backend
          \/ /\ IsPrepared(b, ingestLedger) /\ HasLatestLedger(b)
             /\ latestLedgerCore < ingestLedger
             /\ backend' = [backend EXCEPT ![p] = GetLedger(b, latestLedgerCore)]
             /\ Return(p, IF GetLedgerResult(b, latestLedgerCore) = "error"
                          THEN cur[p] ELSE resume(latestLedgerCore))
          \/ /\ IsPrepared(b, ingestLedger) /\ HasLatestLedger(b)
             /\ latestLedgerCore >= ingestLedger
             /\ backend' = [backend EXCEPT ![p] = GetLedger(b, ingestLedger)]
             /\ IF GetLedgerResult(b, ingestLedger) = "found"
                THEN Stage(p, Tx("ledger", ingestLedger, ingestLedger))
                ELSE Return(p, cur[p])
    /\ UNCHANGED <<dbVars, verifier, archive, faults>>

-----------------------------------------------------------------------------
(* historyRangeState.run and the forced reingestHistoryRangeState.run: all    *)
(* ledgers of the range in one transaction.                                *)

(* Mutant of HistoryRange: the loop over the range starts one ledger late. *)
HistoryRangeFromSecond(p) ==
    /\ Running(p, "historyRange")
    /\ IsLatestLedger(cur[p].from - 1)
    /\ Stage(p, Tx("history", cur[p].from + 1, cur[p].from))
    /\ UNCHANGED <<dbVars, verifier, backend, archive, faults>>

HistoryRange(p) ==
    /\ Running(p, "historyRange")
    /\ LET from == cur[p].from
       IN \/ /\ ~IsLatestLedger(from - 1)
             /\ Return(p, start)
          \/ /\ IsLatestLedger(from - 1)
             /\ ~IsPrepared(backend[p], from)
             /\ ReleaseToPrepare(p, from)
          \/ /\ IsLatestLedger(from - 1)
             /\ IsPrepared(backend[p], from)
             /\ Stage(p, Tx("history", from, from - 1))
    /\ UNCHANGED <<dbVars, verifier, backend, archive, faults>>

ReingestForced(p) ==
    /\ Running(p, "reingest")
    /\ \/ /\ tx[p].from <= cur[p].to
          /\ Stage(p, Tx("reingest", tx[p].from, tx[p].to))
       \/ /\ tx[p].from > cur[p].to       \* LedgerRangeInclusive: invalid range
          /\ \E s \in {stop, cur[p]} : Return(p, s)
    /\ UNCHANGED <<dbVars, verifier, backend, archive, faults>>

(* runTransactionProcessorsOnLedger on the next ledger of the range.  The bounded
   session of a reingestion blocks until it has the ledger. *)
ProcessLedger(p) ==
    /\ phase[p] = "staged"
    /\ tx[p].kind \in {"history", "reingest"}
    /\ tx[p].to < cur[p].to
    /\ LET ledger == tx[p].to + 1
           b == backend[p]
       IN IF tx[p].kind = "reingest"
          THEN Stage(p, [tx[p] EXCEPT !.to = ledger]) /\ UNCHANGED backend
          ELSE /\ backend' = [backend EXCEPT ![p] = GetLedger(b, ledger)]
               /\ IF GetLedgerResult(b, ledger) = "found"
                  THEN Stage(p, [tx[p] EXCEPT !.to = ledger])
                  ELSE Return(p, start)
    /\ UNCHANGED <<dbVars, verifier, archive, faults>>

-----------------------------------------------------------------------------
(* PrepareRange, outside the lock.                                         *)

(* A range that starts after the last ledger of the network is waited for. *)
PrepareRange(p) ==
    /\ phase[p] = "preparing"
    /\ tx[p].from <= MaxLedger
    /\ CanOpenOnline(tx[p].from, archive)
    /\ backend' = [backend EXCEPT ![p] = OpenOnline(Close(@), tx[p].from)]
    /\ Return(p, IF cur[p].node = "build" THEN startSuggestedCheckpoint(cur[p].from) ELSE start)
    /\ UNCHANGED <<dbVars, verifier, archive, faults>>

(* hcnet-core cannot be opened, or the fast-forward meets an error: no session is
   left.  A process found to have exited when the first ledger is there leaves the
   session open, with what the buffer holds before the exit. *)
PrepareRangeError(p) ==
    /\ phase[p] = "preparing"
    /\ LET closed == Close(backend[p])
           opened == OpenOnline(closed, tx[p].from)
       IN \/ /\ ~CanOpenOnline(tx[p].from, archive)
             /\ backend' = [backend EXCEPT ![p] = closed]
             /\ UNCHANGED faults
          \/ /\ faults < MaxFaults /\ faults' = faults + 1
             /\ backend' = [backend EXCEPT ![p] = closed]
          \/ /\ faults < MaxFaults /\ faults' = faults + 1
             /\ CanOpenOnline(tx[p].from, archive) /\ tx[p].from <= MaxLedger
             /\ \E n \in 0..(ReadAhead - 1) :
                   /\ opened.next + n <= MaxLedger + 1
                   /\ backend' = [backend EXCEPT ![p] =
                                     Break([opened EXCEPT !.latest = opened.next + n - 1], 1)]
    /\ Return(p, start)
    /\ UNCHANGED <<dbVars, verifier, archive>>

-----------------------------------------------------------------------------
(* reingestHistoryRangeState.run                                           *)

(* The bounded range is prepared; without --force the range must end before the
   last ingested ledger.  ReingestRange retries what failed, or gives up. *)
ReingestPrepare(p) ==
    /\ phase[p] = "idle" /\ cur[p].node = "reingest"
    /\ ValidArguments(cur[p])
    /\ LET from == IF cur[p].from = 1 THEN 2 ELSE cur[p].from
       IN IF ~cur[p].flag /\ lastIngested > 0 /\ cur[p].to >= lastIngested
          THEN \E s \in {stop, cur[p]} : Return(p, s)
          ELSE /\ phase' = [phase EXCEPT ![p] = "ranged"]
               /\ tx' = [tx EXCEPT ![p] = Tx("none", from, from - 1)]
               /\ UNCHANGED <<cur, lock>>
    /\ UNCHANGED <<dbVars, verifier, backend, archive, faults>>

(* The rows of ledgers f..t are written. *)
WriteHistory(f, t, kind) == [l \in Ledgers |-> IF l \in f..t THEN kind ELSE history[l]]

(* Without --force each ledger is deleted and ingested again in a transaction of
   its own, without the lock. *)
ReingestLedger(p) ==
    /\ phase[p] = "ranged" /\ ~cur[p].flag
    /\ IF tx[p].to < cur[p].to
       THEN /\ history' = WriteHistory(tx[p].to + 1, tx[p].to + 1, "reingested")
            /\ tx' = [tx EXCEPT ![p] = Tx("none", tx[p].from, tx[p].to + 1)]
            /\ UNCHANGED <<cur, phase, lock>>
       ELSE Return(p, stop) /\ UNCHANGED history
    /\ UNCHANGED <<lastIngested, ingestVersion, stateInvalid, tables, verifier,
                   backend, archive, faults>>

-----------------------------------------------------------------------------
(* Commit.                                                                 *)

Complete(p) ==
    /\ phase[p] = "staged"
    /\ tx[p].kind \in {"history", "reingest"} => tx[p].to = cur[p].to

(* The change processors apply ledger l to the tables they find. *)
ApplyLedger(p, l) ==
    [ledger  |-> l,
     writers |-> tables.writers \cup {Version[p]},
     corrupt |-> tables.corrupt \/ tables.ledger # l - 1]

(* The database after the commit. *)
CommitWrites(p) ==
    LET t == tx[p]
    IN CASE t.kind = "reset" ->
              /\ lastIngested' = 0
              /\ UNCHANGED <<ingestVersion, stateInvalid, tables, history>>
         [] t.kind = "build" ->
              /\ lastIngested' = t.to
              /\ ingestVersion' = Version[p]
              /\ stateInvalid' = FALSE
              /\ tables' = [ledger |-> t.to, writers |-> {Version[p]}, corrupt |-> FALSE]
              /\ UNCHANGED history
         [] t.kind = "ledger" ->
              /\ lastIngested' = t.to
              /\ tables' = ApplyLedger(p, t.to)
              /\ history' = WriteHistory(t.to, t.to, "live")
              /\ UNCHANGED <<ingestVersion, stateInvalid>>
         [] t.kind \in {"history", "reingest"} ->
              /\ history' = WriteHistory(t.from, t.to, IF t.kind = "history" THEN "live" ELSE "reingested")
              /\ UNCHANGED <<lastIngested, ingestVersion, stateInvalid, tables>>

(* The state a completed run continues with. *)
NextState(p) ==
    CASE tx[p].kind = "build" /\ ~cur[p].flag -> resume(tx[p].to)
      [] tx[p].kind = "ledger" -> resume(tx[p].to)              \* resumeImmediately
      [] tx[p].kind \in {"reset", "history"} -> start
      [] OTHER -> stop

(* A verifier that took its snapshot before TRUNCATE will find no rows: TRUNCATE
   is not MVCC-safe. *)
AfterCommit(p) ==
    IF tx[p].kind = "build"
    THEN [q \in Procs |-> IF verifier[q] = "snapshot" THEN "truncated" ELSE verifier[q]]
    ELSE verifier

(* A ledger at a checkpoint spawns a verification, unless the state is known to
   be invalid; a second one exits at once. *)
MaybeVerifyState(p) ==
    IF tx[p].kind = "ledger" /\ IsCheckpoint(tx[p].to) /\ ~stateInvalid /\ verifier[p] = "idle"
    THEN [verifier EXCEPT ![p] = "spawned"]
    ELSE AfterCommit(p)

Commit(p) ==
    /\ Complete(p)
    /\ CommitWrites(p)
    /\ verifier' = MaybeVerifyState(p)
    /\ Return(p, NextState(p))
    /\ UNCHANGED <<backend, archive, faults>>

(* The commit takes effect but its acknowledgement is lost: the process sees an
   error. *)
CommitUnacknowledged(p) ==
    /\ faults < MaxFaults
    /\ Complete(p)
    /\ CommitWrites(p)
    /\ verifier' = AfterCommit(p)
    /\ ReturnFailure(p)
    /\ faults' = faults + 1
    /\ UNCHANGED <<backend, archive>>

-----------------------------------------------------------------------------
(* Failures.                                                               *)

(* A database call, the archive or a processor fails: the transaction is rolled
   back. *)
RunError(p) ==
    /\ faults < MaxFaults
    /\ phase[p] # "preparing"
    /\ cur[p].node \in {"start", "build", "resume", "historyRange", "reingest"}
    /\ ReturnFailure(p)
    /\ faults' = faults + 1
    /\ UNCHANGED <<dbVars, verifier, backend, archive>>

(* The captive core stream of p breaks: GetLedger will meet an error. *)
StreamBreaks(p) ==
    /\ faults < MaxFaults
    /\ CanBreak(backend[p])
    /\ \E n \in 1..Room(backend[p]) : backend' = [backend EXCEPT ![p] = Break(@, n)]
    /\ faults' = faults + 1
    /\ UNCHANGED <<dbVars, lock, cur, phase, tx, verifier, archive>>

(* The process dies; the database rolls its transaction back.  The ledgers of a
   core database survive it, a captive core session does not. *)
Crash(p) ==
    /\ faults < MaxFaults
    /\ cur[p].node \notin {"down", "stop"}
    /\ Return(p, down)
    /\ verifier' = [verifier EXCEPT ![p] = "idle"]
    /\ backend' = [backend EXCEPT ![p] = IF Captive THEN NewBackend ELSE @]
    /\ faults' = faults + 1
    /\ UNCHANGED <<dbVars, archive>>

-----------------------------------------------------------------------------
(* verifyState, in its own goroutine and repeatable-read snapshot.         *)

VerifierBegin(p) ==
    /\ verifier[p] = "spawned"
    /\ verifier' = [verifier EXCEPT ![p] =
                      IF IsCheckpoint(lastIngested) /\ lastIngested >= archive
                      THEN "snapshot" ELSE "idle"]
    /\ UNCHANGED <<dbVars, lock, cur, phase, tx, backend, archive, faults>>

TruncateLockHeld == \E q \in Procs : phase[q] = "staged" /\ tx[q].kind = "build"

(* The tables are compared with the archive; the reads wait for a TRUNCATE.  A
   difference is a StateError, any other error only ends the verification. *)
VerifierCompare(p) ==
    /\ verifier[p] \in {"snapshot", "truncated"}
    /\ ~TruncateLockHeld
    /\ \E v \in {"idle"} \cup (IF verifier[p] = "truncated" \/ tables.corrupt THEN {"failed"} ELSE {}) :
          verifier' = [verifier EXCEPT ![p] = v]
    /\ UNCHANGED <<dbVars, lock, cur, phase, tx, backend, archive, faults>>

(* markStateInvalid; the build transaction holds the row it updated. *)
MarkStateInvalid(p) ==
    /\ verifier[p] = "failed"
    /\ ~TruncateLockHeld
    /\ stateInvalid' = TRUE
    /\ verifier' = [verifier EXCEPT ![p] = "idle"]
    /\ UNCHANGED <<lastIngested, ingestVersion, tables, history, lock, cur, phase, tx,
                   backend, archive, faults>>

-----------------------------------------------------------------------------
(* hcnet-core and the history archive.                                     *)

CoreDelivers(p) ==
    /\ CanDeliver(backend[p])
    /\ backend' = [backend EXCEPT ![p] = Deliver(@)]
    /\ UNCHANGED <<dbVars, lock, cur, phase, tx, verifier, archive, faults>>

PublishCheckpoint ==
    /\ archive + CheckpointFreq <= MaxLedger
    /\ archive' = archive + CheckpointFreq
    /\ UNCHANGED <<dbVars, lock, cur, phase, tx, verifier, backend, faults>>

-----------------------------------------------------------------------------
Step(p) ==
    \/ InvalidArguments(p)
    \/ StartStop(p) \/ StartFromCheckpoint(p) \/ StartFromState(p) \/ WaitForCheckpoint(p)
    \/ BuildSkip(p) \/ BuildState(p)
    \/ ResumeGoBack(p) \/ ResumeLedger(p)
    \/ HistoryRange(p) \/ ReingestForced(p) \/ ProcessLedger(p)
    \/ PrepareRange(p) \/ PrepareRangeError(p)
    \/ ReingestPrepare(p) \/ ReingestLedger(p)
    \/ Commit(p)

Verification(p) == VerifierBegin(p) \/ VerifierCompare(p) \/ MarkStateInvalid(p)

Failure(p) == CommitUnacknowledged(p) \/ RunError(p) \/ StreamBreaks(p) \/ Crash(p)

Next ==
    \/ \E p \in Procs : Launch(p) \/ Begin(p) \/ Step(p) \/ Verification(p) \/ Failure(p)
                        \/ CoreDelivers(p)
    \/ PublishCheckpoint

(* Processes run and are restarted, the row lock is granted to whoever keeps
   waiting for it, hcnet-core and the archive make progress. *)
Fairness ==
    /\ \A p \in Procs : /\ WF_vars(Launch(p))
                        /\ SF_vars(Begin(p))
                        /\ WF_vars(Step(p))
                        /\ WF_vars(CoreDelivers(p))
    /\ WF_vars(PublishCheckpoint)

Spec == Init /\ [][Next]_vars

FairSpec == Spec /\ Fairness

-----------------------------------------------------------------------------
(* Properties.                                                             *)

(* The state tables hold exactly the ledger that exp_ingest_last_ledger names,
   every ledger was applied once and in order, and only binaries of the version
   in exp_ingest_version wrote them: what the lock and the version checks of
   buildState and resumeState are for. *)
StateMatchesLedger ==
    lastIngested > 0 => /\ tables.ledger = lastIngested
                        /\ tables.writers = {ingestVersion}
                        /\ ~tables.corrupt

(* Between a ledger ingested live and any later ledger of the history tables no
   ledger is missing, whatever catch-ups, rebuilds and reingestions are under
   way (historyRangeState, resumeState, reingestHistoryRangeState). *)
NoHistoryGap ==
    \A a, l, b \in Ledgers :
        a < l /\ l < b /\ history[a] = "live" /\ history[b] # "none" => history[l] # "none"

(* exp_state_invalid is only set for tables that are wrong (markStateInvalid):
   a fresh state is never condemned by a verification of an older one. *)
OnlyWrongStateIsInvalid == stateInvalid => tables.corrupt

(* The committed database changes only as Durable allows. *)
D == INSTANCE Durable
DurableSpec == D!DurableSpec

(* Ingestion catches up with the network, whatever database it starts on and
   however its backend is prepared (Run, "ingestion supports distributed
   ingestion"). *)
CatchesUp == <>(lastIngested = MaxLedger)

-----------------------------------------------------------------------------
(* What the code says of itself and does not keep; the README lists the cases.  *)

(* startState terminates a binary that meets a newer ingestion version, so the
   version in the database never goes back. *)
VersionNeverDowngraded == [][ingestVersion' >= ingestVersion]_vars

(* A range that PrepareRange prepared without an error is prepared when
   maybePrepareRange asks again. *)
PreparedAfterPrepareRange ==
    [][\A p \in Procs :
         phase[p] = "preparing" /\ phase'[p] = "idle" /\ backend'[p].next # 0 /\ faults' = faults
            => IsPrepared(backend'[p], tx[p].from)]_vars

(* A resumed process that waits for a ledger has taken everything the captive
   core buffer held, so hcnet-core can go on. *)
WaitingEmptiesBuffer ==
    [][\A p \in Procs :
         (/\ Running(p, "resume") /\ cur'[p].node = "resume" /\ phase'[p] = "idle"
          /\ lastIngested' = lastIngested /\ faults' = faults /\ backend'[p].next # 0)
            => backend'[p].next > backend'[p].latest]_vars

-----------------------------------------------------------------------------
(* The inductive invariant behind the safety properties.                   *)

(* Whoever is inside a locked transaction holds the row, with arguments that
   were validated; a reingestion stays below the top of history. *)
PhaseInv(p) ==
    /\ cur[p].node = "down" => phase[p] = "idle"
    /\ phase[p] \in {"locked", "staged"} => lock = p
    /\ phase[p] \in {"locked", "staged", "ranged"} => ValidArguments(cur[p])
    /\ phase[p] = "preparing" => cur[p].node # "reingest"
    /\ phase[p] = "ranged" => cur[p].node = "reingest"
    /\ phase[p] \in {"locked", "ranged"} /\ cur[p].node = "reingest" =>
          tx[p].from \in 2..(MaxLedger + 1) /\ tx[p].to \in (tx[p].from - 1)..MaxLedger
    /\ cur[p].node = "reingest" =>
          \E r \in Ledgers : r >= cur[p].to /\ history[r] # "none"

(* What was read under the lock still holds when the transaction commits. *)
StagedInv(p) ==
    phase[p] = "staged" =>
        /\ tx[p].kind # "none"
        /\ tx[p].kind = "build" =>
              /\ tx[p].to \in Ledgers
              /\ lastIngested = 0 \/ ingestVersion # Version[p]
        /\ tx[p].kind = "ledger" =>
              /\ tx[p].to = lastIngested + 1 /\ tx[p].to \in Ledgers /\ lastIngested > 0
              /\ ingestVersion = Version[p]
              /\ \A r \in Ledgers : history[r] # "none" => r <= lastIngested /\ history[lastIngested] # "none"
        /\ tx[p].kind = "history" =>
              /\ cur[p].node = "historyRange"
              /\ tx[p].from = cur[p].from
              /\ tx[p].to \in (tx[p].from - 1)..cur[p].to
              /\ IsLatestLedger(tx[p].from - 1)
        /\ tx[p].kind = "reingest" =>
              /\ cur[p].node = "reingest"
              /\ tx[p].from \in 2..cur[p].to
              /\ tx[p].to \in (tx[p].from - 1)..MaxLedger

ProcInv == \A p \in Procs : PhaseInv(p) /\ StagedInv(p)

IInv == TypeOK /\ ProcInv /\ StateMatchesLedger /\ NoHistoryGap
=============================================================================
