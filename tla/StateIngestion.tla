--------------------------- MODULE StateIngestion ---------------------------
(***************************************************************************)
(* The state tables of Aurora: how they are filled from a history archive  *)
(* (RunHistoryArchiveIngestion), kept up to date from the meta of every    *)
(* ledger (runChangeProcessorOnLedger) and compared with a later           *)
(* checkpoint (verifyState).                                               *)
(*                                                                         *)
(* Entries are accounts and trust lines of one asset; the asset's row in   *)
(* the asset statistics follows from its authorised trust lines.  Data,    *)
(* offers and claimable balances go through processors of the same shape.  *)
(* A build and the ingestion of a ledger are each one database             *)
(* transaction.  Verification reads a repeatable-read snapshot while       *)
(* ingestion goes on.                                                      *)
(***************************************************************************)
EXTENDS BucketReader, Integers, Functions, TLC

CONSTANTS
    Accounts, Lines,    \* the ledger keys of the two kinds
    Values,             \* contents of an entry, [auth, balance]
    Past,               \* Past[i]: what an entry written in the i-th ledger of
                        \* the archive holds
    BatchSizes,         \* values of maxBatchSize, 100000 in the code
    VerifyBatchSize,    \* verifyBatchSize
    MaxChanges          \* bound: number of changes in each of the ledgers after the
                        \* build, as many as this sequence is long

ASSUME KeysAssumption == Keys = Accounts \union Lines /\ Accounts \intersect Lines = {}

VARIABLES
    checkpoint, \* entries of the ledger the state is built from
    ledger,     \* entries after the last ledger the database has seen
    meta,       \* the next ledger, as core closes it
    changes,    \* number of changes core made in this ledger
    ledgers,    \* ledgers ingested since the build
    db,         \* committed state: rows and the asset's statistics
    work,       \* the transaction of a build
    task,       \* what reads from the reader: nothing, a build, a verification
    verifier,   \* the StateVerifier and the snapshot it works on
    alarm,      \* a StateError stopped the ingestion
    corrupted   \* a row was changed behind the back of ingestion

buildVars == <<checkpoint, work>>
coreVars  == <<ledger, meta, changes, ledgers>>
vars == <<readerVars, buildVars, coreVars, db, task, verifier, alarm, corrupted>>

NoEntries == [k \in Keys |-> None]

-----------------------------------------------------------------------------
(* External: the ledgers up to the checkpoint and their buckets.           *)

Effects == {"none", "create", "update", "remove"}
Ledgers == 1 .. Len(Past)

\* The entry a history leaves behind after its first i ledgers.
LastEffect(h, i) == {j \in 1 .. i : h[j] # "none"}
EntryAfter(h, i) ==
    LET written == LastEffect(h, i)
    IN  IF written = {} \/ h[Max(written)] = "remove" THEN None ELSE Past[Max(written)]

Histories ==
    {h \in [Ledgers -> Effects] : \A i \in Ledgers :
        /\ h[i] = "create" => EntryAfter(h, i - 1) = None
        /\ h[i] \in {"update", "remove"} => EntryAfter(h, i - 1) # None}

\* What the ledgers up to the checkpoint did to every key.  Every account was
\* created in the first one and not touched since.
Archives ==
    {a \in [Keys -> Histories] : \A k \in Accounts :
        a[k] = [i \in Ledgers |-> IF i = 1 THEN "create" ELSE "none"]}

\* The bucket of the ledgers lo..hi: what merging their entries leaves (CAP-20).
\* Before the ledger cap20 a created entry is a LIVEENTRY.
MergedBucket(archive, lo, hi, cap20) ==
    LET Written(k) == {i \in lo .. hi : archive[k][i] # "none"}
        Born(k)    == LET first == Min(Written(k))
                      IN  archive[k][first] = "create" /\ first >= cap20
        Dead(k)    == archive[k][Max(Written(k))] = "remove"
        Type(k)    == CASE Dead(k) -> "DEAD" [] Born(k) -> "INIT" [] OTHER -> "LIVE"
        kept       == {k \in Keys : Written(k) # {} /\ ~(Dead(k) /\ Born(k))}
    IN  Bucket({BucketEntry(Type(k), k, EntryAfter(archive[k], hi)) : k \in kept}, hi >= cap20)

\* Buckets end at the ledgers in cuts; the newest comes first.
BucketList(archive, cuts, cap20) ==
    LET ends == SetToSortSeq(cuts \union {Len(Past)}, LAMBDA i, j : i > j)
        Start(n) == IF n = Len(ends) THEN 1 ELSE ends[n + 1] + 1
    IN  [n \in 1 .. Len(ends) |-> MergedBucket(archive, Start(n), ends[n], cap20)]

\* The buckets of a later checkpoint: one for all that was there at the build,
\* one for what changed since.
LaterBuckets(old, new) ==
    LET Type(k) == CASE new[k] = None -> "DEAD" [] old[k] = None -> "INIT" [] OTHER -> "LIVE"
    IN  << Bucket({BucketEntry(Type(k), k, new[k]) : k \in {k \in Keys : old[k] # new[k]}}, TRUE),
           Bucket({BucketEntry("INIT", k, old[k]) : k \in {k \in Keys : old[k] # None}}, TRUE) >>

EntriesOf(archive) == [k \in Keys |-> EntryAfter(archive[k], Len(Past))]

-----------------------------------------------------------------------------
(* LedgerEntryChangeCache: one change for every entry touched in a batch.  *)

Change(k, pre, post) == [key |-> k, pre |-> pre, post |-> post]

Put(cache, c, pre) == [j \in DOMAIN cache \union {c.key} |->
                         IF j = c.key THEN [pre |-> pre, post |-> c.post] ELSE cache[j]]

\* An entry that exists is created, or one that was removed is changed: the
\* cache answers with a StateError.
Unexpected(cache, c) ==
    /\ c.key \in DOMAIN cache
    /\ (c.pre = None) = (cache[c.key].post # None)

\* The first change of an entry is stored as it is; a later one keeps the first
\* one's Pre, the entry as the database has it.
AddCreated(cache, c) ==
    IF c.key \in DOMAIN cache THEN Put(cache, c, cache[c.key].pre) ELSE Put(cache, c, None)

AddUpdated(cache, c) ==
    IF c.key \in DOMAIN cache THEN Put(cache, c, cache[c.key].pre) ELSE Put(cache, c, c.pre)

\* Created and removed in one batch is no change at all.
AddRemoved(cache, c) ==
    IF c.key \notin DOMAIN cache THEN Put(cache, c, c.pre)
    ELSE IF cache[c.key].pre = None THEN Restrict(cache, DOMAIN cache \ {c.key})
    ELSE Put(cache, c, cache[c.key].pre)

AddChange(cache, c) ==
    CASE c.pre = None  -> AddCreated(cache, c)
      [] c.post = None -> AddRemoved(cache, c)
      [] OTHER         -> AddUpdated(cache, c)

-----------------------------------------------------------------------------
(* AssetStatSet and the asset statistics of one asset: None or a record.   *)

Authorized(v) == v # None /\ v.auth

AddDelta(set, balance, accounts) ==
    LET old == IF set = None THEN [amount |-> 0, accounts |-> 0] ELSE set
        new == [amount |-> old.amount + balance, accounts |-> old.accounts + accounts]
    IN  IF new.amount = 0 /\ new.accounts = 0 THEN None ELSE new

AdjustAssetStat(set, pre, post) ==
    CASE Authorized(pre) /\ Authorized(post)  -> AddDelta(set, post.balance - pre.balance, 0)
      [] Authorized(pre) /\ ~Authorized(post) -> AddDelta(set, -pre.balance, -1)
      [] ~Authorized(pre) /\ Authorized(post) -> AddDelta(set, post.balance, 1)
      [] OTHER                                -> set

-----------------------------------------------------------------------------
(* The change processors, in the order of buildChangeProcessor: accounts,  *)
(* asset statistics, trust lines.  Each has a cache of its own.            *)

NoChanges == [k \in {} |-> None]

Transaction(rows, stats, insertOnly, maxBatchSize) ==
    [ rows |-> rows, stats |-> stats, insertOnly |-> insertOnly, failed |-> FALSE,
      maxBatchSize |-> maxBatchSize,
      accounts |-> NoChanges, lines |-> NoChanges, assets |-> NoChanges, set |-> None ]

Failed(tx) == [tx EXCEPT !.failed = TRUE]

\* TrustLinesProcessor.Commit: removed entries are deleted one by one and must be
\* there, the others are upserted.
CommitRows(tx, cache) ==
    LET gone == {k \in DOMAIN cache : cache[k].post = None}
    IN  IF \E k \in gone : tx.rows[k] = None THEN Failed(tx)
        ELSE [tx EXCEPT !.rows = [k \in Keys |-> IF k \in DOMAIN cache THEN cache[k].post
                                                 ELSE tx.rows[k]]]

AccountChanged(c) == c.pre # c.post

\* AccountsProcessor.Commit does the same for the accounts that did change.
CommitAccounts(tx, cache) ==
    CommitRows(tx, Restrict(cache, {k \in DOMAIN cache : AccountChanged(cache[k])}))

\* The deltas of the cached changes added to the row of the asset.
CommitStats(tx) ==
    LET delta == FoldSet(LAMBDA k, set : AdjustAssetStat(set, tx.assets[k].pre, tx.assets[k].post),
                         tx.set, DOMAIN tx.assets)
        sum   == [amount |-> tx.stats.amount + delta.amount,
                  accounts |-> tx.stats.accounts + delta.accounts]
    IN  CASE tx.insertOnly     -> [tx EXCEPT !.stats = tx.set]
          [] delta = None      -> tx
          [] tx.stats = None   -> IF delta.accounts < 0 THEN Failed(tx)
                                  ELSE [tx EXCEPT !.stats = delta]
          [] sum.accounts = 0  -> IF sum.amount # 0 THEN Failed(tx)
                                  ELSE [tx EXCEPT !.stats = None]
          [] OTHER             -> [tx EXCEPT !.stats = sum]

Full(tx, cache) == Cardinality(DOMAIN cache) > tx.maxBatchSize

ProcessAccount(tx, c) ==
    IF Unexpected(tx.accounts, c) THEN Failed(tx)
    ELSE LET cache == AddChange(tx.accounts, c)
         IN  IF Full(tx, cache) THEN [CommitAccounts(tx, cache) EXCEPT !.accounts = NoChanges]
             ELSE [tx EXCEPT !.accounts = cache]

\* From an archive only entries come, and they go straight into the set.
ProcessAssetStat(tx, c) ==
    IF tx.insertOnly THEN [tx EXCEPT !.set = AdjustAssetStat(@, None, c.post)]
    ELSE IF Unexpected(tx.assets, c) THEN Failed(tx)
    ELSE LET cache == AddChange(tx.assets, c)
             next  == [tx EXCEPT !.assets = cache]
         IN  IF Full(tx, cache) THEN [CommitStats(next) EXCEPT !.assets = NoChanges, !.set = None]
             ELSE next

ProcessLine(tx, c) ==
    IF Unexpected(tx.lines, c) THEN Failed(tx)
    ELSE LET cache == AddChange(tx.lines, c)
         IN  IF Full(tx, cache) THEN [CommitRows(tx, cache) EXCEPT !.lines = NoChanges]
             ELSE [tx EXCEPT !.lines = cache]

\* groupChangeProcessors: the first error ends the stream.
ProcessChange(tx, c) ==
    IF tx.failed THEN tx
    ELSE IF c.key \in Accounts THEN ProcessAccount(tx, c)
    ELSE LET counted == ProcessAssetStat(tx, c)
         IN  IF counted.failed THEN counted ELSE ProcessLine(counted, c)

Commit(tx) ==
    LET accounts == IF tx.failed THEN tx ELSE CommitAccounts(tx, tx.accounts)
        counted  == IF accounts.failed THEN accounts ELSE CommitStats(accounts)
    IN  IF counted.failed THEN counted ELSE CommitRows(counted, counted.lines)

Committed(tx) == [rows |-> tx.rows, stats |-> tx.stats]

-----------------------------------------------------------------------------
(* The meta of a ledger: the changes by the phase in which core makes them. *)

Transactions == 2
FeePhase(t) == t
TxPhase(t)  == Transactions + 2 * t - 1
OpPhase(t)  == Transactions + 2 * t
UpgradePhase == 3 * Transactions + 1
Phases == 1 .. UpgradePhase
OwnPhases == {FeePhase(t) : t \in 1 .. Transactions} \union {TxPhase(t) : t \in 1 .. Transactions}
OpPhases == {OpPhase(t) : t \in 1 .. Transactions}

NextLedger(entries) ==
    [entries |-> entries, phase |-> 1, changes |-> [p \in Phases |-> <<>>], internal |-> {}]

-----------------------------------------------------------------------------
(* Building the state from the archive.                                    *)

\* The tables are truncated and the reader of the checkpoint is made.  Bound: the smaller
\* batch sizes are left to the ledgers, where an entry changes more than once.
BuildStart ==
    /\ task = "none" /\ ledgers = 0 /\ db = None
    /\ \E archive \in Archives, cuts \in SUBSET (1 .. Len(Past) - 1), cap20 \in 1 .. Len(Past) + 1 :
          /\ reader' = MakeReader(BucketList(archive, cuts, cap20))
          /\ checkpoint' = EntriesOf(archive)
    /\ task' = "build"
    /\ work' = Transaction(NoEntries, None, TRUE, Max(BatchSizes))
    /\ UNCHANGED <<faults, coreVars, db, verifier, alarm, corrupted>>

\* StreamChanges takes an entry.  A StateError of a processor ends the build.
BuildChange ==
    /\ task = "build" /\ reader.readChan # <<>> /\ ~Item.error
    /\ work' = ProcessChange(work, Change(Item.key, None, Item.value))
    /\ alarm' = work'.failed
    /\ task' = IF work'.failed THEN "none" ELSE "build"
    /\ reader' = IF work'.failed THEN Closed(Taken) ELSE Taken
    /\ UNCHANGED <<faults, checkpoint, coreVars, db, verifier, corrupted>>

\* The reader failed: the transaction is rolled back and the build starts again.
BuildFails ==
    /\ task = "build" /\ reader.readChan # <<>> /\ Item.error
    /\ task' = "none"
    /\ work' = None
    /\ reader' = Closed(Taken)
    /\ UNCHANGED <<faults, checkpoint, coreVars, db, verifier, alarm, corrupted>>

BuildCommit ==
    /\ task = "build" /\ EOF
    /\ LET tx == Commit(work)
       IN  /\ alarm' = tx.failed
           /\ db' = IF tx.failed THEN db ELSE Committed(tx)
    /\ task' = "none"
    /\ work' = None
    /\ ledger' = checkpoint
    /\ meta' = NextLedger(checkpoint)
    /\ UNCHANGED <<readerVars, checkpoint, changes, ledgers, verifier, corrupted>>

-----------------------------------------------------------------------------
(* External: core closes a ledger of two transactions.                     *)

\* Nobody sees a ledger before it is ingested, so core prepares it before the
\* verification starts; it may be ingested while it runs.
CoreTurn == db # None /\ verifier = None /\ ~alarm /\ ledgers < Len(MaxChanges)

\* A change of phase p is made and written to the meta.  Fees of all the
\* transactions are charged first.  The operations of a transaction that ends in
\* an internal error stay in the meta without having happened.
CoreChange(p, k, v, internal) ==
    /\ CoreTurn /\ changes < MaxChanges[ledgers + 1]
    /\ p >= meta.phase
    /\ v # meta.entries[k]
    /\ p \in OwnPhases => k \in Accounts
    /\ p \notin OpPhases => meta.entries[k] # None /\ v # None /\ ~internal
    /\ meta.changes[p] # <<>> => internal = (p \in meta.internal)
    /\ meta' = [meta EXCEPT !.phase = p,
                            !.changes[p] = Append(@, Change(k, meta.entries[k], v)),
                            !.entries[k] = IF internal THEN @ ELSE v,
                            !.internal = IF internal THEN @ \union {p} ELSE @]
    /\ changes' = changes + 1
    /\ UNCHANGED <<readerVars, buildVars, ledger, ledgers, db, task, verifier, alarm, corrupted>>

-----------------------------------------------------------------------------
(* Ingesting a ledger.                                                     *)

\* LedgerTransaction.GetChanges: the transaction's own changes, then those of its
\* operations unless it ended in an internal error.  The changes after the operations
\* (txChangesAfter of meta V2) follow under the same condition and are among them here.
TransactionChanges(m, t) ==
    m.changes[TxPhase(t)] \o (IF OpPhase(t) \in m.internal THEN <<>> ELSE m.changes[OpPhase(t)])

\* Each transaction's fee with its meta, in one pass.
LedgerChangesByTransaction(m) ==
    FlattenSeq([t \in 1 .. Transactions |-> m.changes[FeePhase(t)] \o TransactionChanges(m, t)])
        \o m.changes[UpgradePhase]

\* The order of LedgerChangeReader: the fees of all transactions, the metas of
\* all transactions, the upgrades.
LedgerChanges(m) ==
    FlattenSeq([t \in 1 .. Transactions |-> m.changes[FeePhase(t)]])
        \o FlattenSeq([t \in 1 .. Transactions |-> TransactionChanges(m, t)])
        \o m.changes[UpgradePhase]

\* runChangeProcessorOnLedger and the commit of its transaction.
IngestLedger ==
    /\ db # None /\ ~alarm /\ ledgers < Len(MaxChanges)
    /\ \E maxBatchSize \in BatchSizes :
       LET start == Transaction(db.rows, db.stats, FALSE, maxBatchSize)
           tx    == Commit(FoldLeft(ProcessChange, start, LedgerChanges(meta)))
       IN  /\ alarm' = tx.failed
           /\ db' = IF tx.failed THEN db ELSE Committed(tx)
    /\ ledger' = meta.entries
    /\ meta' = NextLedger(meta.entries)
    /\ ledgers' = ledgers + 1
    /\ changes' = 0
    /\ UNCHANGED <<readerVars, buildVars, task, verifier, corrupted>>

\* A row is lost, invented or altered: a bug elsewhere, or someone's hand.
Corrupt ==
    /\ ledgers > 0 /\ task = "none" /\ verifier = None /\ faults < MaxFaults
    /\ \/ \E k \in Keys, v \in Values \union {None} :
            v # db.rows[k] /\ db' = [db EXCEPT !.rows[k] = v]
       \/ \E s \in {None, [amount |-> 1, accounts |-> 1]} :
            s # db.stats /\ db' = [db EXCEPT !.stats = s]
    /\ corrupted' = TRUE
    /\ faults' = faults + 1
    /\ UNCHANGED <<reader, buildVars, coreVars, task, verifier, alarm>>

-----------------------------------------------------------------------------
(* Verifying the state against a later checkpoint.                         *)

\* The last ledger, the first one after the build, is a checkpoint that the archive has
\* published.  Bound: a ledger with changes is ingested meanwhile only if no row was
\* corrupted, and has operations of one transaction only.
VerifyStart ==
    /\ task = "none" /\ verifier = None /\ ~alarm /\ ledgers = 1
    /\ \A p \in Phases : meta.changes[p] # <<>> => p = OpPhase(1) /\ ~corrupted
    /\ meta.internal = {}
    /\ task' = "verify"
    /\ reader' = MakeReader(LaterBuckets(checkpoint, ledger))
    /\ verifier' = [ snapshot |-> db, truth |-> ledger, verdict |-> "none",
                     current |-> NoEntries, keys |-> {}, count |-> 0,
                     readEntries |-> 0, readingDone |-> FALSE, set |-> None ]
    /\ UNCHANGED <<faults, buildVars, coreVars, db, alarm, corrupted>>

\* verifyState returns; the reader is closed.
Return(verdict) ==
    /\ task' = "none"
    /\ verifier' = [verifier EXCEPT !.verdict = verdict]

GettingKeys == ~verifier.readingDone /\ verifier.count < VerifyBatchSize

\* GetLedgerKeys reads the next entry of the checkpoint.
GetLedgerKey ==
    /\ task = "verify" /\ GettingKeys /\ reader.readChan # <<>> /\ ~Item.error
    /\ verifier' = [verifier EXCEPT !.current[Item.key] = Item.value,
                                    !.keys = @ \union {Item.key},
                                    !.count = @ + 1, !.readEntries = @ + 1]
    /\ reader' = Taken
    /\ UNCHANGED <<faults, buildVars, coreVars, db, task, alarm, corrupted>>

GetLedgerKeysFails ==
    /\ task = "verify" /\ GettingKeys /\ reader.readChan # <<>> /\ Item.error
    /\ Return("error")
    /\ reader' = Closed(Taken)
    /\ UNCHANGED <<faults, buildVars, coreVars, db, alarm, corrupted>>

GetLedgerKeysEnds ==
    /\ task = "verify" /\ GettingKeys /\ EOF
    /\ verifier' = [verifier EXCEPT !.readingDone = TRUE]
    /\ UNCHANGED <<readerVars, buildVars, coreVars, db, task, alarm, corrupted>>

\* The trust lines among the rows, added to the statistics of the verification.
AddTrustLines(set, rows) ==
    FoldSet(LAMBDA k, acc : AdjustAssetStat(acc, None, rows[k]), set, DOMAIN rows \intersect Lines)

\* Write for every row with one of the keys, which finds a different row, and the
\* look for entries without a row (None) with which the next GetLedgerKeys begins.
WriteBatch ==
    LET rows == [k \in verifier.keys |-> verifier.snapshot.rows[k]]
    IN  /\ task = "verify" /\ ~GettingKeys /\ verifier.count > 0
        /\ IF \E k \in verifier.keys : rows[k] # verifier.current[k]
           THEN Return("stateError") /\ reader' = Closed(reader)
           ELSE /\ verifier' = [verifier EXCEPT
                                  !.current = NoEntries, !.keys = {}, !.count = 0,
                                  !.set = AddTrustLines(@, rows)]
                /\ UNCHANGED <<task, reader>>
        /\ UNCHANGED <<faults, buildVars, coreVars, db, alarm, corrupted>>

\* The rows are taken to be as many as the entries read.
CountRowsUnchecked == verifier.readEntries

CountRows == Cardinality({k \in Keys : verifier.snapshot.rows[k] # None})

CheckAssetStats == verifier.set = verifier.snapshot.stats

\* Verify counts the rows, then the statistics are compared.
VerifyAll ==
    /\ task = "verify" /\ ~GettingKeys /\ verifier.count = 0
    /\ Return(IF verifier.readEntries = CountRows /\ CheckAssetStats
              THEN "ok" ELSE "stateError")
    /\ reader' = Closed(reader)
    /\ UNCHANGED <<faults, buildVars, coreVars, db, alarm, corrupted>>

-----------------------------------------------------------------------------

Init ==
    /\ checkpoint = NoEntries
    /\ ledger = NoEntries
    /\ meta = NextLedger(NoEntries)
    /\ changes = 0
    /\ ledgers = 0
    /\ db = None
    /\ work = None
    /\ task = "none"
    /\ verifier = None
    /\ alarm = FALSE
    /\ corrupted = FALSE
    /\ reader = Ended(MakeReader(<<>>))
    /\ faults = 0

Stream == StreamBuckets /\ UNCHANGED <<buildVars, coreVars, db, task, verifier, alarm, corrupted>>

Build == BuildChange \/ BuildFails \/ BuildCommit

Verify == GetLedgerKey \/ GetLedgerKeysFails \/ GetLedgerKeysEnds \/ WriteBatch \/ VerifyAll

Next ==
    \/ Stream
    \/ BuildStart \/ Build
    \/ \E p \in Phases, k \in Keys, v \in Values \union {None}, internal \in BOOLEAN :
          CoreChange(p, k, v, internal)
    \/ IngestLedger
    \/ Corrupt
    \/ VerifyStart \/ Verify

Spec == Init /\ [][Next]_vars

\* The goroutine of the reader and the one that reads from it keep running.
FairSpec == Spec /\ WF_vars(Stream) /\ WF_vars(Build) /\ WF_vars(Verify)

-----------------------------------------------------------------------------
(* Properties.                                                             *)

\* What the tables must hold for a ledger: its entries, and the number and the
\* sum of the authorised trust lines.
TablesOf(entries) ==
    LET counted == {k \in Lines : Authorized(entries[k])}
    IN  [ rows  |-> entries,
          stats |-> IF counted = {} THEN None
                    ELSE [amount   |-> MapThenSumSet(LAMBDA k : entries[k].balance, counted),
                          accounts |-> Cardinality(counted)] ]

\* Unless rows were changed by someone else, the committed tables are the ledger
\* state after the build from any bucket list, with retried reads, and after every
\* ledger, whatever its changes and wherever a batch is flushed; and no processor
\* reports a StateError.
StateIsLedger ==
    ~corrupted => ~alarm /\ (db # None => db = TablesOf(ledger))

\* verifyState finds the snapshot correct only if it is the state of the
\* checkpoint, and calls it a StateError only if it is not, although ingestion
\* goes on meanwhile and the archive may fail.
VerdictExact ==
    verifier # None =>
        /\ verifier.verdict = "ok" => verifier.snapshot = TablesOf(verifier.truth)
        /\ verifier.verdict = "stateError" => verifier.snapshot # TablesOf(verifier.truth)

\* A build or a verification that started comes to an end: the reader never
\* leaves its owner waiting for an entry, not after a failure of the archive.
TasksEnd == task # "none" ~> task = "none"
=============================================================================
