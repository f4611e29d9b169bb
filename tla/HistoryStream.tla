---------------------------- MODULE HistoryStream ---------------------------
(***************************************************************************)
(* Streaming a page of history to a client.                                *)
(*                                                                         *)
(* Ingestion commits ledgers with their records.  The application's ticks  *)
(* copy the latest ledgers into a cached ledger.State, with three separate *)
(* queries, and let the reaper delete old history according to that cache. *)
(* A streaming request sends the records after its cursor, waits until the *)
(* cache shows a newer ledger (the goroutine of NextLedger polls it) and   *)
(* queries again, until the limit of the page is reached or its context    *)
(* ends.  The client library reconnects with the identifier of the last    *)
(* event it handled.                                                       *)
(*                                                                         *)
(* A record's identifier (toid) is its ledger and its place in it.         *)
(***************************************************************************)
EXTENDS Integers, Sequences, SequencesExt, FiniteSets, FiniteSetsExt

CONSTANTS
    MaxLedger,          \* bound: the last ledger that is ingested
    MaxRecords,         \* bound: records in one ledger
    Starts,             \* cursors a client may begin with, Now among them
    Now,                \* the cursor `now`
    Limit,              \* limit of the page
    RetentionCount,     \* history-retention-count, 0 (keep everything) excluded
    MaxFaults           \* bound: lost connections, refused requests, failed queries

MaxInt32 == 2147483647

ASSUME StreamAssumption ==
    /\ Limit \in Nat \ {0} /\ MaxRecords \in Nat \ {0}
    /\ RetentionCount \in 1 .. MaxInt32       \* where int32(uint) keeps its value
    /\ MaxLedger \in Nat /\ Starts \subseteq Nat \union {Now} /\ Now \notin Nat

VARIABLES
    latest,     \* last ledger ingested, its history and its state
    records,    \* identifiers of the records in the history tables
    ledgers,    \* sequences in history_ledgers
    ever,       \* identifiers of all the records ever ingested
    cached,     \* ledger.State as CurrentState() returns it
    tick,       \* what UpdateLedgerState has read so far
    reaper,     \* progress of clearBefore
    server,     \* the request being served
    wire,       \* events sent and not yet read by the client
    client,     \* Client.stream; `from`: the cursor it began with, for good
    faults

dbVars == <<latest, records, ledgers, ever>>
appVars == <<cached, tick, reaper>>
connVars == <<server, wire, client>>
vars == <<dbVars, appVars, connVars, faults>>

-----------------------------------------------------------------------------
(* toid                                                                    *)

Width == MaxRecords + 2
Toid(ledger, n) == ledger * Width + n
AfterLedger(ledger) == Toid(ledger, Width - 1)
LedgerOf(id) == id \div Width

-----------------------------------------------------------------------------
(* Ingestion, the ticks of the application and the reaper.                 *)

\* External: a ledger with n records is committed.
Ingest(n) ==
    /\ latest < MaxLedger
    /\ latest' = latest + 1
    /\ LET new == {Toid(latest + 1, i) : i \in 1 .. n}
       IN records' = records \union new /\ ever' = ever \union new
    /\ ledgers' = ledgers \union {latest + 1}
    /\ UNCHANGED <<appVars, connVars, faults>>

MaxOrZero(S) == IF S = {} THEN 0 ELSE Max(S)
MinOrZero(S) == IF S = {} THEN 0 ELSE Min(S)

\* UpdateLedgerState reads LatestLedger, then ElderLedger, then the last ingested
\* ledger, and stores the three; then the reaper is called, which mostly does nothing.
TickLatest ==
    /\ tick = <<>> /\ reaper.pc \in {"idle", "called"}
    /\ tick' = <<MaxOrZero(ledgers)>>
    /\ reaper' = [reaper EXCEPT !.pc = "idle"]
    /\ UNCHANGED <<dbVars, cached, connVars, faults>>

TickElder ==
    /\ Len(tick) = 1
    /\ tick' = Append(tick, MinOrZero(ledgers))
    /\ UNCHANGED <<dbVars, cached, reaper, connVars, faults>>

TickSetState ==
    /\ Len(tick) = 2
    /\ cached' = [historyLatest |-> tick[1], historyElder |-> tick[2], expHistoryLatest |-> latest]
    /\ tick' = <<>>
    /\ reaper' = [reaper EXCEPT !.pc = "called"]
    /\ UNCHANGED <<dbVars, connVars, faults>>

\* A query, or the call to hcnet-core before them, fails: nothing is stored, and the
\* reaper is called all the same, with the cache as it was.
TickFails ==
    /\ reaper.pc \in {"idle", "called"}
    /\ faults < MaxFaults
    /\ faults' = faults + 1
    /\ tick' = <<>>
    /\ reaper' = [reaper EXCEPT !.pc = "called"]
    /\ UNCHANGED <<dbVars, cached, connVars>>

\* One ledger too many is cleared.
TargetElderOneMore == (cached.historyLatest - RetentionCount) + 2

\* In int32: the flag is a uint, and from 2^31 on it would become negative.
TargetElder == (cached.historyLatest - RetentionCount) + 1

\* reaper.Tick, called after the state was updated, acts once in an hour: the records
\* go first (trades come last) and the ledgers after them, in separate statements.
ReapRecords ==
    /\ reaper.pc = "called"
    /\ TargetElder >= cached.historyElder
    /\ TargetElder > 1
    /\ records' = {id \in records : LedgerOf(id) >= TargetElder}
    /\ reaper' = [pc |-> "ledgers", target |-> TargetElder]
    /\ UNCHANGED <<latest, ledgers, ever, cached, tick, connVars, faults>>

ReapLedgers ==
    /\ reaper.pc = "ledgers"
    /\ ledgers' = {l \in ledgers : l >= reaper.target}
    /\ reaper' = [pc |-> "idle", target |-> 0]
    /\ UNCHANGED <<latest, records, ever, cached, tick, connVars, faults>>

\* A statement fails: what was deleted stays deleted.
ReapFails ==
    /\ reaper.pc = "ledgers"
    /\ faults < MaxFaults
    /\ faults' = faults + 1
    /\ reaper' = [pc |-> "idle", target |-> 0]
    /\ UNCHANGED <<dbVars, cached, tick, connVars>>

-----------------------------------------------------------------------------
(* ServeStream and renderStream.                                           *)

NoRequest == [ pc |-> "none", cursor |-> 0, lastEventID |-> 0, pq |-> 0,
               sequence |-> 0, limit |-> 0, newLedgers |-> 0,
               init |-> FALSE, sent |-> FALSE,
               empty |-> FALSE ]    \* history: there was nothing to send at first

\* getCursor: `now` is resolved with the cache at every call.
GetCursor(cursor) == IF cursor = Now THEN AfterLedger(cached.historyLatest) ELSE cursor

\* The page query of renderStream, used for the limit and as a fallback cursor.
Connect ==
    /\ client.pc = "connecting" /\ server.pc = "none"
    /\ server' = [NoRequest EXCEPT !.pc = "start", !.cursor = client.cursor,
                                   !.pq = GetCursor(client.cursor), !.limit = Limit]
    /\ client' = [client EXCEPT !.pc = "reading"]
    /\ UNCHANGED <<dbVars, appVars, wire, faults>>

\* ServeStream takes the current ledger before its first query.
Start ==
    /\ server.pc = "start"
    /\ server' = [server EXCEPT !.pc = "generate", !.sequence = cached.expHistoryLatest]
    /\ UNCHANGED <<dbVars, appVars, wire, client, faults>>

\* The first `Limit` records after the cursor, in ascending order.
Page(cursor) ==
    LET after == {id \in records : id > cursor}
    IN  [i \in 1 .. Min({Limit, Cardinality(after)}) |->
            CHOOSE id \in after : Cardinality({a \in after : a < id}) = i - 1]

\* An empty page leaves Last-Event-ID unset.
NextEventIDUnset(s, events) == IF events # <<>> THEN Last(events) ELSE s.lastEventID

\* The header that the next query uses: the last event of the page, or for an empty
\* page the cursor of the page query unless there is a header already.
NextEventID(s, events) ==
    IF events # <<>> THEN Last(events) ELSE IF s.lastEventID = 0 THEN s.pq ELSE s.lastEventID

\* One turn of the loop up to the select.  Events over the limit are not sent; the
\* preamble is written in any case.
GenerateEvents ==
    /\ server.pc = "generate"
    /\ LET cursor == IF server.lastEventID # 0 THEN server.lastEventID ELSE GetCursor(server.cursor)
           events == Page(cursor)
           sent   == SubSeq(events, 1, Min({server.limit, Len(events)}))
           left   == server.limit - Len(sent)
       IN  /\ wire' = wire \o sent
           /\ server' = [server EXCEPT !.lastEventID = NextEventID(server, events),
                                       !.limit = left,
                                       !.pc = IF left = 0 THEN "done" ELSE "select",
                                       !.init = TRUE,
                                       !.empty = IF server.init THEN @ ELSE events = <<>>,
                                       !.sent = @ \/ sent # <<>>]
    /\ UNCHANGED <<dbVars, appVars, client, faults>>

\* The wait starts from the ledger that is current by now.
SelectFromCurrent ==
    /\ server.pc = "select"
    /\ server' = [server EXCEPT !.pc = "wait", !.newLedgers = 0, !.sequence = cached.expHistoryLatest]
    /\ UNCHANGED <<dbVars, appVars, wire, client, faults>>

\* NextLedger(currentLedgerSequence) starts a goroutine with a new channel.
Select ==
    /\ server.pc = "select"
    /\ server' = [server EXCEPT !.pc = "wait", !.newLedgers = 0]
    /\ UNCHANGED <<dbVars, appVars, wire, client, faults>>

\* The goroutine finds a ledger newer than the one it was started with.
Poll ==
    /\ server.pc = "wait" /\ server.newLedgers = 0
    /\ cached.expHistoryLatest > server.sequence
    /\ server' = [server EXCEPT !.newLedgers = cached.expHistoryLatest]
    /\ UNCHANGED <<dbVars, appVars, wire, client, faults>>

NewLedger ==
    /\ server.pc = "wait" /\ server.newLedgers # 0
    /\ server' = [server EXCEPT !.pc = "generate", !.sequence = server.newLedgers]
    /\ UNCHANGED <<dbVars, appVars, wire, client, faults>>

\* The context of the request ends: goodbye.
Timeout ==
    /\ server.pc = "wait"
    /\ server' = [server EXCEPT !.pc = "done"]
    /\ UNCHANGED <<dbVars, appVars, wire, client, faults>>

\* The rate limiter or the query refuses.  Before the preamble the client gets the
\* status of the error, after an event an event that it ignores.  With the preamble
\* written and no event the problem goes into the body of the stream.
StreamErr ==
    /\ server.pc = "generate"
    /\ faults < MaxFaults
    /\ faults' = faults + 1
    /\ server' = [server EXCEPT !.pc = "done"]
    /\ \/ ~server.sent /\ client' = [client EXCEPT !.pc = "failed"]
       \/ server.init /\ UNCHANGED client
    /\ UNCHANGED <<dbVars, appVars, wire>>

\* The connection is lost with some of what was sent.
Drop ==
    /\ client.pc = "reading" /\ server.pc # "none"
    /\ faults < MaxFaults
    /\ faults' = faults + 1
    /\ \E n \in 0 .. Len(wire) : wire' = SubSeq(wire, 1, n)
    /\ server' = [server EXCEPT !.pc = "done"]
    /\ UNCHANGED <<dbVars, appVars, client>>

-----------------------------------------------------------------------------
(* Client.stream                                                           *)

\* An event was read completely: its identifier is the next cursor.
ClientRead ==
    /\ client.pc = "reading" /\ wire # <<>>
    /\ client' = [client EXCEPT !.cursor = Head(wire), !.handled = Append(@, Head(wire))]
    /\ wire' = Tail(wire)
    /\ UNCHANGED <<dbVars, appVars, server, faults>>

\* The end of the body: the request is sent again, with the new cursor in its URL.
ClientReconnects ==
    /\ client.pc = "reading" /\ wire = <<>> /\ server.pc = "done"
    /\ client' = [client EXCEPT !.pc = "connecting"]
    /\ server' = NoRequest
    /\ UNCHANGED <<dbVars, appVars, wire, faults>>

-----------------------------------------------------------------------------

Init ==
    /\ latest = 1
    /\ records = {Toid(1, 1)} /\ ever = records
    /\ ledgers = {1}
    /\ cached = [historyLatest |-> 1, historyElder |-> 1, expHistoryLatest |-> 1]
    /\ tick = <<>>
    /\ reaper = [pc |-> "idle", target |-> 0]
    /\ server = NoRequest
    /\ wire = <<>>
    /\ \E c \in Starts : client = [pc |-> "connecting", cursor |-> c, from |-> c, handled |-> <<>>]
    /\ faults = 0

Tick == TickLatest \/ TickElder \/ TickSetState
Reap == ReapRecords \/ ReapLedgers \/ ReapFails
Serve == Connect \/ Start \/ GenerateEvents \/ Select \/ Poll \/ NewLedger
Read == ClientRead \/ ClientReconnects

Next ==
    \/ \E n \in 0 .. MaxRecords : Ingest(n)
    \/ Tick \/ TickFails \/ Reap
    \/ Serve \/ Timeout \/ StreamErr \/ Drop
    \/ Read

Spec == Init /\ [][Next]_vars

\* Ticks come every second; the server and the client keep running.  Nothing says that
\* ledgers close, that requests time out or that the reaper is due.
FairSpec ==
    /\ Spec
    /\ WF_vars(Tick) /\ WF_vars(ReapLedgers \/ ReapFails)
    /\ WF_vars(Serve) /\ WF_vars(Read)

-----------------------------------------------------------------------------
(* Properties.                                                             *)

Handled == Range(client.handled)

\* The client is owed the record while it is in the tables: it is after the cursor the
\* client began with or, if that was `now`, not of an earlier ledger than the first
\* record the client handled.
Due(id) ==
    /\ id \in records
    /\ IF client.from # Now THEN id > client.from
       ELSE client.handled # <<>> /\ LedgerOf(id) >= LedgerOf(Head(client.handled))

\* A request for `now` that found nothing to send goes on after the place where the
\* page query resolved `now`.
DueNow(id) == server.cursor = Now /\ server.empty /\ id > server.pq

\* Over all its connections the client handles records in order, none twice, and from
\* the place its stream begins it passes over none that is still in the tables.  A
\* stream from a cursor begins after it.  A stream from `now` begins where `now` was
\* resolved first if that request found nothing to send at once, however many ledgers
\* it waits.  If it did find something, or if connections ended before a record was
\* handled, the stream begins with the ledger of the first record handled: the request
\* resolves `now` a second time for the query, with a tick in between perhaps, every
\* new connection resolves it again, and the records in between are lost.
InOrderWithoutGaps ==
    /\ \A i, j \in DOMAIN client.handled : i < j => client.handled[i] < client.handled[j]
    /\ \A id \in records :
          (Due(id) \/ DueNow(id)) /\ id <= MaxOrZero(Handled) => id \in Handled

\* However ticks, ledgers and reconnections interleave, the stream never stays
\* behind: again and again every record the client is owed was handled, unless the
\* client has ended with an error.  From `now` on this holds once a first record was
\* handled; before it the records of a ledger may wait for a newer one, or be passed
\* over.
EveryRecordArrives ==
    []<>(client.pc = "failed" \/ \A id \in records : Due(id) => id \in Handled)

\* The reaper works from a cache that may be old and is read in pieces, and may be
\* interrupted: the records of the last RetentionCount ledgers are never touched.
RetainedIsKept ==
    \A id \in ever : LedgerOf(id) > latest - RetentionCount => id \in records
=============================================================================
