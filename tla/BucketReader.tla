---------------------------- MODULE BucketReader ----------------------------
(***************************************************************************)
(* SingleLedgerStateReader: the state of a checkpoint ledger, streamed     *)
(* from the bucket list of a history archive.                              *)
(*                                                                         *)
(* A goroutine walks the buckets from the newest to the oldest and sends   *)
(* every entry that no newer bucket overrides into a bounded channel.  It  *)
(* opens a bucket, reads its entries (a read that fails reopens the file   *)
(* and discards what was already read) and then handles them in order.     *)
(* The owner reads the channel and may close the reader at any moment.     *)
(*                                                                         *)
(* A bucket is the sequence of its entries, the METAENTRY with its         *)
(* protocol version first when it has one.  Bytes are counted in entries.  *)
(***************************************************************************)
EXTENDS Naturals, Sequences, SequencesExt, FiniteSets, FiniteSetsExt

CONSTANTS
    Keys,               \* ledger keys
    None,               \* no entry
    Capacity,           \* msrBufferSize
    MaxFaults           \* bound: failures in a behaviour

VARIABLES
    reader,             \* the reader in use
    faults              \* failures of the archive so far

readerVars == <<reader, faults>>

-----------------------------------------------------------------------------
(* The archive: what core writes into buckets (CAP-20).                    *)

BucketEntry(type, k, v) == [type |-> type, key |-> k, value |-> v]

Meta == BucketEntry("META", None, None)

\* A bucket file: entries sorted by key, after the METAENTRY of a bucket
\* written by protocol 11 or later.
Bucket(entries, version11) ==
    (IF version11 THEN <<Meta>> ELSE <<>>)
        \o SetToSortSeq(entries, LAMBDA d, e : d.key < e.key)

-----------------------------------------------------------------------------
(* The reader.                                                             *)

MakeReader(buckets) ==
    [ buckets  |-> buckets,     \* buckets still to stream, the newest first
      position |-> 0,           \* entries of the bucket read so far
      stream   |-> 0,           \* where the open stream stands
      batch    |-> <<>>,        \* entries preloaded and not yet handled
      n        |-> 0,           \* entries of the bucket handled so far
      version  |-> 0,           \* bucketProtocolVersion
      seen     |-> {},          \* tempStore
      readChan |-> <<>>,
      done     |-> FALSE,       \* done is closed
      pc       |-> "read" ]

\* streamBuckets returns: the temp store, done and readChan are closed, and what
\* the goroutine worked on is forgotten.
Ended(r) == [MakeReader(<<>>) EXCEPT !.readChan = r.readChan, !.pc = "ended", !.done = TRUE]

Failure == [error |-> TRUE, key |-> None, value |-> None]
State(e) == [error |-> FALSE, key |-> e.key, value |-> e.value]

HasRoom == Len(reader.readChan) < Capacity

\* readBucketEntry returns the next n entries of the stream into the batch.
ReadEntries(r, n) ==
    [r EXCEPT !.batch = @ \o SubSeq(Head(r.buckets), r.stream + 1, r.stream + n),
              !.stream = @ + n,
              !.position = r.stream + n]

\* The batch is preloaded up to the end of the bucket.
Preload ==
    /\ reader.pc = "read"
    /\ reader' = [ReadEntries(reader, Len(Head(reader.buckets)) - reader.stream)
                    EXCEPT !.pc = "handle"]
    /\ UNCHANGED faults

\* A new stream on the bucket that skips what was read before the entry.
Reopen(r) == [r EXCEPT !.stream = r.position]

\* n entries are read and the next read fails, having taken bytes from the stream or
\* not.  One of the maxStreamRetries attempts with a new stream succeeds, or all fail.
ReadFails ==
    /\ reader.pc = "read"
    /\ faults < MaxFaults
    /\ faults' = faults + 1
    /\ \E n \in 0 .. Len(Head(reader.buckets)) - reader.stream, taken \in 0 .. 1 :
          LET r == [ReadEntries(reader, n) EXCEPT !.stream = @ + taken]
          IN  /\ r.stream <= Len(Head(reader.buckets))
              /\ reader' \in {Reopen(r), [r EXCEPT !.pc = "fail"]}

\* The select at the bottom of the loop: Close() stops the processing.
CheckDone(r) == IF r.done THEN Ended(r) ELSE r

\* An INITENTRY says that no older bucket holds the key alive, so only a
\* LIVEENTRY is remembered, and not in the oldest bucket, where keys are unique.
Remember(r, e, oldest) ==
    IF e.type = "LIVE" /\ ~oldest THEN [r EXCEPT !.seen = @ \union {e.key}] ELSE r

\* One turn of LoopBucketEntry for an entry that is alive.  The `continue` for
\* the oldest bucket jumps over the look at done.
HandleLive(r, e) ==
    LET oldest == Len(r.buckets) = 1
        sent   == [r EXCEPT !.readChan = Append(@, State(e))]
    IN  CASE e.type = "INIT" /\ r.version < 11 -> [r EXCEPT !.pc = "fail"]
          [] e.key \in r.seen                  -> CheckDone(r)
          [] e.type = "LIVE" /\ oldest         -> sent
          [] OTHER                             -> CheckDone(Remember(sent, e, oldest))

HandleMeta(r) == IF r.n = 0 THEN [r EXCEPT !.version = 11] ELSE [r EXCEPT !.pc = "fail"]

HandleDead(r, e) == CheckDone([r EXCEPT !.seen = @ \union {e.key}])

\* An entry that will be sent waits for room in readChan.
Sends(r, e) ==
    /\ e.type \in {"INIT", "LIVE"}
    /\ ~(e.type = "INIT" /\ r.version < 11)
    /\ e.key \notin r.seen

HandleEntry ==
    /\ reader.pc = "handle" /\ reader.batch # <<>>
    /\ LET e == Head(reader.batch)
           r == [reader EXCEPT !.batch = Tail(@)]
           h == CASE e.type = "META" -> HandleMeta(r)
                  [] e.type = "DEAD" -> HandleDead(r, e)
                  [] OTHER           -> HandleLive(r, e)
       IN  /\ Sends(r, e) => HasRoom
           /\ reader' = [h EXCEPT !.n = @ + 1]
    /\ UNCHANGED faults

\* The bucket is exhausted: go on with the next older one, if there is one that
\* exists and can be opened.
NextBucket ==
    /\ reader.pc = "handle" /\ reader.batch = <<>>
    /\ LET older == Tail(reader.buckets)
           next  == [reader EXCEPT !.pc = "read", !.buckets = older,
                                   !.position = 0, !.stream = 0, !.n = 0, !.version = 0]
       IN  \/ reader' = (IF older = <<>> THEN Ended(reader) ELSE next) /\ UNCHANGED faults
           \/ /\ older # <<>> /\ faults < MaxFaults
              /\ faults' = faults + 1
              /\ reader' = [reader EXCEPT !.pc = "fail"]

\* The error is lost and the channel stays open.
SendErrorKeepsOpen ==
    /\ reader.pc = "fail"
    /\ reader' = [reader EXCEPT !.pc = "left"]
    /\ UNCHANGED faults

\* The error is sent as the last item.
SendError ==
    /\ reader.pc = "fail" /\ HasRoom
    /\ reader' = Ended([reader EXCEPT !.readChan = Append(@, Failure)])
    /\ UNCHANGED faults

StreamBuckets ==
    \/ Preload \/ ReadFails
    \/ HandleEntry \/ NextBucket
    \/ SendError

-----------------------------------------------------------------------------
(* What Read returns to the owner of the reader.                           *)

EOF == reader.readChan = <<>> /\ reader.pc = "ended"
Item == Head(reader.readChan)
Taken == [reader EXCEPT !.readChan = Tail(@)]

\* Close() after the item was taken.
Closed(r) == [r EXCEPT !.done = TRUE]
=============================================================================
