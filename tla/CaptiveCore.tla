---------------------------- MODULE CaptiveCore ----------------------------
(***************************************************************************)
(* CaptiveHcnetCore and its runner (ingest/ledgerbackend) at the level of  *)
(* goroutines: the caller of PrepareRange, GetLedger and Close, the reader *)
(* (sendLedgerMeta) between the pipe of the hcnet-core subprocess and the  *)
(* read-ahead buffer metaC, the watcher of the process, and the process.   *)
(*                                                                         *)
(* The backend has one caller.  A step of it ends where it blocks on the   *)
(* buffer, the wait group or the subprocess.                               *)
(***************************************************************************)
EXTENDS Integers, Sequences

CONSTANTS
    CheckpointFreq,  \* ledgers per checkpoint (64 in the code)
    ReadAhead,       \* readAheadBufferSize
    MaxLedger,       \* bound: the last ledger the network closes
    Archive,         \* latest checkpoint of the history archive
    Ranges,          \* ranges callers prepare: [from, to], to = 0 when unbounded
    PipeSize,        \* bound on the ledgers the pipe holds
    MaxFaults        \* bound on exits, failed starts and skipped ledgers

LB == INSTANCE LedgerBackend WITH Captive <- TRUE

ASSUME CaptiveAssumption ==
    /\ CheckpointFreq \in Nat \ {0, 1, 2} /\ ReadAhead \in Nat \ {0} /\ MaxLedger \in Nat \ {0, 1}
    /\ Ranges \subseteq [from : 2..MaxLedger, to : 0..MaxLedger]
    /\ Archive \in 1..MaxLedger /\ PipeSize \in Nat \ {0} /\ MaxFaults \in Nat

VARIABLES
    nextLedger, lastLedger, cachedMeta, blocking, processExit,  \* fields of CaptiveHcnetCore
    shutdown,   \* the channel: "nil", "open" or "closed"
    metaC,      \* the read-ahead buffer
    reader,     \* sendLedgerMeta: where it is, what it sends, untilSequence
    watcher,    \* the goroutine of hcnetCoreRunner.start
    core,       \* the subprocess: its state, next and last ledger
    pipe,
    call,       \* what the caller is doing
    result,     \* of its last call
    ready,      \* the range prepared last, a history variable
    faults

session == <<nextLedger, lastLedger, cachedMeta, blocking>>
streams == <<metaC, reader, watcher, core, pipe, processExit>>
vars == <<session, streams, shutdown, call, result, ready, faults>>

(* Items of the buffer: a ledger, an error of the pipe, or the exit of the process. *)
Failed == -1
Exited == -2
Ledgers == 2..MaxLedger
Items == Ledgers \cup {Failed, Exited}

NoRange == [from |-> 0, to |-> 0]
Idle == [at |-> "idle", range |-> NoRange, seq |-> 0, next |-> "none"]
NoReader == [at |-> "done", item |-> 0, until |-> 0]
NoCore == [at |-> "none", next |-> 0, last |-> 0]

(* Types; in particular the buffer never exceeds its capacity. *)
TypeOK ==
    /\ nextLedger \in 0..MaxLedger + 1 /\ lastLedger \in 0..MaxLedger
    /\ cachedMeta \in {0} \cup Ledgers
    /\ {blocking, processExit} \subseteq BOOLEAN
    /\ shutdown \in {"nil", "open", "closed"}
    /\ metaC \in Seq(Items) /\ Len(metaC) <= ReadAhead
    /\ pipe \in Seq(Ledgers) /\ Len(pipe) <= PipeSize
    /\ reader \in [at : {"check", "read", "send", "done"}, item : {0} \cup Items, until : 0..MaxLedger]
    /\ watcher \in {"none", "waiting", "sending", "done"}
    /\ core \in [at : {"none", "running", "exited"}, next : 0..MaxLedger + 2, last : 0..MaxLedger]
    /\ call \in [at : {"idle", "join", "runner", "open", "get", "first"},
                 range : Ranges \cup {NoRange}, seq : 0..MaxLedger,
                 next : {"none", "open", "first", "found", "error", "closed"}]
    /\ result \in {"none", "ok", "found", "missing", "error", "closed"}
    /\ ready \in Ranges \cup {NoRange} /\ faults \in 0..MaxFaults

Init ==
    /\ nextLedger = 0 /\ lastLedger = 0 /\ cachedMeta = 0 /\ blocking = FALSE
    /\ processExit = FALSE /\ shutdown = "nil"
    /\ metaC = <<>> /\ pipe = <<>>
    /\ reader = NoReader /\ watcher = "none" /\ core = NoCore
    /\ call = Idle /\ result = "none" /\ ready = NoRange /\ faults = 0

Fault == faults < MaxFaults /\ faults' = faults + 1

-----------------------------------------------------------------------------
(* The subprocess, external, and the watcher.                              *)

CoreEmit ==
    /\ core.at = "running" /\ Len(pipe) < PipeSize
    /\ \/ core.next <= core.last /\ UNCHANGED faults
       \/ core.next < core.last /\ Fault
    /\ LET seq == IF faults' = faults THEN core.next ELSE core.next + 1   \* a ledger is skipped
       IN pipe' = Append(pipe, seq) /\ core' = [core EXCEPT !.next = seq + 1]
    /\ UNCHANGED <<session, metaC, reader, watcher, processExit, shutdown, call, result, ready>>

(* The end of a catchup (and of the bound), or a failure at any time. *)
CoreExit ==
    /\ core.at = "running"
    /\ \/ core.next > core.last /\ UNCHANGED faults
       \/ Fault
    /\ core' = [core EXCEPT !.at = "exited"]
    /\ UNCHANGED <<session, metaC, reader, watcher, pipe, processExit, shutdown, call, result, ready>>

(* cmd.Wait returns; the send on processExit blocks until the reader receives. *)
WatcherWait ==
    /\ watcher = "waiting" /\ core.at = "exited"
    /\ watcher' = "sending"
    /\ UNCHANGED <<session, metaC, reader, core, pipe, processExit, shutdown, call, result, ready, faults>>

-----------------------------------------------------------------------------
(* sendLedgerMeta                                                          *)

ReaderCheck ==
    /\ reader.at = "check"
    /\ reader' = [reader EXCEPT !.at = IF shutdown = "closed" THEN "done" ELSE "read"]
    /\ UNCHANGED <<session, metaC, watcher, core, pipe, processExit, shutdown, call, result, ready, faults>>

(* Mutant of ReaderRead: the buffer is not waited for, a ledger that does not fit is lost. *)
ReaderReadDropping ==
    /\ reader.at = "read" /\ pipe # <<>>
    /\ reader' = IF Len(metaC) < ReadAhead THEN [reader EXCEPT !.at = "send", !.item = Head(pipe)]
                                           ELSE [reader EXCEPT !.at = "check"]
    /\ pipe' = Tail(pipe)
    /\ UNCHANGED <<session, metaC, watcher, processExit, core, shutdown, call, result, ready, faults>>

(* readLedgerMetaFromPipe blocks until the process writes or exits.  After an error
   the exit of the process is looked for without waiting. *)
ReaderRead ==
    /\ reader.at = "read"
    /\ \/ /\ pipe # <<>>
          /\ reader' = [reader EXCEPT !.at = "send", !.item = Head(pipe)]
          /\ pipe' = Tail(pipe)
          /\ UNCHANGED <<watcher, processExit>>
       \/ /\ pipe = <<>> /\ core.at = "exited" /\ watcher = "sending"
          /\ reader' = [reader EXCEPT !.at = "send", !.item = Exited]
          /\ processExit' = TRUE /\ watcher' = "done"
          /\ UNCHANGED pipe
       \/ /\ pipe = <<>> /\ core.at = "exited" /\ watcher # "sending"
          /\ reader' = [reader EXCEPT !.at = "send", !.item = Failed]
          /\ UNCHANGED <<pipe, watcher, processExit>>
    /\ UNCHANGED <<session, metaC, core, shutdown, call, result, ready, faults>>

(* Mutant of ReaderSend: the full buffer is waited for whatever happens. *)
ReaderSendOnly ==
    /\ reader.at = "send" /\ Len(metaC) < ReadAhead
    /\ metaC' = Append(metaC, reader.item)
    /\ reader' = [reader EXCEPT !.at = IF reader.item < 0 \/ (reader.until # 0 /\ reader.item >= reader.until)
                                       THEN "done" ELSE "check"]
    /\ UNCHANGED <<session, watcher, core, pipe, processExit, shutdown, call, result, ready, faults>>

(* The selects on metaC and shutdown; an error, or the last ledger, is the last item. *)
ReaderSend ==
    /\ reader.at = "send"
    /\ \/ /\ Len(metaC) < ReadAhead
          /\ metaC' = Append(metaC, reader.item)
          /\ reader' = [reader EXCEPT !.at = IF reader.item < 0 \/ (reader.until # 0 /\ reader.item >= reader.until)
                                             THEN "done" ELSE "check"]
       \/ /\ shutdown = "closed"
          /\ reader' = [reader EXCEPT !.at = "done"]
          /\ UNCHANGED metaC
    /\ UNCHANGED <<session, watcher, core, pipe, processExit, shutdown, call, result, ready, faults>>

-----------------------------------------------------------------------------
(* Close: forget the session, stop the reader and wait for it, kill the process. *)

CloseBegin(next) ==
    /\ nextLedger' = 0 /\ lastLedger' = 0
    /\ shutdown' = IF shutdown = "open" THEN "closed" ELSE shutdown
    /\ call' = [call EXCEPT !.at = IF shutdown = "open" THEN "join" ELSE "runner", !.next = next]

(* Mutant of CloseJoin: the reader is not waited for. *)
CloseJoinUnwaited ==
    /\ call.at = "join"
    /\ metaC' = <<>> /\ shutdown' = "nil"
    /\ call' = [call EXCEPT !.at = "runner"]
    /\ UNCHANGED <<session, reader, watcher, core, pipe, processExit, result, ready, faults>>

CloseJoin ==
    /\ call.at = "join" /\ reader.at = "done"
    /\ metaC' = <<>> /\ shutdown' = "nil"
    /\ call' = [call EXCEPT !.at = "runner"]
    /\ UNCHANGED <<session, reader, watcher, core, pipe, processExit, result, ready, faults>>

(* hcnetCoreRunner.close: kill, and let the watcher go. *)
CloseRunner ==
    /\ call.at = "runner"
    /\ core' = NoCore /\ watcher' = "none" /\ pipe' = <<>>
    /\ IF call.next = "open" THEN call' = [call EXCEPT !.at = "open"] /\ UNCHANGED result
                             ELSE call' = Idle /\ result' = call.next
    /\ UNCHANGED <<session, metaC, reader, processExit, shutdown, ready, faults>>

-----------------------------------------------------------------------------
(* PrepareRange                                                            *)

IsPrepared(r) ==
    /\ nextLedger # 0
    /\ IF lastLedger = 0 THEN nextLedger <= r.from
       ELSE r.to # 0 /\ nextLedger <= r.from /\ nextLedger <= lastLedger

CallPrepareRange(r) ==
    /\ call = Idle
    /\ IF IsPrepared(r)
       THEN result' = "ok" /\ ready' = r /\ UNCHANGED <<nextLedger, lastLedger, shutdown, call>>
       ELSE /\ nextLedger' = 0 /\ lastLedger' = 0
            /\ shutdown' = IF shutdown = "open" THEN "closed" ELSE shutdown
            /\ call' = [Idle EXCEPT !.at = IF shutdown = "open" THEN "join" ELSE "runner",
                                    !.range = r, !.next = "open"]
            /\ ready' = NoRange /\ UNCHANGED result
    /\ UNCHANGED <<cachedMeta, blocking, streams, faults>>

(* Mutant of FirstReplay: ledger 1 and below are streamed. *)
FirstReplayFromZero(ledger) == (ledger \div CheckpointFreq) * CheckpointFreq

(* roundDownToFirstReplayAfterCheckpointStart *)
FirstReplay(ledger) ==
    IF ledger < CheckpointFreq THEN 2 ELSE (ledger \div CheckpointFreq) * CheckpointFreq

(* A subprocess is started with a reader and a watcher. *)
StartStream(first, last, until, block) ==
    /\ nextLedger' = first /\ lastLedger' = until /\ blocking' = block /\ processExit' = FALSE
    /\ shutdown' = "open"
    /\ reader' = [at |-> "check", item |-> 0, until |-> until]
    /\ watcher' = "waiting"
    /\ core' = [at |-> "running", next |-> first, last |-> last]

ReturnError == call' = Idle /\ result' = "error"

(* openOfflineReplaySubprocess after its Close. *)
OpenOffline ==
    LET r == call.range
        to == IF r.to > Archive THEN Archive ELSE r.to
    IN /\ call.at = "open" /\ r.to # 0
       /\ \/ /\ r.from <= Archive
             /\ StartStream(FirstReplay(r.from), to, to, TRUE)
             /\ call' = [call EXCEPT !.at = "first"]
             /\ UNCHANGED <<result, faults>>
          \/ /\ r.from > Archive \/ faults < MaxFaults
             /\ faults' = IF r.from > Archive THEN faults ELSE faults + 1
             /\ ReturnError
             /\ UNCHANGED <<nextLedger, lastLedger, blocking, processExit, shutdown, reader, watcher, core>>
       /\ UNCHANGED <<cachedMeta, metaC, pipe, ready>>

(* openOnlineReplaySubprocess after its Close: a stream that starts behind the range is
   read up to it, GetLedger blocking meanwhile; a cached ledger is found at once. *)
OpenOnline ==
    LET r == call.range
        first == LB!RunFromNext(r.from)
        forward == first < r.from /\ cachedMeta # r.from
    IN /\ call.at = "open" /\ r.to = 0
       /\ \/ /\ LB!CanOpenOnline(r.from, Archive)
             /\ StartStream(first, MaxLedger, 0, forward)
             /\ call' = IF forward THEN [call EXCEPT !.at = "get", !.seq = r.from, !.next = "first"]
                                   ELSE [call EXCEPT !.at = "first"]
             /\ UNCHANGED <<result, faults>>
          \/ /\ ~LB!CanOpenOnline(r.from, Archive) \/ faults < MaxFaults
             /\ faults' = IF LB!CanOpenOnline(r.from, Archive) THEN faults + 1 ELSE faults
             /\ ReturnError
             /\ UNCHANGED <<nextLedger, lastLedger, blocking, processExit, shutdown, reader, watcher, core>>
       /\ UNCHANGED <<cachedMeta, metaC, pipe, ready>>

(* PrepareRange waits for the first item; if the process exited it returns an error. *)
WaitFirst ==
    /\ call.at = "first" /\ metaC # <<>>
    /\ call' = Idle
    /\ IF processExit THEN result' = "error" /\ UNCHANGED ready
                      ELSE result' = "ok" /\ ready' = call.range
    /\ UNCHANGED <<session, streams, shutdown, faults>>

-----------------------------------------------------------------------------
(* GetLedger                                                               *)

CallGetLedger(seq) ==
    /\ call = Idle
    /\ IF cachedMeta = seq THEN result' = "found" /\ UNCHANGED call
       ELSE IF nextLedger = 0 \/ seq < nextLedger THEN result' = "error" /\ UNCHANGED call
       ELSE call' = [Idle EXCEPT !.at = "get", !.seq = seq] /\ UNCHANGED result
    /\ UNCHANGED <<session, streams, shutdown, ready, faults>>

GetMissing ==
    /\ call.at = "get" /\ ~blocking /\ metaC = <<>>
    /\ call' = Idle /\ result' = "missing"
    /\ UNCHANGED <<session, streams, shutdown, ready, faults>>

(* Mutant of GetError: the session goes on behind the error. *)
GetErrorKeepsSession ==
    /\ call.at = "get" /\ metaC # <<>> /\ Head(metaC) # nextLedger
    /\ metaC' = Tail(metaC)
    /\ ReturnError
    /\ UNCHANGED <<session, shutdown, reader, watcher, core, pipe, processExit, ready, faults>>

(* An error or an unexpected ledger closes the session. *)
GetError ==
    /\ call.at = "get" /\ metaC # <<>> /\ Head(metaC) # nextLedger
    /\ metaC' = Tail(metaC)
    /\ blocking' = IF call.next = "first" THEN FALSE ELSE blocking
    /\ CloseBegin("error")
    /\ UNCHANGED <<cachedMeta, reader, watcher, core, pipe, processExit, result, ready, faults>>

(* The next ledger; the requested one is cached, and the last of a bounded range
   closes the session. *)
GetNext ==
    /\ call.at = "get" /\ metaC # <<>> /\ Head(metaC) = nextLedger
    /\ metaC' = Tail(metaC)
    /\ \/ /\ nextLedger # call.seq
          /\ nextLedger' = nextLedger + 1
          /\ UNCHANGED <<cachedMeta, lastLedger, blocking, shutdown, call, result>>
       \/ /\ nextLedger = call.seq
          /\ cachedMeta' = call.seq
          /\ IF lastLedger = call.seq
             THEN CloseBegin("found") /\ UNCHANGED <<blocking, result>>
             ELSE /\ nextLedger' = nextLedger + 1
                  /\ IF call.next = "first"
                     THEN call' = [call EXCEPT !.at = "first", !.next = "none"] /\ blocking' = FALSE
                          /\ UNCHANGED result
                     ELSE call' = Idle /\ result' = "found" /\ UNCHANGED blocking
                  /\ UNCHANGED <<lastLedger, shutdown>>
    /\ UNCHANGED <<reader, watcher, core, pipe, processExit, ready, faults>>

CallClose ==
    /\ call = Idle
    /\ CloseBegin("closed")
    /\ UNCHANGED <<cachedMeta, blocking, streams, result, ready, faults>>

(* GetLatestLedgerSequence counts the items of the buffer. *)
GetLatestLedgerSequence == IF lastLedger = 0 THEN nextLedger - 1 + Len(metaC) ELSE lastLedger

-----------------------------------------------------------------------------
Call == CallClose \/ (\E r \in Ranges : CallPrepareRange(r)) \/ (\E seq \in Ledgers : CallGetLedger(seq))
CallStep == CloseJoin \/ CloseRunner \/ OpenOffline \/ OpenOnline \/ WaitFirst
            \/ GetMissing \/ GetError \/ GetNext
Reader == ReaderCheck \/ ReaderRead \/ ReaderSend

Next == Call \/ CallStep \/ Reader \/ WatcherWait \/ CoreEmit \/ CoreExit

Spec == Init /\ [][Next]_vars

(* The goroutines run; nothing is assumed of hcnet-core. *)
FairSpec == Spec /\ WF_vars(CallStep) /\ WF_vars(Reader) /\ WF_vars(WatcherWait)

(* hcnet-core goes on: it writes what the pipe takes, or exits. *)
LiveSpec == FairSpec /\ WF_vars(CoreEmit \/ CoreExit)

-----------------------------------------------------------------------------
(* Properties.                                                             *)

Session == nextLedger # 0

(* Everything on its way from hcnet-core to the caller, in order. *)
Stream == metaC \o (IF reader.at = "send" THEN <<reader.item>> ELSE <<>>) \o pipe

(* While a session is open no ledger is lost, repeated or overtaken between the process
   and the caller: unless hcnet-core skipped one, the stream goes on at nextLedger and an
   error comes after every ledger that was read before it. *)
StreamInOrder ==
    Session =>
        /\ \A i \in DOMAIN Stream : Stream[i] < 0 => i = Len(Stream)
        /\ faults = 0 =>
              /\ \A i \in DOMAIN Stream : Stream[i] > 0 => Stream[i] = nextLedger + i - 1
              /\ core.next = nextLedger + (IF \E i \in DOMAIN Stream : Stream[i] < 0
                                          THEN Len(Stream) - 1 ELSE Len(Stream))

(* A session owns its goroutines and its process: a reader never outlives the channels
   it sends to, and when a call has returned without a session nothing is left running. *)
NothingLeftBehind ==
    /\ reader.at # "done" => shutdown # "nil"
    /\ call = Idle /\ ~Session => reader.at = "done" /\ core.at = "none" /\ watcher = "none"

(* The number of ledgers at the front of a buffer that GetLedger accepts. *)
Accepted(buffer, next) ==
    CHOOSE k \in 0..Len(buffer) :
        /\ \A i \in 1..k : buffer[i] = next + i - 1
        /\ k < Len(buffer) => buffer[k + 1] # next + k

(* What LedgerBackend sees of it. *)
View ==
    IF ~Session THEN [LB!NewBackend EXCEPT !.cached = cachedMeta]
    ELSE [next   |-> nextLedger,
          cached |-> cachedMeta,
          latest |-> nextLedger - 1 + Accepted(metaC, nextLedger),
          broken |-> Len(metaC) - Accepted(metaC, nextLedger)]

Answer(seq) == LB!GetLedgerResult(View, seq)

(* The last ledger of a bounded range closes the session. *)
Left(seq) ==
    LET after == LB!GetLedger(View, seq)
    IN IF seq = lastLedger /\ seq # cachedMeta /\ Answer(seq) = "found" THEN LB!Close(after) ELSE after

(* What a call has come to: it has returned, it is closing the session before it returns,
   or it is PrepareRange after its fast-forward. *)
Decided == IF call = Idle THEN result ELSE IF call.at = "first" THEN "found" ELSE call.next

(* Every GetLedger, the caller's and that of PrepareRange's fast-forward, answers and
   leaves behind what LedgerBackend says of the buffer its last read meets, whatever the
   reader did during the call and whatever fast-forward or earlier session filled the
   cache: a cached ledger, a closed session and a ledger behind the stream are answered at
   once; a read that ends the call finds the ledger, nothing or an error, and an error has
   closed the session before it is returned; a read that goes on decides nothing. *)
AnswersAsLedgerBackend ==
    [][/\ \A seq \in Ledgers :
             CallGetLedger(seq) /\ call' = Idle => result' = Answer(seq) /\ View' = Left(seq)
       /\ call.at = "get" =>
             IF call'.at = "get"
             THEN nextLedger' # nextLedger => Answer(call.seq)' = Answer(call.seq) /\ Left(call.seq)' = Left(call.seq)
             ELSE Decided' = Answer(call.seq) /\ View' = Left(call.seq)
       /\ call.at \in {"join", "runner"} /\ call.next \in {"found", "error"} =>
             Decided' = Decided /\ View' = View]_vars

(* As long as hcnet-core lives and writes, or exits, PrepareRange, its fast-forward
   included, and Close return, a reader blocked in the pipe or at a full buffer
   notwithstanding. *)
PrepareAndCloseReturn ==
    call.at \in {"join", "runner", "open", "first"} \/ (call.at = "get" /\ call.next = "first") ~> call = Idle

-----------------------------------------------------------------------------
(* What the code says of itself and does not keep; the README lists the cases.  *)

(* "Close closes existing Hcnet-Core process", also one that writes nothing. *)
CloseReturns == call.at = "join" ~> call.at # "join"

(* "It's always the last value available in the backend": the ledger
   GetLatestLedgerSequence returns was delivered. *)
LatestIsAvailable ==
    call = Idle /\ Session /\ lastLedger = 0 =>
        \/ GetLatestLedgerSequence = nextLedger - 1
        \/ \E i \in DOMAIN metaC : metaC[i] >= GetLatestLedgerSequence

(* "If process exited return an error": PrepareRange does not succeed with nothing but
   the end of an exited process in the buffer. *)
ExitIsReported ==
    [][call.at = "first" /\ call' = Idle /\ result' = "ok" => Head(metaC) > 0]_vars

(* "PrepareRange prepares the given range (including from and to) to be loaded": a ledger
   of the range prepared last is not waited for without end. *)
PreparedIsServed ==
    \A seq \in Ledgers :
        call.at = "get" /\ call.seq = seq /\ seq \in ready.from..ready.to ~> call = Idle
=============================================================================
