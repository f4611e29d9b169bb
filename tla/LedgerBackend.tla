--------------------------- MODULE LedgerBackend ---------------------------
(***************************************************************************)
(* The ledger backend of one ingesting process, as its callers see it.     *)
(*                                                                         *)
(* A backend is a record                                                   *)
(*   next    the next ledger the captive core stream will deliver, 0 when  *)
(*           no session is open (CaptiveHcnetCore.nextLedger);             *)
(*   cached  the ledger GetLedger returned last (cachedMeta), 0 for none;  *)
(*   latest  the newest ledger the backend holds: the newest ledger of the *)
(*           read-ahead buffer for captive core, of the core database for  *)
(*           DatabaseBackend;                                              *)
(*   broken  the items of the buffer from the first one on that is not a   *)
(*           ledger GetLedger accepts: an error of the stream, or a ledger *)
(*           out of order and what follows it.                             *)
(* The buffer of captive core is next..latest and then the broken items.   *)
(***************************************************************************)
EXTENDS Integers

CONSTANTS
    Captive,         \* TRUE: CaptiveHcnetCore; FALSE: DatabaseBackend
    CheckpointFreq,  \* ledgers per checkpoint (64 in the code)
    ReadAhead,       \* readAheadBufferSize
    MaxLedger        \* bound: the last ledger the network closes

ASSUME BackendAssumption ==
    /\ Captive \in BOOLEAN
    /\ CheckpointFreq \in Nat \ {0, 1, 2}
    /\ ReadAhead \in Nat \ {0}
    /\ MaxLedger \in Nat \ {0, 1}

Backends == [next : Nat, cached : 0..MaxLedger, latest : 0..MaxLedger, broken : Nat]

NewBackend == [next |-> 0, cached |-> 0, latest |-> 0, broken |-> 0]

IsCheckpoint(i) == (i + 1) % CheckpointFreq = 0

PrevCheckpoint(i) ==
    IF i < CheckpointFreq THEN CheckpointFreq - 1
    ELSE ((i + 1) \div CheckpointFreq) * CheckpointFreq - 1

-----------------------------------------------------------------------------
(* Sessions.                                                               *)

IsPrepared(b, from) == ~Captive \/ (b.next # 0 /\ b.next <= from)

(* Mutant of Close: the cached ledger goes with the session. *)
CloseForgetsCache(b) == NewBackend

(* Close keeps cachedMeta: only the session is forgotten. *)
Close(b) == [NewBackend EXCEPT !.cached = b.cached]

(* The header whose hash hcnet-core is started from. *)
RunFromHeader(from) ==
    IF from <= CheckpointFreq - 1 THEN 3
    ELSE IF IsCheckpoint(from) THEN from ELSE PrevCheckpoint(from)

(* The first ledger hcnet-core streams when started for a range. *)
RunFromNext(from) ==
    LET first == RunFromHeader(from) - (CheckpointFreq - 1)
    IN IF from <= CheckpointFreq - 1 \/ first < 2 THEN 2 ELSE first

(* An online session can only be opened near the archive's latest checkpoint,
   and its header must have been published. *)
CanOpenOnline(from, archive) ==
    /\ from # 1
    /\ from <= archive + 2 * CheckpointFreq
    /\ RunFromHeader(from) <= archive

(* openOnlineReplaySubprocess and the wait for the first buffered ledger: the
   stream starts at RunFromNext(from); when that is behind from, GetLedger(from)
   fast-forwards it, unless the cached ledger of an earlier session already is
   from.  At the bound MaxLedger the wait for one more ledger is not modelled. *)
OpenOnline(b, from) ==
    LET first == RunFromNext(from)
        forward == first < from /\ b.cached # from
        next == IF forward THEN from + 1 ELSE first
    IN [next   |-> next,
        cached |-> IF forward THEN from ELSE b.cached,
        latest |-> IF next <= MaxLedger THEN next ELSE MaxLedger,
        broken |-> 0]

-----------------------------------------------------------------------------
(* Reading ledgers.                                                        *)

(* GetLatestLedgerSequence fails on a closed session and on an empty core database. *)
HasLatestLedger(b) == IF Captive THEN b.next # 0 ELSE b.latest # 0

(* Captive core counts the items of its buffer, whatever they are. *)
GetLatestLedgerSequence(b) == b.latest + b.broken

(* GetLedger answers "found", "missing" (false, no error) or "error"; the
   cached ledger is answered before the session is looked at. *)
GetLedgerResult(b, seq) ==
    IF ~Captive THEN (IF seq >= 1 /\ seq <= b.latest THEN "found" ELSE "missing")
    ELSE IF b.cached # 0 /\ b.cached = seq THEN "found"
    ELSE IF b.next = 0 \/ seq < b.next THEN "error"
    ELSE IF seq <= b.latest THEN "found"
    ELSE IF b.broken > 0 THEN "error" ELSE "missing"

(* What GetLedger leaves behind: the non-blocking stream is consumed up to the
   ledger, or to the end of the buffer when the ledger is not in it; an item it
   does not accept on the way closes the session. *)
GetLedger(b, seq) ==
    IF ~Captive \/ b.cached = seq \/ b.next = 0 \/ seq < b.next THEN b
    ELSE IF seq <= b.latest THEN [next |-> seq + 1, cached |-> seq, latest |-> b.latest, broken |-> b.broken]
    ELSE IF b.broken > 0 THEN Close(b)
    ELSE [b EXCEPT !.next = b.latest + 1]

(* The room left in the read-ahead buffer of an open session. *)
Room(b) == ReadAhead - (b.latest - b.next + 1) - b.broken

(* hcnet-core delivers one more ledger.  Captive core stops when the read-ahead
   buffer is full. *)
CanDeliver(b) ==
    /\ b.latest < MaxLedger
    /\ Captive => b.next # 0 /\ b.broken = 0 /\ Room(b) > 0

Deliver(b) == [b EXCEPT !.latest = @ + 1]

(* hcnet-core exits, its pipe fails or it skips a ledger: n items that GetLedger
   does not accept follow in the buffer. *)
CanBreak(b) == Captive /\ b.next # 0 /\ b.broken = 0 /\ Room(b) > 0

Break(b, n) == [b EXCEPT !.broken = n]
=============================================================================
