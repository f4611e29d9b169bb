------------------------- MODULE CaptiveCoreProofs -------------------------
(***************************************************************************)
(* Proofs about CaptiveCore for any checkpoint frequency, buffer, pipe,    *)
(* ranges and faults.                                                      *)
(***************************************************************************)
EXTENDS CaptiveCore, SequenceTheorems, WellFoundedInduction, TLAPS

(* What a call knows of the session: the shutdown channel is open with it and closed
   while Close waits for the reader, and a ledger that is read for is ahead of the
   stream and not cached. *)
CallInv ==
    /\ nextLedger # 0 <=> shutdown = "open"
    /\ shutdown = "closed" <=> call.at = "join"
    /\ call.at \in {"get", "first"} => nextLedger # 0
    /\ call.at \in {"join", "runner", "open"} => nextLedger = 0
    /\ call.at \in {"join", "runner"} => call.next \in {"open", "found", "error", "closed"}
    /\ call.at = "get" => nextLedger <= call.seq /\ cachedMeta # call.seq

(* What Close and the runner leave behind. *)
OwnerInv ==
    /\ shutdown = "nil" => reader.at = "done" /\ metaC = <<>>
    /\ reader.at = "send" => reader.item # 0
    /\ core.at = "none" => pipe = <<>>
    /\ core.at = "running" => core.next >= 2
    /\ call.at = "open" \/ (call.at = "idle" /\ nextLedger = 0) => core.at = "none" /\ watcher = "none"

(* Nothing follows an error: it is read from an empty pipe of a process that exited, and
   the reader ends with it. *)
ErrorInv ==
    /\ reader.at = "send" /\ reader.item < 0 => pipe = <<>> /\ core.at # "running"
    /\ \A i \in 1..Len(metaC) : metaC[i] < 0 =>
          i = Len(metaC) /\ reader.at = "done" /\ pipe = <<>> /\ core.at # "running"

Sending == IF reader.at = "send" THEN 1 ELSE 0

(* The ledger the next item of the pipe stands for. *)
Ahead == nextLedger + Len(metaC) + Sending

(* An error is on its way. *)
Ending == (reader.at = "send" /\ reader.item < 0) \/ \E i \in 1..Len(metaC) : metaC[i] < 0

(* The stream part by part: buffer, reader, pipe and process continue each other. *)
OrderInv ==
    nextLedger # 0 /\ faults = 0 =>
        /\ \A i \in 1..Len(metaC) : metaC[i] > 0 => metaC[i] = nextLedger + i - 1
        /\ reader.at = "send" /\ reader.item > 0 => reader.item = nextLedger + Len(metaC)
        /\ \A i \in 1..Len(pipe) : pipe[i] = Ahead + i - 1
        /\ core.next = Ahead + Len(pipe) - (IF Ending THEN 1 ELSE 0)

(* The inductive invariant. *)
IInv == TypeOK /\ CallInv /\ OwnerInv /\ ErrorInv /\ OrderInv

-----------------------------------------------------------------------------
(* Where streams start.                                                    *)

(* Rounding down to a multiple of the checkpoint frequency. *)
LEMMA RoundDown ==
    ASSUME NEW n \in Nat, NEW f \in Nat \ {0}
    PROVE  /\ n \div f \in Nat
           /\ (n \div f) * f \in Int
           /\ (n \div f) * f <= n
           /\ n >= f => (n \div f) * f >= f
  <1>1. n \div f \in Nat /\ (n \div f) * f \in Int /\ (n \div f) * f <= n /\ n < (n \div f) * f + f
    BY SMT
  <1>2. ASSUME n >= f PROVE n \div f >= 1
    BY <1>1, <1>2, SMT
  <1>3. ASSUME n >= f PROVE (n \div f) * f >= f
    BY <1>1, <1>2, <1>3, SMT
  <1> QED BY <1>1, <1>3

(* roundDownToFirstReplayAfterCheckpointStart returns a ledger of the network. *)
LEMMA FirstReplayBounds ==
    ASSUME NEW from \in {0} \cup Ledgers
    PROVE  FirstReplay(from) \in Ledgers
  <1>1. CASE from < CheckpointFreq
    BY <1>1, CaptiveAssumption DEF FirstReplay, Ledgers
  <1>2. CASE from >= CheckpointFreq
    <2> DEFINE start == (from \div CheckpointFreq) * CheckpointFreq
    <2>1. from \in Nat /\ from <= MaxLedger /\ MaxLedger \in Nat /\ CheckpointFreq \in Nat \ {0} /\ CheckpointFreq >= 2
      BY CaptiveAssumption DEF Ledgers
    <2>2. start \in Int /\ start <= from /\ start >= CheckpointFreq
      BY <1>2, <2>1, RoundDown
    <2>3. FirstReplay(from) = start
      BY <1>2, <2>1 DEF FirstReplay
    <2> HIDE DEF start
    <2> QED BY <2>1, <2>2, <2>3 DEF Ledgers
  <1> QED BY <1>1, <1>2, CaptiveAssumption DEF Ledgers

(* An online stream starts at or before the ledger it is opened for, and after ledger 1. *)
LEMMA RunFromNextBounds ==
    ASSUME NEW from \in {0} \cup Ledgers
    PROVE  LB!RunFromNext(from) \in Ledgers
  <1>0. from \in Nat /\ from <= MaxLedger /\ CheckpointFreq \in Nat \ {0} /\ CheckpointFreq >= 3
        /\ MaxLedger \in Nat /\ MaxLedger >= 2
    BY CaptiveAssumption DEF Ledgers
  <1> DEFINE header == LB!RunFromHeader(from)
             first == header - (CheckpointFreq - 1)
  <1>1. CASE from <= CheckpointFreq - 1
    BY <1>0, <1>1 DEF LB!RunFromNext, Ledgers
  <1>2. CASE from > CheckpointFreq - 1
    <2>1. header \in Int /\ header <= from
      <3>1. CASE LB!IsCheckpoint(from)
        BY <1>0, <1>2, <3>1 DEF LB!RunFromHeader
      <3>2. CASE ~LB!IsCheckpoint(from)
        <4>1. header = ((from + 1) \div CheckpointFreq) * CheckpointFreq - 1
          BY <1>0, <1>2, <3>2 DEF LB!RunFromHeader, LB!PrevCheckpoint
        <4>2. /\ ((from + 1) \div CheckpointFreq) * CheckpointFreq \in Int
              /\ ((from + 1) \div CheckpointFreq) * CheckpointFreq <= from + 1
          <5>1. from + 1 \in Nat
            BY <1>0
          <5> HIDE DEF header, first
          <5> QED BY <1>0, <5>1, RoundDown
        <4> QED BY <1>0, <4>1, <4>2
      <3> QED BY <3>1, <3>2
    <2>2. LB!RunFromNext(from) = IF first < 2 THEN 2 ELSE first
      BY <1>0, <1>2 DEF LB!RunFromNext
    <2> HIDE DEF header
    <2> QED BY <1>0, <2>1, <2>2 DEF Ledgers
  <1> QED BY <1>0, <1>1, <1>2

-----------------------------------------------------------------------------
ReaderRecord == [at : {"check", "read", "send", "done"}, item : {0} \cup Items, until : 0..MaxLedger]
CoreRecord == [at : {"none", "running", "exited"}, next : 0..MaxLedger + 2, last : 0..MaxLedger]
CallRecord == [at : {"idle", "join", "runner", "open", "get", "first"},
               range : Ranges \cup {NoRange}, seq : 0..MaxLedger,
               next : {"none", "open", "first", "found", "error", "closed"}]

(* The constants that are numbers. *)
LEMMA Bounds ==
    /\ MaxLedger \in Nat /\ MaxLedger >= 2 /\ ReadAhead \in Nat /\ PipeSize \in Nat /\ MaxFaults \in Nat
    /\ CheckpointFreq \in Nat /\ CheckpointFreq >= 3 /\ Archive \in 1..MaxLedger
  BY CaptiveAssumption

(* The types, as the steps use them. *)
LEMMA Fields ==
    ASSUME TypeOK
    PROVE  /\ nextLedger \in Nat /\ lastLedger \in Nat /\ cachedMeta \in Nat /\ faults \in Nat
           /\ metaC \in Seq(Items) /\ Len(metaC) \in Nat /\ \A i \in 1..Len(metaC) : metaC[i] \in Int
           /\ pipe \in Seq(Ledgers) /\ Len(pipe) \in Nat
           /\ \A i \in 1..Len(pipe) : pipe[i] \in Nat /\ pipe[i] > 0
           /\ reader.item \in Int /\ reader.until \in Nat
           /\ core.next \in Nat /\ core.last \in Nat /\ core.last <= MaxLedger /\ call.seq \in Nat
           /\ MaxLedger \in Nat /\ ReadAhead \in Nat /\ PipeSize \in Nat /\ MaxFaults \in Nat
           /\ reader \in ReaderRecord /\ core \in CoreRecord /\ call \in CallRecord
  <1>1. (\A x \in Items : x \in Int) /\ \A x \in Ledgers : x \in Nat /\ x > 0
    BY CaptiveAssumption DEF Ledgers, Items, Failed, Exited
  <1>2. /\ metaC \in Seq(Items) /\ Len(metaC) \in Nat /\ \A i \in 1..Len(metaC) : metaC[i] \in Items
        /\ pipe \in Seq(Ledgers) /\ Len(pipe) \in Nat /\ \A i \in 1..Len(pipe) : pipe[i] \in Ledgers
    <2>1. metaC \in Seq(Items) /\ pipe \in Seq(Ledgers)
      BY DEF TypeOK
    <2> QED BY <2>1
  <1>3. reader \in ReaderRecord /\ core \in CoreRecord /\ call \in CallRecord
    BY DEF TypeOK, ReaderRecord, CoreRecord, CallRecord
  <1>4. reader.item \in Int /\ reader.until \in Nat
    <2>1. reader.item \in {0} \cup Items /\ reader.until \in 0..MaxLedger
      BY <1>3 DEF ReaderRecord
    <2>2. reader.item \in Int
      BY <1>1, <2>1
    <2>3. reader.until \in Nat
      BY <2>1, Bounds
    <2> QED BY <2>2, <2>3
  <1>5. core.next \in Nat /\ core.last \in Nat /\ core.last <= MaxLedger /\ call.seq \in Nat
    BY <1>3, Bounds DEF CoreRecord, CallRecord
  <1>6. nextLedger \in Nat /\ lastLedger \in Nat /\ cachedMeta \in Nat /\ faults \in Nat
    BY CaptiveAssumption DEF TypeOK, Ledgers
  <1> QED BY <1>1, <1>2, <1>3, <1>4, <1>5, <1>6, Bounds

-----------------------------------------------------------------------------
(* The subprocess and the watcher.                                         *)

(* hcnet-core appends the ledger that follows, unless it skips one. *)
LEMMA EmitStep ==
    ASSUME IInv, CoreEmit
    PROVE  IInv'
  <1> USE DEF IInv
  <1> DEFINE seq == IF faults' = faults THEN core.next ELSE core.next + 1
  <1>1. /\ UNCHANGED <<nextLedger, lastLedger, cachedMeta, blocking, metaC, reader, watcher>>
        /\ UNCHANGED <<processExit, shutdown, call, result, ready>>
        /\ core.at = "running" /\ Len(pipe) < PipeSize
    BY DEF CoreEmit, session
  <1>2. pipe' = Append(pipe, seq) /\ core' = [core EXCEPT !.next = seq + 1]
    BY DEF CoreEmit
  <1>3. /\ faults' \in 0..MaxFaults /\ (faults' = 0 => faults = 0 /\ seq = core.next)
        /\ seq \in Nat /\ seq >= 2 /\ seq <= MaxLedger
    <2>1. \/ core.next <= core.last /\ faults' = faults
          \/ core.next < core.last /\ faults < MaxFaults /\ faults' = faults + 1
      BY DEF CoreEmit, Fault
    <2>2. core.next >= 2
      BY <1>1 DEF OwnerInv
    <2>3. faults \in 0..MaxFaults
      BY DEF TypeOK
    <2>4. /\ core.next \in Nat /\ core.last \in Nat /\ core.last <= MaxLedger
          /\ MaxLedger \in Nat /\ MaxFaults \in Nat
      BY Fields
    <2>5. CASE core.next <= core.last /\ faults' = faults
      BY <2>2, <2>3, <2>4, <2>5
    <2>6. CASE core.next < core.last /\ faults < MaxFaults /\ faults' = faults + 1
      BY <2>2, <2>3, <2>4, <2>6
    <2> QED BY <2>1, <2>5, <2>6
  <1> HIDE DEF seq
  <1>4. seq \in Ledgers
    BY <1>3, Fields DEF Ledgers
  <1>5. core' \in CoreRecord /\ core'.next = seq + 1 /\ core'.at = "running" /\ core'.last = core.last
    <2>1. core \in CoreRecord /\ MaxLedger \in Nat
      BY Fields
    <2>2. seq + 1 \in 0..MaxLedger + 2
      BY <1>3, <2>1
    <2> QED BY <1>1, <1>2, <2>1, <2>2 DEF CoreRecord
  <1>6. pipe' \in Seq(Ledgers) /\ Len(pipe') = Len(pipe) + 1 /\ Len(pipe') <= PipeSize
        /\ pipe'[Len(pipe) + 1] = seq /\ \A i \in 1..Len(pipe) : pipe'[i] = pipe[i]
    <2>1. pipe \in Seq(Ledgers) /\ PipeSize \in Nat
      BY Fields
    <2> QED BY <1>1, <1>2, <1>4, <2>1
  <1>7. TypeOK'
    BY <1>1, <1>3, <1>5, <1>6 DEF TypeOK, CoreRecord
  <1>8. CallInv'
    BY <1>1 DEF CallInv
  <1>9. OwnerInv'
    BY <1>1, <1>3, <1>5 DEF OwnerInv
  <1>10. ErrorInv' /\ ~Ending /\ ~Ending'
    BY <1>1 DEF ErrorInv, Ending
  <1>11. OrderInv'
    <2>1. nextLedger \in Nat /\ Len(metaC) \in Nat /\ Len(pipe) \in Nat /\ core.next \in Nat
      BY Fields
    <2>2. Ahead' = Ahead /\ Ahead \in Nat
      BY <1>1, <2>1 DEF Ahead, Sending
    <2>3. SUFFICES ASSUME nextLedger # 0, faults' = 0
                   PROVE  /\ \A i \in 1..Len(pipe') : pipe'[i] = Ahead + i - 1
                          /\ core'.next = Ahead + Len(pipe')
      BY <1>1, <1>3, <1>10, <2>2 DEF OrderInv
    <2>4. /\ \A i \in 1..Len(pipe) : pipe[i] = Ahead + i - 1
          /\ core.next = Ahead + Len(pipe) /\ seq = core.next
      BY <1>3, <1>10, <2>1, <2>2, <2>3 DEF OrderInv
    <2>5. core'.next = Ahead + Len(pipe')
      BY <1>5, <1>6, <2>1, <2>2, <2>4
    <2>6. ASSUME NEW i \in 1..Len(pipe')
          PROVE  pipe'[i] = Ahead + i - 1
      <3>1. CASE i = Len(pipe) + 1
        BY <1>6, <2>1, <2>2, <2>4, <3>1
      <3>2. CASE i # Len(pipe) + 1
        <4>1. i \in 1..Len(pipe)
          BY <1>6, <2>1, <3>2
        <4> QED BY <1>6, <2>4, <4>1
      <3> QED BY <3>1, <3>2
    <2> QED BY <2>5, <2>6
  <1> QED BY <1>7, <1>8, <1>9, <1>10, <1>11

(* The exit of the process, which its watcher waits for. *)
LEMMA ExitStep ==
    ASSUME IInv, CoreExit \/ WatcherWait
    PROVE  IInv'
  <1> USE DEF IInv
  <1>1. /\ UNCHANGED <<nextLedger, lastLedger, cachedMeta, blocking, metaC, reader, pipe>>
        /\ UNCHANGED <<processExit, shutdown, call, result, ready>>
    BY DEF CoreExit, WatcherWait, session
  <1>2. /\ core' \in CoreRecord /\ core'.next = core.next
        /\ (core'.at = "none" <=> core.at = "none") /\ (core'.at = "running" => core.at = "running")
    <2>1. core \in CoreRecord
      BY Fields
    <2>2. CASE WatcherWait
      BY <2>1, <2>2 DEF WatcherWait
    <2>3. CASE CoreExit
      BY <2>1, <2>3 DEF CoreExit, CoreRecord
    <2> QED BY <2>2, <2>3
  <1>3. faults' \in 0..MaxFaults /\ (faults' = 0 => faults = 0)
    <2>1. faults \in 0..MaxFaults /\ MaxFaults \in Nat
      BY Fields DEF TypeOK
    <2> QED BY <2>1 DEF CoreExit, WatcherWait, Fault
  <1>4. watcher' \in {"none", "waiting", "sending", "done"} /\ (watcher = "none" => watcher' = "none")
    BY DEF CoreExit, WatcherWait, TypeOK
  <1>5. TypeOK'
    BY <1>1, <1>2, <1>3, <1>4 DEF TypeOK, CoreRecord
  <1>6. CallInv'
    BY <1>1 DEF CallInv
  <1>7. OwnerInv'
    BY <1>1, <1>2, <1>4 DEF OwnerInv
  <1>8. ErrorInv'
    BY <1>1, <1>2 DEF ErrorInv
  <1>9. OrderInv'
    BY <1>1, <1>2, <1>3 DEF OrderInv, Ahead, Sending, Ending
  <1> QED BY <1>5, <1>6, <1>7, <1>8, <1>9

-----------------------------------------------------------------------------
(* sendLedgerMeta.                                                         *)

(* The reader looks at the shutdown channel. *)
LEMMA ReaderCheckStep ==
    ASSUME IInv, ReaderCheck
    PROVE  IInv'
  <1> USE DEF IInv
  <1>1. /\ UNCHANGED <<nextLedger, lastLedger, cachedMeta, blocking, metaC, watcher, core, pipe>>
        /\ UNCHANGED <<processExit, shutdown, call, result, ready, faults>>
        /\ reader.at = "check"
    BY DEF ReaderCheck, session
  <1>2. reader' \in ReaderRecord /\ reader'.at \in {"read", "done"} /\ reader'.item = reader.item
    <2>1. reader \in ReaderRecord
      BY Fields
    <2> QED BY <2>1 DEF ReaderCheck, ReaderRecord
  <1>3. TypeOK'
    BY <1>1, <1>2 DEF TypeOK, ReaderRecord
  <1>4. CallInv' /\ OwnerInv'
    BY <1>1, <1>2 DEF CallInv, OwnerInv
  <1>5. ErrorInv'
    BY <1>1, <1>2 DEF ErrorInv
  <1>6. OrderInv'
    BY <1>1, <1>2 DEF OrderInv, Ahead, Sending, Ending
  <1> QED BY <1>3, <1>4, <1>5, <1>6

(* What the reader reads follows what it sent, and an error is read after every ledger. *)
LEMMA ReaderReadStep ==
    ASSUME IInv, ReaderRead
    PROVE  IInv'
  <1> USE DEF IInv
  <1>1. /\ UNCHANGED <<nextLedger, lastLedger, cachedMeta, blocking, metaC, core>>
        /\ UNCHANGED <<shutdown, call, result, ready, faults>>
        /\ reader.at = "read"
    BY DEF ReaderRead, session
  <1>2. /\ nextLedger \in Nat /\ Len(metaC) \in Nat /\ Len(pipe) \in Nat /\ core.next \in Nat
        /\ reader \in ReaderRecord /\ PipeSize \in Nat
        /\ pipe \in Seq(Ledgers) /\ \A i \in 1..Len(pipe) : pipe[i] \in Nat /\ pipe[i] > 0
        /\ Len(pipe) <= PipeSize
    BY Fields DEF TypeOK
  <1>3. ~Ending /\ Ahead = nextLedger + Len(metaC) /\ Sending = 0
    BY <1>1, <1>2 DEF Ending, ErrorInv, Ahead, Sending
  <1>4. processExit' \in BOOLEAN /\ watcher' \in {"none", "waiting", "sending", "done"}
        /\ (watcher = "none" => watcher' = "none")
    BY DEF ReaderRead, TypeOK
  <1>5. CASE pipe # <<>> /\ reader' = [reader EXCEPT !.at = "send", !.item = Head(pipe)] /\ pipe' = Tail(pipe)
    <2>1. Len(pipe) >= 1 /\ Head(pipe) = pipe[1] /\ Head(pipe) \in Ledgers /\ Head(pipe) > 0 /\ Head(pipe) \in Nat
      BY <1>2, <1>5
    <2>2. /\ pipe' \in Seq(Ledgers) /\ Len(pipe') = Len(pipe) - 1
          /\ \A i \in 1..Len(pipe') : pipe'[i] = pipe[i + 1]
      BY <1>2, <1>5
    <2>3. reader' \in ReaderRecord /\ reader'.at = "send" /\ reader'.item = Head(pipe)
      BY <1>2, <1>5, <2>1 DEF ReaderRecord, Items
    <2>4. TypeOK'
      BY <1>1, <1>2, <1>4, <2>2, <2>3 DEF TypeOK, ReaderRecord
    <2>5. CallInv' /\ OwnerInv'
      BY <1>1, <1>4, <1>5, <2>1, <2>3 DEF CallInv, OwnerInv
    <2>6. ErrorInv' /\ ~Ending'
      BY <1>1, <1>3, <2>1, <2>3 DEF ErrorInv, Ending
    <2>7. OrderInv'
      <3>1. Ahead' = Ahead + 1
        BY <1>1, <1>2, <1>3, <2>3 DEF Ahead, Sending
      <3>2. SUFFICES ASSUME nextLedger # 0, faults = 0
                     PROVE  /\ Head(pipe) = nextLedger + Len(metaC)
                            /\ \A i \in 1..Len(pipe') : pipe'[i] = Ahead + i
                            /\ core.next = Ahead + 1 + Len(pipe')
        BY <1>1, <1>2, <1>3, <2>3, <2>6, <3>1 DEF OrderInv
      <3>3. /\ \A i \in 1..Len(pipe) : pipe[i] = Ahead + i - 1
            /\ core.next = Ahead + Len(pipe)
        BY <1>2, <1>3, <3>2 DEF OrderInv
      <3> QED BY <1>2, <1>3, <2>1, <2>2, <3>3
    <2> QED BY <2>4, <2>5, <2>6, <2>7
  <1>6. CASE /\ pipe = <<>> /\ core.at = "exited" /\ pipe' = pipe
             /\ \E e \in {Failed, Exited} : reader' = [reader EXCEPT !.at = "send", !.item = e]
    <2>1. PICK e \in {Failed, Exited} : reader' = [reader EXCEPT !.at = "send", !.item = e]
      BY <1>6
    <2>2. e \in Items /\ e \in Int /\ e < 0
      BY <2>1 DEF Failed, Exited, Items
    <2>3. reader' \in ReaderRecord /\ reader'.at = "send" /\ reader'.item = e
      BY <1>2, <2>1, <2>2 DEF ReaderRecord
    <2>4. TypeOK'
      BY <1>1, <1>4, <1>6, <2>3 DEF TypeOK, ReaderRecord
    <2>5. CallInv' /\ OwnerInv'
      BY <1>1, <1>4, <1>6, <2>2, <2>3 DEF CallInv, OwnerInv
    <2>6. ErrorInv' /\ Ending'
      BY <1>1, <1>3, <1>6, <2>2, <2>3 DEF ErrorInv, Ending
    <2>7. OrderInv'
      <3>1. Ahead' = Ahead + 1
        BY <1>1, <1>2, <1>3, <2>3 DEF Ahead, Sending
      <3> QED BY <1>1, <1>2, <1>3, <1>6, <2>2, <2>3, <2>6, <3>1 DEF OrderInv
    <2> QED BY <2>4, <2>5, <2>6, <2>7
  <1> QED BY <1>5, <1>6 DEF ReaderRead

(* The item the reader holds becomes the last of the buffer. *)
LEMMA ReaderSendStep ==
    ASSUME IInv, ReaderSend
    PROVE  IInv'
  <1> USE DEF IInv
  <1>1. /\ UNCHANGED <<nextLedger, lastLedger, cachedMeta, blocking, watcher, core, pipe>>
        /\ UNCHANGED <<processExit, shutdown, call, result, ready, faults>>
        /\ reader.at = "send"
    BY DEF ReaderSend, session
  <1>2. /\ nextLedger \in Nat /\ Len(metaC) \in Nat /\ reader \in ReaderRecord /\ ReadAhead \in Nat
        /\ metaC \in Seq(Items) /\ \A i \in 1..Len(metaC) : metaC[i] \in Int
        /\ reader.item \in Int /\ reader.item # 0 /\ Len(pipe) \in Nat /\ core.next \in Nat
    BY <1>1, Fields DEF OwnerInv
  <1>3. reader' \in ReaderRecord /\ reader'.at \in {"check", "done"} /\ reader'.item = reader.item
    BY <1>2 DEF ReaderSend, ReaderRecord
  <1>4. CASE /\ Len(metaC) < ReadAhead /\ metaC' = Append(metaC, reader.item)
             /\ reader.item < 0 => reader'.at = "done"
    <2>1. reader.item \in Items
      BY <1>2 DEF ReaderRecord
    <2>2. /\ metaC' \in Seq(Items) /\ Len(metaC') = Len(metaC) + 1 /\ Len(metaC') <= ReadAhead
          /\ metaC'[Len(metaC) + 1] = reader.item /\ \A i \in 1..Len(metaC) : metaC'[i] = metaC[i]
      BY <1>2, <1>4, <2>1
    <2>3. TypeOK'
      BY <1>1, <1>3, <2>2 DEF TypeOK, ReaderRecord
    <2>4. CallInv' /\ OwnerInv'
      BY <1>1, <1>3 DEF CallInv, OwnerInv
    <2>5. \A i \in 1..Len(metaC) : ~(metaC[i] < 0)
      BY <1>1 DEF ErrorInv
    <2>6. \A i \in 1..Len(metaC') : metaC'[i] < 0 => i = Len(metaC') /\ reader.item < 0
      BY <1>2, <2>2, <2>5
    <2>7. ErrorInv'
      BY <1>1, <1>3, <1>4, <2>6 DEF ErrorInv
    <2>8. Ending' <=> Ending
      <3>1. Ending <=> reader.item < 0
        BY <1>1, <2>5 DEF Ending
      <3>2. Ending' <=> reader.item < 0
        BY <1>2, <1>3, <2>2, <2>6 DEF Ending
      <3> QED BY <3>1, <3>2
    <2>9. Ahead' = Ahead /\ Ahead = nextLedger + Len(metaC) + 1
      <3>1. Sending = 1 /\ Sending' = 0
        BY <1>1, <1>3 DEF Sending
      <3>2. Ahead = nextLedger + Len(metaC) + 1 /\ Ahead' = nextLedger + Len(metaC') + 0
        BY <1>1, <3>1 DEF Ahead
      <3>3. \A k, m \in Nat : k + (m + 1) + 0 = k + m + 1
        OBVIOUS
      <3> QED BY <1>2, <2>2, <3>2, <3>3
    <2>10. OrderInv'
      <3>1. SUFFICES ASSUME nextLedger # 0, faults = 0
                     PROVE  \A i \in 1..Len(metaC') : metaC'[i] > 0 => metaC'[i] = nextLedger + i - 1
        BY <1>1, <1>3, <2>8, <2>9 DEF OrderInv
      <3>2. /\ \A i \in 1..Len(metaC) : metaC[i] > 0 => metaC[i] = nextLedger + i - 1
            /\ reader.item > 0 => reader.item = nextLedger + Len(metaC)
        BY <1>1, <3>1 DEF OrderInv
      <3>3. ASSUME NEW i \in 1..Len(metaC'), metaC'[i] > 0
            PROVE  metaC'[i] = nextLedger + i - 1
        <4>1. CASE i = Len(metaC) + 1
          BY <1>2, <2>2, <3>2, <3>3, <4>1
        <4>2. CASE i # Len(metaC) + 1
          <5>1. i \in 1..Len(metaC)
            BY <1>2, <2>2, <4>2
          <5> QED BY <2>2, <3>2, <3>3, <5>1
        <4> QED BY <4>1, <4>2
      <3> QED BY <3>3
    <2> QED BY <2>3, <2>4, <2>7, <2>10
  <1>5. CASE shutdown = "closed" /\ metaC' = metaC /\ reader'.at = "done"
    <2>1. TypeOK'
      BY <1>1, <1>3, <1>5 DEF TypeOK, ReaderRecord
    <2>2. CallInv' /\ OwnerInv' /\ ErrorInv'
      BY <1>1, <1>3, <1>5 DEF CallInv, OwnerInv, ErrorInv
    <2>3. OrderInv'
      BY <1>1, <1>5 DEF OrderInv, CallInv
    <2> QED BY <2>1, <2>2, <2>3
  <1>6. CASE /\ Len(metaC) < ReadAhead /\ metaC' = Append(metaC, reader.item)
             /\ reader' = [reader EXCEPT !.at = IF reader.item < 0 \/ (reader.until # 0 /\ reader.item >= reader.until)
                                                THEN "done" ELSE "check"]
    BY <1>2, <1>4, <1>6 DEF ReaderRecord
  <1>7. CASE shutdown = "closed" /\ reader' = [reader EXCEPT !.at = "done"] /\ metaC' = metaC
    BY <1>2, <1>5, <1>7 DEF ReaderRecord
  <1> QED BY <1>6, <1>7 DEF ReaderSend

-----------------------------------------------------------------------------
(* Close.                                                                  *)

(* A call that ends a session leaves the goroutines to CloseJoin and CloseRunner. *)
LEMMA EndSession ==
    ASSUME IInv, call.at \in {"idle", "get"}, call' \in CallRecord,
           nextLedger' = 0,
           shutdown' = IF shutdown = "open" THEN "closed" ELSE shutdown,
           call'.at = IF shutdown = "open" THEN "join" ELSE "runner",
           call'.next \in {"open", "found", "error", "closed"},
           UNCHANGED <<reader, watcher, core, pipe>>,
           metaC' = metaC \/ (metaC # <<>> /\ metaC' = Tail(metaC))
    PROVE  CallInv' /\ OwnerInv' /\ ErrorInv' /\ OrderInv' /\ metaC' \in Seq(Items) /\ Len(metaC') <= ReadAhead
  <1> USE DEF IInv
  <1>1. metaC \in Seq(Items) /\ Len(metaC) \in Nat /\ ReadAhead \in Nat /\ Len(metaC) <= ReadAhead
    BY Fields DEF TypeOK
  <1>2. shutdown # "closed" /\ shutdown \in {"nil", "open", "closed"}
    BY DEF CallInv, TypeOK
  <1>3. CallInv'
    BY <1>2 DEF CallInv
  <1>4. shutdown' = "nil" => metaC' = <<>>
    BY <1>2 DEF OwnerInv
  <1>5. OwnerInv'
    BY <1>2, <1>4 DEF OwnerInv
  <1>6. CASE metaC' = metaC
    BY <1>1, <1>3, <1>5, <1>6 DEF ErrorInv, OrderInv
  <1>7. CASE metaC # <<>> /\ metaC' = Tail(metaC)
    <2>1. metaC' \in Seq(Items) /\ Len(metaC') = Len(metaC) - 1 /\ \A i \in 1..Len(metaC') : metaC'[i] = metaC[i + 1]
      BY <1>1, <1>7
    <2>2. \A i \in 1..Len(metaC) : metaC[i] < 0 =>
             i = Len(metaC) /\ reader.at = "done" /\ pipe = <<>> /\ core.at # "running"
      BY DEF ErrorInv
    <2>3. \A i \in 1..Len(metaC') : i + 1 \in 1..Len(metaC) /\ (i + 1 = Len(metaC) => i = Len(metaC'))
      BY <1>1, <2>1
    <2>4. \A i \in 1..Len(metaC') : metaC'[i] < 0 =>
             i = Len(metaC') /\ reader.at = "done" /\ pipe = <<>> /\ core.at # "running"
      BY <2>1, <2>2, <2>3
    <2>5. ErrorInv'
      BY <2>4 DEF ErrorInv
    <2> QED BY <1>1, <1>3, <1>5, <2>1, <2>5 DEF OrderInv
  <1> QED BY <1>6, <1>7

(* Close of the caller. *)
LEMMA CallCloseStep ==
    ASSUME IInv, CallClose
    PROVE  IInv'
  <1> USE DEF IInv
  <1>1. /\ UNCHANGED <<cachedMeta, blocking, metaC, reader, watcher, core, pipe, processExit>>
        /\ UNCHANGED <<result, ready, faults>>
        /\ nextLedger' = 0 /\ lastLedger' = 0
        /\ shutdown' = IF shutdown = "open" THEN "closed" ELSE shutdown
    BY DEF CallClose, CloseBegin, streams
  <1>2. call.at = "idle"
    BY DEF CallClose, Idle
  <1>3. /\ call' \in CallRecord /\ call'.next = "closed"
        /\ call'.at = IF shutdown = "open" THEN "join" ELSE "runner"
    <2>1. call \in CallRecord
      BY Fields
    <2> QED BY <2>1 DEF CallClose, CloseBegin, CallRecord
  <1>4. CallInv' /\ OwnerInv' /\ ErrorInv' /\ OrderInv'
    BY <1>1, <1>2, <1>3, EndSession
  <1>5. TypeOK'
    BY <1>1, <1>3, Bounds DEF TypeOK, CallRecord
  <1> QED BY <1>4, <1>5

(* The reader has ended: its channels are dropped. *)
LEMMA CloseJoinStep ==
    ASSUME IInv, CloseJoin
    PROVE  IInv'
  <1> USE DEF IInv
  <1>1. /\ UNCHANGED <<nextLedger, lastLedger, cachedMeta, blocking, reader, watcher, core, pipe>>
        /\ UNCHANGED <<processExit, result, ready, faults>>
        /\ call.at = "join" /\ reader.at = "done" /\ metaC' = <<>> /\ shutdown' = "nil"
    BY DEF CloseJoin, session
  <1>2. call' \in CallRecord /\ call'.at = "runner" /\ call'.next = call.next
    <2>1. call \in CallRecord
      BY Fields
    <2> QED BY <2>1 DEF CloseJoin, CallRecord
  <1>3. metaC' \in Seq(Items) /\ Len(metaC') = 0 /\ ReadAhead \in Nat
    BY <1>1, Bounds
  <1>4. TypeOK'
    BY <1>1, <1>2, <1>3 DEF TypeOK, CallRecord
  <1>5. CallInv'
    BY <1>1, <1>2 DEF CallInv
  <1>6. OwnerInv'
    BY <1>1, <1>2 DEF OwnerInv
  <1>7. ErrorInv' /\ OrderInv'
    BY <1>1, <1>3 DEF ErrorInv, OrderInv, CallInv
  <1> QED BY <1>4, <1>5, <1>6, <1>7

(* The process is killed; PrepareRange goes on, any other call returns. *)
LEMMA CloseRunnerStep ==
    ASSUME IInv, CloseRunner
    PROVE  IInv'
  <1> USE DEF IInv
  <1>1. /\ UNCHANGED <<nextLedger, lastLedger, cachedMeta, blocking, metaC, reader>>
        /\ UNCHANGED <<processExit, shutdown, ready, faults>>
        /\ call.at = "runner" /\ core' = NoCore /\ watcher' = "none" /\ pipe' = <<>>
    BY DEF CloseRunner, session
  <1>2. nextLedger = 0 /\ call.next \in {"open", "found", "error", "closed"} /\ shutdown \notin {"open", "closed"}
    BY <1>1 DEF CallInv
  <1>3. /\ call' \in CallRecord /\ call'.at \in {"open", "idle"}
        /\ result' \in {"none", "ok", "found", "missing", "error", "closed"}
    <2>1. call \in CallRecord /\ MaxLedger \in Nat
      BY Fields
    <2>2. CASE call.next = "open"
      BY <2>1, <2>2 DEF CloseRunner, CallRecord, TypeOK
    <2>3. CASE call.next # "open"
      <3>1. call' = Idle /\ result' = call.next
        BY <2>3 DEF CloseRunner
      <3>2. Idle \in CallRecord /\ Idle.at = "idle"
        BY <2>1 DEF Idle, CallRecord
      <3> QED BY <1>2, <2>3, <3>1, <3>2
    <2> QED BY <2>2, <2>3
  <1>4. core' \in CoreRecord /\ core'.at = "none"
    BY <1>1, Bounds DEF NoCore, CoreRecord
  <1>5. pipe' \in Seq(Ledgers) /\ Len(pipe') = 0 /\ PipeSize \in Nat
    BY <1>1, Bounds
  <1>6. TypeOK'
    BY <1>1, <1>3, <1>4, <1>5 DEF TypeOK, CallRecord, CoreRecord
  <1>7. CallInv'
    BY <1>1, <1>2, <1>3 DEF CallInv
  <1>8. OwnerInv'
    BY <1>1, <1>4 DEF OwnerInv
  <1>9. ErrorInv' /\ OrderInv'
    BY <1>1, <1>2, <1>4 DEF ErrorInv, OrderInv
  <1> QED BY <1>6, <1>7, <1>8, <1>9

-----------------------------------------------------------------------------
(* PrepareRange.                                                           *)

LEMMA IdleType == Idle \in CallRecord /\ Idle.at = "idle"
  BY Bounds DEF Idle, CallRecord

(* The fields of a range are ledgers. *)
LEMMA RangeFields ==
    ASSUME NEW r \in Ranges \cup {NoRange}
    PROVE  r.from \in {0} \cup Ledgers /\ r.from \in 0..MaxLedger /\ r.to \in 0..MaxLedger
  BY CaptiveAssumption DEF NoRange, Ledgers

(* A range the session serves changes nothing, any other ends the session. *)
LEMMA CallPrepareStep ==
    ASSUME IInv, NEW r \in Ranges, CallPrepareRange(r)
    PROVE  IInv'
  <1> USE DEF IInv
  <1>1. /\ UNCHANGED <<cachedMeta, blocking, metaC, reader, watcher, core, pipe, processExit, faults>>
        /\ call.at = "idle"
    BY IdleType DEF CallPrepareRange, streams
  <1>2. CASE IsPrepared(r)
    <2>1. result' = "ok" /\ ready' = r /\ UNCHANGED <<nextLedger, lastLedger, shutdown, call>>
      BY <1>2 DEF CallPrepareRange
    <2>2. TypeOK'
      BY <1>1, <2>1 DEF TypeOK
    <2>3. CallInv' /\ OwnerInv' /\ ErrorInv' /\ OrderInv'
      BY <1>1, <2>1 DEF CallInv, OwnerInv, ErrorInv, OrderInv, Ahead, Sending, Ending
    <2> QED BY <2>2, <2>3
  <1>3. CASE ~IsPrepared(r)
    <2>1. /\ nextLedger' = 0 /\ lastLedger' = 0 /\ ready' = NoRange /\ result' = result
          /\ shutdown' = IF shutdown = "open" THEN "closed" ELSE shutdown
          /\ call' = [Idle EXCEPT !.at = IF shutdown = "open" THEN "join" ELSE "runner",
                                   !.range = r, !.next = "open"]
      BY <1>3 DEF CallPrepareRange
    <2>2. /\ call' \in CallRecord /\ call'.next = "open"
          /\ call'.at = IF shutdown = "open" THEN "join" ELSE "runner"
      BY <2>1, IdleType DEF CallRecord
    <2>3. CallInv' /\ OwnerInv' /\ ErrorInv' /\ OrderInv'
      BY <1>1, <2>1, <2>2, EndSession
    <2>4. /\ nextLedger' \in 0..MaxLedger + 1 /\ lastLedger' \in 0..MaxLedger
          /\ shutdown' \in {"nil", "open", "closed"} /\ ready' \in Ranges \cup {NoRange}
      <3>1. 0 \in 0..MaxLedger + 1 /\ 0 \in 0..MaxLedger
        BY Bounds
      <3>2. shutdown \in {"nil", "open", "closed"}
        BY DEF TypeOK
      <3> QED BY <2>1, <3>1, <3>2
    <2>5. TypeOK'
      BY <1>1, <2>1, <2>2, <2>4 DEF TypeOK, CallRecord
    <2> QED BY <2>3, <2>5
  <1> QED BY <1>2, <1>3

(* A stream is started with empty channels, at the first ledger of the session. *)
LEMMA StartStep ==
    ASSUME IInv, call.at = "open",
           NEW first \in Ledgers, NEW last \in 0..MaxLedger, NEW until \in 0..MaxLedger, NEW block \in BOOLEAN,
           StartStream(first, last, until, block),
           UNCHANGED <<cachedMeta, metaC, pipe, ready, result, faults>>,
           call' \in CallRecord,
           \/ call'.at = "first"
           \/ call'.at = "get" /\ first <= call'.seq /\ call'.seq # cachedMeta
    PROVE  IInv'
  <1> USE DEF IInv
  <1>1. /\ nextLedger' = first /\ lastLedger' = until /\ blocking' = block /\ processExit' = FALSE
        /\ shutdown' = "open" /\ watcher' = "waiting"
        /\ reader' = [at |-> "check", item |-> 0, until |-> until]
        /\ core' = [at |-> "running", next |-> first, last |-> last]
    BY DEF StartStream
  <1>2. first \in Nat /\ first >= 2 /\ first <= MaxLedger /\ MaxLedger \in Nat
    BY Bounds DEF Ledgers
  <1>3. nextLedger = 0 /\ metaC = <<>> /\ pipe = <<>> /\ core.at = "none"
    <2>1. nextLedger = 0 /\ shutdown = "nil"
      BY DEF CallInv, TypeOK
    <2> QED BY <2>1 DEF OwnerInv
  <1>4. reader' \in ReaderRecord /\ reader'.at = "check" /\ reader'.item = 0
    BY <1>1 DEF ReaderRecord
  <1>5. core' \in CoreRecord /\ core'.at = "running" /\ core'.next = first
    BY <1>1, <1>2 DEF CoreRecord
  <1>6. nextLedger' \in 0..MaxLedger + 1
    BY <1>1, <1>2
  <1>7. TypeOK'
    BY <1>1, <1>4, <1>5, <1>6 DEF TypeOK, ReaderRecord, CoreRecord, CallRecord
  <1>8. CallInv'
    BY <1>1, <1>2 DEF CallInv
  <1>9. OwnerInv'
    BY <1>1, <1>2, <1>3, <1>4, <1>5 DEF OwnerInv
  <1>10. Len(metaC') = 0 /\ Len(pipe') = 0
    BY <1>3
  <1>11. ErrorInv' /\ ~Ending'
    BY <1>4, <1>10 DEF ErrorInv, Ending
  <1>12. OrderInv'
    BY <1>1, <1>2, <1>4, <1>5, <1>10, <1>11 DEF OrderInv, Ahead, Sending
  <1> QED BY <1>7, <1>8, <1>9, <1>11, <1>12

(* A subprocess that is not started leaves the backend closed. *)
LEMMA NotStarted ==
    ASSUME IInv, call.at = "open", ReturnError, faults' \in 0..MaxFaults, faults' >= faults,
           UNCHANGED <<nextLedger, lastLedger, blocking, processExit, shutdown, reader, watcher, core>>,
           UNCHANGED <<cachedMeta, metaC, pipe, ready>>
    PROVE  IInv'
  <1> USE DEF IInv
  <1>1. call' \in CallRecord /\ call'.at = "idle" /\ result' = "error"
    BY IdleType DEF ReturnError
  <1>2. TypeOK'
    BY <1>1 DEF TypeOK, CallRecord
  <1>3. CallInv' /\ OwnerInv' /\ ErrorInv' /\ OrderInv'
    BY <1>1 DEF CallInv, OwnerInv, ErrorInv, OrderInv
  <1> QED BY <1>2, <1>3

LEMMA OpenOfflineStep ==
    ASSUME IInv, OpenOffline
    PROVE  IInv'
  <1> USE DEF IInv
  <1> DEFINE r == call.range
             to == IF r.to > Archive THEN Archive ELSE r.to
  <1>1. call \in CallRecord /\ r \in Ranges \cup {NoRange} /\ faults \in 0..MaxFaults /\ MaxFaults \in Nat
    BY Fields DEF CallRecord, TypeOK
  <1>2. r.from \in {0} \cup Ledgers /\ r.to \in 0..MaxLedger
    BY <1>1, RangeFields
  <1>3. to \in 0..MaxLedger
    BY <1>2, Bounds
  <1>4. call.at = "open" /\ UNCHANGED <<cachedMeta, metaC, pipe, ready>>
    BY DEF OpenOffline
  <1>5. CASE /\ StartStream(FirstReplay(r.from), to, to, TRUE)
             /\ call' = [call EXCEPT !.at = "first"] /\ UNCHANGED <<result, faults>>
    <2>1. call' \in CallRecord /\ call'.at = "first"
      BY <1>1, <1>5 DEF CallRecord
    <2>2. FirstReplay(r.from) \in Ledgers
      BY <1>2, FirstReplayBounds
    <2> HIDE DEF to, r
    <2> QED BY <1>3, <1>4, <1>5, <2>1, <2>2, StartStep
  <1>6. CASE /\ r.from > Archive \/ faults < MaxFaults
             /\ faults' = IF r.from > Archive THEN faults ELSE faults + 1
             /\ ReturnError
             /\ UNCHANGED <<nextLedger, lastLedger, blocking, processExit, shutdown, reader, watcher, core>>
    <2>1. faults' \in 0..MaxFaults /\ faults' >= faults
      BY <1>1, <1>6
    <2> QED BY <1>4, <1>6, <2>1, NotStarted
  <1> QED BY <1>5, <1>6 DEF OpenOffline

LEMMA OpenOnlineStep ==
    ASSUME IInv, OpenOnline
    PROVE  IInv'
  <1> USE DEF IInv
  <1> DEFINE r == call.range
             first == LB!RunFromNext(r.from)
             forward == first < r.from /\ cachedMeta # r.from
             can == LB!CanOpenOnline(r.from, Archive)
  <1>1. call \in CallRecord /\ r \in Ranges \cup {NoRange} /\ faults \in 0..MaxFaults /\ MaxFaults \in Nat
    BY Fields DEF CallRecord, TypeOK
  <1>2. r.from \in {0} \cup Ledgers /\ r.from \in 0..MaxLedger
    BY <1>1, RangeFields
  <1>3. first \in Ledgers
    BY <1>2, RunFromNextBounds
  <1>4. call.at = "open" /\ UNCHANGED <<cachedMeta, metaC, pipe, ready>>
    BY DEF OpenOnline
  <1>5. \/ /\ StartStream(first, MaxLedger, 0, forward)
           /\ call' = IF forward THEN [call EXCEPT !.at = "get", !.seq = r.from, !.next = "first"]
                                 ELSE [call EXCEPT !.at = "first"]
           /\ UNCHANGED <<result, faults>>
        \/ /\ ~can \/ faults < MaxFaults
           /\ faults' = IF can THEN faults + 1 ELSE faults
           /\ ReturnError
           /\ UNCHANGED <<nextLedger, lastLedger, blocking, processExit, shutdown, reader, watcher, core>>
    BY DEF OpenOnline
  <1> HIDE DEF first, can
  <1>6. CASE /\ StartStream(first, MaxLedger, 0, forward)
             /\ call' = IF forward THEN [call EXCEPT !.at = "get", !.seq = r.from, !.next = "first"]
                                   ELSE [call EXCEPT !.at = "first"]
             /\ UNCHANGED <<result, faults>>
    <2>1. /\ call' \in CallRecord
          /\ \/ call'.at = "first"
             \/ call'.at = "get" /\ first <= call'.seq /\ call'.seq # cachedMeta
      <3>1. CASE forward
        <4>1. call' = [call EXCEPT !.at = "get", !.seq = r.from, !.next = "first"]
          BY <1>6, <3>1
        <4>2. call' \in CallRecord /\ call'.at = "get" /\ call'.seq = r.from
          BY <1>1, <1>2, <4>1 DEF CallRecord
        <4>3. first <= r.from
          BY <1>2, <1>3, <3>1, Bounds DEF Ledgers
        <4> QED BY <3>1, <4>2, <4>3
      <3>2. CASE ~forward
        BY <1>1, <1>6, <3>2 DEF CallRecord
      <3> QED BY <3>1, <3>2
    <2>2. MaxLedger \in 0..MaxLedger /\ 0 \in 0..MaxLedger /\ forward \in BOOLEAN
      BY Bounds
    <2> HIDE DEF r, forward
    <2> QED BY <1>3, <1>4, <1>6, <2>1, <2>2, StartStep
  <1>7. CASE /\ ~can \/ faults < MaxFaults
             /\ faults' = IF can THEN faults + 1 ELSE faults
             /\ ReturnError
             /\ UNCHANGED <<nextLedger, lastLedger, blocking, processExit, shutdown, reader, watcher, core>>
    <2>1. faults' \in 0..MaxFaults /\ faults' >= faults
      BY <1>1, <1>7
    <2> QED BY <1>4, <1>7, <2>1, NotStarted
  <1> QED BY <1>5, <1>6, <1>7

-----------------------------------------------------------------------------
(* GetLedger, and the first item PrepareRange waits for.                   *)

(* Steps that only take a call on, or let it return, while nothing is closed. *)
LEMMA CallStepOnly ==
    ASSUME IInv, WaitFirst \/ GetMissing \/ \E seq \in Ledgers : CallGetLedger(seq)
    PROVE  IInv'
  <1> USE DEF IInv
  <1>1. /\ UNCHANGED <<nextLedger, lastLedger, cachedMeta, blocking, metaC, reader, watcher, core, pipe>>
        /\ UNCHANGED <<processExit, shutdown, faults>>
    BY DEF WaitFirst, GetMissing, CallGetLedger, session, streams
  <1>2. call \in CallRecord /\ call.range \in Ranges \cup {NoRange}
    BY Fields DEF CallRecord
  <1>3. /\ result' \in {"none", "ok", "found", "missing", "error", "closed"}
        /\ ready' \in Ranges \cup {NoRange}
    BY <1>2 DEF WaitFirst, GetMissing, CallGetLedger, TypeOK
  <1>4. CASE call' = Idle /\ call.at \in {"first", "get"}
    <2>1. nextLedger # 0 /\ call' \in CallRecord /\ call'.at = "idle"
      BY <1>4, IdleType DEF CallInv
    <2>2. TypeOK'
      BY <1>1, <1>3, <2>1 DEF TypeOK, CallRecord
    <2>3. CallInv' /\ OwnerInv' /\ ErrorInv' /\ OrderInv'
      BY <1>1, <1>4, <2>1 DEF CallInv, OwnerInv, ErrorInv, OrderInv, Ahead, Sending, Ending
    <2> QED BY <2>2, <2>3
  <1>5. CASE call' = call
    <2>1. TypeOK'
      BY <1>1, <1>3, <1>5 DEF TypeOK
    <2>2. CallInv' /\ OwnerInv' /\ ErrorInv' /\ OrderInv'
      BY <1>1, <1>5 DEF CallInv, OwnerInv, ErrorInv, OrderInv, Ahead, Sending, Ending
    <2> QED BY <2>1, <2>2
  <1>6. ASSUME NEW seq \in Ledgers, call = Idle, cachedMeta # seq, nextLedger # 0, ~(seq < nextLedger),
               call' = [Idle EXCEPT !.at = "get", !.seq = seq]
        PROVE  IInv'
    <2>1. seq \in 0..MaxLedger /\ seq \in Nat /\ nextLedger \in Nat
      BY Fields, Bounds DEF Ledgers
    <2>2. call' \in CallRecord /\ call'.at = "get" /\ call'.seq = seq /\ call.at = "idle"
      BY <1>6, <2>1, IdleType DEF CallRecord
    <2>3. TypeOK'
      BY <1>1, <1>3, <2>2 DEF TypeOK, CallRecord
    <2>4. CallInv'
      BY <1>1, <1>6, <2>1, <2>2 DEF CallInv
    <2>5. OwnerInv' /\ ErrorInv' /\ OrderInv'
      BY <1>1, <2>2 DEF OwnerInv, ErrorInv, OrderInv, Ahead, Sending, Ending
    <2> QED BY <2>3, <2>4, <2>5
  <1>7. CASE WaitFirst \/ GetMissing
    BY <1>4, <1>7 DEF WaitFirst, GetMissing
  <1>8. CASE \E seq \in Ledgers : CallGetLedger(seq)
    <2>1. PICK seq \in Ledgers : CallGetLedger(seq)
      BY <1>8
    <2> QED BY <1>5, <1>6, <2>1 DEF CallGetLedger
  <1> QED BY <1>7, <1>8

(* What the buffer loses with its first item. *)
LEMMA BufferTail ==
    ASSUME IInv, metaC # <<>>
    PROVE  /\ Head(metaC) = metaC[1] /\ Head(metaC) \in Items /\ Len(metaC) >= 1
           /\ Tail(metaC) \in Seq(Items) /\ Len(Tail(metaC)) = Len(metaC) - 1
           /\ Len(Tail(metaC)) <= ReadAhead
           /\ \A i \in 1..Len(Tail(metaC)) : Tail(metaC)[i] = metaC[i + 1]
  <1>1. metaC \in Seq(Items) /\ Len(metaC) \in Nat /\ Len(metaC) <= ReadAhead /\ ReadAhead \in Nat
    BY Fields DEF TypeOK, IInv
  <1> QED BY <1>1

(* Positions before and after the first item is taken. *)
LEMMA Positions ==
    ASSUME NEW n \in Nat, NEW m \in Nat, m = n - 1
    PROVE  /\ \A i \in 1..m : i \in Nat /\ i + 1 \in 1..n /\ (i + 1 = n => i = m)
           /\ \A i \in 1..n : i # 1 => i - 1 \in 1..m /\ (i - 1) + 1 = i
  OBVIOUS

LEMMA GetErrorStep ==
    ASSUME IInv, GetError
    PROVE  IInv'
  <1> USE DEF IInv
  <1>1. /\ UNCHANGED <<cachedMeta, reader, watcher, core, pipe, processExit, result, ready, faults>>
        /\ call.at = "get" /\ metaC # <<>> /\ metaC' = Tail(metaC)
        /\ nextLedger' = 0 /\ lastLedger' = 0
        /\ shutdown' = IF shutdown = "open" THEN "closed" ELSE shutdown
    BY DEF GetError, CloseBegin
  <1>2. /\ call' \in CallRecord /\ call'.next = "error"
        /\ call'.at = IF shutdown = "open" THEN "join" ELSE "runner"
    <2>1. call \in CallRecord
      BY Fields
    <2> QED BY <2>1 DEF GetError, CloseBegin, CallRecord
  <1>3. /\ CallInv' /\ OwnerInv' /\ ErrorInv' /\ OrderInv'
        /\ metaC' \in Seq(Items) /\ Len(metaC') <= ReadAhead
    BY <1>1, <1>2, EndSession
  <1>4. blocking' \in BOOLEAN
    BY DEF GetError, TypeOK
  <1>5. TypeOK'
    BY <1>1, <1>2, <1>3, <1>4, Bounds DEF TypeOK, CallRecord
  <1> QED BY <1>3, <1>5

(* The session goes on behind the ledger that was read. *)
LEMMA Advance ==
    ASSUME IInv, Len(metaC) >= 1, metaC[1] = nextLedger, nextLedger \in Items, nextLedger # 0,
           metaC' \in Seq(Items), Len(metaC') = Len(metaC) - 1, Len(metaC') <= ReadAhead,
           \A i \in 1..Len(metaC') : metaC'[i] = metaC[i + 1], nextLedger' = nextLedger + 1,
           UNCHANGED <<shutdown, reader, watcher, core, pipe, faults>>,
           call' \in CallRecord, call.at = "get", call'.at \in {"idle", "get", "first"},
           call'.at = "get" => nextLedger' <= call'.seq /\ cachedMeta' # call'.seq
    PROVE  /\ CallInv' /\ OwnerInv' /\ ErrorInv' /\ OrderInv'
           /\ nextLedger' \in 0..MaxLedger + 1
           /\ metaC' \in Seq(Items) /\ Len(metaC') <= ReadAhead
  <1> USE DEF IInv
  <1>1. /\ nextLedger \in Nat /\ Len(metaC) \in Nat /\ Len(pipe) \in Nat /\ core.next \in Nat
        /\ \A i \in 1..Len(metaC) : metaC[i] \in Int
    BY Fields
  <1>2. /\ nextLedger = metaC[1] /\ nextLedger \in Items /\ Len(metaC) >= 1
        /\ metaC' \in Seq(Items) /\ Len(metaC') = Len(metaC) - 1 /\ Len(metaC') <= ReadAhead
        /\ \A i \in 1..Len(metaC') : metaC'[i] = metaC[i + 1]
    OBVIOUS
  <1>3. nextLedger' \in 0..MaxLedger + 1
    BY <1>1, <1>2, Bounds DEF Items, Ledgers, Failed, Exited
  <1>4. CallInv'
    BY <1>1 DEF CallInv
  <1>5. OwnerInv'
    BY <1>1 DEF OwnerInv, CallInv
  <1>6. /\ \A i \in 1..Len(metaC') : i \in Nat /\ i + 1 \in 1..Len(metaC) /\ (i + 1 = Len(metaC) => i = Len(metaC'))
        /\ \A i \in 1..Len(metaC) : i # 1 => i - 1 \in 1..Len(metaC') /\ metaC[i] = metaC'[i - 1]
    <2>1. Len(metaC') \in Nat
      BY <1>1, <1>2
    <2>2. /\ \A i \in 1..Len(metaC') : i \in Nat /\ i + 1 \in 1..Len(metaC) /\ (i + 1 = Len(metaC) => i = Len(metaC'))
          /\ \A i \in 1..Len(metaC) : i # 1 => i - 1 \in 1..Len(metaC') /\ (i - 1) + 1 = i
      BY <1>1, <1>2, <2>1, Positions
    <2>3. ASSUME NEW i \in 1..Len(metaC), i # 1
          PROVE  metaC[i] = metaC'[i - 1]
      <3>1. metaC'[i - 1] = metaC[(i - 1) + 1] /\ (i - 1) + 1 = i
        BY <1>2, <2>2, <2>3
      <3> QED BY <3>1
    <2> QED BY <2>2, <2>3
  <1>7. ErrorInv'
    <2>1. \A i \in 1..Len(metaC) : metaC[i] < 0 =>
             i = Len(metaC) /\ reader.at = "done" /\ pipe = <<>> /\ core.at # "running"
      BY DEF ErrorInv
    <2>2. \A i \in 1..Len(metaC') : metaC'[i] < 0 =>
             i = Len(metaC') /\ reader.at = "done" /\ pipe = <<>> /\ core.at # "running"
      BY <1>2, <1>6, <2>1
    <2> QED BY <2>2 DEF ErrorInv
  <1>8. Ending' <=> Ending
    <2>1. ~(metaC[1] < 0)
      BY <1>1, <1>2
    <2>2. (\E i \in 1..Len(metaC) : metaC[i] < 0) <=> \E i \in 1..Len(metaC') : metaC'[i] < 0
      BY <1>2, <1>6, <2>1
    <2> QED BY <2>2 DEF Ending
  <1>9. Ahead' = Ahead
    BY <1>1, <1>2 DEF Ahead, Sending
  <1>10. OrderInv'
    <2>1. SUFFICES ASSUME faults = 0
                   PROVE  /\ \A i \in 1..Len(metaC') : metaC'[i] > 0 => metaC'[i] = nextLedger' + i - 1
                          /\ reader.at = "send" /\ reader.item > 0 => reader.item = nextLedger' + Len(metaC')
      BY <1>8, <1>9 DEF OrderInv
    <2>2. /\ \A i \in 1..Len(metaC) : metaC[i] > 0 => metaC[i] = nextLedger + i - 1
          /\ reader.at = "send" /\ reader.item > 0 => reader.item = nextLedger + Len(metaC)
      BY <2>1 DEF OrderInv
    <2>3. ASSUME NEW i \in 1..Len(metaC'), metaC'[i] > 0
          PROVE  metaC'[i] = nextLedger' + i - 1
      <3>1. i \in Nat /\ i + 1 \in 1..Len(metaC) /\ metaC'[i] = metaC[i + 1]
        BY <1>2, <1>6
      <3>2. metaC[i + 1] = nextLedger + (i + 1) - 1
        BY <2>2, <2>3, <3>1
      <3>3. nextLedger' + i - 1 = nextLedger + (i + 1) - 1
        BY <1>1, <3>1
      <3> QED BY <3>1, <3>2, <3>3
    <2>4. nextLedger' + Len(metaC') = nextLedger + Len(metaC)
      BY <1>1, <1>2
    <2> QED BY <2>2, <2>3, <2>4
  <1> QED BY <1>2, <1>3, <1>4, <1>5, <1>7, <1>10

LEMMA GetNextStep ==
    ASSUME IInv, GetNext
    PROVE  IInv'
  <1> USE DEF IInv
  <1>1. /\ UNCHANGED <<reader, watcher, core, pipe, processExit, ready, faults>>
        /\ call.at = "get" /\ metaC # <<>> /\ Head(metaC) = nextLedger /\ metaC' = Tail(metaC)
    BY DEF GetNext
  <1>2. /\ call \in CallRecord /\ nextLedger \in Nat /\ call.seq \in Nat /\ MaxLedger \in Nat
        /\ nextLedger # 0 /\ nextLedger <= call.seq /\ call.seq # cachedMeta
    BY <1>1, Fields DEF CallInv
  <1>3. /\ Len(metaC) >= 1 /\ metaC[1] = nextLedger /\ nextLedger \in Items
        /\ metaC' \in Seq(Items) /\ Len(metaC') = Len(metaC) - 1 /\ Len(metaC') <= ReadAhead
        /\ \A i \in 1..Len(metaC') : metaC'[i] = metaC[i + 1]
    BY <1>1, BufferTail
  <1>4. CASE /\ nextLedger # call.seq /\ nextLedger' = nextLedger + 1
             /\ UNCHANGED <<cachedMeta, lastLedger, blocking, shutdown, call, result>>
    <2>1. /\ CallInv' /\ OwnerInv' /\ ErrorInv' /\ OrderInv' /\ nextLedger' \in 0..MaxLedger + 1
          /\ metaC' \in Seq(Items) /\ Len(metaC') <= ReadAhead
      BY <1>1, <1>2, <1>4, <1>3, Advance
    <2>2. TypeOK'
      BY <1>1, <1>4, <2>1 DEF TypeOK
    <2> QED BY <2>1, <2>2
  <1>5. ASSUME nextLedger = call.seq, cachedMeta' = call.seq
        PROVE  cachedMeta' \in {0} \cup Ledgers
    <2>1. call.seq \in Items
      BY <1>1, <1>5, BufferTail
    <2>2. call.seq \in Ledgers
      BY <1>2, <2>1 DEF Items, Failed, Exited
    <2> QED BY <1>5, <2>2
  <1>6. CASE /\ nextLedger = call.seq /\ cachedMeta' = call.seq
             /\ CloseBegin("found") /\ UNCHANGED <<blocking, result>>
    <2>1. /\ nextLedger' = 0 /\ lastLedger' = 0
          /\ shutdown' = IF shutdown = "open" THEN "closed" ELSE shutdown
      BY <1>6 DEF CloseBegin
    <2>2. /\ call' \in CallRecord /\ call'.next = "found"
          /\ call'.at = IF shutdown = "open" THEN "join" ELSE "runner"
      BY <1>2, <1>6 DEF CloseBegin, CallRecord
    <2>3. /\ CallInv' /\ OwnerInv' /\ ErrorInv' /\ OrderInv'
          /\ metaC' \in Seq(Items) /\ Len(metaC') <= ReadAhead
      BY <1>1, <2>1, <2>2, EndSession
    <2>4. TypeOK'
      BY <1>1, <1>5, <1>6, <2>1, <2>2, <2>3, Bounds DEF TypeOK, CallRecord
    <2> QED BY <2>3, <2>4
  <1>7. CASE /\ nextLedger = call.seq /\ cachedMeta' = call.seq /\ nextLedger' = nextLedger + 1
             /\ \/ /\ call' = [call EXCEPT !.at = "first", !.next = "none"] /\ blocking' = FALSE
                   /\ UNCHANGED result
                \/ call' = Idle /\ result' = "found" /\ UNCHANGED blocking
             /\ UNCHANGED <<lastLedger, shutdown>>
    <2>1. /\ call' \in CallRecord /\ call'.at \in {"first", "idle"} /\ blocking' \in BOOLEAN
          /\ result' \in {"none", "ok", "found", "missing", "error", "closed"}
      <3>1. blocking \in BOOLEAN /\ result \in {"none", "ok", "found", "missing", "error", "closed"}
        BY DEF TypeOK
      <3>2. CASE call' = [call EXCEPT !.at = "first", !.next = "none"] /\ blocking' = FALSE /\ UNCHANGED result
        BY <1>2, <3>1, <3>2 DEF CallRecord
      <3>3. CASE call' = Idle /\ result' = "found" /\ UNCHANGED blocking
        BY <3>1, <3>3, IdleType
      <3> QED BY <1>7, <3>2, <3>3
    <2>2. /\ CallInv' /\ OwnerInv' /\ ErrorInv' /\ OrderInv' /\ nextLedger' \in 0..MaxLedger + 1
          /\ metaC' \in Seq(Items) /\ Len(metaC') <= ReadAhead
      BY <1>1, <1>2, <1>7, <1>3, <2>1, Advance
    <2>3. TypeOK'
      BY <1>1, <1>5, <1>7, <2>1, <2>2 DEF TypeOK, CallRecord
    <2> QED BY <2>2, <2>3
  <1> QED BY <1>4, <1>6, <1>7 DEF GetNext

-----------------------------------------------------------------------------
LEMMA InitInv == Init => IInv
  <1> SUFFICES ASSUME Init PROVE IInv
    OBVIOUS
  <1>1. /\ nextLedger = 0 /\ lastLedger = 0 /\ cachedMeta = 0 /\ blocking = FALSE
        /\ processExit = FALSE /\ shutdown = "nil" /\ metaC = <<>> /\ pipe = <<>>
        /\ reader = NoReader /\ watcher = "none" /\ core = NoCore
        /\ call = Idle /\ result = "none" /\ ready = NoRange /\ faults = 0
    BY DEF Init
  <1>2. call \in CallRecord /\ call.at = "idle"
    BY <1>1, IdleType
  <1>3. reader \in ReaderRecord /\ reader.at = "done"
    BY <1>1, Bounds DEF NoReader, ReaderRecord
  <1>4. core \in CoreRecord /\ core.at = "none"
    BY <1>1, Bounds DEF NoCore, CoreRecord
  <1>5. metaC \in Seq(Items) /\ Len(metaC) = 0 /\ pipe \in Seq(Ledgers) /\ Len(pipe) = 0
    BY <1>1
  <1>6. TypeOK
    <2>1. /\ nextLedger \in 0..MaxLedger + 1 /\ lastLedger \in 0..MaxLedger /\ cachedMeta \in {0} \cup Ledgers
          /\ faults \in 0..MaxFaults /\ Len(metaC) <= ReadAhead /\ Len(pipe) <= PipeSize
      BY <1>1, <1>5, Bounds
    <2> QED BY <1>1, <1>2, <1>3, <1>4, <1>5, <2>1 DEF TypeOK, CallRecord, ReaderRecord, CoreRecord
  <1>7. CallInv /\ OwnerInv
    BY <1>1, <1>2, <1>3, <1>4 DEF CallInv, OwnerInv
  <1>8. ErrorInv /\ OrderInv
    BY <1>1, <1>3, <1>5 DEF ErrorInv, OrderInv
  <1> QED BY <1>6, <1>7, <1>8 DEF IInv

LEMMA NextInv == IInv /\ [Next]_vars => IInv'
  <1> SUFFICES ASSUME IInv, [Next]_vars PROVE IInv'
    OBVIOUS
  <1>1. CASE UNCHANGED vars
    BY <1>1 DEF vars, session, streams, IInv, TypeOK, CallInv, OwnerInv, ErrorInv, OrderInv, Ahead, Sending, Ending
  <1>2. CASE Call
    <2>1. CASE CallClose
      BY <2>1, CallCloseStep
    <2>2. CASE \E r \in Ranges : CallPrepareRange(r)
      BY <2>2, CallPrepareStep
    <2>3. CASE \E seq \in Ledgers : CallGetLedger(seq)
      BY <2>3, CallStepOnly
    <2> QED BY <1>2, <2>1, <2>2, <2>3 DEF Call
  <1>3. CASE CallStep
    <2>1. CASE WaitFirst \/ GetMissing
      BY <2>1, CallStepOnly
    <2> QED BY <1>3, <2>1, CloseJoinStep, CloseRunnerStep, OpenOfflineStep, OpenOnlineStep, GetErrorStep, GetNextStep
            DEF CallStep
  <1>4. CASE Reader
    BY <1>4, ReaderCheckStep, ReaderReadStep, ReaderSendStep DEF Reader
  <1>5. CASE WatcherWait \/ CoreExit
    BY <1>5, ExitStep
  <1>6. CASE CoreEmit
    BY <1>6, EmitStep
  <1> QED BY <1>1, <1>2, <1>3, <1>4, <1>5, <1>6 DEF Next

(* The buffer never exceeds its capacity and no ledger below 2 is streamed, whatever the
   checkpoint frequency. *)
THEOREM TypeCorrect == Spec => []TypeOK
  <1>1. IInv => TypeOK
    BY DEF IInv
  <1> QED BY InitInv, NextInv, <1>1, PTL DEF Spec

(* Close leaves no reader, watcher or process behind, and a reader never sends to a
   channel Close has dropped. *)
THEOREM NothingLeft == Spec => []NothingLeftBehind
  <1>1. IInv => NothingLeftBehind
    BY IdleType DEF IInv, TypeOK, CallInv, OwnerInv, NothingLeftBehind, Session
  <1> QED BY InitInv, NextInv, <1>1, PTL DEF Spec

-----------------------------------------------------------------------------
(* The order of the stream.                                                *)

(* Where the items of the three parts are in the whole. *)
LEMMA StreamParts ==
    ASSUME TypeOK
    PROVE  /\ Len(Stream) = Len(metaC) + Sending + Len(pipe) /\ DOMAIN Stream = 1..Len(Stream)
           /\ \A i \in 1..Len(Stream) :
                 Stream[i] = IF i <= Len(metaC) THEN metaC[i]
                             ELSE IF i <= Len(metaC) + Sending THEN reader.item
                             ELSE pipe[i - Len(metaC) - Sending]
  <1> DEFINE held == IF reader.at = "send" THEN <<reader.item>> ELSE <<>>
  <1>1. /\ metaC \in Seq(Int) /\ pipe \in Seq(Int) /\ reader.item \in Int
    <2>1. metaC \in Seq(Items) /\ pipe \in Seq(Ledgers) /\ reader.item \in Int
      BY Fields
    <2>2. Items \subseteq Int /\ Ledgers \subseteq Int
      BY Bounds DEF Items, Ledgers, Failed, Exited
    <2> QED BY <2>1, <2>2, SeqMonotonic
  <1>2. held \in Seq(Int) /\ Len(held) = Sending /\ (Sending = 1 => held[1] = reader.item) /\ Sending \in {0, 1}
    BY <1>1 DEF Sending
  <1> HIDE DEF held
  <1>3. Stream = metaC \o held \o pipe
    BY DEF Stream, held
  <1> DEFINE front == metaC \o held
  <1>4. /\ front \in Seq(Int) /\ Len(front) = Len(metaC) + Len(held)
        /\ \A i \in 1..Len(metaC) + Len(held) :
              front[i] = IF i <= Len(metaC) THEN metaC[i] ELSE held[i - Len(metaC)]
    BY <1>1, <1>2, ConcatProperties
  <1> HIDE DEF front
  <1>5. /\ Stream \in Seq(Int) /\ Len(Stream) = Len(front) + Len(pipe)
        /\ \A i \in 1..Len(front) + Len(pipe) :
              Stream[i] = IF i <= Len(front) THEN front[i] ELSE pipe[i - Len(front)]
    BY <1>1, <1>3, <1>4, ConcatProperties DEF front
  <1>6. DOMAIN Stream = 1..Len(Stream) /\ Len(metaC) \in Nat /\ Len(pipe) \in Nat
    BY <1>1, <1>5
  <1>7. ASSUME NEW i \in 1..Len(Stream)
        PROVE  Stream[i] = IF i <= Len(metaC) THEN metaC[i]
                           ELSE IF i <= Len(metaC) + Sending THEN reader.item
                           ELSE pipe[i - Len(metaC) - Sending]
    <2>1. i \in Nat /\ i >= 1 /\ i <= Len(metaC) + Sending + Len(pipe)
      BY <1>2, <1>4, <1>5, <1>6
    <2>2. CASE i <= Len(metaC)
      <3>1. i \in 1..Len(metaC) + Len(held) /\ i <= Len(front) /\ i \in 1..Len(front) + Len(pipe)
        BY <1>2, <1>4, <1>6, <2>1, <2>2
      <3>2. Stream[i] = front[i] /\ front[i] = metaC[i]
        BY <1>4, <1>5, <2>2, <3>1
      <3> QED BY <2>2, <3>2
    <2>3. CASE i > Len(metaC) /\ i <= Len(metaC) + Sending
      <3>1. Sending = 1 /\ i - Len(metaC) = 1
        BY <1>2, <1>6, <2>1, <2>3
      <3>2. i \in 1..Len(metaC) + Len(held) /\ i <= Len(front) /\ i \in 1..Len(front) + Len(pipe)
        BY <1>2, <1>4, <1>6, <2>1, <2>3
      <3>3. Stream[i] = front[i]
        BY <1>5, <3>2
      <3>4. front[i] = held[i - Len(metaC)] /\ ~(i <= Len(metaC))
        BY <1>4, <1>6, <2>1, <2>3, <3>2
      <3> QED BY <1>2, <2>3, <3>1, <3>3, <3>4
    <2>4. CASE i > Len(metaC) + Sending
      <3>1. /\ i - Len(front) = i - Len(metaC) - Sending
            /\ ~(i <= Len(front)) /\ ~(i <= Len(metaC)) /\ ~(i <= Len(metaC) + Sending)
        BY <1>2, <1>4, <1>6, <2>1, <2>4
      <3>2. i \in 1..Len(front) + Len(pipe)
        BY <1>2, <1>4, <1>6, <2>1
      <3>3. Stream[i] = pipe[i - Len(front)]
        BY <1>5, <3>1, <3>2
      <3> QED BY <3>1, <3>3, Zenon
    <2> QED BY <1>2, <1>6, <2>1, <2>2, <2>3, <2>4
  <1>8. Len(Stream) = Len(metaC) + Sending + Len(pipe)
    BY <1>2, <1>4, <1>5
  <1> QED BY <1>6, <1>7, <1>8

(* The stream goes on at nextLedger without a gap as long as nothing failed, and nothing
   follows an error: a buffer, a reader, a pipe and a process of any speed keep the order. *)
THEOREM StreamOrder == Spec => []StreamInOrder
  <1>1. ASSUME IInv PROVE StreamInOrder
    <2> USE <1>1 DEF IInv
    <2>1. SUFFICES ASSUME nextLedger # 0 PROVE StreamInOrder
      BY DEF StreamInOrder, Session
    <2>2. /\ nextLedger \in Nat /\ Len(metaC) \in Nat /\ Len(pipe) \in Nat /\ core.next \in Nat
          /\ reader.item \in Int /\ \A i \in 1..Len(metaC) : metaC[i] \in Int
          /\ \A i \in 1..Len(pipe) : pipe[i] \in Nat /\ pipe[i] > 0
      BY Fields
    <2>3. Sending \in {0, 1} /\ (Sending = 1 <=> reader.at = "send")
      BY DEF Sending
    <2>4. /\ Len(Stream) = Len(metaC) + Sending + Len(pipe) /\ DOMAIN Stream = 1..Len(Stream)
          /\ \A i \in 1..Len(Stream) :
                Stream[i] = IF i <= Len(metaC) THEN metaC[i]
                            ELSE IF i <= Len(metaC) + Sending THEN reader.item
                            ELSE pipe[i - Len(metaC) - Sending]
      BY StreamParts
    <2>5. ASSUME NEW i \in 1..Len(Stream), Stream[i] < 0
          PROVE  i = Len(Stream) /\ Ending
      <3>1. i \in Nat /\ i >= 1 /\ i <= Len(Stream)
        BY <2>2, <2>3, <2>4
      <3>2. CASE i <= Len(metaC)
        <4>1. metaC[i] < 0 /\ i \in 1..Len(metaC)
          BY <2>2, <2>4, <2>5, <3>1, <3>2
        <4>2. i = Len(metaC) /\ reader.at = "done" /\ pipe = <<>>
          BY <4>1 DEF ErrorInv
        <4> QED BY <2>2, <2>3, <2>4, <4>1, <4>2 DEF Ending
      <3>3. CASE i > Len(metaC) /\ i <= Len(metaC) + Sending
        <4>1. reader.item < 0 /\ reader.at = "send" /\ Sending = 1 /\ i = Len(metaC) + 1
          BY <2>2, <2>3, <2>4, <2>5, <3>1, <3>3
        <4>2. pipe = <<>>
          BY <4>1 DEF ErrorInv
        <4> QED BY <2>2, <2>4, <4>1, <4>2 DEF Ending
      <3>4. CASE i > Len(metaC) + Sending
        <4>1. i - Len(metaC) - Sending \in 1..Len(pipe)
          BY <2>2, <2>3, <2>4, <3>1, <3>4
        <4>2. Stream[i] = pipe[i - Len(metaC) - Sending]
          BY <2>2, <2>3, <2>4, <3>1, <3>4
        <4> QED BY <2>2, <2>5, <4>1, <4>2
      <3> QED BY <2>2, <2>3, <3>1, <3>2, <3>3, <3>4
    <2>6. ASSUME Ending PROVE \E i \in 1..Len(Stream) : Stream[i] < 0
      <3>1. CASE reader.at = "send" /\ reader.item < 0
        <4>1. Sending = 1 /\ Len(metaC) + 1 \in 1..Len(Stream)
          BY <2>2, <2>3, <2>4, <3>1
        <4>2. Stream[Len(metaC) + 1] = reader.item
          BY <2>2, <2>4, <4>1
        <4> QED BY <3>1, <4>1, <4>2
      <3>2. CASE \E i \in 1..Len(metaC) : metaC[i] < 0
        <4>1. PICK i \in 1..Len(metaC) : metaC[i] < 0
          BY <3>2
        <4>2. i \in 1..Len(Stream) /\ i <= Len(metaC)
          BY <2>2, <2>3, <2>4, <4>1
        <4> QED BY <2>4, <4>1, <4>2
      <3> QED BY <2>6, <3>1, <3>2 DEF Ending
    <2>7. ASSUME faults = 0
          PROVE  /\ \A i \in 1..Len(Stream) : Stream[i] > 0 => Stream[i] = nextLedger + i - 1
                 /\ core.next = nextLedger + (IF Ending THEN Len(Stream) - 1 ELSE Len(Stream))
      <3>1. /\ \A i \in 1..Len(metaC) : metaC[i] > 0 => metaC[i] = nextLedger + i - 1
            /\ reader.at = "send" /\ reader.item > 0 => reader.item = nextLedger + Len(metaC)
            /\ \A i \in 1..Len(pipe) : pipe[i] = nextLedger + Len(metaC) + Sending + i - 1
            /\ core.next = nextLedger + Len(metaC) + Sending + Len(pipe) - (IF Ending THEN 1 ELSE 0)
        BY <2>1, <2>7 DEF OrderInv, Ahead
      <3>2. ASSUME NEW i \in 1..Len(Stream), Stream[i] > 0
            PROVE  Stream[i] = nextLedger + i - 1
        <4>1. i \in Nat /\ i >= 1 /\ i <= Len(Stream)
          BY <2>2, <2>3, <2>4
        <4>2. CASE i <= Len(metaC)
          <5>1. i \in 1..Len(metaC) /\ Stream[i] = metaC[i]
            BY <2>2, <2>4, <4>1, <4>2
          <5> QED BY <3>1, <3>2, <5>1
        <4>3. CASE i > Len(metaC) /\ i <= Len(metaC) + Sending
          <5>1. reader.at = "send" /\ Sending = 1 /\ i = Len(metaC) + 1 /\ Stream[i] = reader.item
            BY <2>2, <2>3, <2>4, <4>1, <4>3
          <5> QED BY <2>2, <3>1, <3>2, <5>1
        <4>4. CASE i > Len(metaC) + Sending
          <5> DEFINE j == i - Len(metaC) - Sending
          <5>1. j \in 1..Len(pipe) /\ nextLedger + Len(metaC) + Sending + j - 1 = nextLedger + i - 1
            BY <2>2, <2>3, <2>4, <4>1, <4>4
          <5>2. Stream[i] = pipe[j]
            BY <2>2, <2>3, <2>4, <4>1, <4>4
          <5> QED BY <3>1, <5>1, <5>2
        <4> QED BY <2>2, <2>3, <4>1, <4>2, <4>3, <4>4
      <3>3. core.next = nextLedger + (IF Ending THEN Len(Stream) - 1 ELSE Len(Stream))
        BY <2>2, <2>3, <2>4, <3>1
      <3> QED BY <3>2, <3>3
    <2>8. Ending <=> \E i \in DOMAIN Stream : Stream[i] < 0
      BY <2>4, <2>5, <2>6
    <2> QED BY <2>4, <2>5, <2>7, <2>8 DEF StreamInOrder
  <1> QED BY InitInv, NextInv, <1>1, PTL DEF Spec

-----------------------------------------------------------------------------
(* GetLedger.                                                              *)

(* There is one number of ledgers GetLedger accepts: up to the first item it does not. *)
LEMMA AcceptedIs ==
    ASSUME NEW buffer \in Seq(Int), NEW next \in Int
    PROVE  /\ Accepted(buffer, next) \in 0..Len(buffer)
           /\ \A i \in 1..Accepted(buffer, next) : buffer[i] = next + i - 1
           /\ Accepted(buffer, next) < Len(buffer) => buffer[Accepted(buffer, next) + 1] # next + Accepted(buffer, next)
  <1> DEFINE Ends == {k \in 0..Len(buffer) : k < Len(buffer) => buffer[k + 1] # next + k}
  <1>1. Len(buffer) \in Ends /\ Ends \subseteq Nat
    OBVIOUS
  <1>2. PICK k \in Ends : \A j \in Ends : <<j, k>> \notin OpToRel(<, Nat)
    <2> HIDE DEF Ends
    <2> QED BY <1>1, NatLessThanWellFounded, WFMin, Zenon
  <1>3. \A j \in Ends : ~(j < k)
    <2> HIDE DEF Ends
    <2> QED BY <1>1, <1>2, Zenon DEF OpToRel
  <1>4. ASSUME NEW i \in 1..k PROVE buffer[i] = next + i - 1
    <2>1. i - 1 \in 0..Len(buffer) /\ i - 1 < k /\ i - 1 < Len(buffer) /\ (i - 1) + 1 = i
      OBVIOUS
    <2>2. i - 1 \notin Ends
      BY <1>3, <2>1
    <2>3. buffer[(i - 1) + 1] = next + (i - 1)
      BY <2>1, <2>2
    <2> QED BY <2>1, <2>3
  <1>5. \E n \in 0..Len(buffer) : /\ \A i \in 1..n : buffer[i] = next + i - 1
                                  /\ n < Len(buffer) => buffer[n + 1] # next + n
    BY <1>4
  <1> HIDE DEF Ends
  <1> QED BY <1>5 DEF Accepted

LEMMA AcceptedOnly ==
    ASSUME NEW buffer \in Seq(Int), NEW next \in Int, NEW k \in 0..Len(buffer),
           \A i \in 1..k : buffer[i] = next + i - 1,
           k < Len(buffer) => buffer[k + 1] # next + k
    PROVE  Accepted(buffer, next) = k
  <1> DEFINE n == Accepted(buffer, next)
  <1>1. /\ n \in 0..Len(buffer)
        /\ \A i \in 1..n : buffer[i] = next + i - 1
        /\ n < Len(buffer) => buffer[n + 1] # next + n
    BY AcceptedIs
  <1> HIDE DEF n
  <1>2. ~(n < k)
    <2>1. SUFFICES ASSUME n < k PROVE FALSE
      OBVIOUS
    <2>2. n + 1 \in 1..k /\ n < Len(buffer) /\ next + (n + 1) - 1 = next + n
      BY <1>1, <2>1
    <2> QED BY <1>1, <2>2
  <1>3. ~(k < n)
    <2>1. SUFFICES ASSUME k < n PROVE FALSE
      OBVIOUS
    <2>2. k + 1 \in 1..n /\ k < Len(buffer) /\ next + (k + 1) - 1 = next + k
      BY <1>1, <2>1
    <2> QED BY <1>1, <2>2
  <1> QED BY <1>1, <1>2, <1>3 DEF n

(* Reading the ledger that is expected leaves one less, of the same stream. *)
LEMMA AcceptedNext ==
    ASSUME NEW buffer \in Seq(Int), NEW next \in Int, buffer # <<>>, Head(buffer) = next
    PROVE  /\ Accepted(buffer, next) >= 1
           /\ Accepted(Tail(buffer), next + 1) = Accepted(buffer, next) - 1
  <1> DEFINE n == Accepted(buffer, next)
  <1>1. /\ n \in 0..Len(buffer)
        /\ \A i \in 1..n : buffer[i] = next + i - 1
        /\ n < Len(buffer) => buffer[n + 1] # next + n
    BY AcceptedIs
  <1> HIDE DEF n
  <1>2. /\ Tail(buffer) \in Seq(Int) /\ Len(Tail(buffer)) = Len(buffer) - 1 /\ Len(buffer) >= 1
        /\ Len(buffer) \in Nat /\ buffer[1] = next
        /\ \A i \in 1..Len(Tail(buffer)) : Tail(buffer)[i] = buffer[i + 1]
    OBVIOUS
  <1>3. n >= 1
    BY <1>1, <1>2
  <1>4. n - 1 \in 0..Len(Tail(buffer))
    BY <1>1, <1>2, <1>3
  <1>5. ASSUME NEW i \in 1..(n - 1) PROVE Tail(buffer)[i] = (next + 1) + i - 1
    <2>1. i \in 1..Len(Tail(buffer)) /\ i + 1 \in 1..n /\ next + (i + 1) - 1 = (next + 1) + i - 1
      BY <1>1, <1>2
    <2> QED BY <1>1, <1>2, <2>1
  <1>6. ASSUME n - 1 < Len(Tail(buffer)) PROVE Tail(buffer)[(n - 1) + 1] # (next + 1) + (n - 1)
    <2>1. n < Len(buffer) /\ n \in 1..Len(Tail(buffer)) /\ (n - 1) + 1 = n /\ (next + 1) + (n - 1) = next + n
      BY <1>1, <1>2, <1>3, <1>6
    <2> QED BY <1>1, <1>2, <2>1
  <1>7. Accepted(Tail(buffer), next + 1) = n - 1
    <2> DEFINE rest == Tail(buffer)
               k == n - 1
               succ == next + 1
    <2>1. /\ rest \in Seq(Int) /\ succ \in Int /\ k \in 0..Len(rest)
          /\ \A i \in 1..k : rest[i] = succ + i - 1
          /\ k < Len(rest) => rest[k + 1] # succ + k
      BY <1>2, <1>4, <1>5, <1>6, SMTT(30)
    <2> HIDE DEF rest, k, succ
    <2>2. Accepted(rest, succ) = k
      BY <2>1, AcceptedOnly
    <2> QED BY <2>2 DEF rest, k, succ
  <1> QED BY <1>3, <1>7 DEF n

(* What LedgerBackend's GetLedger leaves of an open session it has to read. *)
LEMMA GetLedgerLeaves ==
    ASSUME NEW next \in Nat, NEW cached, NEW latest \in Int, NEW broken \in Int, NEW seq \in Nat,
           next # 0, next <= seq, cached # seq
    PROVE  LB!GetLedger([next |-> next, cached |-> cached, latest |-> latest, broken |-> broken], seq) =
             IF seq <= latest THEN [next |-> seq + 1, cached |-> seq, latest |-> latest, broken |-> broken]
             ELSE IF broken > 0 THEN [next |-> 0, cached |-> cached, latest |-> 0, broken |-> 0]
             ELSE [next |-> latest + 1, cached |-> cached, latest |-> latest, broken |-> broken]
  <1> DEFINE b == [next |-> next, cached |-> cached, latest |-> latest, broken |-> broken]
  <1>1. ~(b.cached = seq \/ b.next = 0 \/ seq < b.next) /\ b.latest = latest /\ b.broken = broken
    OBVIOUS
  <1>2. [next |-> seq + 1, cached |-> seq, latest |-> b.latest, broken |-> b.broken] =
           [next |-> seq + 1, cached |-> seq, latest |-> latest, broken |-> broken]
    OBVIOUS
  <1>3. LB!Close(b) = [next |-> 0, cached |-> cached, latest |-> 0, broken |-> 0]
    BY DEF LB!Close, LB!NewBackend
  <1>4. [b EXCEPT !.next = b.latest + 1] =
           [next |-> latest + 1, cached |-> cached, latest |-> latest, broken |-> broken]
    OBVIOUS
  <1> HIDE DEF b
  <1>5. LB!GetLedger(b, seq) = IF seq <= b.latest
                               THEN [next |-> seq + 1, cached |-> seq, latest |-> b.latest, broken |-> b.broken]
                               ELSE IF b.broken > 0 THEN LB!Close(b)
                               ELSE [b EXCEPT !.next = b.latest + 1]
    BY <1>1 DEF LB!GetLedger
  <1>6. LB!GetLedger(b, seq) =
             IF seq <= latest THEN [next |-> seq + 1, cached |-> seq, latest |-> latest, broken |-> broken]
             ELSE IF broken > 0 THEN [next |-> 0, cached |-> cached, latest |-> 0, broken |-> 0]
             ELSE [next |-> latest + 1, cached |-> cached, latest |-> latest, broken |-> broken]
    BY <1>1, <1>2, <1>3, <1>4, <1>5
  <1> QED BY <1>6 DEF b

(* The view of an open session, and of none. *)
LEMMA Views ==
    ASSUME IInv
    PROVE  /\ metaC \in Seq(Int)
           /\ nextLedger = 0 => View = [next |-> 0, cached |-> cachedMeta, latest |-> 0, broken |-> 0]
           /\ nextLedger # 0 => View = [next |-> nextLedger, cached |-> cachedMeta,
                                        latest |-> nextLedger - 1 + Accepted(metaC, nextLedger),
                                        broken |-> Len(metaC) - Accepted(metaC, nextLedger)]
  <1>1. metaC \in Seq(Items)
    BY Fields DEF IInv
  <1>2. Items \subseteq Int
    BY Bounds DEF Items, Ledgers, Failed, Exited
  <1>3. metaC \in Seq(Int)
    BY <1>1, <1>2, SeqMonotonic
  <1> QED BY <1>3 DEF View, Session, LB!NewBackend

(* GetLedger, and the closing of the session at its end, are the only steps of a call that
   reads or closes. *)
LEMMA StepsOfCall ==
    ASSUME IInv, Next, call.at \in {"get", "join", "runner"}
    PROVE  \/ UNCHANGED <<call, result, session>>
           \/ call.at = "get" /\ (GetMissing \/ GetError \/ GetNext)
           \/ call.at = "join" /\ CloseJoin
           \/ call.at = "runner" /\ CloseRunner
  <1>1. call # Idle
    BY IdleType
  <1>2. ~Call
    BY <1>1 DEF Call, CallClose, CallPrepareRange, CallGetLedger
  <1>3. Reader \/ WatcherWait \/ CoreEmit \/ CoreExit => UNCHANGED <<call, result, session>>
    BY DEF Reader, ReaderCheck, ReaderRead, ReaderSend, WatcherWait, CoreEmit, CoreExit
  <1>4. ~OpenOffline /\ ~OpenOnline /\ ~WaitFirst
    BY DEF OpenOffline, OpenOnline, WaitFirst
  <1>5. CallStep => \/ call.at = "get" /\ (GetMissing \/ GetError \/ GetNext)
                    \/ call.at = "join" /\ CloseJoin
                    \/ call.at = "runner" /\ CloseRunner
    BY <1>4 DEF CallStep, GetMissing, GetError, GetNext, CloseJoin, CloseRunner
  <1> QED BY <1>2, <1>3, <1>5 DEF Next

(* A ledger that is cached, a closed session and a ledger behind the stream. *)
LEMMA AnsweredAtOnce ==
    ASSUME IInv, NEW seq \in Ledgers, CallGetLedger(seq), call' = Idle
    PROVE  result' = Answer(seq) /\ View' = Left(seq)
  <1>1. seq \in Nat /\ seq # 0 /\ nextLedger \in Nat /\ cachedMeta \in Nat
    BY Fields, Bounds DEF IInv, Ledgers
  <1>2. View' = View
    BY DEF CallGetLedger, View, Session, session, streams
  <1>3. View.cached = cachedMeta /\ View.next = nextLedger
    BY Views
  <1>4. call'.at = "idle"
    BY IdleType
  <1>5. CASE cachedMeta = seq
    BY <1>1, <1>2, <1>3, <1>5 DEF CallGetLedger, Answer, Left, LB!GetLedgerResult, LB!GetLedger
  <1>6. CASE cachedMeta # seq
    <2>1. [Idle EXCEPT !.at = "get", !.seq = seq].at = "get"
      BY IdleType DEF CallRecord
    <2>2. result' = "error" /\ (nextLedger = 0 \/ seq < nextLedger)
      BY <1>4, <1>6, <2>1 DEF CallGetLedger
    <2> QED BY <1>1, <1>2, <1>3, <1>6, <2>2 DEF Answer, Left, LB!GetLedgerResult, LB!GetLedger
  <1> QED BY <1>5, <1>6

(* A read that finds the buffer empty, or an item that is not the ledger expected. *)
LEMMA ReadFails ==
    ASSUME IInv, IInv', call.at = "get", GetMissing \/ GetError
    PROVE  Decided' = Answer(call.seq) /\ View' = Left(call.seq) /\ call'.at # "get"
  <1>1. /\ nextLedger \in Nat /\ nextLedger # 0 /\ nextLedger <= call.seq /\ cachedMeta # call.seq
        /\ call.seq \in Nat /\ cachedMeta \in Nat /\ Len(metaC) \in Nat /\ call \in CallRecord
    BY Fields DEF IInv, CallInv
  <1>2. /\ metaC \in Seq(Int)
        /\ View = [next |-> nextLedger, cached |-> cachedMeta,
                   latest |-> nextLedger - 1 + Accepted(metaC, nextLedger),
                   broken |-> Len(metaC) - Accepted(metaC, nextLedger)]
    BY <1>1, Views
  <1>3. CASE GetMissing
    <2>1. metaC = <<>> /\ result' = "missing" /\ call' = Idle /\ UNCHANGED <<nextLedger, cachedMeta, metaC>>
      BY <1>3 DEF GetMissing, session, streams
    <2>2. Len(metaC) = 0 /\ Accepted(metaC, nextLedger) = 0
      <3>1. Len(metaC) = 0
        BY <2>1
      <3>2. Accepted(metaC, nextLedger) \in 0..Len(metaC)
        BY <1>1, <1>2, AcceptedIs
      <3> QED BY <3>1, <3>2
    <2>3. View = [next |-> nextLedger, cached |-> cachedMeta, latest |-> nextLedger - 1, broken |-> 0]
      BY <1>1, <1>2, <2>2
    <2>4. View' = View
      BY <2>1 DEF View, Session
    <2>5. Answer(call.seq) = "missing" /\ LB!GetLedger(View, call.seq) = View
      BY <1>1, <2>3 DEF Answer, LB!GetLedgerResult, LB!GetLedger
    <2> QED BY <2>1, <2>4, <2>5, IdleType DEF Decided, Left
  <1>4. CASE GetError
    <2>1. /\ metaC # <<>> /\ Head(metaC) # nextLedger /\ nextLedger' = 0 /\ cachedMeta' = cachedMeta
          /\ call'.at \in {"join", "runner"} /\ call'.next = "error"
      BY <1>1, <1>4 DEF GetError, CloseBegin, CallRecord
    <2>2. Len(metaC) >= 1 /\ metaC[1] = Head(metaC)
      BY <2>1, BufferTail
    <2>3. Accepted(metaC, nextLedger) = 0
      <3> DEFINE n == Accepted(metaC, nextLedger)
      <3>1. n \in 0..Len(metaC) /\ \A i \in 1..n : metaC[i] = nextLedger + i - 1
        BY <1>1, <1>2, AcceptedIs
      <3> HIDE DEF n
      <3>2. 1 \in 1..n => metaC[1] = nextLedger + 1 - 1
        BY <3>1
      <3>3. n = 0
        BY <1>1, <2>1, <2>2, <3>1, <3>2
      <3> QED BY <3>3 DEF n
    <2>4. View' = [next |-> 0, cached |-> cachedMeta, latest |-> 0, broken |-> 0]
      BY <2>1 DEF View, Session, LB!NewBackend
    <2>5. Answer(call.seq) = "error" /\ LB!GetLedger(View, call.seq) = View'
      BY <1>1, <1>2, <2>2, <2>3, <2>4 DEF Answer, LB!GetLedgerResult, LB!GetLedger, LB!Close, LB!NewBackend
    <2>6. Decided' = "error" /\ call'.at # "get"
      BY <2>1, IdleType DEF Decided
    <2> QED BY <2>5, <2>6 DEF Left
  <1> QED BY <1>3, <1>4

(* A read of the ledger expected: the one asked for, or one before it. *)
LEMMA ReadSucceeds ==
    ASSUME IInv, IInv', call.at = "get", GetNext
    PROVE  /\ call'.at = "get" => Answer(call.seq)' = Answer(call.seq) /\ Left(call.seq)' = Left(call.seq)
           /\ call'.at # "get" => Decided' = Answer(call.seq) /\ View' = Left(call.seq)
  <1> DEFINE n == Accepted(metaC, nextLedger)
  <1>1. /\ nextLedger \in Nat /\ nextLedger # 0 /\ nextLedger <= call.seq /\ cachedMeta # call.seq
        /\ call.seq \in Nat /\ cachedMeta \in Nat /\ Len(metaC) \in Nat /\ call \in CallRecord
    BY Fields DEF IInv, CallInv
  <1>2. /\ metaC \in Seq(Int)
        /\ View = [next |-> nextLedger, cached |-> cachedMeta, latest |-> nextLedger - 1 + n, broken |-> Len(metaC) - n]
    BY <1>1, Views
  <1>3. metaC # <<>> /\ metaC' = Tail(metaC) /\ Head(metaC) = nextLedger
    BY DEF GetNext
  <1>4. n \in Nat /\ n >= 1 /\ n <= Len(metaC) /\ Accepted(Tail(metaC), nextLedger + 1) = n - 1
    <2>1. nextLedger \in Int
      BY <1>1
    <2>2. Accepted(metaC, nextLedger) \in 0..Len(metaC)
      BY <1>2, <2>1, AcceptedIs
    <2>3. Accepted(metaC, nextLedger) >= 1 /\ Accepted(Tail(metaC), nextLedger + 1) = Accepted(metaC, nextLedger) - 1
      BY <1>2, <1>3, <2>1, AcceptedNext
    <2> QED BY <1>1, <2>2, <2>3
  <1>5. Len(metaC') = Len(metaC) - 1
    BY <1>3, BufferTail
  <1> HIDE DEF n
  <1>6. ASSUME nextLedger' = nextLedger + 1
        PROVE  View' = [next |-> nextLedger + 1, cached |-> cachedMeta', latest |-> nextLedger - 1 + n,
                        broken |-> Len(metaC) - n]
    <2>1. Accepted(metaC, nextLedger)' = n - 1
      BY <1>3, <1>4, <1>6
    <2>2. View' = [next |-> nextLedger', cached |-> cachedMeta', latest |-> nextLedger' - 1 + Accepted(metaC, nextLedger)',
                   broken |-> Len(metaC') - Accepted(metaC, nextLedger)']
      BY <1>1, <1>6 DEF View, Session
    <2> QED BY <1>1, <1>4, <1>5, <1>6, <2>1, <2>2
  <1>7. CASE nextLedger # call.seq
    <2>1. nextLedger' = nextLedger + 1 /\ UNCHANGED <<cachedMeta, lastLedger, call, result>>
      BY <1>7 DEF GetNext
    <2>2. /\ View' = [next |-> nextLedger + 1, cached |-> cachedMeta, latest |-> nextLedger - 1 + n, broken |-> Len(metaC) - n]
          /\ nextLedger + 1 <= call.seq /\ nextLedger - 1 + n >= nextLedger
      BY <1>1, <1>4, <1>6, <1>7, <2>1
    <2>3. LB!GetLedgerResult(View', call.seq) = LB!GetLedgerResult(View, call.seq)
      BY <1>1, <1>2, <1>4, <2>2 DEF LB!GetLedgerResult
    <2>4. LB!GetLedger(View', call.seq) = LB!GetLedger(View, call.seq)
      <3> DEFINE latest == nextLedger - 1 + n
                 broken == Len(metaC) - n
      <3>1. /\ latest \in Int /\ broken \in Int /\ nextLedger + 1 \in Nat /\ nextLedger + 1 # 0
            /\ View = [next |-> nextLedger, cached |-> cachedMeta, latest |-> latest, broken |-> broken]
            /\ View' = [next |-> nextLedger + 1, cached |-> cachedMeta, latest |-> latest, broken |-> broken]
        BY <1>1, <1>2, <1>4, <2>2
      <3> HIDE DEF latest, broken
      <3> DEFINE leaves == IF call.seq <= latest
                           THEN [next |-> call.seq + 1, cached |-> call.seq, latest |-> latest, broken |-> broken]
                           ELSE IF broken > 0 THEN [next |-> 0, cached |-> cachedMeta, latest |-> 0, broken |-> 0]
                           ELSE [next |-> latest + 1, cached |-> cachedMeta, latest |-> latest, broken |-> broken]
      <3>2. LB!GetLedger([next |-> nextLedger, cached |-> cachedMeta, latest |-> latest, broken |-> broken], call.seq)
               = leaves
        BY <1>1, <3>1, GetLedgerLeaves, SMTT(30)
      <3>3. LB!GetLedger([next |-> nextLedger + 1, cached |-> cachedMeta, latest |-> latest, broken |-> broken], call.seq)
               = leaves
        <4> DEFINE succ == nextLedger + 1
        <4>1. succ \in Nat /\ succ # 0 /\ succ <= call.seq
          BY <2>2, <3>1
        <4> HIDE DEF succ
        <4>2. LB!GetLedger([next |-> succ, cached |-> cachedMeta, latest |-> latest, broken |-> broken], call.seq)
                 = leaves
          <5>1. latest \in Int /\ broken \in Int /\ call.seq \in Nat /\ cachedMeta # call.seq
            BY <1>1, <3>1
          <5> QED BY <4>1, <5>1, GetLedgerLeaves
        <4> QED BY <4>2 DEF succ
      <3> HIDE DEF leaves
      <3> QED BY <3>1, <3>2, <3>3
    <2>5. Answer(call.seq)' = Answer(call.seq) /\ Left(call.seq)' = Left(call.seq)
      BY <2>1, <2>3, <2>4 DEF Answer, Left
    <2> QED BY <2>1, <2>5
  <1>8. CASE nextLedger = call.seq
    <2>1. cachedMeta' = call.seq
      BY <1>8 DEF GetNext
    <2>2. /\ Answer(call.seq) = "found"
          /\ LB!GetLedger(View, call.seq) = [next |-> call.seq + 1, cached |-> call.seq,
                                             latest |-> nextLedger - 1 + n, broken |-> Len(metaC) - n]
      <3> DEFINE latest == nextLedger - 1 + n
                 broken == Len(metaC) - n
      <3>1. /\ latest \in Int /\ broken \in Int /\ call.seq <= latest
            /\ View = [next |-> nextLedger, cached |-> cachedMeta, latest |-> latest, broken |-> broken]
        <4>1. latest \in Int /\ broken \in Int /\ call.seq <= latest
          BY <1>1, <1>4, <1>8
        <4> QED BY <1>2, <4>1
      <3> HIDE DEF latest, broken
      <3>2. LB!GetLedger(View, call.seq) =
               [next |-> call.seq + 1, cached |-> call.seq, latest |-> latest, broken |-> broken]
        <4>1. LB!GetLedger([next |-> nextLedger, cached |-> cachedMeta, latest |-> latest, broken |-> broken], call.seq)
                 = [next |-> call.seq + 1, cached |-> call.seq, latest |-> latest, broken |-> broken]
          <5>1. /\ latest \in Int /\ broken \in Int
                /\ nextLedger \in Nat /\ nextLedger # 0 /\ nextLedger <= call.seq
                /\ call.seq \in Nat /\ cachedMeta # call.seq
            BY <1>1, <3>1
          <5>2. LB!GetLedger([next |-> nextLedger, cached |-> cachedMeta, latest |-> latest, broken |-> broken], call.seq)
                   = IF call.seq <= latest
                     THEN [next |-> call.seq + 1, cached |-> call.seq, latest |-> latest, broken |-> broken]
                     ELSE IF broken > 0 THEN [next |-> 0, cached |-> cachedMeta, latest |-> 0, broken |-> 0]
                     ELSE [next |-> latest + 1, cached |-> cachedMeta, latest |-> latest, broken |-> broken]
            BY <5>1, GetLedgerLeaves
          <5> QED BY <3>1, <5>2
        <4> QED BY <3>1, <4>1
      <3>3. Answer(call.seq) = "found"
        BY <1>1, <3>1 DEF Answer, LB!GetLedgerResult
      <3> QED BY <3>2, <3>3 DEF latest, broken
    <2>3. CASE lastLedger = call.seq
      <3>1. nextLedger' = 0 /\ call'.at \in {"join", "runner"} /\ call'.next = "found"
        BY <1>1, <1>8, <2>3 DEF GetNext, CloseBegin, CallRecord
      <3>2. View' = [next |-> 0, cached |-> call.seq, latest |-> 0, broken |-> 0]
        BY <2>1, <3>1 DEF View, Session, LB!NewBackend
      <3>3. Left(call.seq) = View'
        BY <1>1, <2>2, <2>3, <3>2 DEF Left, LB!Close, LB!NewBackend
      <3> QED BY <2>2, <3>1, <3>3, IdleType DEF Decided
    <2>4. CASE lastLedger # call.seq
      <3>1. nextLedger' = nextLedger + 1
        BY <1>8, <2>4 DEF GetNext
      <3>2. View' = Left(call.seq)
        BY <1>6, <1>8, <2>1, <2>2, <2>4, <3>1 DEF Left
      <3>3. \/ call'.at = "first"
            \/ call' = Idle /\ result' = "found"
        <4>1. [call EXCEPT !.at = "first", !.next = "none"].at = "first"
          BY <1>1 DEF CallRecord
        <4>2. \/ call' = [call EXCEPT !.at = "first", !.next = "none"]
              \/ call' = Idle /\ result' = "found"
          BY <1>8, <2>4 DEF GetNext
        <4> QED BY <4>1, <4>2
      <3>4. Decided' = "found" /\ call'.at # "get"
        BY <3>3, IdleType DEF Decided
      <3> QED BY <2>2, <3>2, <3>4
    <2> QED BY <2>3, <2>4
  <1> QED BY <1>7, <1>8

(* Closing the session before the answer is returned changes neither. *)
LEMMA ClosingKeeps ==
    ASSUME IInv, Next, call.at \in {"join", "runner"}, call.next \in {"found", "error"}
    PROVE  Decided' = Decided /\ View' = View
  <1>1. nextLedger = 0 /\ call \in CallRecord
    BY Fields DEF IInv, CallInv
  <1>2. UNCHANGED <<nextLedger, cachedMeta>>
    BY StepsOfCall DEF CloseJoin, CloseRunner, session
  <1>3. View' = View
    BY <1>1, <1>2 DEF View, Session
  <1>4. Decided = call.next
    BY IdleType DEF Decided
  <1>5. CASE UNCHANGED <<call, result, session>>
    BY <1>3, <1>5 DEF Decided
  <1>6. CASE CloseJoin
    <2>1. call'.at = "runner" /\ call'.next = call.next
      BY <1>1, <1>6 DEF CloseJoin, CallRecord
    <2> QED BY <1>3, <1>4, <2>1, IdleType DEF Decided
  <1>7. CASE CloseRunner
    <2>1. call' = Idle /\ result' = call.next
      BY <1>7 DEF CloseRunner
    <2> QED BY <1>3, <1>4, <2>1 DEF Decided
  <1> QED BY <1>5, <1>6, <1>7, StepsOfCall

(* Every GetLedger answers, and leaves behind, what LedgerBackend says: at once for a
   cached ledger, a closed session and a ledger behind the stream, after reading otherwise,
   and with the session closed for an error, whatever the reader did during the call. *)
THEOREM AnswersAsSpecified == Spec => AnswersAsLedgerBackend
  <1> DEFINE AtOnce == \A seq \in Ledgers :
                          CallGetLedger(seq) /\ call' = Idle => result' = Answer(seq) /\ View' = Left(seq)
             Reads == call.at = "get" =>
                         IF call'.at = "get"
                         THEN nextLedger' # nextLedger =>
                                 Answer(call.seq)' = Answer(call.seq) /\ Left(call.seq)' = Left(call.seq)
                         ELSE Decided' = Answer(call.seq) /\ View' = Left(call.seq)
             Closes == call.at \in {"join", "runner"} /\ call.next \in {"found", "error"} =>
                          Decided' = Decided /\ View' = View
  <1>1. ASSUME IInv, IInv', Next PROVE AtOnce /\ Reads /\ Closes
    <2>1. AtOnce
      BY <1>1, AnsweredAtOnce
    <2>2. ASSUME call.at = "get"
          PROVE  IF call'.at = "get"
                 THEN nextLedger' # nextLedger =>
                         Answer(call.seq)' = Answer(call.seq) /\ Left(call.seq)' = Left(call.seq)
                 ELSE Decided' = Answer(call.seq) /\ View' = Left(call.seq)
      <3>1. CASE UNCHANGED <<call, result, session>>
        BY <2>2, <3>1 DEF session
      <3>2. CASE GetMissing \/ GetError
        BY <1>1, <2>2, <3>2, ReadFails
      <3>3. CASE GetNext
        BY <1>1, <2>2, <3>3, ReadSucceeds
      <3> QED BY <1>1, <2>2, <3>1, <3>2, <3>3, StepsOfCall
    <2>3. Closes
      BY <1>1, ClosingKeeps
    <2> QED BY <2>1, <2>2, <2>3
  <1>2. ASSUME IInv, IInv', [Next]_vars PROVE [AtOnce /\ Reads /\ Closes]_vars
    <2> HIDE DEF AtOnce, Reads, Closes
    <2> QED BY <1>1, <1>2
  <1> QED BY InitInv, NextInv, <1>2, PTL DEF Spec, AnswersAsLedgerBackend
=============================================================================
