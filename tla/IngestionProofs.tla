-------------------------- MODULE IngestionProofs --------------------------
(***************************************************************************)
(* Proofs of the safety of Ingestion for every number of processes, every  *)
(* assignment of versions and commands, and every bound.                   *)
(***************************************************************************)
EXTENDS Ingestion, WellFoundedInduction, TLAPS

-----------------------------------------------------------------------------
(* Types.                                                                  *)

(* A machine state built from typed arguments is typed. *)
LEMMA StateType ==
    ASSUME NEW node \in NodeNames, NEW from \in 0..MaxLedger,
           NEW to \in 0..MaxLedger, NEW flag \in BOOLEAN
    PROVE  state(node, from, to, flag) \in States
  BY DEF state, States

(* The parameterless states, and the state a failure leads to, are typed. *)
LEMMA FixedStates ==
    /\ {down, stop, start, waitForCheckPoint} \subseteq States
    /\ \A s \in States : FailState(s) \in States
  <1> USE BackendAssumption
  <1>1. down \in States /\ stop \in States /\ start \in States /\ waitForCheckPoint \in States
    BY DEF down, stop, start, waitForCheckPoint, state, States, NodeNames
  <1>2. ASSUME NEW s \in States PROVE FailState(s) \in States
    BY <1>1, <1>2 DEF FailState
  <1> QED BY <1>1, <1>2

(* Reading or opening a backend keeps it a backend. *)
LEMMA BackendType ==
    ASSUME NEW b \in Backends, NEW seq \in Nat
    PROVE  /\ GetLedger(b, seq) \in Backends
           /\ Close(b) \in Backends
           /\ seq <= MaxLedger => OpenOnline(b, seq) \in Backends
           /\ NewBackend \in Backends
           /\ CanDeliver(b) => Deliver(b) \in Backends
  <1> USE BackendAssumption
  <1>1. Close(b) \in Backends /\ NewBackend \in Backends
    BY DEF Close, NewBackend, Backends
  <1>2. GetLedger(b, seq) \in Backends
    <2>1. b.latest + 1 \in Nat /\ [b EXCEPT !.next = b.latest + 1] \in Backends
      BY DEF Backends
    <2>2. ASSUME seq <= b.latest PROVE [next |-> seq + 1, cached |-> seq, latest |-> b.latest, broken |-> b.broken] \in Backends
      <3>1. b.latest \in 0..MaxLedger
        BY DEF Backends
      <3>2. seq \in 0..MaxLedger /\ seq + 1 \in Nat
        BY <2>2, <3>1
      <3> QED BY <3>2 DEF Backends
    <2> QED BY <1>1, <2>1, <2>2 DEF GetLedger
  <1>3. CanDeliver(b) => Deliver(b) \in Backends BY DEF CanDeliver, Deliver, Backends
  <1>4. RunFromHeader(seq) \in Int
    BY DEF RunFromHeader, IsCheckpoint, PrevCheckpoint
  <1>5. RunFromNext(seq) \in Nat
    BY <1>4 DEF RunFromNext
  <1>6. seq <= MaxLedger => OpenOnline(b, seq) \in Backends
    BY <1>5 DEF OpenOnline, Backends
  <1> QED BY <1>1, <1>2, <1>3, <1>6

(* A nonempty set of ledgers has a largest one: GetLatestLedger has an answer. *)
LEMMA LargestLedger ==
    ASSUME NEW S, S \subseteq Ledgers, S # {}
    PROVE  \E m \in S : \A k \in S : k <= m
  <1> DEFINE T == {MaxLedger - k : k \in S}
  <1>1. MaxLedger \in Nat /\ \A k \in S : k \in 1..MaxLedger
    BY BackendAssumption DEF Ledgers
  <1>2. T \subseteq Nat /\ T # {}
    BY <1>1
  <1>3. PICK x \in T : \A y \in T : <<y, x>> \notin OpToRel(<, Nat)
    <2> HIDE DEF T
    <2> QED BY <1>2, NatLessThanWellFounded, WFMin, Zenon
  <1>4. \A y \in T : ~(y < x)
    <2> HIDE DEF T
    <2> QED BY <1>2, <1>3, Zenon DEF OpToRel
  <1>5. PICK m \in S : x = MaxLedger - m
    OBVIOUS
  <1>6. \A k \in S : ~(MaxLedger - k < MaxLedger - m)
    BY <1>4, <1>5
  <1> QED BY <1>1, <1>5, <1>6

(* The types of the processes. *)
ProcTypes ==
    /\ lock \in Procs \cup {NoProc}
    /\ cur \in [Procs -> States]
    /\ phase \in [Procs -> {"idle", "locked", "staged", "preparing", "ranged"}]
    /\ tx \in [Procs -> Txs]

(* Ending a run, staging writes and releasing the lock keep the types. *)
LEMMA TransitionType ==
    ASSUME TypeOK, NEW p \in Procs
    PROVE  /\ \A s \in States : Return(p, s) => ProcTypes'
           /\ \A t \in Txs : Stage(p, t) => ProcTypes'
           /\ \A from \in 0..(MaxLedger + 1) : ReleaseToPrepare(p, from) => ProcTypes'
  <1> USE BackendAssumption DEF TypeOK, ProcTypes
  <1>1. NoTx \in Txs /\ \A from \in 0..(MaxLedger + 1) : Tx("none", from, 0) \in Txs
    BY DEF NoTx, Tx, Txs, TxKinds
  <1>2. ASSUME NEW s \in States, Return(p, s) PROVE ProcTypes'
    BY <1>1, <1>2 DEF Return
  <1>3. ASSUME NEW t \in Txs, Stage(p, t) PROVE ProcTypes'
    BY <1>3 DEF Stage
  <1>4. ASSUME NEW from \in 0..(MaxLedger + 1), ReleaseToPrepare(p, from) PROVE ProcTypes'
    BY <1>1, <1>4 DEF ReleaseToPrepare
  <1> QED BY <1>2, <1>3, <1>4

-----------------------------------------------------------------------------
(* Steps that leave the database alone.                                    *)

(* A process that does not move keeps its part of the invariant, as long as it
   keeps its lock. *)
LEMMA ProcFrame ==
    ASSUME NEW q \in Procs, PhaseInv(q), StagedInv(q), UNCHANGED dbVars,
           cur'[q] = cur[q], phase'[q] = phase[q], tx'[q] = tx[q],
           lock = q => lock' = q
    PROVE  PhaseInv(q)' /\ StagedInv(q)'
  <1>1. PhaseInv(q)'
    BY DEF PhaseInv, ValidArguments, dbVars
  <1>2. StagedInv(q)'
    BY DEF StagedInv, IsLatestLedger, dbVars
  <1> QED BY <1>1, <1>2

(* Ending a run keeps the invariant, whatever state comes next. *)
LEMMA ReturnInv ==
    ASSUME TypeOK, ProcInv, NEW p \in Procs, NEW s \in States, Return(p, s), UNCHANGED dbVars,
           s.node = "reingest" => cur[p].node = "reingest" /\ s.to = cur[p].to
    PROVE  ProcInv'
  <1>1. PhaseInv(p)' /\ StagedInv(p)'
    <2>1. cur'[p] = s /\ phase'[p] = "idle"
      BY DEF Return, TypeOK
    <2>2. StagedInv(p)'
      BY <2>1 DEF StagedInv
    <2>3. PhaseInv(p)'
      BY <2>1 DEF PhaseInv, ProcInv, dbVars
    <2> QED BY <2>2, <2>3
  <1>2. ASSUME NEW q \in Procs, q # p PROVE PhaseInv(q)' /\ StagedInv(q)'
    <2>1. /\ cur'[q] = cur[q] /\ phase'[q] = phase[q] /\ tx'[q] = tx[q]
          /\ lock = q => lock' = q
      BY <1>2 DEF Return, TypeOK
    <2> QED BY <2>1, ProcFrame DEF ProcInv
  <1> QED BY <1>1, <1>2 DEF ProcInv

(* Staging writes keeps the invariant when what they rely on was just read. *)
LEMMA StageInv ==
    ASSUME TypeOK, ProcInv, NEW p \in Procs, NEW t \in Txs, Stage(p, t), UNCHANGED dbVars,
           phase[p] \in {"locked", "staged"}, StagedInv(p)'
    PROVE  ProcInv'
  <1>1. PhaseInv(p)'
    <2>1. cur'[p] = cur[p] /\ phase'[p] = "staged" /\ lock' = lock
      BY DEF Stage, TypeOK
    <2> QED BY <2>1 DEF PhaseInv, ProcInv, ValidArguments, dbVars
  <1>2. ASSUME NEW q \in Procs, q # p PROVE PhaseInv(q)' /\ StagedInv(q)'
    <2>1. /\ cur'[q] = cur[q] /\ phase'[q] = phase[q] /\ tx'[q] = tx[q]
          /\ lock = q => lock' = q
      BY <1>2 DEF Stage, TypeOK
    <2> QED BY <2>1, ProcFrame DEF ProcInv
  <1> QED BY <1>1, <1>2 DEF ProcInv

(* Giving the lock up to prepare a range keeps the invariant. *)
LEMMA ReleaseInv ==
    ASSUME TypeOK, ProcInv, NEW p \in Procs, NEW from \in 0..(MaxLedger + 1),
           ReleaseToPrepare(p, from), UNCHANGED dbVars,
           phase[p] = "locked", cur[p].node # "reingest"
    PROVE  ProcInv'
  <1>1. PhaseInv(p)' /\ StagedInv(p)'
    <2>1. cur'[p] = cur[p] /\ phase'[p] = "preparing"
      BY DEF ReleaseToPrepare, TypeOK
    <2> QED BY <2>1 DEF PhaseInv, StagedInv, ProcInv
  <1>2. ASSUME NEW q \in Procs, q # p PROVE PhaseInv(q)' /\ StagedInv(q)'
    <2>1. lock = p
      BY DEF ProcInv, PhaseInv
    <2>2. /\ cur'[q] = cur[q] /\ phase'[q] = phase[q] /\ tx'[q] = tx[q]
          /\ lock = q => lock' = q
      BY <1>2, <2>1 DEF ReleaseToPrepare, TypeOK
    <2> QED BY <2>2, ProcFrame DEF ProcInv
  <1> QED BY <1>1, <1>2 DEF ProcInv

-----------------------------------------------------------------------------
(* One lemma per group of actions: types and ProcInv.                      *)

(* The types of what the processes read. *)
RestTypes ==
    /\ verifier \in [Procs -> {"idle", "spawned", "snapshot", "truncated", "failed"}]
    /\ backend \in [Procs -> Backends]
    /\ archive \in 0..MaxLedger
    /\ faults \in 0..MaxFaults

(* A step that leaves the database alone keeps all of TypeOK it does not name. *)
LEMMA QuietTypes ==
    ASSUME TypeOK, UNCHANGED dbVars, ProcTypes', RestTypes'
    PROVE  TypeOK'
  BY DEF TypeOK, ProcTypes, RestTypes, dbVars

(* startState.run and waitForCheckpointState.run. *)
LEMMA StartSteps ==
    ASSUME TypeOK, ProcInv, NEW p \in Procs,
           StartStop(p) \/ StartFromCheckpoint(p) \/ StartFromState(p) \/ WaitForCheckpoint(p)
    PROVE  TypeOK' /\ ProcInv'
  <1> USE BackendAssumption
  <1>1. UNCHANGED dbVars /\ RestTypes'
    BY DEF StartStop, StartFromCheckpoint, StartFromState, WaitForCheckpoint, TypeOK, RestTypes
  <1>2. \/ \E s \in States : s.node # "reingest" /\ Return(p, s)
        \/ Running(p, "start") /\ Stage(p, Tx("reset", 0, 0))
    <2>1. CASE StartStop(p) \/ WaitForCheckpoint(p)
      BY <2>1, FixedStates DEF StartStop, WaitForCheckpoint, stop, start, state
    <2>2. CASE StartFromCheckpoint(p)
      <3>1. PICK h \in 0..MaxLedger, cp \in 0..MaxLedger :
               Return(p, IF h = 0 \/ h = cp THEN rebuild(cp)
                         ELSE IF h > cp THEN waitForCheckPoint ELSE historyRange(h + 1, cp))
        <4>1. cur[p].from \in 0..MaxLedger /\ archive \in 0..MaxLedger
          BY DEF TypeOK, States
        <4> QED BY <2>2, <4>1 DEF StartFromCheckpoint
      <3>2. rebuild(cp) \in States /\ rebuild(cp).node # "reingest"
        BY DEF rebuild, state, States, NodeNames
      <3>3. waitForCheckPoint \in States /\ waitForCheckPoint.node # "reingest"
        BY DEF waitForCheckPoint, state, States, NodeNames
      <3>4. h < cp => historyRange(h + 1, cp) \in States /\ historyRange(h + 1, cp).node # "reingest"
        BY DEF historyRange, state, States, NodeNames
      <3> QED BY <3>1, <3>2, <3>3, <3>4
    <2>3. CASE StartFromState(p)
      <3>1. lastIngested \in 0..MaxLedger
        BY DEF TypeOK
      <3>2. resume(lastIngested) \in States /\ resume(lastIngested).node # "reingest"
        BY <3>1 DEF resume, state, States, NodeNames
      <3>3. ASSUME NEW h \in 0..MaxLedger, h < lastIngested
            PROVE  /\ historyRange(h + 1, lastIngested) \in States
                   /\ historyRange(h + 1, lastIngested).node # "reingest"
        BY <3>1, <3>3 DEF historyRange, state, States, NodeNames
      <3> QED BY <2>3, <3>1, <3>2, <3>3 DEF StartFromState
    <2> QED BY <2>1, <2>2, <2>3
  <1>3. CASE \E s \in States : s.node # "reingest" /\ Return(p, s)
    BY <1>1, <1>3, TransitionType, QuietTypes, ReturnInv
  <1>4. CASE Running(p, "start") /\ Stage(p, Tx("reset", 0, 0))
    <2>1. Tx("reset", 0, 0) \in Txs
      BY DEF Tx, Txs, TxKinds
    <2>2. StagedInv(p)'
      BY <1>4, <2>1 DEF StagedInv, Stage, Tx, TypeOK
    <2> QED BY <1>1, <1>4, <2>1, <2>2, TransitionType, QuietTypes, StageInv DEF Running
  <1> QED BY <1>2, <1>3, <1>4

(* The state a failed run continues with, seen by ReturnInv. *)
LEMMA FailStateNode ==
    ASSUME NEW s \in States
    PROVE  FailState(s) \in States /\ FailState(s).node # "reingest"
  BY FixedStates DEF FailState, start, stop, state

(* buildState.run. *)
LEMMA BuildSteps ==
    ASSUME TypeOK, ProcInv, NEW p \in Procs, BuildSkip(p) \/ BuildState(p)
    PROVE  TypeOK' /\ ProcInv'
  <1> USE BackendAssumption
  <1>1. cur[p] \in States /\ cur[p].from \in 0..MaxLedger /\ backend[p] \in Backends
    BY DEF TypeOK, States
  <1>2. Running(p, "build") /\ UNCHANGED dbVars
    BY DEF BuildSkip, BuildState
  <1>3. RestTypes'
    <2>1. GetLedger(backend[p], cur[p].from) \in Backends
      BY <1>1, BackendType
    <2>2. \/ UNCHANGED backend
          \/ \E b \in Backends : backend' = [backend EXCEPT ![p] = b]
      BY <1>1, <2>1 DEF BuildSkip, BuildState, BuildFromCheckpoint
    <2>3. backend' \in [Procs -> Backends]
      BY <2>2 DEF TypeOK
    <2> QED BY <2>3 DEF BuildSkip, BuildState, TypeOK, RestTypes
  <1>4. CASE Return(p, FailState(cur[p]))
    BY <1>1, <1>2, <1>3, <1>4, FailStateNode, TransitionType, QuietTypes, ReturnInv
  <1>5. CASE ReleaseToPrepare(p, cur[p].from)
    BY <1>1, <1>2, <1>3, <1>5, TransitionType, QuietTypes, ReleaseInv DEF Running
  <1>6. CASE BuildState(p) /\ Stage(p, Tx("build", cur[p].from, cur[p].from))
    <2>1. Tx("build", cur[p].from, cur[p].from) \in Txs
      BY <1>1 DEF Tx, Txs, TxKinds
    <2>2. cur[p].from # 0
      BY <1>2 DEF Running, ProcInv, PhaseInv, ValidArguments
    <2>3. lastIngested = 0 \/ ingestVersion # Version[p]
      BY <1>6 DEF BuildState, TypeOK
    <2>4. tx'[p] = Tx("build", cur[p].from, cur[p].from)
      BY <1>6 DEF Stage, TypeOK
    <2>5. StagedInv(p)'
      BY <1>1, <1>2, <2>2, <2>3, <2>4 DEF StagedInv, Tx, dbVars, Ledgers
    <2> QED BY <1>2, <1>3, <1>6, <2>1, <2>5, TransitionType, QuietTypes, StageInv DEF Running
  <1> QED BY <1>4, <1>5, <1>6 DEF BuildSkip, BuildState, BuildFromCheckpoint

(* resumeState.run: a process that may go on finds history exactly as far as the
   state, or empty. *)
LEMMA ResumeSteps ==
    ASSUME TypeOK, ProcInv, NEW p \in Procs, ResumeGoBack(p) \/ ResumeLedger(p)
    PROVE  TypeOK' /\ ProcInv'
  <1> USE BackendAssumption
  <1>1. /\ cur[p] \in States /\ cur[p].from \in 0..MaxLedger /\ backend[p] \in Backends
        /\ lastIngested \in 0..MaxLedger
    BY DEF TypeOK, States
  <1>2. Running(p, "resume") /\ UNCHANGED dbVars
    BY DEF ResumeGoBack, ResumeLedger
  <1> DEFINE latest == GetLatestLedgerSequence(backend[p])
  <1>3. backend[p].latest \in 0..MaxLedger /\ backend[p].cached \in 0..MaxLedger /\ latest \in Nat
    BY <1>1 DEF Backends, GetLatestLedgerSequence
  <1> HIDE DEF latest
  <1>4. RestTypes'
    <2>1. GetLedger(backend[p], latest) \in Backends /\ GetLedger(backend[p], lastIngested + 1) \in Backends
      BY <1>1, <1>3, BackendType
    <2>2. UNCHANGED backend \/ \E b \in Backends : backend' = [backend EXCEPT ![p] = b]
      BY <2>1 DEF ResumeGoBack, ResumeLedger, latest
    <2>3. backend' \in [Procs -> Backends]
      BY <2>2 DEF TypeOK
    <2> QED BY <2>3 DEF ResumeGoBack, ResumeLedger, TypeOK, RestTypes
  <1>5. CASE ResumeGoBack(p)
    BY <1>2, <1>4, <1>5, FixedStates, TransitionType, QuietTypes, ReturnInv
    DEF ResumeGoBack, start, state
  <1>6. CASE ResumeLedger(p) /\ ReleaseToPrepare(p, lastIngested + 1)
    BY <1>1, <1>2, <1>4, <1>6, TransitionType, QuietTypes, ReleaseInv DEF Running
  <1>7. CASE Return(p, cur[p]) \/ (latest <= lastIngested /\ Return(p, resume(latest)))
    <2>1. latest <= lastIngested => resume(latest) \in States /\ resume(latest).node # "reingest"
      BY <1>1, <1>3 DEF resume, state, States, NodeNames
    <2> QED BY <1>1, <1>2, <1>4, <1>7, <2>1, TransitionType, QuietTypes, ReturnInv
  <1>8. CASE /\ ResumeLedger(p) /\ lastIngested + 1 <= MaxLedger
             /\ Stage(p, Tx("ledger", lastIngested + 1, lastIngested + 1))
    <2>1. Tx("ledger", lastIngested + 1, lastIngested + 1) \in Txs
      BY <1>1 DEF Tx, Txs, TxKinds
    <2>2. lastIngested > 0 /\ ingestVersion = Version[p]
      <3>1. cur[p].from # 0
        BY <1>2 DEF Running, ProcInv, PhaseInv, ValidArguments
      <3> QED BY <1>1, <1>8, <3>1 DEF ResumeLedger, MustRestart
    <2>3. ASSUME NEW r \in Ledgers, history[r] # "none"
          PROVE  r <= lastIngested /\ history[lastIngested] # "none"
      <3> DEFINE rows == {k \in Ledgers : history[k] # "none"}
      <3>1. PICK h \in rows : \A k \in rows : k <= h
        BY <2>3, LargestLedger
      <3>2. IsLatestLedger(h)
        BY <3>1 DEF IsLatestLedger
      <3>3. h = lastIngested
        BY <1>8, <3>2 DEF ResumeLedger, MustRestart
      <3> QED BY <2>3, <3>1, <3>3
    <2>4. tx'[p] = Tx("ledger", lastIngested + 1, lastIngested + 1)
      BY <1>8 DEF Stage, TypeOK
    <2>5. StagedInv(p)'
      BY <1>1, <1>2, <1>3, <1>8, <2>2, <2>3, <2>4 DEF StagedInv, Tx, dbVars, Ledgers
    <2> QED BY <1>2, <1>4, <1>8, <2>1, <2>5, TransitionType, QuietTypes, StageInv DEF Running
  <1>9. GetLedgerResult(backend[p], lastIngested + 1) = "found" => lastIngested + 1 <= MaxLedger
    BY <1>1, <1>3 DEF GetLedgerResult
  <1>10. latest < lastIngested + 1 => latest <= lastIngested
    BY <1>1, <1>3
  <1> QED BY <1>5, <1>6, <1>7, <1>8, <1>9, <1>10 DEF ResumeLedger, latest

(* historyRangeState.run and the ledgers of a range. *)
LEMMA RangeSteps ==
    ASSUME TypeOK, ProcInv, NEW p \in Procs,
           HistoryRange(p) \/ ReingestForced(p) \/ ProcessLedger(p)
    PROVE  TypeOK' /\ ProcInv'
  <1> USE BackendAssumption
  <1>1. /\ cur[p] \in States /\ cur[p].from \in 0..MaxLedger /\ cur[p].to \in 0..MaxLedger
        /\ backend[p] \in Backends /\ tx[p] \in Txs
    BY DEF TypeOK, States
  <1>2. tx[p].from \in 0..(MaxLedger + 1) /\ tx[p].to \in 0..(MaxLedger + 1)
    BY <1>1 DEF Txs
  <1>3. UNCHANGED dbVars /\ start.node # "reingest" /\ stop.node # "reingest"
    BY DEF HistoryRange, ReingestForced, ProcessLedger, start, stop, state
  <1>4. CASE HistoryRange(p)
    <2>1. RestTypes'
      BY <1>4 DEF HistoryRange, TypeOK, RestTypes
    <2>2. phase[p] = "locked" /\ cur[p].node = "historyRange" /\ cur[p].from # 0 /\ cur[p].from <= cur[p].to
      BY <1>4 DEF HistoryRange, Running, ProcInv, PhaseInv, ValidArguments
    <2>3. CASE Return(p, start)
      BY <1>3, <2>1, <2>3, FixedStates, TransitionType, QuietTypes, ReturnInv
    <2>4. CASE ReleaseToPrepare(p, cur[p].from)
      BY <1>1, <1>3, <2>1, <2>2, <2>4, TransitionType, QuietTypes, ReleaseInv
    <2>5. CASE IsLatestLedger(cur[p].from - 1) /\ Stage(p, Tx("history", cur[p].from, cur[p].from - 1))
      <3>1. Tx("history", cur[p].from, cur[p].from - 1) \in Txs
        BY <1>1, <2>2 DEF Tx, Txs, TxKinds
      <3>2. tx'[p] = Tx("history", cur[p].from, cur[p].from - 1) /\ cur'[p] = cur[p]
        BY <2>5 DEF Stage, TypeOK
      <3>3. StagedInv(p)'
        BY <1>1, <1>3, <2>2, <2>5, <3>2 DEF StagedInv, IsLatestLedger, Tx, dbVars
      <3> QED BY <1>3, <2>1, <2>2, <2>5, <3>1, <3>3, TransitionType, QuietTypes, StageInv
    <2> QED BY <1>4, <2>3, <2>4, <2>5 DEF HistoryRange
  <1>5. CASE ReingestForced(p)
    <2>1. RestTypes'
      BY <1>5 DEF ReingestForced, TypeOK, RestTypes
    <2>2. /\ phase[p] = "locked" /\ cur[p].node = "reingest"
          /\ tx[p].from \in 2..(MaxLedger + 1) /\ tx[p].to \in (tx[p].from - 1)..MaxLedger
      BY <1>5 DEF ReingestForced, Running, ProcInv, PhaseInv
    <2>3. CASE \E s \in {stop, cur[p]} : Return(p, s)
      BY <1>1, <1>3, <2>1, <2>3, FixedStates, TransitionType, QuietTypes, ReturnInv
    <2>4. CASE tx[p].from <= cur[p].to /\ Stage(p, Tx("reingest", tx[p].from, tx[p].to))
      <3>1. Tx("reingest", tx[p].from, tx[p].to) \in Txs
        BY <1>2 DEF Tx, Txs, TxKinds
      <3>2. tx'[p] = Tx("reingest", tx[p].from, tx[p].to) /\ cur'[p] = cur[p]
        BY <2>4 DEF Stage, TypeOK
      <3>3. StagedInv(p)'
        BY <1>1, <1>2, <2>2, <2>4, <3>2 DEF StagedInv, Tx
      <3> QED BY <1>3, <2>1, <2>2, <2>4, <3>1, <3>3, TransitionType, QuietTypes, StageInv
    <2> QED BY <1>5, <2>3, <2>4 DEF ReingestForced
  <1>6. CASE ProcessLedger(p)
    <2> DEFINE t == [tx[p] EXCEPT !.to = tx[p].to + 1]
    <2>1. RestTypes'
      <3>1. GetLedger(backend[p], tx[p].to + 1) \in Backends
        BY <1>1, <1>2, BackendType
      <3>2. backend' \in [Procs -> Backends]
        BY <1>6, <3>1 DEF ProcessLedger, TypeOK
      <3> QED BY <1>6, <3>2 DEF ProcessLedger, TypeOK, RestTypes
    <2>2. CASE Return(p, start)
      BY <1>3, <2>1, <2>2, FixedStates, TransitionType, QuietTypes, ReturnInv
    <2>3. CASE Stage(p, t)
      <3>1. /\ phase[p] = "staged" /\ tx[p].kind \in {"history", "reingest"} /\ tx[p].to < cur[p].to
        BY <1>6 DEF ProcessLedger
      <3>2. t \in Txs /\ t.kind = tx[p].kind /\ t.from = tx[p].from /\ t.to = tx[p].to + 1
        BY <1>1, <1>2, <3>1 DEF Txs
      <3>3. tx'[p] = t /\ cur'[p] = cur[p]
        BY <2>3 DEF Stage, TypeOK
      <3>4. StagedInv(p)
        BY DEF ProcInv
      <3>5. StagedInv(p)'
        <4> HIDE DEF t
        <4> QED BY <1>1, <1>2, <1>3, <3>1, <3>2, <3>3, <3>4 DEF StagedInv, IsLatestLedger, dbVars
      <3> HIDE DEF t
      <3> QED BY <1>3, <2>1, <2>3, <3>1, <3>2, <3>5, TransitionType, QuietTypes, StageInv
    <2> QED BY <1>6, <2>2, <2>3 DEF ProcessLedger
  <1> QED BY <1>4, <1>5, <1>6

(* PrepareRange, outside the lock. *)
LEMMA PrepareSteps ==
    ASSUME TypeOK, ProcInv, NEW p \in Procs, PrepareRange(p) \/ PrepareRangeError(p)
    PROVE  TypeOK' /\ ProcInv'
  <1> USE BackendAssumption, IngestionAssumption
  <1>1. /\ cur[p] \in States /\ cur[p].from \in 0..MaxLedger
        /\ backend[p] \in Backends /\ tx[p] \in Txs
    BY DEF TypeOK, States
  <1>2. tx[p].from \in Nat
    BY <1>1 DEF Txs
  <1>3. Close(backend[p]) \in Backends
    BY <1>1, <1>2, BackendType
  <1> DEFINE opened == OpenOnline(Close(backend[p]), tx[p].from)
  <1>4. tx[p].from <= MaxLedger => opened \in Backends
    BY <1>2, <1>3, BackendType
  <1> HIDE DEF opened
  <1>5. backend' \in [Procs -> Backends]
    <2>1. ASSUME NEW n \in 0..(ReadAhead - 1), opened.next + n <= MaxLedger + 1, tx[p].from <= MaxLedger,
                 opened.next # 0
          PROVE  Break([opened EXCEPT !.latest = opened.next + n - 1], 1) \in Backends
      <3>1. opened \in Backends /\ opened.next \in Nat /\ n \in Nat
        BY <1>4, <2>1 DEF Backends
      <3>2. opened.next + n - 1 \in 0..MaxLedger
        BY <2>1, <3>1
      <3>3. [opened EXCEPT !.latest = opened.next + n - 1] \in Backends
        BY <3>1, <3>2 DEF Backends
      <3> QED BY <3>3 DEF Break, Backends
    <2>2. opened.next # 0
      <3>1. RunFromHeader(tx[p].from) \in Int
        BY <1>2 DEF RunFromHeader, IsCheckpoint, PrevCheckpoint
      <3>2. RunFromNext(tx[p].from) \in Nat /\ RunFromNext(tx[p].from) # 0
        BY <3>1 DEF RunFromNext
      <3> QED BY <1>2, <3>2 DEF OpenOnline, opened
    <2>3. \E b \in Backends : backend' = [backend EXCEPT ![p] = b]
      BY <1>3, <1>4, <2>1, <2>2 DEF PrepareRange, PrepareRangeError, opened
    <2> QED BY <2>3 DEF TypeOK
  <1>6. UNCHANGED dbVars /\ RestTypes'
    BY <1>5 DEF PrepareRange, PrepareRangeError, TypeOK, RestTypes
  <1>7. \E s \in States : s.node # "reingest" /\ Return(p, s)
    <2>1. start \in States /\ start.node # "reingest"
      BY FixedStates DEF start, state
    <2>2. /\ startSuggestedCheckpoint(cur[p].from) \in States
          /\ startSuggestedCheckpoint(cur[p].from).node # "reingest"
      BY <1>1 DEF startSuggestedCheckpoint, state, States, NodeNames
    <2> QED BY <2>1, <2>2 DEF PrepareRange, PrepareRangeError
  <1> QED BY <1>6, <1>7, TransitionType, QuietTypes, ReturnInv

(* Invalid arguments, failed calls and crashes end the run. *)
LEMMA EndingSteps ==
    ASSUME TypeOK, ProcInv, NEW p \in Procs, InvalidArguments(p) \/ RunError(p) \/ Crash(p)
    PROVE  TypeOK' /\ ProcInv'
  <1> USE BackendAssumption, IngestionAssumption
  <1>1. cur[p] \in States /\ backend[p] \in Backends
    BY DEF TypeOK
  <1>2. backend' \in [Procs -> Backends]
    <2>1. NewBackend \in Backends
      BY DEF NewBackend, Backends
    <2> QED BY <1>1, <2>1 DEF InvalidArguments, RunError, Crash, TypeOK
  <1>3. UNCHANGED dbVars /\ RestTypes'
    BY <1>2 DEF InvalidArguments, RunError, Crash, TypeOK, RestTypes
  <1>4. \E s \in States : Return(p, s) /\ (s.node = "reingest" => s = cur[p])
    <2>1. /\ start \in States /\ start.node # "reingest"
          /\ down \in States /\ down.node # "reingest"
      BY FixedStates DEF start, down, state
    <2> QED BY <1>1, <2>1, FailStateNode DEF InvalidArguments, RunError, ReturnFailure, Crash
  <1> QED BY <1>3, <1>4, TransitionType, QuietTypes, ReturnInv

(* A process that moves to state s in a phase other than staged, with the lock as
   it is or taken while it is free. *)
LEMMA MoveInv ==
    ASSUME TypeOK, ProcInv, NEW p \in Procs, UNCHANGED dbVars, PhaseInv(p)', phase'[p] # "staged",
           lock' = lock \/ lock = NoProc,
           \A q \in Procs : q # p => cur'[q] = cur[q] /\ phase'[q] = phase[q] /\ tx'[q] = tx[q]
    PROVE  ProcInv'
  <1>1. PhaseInv(p)' /\ StagedInv(p)'
    BY DEF StagedInv
  <1>2. ASSUME NEW q \in Procs, q # p PROVE PhaseInv(q)' /\ StagedInv(q)'
    <2>1. lock = q => lock' = q
      BY IngestionAssumption
    <2> QED BY <1>2, <2>1, ProcFrame DEF ProcInv
  <1> QED BY <1>1, <1>2 DEF ProcInv

(* Launching a process. *)
LEMMA LaunchStep ==
    ASSUME TypeOK, ProcInv, NEW p \in Procs, Launch(p)
    PROVE  TypeOK' /\ ProcInv'
  <1> USE BackendAssumption, IngestionAssumption
  <1>1. PICK c \in Commands[p] :
           /\ c.node = "reingest" => \E l \in Ledgers : l >= c.to /\ history[l] # "none"
           /\ cur' = [cur EXCEPT ![p] = c]
    BY DEF Launch
  <1>2. c \in States
    OBVIOUS
  <1>3. UNCHANGED <<dbVars, lock, phase, tx, verifier, backend, archive, faults>> /\ cur[p] = down
    BY DEF Launch
  <1>4. cur' \in [Procs -> States] /\ cur'[p] = c /\ \A q \in Procs : q # p => cur'[q] = cur[q]
    BY <1>1, <1>2 DEF TypeOK
  <1>5. TypeOK'
    BY <1>3, <1>4 DEF TypeOK, dbVars
  <1>6. phase[p] = "idle" /\ phase'[p] = "idle"
    BY <1>3 DEF ProcInv, PhaseInv, down, state
  <1>7. PhaseInv(p)'
    BY <1>1, <1>3, <1>4, <1>6 DEF PhaseInv, dbVars
  <1> QED BY <1>3, <1>4, <1>5, <1>6, <1>7, MoveInv

(* Taking the row lock. *)
LEMMA BeginStep ==
    ASSUME TypeOK, ProcInv, NEW p \in Procs, Begin(p)
    PROVE  TypeOK' /\ ProcInv'
  <1>1. /\ UNCHANGED <<dbVars, cur, tx, verifier, backend, archive, faults>>
        /\ lock = NoProc /\ lock' = p /\ phase'[p] = "locked"
        /\ phase' \in [Procs -> {"idle", "locked", "staged", "preparing", "ranged"}]
        /\ \A q \in Procs : q # p => phase'[q] = phase[q]
    BY DEF Begin, TypeOK
  <1>2. TypeOK'
    BY <1>1 DEF TypeOK, dbVars
  <1>3. PhaseInv(p)'
    BY <1>1 DEF Begin, AtBegin, ProcInv, PhaseInv, ValidArguments, dbVars
  <1> QED BY <1>1, <1>2, <1>3, MoveInv

(* Preparing the bounded range of a reingestion. *)
LEMMA ReingestPrepareStep ==
    ASSUME TypeOK, ProcInv, NEW p \in Procs, ReingestPrepare(p)
    PROVE  TypeOK' /\ ProcInv'
  <1> USE BackendAssumption
  <1>1. /\ cur[p] \in States /\ cur[p].from \in 1..MaxLedger /\ cur[p].to \in 1..MaxLedger
        /\ phase[p] = "idle" /\ cur[p].node = "reingest" /\ ValidArguments(cur[p])
        /\ UNCHANGED <<dbVars, verifier, backend, archive, faults>>
    BY DEF ReingestPrepare, ValidArguments, TypeOK, States
  <1>2. RestTypes'
    BY <1>1 DEF RestTypes, TypeOK
  <1>3. CASE \E s \in {stop, cur[p]} : Return(p, s)
    <2>1. stop \in States /\ stop.node # "reingest"
      BY FixedStates DEF stop, state
    <2> QED BY <1>1, <1>2, <1>3, <2>1, TransitionType, QuietTypes, ReturnInv
  <1>4. ASSUME NEW from \in 2..MaxLedger,
               phase' = [phase EXCEPT ![p] = "ranged"],
               tx' = [tx EXCEPT ![p] = Tx("none", from, from - 1)],
               UNCHANGED <<cur, lock>>
        PROVE  TypeOK' /\ ProcInv'
    <2>1. Tx("none", from, from - 1) \in Txs
      BY DEF Tx, Txs, TxKinds
    <2>2. TypeOK'
      BY <1>1, <1>4, <2>1 DEF TypeOK, dbVars
    <2>3. /\ phase'[p] = "ranged" /\ cur'[p] = cur[p] /\ tx'[p] = Tx("none", from, from - 1)
          /\ \A q \in Procs : q # p => cur'[q] = cur[q] /\ phase'[q] = phase[q] /\ tx'[q] = tx[q]
      BY <1>4 DEF TypeOK
    <2>4. PhaseInv(p)'
      <3>1. PhaseInv(p)
        BY DEF ProcInv
      <3> QED BY <1>1, <2>3, <3>1 DEF PhaseInv, Tx, dbVars
    <2> QED BY <1>1, <1>4, <2>2, <2>3, <2>4, MoveInv
  <1>5. (IF cur[p].from = 1 THEN 2 ELSE cur[p].from) \in 2..MaxLedger
    BY <1>1
  <1> QED BY <1>3, <1>4, <1>5 DEF ReingestPrepare

(* Steps of the verifier, of the backend and of the archive touch no process. *)
LEMMA OutsideSteps ==
    ASSUME TypeOK, ProcInv,
           \/ \E p \in Procs : VerifierBegin(p) \/ VerifierCompare(p) \/ CoreDelivers(p) \/ StreamBreaks(p)
           \/ PublishCheckpoint
    PROVE  TypeOK' /\ ProcInv' /\ UNCHANGED dbVars
  <1> USE BackendAssumption, IngestionAssumption
  <1>1. UNCHANGED <<dbVars, lock, cur, phase, tx>>
    BY DEF VerifierBegin, VerifierCompare, CoreDelivers, StreamBreaks, PublishCheckpoint
  <1>2. RestTypes'
    <2>1. CASE \E p \in Procs : VerifierBegin(p) \/ VerifierCompare(p)
      BY <2>1 DEF VerifierBegin, VerifierCompare, TypeOK, RestTypes
    <2>2. CASE \E p \in Procs : CoreDelivers(p)
      <3>1. PICK p \in Procs : CoreDelivers(p)
        BY <2>2
      <3>2. Deliver(backend[p]) \in Backends
        BY <3>1, BackendType DEF CoreDelivers, TypeOK
      <3> QED BY <3>1, <3>2 DEF CoreDelivers, TypeOK, RestTypes
    <2>3. CASE PublishCheckpoint
      BY <2>3 DEF PublishCheckpoint, TypeOK, RestTypes
    <2>4. CASE \E p \in Procs : StreamBreaks(p)
      <3>1. PICK p \in Procs : StreamBreaks(p)
        BY <2>4
      <3>2. PICK n \in 1..Room(backend[p]) : backend' = [backend EXCEPT ![p] = Break(@, n)]
        BY <3>1 DEF StreamBreaks
      <3>3. backend[p] \in Backends /\ n \in Nat
        <4>1. backend[p] \in Backends
          BY DEF TypeOK
        <4> QED BY <4>1, <3>2 DEF Room, Backends
      <3>4. Break(backend[p], n) \in Backends
        BY <3>3 DEF Break, Backends
      <3> QED BY <3>1, <3>2, <3>4 DEF StreamBreaks, TypeOK, RestTypes
    <2> QED BY <2>1, <2>2, <2>3, <2>4
  <1>3. ProcTypes'
    BY <1>1 DEF TypeOK, ProcTypes
  <1>4. ASSUME NEW q \in Procs PROVE PhaseInv(q)' /\ StagedInv(q)'
    BY <1>1, ProcFrame DEF ProcInv
  <1> QED BY <1>1, <1>2, <1>3, <1>4, QuietTypes DEF ProcInv

-----------------------------------------------------------------------------
(* Steps that change the database.                                         *)

(* The types of the database. *)
DbTypes ==
    /\ lastIngested \in 0..MaxLedger
    /\ ingestVersion \in Versions \cup {0}
    /\ stateInvalid \in BOOLEAN
    /\ tables \in [ledger : 0..MaxLedger, writers : SUBSET Versions, corrupt : BOOLEAN]
    /\ history \in [Ledgers -> {"none", "live", "reingested"}]

(* The writes of a complete transaction keep the types of the database. *)
LEMMA CommitTypes ==
    ASSUME TypeOK, ProcInv, NEW p \in Procs, Complete(p), CommitWrites(p)
    PROVE  DbTypes'
  <1> USE BackendAssumption, IngestionAssumption
  <1>1. /\ Version[p] \in Versions /\ tx[p].kind \in TxKinds /\ tx[p].kind # "none"
        /\ tx[p].kind \in {"build", "ledger"} => tx[p].to \in Ledgers
    BY DEF Versions, ProcInv, StagedInv, Complete, TypeOK, Txs
  <1>2. DbTypes
    BY DEF TypeOK, DbTypes
  <1>3. \A x, y : \A k \in {"live", "reingested"} :
           WriteHistory(x, y, k) \in [Ledgers -> {"none", "live", "reingested"}]
    BY <1>2 DEF WriteHistory, DbTypes
  <1>4. CASE tx[p].kind = "reset"
    BY <1>2, <1>4 DEF CommitWrites, DbTypes
  <1>5. CASE tx[p].kind = "build"
    <2>1. /\ lastIngested' = tx[p].to /\ ingestVersion' = Version[p] /\ stateInvalid' = FALSE
          /\ tables' = [ledger |-> tx[p].to, writers |-> {Version[p]}, corrupt |-> FALSE]
          /\ history' = history
      BY <1>5 DEF CommitWrites
    <2>2. tx[p].to \in 0..MaxLedger
      BY <1>1, <1>5 DEF Ledgers
    <2> QED BY <1>1, <1>2, <2>1, <2>2 DEF DbTypes
  <1>6. CASE tx[p].kind = "ledger"
    <2>1. /\ lastIngested' = tx[p].to /\ tables' = ApplyLedger(p, tx[p].to)
          /\ history' = WriteHistory(tx[p].to, tx[p].to, "live")
          /\ ingestVersion' = ingestVersion /\ stateInvalid' = stateInvalid
      BY <1>6 DEF CommitWrites
    <2>2. tx[p].to \in 0..MaxLedger
      BY <1>1, <1>6 DEF Ledgers
    <2>3. tables.writers \cup {Version[p]} \in SUBSET Versions
      BY <1>1, <1>2 DEF DbTypes
    <2>4. ApplyLedger(p, tx[p].to) \in
            [ledger : 0..MaxLedger, writers : SUBSET Versions, corrupt : BOOLEAN]
      BY <2>2, <2>3 DEF ApplyLedger
    <2> QED BY <1>2, <1>3, <2>1, <2>2, <2>4 DEF DbTypes
  <1>7. CASE tx[p].kind \in {"history", "reingest"}
    <2>1. /\ \E k \in {"live", "reingested"} : history' = WriteHistory(tx[p].from, tx[p].to, k)
          /\ UNCHANGED <<lastIngested, ingestVersion, stateInvalid, tables>>
      BY <1>7 DEF CommitWrites
    <2> QED BY <1>2, <1>3, <2>1 DEF DbTypes
  <1> QED BY <1>1, <1>4, <1>5, <1>6, <1>7 DEF TxKinds

(* A commit never removes history rows. *)
LEMMA CommitKeepsRows ==
    ASSUME TypeOK, ProcInv, NEW p \in Procs, Complete(p), CommitWrites(p),
           NEW r \in Ledgers, history[r] # "none"
    PROVE  history'[r] # "none"
  <1>1. tx[p].kind \in TxKinds /\ tx[p].kind # "none"
    BY DEF ProcInv, StagedInv, Complete, TypeOK, Txs
  <1> QED BY <1>1 DEF CommitWrites, WriteHistory, TxKinds

(* The other processes are outside the lock when one commits. *)
LEMMA CommitProcInv ==
    ASSUME TypeOK, ProcInv, NEW p \in Procs, Complete(p), CommitWrites(p),
           NEW s \in States, Return(p, s), s.node = "reingest" => s = cur[p]
    PROVE  ProcInv'
  <1>1. phase[p] = "staged" /\ lock = p
    BY DEF Complete, ProcInv, PhaseInv
  <1>2. PhaseInv(p)' /\ StagedInv(p)'
    <2>1. cur'[p] = s /\ phase'[p] = "idle"
      BY DEF Return, TypeOK
    <2>2. \A r \in Ledgers : history[r] # "none" => history'[r] # "none"
      BY CommitKeepsRows
    <2>3. PhaseInv(p)'
      BY <2>1, <2>2 DEF PhaseInv, ProcInv
    <2> QED BY <2>1, <2>3 DEF StagedInv
  <1>3. ASSUME NEW q \in Procs, q # p PROVE PhaseInv(q)' /\ StagedInv(q)'
    <2>1. /\ cur'[q] = cur[q] /\ phase'[q] = phase[q] /\ tx'[q] = tx[q]
          /\ phase[q] \notin {"locked", "staged"} /\ PhaseInv(q)
      BY <1>1, <1>3 DEF Return, TypeOK, ProcInv, PhaseInv
    <2>2. \A r \in Ledgers : history[r] # "none" => history'[r] # "none"
      BY CommitKeepsRows
    <2>3. StagedInv(q)'
      BY <2>1 DEF StagedInv
    <2>4. PhaseInv(q)'
      BY <2>1, <2>2 DEF PhaseInv, ValidArguments
    <2> QED BY <2>3, <2>4
  <1> QED BY <1>2, <1>3 DEF ProcInv

(* A commit keeps the state tables and exp_ingest_last_ledger together. *)
LEMMA CommitState ==
    ASSUME TypeOK, ProcInv, StateMatchesLedger, NEW p \in Procs, Complete(p), CommitWrites(p)
    PROVE  StateMatchesLedger'
  <1> USE BackendAssumption, IngestionAssumption
  <1>1. tx[p].kind \in TxKinds /\ StagedInv(p) /\ phase[p] = "staged"
    BY DEF ProcInv, Complete, TypeOK, Txs
  <1>2. CASE tx[p].kind = "reset"
    BY <1>2 DEF CommitWrites, StateMatchesLedger
  <1>3. CASE tx[p].kind = "build"
    BY <1>3 DEF CommitWrites, StateMatchesLedger
  <1>4. CASE tx[p].kind = "ledger"
    <2>1. /\ tx[p].to = lastIngested + 1 /\ lastIngested > 0 /\ ingestVersion = Version[p]
          /\ tables.ledger = lastIngested /\ tables.writers = {ingestVersion} /\ ~tables.corrupt
          /\ lastIngested \in Nat
      BY <1>1, <1>4 DEF StagedInv, StateMatchesLedger, TypeOK
    <2>2. lastIngested' = tx[p].to /\ tables' = ApplyLedger(p, tx[p].to) /\ ingestVersion' = ingestVersion
      BY <1>4 DEF CommitWrites
    <2>3. (tables.ledger # tx[p].to - 1) = FALSE /\ tables.writers \cup {Version[p]} = {ingestVersion}
      BY <2>1
    <2> QED BY <2>1, <2>2, <2>3 DEF ApplyLedger, StateMatchesLedger
  <1>5. CASE tx[p].kind \in {"history", "reingest"}
    BY <1>5 DEF CommitWrites, StateMatchesLedger
  <1> QED BY <1>1, <1>2, <1>3, <1>4, <1>5 DEF TxKinds, StagedInv

(* Rows f..t are written on top of the latest row of history. *)
WritesOnTop(f, t) ==
    /\ f \in Ledgers /\ t \in f..MaxLedger
    /\ \A r \in Ledgers : history[r] # "none" => r < f
    /\ (f > 1 /\ \E r \in Ledgers : history[r] # "none") => history[f - 1] # "none"
    /\ history' = WriteHistory(f, t, "live")

(* Rows f..t are written at or below some existing row. *)
WritesBelow(f, t) ==
    /\ f \in Ledgers /\ t \in f..MaxLedger
    /\ \E r \in Ledgers : r >= t /\ history[r] # "none"
    /\ history' = WriteHistory(f, t, "reingested")

(* A commit does to the history tables nothing else than these two. *)
LEMMA CommitHistory ==
    ASSUME TypeOK, ProcInv, NEW p \in Procs, Complete(p), CommitWrites(p)
    PROVE  \/ UNCHANGED history
           \/ \E f, t \in Ledgers : WritesOnTop(f, t) \/ WritesBelow(f, t)
  <1> USE BackendAssumption
  <1>1. /\ tx[p].kind \in TxKinds /\ StagedInv(p) /\ PhaseInv(p) /\ phase[p] = "staged"
        /\ cur[p].from \in 0..MaxLedger /\ cur[p].to \in 0..MaxLedger
    BY DEF ProcInv, Complete, TypeOK, Txs, States
  <1>2. CASE tx[p].kind \in {"reset", "build"}
    BY <1>2 DEF CommitWrites
  <1>3. CASE tx[p].kind = "ledger"
    <2>1. /\ tx[p].to = lastIngested + 1 /\ tx[p].to \in Ledgers /\ lastIngested \in Nat
          /\ \A r \in Ledgers : history[r] # "none" => r <= lastIngested /\ history[lastIngested] # "none"
      BY <1>1, <1>3 DEF StagedInv, TypeOK
    <2>2. history' = WriteHistory(tx[p].to, tx[p].to, "live")
      BY <1>3 DEF CommitWrites
    <2>3. WritesOnTop(tx[p].to, tx[p].to)
      BY <2>1, <2>2 DEF WritesOnTop, Ledgers
    <2> QED BY <2>1, <2>3
  <1>4. CASE tx[p].kind = "history"
    <2>1. /\ cur[p].from # 0 /\ cur[p].from <= cur[p].to
          /\ tx[p].from = cur[p].from /\ tx[p].to = cur[p].to /\ IsLatestLedger(cur[p].from - 1)
      BY <1>1, <1>4 DEF StagedInv, PhaseInv, ValidArguments, Complete
    <2>2. history' = WriteHistory(tx[p].from, tx[p].to, "live")
      BY <1>4 DEF CommitWrites
    <2>3. tx[p].from \in Ledgers /\ tx[p].to \in Ledgers
      BY <1>1, <2>1 DEF Ledgers
    <2>4. WritesOnTop(tx[p].from, tx[p].to)
      BY <1>1, <2>1, <2>2, <2>3 DEF WritesOnTop, IsLatestLedger, Ledgers
    <2> QED BY <2>3, <2>4
  <1>5. CASE tx[p].kind = "reingest"
    <2>1. /\ tx[p].from \in 2..cur[p].to /\ tx[p].to = cur[p].to
          /\ \E r \in Ledgers : r >= cur[p].to /\ history[r] # "none"
      BY <1>1, <1>5 DEF StagedInv, PhaseInv, Complete
    <2>2. history' = WriteHistory(tx[p].from, tx[p].to, "reingested")
      BY <1>5 DEF CommitWrites
    <2>3. tx[p].from \in Ledgers /\ tx[p].to \in Ledgers
      BY <1>1, <2>1 DEF Ledgers
    <2>4. WritesBelow(tx[p].from, tx[p].to)
      BY <1>1, <2>1, <2>2, <2>3 DEF WritesBelow, Ledgers
    <2> QED BY <2>3, <2>4
  <1> QED BY <1>1, <1>2, <1>3, <1>4, <1>5 DEF TxKinds, StagedInv

(* Writes of either kind leave no gap. *)
LEMMA WritesLeaveNoGap ==
    ASSUME TypeOK, NoHistoryGap, NEW f \in Ledgers, NEW t \in Ledgers,
           WritesOnTop(f, t) \/ WritesBelow(f, t)
    PROVE  NoHistoryGap'
  <1> USE BackendAssumption DEF Ledgers
  <1> SUFFICES ASSUME NEW a \in Ledgers, NEW l \in Ledgers, NEW b \in Ledgers,
                      a < l, l < b, history'[a] = "live", history'[b] # "none"
               PROVE  history'[l] # "none"
    BY DEF NoHistoryGap
  <1>1. CASE WritesOnTop(f, t)
    <2>1. \A x \in Ledgers : history'[x] = IF x \in f..t THEN "live" ELSE history[x]
      BY <1>1 DEF WritesOnTop, WriteHistory
    <2>2. CASE l \in f..t
      BY <2>1, <2>2
    <2>3. CASE l > t
      BY <1>1, <2>1, <2>3 DEF WritesOnTop
    <2>4. CASE l < f
      <3>1. history[a] = "live" /\ f > 1 /\ f - 1 \in Ledgers
        BY <1>1, <2>1, <2>4 DEF WritesOnTop
      <3>2. history[f - 1] # "none"
        BY <1>1, <3>1 DEF WritesOnTop
      <3>3. history[l] # "none"
        BY <2>4, <3>1, <3>2 DEF NoHistoryGap
      <3> QED BY <2>1, <3>3
    <2> QED BY <2>2, <2>3, <2>4
  <1>2. CASE WritesBelow(f, t)
    <2>1. \A x \in Ledgers : history'[x] = IF x \in f..t THEN "reingested" ELSE history[x]
      BY <1>2 DEF WritesBelow, WriteHistory
    <2>2. CASE l \in f..t
      BY <2>1, <2>2
    <2>3. CASE l \notin f..t
      <3>1. history[a] = "live"
        BY <2>1
      <3>2. \E r \in Ledgers : r >= b /\ history[r] # "none"
        BY <1>2, <2>1 DEF WritesBelow
      <3>3. history[l] # "none"
        BY <3>1, <3>2 DEF NoHistoryGap
      <3> QED BY <2>1, <2>3, <3>3
    <2> QED BY <2>2, <2>3
  <1> QED BY <1>1, <1>2

(* A commit, acknowledged or not, keeps the whole invariant. *)
LEMMA CommitSteps ==
    ASSUME IInv, NEW p \in Procs, Commit(p) \/ CommitUnacknowledged(p)
    PROVE  IInv'
  <1> USE BackendAssumption, IngestionAssumption
  <1>1. TypeOK /\ ProcInv /\ StateMatchesLedger /\ NoHistoryGap /\ Complete(p) /\ CommitWrites(p)
    BY DEF IInv, Commit, CommitUnacknowledged
  <1>2. cur[p] \in States /\ tx[p] \in Txs /\ StagedInv(p) /\ phase[p] = "staged"
    BY <1>1 DEF TypeOK, ProcInv, Complete
  <1>3. PICK s \in States : (s.node = "reingest" => s = cur[p]) /\ Return(p, s)
    <2>1. FailState(cur[p]) \in States /\ FailState(cur[p]).node # "reingest"
      BY <1>2, FailStateNode
    <2>2. start \in States /\ stop \in States /\ start.node # "reingest" /\ stop.node # "reingest"
      BY FixedStates DEF start, stop, state
    <2>3. tx[p].kind \in {"build", "ledger"} =>
             resume(tx[p].to) \in States /\ resume(tx[p].to).node # "reingest"
      BY <1>2 DEF StagedInv, Ledgers, resume, state, States, NodeNames
    <2>4. NextState(p) \in States /\ NextState(p).node # "reingest"
      BY <2>2, <2>3 DEF NextState
    <2> QED BY <1>2, <2>1, <2>4 DEF Commit, CommitUnacknowledged, ReturnFailure
  <1>4. TypeOK'
    <2>1. DbTypes'
      BY <1>1, CommitTypes
    <2>2. ProcTypes'
      BY <1>1, <1>3, TransitionType
    <2>3. AfterCommit(p) \in [Procs -> {"idle", "spawned", "snapshot", "truncated", "failed"}]
      BY <1>1 DEF AfterCommit, TypeOK
    <2>4. RestTypes'
      BY <1>1, <2>3 DEF Commit, MaybeVerifyState, CommitUnacknowledged, TypeOK, RestTypes
    <2> QED BY <2>1, <2>2, <2>4 DEF DbTypes, ProcTypes, RestTypes, TypeOK
  <1>5. ProcInv'
    BY <1>1, <1>3, CommitProcInv
  <1>6. StateMatchesLedger'
    BY <1>1, CommitState
  <1>7. NoHistoryGap'
    BY <1>1, CommitHistory, WritesLeaveNoGap DEF NoHistoryGap
  <1> QED BY <1>4, <1>5, <1>6, <1>7 DEF IInv

(* A ledger written again below the top of history disturbs no transaction that
   is under way. *)
LEMMA ReingestFrame ==
    ASSUME TypeOK, NEW q \in Procs, PhaseInv(q), StagedInv(q),
           NEW k \in Ledgers, WritesBelow(k, k), UNCHANGED <<lastIngested, ingestVersion>>,
           cur'[q] = cur[q], phase'[q] = phase[q], tx'[q] = tx[q], UNCHANGED lock
    PROVE  PhaseInv(q)' /\ StagedInv(q)'
  <1> USE BackendAssumption
  <1>1. \A x \in Ledgers : history'[x] = IF x = k THEN "reingested" ELSE history[x]
    BY DEF WritesBelow, WriteHistory, Ledgers
  <1>2. PICK r \in Ledgers : r >= k /\ history[r] # "none"
    BY DEF WritesBelow
  <1>3. PhaseInv(q)'
    BY <1>1 DEF PhaseInv, ValidArguments
  <1>4. CASE phase[q] # "staged"
    BY <1>3, <1>4 DEF StagedInv
  <1>5. CASE phase[q] = "staged" /\ tx[q].kind = "ledger"
    <2>1. \A x \in Ledgers : history'[x] # "none" => x <= lastIngested /\ history'[lastIngested] # "none"
      BY <1>1, <1>2, <1>5 DEF StagedInv, Ledgers, TypeOK
    <2> QED BY <1>3, <1>5, <2>1 DEF StagedInv
  <1>6. CASE phase[q] = "staged" /\ tx[q].kind = "history"
    <2>1. tx[q].from \in 0..(MaxLedger + 1) /\ cur[q].from \in 0..MaxLedger
      BY DEF TypeOK, Txs, States
    <2>2. tx[q].from = cur[q].from /\ cur[q].from # 0 /\ IsLatestLedger(tx[q].from - 1)
      BY <1>6 DEF StagedInv, PhaseInv, ValidArguments
    <2>3. IsLatestLedger(tx[q].from - 1)'
      BY <1>1, <1>2, <2>1, <2>2 DEF IsLatestLedger, Ledgers
    <2> QED BY <1>3, <1>6, <2>3 DEF StagedInv
  <1>7. CASE phase[q] = "staged" /\ tx[q].kind \notin {"ledger", "history"}
    BY <1>3, <1>7 DEF StagedInv
  <1> QED BY <1>4, <1>5, <1>6, <1>7

(* Reingesting one ledger without the lock. *)
LEMMA ReingestLedgerStep ==
    ASSUME IInv, NEW p \in Procs, ReingestLedger(p)
    PROVE  IInv'
  <1> USE BackendAssumption
  <1>1. /\ TypeOK /\ ProcInv /\ StateMatchesLedger /\ NoHistoryGap
        /\ phase[p] = "ranged" /\ cur[p].node = "reingest"
        /\ cur[p] \in States /\ tx[p] \in Txs /\ cur[p].to \in 0..MaxLedger
        /\ tx[p].from \in 2..(MaxLedger + 1) /\ tx[p].to \in (tx[p].from - 1)..MaxLedger
    BY DEF IInv, TypeOK, States, ProcInv, PhaseInv, ReingestLedger
  <1>2. UNCHANGED <<lastIngested, ingestVersion, stateInvalid, tables, verifier, backend, archive, faults>>
    BY DEF ReingestLedger
  <1>3. StateMatchesLedger'
    BY <1>1, <1>2 DEF StateMatchesLedger
  <1>4. CASE Return(p, stop) /\ UNCHANGED history
    <2>1. stop \in States /\ stop.node # "reingest"
      BY FixedStates DEF stop, state
    <2>2. UNCHANGED dbVars /\ RestTypes'
      BY <1>1, <1>2, <1>4 DEF dbVars, RestTypes, TypeOK
    <2>3. TypeOK' /\ ProcInv'
      BY <1>1, <1>4, <2>1, <2>2, TransitionType, QuietTypes, ReturnInv
    <2>4. NoHistoryGap'
      BY <1>1, <1>4 DEF NoHistoryGap
    <2> QED BY <1>3, <2>3, <2>4 DEF IInv
  <1>5. ASSUME tx[p].to < cur[p].to,
               history' = WriteHistory(tx[p].to + 1, tx[p].to + 1, "reingested"),
               tx' = [tx EXCEPT ![p] = Tx("none", tx[p].from, tx[p].to + 1)],
               UNCHANGED <<cur, phase, lock>>
        PROVE  IInv'
    <2> DEFINE k == tx[p].to + 1
    <2>1. k \in Ledgers /\ k <= cur[p].to
      BY <1>1, <1>5 DEF Ledgers
    <2>2. WritesBelow(k, k)
      <3>1. \E r \in Ledgers : r >= cur[p].to /\ history[r] # "none"
        BY <1>1 DEF ProcInv, PhaseInv
      <3>2. \E r \in Ledgers : r >= k /\ history[r] # "none"
        BY <1>1, <2>1, <3>1 DEF Ledgers
      <3> QED BY <1>5, <2>1, <3>2 DEF WritesBelow, Ledgers
    <2>3. /\ tx'[p].from = tx[p].from /\ tx'[p].to = k /\ tx'[p] \in Txs
          /\ \A q \in Procs : q # p => tx'[q] = tx[q]
      <3>1. Tx("none", tx[p].from, k) \in Txs
        BY <1>1, <2>1 DEF Tx, Txs, TxKinds, Ledgers
      <3>2. tx'[p] = Tx("none", tx[p].from, k)
        BY <1>1, <1>5 DEF TypeOK
      <3> QED BY <1>5, <3>1, <3>2 DEF Tx
    <2>4. TypeOK'
      <3>1. tx' \in [Procs -> Txs]
        BY <1>1, <1>5, <2>3 DEF TypeOK
      <3>2. history' \in [Ledgers -> {"none", "live", "reingested"}]
        BY <1>1, <1>5 DEF WriteHistory, TypeOK
      <3> QED BY <1>1, <1>2, <1>5, <3>1, <3>2 DEF TypeOK
    <2>5. PhaseInv(p)' /\ StagedInv(p)'
      <3> HIDE DEF k
      <3>1. \A r \in Ledgers : history[r] # "none" => history'[r] # "none"
        BY <2>2 DEF WritesBelow, WriteHistory
      <3>2. PhaseInv(p)
        BY <1>1 DEF ProcInv
      <3>3. k \in (tx[p].from - 1)..MaxLedger
        BY <1>1, <2>1 DEF k, Ledgers
      <3> QED BY <1>1, <1>5, <2>3, <3>1, <3>2, <3>3 DEF PhaseInv, StagedInv, ValidArguments
    <2>6. ASSUME NEW q \in Procs, q # p PROVE PhaseInv(q)' /\ StagedInv(q)'
      <3> HIDE DEF k
      <3> QED BY <1>1, <1>2, <1>5, <2>1, <2>2, <2>3, <2>6, ReingestFrame DEF ProcInv
    <2>7. NoHistoryGap'
      <3> HIDE DEF k
      <3> QED BY <1>1, <2>1, <2>2, WritesLeaveNoGap
    <2> QED BY <1>3, <2>4, <2>5, <2>6, <2>7 DEF IInv, ProcInv
  <1> QED BY <1>4, <1>5 DEF ReingestLedger

(* Marking the state invalid touches nothing the invariant speaks of. *)
LEMMA MarkStep ==
    ASSUME IInv, NEW p \in Procs, MarkStateInvalid(p)
    PROVE  IInv'
  <1>1. UNCHANGED <<lastIngested, ingestVersion, tables, history, lock, cur, phase, tx, backend, archive, faults>>
    BY DEF MarkStateInvalid
  <1>2. TypeOK'
    BY <1>1 DEF MarkStateInvalid, IInv, TypeOK
  <1>3. StateMatchesLedger' /\ NoHistoryGap'
    BY <1>1 DEF IInv, StateMatchesLedger, NoHistoryGap
  <1>4. ASSUME NEW q \in Procs PROVE PhaseInv(q)' /\ StagedInv(q)'
    <2>1. PhaseInv(q) /\ StagedInv(q)
      BY DEF IInv, ProcInv
    <2>2. PhaseInv(q)'
      BY <1>1, <2>1 DEF PhaseInv, ValidArguments
    <2>3. StagedInv(q)'
      BY <1>1, <2>1 DEF StagedInv, IsLatestLedger
    <2> QED BY <2>2, <2>3
  <1> QED BY <1>2, <1>3, <1>4 DEF IInv, ProcInv

-----------------------------------------------------------------------------
(* The theorems.                                                           *)

(* Every database Aurora may start on satisfies the inductive invariant. *)
LEMMA InitInv == Init => IInv
  <1> USE BackendAssumption, IngestionAssumption
  <1> SUFFICES ASSUME Init PROVE IInv
    OBVIOUS
  <1>1. PICK h \in 0..MaxLedger :
           history = [l \in Ledgers |-> IF l <= h /\ l > 1 THEN "live" ELSE "none"]
    BY DEF Init
  <1>2. PICK i \in 0..MaxLedger, v \in Versions :
           /\ lastIngested = i
           /\ ingestVersion = IF i = 0 THEN 0 ELSE v
           /\ tables = IF i = 0 THEN EmptyTables
                       ELSE [ledger |-> i, writers |-> {v}, corrupt |-> FALSE]
    BY DEF Init
  <1>3. TypeOK
    <2>1. down \in States /\ NoTx \in Txs /\ NewBackend \in Backends
      BY FixedStates DEF NoTx, Tx, Txs, TxKinds, NewBackend, Backends
    <2>2. DbTypes
      <3>1. tables \in [ledger : 0..MaxLedger, writers : SUBSET Versions, corrupt : BOOLEAN]
        BY <1>2 DEF EmptyTables
      <3>2. history \in [Ledgers -> {"none", "live", "reingested"}]
        BY <1>1
      <3> QED BY <1>2, <3>1, <3>2 DEF DbTypes, Init
    <2>3. ProcTypes /\ RestTypes
      BY <2>1 DEF ProcTypes, RestTypes, Init
    <2> QED BY <2>2, <2>3 DEF TypeOK, DbTypes, ProcTypes, RestTypes
  <1>4. ProcInv
    BY DEF Init, ProcInv, PhaseInv, StagedInv, down, state
  <1>5. StateMatchesLedger
    BY <1>2 DEF StateMatchesLedger
  <1>6. NoHistoryGap
    BY <1>1 DEF NoHistoryGap, Ledgers
  <1> QED BY <1>3, <1>4, <1>5, <1>6 DEF IInv

(* A step that leaves the database alone keeps what the invariant says of it. *)
LEMMA QuietDatabase ==
    ASSUME IInv, UNCHANGED dbVars, TypeOK', ProcInv'
    PROVE  IInv'
  BY DEF IInv, StateMatchesLedger, NoHistoryGap, dbVars

(* Every step of Next preserves the inductive invariant, and every step that is
   not a commit, a reingested ledger or a markStateInvalid leaves the database as
   it is. *)
LEMMA StepInv ==
    ASSUME IInv, Next
    PROVE  /\ IInv'
           /\ \/ UNCHANGED dbVars
              \/ \E p \in Procs : \/ Commit(p) \/ CommitUnacknowledged(p)
                                   \/ ReingestLedger(p) \/ MarkStateInvalid(p)
  <1>1. TypeOK /\ ProcInv
    BY DEF IInv
  <1>2. CASE \/ \E p \in Procs : VerifierBegin(p) \/ VerifierCompare(p) \/ CoreDelivers(p) \/ StreamBreaks(p)
             \/ PublishCheckpoint
    BY <1>1, <1>2, OutsideSteps, QuietDatabase
  <1>3. ASSUME NEW p \in Procs,
               \/ Launch(p) \/ Begin(p) \/ InvalidArguments(p) \/ RunError(p) \/ Crash(p)
               \/ PrepareRange(p) \/ PrepareRangeError(p) \/ ReingestPrepare(p)
        PROVE  IInv' /\ UNCHANGED dbVars
    <2>1. UNCHANGED dbVars
      BY <1>3 DEF Launch, Begin, InvalidArguments, RunError, Crash, PrepareRange,
                  PrepareRangeError, ReingestPrepare
    <2>2. TypeOK' /\ ProcInv'
      BY <1>1, <1>3, LaunchStep, BeginStep, EndingSteps, PrepareSteps, ReingestPrepareStep
    <2> QED BY <2>1, <2>2, QuietDatabase
  <1>4. ASSUME NEW p \in Procs,
               \/ StartStop(p) \/ StartFromCheckpoint(p) \/ StartFromState(p) \/ WaitForCheckpoint(p)
               \/ BuildSkip(p) \/ BuildState(p) \/ ResumeGoBack(p) \/ ResumeLedger(p)
               \/ HistoryRange(p) \/ ReingestForced(p) \/ ProcessLedger(p)
        PROVE  IInv' /\ UNCHANGED dbVars
    <2>1. UNCHANGED dbVars
      BY <1>4 DEF StartStop, StartFromCheckpoint, StartFromState, WaitForCheckpoint, BuildSkip,
                  BuildState, ResumeGoBack, ResumeLedger, HistoryRange, ReingestForced, ProcessLedger
    <2>2. TypeOK' /\ ProcInv'
      BY <1>1, <1>4, StartSteps, BuildSteps, ResumeSteps, RangeSteps
    <2> QED BY <2>1, <2>2, QuietDatabase
  <1>5. ASSUME NEW p \in Procs,
               Commit(p) \/ CommitUnacknowledged(p) \/ ReingestLedger(p) \/ MarkStateInvalid(p)
        PROVE  IInv'
    BY <1>5, CommitSteps, ReingestLedgerStep, MarkStep
  <1> QED BY <1>2, <1>3, <1>4, <1>5 DEF Next, Step, Verification, Failure

(* Stuttering preserves it too. *)
LEMMA StutterInv ==
    ASSUME IInv, UNCHANGED vars
    PROVE  IInv'
  <1>1. UNCHANGED <<dbVars, lock, cur, phase, tx, verifier, backend, archive, faults>>
    BY DEF vars
  <1>2. TypeOK'
    BY <1>1 DEF IInv, TypeOK, dbVars
  <1>3. ASSUME NEW q \in Procs PROVE PhaseInv(q)' /\ StagedInv(q)'
    BY <1>1, ProcFrame DEF IInv, ProcInv
  <1> QED BY <1>1, <1>2, <1>3, QuietDatabase DEF ProcInv

(* IInv is an invariant of ingestion, whatever processes, versions, commands,
   faults and bounds there are. *)
THEOREM Invariance == Spec => []IInv
  <1>1. IInv /\ [Next]_vars => IInv'
    BY StepInv, StutterInv
  <1> QED BY <1>1, InitInv, PTL DEF Spec

(* Type correctness of the ingestion state machine. *)
THEOREM TypeCorrect == Spec => []TypeOK
  <1>1. IInv => TypeOK
    BY DEF IInv
  <1> QED BY <1>1, Invariance, PTL

(* The state tables always hold the ledger and the version that the key value
   store names (resumeState, buildState, the lock of GetLastLedgerExpIngest). *)
THEOREM StateCorrect == Spec => []StateMatchesLedger
  <1>1. IInv => StateMatchesLedger
    BY DEF IInv
  <1> QED BY <1>1, Invariance, PTL

(* Live history never has a gap (historyRangeState, resumeState and
   reingestHistoryRangeState). *)
THEOREM HistoryCorrect == Spec => []NoHistoryGap
  <1>1. IInv => NoHistoryGap
    BY DEF IInv
  <1> QED BY <1>1, Invariance, PTL

-----------------------------------------------------------------------------
(* Ingestion implements Durable.                                           *)

(* The commit of historyRangeState is a CatchUp step. *)
LEMMA CatchUpMaps ==
    ASSUME TypeOK, ProcInv, NEW p \in Procs, Complete(p), CommitWrites(p), tx[p].kind = "history"
    PROVE  D!DurableNext
  <1> USE BackendAssumption DEF Ledgers
  <1>1. /\ cur[p].from \in 0..MaxLedger /\ cur[p].to \in 0..MaxLedger
        /\ cur[p].from # 0 /\ cur[p].from <= cur[p].to
        /\ tx[p].from = cur[p].from /\ tx[p].to = cur[p].to /\ IsLatestLedger(cur[p].from - 1)
    <2>1. StagedInv(p) /\ PhaseInv(p) /\ cur[p] \in States
      BY DEF ProcInv, TypeOK
    <2> QED BY <2>1 DEF StagedInv, PhaseInv, ValidArguments, Complete, States
  <1> DEFINE f == tx[p].from
             t == tx[p].to
  <1>2. f \in 1..MaxLedger /\ t \in 1..MaxLedger
    BY <1>1
  <1>3. f > 1 => f - 1 \in D!Rows
    BY <1>1 DEF IsLatestLedger, D!Rows
  <1>4. \A r \in D!Rows : r < f
    BY <1>1 DEF IsLatestLedger, D!Rows
  <1>5. history' = D!Written(f, t, "live") /\ UNCHANGED <<lastIngested, ingestVersion>>
    BY DEF CommitWrites, WriteHistory, D!Written
  <1> HIDE DEF f, t
  <1>6. D!CatchUp(f, t)
    BY <1>3, <1>4, <1>5 DEF D!CatchUp
  <1> QED BY <1>2, <1>6 DEF D!DurableNext

(* Writing ledgers again below the top of history is a Reingest step. *)
LEMMA ReingestMaps ==
    ASSUME TypeOK, NEW f \in Ledgers, NEW t \in Ledgers, WritesBelow(f, t),
           UNCHANGED <<lastIngested, ingestVersion>>
    PROVE  D!DurableNext
  <1> USE DEF Ledgers
  <1>1. \E r \in D!Rows : t <= r
    BY BackendAssumption DEF WritesBelow, D!Rows
  <1>2. history' = D!Written(f, t, "reingested")
    BY DEF WritesBelow, WriteHistory, D!Written
  <1>3. D!Reingest(f, t)
    BY <1>1, <1>2 DEF D!Reingest
  <1> QED BY <1>3 DEF D!DurableNext

(* A commit is a step of Durable. *)
LEMMA CommitMaps ==
    ASSUME TypeOK, ProcInv, NEW p \in Procs, Complete(p), CommitWrites(p)
    PROVE  D!DurableNext
  <1> USE BackendAssumption, IngestionAssumption
  <1>1. tx[p].kind \in TxKinds /\ StagedInv(p) /\ PhaseInv(p) /\ phase[p] = "staged"
    BY DEF ProcInv, Complete, TypeOK, Txs
  <1>2. CASE tx[p].kind = "reset"
    BY <1>2 DEF CommitWrites, D!Reset, D!DurableNext
  <1>3. CASE tx[p].kind = "build"
    <2>1. tx[p].to \in 1..MaxLedger /\ Version[p] \in Versions
      BY <1>1, <1>3 DEF StagedInv, Ledgers, Versions
    <2>2. D!Build(tx[p].to, Version[p])
      BY <1>1, <1>3 DEF StagedInv, CommitWrites, D!Build
    <2> QED BY <2>1, <2>2 DEF D!DurableNext
  <1>4. CASE tx[p].kind = "ledger"
    <2>1. /\ tx[p].to = lastIngested + 1 /\ lastIngested > 0 /\ lastIngested \in 0..MaxLedger
          /\ \A r \in Ledgers : history[r] # "none" => r <= lastIngested /\ history[lastIngested] # "none"
      BY <1>1, <1>4 DEF StagedInv, TypeOK
    <2>2. (\A r \in D!Rows : r <= lastIngested) /\ (D!Rows # {} => lastIngested \in D!Rows)
      BY <2>1 DEF D!Rows, Ledgers
    <2>3. /\ lastIngested' = lastIngested + 1 /\ UNCHANGED ingestVersion
          /\ history' = D!Written(lastIngested + 1, lastIngested + 1, "live")
      BY <1>4, <2>1 DEF CommitWrites, WriteHistory, D!Written, Ledgers
    <2> QED BY <2>1, <2>2, <2>3 DEF D!Ingest, D!DurableNext
  <1>5. CASE tx[p].kind = "history"
    BY <1>5, CatchUpMaps
  <1>6. CASE tx[p].kind = "reingest"
    <2>1. /\ tx[p].from \in 2..cur[p].to /\ tx[p].to = cur[p].to /\ cur[p].to \in 0..MaxLedger
          /\ \E r \in Ledgers : r >= cur[p].to /\ history[r] # "none"
      BY <1>1, <1>6 DEF StagedInv, PhaseInv, Complete, TypeOK, States
    <2>2. tx[p].from \in Ledgers /\ tx[p].to \in Ledgers
      BY <2>1 DEF Ledgers
    <2>3. WritesBelow(tx[p].from, tx[p].to) /\ UNCHANGED <<lastIngested, ingestVersion>>
      BY <1>6, <2>1, <2>2 DEF WritesBelow, CommitWrites, Ledgers
    <2> QED BY <2>2, <2>3, ReingestMaps
  <1> QED BY <1>1, <1>2, <1>3, <1>4, <1>5, <1>6 DEF TxKinds, StagedInv

(* A ledger reingested without the lock is a Reingest step. *)
LEMMA ReingestLedgerMaps ==
    ASSUME TypeOK, ProcInv, NEW p \in Procs, ReingestLedger(p)
    PROVE  D!DurableNext \/ UNCHANGED D!durableVars
  <1> USE BackendAssumption
  <1>1. /\ UNCHANGED <<lastIngested, ingestVersion>>
        /\ cur[p].to \in 0..MaxLedger /\ tx[p].to \in Nat
        /\ \E r \in Ledgers : r >= cur[p].to /\ history[r] # "none"
    BY DEF ReingestLedger, TypeOK, States, Txs, ProcInv, PhaseInv
  <1>2. CASE UNCHANGED history
    BY <1>1, <1>2 DEF D!durableVars
  <1>3. CASE tx[p].to < cur[p].to /\ history' = WriteHistory(tx[p].to + 1, tx[p].to + 1, "reingested")
    <2>1. tx[p].to + 1 \in Ledgers
      BY <1>1, <1>3 DEF Ledgers
    <2>2. WritesBelow(tx[p].to + 1, tx[p].to + 1)
      BY <1>1, <1>3, <2>1 DEF WritesBelow, Ledgers
    <2> QED BY <1>1, <2>1, <2>2, ReingestMaps
  <1> QED BY <1>2, <1>3 DEF ReingestLedger

(* The committed database changes only as Durable allows: ingestion implements it
   (completeIngestion, and every transaction that commits). *)
THEOREM Refinement == Spec => DurableSpec
  <1>1. Init => D!DurableInit
    BY InitInv DEF IInv, TypeOK, D!DurableInit, Ledgers
  <1>2. IInv /\ [Next]_vars => [D!DurableNext]_(D!durableVars)
    <2> SUFFICES ASSUME IInv, [Next]_vars PROVE [D!DurableNext]_(D!durableVars)
      OBVIOUS
    <2>1. TypeOK /\ ProcInv
      BY DEF IInv
    <2>2. CASE UNCHANGED vars \/ UNCHANGED dbVars
      BY <2>2 DEF vars, dbVars, D!durableVars
    <2>3. CASE \E p \in Procs : Commit(p) \/ CommitUnacknowledged(p)
      BY <2>1, <2>3, CommitMaps DEF Commit, CommitUnacknowledged
    <2>4. CASE \E p \in Procs : ReingestLedger(p)
      BY <2>1, <2>4, ReingestLedgerMaps
    <2>5. CASE \E p \in Procs : MarkStateInvalid(p)
      BY <2>5 DEF MarkStateInvalid, D!durableVars
    <2> QED BY <2>2, <2>3, <2>4, <2>5, StepInv
  <1> QED BY <1>1, <1>2, Invariance, PTL DEF Spec, DurableSpec, D!DurableSpec

-----------------------------------------------------------------------------
(* Verification in a cluster of one version.                               *)

OneVersion == \A p, q \in Procs : Version[p] = Version[q]

Row(l) == l \in Ledgers /\ history[l] # "none"

AllIdle == \A q \in Procs : verifier[q] = "idle"

(* A catch-up that waits for the lock begins on top of rows that were there when it
   was decided, and a reset is staged because history is ahead. *)
PendingInv ==
    /\ \A q \in Procs : cur[q].node = "historyRange" => Row(cur[q].from - 1)
    /\ \A q \in Procs : phase[q] = "staged" /\ tx[q].kind = "reset" => \E r \in Ledgers : r > lastIngested /\ Row(r)

(* While a verification is under way the state is the top of history, and no pending
   catch-up can put history ahead of it: so there is no reset and no build. *)
SteadyInv ==
    \/ AllIdle
    \/ /\ lastIngested > 0 /\ Row(lastIngested) /\ \A r \in Ledgers : Row(r) => r <= lastIngested
       /\ \A q \in Procs : cur[q].node = "historyRange" => cur[q].from <= lastIngested

VerifierInv ==
    /\ ~tables.corrupt /\ ~stateInvalid
    /\ \A q \in Procs : verifier[q] \in {"idle", "spawned", "snapshot"}

Calm == PendingInv /\ SteadyInv /\ VerifierInv

(* A state that exists is of the one version. *)
LEMMA StateIsOurs ==
    ASSUME OneVersion, IInv, NEW p \in Procs, lastIngested > 0
    PROVE  ingestVersion = Version[p]
  <1>1. tables.writers = {ingestVersion} /\ tables.writers \subseteq Versions
    BY DEF IInv, StateMatchesLedger, TypeOK
  <1>2. PICK q \in Procs : ingestVersion = Version[q]
    BY <1>1 DEF Versions
  <1> QED BY <1>2 DEF OneVersion

(* What a step may do beside the database: verifiers end or take their snapshot, new
   catch-ups are decided while none runs, resets when history is ahead. *)
MayCatchUp(q) == cur'[q].node = "historyRange" => cur'[q] = cur[q] \/ (AllIdle /\ Row(cur'[q].from - 1))

MayReset(q) ==
    phase'[q] = "staged" /\ tx'[q].kind = "reset" =>
        \/ phase[q] = "staged" /\ tx[q].kind = "reset"
        \/ \E r \in Ledgers : r > lastIngested /\ Row(r)

MayVerify(q) ==
    \/ verifier'[q] \in {verifier[q], "idle"}
    \/ verifier[q] = "spawned" /\ verifier'[q] = "snapshot"

LEMMA QuietCalm ==
    ASSUME Calm, UNCHANGED dbVars, \A q \in Procs : MayCatchUp(q) /\ MayReset(q) /\ MayVerify(q)
    PROVE  Calm'
  <1>1. /\ UNCHANGED <<lastIngested, stateInvalid, tables, history>>
        /\ \A l : Row(l)' <=> Row(l)
    BY DEF dbVars, Row
  <1>2. PendingInv'
    <2>1. \A q \in Procs : cur'[q].node = "historyRange" => Row(cur'[q].from - 1)
      BY DEF MayCatchUp, Calm, PendingInv
    <2>2. \A q \in Procs : phase'[q] = "staged" /\ tx'[q].kind = "reset" => \E r \in Ledgers : r > lastIngested /\ Row(r)
      BY DEF MayReset, Calm, PendingInv
    <2> QED BY <1>1, <2>1, <2>2 DEF PendingInv
  <1>3. VerifierInv'
    BY <1>1 DEF VerifierInv, Calm, MayVerify
  <1>4. AllIdle => AllIdle'
    BY DEF AllIdle, MayVerify
  <1>5. SteadyInv'
    <2>1. CASE AllIdle
      BY <1>4, <2>1 DEF SteadyInv
    <2>2. CASE ~AllIdle
      BY <1>1, <2>2 DEF SteadyInv, Calm, MayCatchUp
    <2> QED BY <2>1, <2>2
  <1> QED BY <1>2, <1>3, <1>5 DEF Calm

(* The ways a run goes on. *)
LEMMA ReturnMay ==
    ASSUME TypeOK, NEW p \in Procs, NEW s, Return(p, s),
           s.node = "historyRange" => AllIdle /\ Row(s.from - 1)
    PROVE  \A q \in Procs : MayCatchUp(q) /\ MayReset(q)
  <1>1. cur'[p] = s /\ phase'[p] = "idle"
    BY DEF Return, TypeOK
  <1>2. \A q \in Procs : q # p => cur'[q] = cur[q] /\ phase'[q] = phase[q] /\ tx'[q] = tx[q]
    BY DEF Return, TypeOK
  <1> QED BY <1>1, <1>2 DEF MayCatchUp, MayReset

LEMMA StageMay ==
    ASSUME TypeOK, NEW p \in Procs, NEW t, Stage(p, t),
           t.kind = "reset" => \E r \in Ledgers : r > lastIngested /\ Row(r)
    PROVE  \A q \in Procs : MayCatchUp(q) /\ MayReset(q)
  <1>1. cur' = cur /\ phase'[p] = "staged" /\ tx'[p] = t
    BY DEF Stage, TypeOK
  <1>2. \A q \in Procs : q # p => phase'[q] = phase[q] /\ tx'[q] = tx[q]
    BY DEF Stage, TypeOK
  <1> QED BY <1>1, <1>2 DEF MayCatchUp, MayReset

LEMMA ReleaseMay ==
    ASSUME TypeOK, NEW p \in Procs, NEW from, ReleaseToPrepare(p, from)
    PROVE  \A q \in Procs : MayCatchUp(q) /\ MayReset(q)
  <1>1. cur' = cur /\ phase'[p] = "preparing"
    BY DEF ReleaseToPrepare, TypeOK
  <1>2. \A q \in Procs : q # p => phase'[q] = phase[q] /\ tx'[q] = tx[q]
    BY DEF ReleaseToPrepare, TypeOK
  <1> QED BY <1>1, <1>2 DEF MayCatchUp, MayReset

(* No transition but those of startState leads to a catch-up. *)
LEMMA OtherNodes ==
    /\ start.node = "start" /\ stop.node = "stop" /\ down.node = "down"
    /\ waitForCheckPoint.node = "waitForCheckpoint"
    /\ \A l : resume(l).node = "resume" /\ rebuild(l).node = "build" /\ startSuggestedCheckpoint(l).node = "start"
    /\ \A f, t : historyRange(f, t).node = "historyRange" /\ historyRange(f, t).from = f
    /\ \A s \in States : FailState(s).node # "historyRange"
  <1>1. /\ start.node = "start" /\ stop.node = "stop" /\ down.node = "down"
        /\ waitForCheckPoint.node = "waitForCheckpoint"
    BY DEF start, stop, down, waitForCheckPoint, state
  <1>2. \A s \in States : FailState(s).node # "historyRange"
    BY <1>1 DEF FailState
  <1> QED BY <1>1, <1>2 DEF resume, rebuild, startSuggestedCheckpoint, historyRange, state

(* startState.run decides on catch-ups while no state exists, or one that is ahead of
   history: then no verification is under way. *)
LEMMA StartMay ==
    ASSUME OneVersion, IInv, Calm, NEW p \in Procs,
           StartStop(p) \/ StartFromCheckpoint(p) \/ StartFromState(p) \/ WaitForCheckpoint(p)
    PROVE  \A q \in Procs : MayCatchUp(q) /\ MayReset(q)
  <1>1. TypeOK /\ lastIngested \in 0..MaxLedger /\ MaxLedger \in Nat /\ Ledgers = 1..MaxLedger
    BY BackendAssumption DEF IInv, TypeOK, Ledgers
  <1>2. CASE StartStop(p) \/ WaitForCheckpoint(p)
    BY <1>1, <1>2, OtherNodes, ReturnMay DEF StartStop, WaitForCheckpoint
  <1>3. CASE StartFromCheckpoint(p)
    <2>1. lastIngested = 0
      BY <1>1, <1>3, StateIsOurs DEF StartFromCheckpoint
    <2>2. AllIdle
      BY <2>1 DEF Calm, SteadyInv
    <2> DEFINE c == IF cur[p].from # 0 THEN cur[p].from ELSE archive
    <2>3. PICK h \in 0..MaxLedger :
             /\ IsLatestLedger(h)
             /\ Return(p, IF h = 0 \/ h = c THEN rebuild(c) ELSE IF h > c THEN waitForCheckPoint
                          ELSE historyRange(h + 1, c))
      BY <1>3 DEF StartFromCheckpoint
    <2> HIDE DEF c
    <2> DEFINE s == IF h = 0 \/ h = c THEN rebuild(c) ELSE IF h > c THEN waitForCheckPoint
                    ELSE historyRange(h + 1, c)
    <2>4. s.node = "historyRange" => h # 0 /\ s.from = h + 1
      BY OtherNodes
    <2>5. h # 0 => Row(h)
      BY <1>1, <2>3 DEF IsLatestLedger, Row
    <2>6. s.node = "historyRange" => Row(s.from - 1)
      <3> HIDE DEF s
      <3>1. (h + 1) - 1 = h
        BY <1>1
      <3> QED BY <2>4, <2>5, <3>1
    <2>7. Return(p, s)
      BY <2>3
    <2> HIDE DEF s
    <2> QED BY <1>1, <2>2, <2>6, <2>7, ReturnMay
  <1>4. CASE StartFromState(p)
    <2>1. PICK h \in 0..MaxLedger :
             /\ IsLatestLedger(h)
             /\ \/ h > lastIngested /\ Stage(p, Tx("reset", 0, 0))
                \/ h # 0 /\ h < lastIngested /\ Return(p, historyRange(h + 1, lastIngested))
                \/ h \in {0, lastIngested} /\ Return(p, resume(lastIngested))
      BY <1>4 DEF StartFromState
    <2>2. h # 0 => Row(h)
      BY <1>1, <2>1 DEF IsLatestLedger, Row
    <2>3. CASE h > lastIngested /\ Stage(p, Tx("reset", 0, 0))
      <3>1. h # 0 /\ h \in Ledgers
        BY <1>1, <2>3
      <3> QED BY <1>1, <2>2, <2>3, <3>1, StageMay
    <2>4. CASE h # 0 /\ h < lastIngested /\ Return(p, historyRange(h + 1, lastIngested))
      <3>1. ~Row(lastIngested)
        BY <1>1, <2>1, <2>4 DEF IsLatestLedger, Row
      <3>2. AllIdle
        BY <3>1 DEF Calm, SteadyInv
      <3>3. (h + 1) - 1 = h
        BY <1>1
      <3>4. historyRange(h + 1, lastIngested).from - 1 = h
        BY <3>3, OtherNodes
      <3> QED BY <1>1, <2>2, <2>4, <3>2, <3>4, ReturnMay
    <2>5. CASE Return(p, resume(lastIngested))
      BY <1>1, <2>5, OtherNodes, ReturnMay
    <2> QED BY <2>1, <2>3, <2>4, <2>5
  <1> QED BY <1>2, <1>3, <1>4

(* The other states of the machine. *)
LEMMA RunMay ==
    ASSUME IInv, NEW p \in Procs,
           \/ InvalidArguments(p) \/ BuildSkip(p) \/ BuildState(p) \/ ResumeGoBack(p) \/ ResumeLedger(p)
           \/ HistoryRange(p) \/ ReingestForced(p) \/ ProcessLedger(p)
           \/ PrepareRange(p) \/ PrepareRangeError(p) \/ RunError(p) \/ Crash(p)
    PROVE  \A q \in Procs : MayCatchUp(q) /\ MayReset(q)
  <1>1. TypeOK /\ cur[p] \in States /\ tx[p] \in Txs
    BY DEF IInv, TypeOK
  <1>2. FailState(cur[p]).node # "historyRange"
    BY <1>1, OtherNodes
  <1>3. CASE InvalidArguments(p) \/ BuildSkip(p) \/ ResumeGoBack(p) \/ PrepareRange(p)
             \/ PrepareRangeError(p) \/ Crash(p)
    <2>1. PICK s \in {start, FailState(cur[p]), down, startSuggestedCheckpoint(cur[p].from)} : Return(p, s)
      BY <1>3 DEF InvalidArguments, BuildSkip, ResumeGoBack, PrepareRange, PrepareRangeError, Crash
    <2>2. s.node # "historyRange"
      BY <1>2, <2>1, OtherNodes
    <2> QED BY <1>1, <2>1, <2>2, ReturnMay
  <1>4. CASE BuildState(p)
    <2>1. \/ ReleaseToPrepare(p, cur[p].from)
          \/ Stage(p, Tx("build", cur[p].from, cur[p].from))
          \/ Return(p, FailState(cur[p]))
      BY <1>4 DEF BuildState, BuildFromCheckpoint
    <2>2. Tx("build", cur[p].from, cur[p].from).kind # "reset"
      BY DEF Tx
    <2> QED BY <1>1, <1>2, <2>1, <2>2, ReturnMay, StageMay, ReleaseMay
  <1>5. CASE ResumeLedger(p)
    <2>1. \/ \E l : ReleaseToPrepare(p, l)
          \/ \E l : Stage(p, Tx("ledger", l, l))
          \/ Return(p, cur[p]) \/ \E l : Return(p, resume(l))
      BY <1>5 DEF ResumeLedger
    <2>2. cur[p].node = "resume" /\ \A l : Tx("ledger", l, l).kind # "reset" /\ resume(l).node # "historyRange"
      BY <1>5, OtherNodes DEF ResumeLedger, Running, Tx
    <2> QED BY <1>1, <2>1, <2>2, ReturnMay, StageMay, ReleaseMay
  <1>6. CASE HistoryRange(p)
    <2>1. \/ Return(p, start) \/ ReleaseToPrepare(p, cur[p].from)
          \/ Stage(p, Tx("history", cur[p].from, cur[p].from - 1))
      BY <1>6 DEF HistoryRange
    <2>2. Tx("history", cur[p].from, cur[p].from - 1).kind # "reset" /\ start.node # "historyRange"
      BY OtherNodes DEF Tx
    <2> QED BY <1>1, <2>1, <2>2, ReturnMay, StageMay, ReleaseMay
  <1>7. CASE ReingestForced(p)
    <2>1. \/ Stage(p, Tx("reingest", tx[p].from, tx[p].to))
          \/ Return(p, stop) \/ Return(p, cur[p])
      BY <1>7 DEF ReingestForced
    <2>2. /\ cur[p].node # "historyRange" /\ stop.node # "historyRange"
          /\ Tx("reingest", tx[p].from, tx[p].to).kind # "reset"
      BY <1>7, OtherNodes DEF ReingestForced, Running, Tx
    <2> QED BY <1>1, <2>1, <2>2, ReturnMay, StageMay
  <1>8. CASE ProcessLedger(p)
    <2>1. Stage(p, [tx[p] EXCEPT !.to = tx[p].to + 1]) \/ Return(p, start)
      BY <1>8 DEF ProcessLedger
    <2>2. [tx[p] EXCEPT !.to = tx[p].to + 1].kind # "reset" /\ start.node # "historyRange"
      BY <1>1, <1>8, OtherNodes DEF ProcessLedger, Txs
    <2> QED BY <1>1, <2>1, <2>2, ReturnMay, StageMay
  <1>9. CASE RunError(p)
    <2>1. PICK s : Return(p, s) /\ (s = FailState(cur[p]) \/ (s = cur[p] /\ cur[p].node = "reingest"))
      BY <1>9 DEF RunError, ReturnFailure
    <2>2. s.node # "historyRange"
      BY <1>2, <2>1
    <2> QED BY <1>1, <2>1, <2>2, ReturnMay
  <1> QED BY <1>3, <1>4, <1>5, <1>6, <1>7, <1>8, <1>9

(* The steps that begin a run, and those outside of it. *)
LEMMA OutsideMay ==
    ASSUME IInv, NEW p \in Procs, Launch(p) \/ Begin(p) \/ ReingestPrepare(p)
    PROVE  \A q \in Procs : MayCatchUp(q) /\ MayReset(q)
  <1>1. TypeOK
    BY DEF IInv
  <1>2. CASE Launch(p)
    <2>1. PICK c \in Commands[p] : cur' = [cur EXCEPT ![p] = c]
      BY <1>2 DEF Launch
    <2>2. c.node # "historyRange"
      BY <2>1, IngestionAssumption DEF start, buildGenesis, state
    <2>3. cur'[p] = c /\ \A q \in Procs : q # p => cur'[q] = cur[q]
      BY <1>1, <2>1 DEF TypeOK
    <2>4. UNCHANGED <<phase, tx>>
      BY <1>2 DEF Launch
    <2> QED BY <2>2, <2>3, <2>4 DEF MayCatchUp, MayReset
  <1>3. CASE Begin(p)
    <2>1. UNCHANGED <<cur, tx>> /\ \A q \in Procs : phase'[q] = phase[q] \/ phase'[q] = "locked"
      BY <1>1, <1>3 DEF Begin, TypeOK
    <2> QED BY <2>1 DEF MayCatchUp, MayReset
  <1>4. CASE ReingestPrepare(p)
    <2>1. CASE \E s \in {stop, cur[p]} : Return(p, s)
      <3>1. cur[p].node # "historyRange" /\ stop.node # "historyRange"
        BY <1>4, OtherNodes DEF ReingestPrepare
      <3> QED BY <1>1, <2>1, <3>1, ReturnMay
    <2>2. CASE phase' = [phase EXCEPT ![p] = "ranged"] /\ UNCHANGED cur
               /\ \A q \in Procs : q # p => tx'[q] = tx[q]
      <3>1. phase'[p] = "ranged" /\ \A q \in Procs : q # p => phase'[q] = phase[q]
        BY <1>1, <2>2 DEF TypeOK
      <3> QED BY <2>2, <3>1 DEF MayCatchUp, MayReset
    <2>3. \A t : tx' = [tx EXCEPT ![p] = t] => \A q \in Procs : q # p => tx'[q] = tx[q]
      BY <1>1 DEF TypeOK
    <2> QED BY <1>4, <2>1, <2>2, <2>3 DEF ReingestPrepare
  <1> QED BY <1>2, <1>3, <1>4

(* Rows written again below the top of history change nothing for a verification. *)
LEMMA SteadyKept ==
    ASSUME IInv, Calm, UNCHANGED <<verifier, lastIngested>>,
           \A r : Row(r) => Row(r)',
           \A x \in Ledgers : Row(x)' => \E r \in Ledgers : r >= x /\ Row(r),
           \A q \in Procs : cur'[q].node = "historyRange" => cur'[q] = cur[q]
    PROVE  SteadyInv'
  <1>1. CASE AllIdle
    BY <1>1 DEF SteadyInv, AllIdle
  <1>2. CASE ~AllIdle
    <2>1. /\ lastIngested > 0 /\ Row(lastIngested) /\ \A r \in Ledgers : Row(r) => r <= lastIngested
          /\ \A q \in Procs : cur[q].node = "historyRange" => cur[q].from <= lastIngested
      BY <1>2 DEF Calm, SteadyInv
    <2>2. lastIngested \in Nat /\ \A r \in Ledgers : r \in Nat
      BY DEF IInv, TypeOK, Ledgers
    <2>3. \A x \in Ledgers : Row(x)' => x <= lastIngested
      BY <2>1, <2>2
    <2> QED BY <2>1, <2>3 DEF SteadyInv
  <1> QED BY <1>1, <1>2

(* A commit of one version: a build or a reset meets no verification, a ledger moves
   the top of history with the state, and catch-ups end below it. *)
LEMMA CommitCalm ==
    ASSUME OneVersion, IInv, Calm, NEW p \in Procs, Commit(p) \/ CommitUnacknowledged(p)
    PROVE  Calm'
  <1> USE BackendAssumption
  <1>1. TypeOK /\ ProcInv /\ Complete(p) /\ CommitWrites(p) /\ StagedInv(p) /\ PhaseInv(p)
    BY DEF IInv, ProcInv, Commit, CommitUnacknowledged
  <1>2. /\ lastIngested \in 0..MaxLedger /\ MaxLedger \in Nat /\ Ledgers = 1..MaxLedger
        /\ cur \in [Procs -> States] /\ phase[p] = "staged" /\ tx[p].kind \in TxKinds /\ tx[p].kind # "none"
        /\ verifier \in [Procs -> {"idle", "spawned", "snapshot", "truncated", "failed"}]
    BY <1>1 DEF TypeOK, Ledgers, Complete, StagedInv, Txs
  <1>3. PICK s : Return(p, s) /\ s.node # "historyRange"
    <2>1. FailState(cur[p]).node # "historyRange"
      BY <1>2, OtherNodes
    <2>2. NextState(p).node # "historyRange"
      BY OtherNodes DEF NextState
    <2> QED BY <2>1, <2>2 DEF Commit, CommitUnacknowledged, ReturnFailure
  <1>4. /\ cur'[p].node # "historyRange" /\ phase'[p] = "idle"
        /\ \A q \in Procs : q # p => cur'[q] = cur[q] /\ phase'[q] = phase[q]
    BY <1>1, <1>3 DEF Return, TypeOK
  <1>5. \A q \in Procs : phase'[q] # "staged"
    <2>1. \A q \in Procs : phase[q] = "staged" => q = p
      BY <1>1, <1>2 DEF ProcInv, PhaseInv
    <2> QED BY <1>4, <2>1
  <1>6. \A r : Row(r) => Row(r)'
    BY <1>1, CommitKeepsRows DEF Row
  <1>7. PendingInv'
    <2>1. \A q \in Procs : cur'[q].node = "historyRange" => Row(cur'[q].from - 1)
      BY <1>4 DEF Calm, PendingInv
    <2> QED BY <1>5, <1>6, <2>1 DEF PendingInv
  <1>8. /\ ~stateInvalid' /\ ~tables'.corrupt
    <2>1. ~stateInvalid /\ ~tables.corrupt
      BY DEF Calm, VerifierInv
    <2>2. CASE tx[p].kind = "ledger"
      <3>1. tables.ledger = tx[p].to - 1
        BY <1>1, <1>2, <2>2 DEF StagedInv, IInv, StateMatchesLedger
      <3>2. stateInvalid' = stateInvalid /\ tables' = ApplyLedger(p, tx[p].to)
        BY <1>1, <2>2 DEF CommitWrites
      <3> QED BY <2>1, <3>1, <3>2 DEF ApplyLedger
    <2>3. CASE tx[p].kind = "build"
      BY <1>1, <2>3 DEF CommitWrites
    <2>4. CASE tx[p].kind \in {"reset", "history", "reingest"}
      BY <1>1, <2>1, <2>4 DEF CommitWrites
    <2> QED BY <1>2, <2>2, <2>3, <2>4 DEF TxKinds
  <1>9. CASE tx[p].kind = "build"
    <2>1. lastIngested = 0
      BY <1>1, <1>2, <1>9, StateIsOurs DEF StagedInv
    <2>2. AllIdle
      BY <2>1 DEF Calm, SteadyInv
    <2>3. verifier' = AfterCommit(p)
      BY <1>9 DEF Commit, CommitUnacknowledged, MaybeVerifyState
    <2>4. AllIdle'
      BY <1>9, <2>2, <2>3 DEF AfterCommit, AllIdle
    <2> QED BY <1>7, <1>8, <2>4 DEF Calm, SteadyInv, VerifierInv, AllIdle
  <1>10. CASE tx[p].kind \in {"reset", "history"}
    <2>1. AllIdle
      <3>1. CASE tx[p].kind = "reset"
        <4>1. PICK r \in Ledgers : r > lastIngested /\ Row(r)
          BY <1>2, <3>1 DEF Calm, PendingInv
        <4>2. ~(r <= lastIngested)
          BY <1>2, <4>1
        <4> QED BY <4>1, <4>2 DEF Calm, SteadyInv
      <3>2. CASE tx[p].kind = "history"
        <4>1. cur[p].node = "historyRange" /\ IsLatestLedger(cur[p].from - 1) /\ cur[p].from \in 0..MaxLedger
          BY <1>1, <1>2, <3>2 DEF StagedInv, States
        <4>2. Row(lastIngested) => lastIngested <= cur[p].from - 1
          BY <4>1 DEF IsLatestLedger, Row
        <4>3. ~(Row(lastIngested) /\ cur[p].from <= lastIngested)
          BY <1>2, <4>1, <4>2
        <4> QED BY <4>1, <4>3 DEF Calm, SteadyInv
      <3> QED BY <1>10, <3>1, <3>2
    <2>2. verifier' = verifier
      BY <1>10 DEF Commit, CommitUnacknowledged, MaybeVerifyState, AfterCommit
    <2>3. AllIdle'
      BY <2>1, <2>2 DEF AllIdle
    <2> QED BY <1>7, <1>8, <2>3 DEF Calm, SteadyInv, VerifierInv, AllIdle
  <1>11. CASE tx[p].kind = "ledger"
    <2>1. /\ tx[p].to = lastIngested + 1 /\ tx[p].to \in Ledgers
          /\ \A r \in Ledgers : Row(r) => r <= lastIngested
      BY <1>1, <1>2, <1>11 DEF StagedInv, Row
    <2>2. lastIngested' = tx[p].to /\ history' = WriteHistory(tx[p].to, tx[p].to, "live")
      BY <1>1, <1>11 DEF CommitWrites
    <2>3. \A r \in Ledgers : Row(r)' <=> r = tx[p].to \/ Row(r)
      <3>1. \A r \in Ledgers : r \in tx[p].to..tx[p].to <=> r = tx[p].to
        BY <1>2, <2>1
      <3> QED BY <2>2, <3>1 DEF Row, WriteHistory
    <2>4. lastIngested' > 0 /\ Row(lastIngested)' /\ \A r \in Ledgers : Row(r)' => r <= lastIngested'
      <3>1. \A r \in Ledgers : Row(r)' => r <= tx[p].to
        BY <1>2, <2>1, <2>3
      <3>2. lastIngested' \in Ledgers /\ history'[lastIngested'] # "none"
        BY <1>2, <2>1, <2>2 DEF WriteHistory
      <3> QED BY <1>2, <2>1, <2>2, <3>1, <3>2 DEF Row
    <2>5. ASSUME NEW q \in Procs, cur'[q].node = "historyRange" PROVE cur'[q].from <= lastIngested'
      <3>1. Row(cur'[q].from - 1) /\ cur'[q] = cur[q] /\ cur[q].from \in Nat
        BY <1>2, <1>4, <2>5 DEF Calm, PendingInv, States
      <3>2. cur'[q].from - 1 <= lastIngested
        BY <2>1, <3>1 DEF Row
      <3> QED BY <1>2, <2>1, <2>2, <3>1, <3>2
    <2>6. SteadyInv'
      BY <2>4, <2>5 DEF SteadyInv
    <2>7. verifier' = verifier \/ verifier' = [verifier EXCEPT ![p] = "spawned"]
      BY <1>11 DEF Commit, CommitUnacknowledged, MaybeVerifyState, AfterCommit
    <2>8. VerifierInv'
      BY <1>2, <1>8, <2>7 DEF Calm, VerifierInv
    <2> QED BY <1>7, <2>6, <2>8 DEF Calm
  <1>12. CASE tx[p].kind = "reingest"
    <2>1. UNCHANGED <<verifier, lastIngested>> /\ history' = WriteHistory(tx[p].from, tx[p].to, "reingested")
      BY <1>1, <1>12 DEF Commit, CommitUnacknowledged, MaybeVerifyState, AfterCommit, CommitWrites
    <2>2. /\ tx[p].to = cur[p].to /\ tx[p].from \in 2..cur[p].to /\ cur[p].to \in 0..MaxLedger
          /\ \E r \in Ledgers : r >= cur[p].to /\ Row(r)
      BY <1>1, <1>2, <1>12 DEF StagedInv, PhaseInv, Complete, States, Row
    <2>3. \A x \in Ledgers : Row(x)' => \E r \in Ledgers : r >= x /\ Row(r)
      <3>1. \A x \in Ledgers : Row(x)' => Row(x) \/ x <= cur[p].to
        BY <1>2, <2>1, <2>2 DEF Row, WriteHistory
      <3> QED BY <1>2, <2>2, <3>1
    <2>4. SteadyInv'
      BY <1>2, <1>4, <1>6, <2>1, <2>3, SteadyKept
    <2>5. VerifierInv'
      BY <1>8, <2>1 DEF Calm, VerifierInv
    <2> QED BY <1>7, <2>4, <2>5 DEF Calm
  <1> QED BY <1>2, <1>9, <1>10, <1>11, <1>12 DEF TxKinds

(* A ledger reingested without the lock is below the top of history. *)
LEMMA ReingestCalm ==
    ASSUME IInv, Calm, NEW p \in Procs, ReingestLedger(p)
    PROVE  Calm'
  <1> USE BackendAssumption
  <1>1. /\ TypeOK /\ phase[p] = "ranged" /\ cur[p].node = "reingest" /\ cur[p].to \in 0..MaxLedger
        /\ tx[p].to \in Nat /\ MaxLedger \in Nat /\ Ledgers = 1..MaxLedger
        /\ \E r \in Ledgers : r >= cur[p].to /\ Row(r)
    <2>1. TypeOK /\ PhaseInv(p) /\ phase[p] = "ranged" /\ cur[p] \in States /\ tx[p] \in Txs
      BY DEF IInv, ProcInv, TypeOK, ReingestLedger
    <2>2. cur[p].to \in 0..MaxLedger /\ tx[p].to \in Nat /\ MaxLedger \in Nat /\ Ledgers = 1..MaxLedger
      BY <2>1 DEF States, Txs, Ledgers
    <2>3. cur[p].node = "reingest"
      BY <2>1 DEF PhaseInv
    <2>4. \E r \in Ledgers : r >= cur[p].to /\ Row(r)
      BY <2>1, <2>3 DEF PhaseInv, Row
    <2> QED BY <2>1, <2>2, <2>3, <2>4
  <1>2. UNCHANGED <<lastIngested, ingestVersion, stateInvalid, tables, verifier>>
    BY DEF ReingestLedger
  <1>3. CASE Return(p, stop) /\ UNCHANGED history
    <2>1. \A q \in Procs : MayCatchUp(q) /\ MayReset(q)
      BY <1>1, <1>3, OtherNodes, ReturnMay
    <2>2. \A q \in Procs : MayVerify(q)
      BY <1>2 DEF MayVerify
    <2> QED BY <1>2, <1>3, <2>1, <2>2, QuietCalm DEF dbVars
  <1>4. ASSUME tx[p].to < cur[p].to,
               history' = WriteHistory(tx[p].to + 1, tx[p].to + 1, "reingested"),
               tx' = [tx EXCEPT ![p] = Tx("none", tx[p].from, tx[p].to + 1)],
               UNCHANGED <<cur, phase, lock>>
        PROVE  Calm'
    <2>1. \A r : Row(r) => Row(r)'
      BY <1>4 DEF Row, WriteHistory
    <2>2. \A x \in Ledgers : Row(x)' => \E r \in Ledgers : r >= x /\ Row(r)
      <3>1. \A x \in Ledgers : Row(x)' => Row(x) \/ x <= cur[p].to
        BY <1>1, <1>4 DEF Row, WriteHistory
      <3> QED BY <1>1, <3>1
    <2>3. SteadyInv'
      BY <1>2, <1>4, <2>1, <2>2, SteadyKept
    <2>4. VerifierInv'
      BY <1>2 DEF Calm, VerifierInv
    <2>5. \A q \in Procs : phase'[q] = "staged" => phase[q] = "staged" /\ tx'[q] = tx[q]
      BY <1>1, <1>4 DEF TypeOK
    <2>6. PendingInv'
      BY <1>2, <1>4, <2>1, <2>5 DEF Calm, PendingInv
    <2> QED BY <2>3, <2>4, <2>6 DEF Calm
  <1> QED BY <1>3, <1>4 DEF ReingestLedger

(* A verification of tables that are right, and never truncated, finds no error. *)
LEMMA VerifierCalm ==
    ASSUME IInv, Calm, NEW p \in Procs, Verification(p)
    PROVE  Calm'
  <1>1. TypeOK /\ verifier[p] \in {"idle", "spawned", "snapshot"} /\ ~tables.corrupt
    BY DEF IInv, Calm, VerifierInv
  <1>2. VerifierBegin(p) \/ VerifierCompare(p)
    BY <1>1 DEF Verification, MarkStateInvalid
  <1>3. UNCHANGED <<cur, phase, tx>> /\ UNCHANGED dbVars
    BY <1>2 DEF VerifierBegin, VerifierCompare
  <1>4. \E v : verifier' = [verifier EXCEPT ![p] = v] /\ (v = "idle" \/ (verifier[p] = "spawned" /\ v = "snapshot"))
    BY <1>1, <1>2 DEF VerifierBegin, VerifierCompare
  <1>5. \A q \in Procs : MayVerify(q)
    BY <1>1, <1>4 DEF MayVerify, TypeOK
  <1>6. \A q \in Procs : MayCatchUp(q) /\ MayReset(q)
    BY <1>3 DEF MayCatchUp, MayReset
  <1> QED BY <1>3, <1>5, <1>6, QuietCalm

LEMMA NextCalm ==
    ASSUME OneVersion, IInv, Calm, [Next]_vars
    PROVE  Calm'
  <1>1. TypeOK
    BY DEF IInv
  <1>2. CASE UNCHANGED vars \/ PublishCheckpoint \/ \E p \in Procs : CoreDelivers(p) \/ StreamBreaks(p)
    <2>1. UNCHANGED <<cur, phase, tx, verifier>> /\ UNCHANGED dbVars
      BY <1>2 DEF vars, PublishCheckpoint, CoreDelivers, StreamBreaks
    <2> QED BY <2>1, QuietCalm DEF MayCatchUp, MayReset, MayVerify
  <1>3. ASSUME NEW p \in Procs,
               \/ Launch(p) \/ Begin(p) \/ InvalidArguments(p) \/ RunError(p) \/ Crash(p)
               \/ PrepareRange(p) \/ PrepareRangeError(p) \/ ReingestPrepare(p)
               \/ StartStop(p) \/ StartFromCheckpoint(p) \/ StartFromState(p) \/ WaitForCheckpoint(p)
               \/ BuildSkip(p) \/ BuildState(p) \/ ResumeGoBack(p) \/ ResumeLedger(p)
               \/ HistoryRange(p) \/ ReingestForced(p) \/ ProcessLedger(p)
        PROVE  Calm'
    <2>1. \A q \in Procs : MayCatchUp(q) /\ MayReset(q)
      BY <1>3, StartMay, RunMay, OutsideMay
    <2>2. UNCHANGED dbVars
      BY <1>3 DEF Launch, Begin, InvalidArguments, RunError, Crash, PrepareRange, PrepareRangeError,
                  ReingestPrepare, StartStop, StartFromCheckpoint, StartFromState, WaitForCheckpoint,
                  BuildSkip, BuildState, ResumeGoBack, ResumeLedger, HistoryRange, ReingestForced, ProcessLedger
    <2>3. CASE Crash(p)
      <3>1. \A q \in Procs : verifier'[q] \in {verifier[q], "idle"}
        BY <1>1, <2>3 DEF Crash, TypeOK
      <3> QED BY <2>1, <2>2, <3>1, QuietCalm DEF MayVerify
    <2>4. CASE ~Crash(p)
      <3>1. verifier' = verifier
        BY <1>3, <2>4 DEF Launch, Begin, InvalidArguments, RunError, PrepareRange, PrepareRangeError,
                  ReingestPrepare, StartStop, StartFromCheckpoint, StartFromState, WaitForCheckpoint,
                  BuildSkip, BuildState, ResumeGoBack, ResumeLedger, HistoryRange, ReingestForced, ProcessLedger
      <3> QED BY <2>1, <2>2, <3>1, QuietCalm DEF MayVerify
    <2> QED BY <2>3, <2>4
  <1>4. ASSUME NEW p \in Procs, Commit(p) \/ CommitUnacknowledged(p) \/ ReingestLedger(p) \/ Verification(p)
        PROVE  Calm'
    BY <1>4, CommitCalm, ReingestCalm, VerifierCalm
  <1> QED BY <1>2, <1>3, <1>4 DEF Next, Step, Failure

LEMMA InitCalm == Init => Calm
  <1> SUFFICES ASSUME Init PROVE Calm
    OBVIOUS
  <1>1. \A q \in Procs : cur[q] = down /\ phase[q] = "idle" /\ verifier[q] = "idle"
    BY DEF Init
  <1>2. ~tables.corrupt /\ ~stateInvalid
    BY DEF Init, EmptyTables
  <1> QED BY <1>1, <1>2, OtherNodes DEF Calm, PendingInv, SteadyInv, VerifierInv, AllIdle

(* While all processes run one version, no verification condemns a state that is
   right (verifyState, markStateInvalid), whatever is reset, rebuilt, caught up,
   reingested or crashes around it: the TRUNCATE of a build never meets a snapshot. *)
THEOREM RightStateIsNotCondemned ==
    ASSUME OneVersion
    PROVE  Spec => []OnlyWrongStateIsInvalid
  <1>1. IInv /\ Calm /\ [Next]_vars => Calm'
    BY NextCalm
  <1>2. Calm => OnlyWrongStateIsInvalid
    BY DEF Calm, VerifierInv, OnlyWrongStateIsInvalid
  <1> QED BY <1>1, <1>2, InitCalm, Invariance, PTL DEF Spec
=============================================================================
