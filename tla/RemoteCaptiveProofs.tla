------------------------ MODULE RemoteCaptiveProofs ------------------------
(***************************************************************************)
(* Proofs about RemoteCaptive for any number of goroutines, ranges and     *)
(* faults.                                                                 *)
(***************************************************************************)
EXTENDS RemoteCaptive, TLAPS

(* What the client works on is a range it asked for, so the server never takes NoRange
   for a request. *)
ClientInv == client.at # "idle" => client.range \in Ranges

(* The inductive invariant. *)
IInv == TypeOK /\ ClientInv /\ ShutdownIsFinal

WorkerRecord == [at : {"free", "start", "opening", "done"}, range : Ranges \cup {NoRange}, ok : BOOLEAN]

(* The fields of a range are ledgers. *)
LEMMA RangeFields ==
    ASSUME NEW r \in Ranges \cup {NoRange}
    PROVE  r.from \in {0} \cup 2..MaxLedger /\ r.to \in 0..MaxLedger
  BY RemoteAssumption DEF NoRange

-----------------------------------------------------------------------------
(* The server.                                                             *)

(* PrepareRange keeps the types, and does nothing once the context is done. *)
LEMMA ServerPrepareTypes ==
    ASSUME TypeOK, NEW r \in Ranges, ServerPrepare(r) \/ UNCHANGED <<active, workers>>
    PROVE  /\ active' \in [range : Ranges \cup {NoRange}, valid : BOOLEAN, ready : BOOLEAN]
           /\ active'.valid => active'.range \in Ranges
           /\ workers' \in [Workers -> WorkerRecord]
           /\ server # "up" => workers' = workers
  <1>1. CASE UNCHANGED <<active, workers>>
    BY <1>1 DEF TypeOK, WorkerRecord
  <1>2. CASE server = "up" /\ active' = [range |-> r, valid |-> TRUE, ready |-> FALSE]
             /\ \E w \in Workers :
                  workers' = [workers EXCEPT ![w] = [Free EXCEPT !.at = "start", !.range = r]]
    <2>1. [Free EXCEPT !.at = "start", !.range = r] \in WorkerRecord
      BY DEF Free, WorkerRecord
    <2> QED BY <1>2, <2>1 DEF TypeOK, WorkerRecord
  <1> QED BY <1>1, <1>2 DEF ServerPrepare

(* The goroutines of startPrepareRange: one that is at work is not Free, so Shutdown is
   not over and may still wait for it. *)
LEMMA WorkerStep ==
    ASSUME IInv, NEW w \in Workers, Worker(w)
    PROVE  IInv'
  <1> USE DEF IInv
  <1>1. workers[w] \in WorkerRecord /\ workers[w].range \in Ranges \cup {NoRange}
    BY DEF TypeOK, WorkerRecord
  <1>2. workers[w].at # "free"
    BY DEF Worker, CoreBegin, CoreOpen, FinishPrepare
  <1>3. server # "down"
    BY <1>2 DEF ShutdownIsFinal, Free
  <1>4. UNCHANGED <<server, client, result>>
    BY DEF Worker, CoreBegin, CoreOpen, FinishPrepare
  <1>5. ClientInv' /\ ShutdownIsFinal'
    BY <1>3, <1>4 DEF ClientInv, ShutdownIsFinal
  <1>6. CASE CoreBegin(w)
    <2>1. workers' \in [Workers -> WorkerRecord]
      BY <1>1, <1>6 DEF CoreBegin, TypeOK, WorkerRecord
    <2>2. session' \in [next : {0} \cup 2..MaxLedger + 1, last : 0..MaxLedger]
      BY <1>6, RemoteAssumption DEF CoreBegin, TypeOK, Closed
    <2> QED BY <1>4, <1>5, <1>6, <2>1, <2>2 DEF CoreBegin, TypeOK, WorkerRecord
  <1>7. CASE CoreOpen(w)
    <2>1. [next |-> workers[w].range.from, last |-> workers[w].range.to]
            \in [next : {0} \cup 2..MaxLedger + 1, last : 0..MaxLedger]
      BY <1>1, RangeFields, RemoteAssumption
    <2>2. session' \in [next : {0} \cup 2..MaxLedger + 1, last : 0..MaxLedger]
      BY <1>7, <2>1 DEF CoreOpen, TypeOK
    <2>3. faults' \in 0..MaxFaults
      BY <1>7, RemoteAssumption DEF CoreOpen, Fault, TypeOK
    <2>4. workers' \in [Workers -> WorkerRecord]
      BY <1>1, <1>7 DEF CoreOpen, TypeOK, WorkerRecord
    <2> QED BY <1>4, <1>5, <1>7, <2>2, <2>3, <2>4 DEF CoreOpen, TypeOK, WorkerRecord
  <1>8. CASE FinishPrepare(w)
    <2>1. workers' \in [Workers -> WorkerRecord]
      BY <1>8 DEF FinishPrepare, TypeOK, WorkerRecord, Free
    <2>2. /\ active' \in [range : Ranges \cup {NoRange}, valid : BOOLEAN, ready : BOOLEAN]
          /\ active'.valid => active'.range \in Ranges
      BY <1>1, <1>8 DEF FinishPrepare, TypeOK, WorkerRecord
    <2> QED BY <1>4, <1>5, <1>8, <2>1, <2>2 DEF FinishPrepare, TypeOK, WorkerRecord
  <1> QED BY <1>6, <1>7, <1>8 DEF Worker

(* Shutdown closes captive core when no goroutine is left. *)
LEMMA ShutdownStep ==
    ASSUME IInv, ShutdownCancel \/ ShutdownClose
    PROVE  IInv'
  BY RemoteAssumption
  DEF IInv, TypeOK, ClientInv, ShutdownIsFinal, ShutdownCancel, ShutdownClose, Closed

-----------------------------------------------------------------------------
(* The client.                                                             *)

(* The requests: a server that is down answers them with an error. *)
LEMMA RequestStep ==
    ASSUME IInv,
           Poll \/ PollFails \/ \E r \in Ranges : CallIsPrepared(r)
    PROVE  IInv'
  <1> USE DEF IInv
  <1>1. PICK r \in Ranges : ServerPrepare(r) \/ UNCHANGED <<active, workers>>
    BY DEF Poll, PollFails, CallIsPrepared, ClientInv
  <1>2. /\ active' \in [range : Ranges \cup {NoRange}, valid : BOOLEAN, ready : BOOLEAN]
        /\ active'.valid => active'.range \in Ranges
        /\ workers' \in [Workers -> WorkerRecord]
        /\ server # "up" => workers' = workers
    BY <1>1, ServerPrepareTypes
  <1>3. UNCHANGED <<session, server>>
    BY DEF Poll, PollFails, CallIsPrepared
  <1>4. faults' \in 0..MaxFaults
    BY RemoteAssumption DEF Poll, PollFails, CallIsPrepared, Fault, TypeOK
  <1>5. /\ client' \in [at : {"idle", "polling", "prepared", "getting"}, range : Ranges \cup {NoRange},
                        seq : 0..MaxLedger, cancel : BOOLEAN, closed : BOOLEAN]
        /\ ClientInv'
        /\ result' \in {"none", "ok", "found", "missing", "error"}
    <2>1. CASE Poll
      BY <2>1 DEF Poll, TypeOK, ClientInv
    <2>2. CASE PollFails \/ \E s \in Ranges : CallIsPrepared(s)
      BY <2>2 DEF PollFails, CallIsPrepared, TypeOK, ClientInv
    <2> QED BY <2>1, <2>2
  <1>6. TypeOK'
    BY <1>2, <1>3, <1>4, <1>5 DEF TypeOK, WorkerRecord
  <1>7. ShutdownIsFinal'
    BY <1>2, <1>3 DEF ShutdownIsFinal
  <1> QED BY <1>5, <1>6, <1>7

(* The calls that stay in the client. *)
LEMMA CallStep ==
    ASSUME IInv,
           \/ \E r \in Ranges : CallPrepareRange(r)
           \/ \E seq \in 2..MaxLedger : CallGetLedger(seq)
           \/ CallClose
    PROVE  IInv'
  <1> USE DEF IInv
  <1>1. UNCHANGED <<active, workers, session, server, faults>>
    BY DEF CallPrepareRange, CallGetLedger, CallClose
  <1>2. ShutdownIsFinal'
    BY <1>1 DEF ShutdownIsFinal
  <1>3. CASE \E r \in Ranges : CallPrepareRange(r)
    BY <1>1, <1>2, <1>3 DEF CallPrepareRange, TypeOK, ClientInv
  <1>4. CASE \E seq \in 2..MaxLedger : CallGetLedger(seq)
    <2>1. PICK seq \in 2..MaxLedger : CallGetLedger(seq)
      BY <1>4
    <2>2. seq \in 0..MaxLedger
      BY RemoteAssumption
    <2>3. client' \in [at : {"idle", "polling", "prepared", "getting"}, range : Ranges \cup {NoRange},
                       seq : 0..MaxLedger, cancel : BOOLEAN, closed : BOOLEAN]
      BY <2>1, <2>2 DEF CallGetLedger, TypeOK
    <2>4. ClientInv' /\ result' \in {"none", "ok", "found", "missing", "error"}
      BY <2>1 DEF CallGetLedger, TypeOK, ClientInv
    <2> QED BY <1>1, <1>2, <2>3, <2>4 DEF TypeOK
  <1>5. CASE CallClose
    BY <1>1, <1>2, <1>5 DEF CallClose, TypeOK, ClientInv
  <1> QED BY <1>3, <1>4, <1>5

(* GetLedger moves the session on or closes it; it never opens one. *)
LEMMA GetLedgerStep ==
    ASSUME IInv, GetLedgerReturns
    PROVE  IInv'
  <1> USE DEF IInv
  <1>1. UNCHANGED <<active, workers, server>> /\ client.at = "getting"
    BY DEF GetLedgerReturns
  <1>2. session' \in [next : {0} \cup 2..MaxLedger + 1, last : 0..MaxLedger]
    <2>1. client.seq \in 0..MaxLedger /\ session.next \in {0} \cup 2..MaxLedger + 1
      BY DEF TypeOK
    <2>2. CASE session' = session \/ session' = Closed
      BY <2>2, RemoteAssumption DEF TypeOK, Closed
    <2>3. CASE /\ session.next # 0 /\ client.seq >= session.next
               /\ session' = [session EXCEPT !.next = client.seq + 1]
      <3>1. client.seq + 1 \in 2..MaxLedger + 1
        BY <2>1, <2>3, RemoteAssumption
      <3> QED BY <2>3, <3>1 DEF TypeOK
    <2> QED BY <2>2, <2>3 DEF GetLedgerReturns
  <1>3. faults' \in 0..MaxFaults
    BY RemoteAssumption DEF GetLedgerReturns, Fault, TypeOK
  <1>4. /\ client' \in [at : {"idle", "polling", "prepared", "getting"}, range : Ranges \cup {NoRange},
                        seq : 0..MaxLedger, cancel : BOOLEAN, closed : BOOLEAN]
        /\ ClientInv'
        /\ result' \in {"none", "ok", "found", "missing", "error"}
    BY DEF GetLedgerReturns, TypeOK, ClientInv
  <1>5. session = Closed => session' = Closed
    BY DEF GetLedgerReturns, Closed
  <1>6. ShutdownIsFinal'
    BY <1>1, <1>5 DEF ShutdownIsFinal
  <1> QED BY <1>1, <1>2, <1>3, <1>4, <1>6 DEF TypeOK

-----------------------------------------------------------------------------
(* The server starts up with captive core closed. *)
LEMMA InitInv == Init => IInv
  BY RemoteAssumption
  DEF Init, IInv, TypeOK, ClientInv, ShutdownIsFinal, NoRange, Closed, Free

LEMMA NextInv == IInv /\ [Next]_vars => IInv'
  <1> SUFFICES ASSUME IInv, [Next]_vars PROVE IInv'
    OBVIOUS
  <1>1. CASE UNCHANGED vars
    BY <1>1 DEF vars, IInv, TypeOK, ClientInv, ShutdownIsFinal
  <1>2. CASE \E w \in Workers : Worker(w)
    BY <1>2, WorkerStep
  <1>3. CASE ShutdownCancel \/ ShutdownClose
    BY <1>3, ShutdownStep
  <1>4. CASE Poll \/ PollFails \/ \E r \in Ranges : CallIsPrepared(r)
    BY <1>4, RequestStep
  <1>5. CASE \/ \E r \in Ranges : CallPrepareRange(r)
             \/ \E seq \in 2..MaxLedger : CallGetLedger(seq)
             \/ CallClose
    BY <1>5, CallStep
  <1>6. CASE GetLedgerReturns
    BY <1>6, GetLedgerStep
  <1> QED BY <1>1, <1>2, <1>3, <1>4, <1>5, <1>6 DEF Next

(* Every range the server works on is one the client asked for, whatever requests are
   lost and however the goroutines of PrepareRange interleave. *)
THEOREM TypeCorrect == Spec => []TypeOK
  <1>1. IInv => TypeOK
    BY DEF IInv
  <1> QED BY InitInv, NextInv, <1>1, PTL DEF Spec

(* After Shutdown no goroutine of startPrepareRange is left and no session of captive core
   is open, for any number of goroutines that were at work when the context was
   canceled. *)
THEOREM ShutdownFinal == Spec => []ShutdownIsFinal
  <1>1. IInv => ShutdownIsFinal
    BY DEF IInv
  <1> QED BY InitInv, NextInv, <1>1, PTL DEF Spec
=============================================================================
