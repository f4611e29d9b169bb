--------------------------- MODULE RemoteCaptive ---------------------------
(***************************************************************************)
(* The captive core server (exp/services/captivecore/internal/api.go) and  *)
(* its client (ingest/ledgerbackend/remote_captive_core.go).  PrepareRange *)
(* of the server starts a goroutine that prepares the range on the one     *)
(* captive core and answers whether it is ready; the client polls.  The    *)
(* calls to captive core hold no lock of their own: goroutines of earlier  *)
(* ranges may still be at work.                                            *)
(*                                                                         *)
(* Captive core is its session: the next ledger, 0 when closed, and the    *)
(* last one of a bounded range.  Overlapping PrepareRange calls on it race *)
(* for its runner: the later one fails ("runner already started"), or both *)
(* saw no runner and the one that assigns the fields last has the session. *)
(***************************************************************************)
EXTENDS Integers, FiniteSets

CONSTANTS
    Ranges,     \* ranges the client asks for: [from, to], to = 0 when unbounded
    Workers,    \* goroutines of startPrepareRange, a bound on those at work at once
    MaxLedger,  \* bound on ledgers
    MaxFaults   \* bound on failed preparations, sessions and requests

ASSUME RemoteAssumption ==
    /\ Ranges \subseteq [from : 2..MaxLedger, to : 0..MaxLedger]
    /\ MaxLedger \in Nat /\ MaxFaults \in Nat

VARIABLES
    active,     \* activeRequest of the server: ledgerRange, valid, ready
    workers,    \* the goroutines: where, for which range, with what result
    session,    \* captive core
    server,     \* "up", "canceled" (ctx is done) or "down" (Shutdown is over)
    client,     \* what the client is doing, for which range, and its cancel
    result,     \* of its last call
    faults

vars == <<active, workers, session, server, client, result, faults>>

NoRange == [from |-> 0, to |-> 0]
Closed == [next |-> 0, last |-> 0]
Free == [at |-> "free", range |-> NoRange, ok |-> FALSE]

(* Types; every range the server works on is one the client asked for. *)
TypeOK ==
    /\ active \in [range : Ranges \cup {NoRange}, valid : BOOLEAN, ready : BOOLEAN]
    /\ active.valid => active.range \in Ranges
    /\ workers \in [Workers -> [at : {"free", "start", "opening", "done"},
                                range : Ranges \cup {NoRange}, ok : BOOLEAN]]
    /\ session \in [next : {0} \cup 2..MaxLedger + 1, last : 0..MaxLedger]
    /\ server \in {"up", "canceled", "down"}
    /\ client \in [at : {"idle", "polling", "prepared", "getting"}, range : Ranges \cup {NoRange},
                   seq : 0..MaxLedger, cancel : BOOLEAN, closed : BOOLEAN]
    /\ result \in {"none", "ok", "found", "missing", "error"}
    /\ faults \in 0..MaxFaults

Init ==
    /\ active = [range |-> NoRange, valid |-> FALSE, ready |-> FALSE]
    /\ workers = [w \in Workers |-> Free]
    /\ session = Closed
    /\ server = "up"
    /\ client = [at |-> "idle", range |-> NoRange, seq |-> 0, cancel |-> FALSE, closed |-> FALSE]
    /\ result = "none" /\ faults = 0

Fault == faults < MaxFaults /\ faults' = faults + 1

(* GetLedger holds the read lock of activeRequest while captive core works. *)
Unlocked == client.at # "getting"

-----------------------------------------------------------------------------
(* The server.                                                             *)

Contains(r, other) ==
    /\ r.from <= other.from
    /\ r.to # 0 => other.to # 0 /\ r.to >= other.to

(* Mutant of ServerPrepare: the context is not looked at. *)
ServerPrepareUnchecked(r) ==
    IF active.valid /\ Contains(active.range, r) THEN UNCHANGED <<active, workers>>
    ELSE /\ active' = [range |-> r, valid |-> TRUE, ready |-> FALSE]
         /\ \E w \in Workers : workers[w] = Free
                               /\ workers' = [workers EXCEPT ![w] = [Free EXCEPT !.at = "start", !.range = r]]

(* PrepareRange: a range that is not in the active one replaces it, and a goroutine is
   started for it. *)
ServerPrepare(r) ==
    IF server # "up" \/ (active.valid /\ Contains(active.range, r)) THEN UNCHANGED <<active, workers>>
    ELSE /\ active' = [range |-> r, valid |-> TRUE, ready |-> FALSE]
         /\ \E w \in Workers : workers[w] = Free
                               /\ workers' = [workers EXCEPT ![w] = [Free EXCEPT !.at = "start", !.range = r]]

IsPrepared(r) ==
    /\ session.next # 0 /\ session.next <= r.from
    /\ session.last # 0 => r.to # 0 /\ session.next <= session.last

(* core.PrepareRange: nothing to do, or the old session is closed ... *)
CoreBegin(w) ==
    /\ workers[w].at = "start"
    /\ IF IsPrepared(workers[w].range)
       THEN workers' = [workers EXCEPT ![w].at = "done", ![w].ok = TRUE] /\ UNCHANGED session
       ELSE workers' = [workers EXCEPT ![w].at = "opening"] /\ session' = Closed
    /\ UNCHANGED <<active, server, client, result, faults>>

(* Mutant of CoreOpen: the stream begins one ledger early. *)
CoreOpenEarly(w) ==
    /\ workers[w].at = "opening"
    /\ session' = [next |-> workers[w].range.from - 1, last |-> workers[w].range.to]
    /\ workers' = [workers EXCEPT ![w].at = "done", ![w].ok = TRUE]
    /\ UNCHANGED <<active, server, client, result, faults>>

(* ... and a new one is opened, or fails to: by itself, or because another goroutine has
   started the runner meanwhile. *)
CoreOpen(w) ==
    /\ workers[w].at = "opening"
    /\ \/ /\ session' = [next |-> workers[w].range.from, last |-> workers[w].range.to]
          /\ workers' = [workers EXCEPT ![w].at = "done", ![w].ok = TRUE]
          /\ UNCHANGED faults
       \/ /\ session # Closed
          /\ workers' = [workers EXCEPT ![w].at = "done"]
          /\ UNCHANGED <<session, faults>>
       \/ /\ Fault
          /\ workers' = [workers EXCEPT ![w].at = "done"]
          /\ UNCHANGED session
    /\ UNCHANGED <<active, server, client, result>>

(* Mutant of FinishPrepare: a failure leaves the request valid. *)
FinishPrepareKept(w) ==
    /\ workers[w].at = "done" /\ Unlocked
    /\ workers' = [workers EXCEPT ![w] = Free]
    /\ active' = IF server = "up" /\ active.valid /\ active.range = workers[w].range /\ workers[w].ok
                 THEN [active EXCEPT !.ready = TRUE] ELSE active
    /\ UNCHANGED <<session, server, client, result, faults>>

(* The end of startPrepareRange; the result of a range that is no longer active, or is
   ready already, is ignored. *)
FinishPrepare(w) ==
    LET relevant == server = "up" /\ active.valid /\ active.range = workers[w].range /\ ~active.ready
    IN /\ workers[w].at = "done" /\ Unlocked
       /\ workers' = [workers EXCEPT ![w] = Free]
       /\ active' = IF ~relevant THEN active
                    ELSE [active EXCEPT !.valid = workers[w].ok, !.ready = workers[w].ok]
       /\ UNCHANGED <<session, server, client, result, faults>>

(* Shutdown: cancel under the lock, wait for the goroutines, close captive core. *)
ShutdownCancel ==
    /\ server = "up" /\ Unlocked
    /\ server' = "canceled"
    /\ UNCHANGED <<active, workers, session, client, result, faults>>

ShutdownClose ==
    /\ server = "canceled" /\ \A w \in Workers : workers[w] = Free
    /\ server' = "down" /\ session' = Closed
    /\ UNCHANGED <<active, workers, client, result, faults>>

-----------------------------------------------------------------------------
(* The client.                                                             *)

(* PrepareRange begins: createContext has a value receiver, so the cancel function it
   stores is lost with the copy. *)
CallPrepareRange(r) ==
    /\ client.at \in {"idle", "prepared"}
    /\ client' = [client EXCEPT !.at = "polling", !.range = r, !.closed = FALSE]
    /\ UNCHANGED <<active, workers, session, server, result, faults>>

Ready(r) == active.valid /\ active.ready /\ Contains(active.range, r)

(* One POST /prepare-range of the polling loop. *)
Poll ==
    /\ client.at = "polling"
    /\ ServerPrepare(client.range)
    /\ IF server # "up" THEN client' = [client EXCEPT !.at = "idle"] /\ result' = "error"
       ELSE IF Ready(client.range) THEN client' = [client EXCEPT !.at = "prepared"] /\ result' = "ok"
       ELSE UNCHANGED <<client, result>>
    /\ UNCHANGED <<session, server, faults>>

(* The request or its response is lost; PrepareRange returns the error. *)
PollFails ==
    /\ client.at = "polling" /\ Fault
    /\ ServerPrepare(client.range) \/ UNCHANGED <<active, workers>>
    /\ client' = [client EXCEPT !.at = "idle"] /\ result' = "error"
    /\ UNCHANGED <<session, server>>

(* IsPrepared posts the same request. *)
CallIsPrepared(r) ==
    /\ client.at \in {"idle", "prepared"}
    /\ ServerPrepare(r)
    /\ result' = IF server # "up" THEN "error" ELSE IF Ready(r) THEN "ok" ELSE "missing"
    /\ client' = [client EXCEPT !.at = "idle"]
    /\ UNCHANGED <<session, server, faults>>

(* Close, from another goroutine: if there is a cancel function the loop ends by
   ctx.Done. *)
CallClose ==
    /\ client.at = "polling" /\ ~client.closed
    /\ client' = [client EXCEPT !.closed = TRUE, !.at = IF client.cancel THEN "idle" ELSE @]
    /\ UNCHANGED <<active, workers, session, server, result, faults>>

(* GetLedger of a ledger of the prepared range. *)
CallGetLedger(seq) ==
    /\ client.at = "prepared"
    /\ seq >= client.range.from
    /\ client.range.to # 0 => seq <= client.range.to
    /\ IF active.valid /\ active.ready
       THEN client' = [client EXCEPT !.at = "getting", !.seq = seq] /\ UNCHANGED result
       ELSE client' = [client EXCEPT !.at = "idle"] /\ result' = "error"
    /\ UNCHANGED <<active, workers, session, server, faults>>

(* GetLedger of captive core; the last ledger of a bounded range and an error of the
   stream close the session.  It waits for a ledger past a bounded session. *)
GetLedgerReturns ==
    /\ client.at = "getting"
    /\ \/ /\ session.next = 0 \/ client.seq < session.next
          /\ result' = "error" /\ client' = [client EXCEPT !.at = "idle"]
          /\ UNCHANGED <<session, faults>>
       \/ /\ session.next # 0 /\ client.seq >= session.next
          /\ session.last # 0 => client.seq <= session.last
          /\ result' = "found" /\ client' = [client EXCEPT !.at = "prepared"]
          /\ session' = IF client.seq = session.last THEN Closed ELSE [session EXCEPT !.next = client.seq + 1]
          /\ UNCHANGED faults
       \/ /\ session.next # 0 /\ session.last = 0 /\ client.seq >= session.next
          /\ result' = "missing" /\ client' = [client EXCEPT !.at = "prepared"]
          /\ UNCHANGED <<session, faults>>
       \/ /\ session.next # 0 /\ client.seq >= session.next /\ Fault
          /\ result' = "error" /\ client' = [client EXCEPT !.at = "idle"]
          /\ session' = Closed
    /\ UNCHANGED <<active, workers, server>>

-----------------------------------------------------------------------------
Worker(w) == CoreBegin(w) \/ CoreOpen(w) \/ FinishPrepare(w)

Next ==
    \/ \E w \in Workers : Worker(w)
    \/ ShutdownCancel \/ ShutdownClose
    \/ \E r \in Ranges : CallPrepareRange(r) \/ CallIsPrepared(r)
    \/ Poll \/ PollFails \/ CallClose
    \/ \E seq \in 2..MaxLedger : CallGetLedger(seq)
    \/ GetLedgerReturns

Spec == Init /\ [][Next]_vars

(* The goroutines of the server and the polling loop run; captive core opens its sessions
   or fails to. *)
FairSpec ==
    /\ Spec
    /\ \A w \in Workers : WF_vars(Worker(w))
    /\ WF_vars(Poll) /\ WF_vars(ShutdownClose)

(* The same, but captive core may take for ever to open a session (a catchup). *)
SlowCoreSpec ==
    /\ Spec
    /\ \A w \in Workers : WF_vars(CoreBegin(w)) /\ WF_vars(FinishPrepare(w))
    /\ WF_vars(Poll)

-----------------------------------------------------------------------------
(* Properties.                                                             *)

(* Shutdown is final: no goroutine that was started around it opens a session behind
   its back, and captive core is left without one. *)
ShutdownIsFinal ==
    server = "down" => session = Closed /\ \A w \in Workers : workers[w] = Free

(* The polling loop of PrepareRange ends whatever goroutines of earlier ranges are still
   at work and whichever preparations fail: a failure is retried by the next poll. *)
PollEnds == client.at = "polling" ~> client.at # "polling"

-----------------------------------------------------------------------------
(* What the code says of itself and does not keep; the README lists the cases.  *)

(* "Preloads the given range of ledgers in the captive core instance": the first ledger
   of a range, asked for right after PrepareRange of it succeeded, is not refused. *)
PreparedRangeIsServed ==
    [][client.at = "getting" /\ client.seq = client.range.from /\ server = "up"
       /\ faults' = faults /\ result = "ok" => result' # "error"]_vars

(* "Close cancels any pending PrepareRange requests." *)
CloseCancels == client.at = "polling" /\ client.closed ~> client.at # "polling"
=============================================================================
