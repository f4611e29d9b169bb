------------------------------- MODULE TxSub -------------------------------
(***************************************************************************)
(* Transaction submission (services/aurora/internal/txsub).  Submit runs   *)
(* in the goroutine of a request: it looks the transaction up, queues      *)
(* behind the earlier sequence numbers of the account, submits to          *)
(* hcnet-core and leaves the answer to Tick, which polls the database once *)
(* a second, lets queued submissions go and answers the open ones.         *)
(*                                                                         *)
(* A step is what happens between two points where another goroutine may   *)
(* run: a database transaction, a call of the queue manager or of the      *)
(* submission list (each under its mutex), a call to hcnet-core.           *)
(***************************************************************************)
EXTENDS Integers, FiniteSets, FiniteSetsExt

CONSTANTS
    Reqs,       \* requests
    Txs,        \* transactions, named by their hashes
    Accounts,   \* source accounts
    Submissions,\* what the requests may submit: functions from Reqs to Txs
    AcctOf,     \* AcctOf[t]: its source account
    SeqOf,      \* SeqOf[t]: its sequence number
    Sizes,      \* values of Manager.MaxSize, 1024 in the code
    MaxFaults   \* bound on failed calls, refusals, dropped transactions and merged accounts

ASSUME TxSubAssumption ==
    /\ Submissions \subseteq [Reqs -> Txs] /\ AcctOf \in [Txs -> Accounts] /\ SeqOf \in [Txs -> Nat \ {0}]
    /\ Sizes \subseteq Nat /\ MaxFaults \in Nat

VARIABLES
    ledger,     \* the network: account sequences and transaction results
    mempool,    \* transactions hcnet-core holds for a later ledger
    db,         \* what Aurora has ingested of the ledger
    txOf,       \* txOf[r]: the transaction request r submits
    pc,         \* where Submit of a request is
    seqRead,    \* the account sequence checkTxAlreadyExists read
    maxSize,    \* Manager.MaxSize, room in the queues of all accounts
    queues,     \* Manager.queues: per account none, or a Queue
    aged,       \* accounts whose queue was not active for its timeout
    signal,     \* the channel Push returned: nothing, go, or an error
    open,       \* submissionList: listeners of a transaction, {} for no entry
    old,        \* open submissions over SubmissionTimeout
    sent,       \* results sent to a request
    answer,     \* the last of them
    tick,       \* where Tick is, its snapshot and the transactions it still looks up
    accepted,   \* transactions hcnet-core took or had: PENDING, DUPLICATE (history variable)
    deferred,   \* transactions hcnet-core answered TRY_AGAIN_LATER to (history variable)
    faults

netVars == <<ledger, mempool, db>>
queueVars == <<queues, aged, signal>>
reqVars == <<pc, seqRead, sent, answer>>
config == <<txOf, maxSize>>
vars == <<netVars, queueVars, reqVars, open, old, tick, accepted, deferred, faults, config>>

Acct(r) == AcctOf[txOf[r]]
SeqNum(r) == SeqOf[txOf[r]]
NoAccount == -1
Seqs == {0} \cup {SeqOf[t] : t \in Txs}
View == [seq : [Accounts -> Seqs \cup {NoAccount}], res : [Txs -> {"none", "success", "failed"}]]
NoQueue == [nextSequence |-> 0, items |-> {}]

(* Types; a submission whose account does not exist never gets a sequence number. *)
TypeOK ==
    /\ ledger \in View /\ db \in View /\ mempool \subseteq Txs
    /\ pc \in [Reqs -> {"new", "checked", "pushed", "waiting", "granted", "polling",
                        "accepted", "added", "returned"}]
    /\ seqRead \in [Reqs -> Seqs]
    /\ maxSize \in Sizes /\ txOf \in Submissions
    /\ queues \in [Accounts -> [nextSequence : {0} \cup {s + 1 : s \in Seqs}, items : SUBSET Reqs]]
    /\ aged \subseteq Accounts
    /\ signal \in [Reqs -> {"none", "go", "badseq", "noroom"}]
    /\ open \in [Txs -> SUBSET Reqs] /\ old \subseteq Txs
    /\ sent \in [Reqs -> 0..2]
    /\ answer \in [Reqs -> {"none", "success", "failed", "noaccount", "badseq", "noroom",
                            "canceled", "timeout", "error"}]
    /\ tick \in [at : {"idle", "queues", "results"}, addys : SUBSET Accounts,
                 view : View, todo : SUBSET Txs]
    /\ accepted \subseteq Txs /\ deferred \subseteq Txs
    /\ faults \in 0..MaxFaults

EmptyView == [seq |-> [a \in Accounts |-> 0], res |-> [t \in Txs |-> "none"]]
IdleTick == [at |-> "idle", addys |-> {}, view |-> EmptyView, todo |-> {}]

Init ==
    /\ ledger = EmptyView /\ db = EmptyView /\ mempool = {}
    /\ pc = [r \in Reqs |-> "new"] /\ seqRead = [r \in Reqs |-> 0]
    /\ maxSize \in Sizes /\ txOf \in Submissions
    /\ queues = [a \in Accounts |-> NoQueue] /\ aged = {}
    /\ signal = [r \in Reqs |-> "none"]
    /\ open = [t \in Txs |-> {}] /\ old = {}
    /\ sent = [r \in Reqs |-> 0] /\ answer = [r \in Reqs |-> "none"]
    /\ tick = IdleTick
    /\ accepted = {} /\ deferred = {} /\ faults = 0

Fault == faults < MaxFaults /\ faults' = faults + 1

-----------------------------------------------------------------------------
(* hcnet-core and ingestion, external.                                     *)

PoolSeqs(a) == {SeqOf[t] : t \in {x \in mempool : AcctOf[x] = a}}
CoreNext(a) == Max(PoolSeqs(a) \cup {ledger.seq[a]}) + 1

(* A ledger with transaction t, which succeeds or fails; either uses its sequence. *)
CloseLedger(t) ==
    /\ t \in mempool
    /\ ledger.seq[AcctOf[t]] = SeqOf[t] - 1
    /\ \E res \in {"success", "failed"} :
          ledger' = [seq |-> [ledger.seq EXCEPT ![AcctOf[t]] = SeqOf[t]],
                     res |-> [ledger.res EXCEPT ![t] = res]]
    /\ mempool' = mempool \ {t}
    /\ UNCHANGED <<db, queueVars, reqVars, open, old, tick, accepted, deferred, faults, config>>

(* hcnet-core drops a transaction and the ones behind it. *)
Drop(t) ==
    /\ t \in mempool /\ Fault
    /\ mempool' = {x \in mempool : AcctOf[x] # AcctOf[t] \/ SeqOf[x] < SeqOf[t]}
    /\ UNCHANGED <<ledger, db, queueVars, reqVars, open, old, tick, accepted, deferred, config>>

(* A transaction submitted elsewhere merges the account into another. *)
Merge(a) ==
    /\ ledger.seq[a] # NoAccount /\ Fault
    /\ ledger' = [ledger EXCEPT !.seq[a] = NoAccount]
    /\ mempool' = {t \in mempool : AcctOf[t] # a}
    /\ UNCHANGED <<db, queueVars, reqVars, open, old, tick, accepted, deferred, config>>

Ingest ==
    /\ db # ledger /\ db' = ledger
    /\ UNCHANGED <<ledger, mempool, queueVars, reqVars, open, old, tick, accepted, deferred, faults, config>>

-----------------------------------------------------------------------------
(* sequence.Manager and sequence.Queue.                                    *)

Size == Cardinality(UNION {queues[a].items : a \in Accounts})

(* Push: a new queue begins its timeout. *)
Push(r) ==
    IF Size >= maxSize
    THEN signal' = [signal EXCEPT ![r] = "noroom"] /\ UNCHANGED <<queues, aged>>
    ELSE /\ queues' = [queues EXCEPT ![Acct(r)].items = @ \cup {r}]
         /\ aged' = IF queues[Acct(r)].items = {} THEN aged \ {Acct(r)} ELSE aged
         /\ UNCHANGED signal

NextSequence(q, seq) == Max({q.nextSequence, seq + 1})

(* The items the loop of Queue.Update pops. *)
Unlocked(q, seq) == {r \in q.items : SeqNum(r) <= NextSequence(q, seq)}

(* Mutant of Popped: a stale queue is never cleared. *)
PoppedUnlocked(a, seq) == Unlocked(queues[a], seq)

(* The items Queue.Update removes: the unlocked ones, or all of a stale queue. *)
Popped(a, seq) ==
    IF a \in aged /\ Unlocked(queues[a], seq) = {} THEN queues[a].items
                                                 ELSE Unlocked(queues[a], seq)

(* Mutant of SentTo: the items of a stale queue are not told. *)
SentToUnlocked(r, seq) ==
    CASE SeqNum(r) = NextSequence(queues[Acct(r)], seq) -> "go"
      [] SeqNum(r) < NextSequence(queues[Acct(r)], seq) -> "badseq"
      [] OTHER -> "none"

(* Mutant of SentTo: whatever is not in the past may go. *)
SentToNotPast(r, seq) == IF SeqNum(r) >= NextSequence(queues[Acct(r)], seq) THEN "go" ELSE "badseq"

(* What a removed item's channel gets: nil for the next sequence number, else
   ErrBadSequence. *)
SentTo(r, seq) == IF SeqNum(r) = NextSequence(queues[Acct(r)], seq) THEN "go" ELSE "badseq"

(* Manager.Update(seqs): every queue of an address in seqs; an empty one is deleted. *)
ManagerUpdate(addys, seqs) ==
    LET Rest(a) == queues[a].items \ Popped(a, seqs[a])
    IN /\ queues' = [a \in Accounts |->
             IF a \notin addys THEN queues[a]
             ELSE IF Rest(a) = {} THEN NoQueue
             ELSE [nextSequence |-> NextSequence(queues[a], seqs[a]), items |-> Rest(a)]]
       /\ signal' = [r \in Reqs |->
             IF Acct(r) \in addys /\ r \in Popped(Acct(r), seqs[Acct(r)])
             THEN SentTo(r, seqs[Acct(r)]) ELSE signal[r]]
       /\ aged' = aged \ {a \in addys : Unlocked(queues[a], seqs[a]) # {} \/ Rest(a) = {}}

(* Ten seconds pass without activity. *)
Age(a) ==
    /\ queues[a].items # {} /\ a \notin aged
    /\ aged' = aged \cup {a}
    /\ UNCHANGED <<netVars, queues, signal, reqVars, open, old, tick, accepted, deferred, faults, config>>

-----------------------------------------------------------------------------
(* submissionList.                                                         *)

Send(rs, a) ==
    /\ sent' = [r \in Reqs |-> IF r \in rs THEN sent[r] + 1 ELSE sent[r]]
    /\ answer' = [r \in Reqs |-> IF r \in rs THEN a ELSE answer[r]]

(* Mutant of Finish: the entry stays in the list. *)
FinishKept(t, result) ==
    /\ Send(open[t], result)
    /\ UNCHANGED <<open, old>>

Finish(t, result) ==
    /\ Send(open[t], result)
    /\ open' = [open EXCEPT ![t] = {}]
    /\ old' = old \ {t}

(* Mutant of Clean: nothing is ever cleaned. *)
CleanNothing == UNCHANGED <<sent, answer, open, old>>

(* Clean: everything over the submission timeout. *)
Clean ==
    /\ Send(UNION {open[t] : t \in old}, "timeout")
    /\ open' = [t \in Txs |-> IF t \in old THEN {} ELSE open[t]]
    /\ old' = {}

(* Thirty seconds pass since the submission was opened. *)
TimeOut(t) ==
    /\ open[t] # {} /\ t \notin old
    /\ old' = old \cup {t}
    /\ UNCHANGED <<netVars, queueVars, reqVars, open, tick, accepted, deferred, faults, config>>

-----------------------------------------------------------------------------
(* System.Submit                                                           *)

(* System.finish, after which Submit returns. *)
Answer(r, a) ==
    /\ Send({r}, a)
    /\ pc' = [pc EXCEPT ![r] = "returned"]

Goto(r, l) == pc' = [pc EXCEPT ![r] = l]

(* Mutant of Check: the account is not looked for. *)
CheckWithoutAccount(r) ==
    /\ pc[r] = "new" /\ db.res[txOf[r]] = "none"
    /\ seqRead' = [seqRead EXCEPT ![r] = db.seq[Acct(r)]]
    /\ Goto(r, "checked")
    /\ UNCHANGED <<sent, answer, faults, netVars, queueVars, open, old, tick, accepted, deferred, config>>

(* checkTxAlreadyExists, in one snapshot. *)
Check(r) ==
    /\ pc[r] = "new"
    /\ \/ /\ db.res[txOf[r]] # "none"
          /\ Answer(r, db.res[txOf[r]])
          /\ UNCHANGED <<seqRead, faults>>
       \/ /\ db.res[txOf[r]] = "none" /\ db.seq[Acct(r)] = NoAccount
          /\ Answer(r, "noaccount")
          /\ UNCHANGED <<seqRead, faults>>
       \/ /\ db.res[txOf[r]] = "none" /\ db.seq[Acct(r)] # NoAccount
          /\ seqRead' = [seqRead EXCEPT ![r] = db.seq[Acct(r)]]
          /\ Goto(r, "checked")
          /\ UNCHANGED <<sent, answer, faults>>
       \/ /\ Fault /\ Answer(r, "error")
          /\ UNCHANGED seqRead
    /\ UNCHANGED <<netVars, queueVars, open, old, tick, accepted, deferred, config>>

SubmitPush(r) ==
    /\ pc[r] = "checked"
    /\ Push(r)
    /\ Goto(r, "pushed")
    /\ UNCHANGED <<netVars, seqRead, sent, answer, open, old, tick, accepted, deferred, faults, config>>

SubmitUpdate(r) ==
    /\ pc[r] = "pushed"
    /\ ManagerUpdate({Acct(r)}, [a \in Accounts |-> seqRead[r]])
    /\ Goto(r, "waiting")
    /\ UNCHANGED <<netVars, seqRead, sent, answer, open, old, tick, accepted, deferred, faults, config>>

(* The select on the channel of Push. *)
Receive(r) ==
    /\ pc[r] = "waiting" /\ signal[r] # "none"
    /\ IF signal[r] = "go" THEN Goto(r, "granted") /\ UNCHANGED <<sent, answer>>
                           ELSE Answer(r, signal[r])
    /\ UNCHANGED <<netVars, queueVars, seqRead, open, old, tick, accepted, deferred, faults, config>>

(* ctx.Done in the select and in waitUntilAccountSequence; the item stays queued. *)
Cancel(r) ==
    /\ pc[r] \in {"waiting", "polling"}
    /\ Answer(r, "canceled")
    /\ UNCHANGED <<netVars, queueVars, seqRead, open, old, tick, accepted, deferred, faults, config>>

(* submitOnce and what Submit makes of the response of hcnet-core.  TRY_AGAIN_LATER is
   no error to the submitter: the submission counts as taken although it is not. *)
SubmitOnce(r) ==
    LET t == txOf[r]
        known == ledger.seq[Acct(r)] # NoAccount
        fits == known /\ t \notin mempool /\ SeqNum(r) = CoreNext(Acct(r))
    IN /\ pc[r] = "granted"
       /\ \/ /\ t \in mempool \/ fits                \* DUPLICATE, PENDING
             /\ mempool' = mempool \cup {t}
             /\ accepted' = accepted \cup {t} /\ Goto(r, "accepted")
             /\ UNCHANGED <<deferred, sent, answer, faults>>
          \/ /\ fits /\ Fault                        \* TRY_AGAIN_LATER
             /\ deferred' = deferred \cup {t} /\ Goto(r, "accepted")
             /\ UNCHANGED <<mempool, accepted, sent, answer>>
          \/ /\ known /\ t \notin mempool /\ ~fits   \* txBAD_SEQ
             /\ Goto(r, "polling")
             /\ UNCHANGED <<mempool, accepted, deferred, sent, answer, faults>>
          \/ /\ ~known                               \* another error
             /\ Answer(r, "error")
             /\ UNCHANGED <<mempool, accepted, deferred, faults>>
          \/ /\ Fault /\ Answer(r, "error")          \* a failed call, or a lost response
             /\ mempool' \in {mempool, IF fits THEN mempool \cup {t} ELSE mempool}
             /\ UNCHANGED <<accepted, deferred>>
       /\ UNCHANGED <<ledger, db, queueVars, seqRead, open, old, tick, config>>

(* Pending.Add: a new entry begins its timeout. *)
AddOpen(r) ==
    /\ pc[r] = "accepted"
    /\ open' = [open EXCEPT ![txOf[r]] = @ \cup {r}]
    /\ Goto(r, "added")
    /\ UNCHANGED <<netVars, queueVars, seqRead, sent, answer, old, tick, accepted, deferred, faults, config>>

(* The queue may go on behind the accepted transaction. *)
UpdateAccepted(r) ==
    /\ pc[r] = "added"
    /\ ManagerUpdate({Acct(r)}, [a \in Accounts |-> SeqNum(r)])
    /\ Goto(r, "returned")
    /\ UNCHANGED <<netVars, seqRead, sent, answer, open, old, tick, accepted, deferred, faults, config>>

(* Mutant of Poll: an account that reached the sequence number is taken for success. *)
PollReached(r) ==
    /\ pc[r] = "polling"
    /\ db.seq[Acct(r)] >= SeqNum(r)
    /\ Answer(r, "success")
    /\ UNCHANGED <<netVars, queueVars, seqRead, open, old, tick, accepted, deferred, faults, config>>

(* waitUntilAccountSequence sees the account reach the sequence number, and the
   result is looked up again: a success is the answer, and whatever else comes back,
   a failed query too, is answered with the txBAD_SEQ of hcnet-core.  Both reads are
   one step: once the account is there the result cannot appear any more. *)
Poll(r) ==
    /\ pc[r] = "polling"
    /\ db.seq[Acct(r)] >= SeqNum(r)
    /\ \/ /\ Answer(r, IF db.res[txOf[r]] = "success" THEN "success" ELSE "badseq")
          /\ UNCHANGED faults
       \/ Fault /\ Answer(r, "badseq")
    /\ UNCHANGED <<netVars, queueVars, seqRead, open, old, tick, accepted, deferred, config>>

-----------------------------------------------------------------------------
(* System.Tick, one at a time (tickInProgress).                            *)

(* The addresses, then the snapshot of the repeatable-read transaction. *)
TickBegin ==
    /\ tick.at = "idle"
    /\ tick' = [IdleTick EXCEPT !.at = "queues", !.addys = {a \in Accounts : queues[a].items # {}},
                                !.view = db]
    /\ UNCHANGED <<netVars, queueVars, reqVars, open, old, accepted, deferred, faults, config>>

(* GetSequenceNumbers has no row for an account that is gone. *)
TickQueues ==
    /\ tick.at = "queues"
    /\ ManagerUpdate({a \in tick.addys : tick.view.seq[a] # NoAccount}, tick.view.seq)
    /\ tick' = [tick EXCEPT !.at = "results", !.todo = {t \in Txs : open[t] # {}}]
    /\ UNCHANGED <<netVars, reqVars, open, old, accepted, deferred, faults, config>>

(* A query fails: GetSequenceNumbers ends the tick, a lookup skips the transaction. *)
TickError ==
    /\ Fault
    /\ \/ tick.at = "queues" /\ tick' = IdleTick
       \/ /\ tick.at = "results"
          /\ \E t \in tick.todo : tick' = [tick EXCEPT !.todo = @ \ {t}]
    /\ UNCHANGED <<netVars, queueVars, reqVars, open, old, accepted, deferred, config>>

TickResult(t) ==
    /\ tick.at = "results" /\ t \in tick.todo
    /\ tick' = [tick EXCEPT !.todo = @ \ {t}]
    /\ IF tick.view.res[t] = "none" THEN UNCHANGED <<sent, answer, open, old>>
                                    ELSE Finish(t, tick.view.res[t])
    /\ UNCHANGED <<netVars, queueVars, pc, seqRead, accepted, deferred, faults, config>>

TickClean ==
    /\ tick.at = "results" /\ tick.todo = {}
    /\ Clean
    /\ tick' = IdleTick
    /\ UNCHANGED <<netVars, queueVars, pc, seqRead, accepted, deferred, faults, config>>

-----------------------------------------------------------------------------
Submit(r) == Check(r) \/ SubmitPush(r) \/ SubmitUpdate(r) \/ Receive(r) \/ SubmitOnce(r)
             \/ AddOpen(r) \/ UpdateAccepted(r) \/ Poll(r)
Tick == TickBegin \/ TickQueues \/ TickClean \/ \E t \in Txs : TickResult(t)

Next ==
    \/ \E t \in Txs : CloseLedger(t) \/ Drop(t) \/ TimeOut(t)
    \/ \E a \in Accounts : Merge(a) \/ Age(a)
    \/ Ingest
    \/ \E r \in Reqs : Submit(r) \/ Cancel(r)
    \/ Tick \/ TickError

Spec == Init /\ [][Next]_vars

(* Goroutines run, App.Tick comes every second, time passes, and the connection
   timeout cancels a request that still waits or polls.  Nothing is assumed of
   hcnet-core or of ingestion. *)
FairSpec ==
    /\ Spec
    /\ \A r \in Reqs : WF_vars(Submit(r)) /\ WF_vars(Cancel(r))
    /\ WF_vars(Tick)
    /\ \A t \in Txs : WF_vars(TimeOut(t))
    /\ \A a \in Accounts : WF_vars(Age(a))

-----------------------------------------------------------------------------
(* Properties.                                                             *)

(* The response channel holds one result and is closed after it: a second send
   would panic, so Submit, Finish and Clean never answer the same request twice,
   and a request that Submit left unanswered is in the open list. *)
AnsweredOnce ==
    \A r \in Reqs :
        /\ sent[r] <= 1
        /\ pc[r] = "returned" /\ sent[r] = 0 => r \in open[txOf[r]]

(* A submission that waits for its turn is in the queue of its account or has
   been signalled, whatever Update removed meanwhile. *)
NoLostWaiter ==
    \A r \in Reqs :
        pc[r] \in {"pushed", "waiting"} /\ signal[r] = "none" => r \in queues[Acct(r)].items

(* A result that is sent is the result of that transaction in the ledger and stays it,
   whoever sends it: the first lookup, the second one after txBAD_SEQ, or Tick, which
   answers all listeners of a transaction from a snapshot taken before. *)
AnswersAreTrue ==
    \A r \in Reqs : answer[r] \in {"success", "failed"} => answer[r] = ledger.res[txOf[r]]

(* A submission is let go only when its predecessor is in the ledger, or hcnet-core
   took or deferred (TRY_AGAIN_LATER) one with that sequence number: hcnet-core would
   refuse it with txBAD_SEQ otherwise.  Two cases do not keep it from being refused:
   behind a deferred one the queue moves all the same, and an account that is merged
   away has no sequence number any more. *)
GrantedInOrder ==
    [][\A r \in Reqs : signal[r] = "none" /\ signal'[r] = "go" =>
          \/ SeqNum(r) - 1 <= ledger.seq[Acct(r)] \/ ledger.seq[Acct(r)] = NoAccount
          \/ \E t \in accepted \cup deferred : AcctOf[t] = Acct(r) /\ SeqOf[t] = SeqNum(r) - 1]_vars

(* Every request is answered, without any help of hcnet-core. *)
EveryoneAnswered == []<>(\A r \in Reqs : pc[r] # "new" => sent[r] > 0)

(* A slot of the queue is given back in the end, the one of a cancelled request too:
   Update clears a queue that "is too old" to "make room for other's".  Only the queue
   of an account that is gone from the database is not, since Tick has no sequence
   number to update it with. *)
RoomComesBack == []<>(\A a \in Accounts : queues[a].items = {} \/ db.seq[a] = NoAccount)

-----------------------------------------------------------------------------
(* What the code says of itself and does not keep; the README lists the cases.  *)

(* A client told txBAD_SEQ will sign a new transaction: the one it has must not
   be in a ledger, or get there later. *)
NoMistakenBadSeq == \A r \in Reqs : answer[r] = "badseq" => ledger.res[txOf[r]] # "success"

(* After hcnet-core said txBAD_SEQ the error is returned only "if no result was
   found on 2nd attempt". *)
BadSeqIfNoResult ==
    [][\A r \in Reqs : pc[r] = "polling" /\ answer'[r] = "badseq" /\ answer[r] = "none"
                       => db.res[txOf[r]] = "none"]_vars
=============================================================================
