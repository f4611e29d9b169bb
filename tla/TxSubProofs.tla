---------------------------- MODULE TxSubProofs ----------------------------
(***************************************************************************)
(* Proofs about TxSub for any number of requests, transactions, accounts,  *)
(* queue sizes and faults.                                                 *)
(***************************************************************************)
EXTENDS TxSub, TLAPS

Listed == {"added", "returned"}

(* Where the answer of a request is: nobody sends one before Submit is done with it,
   and afterwards it is in the open list or was sent. *)
OpenInv ==
    \A r \in Reqs :
        /\ \A t \in Txs : r \in open[t] => t = txOf[r] /\ pc[r] \in Listed
        /\ pc[r] \notin Listed => sent[r] = 0
        /\ pc[r] \in Listed => sent[r] = IF r \in open[txOf[r]] THEN 0 ELSE 1

(* The transactions hcnet-core answered without an error: taken, had, or deferred. *)
Handled == accepted \cup deferred

(* Sequence number s of an account is in the ledger, hcnet-core took or deferred a
   transaction of the account with it, or the account is gone. *)
Known(a, s) ==
    \/ s <= ledger.seq[a] \/ ledger.seq[a] = NoAccount
    \/ \E t \in Handled : AcctOf[t] = a /\ SeqOf[t] = s

(* Every sequence number a queue is updated with is known, and so is what it keeps. *)
SeqInv ==
    /\ \A a \in Accounts : /\ Known(a, db.seq[a]) /\ Known(a, tick.view.seq[a])
                           /\ Known(a, queues[a].nextSequence - 1)
    /\ \A r \in Reqs : /\ Known(Acct(r), seqRead[r])
                       /\ pc[r] \in {"accepted", "added"} => txOf[r] \in Handled

(* The inductive invariant. *)
IInv == TypeOK /\ NoLostWaiter /\ OpenInv /\ SeqInv

-----------------------------------------------------------------------------
(* Operators.                                                              *)

(* The maximum of two integers, as NextSequence uses it. *)
LEMMA MaxOfTwo ==
    ASSUME NEW x \in Int, NEW y \in Int
    PROVE  Max({x, y}) = IF x >= y THEN x ELSE y
  <1> DEFINE m == IF x >= y THEN x ELSE y
  <1>1. m \in {x, y} /\ \A z \in {x, y} : m >= z
    OBVIOUS
  <1>2. \A n \in {x, y} : (\A z \in {x, y} : n >= z) => n = m
    OBVIOUS
  <1>3. Max({x, y}) = CHOOSE n \in {x, y} : \A z \in {x, y} : n >= z
    BY DEF Max
  <1> HIDE DEF m
  <1>4. (CHOOSE n \in {x, y} : \A z \in {x, y} : n >= z) = m
    BY <1>1, <1>2
  <1> QED BY <1>3, <1>4 DEF m

(* Sequence numbers are naturals, and a request has an account and a number. *)
LEMMA SeqTypes ==
    ASSUME TypeOK
    PROVE  /\ Seqs \subseteq Nat
           /\ \A t \in Txs : SeqOf[t] \in Seqs \ {0} /\ AcctOf[t] \in Accounts
           /\ \A r \in Reqs : txOf[r] \in Txs /\ Acct(r) \in Accounts /\ SeqNum(r) \in Seqs \ {0}
           /\ \A a \in Accounts : /\ ledger.seq[a] \in Seqs \cup {-1} /\ db.seq[a] \in Seqs \cup {-1}
                                  /\ tick.view.seq[a] \in Seqs \cup {-1}
           /\ maxSize \in Nat
  <1>1. txOf \in [Reqs -> Txs] /\ maxSize \in Nat
    BY TxSubAssumption DEF TypeOK
  <1>2. \A t \in Txs : SeqOf[t] \in Seqs \ {0} /\ AcctOf[t] \in Accounts
    BY TxSubAssumption DEF Seqs
  <1>3. Seqs \subseteq Nat
    BY TxSubAssumption DEF Seqs
  <1>4. \A r \in Reqs : txOf[r] \in Txs /\ Acct(r) \in Accounts /\ SeqNum(r) \in Seqs \ {0}
    BY <1>1, <1>2 DEF Acct, SeqNum
  <1>5. \A v \in View : \A a \in Accounts : v.seq[a] \in Seqs \cup {-1}
    BY DEF View, NoAccount
  <1>6. ledger \in View /\ db \in View /\ tick.view \in View
    BY DEF TypeOK
  <1>7. \A a \in Accounts : /\ ledger.seq[a] \in Seqs \cup {-1} /\ db.seq[a] \in Seqs \cup {-1}
                            /\ tick.view.seq[a] \in Seqs \cup {-1}
    BY <1>5, <1>6
  <1> QED BY <1>1, <1>2, <1>3, <1>4, <1>7

(* A queue's next sequence number is the one it had or follows the one it is told. *)
LEMMA NextSequenceCases ==
    ASSUME TypeOK, NEW a \in Accounts, NEW s \in Seqs
    PROVE  /\ NextSequence(queues[a], s) \in {queues[a].nextSequence, s + 1}
           /\ NextSequence(queues[a], s) \in {0} \cup {x + 1 : x \in Seqs}
           /\ NextSequence(queues[a], s) \in Nat
  <1>1. queues[a].nextSequence \in {0} \cup {x + 1 : x \in Seqs}
    BY DEF TypeOK
  <1>2. queues[a].nextSequence \in Nat /\ s \in Nat
    BY <1>1, SeqTypes
  <1>3. NextSequence(queues[a], s) \in {queues[a].nextSequence, s + 1}
    BY <1>2, MaxOfTwo DEF NextSequence
  <1> QED BY <1>1, <1>2, <1>3


(* A known sequence number stays known: the ledger only moves on, an account that is
   gone does not come back. *)
LEMMA KnownStays ==
    ASSUME TypeOK, NEW a \in Accounts, NEW s \in Int, Known(a, s),
           \/ ledger'.seq[a] = ledger.seq[a]
           \/ ledger.seq[a] # NoAccount /\ ledger'.seq[a] \in Int /\ ledger'.seq[a] >= ledger.seq[a]
           \/ ledger'.seq[a] = NoAccount,
           Handled \subseteq Handled'
    PROVE  Known(a, s)'
  <1>1. ledger.seq[a] \in Int
    BY SeqTypes
  <1> QED BY <1>1 DEF Known, Handled, NoAccount

(* A new view of the database knows nothing. *)
LEMMA KnownZero ==
    ASSUME TypeOK
    PROVE  \A a \in Accounts : Known(a, EmptyView.seq[a]) /\ Known(a, 0 - 1)
  <1>1. \A a \in Accounts : ledger.seq[a] \in Nat \cup {-1}
    BY SeqTypes
  <1> QED BY <1>1 DEF Known, Handled, NoAccount, EmptyView

(* Manager.Update with known sequence numbers: the queues shrink and keep known numbers,
   whoever is removed is told, and go is sent only behind a known number. *)
LEMMA UpdateEffect ==
    ASSUME TypeOK, SeqInv, NEW addys \in SUBSET Accounts, NEW seqs,
           \A a \in addys : seqs[a] \in Seqs /\ Known(a, seqs[a]),
           UNCHANGED <<ledger, accepted, deferred, txOf>>,
           ManagerUpdate(addys, seqs)
    PROVE  /\ queues' \in [Accounts -> [nextSequence : {0} \cup {s + 1 : s \in Seqs}, items : SUBSET Reqs]]
           /\ signal' \in [Reqs -> {"none", "go", "badseq", "noroom"}]
           /\ aged' \subseteq Accounts
           /\ \A a \in Accounts : /\ queues'[a].items \subseteq queues[a].items
                                  /\ Known(a, queues[a].nextSequence - 1)'
           /\ \A r \in Reqs : r \in queues[Acct(r)].items /\ r \notin queues'[Acct(r)].items
                              => signal'[r] # "none"
           /\ \A r \in Reqs : signal[r] # "none" => signal'[r] # "none"
           /\ \A r \in Reqs : signal[r] = "none" /\ signal'[r] = "go" => Known(Acct(r), SeqNum(r) - 1)
  <1> DEFINE Rest(a) == queues[a].items \ Popped(a, seqs[a])
             Told(r) == Acct(r) \in addys /\ r \in Popped(Acct(r), seqs[Acct(r)])
  <1>1. \A a \in Accounts : queues[a].items \in SUBSET Reqs
    BY DEF TypeOK
  <1>2. \A a \in Accounts : queues'[a] =
             IF a \notin addys THEN queues[a]
             ELSE IF Rest(a) = {} THEN NoQueue
             ELSE [nextSequence |-> NextSequence(queues[a], seqs[a]), items |-> Rest(a)]
    BY DEF ManagerUpdate
  <1>2a. ASSUME NEW a \in Accounts
         PROVE  /\ queues'[a].items = IF a \in addys THEN Rest(a) ELSE queues[a].items
                /\ \/ queues'[a].nextSequence \in {0, queues[a].nextSequence}
                   \/ a \in addys /\ queues'[a].nextSequence = NextSequence(queues[a], seqs[a])
    <2> HIDE DEF Rest
    <2>1. CASE a \notin addys
      BY <1>2, <2>1
    <2>2. CASE a \in addys /\ Rest(a) = {}
      <3>1. queues'[a] = NoQueue
        BY <1>2, <2>2
      <3>2. queues'[a].items = {} /\ queues'[a].nextSequence = 0
        BY <3>1 DEF NoQueue
      <3> QED BY <2>2, <3>2
    <2>3. CASE a \in addys /\ Rest(a) # {}
      <3>1. queues'[a] = [nextSequence |-> NextSequence(queues[a], seqs[a]), items |-> Rest(a)]
        BY <1>2, <2>3
      <3>2. queues'[a].items = Rest(a) /\ queues'[a].nextSequence = NextSequence(queues[a], seqs[a])
        BY <3>1
      <3> QED BY <2>3, <3>2
    <2> QED BY <2>1, <2>2, <2>3
  <1>3. \A r \in Reqs : signal'[r] = IF Told(r) THEN SentTo(r, seqs[Acct(r)]) ELSE signal[r]
    BY DEF ManagerUpdate
  <1>4. \A a \in addys : Rest(a) \subseteq queues[a].items
    OBVIOUS
  <1>5. \A a \in addys : /\ NextSequence(queues[a], seqs[a]) \in {0} \cup {x + 1 : x \in Seqs}
                         /\ NextSequence(queues[a], seqs[a]) \in {queues[a].nextSequence, seqs[a] + 1}
                         /\ NextSequence(queues[a], seqs[a]) \in Nat
    BY NextSequenceCases
  <1>6. \A a \in addys : Known(a, NextSequence(queues[a], seqs[a]) - 1)
    <2> SUFFICES ASSUME NEW a \in addys PROVE Known(a, NextSequence(queues[a], seqs[a]) - 1)
      OBVIOUS
    <2>1. Known(a, queues[a].nextSequence - 1)
      BY DEF SeqInv
    <2>2. seqs[a] \in Nat /\ (seqs[a] + 1) - 1 = seqs[a]
      BY SeqTypes
    <2>3. Known(a, (seqs[a] + 1) - 1)
      BY <2>2
    <2> QED BY <1>5, <2>1, <2>3
  <1>7. \A a \in Accounts : \A s : Known(a, s)' <=> Known(a, s)
    BY DEF Known, Handled
  <1>8. NoQueue \in [nextSequence : {0} \cup {s + 1 : s \in Seqs}, items : SUBSET Reqs]
    BY DEF NoQueue
  <1>9. \A a \in Accounts : queues'[a] \in [nextSequence : {0} \cup {s + 1 : s \in Seqs}, items : SUBSET Reqs]
    <2> HIDE DEF Rest
    <2> SUFFICES ASSUME NEW a \in Accounts
                 PROVE  queues'[a] \in [nextSequence : {0} \cup {s + 1 : s \in Seqs}, items : SUBSET Reqs]
      OBVIOUS
    <2>1. CASE a \notin addys
      BY <1>2, <2>1 DEF TypeOK
    <2>2. CASE a \in addys
      <3>1. CASE Rest(a) = {}
        BY <1>2, <1>8, <2>2, <3>1
      <3>2. CASE Rest(a) # {}
        <4>1. queues'[a] = [nextSequence |-> NextSequence(queues[a], seqs[a]), items |-> Rest(a)]
          BY <1>2, <2>2, <3>2
        <4> QED BY <1>1, <1>4, <1>5, <2>2, <4>1
      <3> QED BY <3>1, <3>2
    <2> QED BY <2>1, <2>2
  <1>10. queues' \in [Accounts -> [nextSequence : {0} \cup {s + 1 : s \in Seqs}, items : SUBSET Reqs]]
    <2>1. queues' = [a \in Accounts |-> queues'[a]]
      BY DEF ManagerUpdate
    <2> QED BY <1>9, <2>1
  <1>11. signal' \in [Reqs -> {"none", "go", "badseq", "noroom"}]
    BY DEF ManagerUpdate, SentTo, TypeOK
  <1>12. aged' \subseteq Accounts
    BY DEF ManagerUpdate, TypeOK
  <1>13. \A a \in Accounts : queues'[a].items \subseteq queues[a].items
    BY <1>4, <1>2a
  <1>14. ASSUME NEW a \in Accounts PROVE Known(a, queues[a].nextSequence - 1)'
    <2>1. ledger.seq[a] \in Int /\ ledger.seq[a] >= -1
      BY SeqTypes
    <2>2. Known(a, 0 - 1)
      BY <2>1 DEF Known, Handled
    <2>3. Known(a, queues'[a].nextSequence - 1)
      BY <1>6, <1>2a, <2>2 DEF SeqInv
    <2> QED BY <1>7, <2>3
  <1>15. ASSUME NEW r \in Reqs, r \in queues[Acct(r)].items, r \notin queues'[Acct(r)].items
         PROVE  signal'[r] # "none"
    <2>1. Acct(r) \in Accounts
      BY SeqTypes
    <2>2. Told(r)
      BY <1>15, <1>2a, <2>1
    <2> QED BY <1>3, <2>2 DEF SentTo
  <1>16. \A r \in Reqs : signal[r] # "none" => signal'[r] # "none"
    BY <1>3 DEF SentTo
  <1>17. ASSUME NEW r \in Reqs, signal[r] = "none", signal'[r] = "go"
         PROVE  Known(Acct(r), SeqNum(r) - 1)
    <2>1. Acct(r) \in addys /\ SeqNum(r) = NextSequence(queues[Acct(r)], seqs[Acct(r)])
      BY <1>3, <1>17 DEF SentTo
    <2> QED BY <1>6, <2>1
  <1> QED BY <1>10, <1>11, <1>12, <1>13, <1>14, <1>15, <1>16, <1>17


-----------------------------------------------------------------------------
(* What a step that leaves some of the state alone keeps.                  *)

LEMMA WaitersStay ==
    ASSUME IInv, UNCHANGED <<queues, signal, config>>,
           \A r \in Reqs : pc'[r] \in {"pushed", "waiting"} => pc[r] \in {"pushed", "waiting"}
    PROVE  NoLostWaiter'
  BY DEF IInv, NoLostWaiter, Acct, config

LEMMA OpenKept ==
    ASSUME IInv, UNCHANGED <<open, sent, config>>,
           \A r \in Reqs : pc'[r] \in Listed <=> pc[r] \in Listed
    PROVE  OpenInv'
  BY DEF IInv, OpenInv, config

(* The ledger moves on and everything else is as known as it was. *)
LEMMA SeqKept ==
    ASSUME TypeOK, TypeOK', Handled \subseteq Handled', txOf' = txOf,
           \A a \in Accounts :
               /\ \/ ledger'.seq[a] = ledger.seq[a]
                  \/ ledger.seq[a] # NoAccount /\ ledger'.seq[a] >= ledger.seq[a]
                  \/ ledger'.seq[a] = NoAccount
               /\ Known(a, db'.seq[a]) /\ Known(a, tick'.view.seq[a])
               /\ Known(a, queues'[a].nextSequence - 1),
           \A r \in Reqs : /\ Known(Acct(r), seqRead'[r])
                           /\ pc'[r] \in {"accepted", "added"} => txOf[r] \in Handled'
    PROVE  SeqInv'
  <1>1. \A r \in Reqs : Acct(r) \in Accounts /\ Acct(r)' = Acct(r)
    BY SeqTypes DEF Acct
  <1>2. \A a \in Accounts : /\ db'.seq[a] \in Int /\ tick'.view.seq[a] \in Int /\ ledger'.seq[a] \in Int
                            /\ queues'[a].nextSequence - 1 \in Int
    <2>1. Seqs \subseteq Nat
      BY SeqTypes
    <2>2. \A v \in View : \A a \in Accounts : v.seq[a] \in Int
      <3>1. \A v \in View : \A a \in Accounts : v.seq[a] \in Seqs \cup {-1}
        BY DEF View, NoAccount
      <3>2. \A x \in Seqs \cup {-1} : x \in Int
        BY <2>1
      <3> QED BY <3>1, <3>2
    <2>3. db' \in View /\ ledger' \in View /\ tick'.view \in View
      BY DEF TypeOK
    <2>4. \A a \in Accounts : queues'[a].nextSequence - 1 \in Int
      BY <2>1 DEF TypeOK
    <2> QED BY <2>2, <2>3, <2>4
  <1>3. \A r \in Reqs : seqRead'[r] \in Int
    BY SeqTypes DEF TypeOK
  <1>4. ASSUME NEW a \in Accounts, NEW s \in Int, Known(a, s) PROVE Known(a, s)'
    BY <1>2, <1>4, KnownStays
  <1>5. \A a \in Accounts : /\ Known(a, db.seq[a])' /\ Known(a, tick.view.seq[a])'
                            /\ Known(a, queues[a].nextSequence - 1)'
    <2> SUFFICES ASSUME NEW a \in Accounts
                 PROVE  /\ Known(a, db.seq[a])' /\ Known(a, tick.view.seq[a])'
                        /\ Known(a, queues[a].nextSequence - 1)'
      OBVIOUS
    <2>1. Known(a, db.seq[a])'
      BY <1>2, <1>4
    <2>2. Known(a, tick.view.seq[a])'
      BY <1>2, <1>4
    <2>3. Known(a, queues[a].nextSequence - 1)'
      BY <1>2, <1>4
    <2> QED BY <2>1, <2>2, <2>3
  <1>6. \A r \in Reqs : /\ Known(Acct(r), seqRead[r])'
                        /\ pc'[r] \in {"accepted", "added"} => txOf'[r] \in Handled'
    <2> SUFFICES ASSUME NEW r \in Reqs PROVE Known(Acct(r), seqRead[r])'
      OBVIOUS
    <2> QED BY <1>1, <1>3, <1>4
  <1> QED BY <1>5, <1>6 DEF SeqInv

-----------------------------------------------------------------------------
(* The network, ingestion and time.                                        *)

LEMMA FaultType ==
    ASSUME TypeOK, Fault \/ UNCHANGED faults
    PROVE  faults' \in 0..MaxFaults
  BY TxSubAssumption DEF TypeOK, Fault

LEMMA NetworkStep ==
    ASSUME IInv,
           \/ \E t \in Txs : CloseLedger(t) \/ Drop(t)
           \/ \E a \in Accounts : Merge(a)
           \/ Ingest
    PROVE  IInv'
  <1> USE DEF IInv
  <1>1. /\ UNCHANGED <<queues, aged, signal, pc, seqRead, sent, answer, open, old, tick, accepted, deferred, config>>
        /\ faults' \in 0..MaxFaults
    BY FaultType DEF CloseLedger, Drop, Merge, Ingest, queueVars, reqVars
  <1>2. NoLostWaiter' /\ OpenInv'
    BY <1>1, WaitersStay, OpenKept
  <1>3. /\ ledger' \in View
        /\ \A a \in Accounts : \/ ledger'.seq[a] = ledger.seq[a]
                               \/ ledger.seq[a] # NoAccount /\ ledger'.seq[a] >= ledger.seq[a]
                               \/ ledger'.seq[a] = NoAccount
    <2>1. CASE \E t \in Txs : CloseLedger(t)
      <3>1. PICK t \in Txs : CloseLedger(t)
        BY <2>1
      <3>2. PICK res \in {"success", "failed"} :
              ledger' = [seq |-> [ledger.seq EXCEPT ![AcctOf[t]] = SeqOf[t]],
                         res |-> [ledger.res EXCEPT ![t] = res]]
        BY <3>1 DEF CloseLedger
      <3>3. SeqOf[t] \in Seqs \ {0} /\ AcctOf[t] \in Accounts /\ Seqs \subseteq Nat
            /\ ledger.seq[AcctOf[t]] = SeqOf[t] - 1
        BY <3>1, SeqTypes DEF CloseLedger
      <3>4. ledger.seq \in [Accounts -> Seqs \cup {NoAccount}]
            /\ ledger.res \in [Txs -> {"none", "success", "failed"}]
        BY DEF TypeOK, View
      <3>5. ledger' \in View
        BY <3>2, <3>3, <3>4 DEF View
      <3>6. \A a \in Accounts : a # AcctOf[t] => ledger'.seq[a] = ledger.seq[a]
        BY <3>2, <3>4
      <3>7. ledger'.seq[AcctOf[t]] = SeqOf[t]
        BY <3>2, <3>3, <3>4
      <3>8. ledger.seq[AcctOf[t]] # NoAccount /\ ledger'.seq[AcctOf[t]] >= ledger.seq[AcctOf[t]]
        <4>1. SeqOf[t] \in Nat /\ SeqOf[t] # 0
          BY <3>3
        <4> QED BY <3>3, <3>7, <4>1 DEF NoAccount
      <3> QED BY <3>5, <3>6, <3>8
    <2>2. CASE \E a \in Accounts : Merge(a)
      <3>1. PICK b \in Accounts : Merge(b)
        BY <2>2
      <3>2. ledger' = [ledger EXCEPT !.seq[b] = NoAccount]
        BY <3>1 DEF Merge
      <3>3. ledger' \in View
        BY <3>2 DEF TypeOK, View
      <3>4. \A a \in Accounts : ledger'.seq[a] = IF a = b THEN NoAccount ELSE ledger.seq[a]
        BY <3>2 DEF TypeOK, View
      <3> QED BY <3>3, <3>4
    <2>3. CASE Ingest \/ \E t \in Txs : Drop(t)
      BY <2>3 DEF Ingest, Drop, TypeOK
    <2> QED BY <2>1, <2>2, <2>3
  <1>4. db' \in {db, ledger} /\ mempool' \subseteq Txs
    BY DEF CloseLedger, Drop, Merge, Ingest, TypeOK
  <1>5. TypeOK'
    BY <1>1, <1>3, <1>4 DEF TypeOK, config
  <1>6. \A a \in Accounts : Known(a, db'.seq[a])
    <2>1. \A a \in Accounts : ledger.seq[a] \in Int
      BY SeqTypes
    <2>2. \A a \in Accounts : Known(a, ledger.seq[a])
      BY <2>1 DEF Known, Handled
    <2> QED BY <1>4, <2>2 DEF SeqInv
  <1>7. SeqInv'
    <2>1. \A a \in Accounts : Known(a, tick'.view.seq[a]) /\ Known(a, queues'[a].nextSequence - 1)
      BY <1>1 DEF SeqInv
    <2>2. \A r \in Reqs : /\ Known(Acct(r), seqRead'[r])
                          /\ pc'[r] \in {"accepted", "added"} => txOf[r] \in Handled'
      BY <1>1 DEF SeqInv, Handled
    <2>3. txOf' = txOf /\ Handled' = Handled
      BY <1>1 DEF config, Handled
    <2> QED BY <1>3, <1>5, <1>6, <2>1, <2>2, <2>3, SeqKept
  <1> QED BY <1>2, <1>5, <1>7

LEMMA TimeStep ==
    ASSUME IInv, (\E t \in Txs : TimeOut(t)) \/ (\E a \in Accounts : Age(a))
    PROVE  IInv'
  <1> USE DEF IInv
  <1>1. /\ UNCHANGED <<netVars, queues, signal, reqVars, open, tick, accepted, deferred, faults, config>>
        /\ old' \subseteq Txs /\ aged' \subseteq Accounts
    BY DEF TimeOut, Age, TypeOK, queueVars
  <1>2. TypeOK'
    BY <1>1 DEF TypeOK, netVars, reqVars, config
  <1>3. NoLostWaiter' /\ OpenInv'
    BY <1>1, WaitersStay, OpenKept DEF reqVars
  <1>4. SeqInv'
    BY <1>1 DEF SeqInv, Known, Handled, Acct, netVars, reqVars, config
  <1> QED BY <1>2, <1>3, <1>4


-----------------------------------------------------------------------------
(* System.Submit                                                           *)

Answers == {"success", "failed", "noaccount", "badseq", "noroom", "canceled", "timeout", "error"}

(* What a step of Submit outside the queue manager and the open list leaves alone. *)
ElsewhereKept ==
    /\ UNCHANGED <<ledger, db, queueVars, open, old, tick, config>>
    /\ mempool' \subseteq Txs
    /\ Fault \/ UNCHANGED faults

(* Submit answers by itself only before the request is in the open list. *)
LEMMA AnswerStep ==
    ASSUME IInv, ElsewhereKept, UNCHANGED <<seqRead, accepted, deferred>>,
           NEW r \in Reqs, NEW a \in Answers, pc[r] \notin Listed, Answer(r, a)
    PROVE  IInv'
  <1> USE DEF IInv
  <1>1. /\ UNCHANGED <<ledger, db, queues, aged, signal, open, old, tick, config>>
        /\ faults' \in 0..MaxFaults
    BY FaultType DEF ElsewhereKept, queueVars
  <1>2. pc' = [pc EXCEPT ![r] = "returned"] /\ Send({r}, a)
    BY DEF Answer
  <1>3. \A x \in Reqs : /\ pc'[x] = IF x = r THEN "returned" ELSE pc[x]
                        /\ sent'[x] = IF x = r THEN sent[x] + 1 ELSE sent[x]
    BY <1>2 DEF Send, TypeOK
  <1>4. sent[r] = 0 /\ \A t \in Txs : r \notin open[t]
    BY DEF OpenInv
  <1>5. TypeOK'
    <2>1. sent' \in [Reqs -> 0..2]
      BY <1>2, <1>4 DEF Send, TypeOK
    <2>2. answer' \in [Reqs -> {"none"} \cup Answers]
      BY <1>2 DEF Send, TypeOK, Answers
    <2>3. pc' \in [Reqs -> {"new", "checked", "pushed", "waiting", "granted", "polling",
                            "accepted", "added", "returned"}]
      BY <1>2 DEF TypeOK
    <2> QED BY <1>1, <2>1, <2>2, <2>3 DEF TypeOK, ElsewhereKept, Answers, config
  <1>6. NoLostWaiter'
    BY <1>1, <1>3, WaitersStay
  <1>7. OpenInv'
    <2> SUFFICES ASSUME NEW x \in Reqs
                 PROVE  /\ \A t \in Txs : x \in open'[t] => t = txOf'[x] /\ pc'[x] \in Listed
                        /\ pc'[x] \notin Listed => sent'[x] = 0
                        /\ pc'[x] \in Listed => sent'[x] = IF x \in open'[txOf'[x]] THEN 0 ELSE 1
      BY DEF OpenInv
    <2>1. txOf[x] \in Txs
      BY SeqTypes
    <2>2. CASE x = r
      BY <1>1, <1>3, <1>4, <2>1, <2>2 DEF Listed, config
    <2>3. CASE x # r
      BY <1>1, <1>3, <2>3 DEF OpenInv, config
    <2> QED BY <2>2, <2>3
  <1>8. SeqInv'
    BY <1>1, <1>3 DEF SeqInv, Known, Handled, Acct, config
  <1> QED BY <1>5, <1>6, <1>7, <1>8

(* Submit goes on, with a sequence number it read or with hcnet-core's word for it. *)
LEMMA GotoStep ==
    ASSUME IInv, ElsewhereKept, UNCHANGED <<sent, answer>>,
           NEW r \in Reqs, NEW l \in {"checked", "granted", "polling", "accepted"},
           pc[r] \notin Listed, Goto(r, l),
           \/ seqRead' = seqRead
           \/ db.seq[Acct(r)] # NoAccount /\ seqRead' = [seqRead EXCEPT ![r] = db.seq[Acct(r)]],
           accepted' \in {accepted, accepted \cup {txOf[r]}}, deferred' \in {deferred, deferred \cup {txOf[r]}},
           l = "accepted" => txOf[r] \in Handled'
    PROVE  IInv'
  <1> USE DEF IInv
  <1>1. /\ UNCHANGED <<ledger, db, queues, aged, signal, open, old, tick, config>>
        /\ faults' \in 0..MaxFaults
    BY FaultType DEF ElsewhereKept, queueVars
  <1>2. \A x \in Reqs : pc'[x] = IF x = r THEN l ELSE pc[x]
    BY DEF Goto, TypeOK
  <1>3. NoLostWaiter'
    BY <1>1, <1>2, WaitersStay
  <1>4. OpenInv'
    BY <1>1, <1>2, OpenKept DEF Listed
  <1>5. txOf[r] \in Txs /\ Acct(r) \in Accounts /\ db.seq[Acct(r)] \in Seqs \cup {-1}
    BY SeqTypes
  <1>6. seqRead' \in [Reqs -> Seqs]
    BY <1>5 DEF TypeOK, NoAccount
  <1>7. TypeOK'
    <2>1. pc' \in [Reqs -> {"new", "checked", "pushed", "waiting", "granted", "polling",
                            "accepted", "added", "returned"}]
      BY DEF TypeOK, Goto
    <2>2. accepted' \subseteq Txs /\ deferred' \subseteq Txs
      BY <1>5 DEF TypeOK
    <2> QED BY <1>1, <1>6, <2>1, <2>2 DEF TypeOK, ElsewhereKept, config
  <1>8. \A x \in Reqs : Known(Acct(x), seqRead'[x])
    BY <1>5 DEF SeqInv, TypeOK
  <1>9. SeqInv'
    <2>1. \A x \in Reqs : pc'[x] \in {"accepted", "added"} => txOf[x] \in Handled'
      BY <1>2 DEF SeqInv, Handled
    <2>2. \A x \in Accounts : /\ Known(x, db'.seq[x]) /\ Known(x, tick'.view.seq[x])
                              /\ Known(x, queues'[x].nextSequence - 1)
      BY <1>1 DEF SeqInv
    <2>3. txOf' = txOf /\ ledger' = ledger /\ Handled \subseteq Handled'
      BY <1>1 DEF config, Handled
    <2> QED BY <1>7, <1>8, <2>1, <2>2, <2>3, SeqKept
  <1> QED BY <1>3, <1>4, <1>7, <1>9

LEMMA CheckStep ==
    ASSUME IInv, NEW r \in Reqs, Check(r)
    PROVE  IInv'
  <1> USE DEF IInv
  <1>1. /\ ElsewhereKept /\ UNCHANGED <<accepted, deferred>> /\ pc[r] \notin Listed
    BY DEF Check, ElsewhereKept, netVars, TypeOK, Listed
  <1>2. db.res[txOf[r]] \in {"none", "success", "failed"}
    BY SeqTypes DEF TypeOK, View
  <1>3. CASE \E a \in Answers : Answer(r, a) /\ UNCHANGED seqRead
    BY <1>1, <1>3, AnswerStep
  <1>4. CASE /\ db.seq[Acct(r)] # NoAccount /\ seqRead' = [seqRead EXCEPT ![r] = db.seq[Acct(r)]]
             /\ Goto(r, "checked") /\ UNCHANGED <<sent, answer>>
    BY <1>1, <1>4, GotoStep
  <1> QED BY <1>2, <1>3, <1>4 DEF Check, Answers

(* Receive, Cancel and Poll. *)
LEMMA WaitStep ==
    ASSUME IInv, NEW r \in Reqs, Receive(r) \/ Cancel(r) \/ Poll(r)
    PROVE  IInv'
  <1> USE DEF IInv
  <1>1. ElsewhereKept /\ UNCHANGED <<seqRead, accepted, deferred>> /\ pc[r] \notin Listed
    BY DEF Receive, Cancel, Poll, ElsewhereKept, netVars, TypeOK, Listed
  <1>2. CASE \E a \in Answers : Answer(r, a)
    BY <1>1, <1>2, AnswerStep
  <1>3. CASE Goto(r, "granted") /\ UNCHANGED <<sent, answer>>
    BY <1>1, <1>3, GotoStep
  <1>4. signal[r] \in {"none", "go", "badseq", "noroom"}
    BY DEF TypeOK
  <1> QED BY <1>2, <1>3, <1>4 DEF Receive, Cancel, Poll, Answers

LEMMA SubmitOnceStep ==
    ASSUME IInv, NEW r \in Reqs, SubmitOnce(r)
    PROVE  IInv'
  <1> USE DEF IInv
  <1>1. txOf[r] \in Txs
    BY SeqTypes
  <1>2. ElsewhereKept /\ seqRead' = seqRead /\ pc[r] \notin Listed
    BY <1>1 DEF SubmitOnce, ElsewhereKept, TypeOK, Listed
  <1>3. CASE Answer(r, "error") /\ UNCHANGED <<accepted, deferred>>
    BY <1>2, <1>3, AnswerStep DEF Answers
  <1>4. CASE /\ Goto(r, "accepted") /\ UNCHANGED <<sent, answer>>
             /\ \/ accepted' = accepted \cup {txOf[r]} /\ deferred' = deferred
                \/ accepted' = accepted /\ deferred' = deferred \cup {txOf[r]}
    <2>1. txOf[r] \in Handled'
      BY <1>4 DEF Handled
    <2> QED BY <1>2, <1>4, <2>1, GotoStep
  <1>5. CASE Goto(r, "polling") /\ UNCHANGED <<sent, answer, accepted, deferred>>
    BY <1>2, <1>5, GotoStep
  <1> QED BY <1>3, <1>4, <1>5 DEF SubmitOnce


(* Push queues the request or tells it that there is no room. *)
LEMMA PushStep ==
    ASSUME IInv, NEW r \in Reqs, SubmitPush(r)
    PROVE  IInv'
  <1> USE DEF IInv
  <1>1. /\ UNCHANGED <<netVars, seqRead, sent, answer, open, old, tick, accepted, deferred, faults, config>>
        /\ pc[r] = "checked" /\ pc' = [pc EXCEPT ![r] = "pushed"] /\ Push(r)
    BY DEF SubmitPush, Goto
  <1>2. \A x \in Reqs : pc'[x] = IF x = r THEN "pushed" ELSE pc[x]
    BY <1>1 DEF TypeOK
  <1>3. Acct(r) \in Accounts /\ \A x \in Reqs : Acct(x)' = Acct(x)
    BY <1>1, SeqTypes DEF Acct, config
  <1>4. OpenInv'
    BY <1>1, <1>2, OpenKept DEF Listed
  <1>5. pc' \in [Reqs -> {"new", "checked", "pushed", "waiting", "granted", "polling",
                          "accepted", "added", "returned"}]
    BY <1>1 DEF TypeOK
  <1>6. CASE signal' = [signal EXCEPT ![r] = "noroom"] /\ UNCHANGED <<queues, aged>>
    <2>1. TypeOK'
      <3>1. signal' \in [Reqs -> {"none", "go", "badseq", "noroom"}]
        BY <1>6 DEF TypeOK
      <3> QED BY <1>1, <1>5, <1>6, <3>1 DEF TypeOK, netVars, config
    <2>3. \A x \in Reqs : signal'[x] = IF x = r THEN "noroom" ELSE signal[x]
      BY <1>6 DEF TypeOK
    <2>4. NoLostWaiter'
      BY <1>2, <1>3, <1>6, <2>3 DEF NoLostWaiter
    <2>5. SeqInv'
      BY <1>1, <1>2, <1>6 DEF SeqInv, Known, Handled, Acct, netVars, config
    <2> QED BY <1>4, <2>1, <2>4, <2>5
  <1>7. CASE /\ ~(Size >= maxSize)
             /\ queues' = [queues EXCEPT ![Acct(r)].items = @ \cup {r}]
             /\ aged' = IF queues[Acct(r)].items = {} THEN aged \ {Acct(r)} ELSE aged
             /\ UNCHANGED signal
    <2>1. \A a \in Accounts : /\ queues'[a].items = IF a = Acct(r) THEN queues[a].items \cup {r}
                                                                   ELSE queues[a].items
                              /\ queues'[a].nextSequence = queues[a].nextSequence
      BY <1>3, <1>7, ZenonT(30) DEF TypeOK
    <2>2. TypeOK'
      <3>1. queues' \in [Accounts -> [nextSequence : {0} \cup {s + 1 : s \in Seqs}, items : SUBSET Reqs]]
        BY <1>3, <1>7 DEF TypeOK
      <3>2. aged' \subseteq Accounts
        BY <1>7 DEF TypeOK
      <3> QED BY <1>1, <1>5, <1>7, <3>1, <3>2 DEF TypeOK, netVars, config
    <2>4. NoLostWaiter'
      <3> SUFFICES ASSUME NEW x \in Reqs, pc'[x] \in {"pushed", "waiting"}, signal'[x] = "none"
                   PROVE  x \in queues'[Acct(x)'].items
        BY DEF NoLostWaiter
      <3>1. Acct(x) \in Accounts /\ Acct(x)' = Acct(x)
        BY <1>3, SeqTypes
      <3>2. CASE x = r
        BY <2>1, <3>1, <3>2
      <3>3. CASE x # r
        <4>1. x \in queues[Acct(x)].items
          BY <1>2, <1>7, <3>3 DEF NoLostWaiter
        <4> QED BY <2>1, <3>1, <4>1
      <3> QED BY <3>2, <3>3
    <2>5. SeqInv'
      <3>1. \A a \in Accounts : /\ Known(a, db'.seq[a]) /\ Known(a, tick'.view.seq[a])
                                /\ Known(a, queues'[a].nextSequence - 1)
        BY <1>1, <2>1 DEF SeqInv, netVars
      <3>2. \A x \in Reqs : /\ Known(Acct(x), seqRead'[x])
                            /\ pc'[x] \in {"accepted", "added"} => txOf[x] \in Handled'
        BY <1>1, <1>2 DEF SeqInv, Handled
      <3> QED BY <1>1, <2>2, <3>1, <3>2, SeqKept DEF netVars, config, Handled
    <2> QED BY <1>4, <2>2, <2>4, <2>5
  <1> QED BY <1>1, <1>6, <1>7 DEF Push

(* A step that updates queues with known sequence numbers. *)
LEMMA UpdateStep ==
    ASSUME IInv, NEW addys \in SUBSET Accounts, NEW seqs,
           \A a \in addys : seqs[a] \in Seqs /\ Known(a, seqs[a]),
           UNCHANGED <<ledger, db, accepted, deferred, seqRead, txOf, maxSize>>,
           ManagerUpdate(addys, seqs), TypeOK',
           \A a \in Accounts : Known(a, tick'.view.seq[a]),
           \A r \in Reqs : /\ pc'[r] \in {"pushed", "waiting"} => pc[r] \in {"pushed", "waiting"}
                           /\ pc'[r] \in {"accepted", "added"} => pc[r] \in {"accepted", "added"}
    PROVE  NoLostWaiter' /\ SeqInv'
  <1> USE DEF IInv
  <1>1. /\ \A a \in Accounts : /\ queues'[a].items \subseteq queues[a].items
                               /\ Known(a, queues[a].nextSequence - 1)'
        /\ \A r \in Reqs : r \in queues[Acct(r)].items /\ r \notin queues'[Acct(r)].items
                           => signal'[r] # "none"
        /\ \A r \in Reqs : signal[r] # "none" => signal'[r] # "none"
    BY UpdateEffect
  <1>3. \A r \in Reqs : Acct(r)' = Acct(r) /\ Acct(r) \in Accounts
    BY SeqTypes DEF Acct
  <1>4. NoLostWaiter'
    BY <1>1, <1>3 DEF NoLostWaiter
  <1>5. \A a \in Accounts : \A s : Known(a, s)' <=> Known(a, s)
    BY DEF Known, Handled
  <1>6. SeqInv'
    <2>1. \A a \in Accounts : /\ Known(a, db.seq[a])' /\ Known(a, tick.view.seq[a])'
                              /\ Known(a, queues[a].nextSequence - 1)'
      BY <1>1, <1>5 DEF SeqInv
    <2>2. \A r \in Reqs : Known(Acct(r), seqRead[r])'
      BY <1>3, <1>5 DEF SeqInv
    <2>3. \A r \in Reqs : pc'[r] \in {"accepted", "added"} => txOf'[r] \in Handled'
      BY DEF SeqInv, Handled
    <2> QED BY <2>1, <2>2, <2>3 DEF SeqInv
  <1> QED BY <1>4, <1>6

(* The numbers Submit updates the queue with. *)
LEMMA SubmitSeqs ==
    ASSUME IInv, NEW r \in Reqs, NEW seqs,
           \/ SubmitUpdate(r) /\ seqs = [a \in Accounts |-> seqRead[r]]
           \/ UpdateAccepted(r) /\ seqs = [a \in Accounts |-> SeqNum(r)]
    PROVE  /\ {Acct(r)} \in SUBSET Accounts
           /\ \A a \in {Acct(r)} : seqs[a] \in Seqs /\ Known(a, seqs[a])
           /\ ManagerUpdate({Acct(r)}, seqs)
  <1> USE DEF IInv
  <1>1. Acct(r) \in Accounts /\ SeqNum(r) \in Seqs /\ txOf[r] \in Txs
    BY SeqTypes
  <1>2. CASE SubmitUpdate(r) /\ seqs = [a \in Accounts |-> seqRead[r]]
    <2>1. seqs[Acct(r)] = seqRead[r] /\ seqRead[r] \in Seqs /\ Known(Acct(r), seqRead[r])
      BY <1>1, <1>2 DEF TypeOK, SeqInv
    <2> QED BY <1>1, <1>2, <2>1 DEF SubmitUpdate
  <1>3. CASE UpdateAccepted(r) /\ seqs = [a \in Accounts |-> SeqNum(r)]
    <2>1. txOf[r] \in Handled
      BY <1>3 DEF UpdateAccepted, SeqInv
    <2>2. Known(Acct(r), SeqNum(r))
      BY <2>1 DEF Known, Handled, Acct, SeqNum
    <2>3. seqs[Acct(r)] = SeqNum(r)
      BY <1>1, <1>3
    <2> QED BY <1>1, <1>3, <2>2, <2>3 DEF UpdateAccepted
  <1> QED BY <1>2, <1>3

LEMMA SubmitUpdateStep ==
    ASSUME IInv, NEW r \in Reqs, SubmitUpdate(r) \/ UpdateAccepted(r)
    PROVE  IInv'
  <1> USE DEF IInv
  <1>1. PICK seqs : \/ SubmitUpdate(r) /\ seqs = [a \in Accounts |-> seqRead[r]]
                    \/ UpdateAccepted(r) /\ seqs = [a \in Accounts |-> SeqNum(r)]
    OBVIOUS
  <1>2. /\ {Acct(r)} \in SUBSET Accounts
        /\ \A a \in {Acct(r)} : seqs[a] \in Seqs /\ Known(a, seqs[a])
        /\ ManagerUpdate({Acct(r)}, seqs)
    BY <1>1, SubmitSeqs
  <1>3. PICK l \in {"waiting", "returned"} :
          /\ pc' = [pc EXCEPT ![r] = l]
          /\ l = "waiting" => pc[r] = "pushed"
          /\ l = "returned" => pc[r] = "added"
    BY DEF SubmitUpdate, UpdateAccepted, Goto
  <1>4. \A x \in Reqs : pc'[x] = IF x = r THEN l ELSE pc[x]
    BY <1>3 DEF TypeOK
  <1>5. UNCHANGED <<ledger, db, mempool, seqRead, sent, answer, open, old, tick, accepted, deferred, faults, txOf, maxSize>>
    BY DEF SubmitUpdate, UpdateAccepted, netVars, config
  <1>6. OpenInv'
    BY <1>3, <1>4, <1>5, OpenKept DEF Listed, config
  <1>7. TypeOK'
    <2>1. pc' \in [Reqs -> {"new", "checked", "pushed", "waiting", "granted", "polling",
                            "accepted", "added", "returned"}]
      BY <1>3 DEF TypeOK
    <2>2. /\ queues' \in [Accounts -> [nextSequence : {0} \cup {s + 1 : s \in Seqs}, items : SUBSET Reqs]]
          /\ signal' \in [Reqs -> {"none", "go", "badseq", "noroom"}]
          /\ aged' \subseteq Accounts
      BY <1>2, <1>5, UpdateEffect
    <2> QED BY <1>5, <2>1, <2>2 DEF TypeOK
  <1>8. \A a \in Accounts : Known(a, tick'.view.seq[a])
    BY <1>5 DEF SeqInv
  <1>9. \A x \in Reqs : /\ pc'[x] \in {"pushed", "waiting"} => pc[x] \in {"pushed", "waiting"}
                        /\ pc'[x] \in {"accepted", "added"} => pc[x] \in {"accepted", "added"}
    BY <1>3, <1>4
  <1>10. NoLostWaiter' /\ SeqInv'
    BY <1>2, <1>5, <1>7, <1>8, <1>9, UpdateStep
  <1> QED BY <1>6, <1>7, <1>10

(* Pending.Add: from here on the open list has the request until it is answered. *)
LEMMA AddOpenStep ==
    ASSUME IInv, NEW r \in Reqs, AddOpen(r)
    PROVE  IInv'
  <1> USE DEF IInv
  <1>1. /\ UNCHANGED <<ledger, mempool, db, queues, aged, signal, seqRead, sent, answer, old, tick,
                       accepted, deferred, faults, config>>
        /\ pc[r] = "accepted" /\ pc' = [pc EXCEPT ![r] = "added"]
        /\ open' = [open EXCEPT ![txOf[r]] = @ \cup {r}]
    BY DEF AddOpen, Goto, netVars, queueVars
  <1>2. txOf[r] \in Txs
    BY SeqTypes
  <1>3. \A x \in Reqs : pc'[x] = IF x = r THEN "added" ELSE pc[x]
    BY <1>1 DEF TypeOK
  <1>4. \A t \in Txs : open'[t] = IF t = txOf[r] THEN open[t] \cup {r} ELSE open[t]
    BY <1>1, <1>2 DEF TypeOK
  <1>5. TypeOK'
    <2>1. open' \in [Txs -> SUBSET Reqs]
      BY <1>1, <1>2 DEF TypeOK
    <2>2. pc' \in [Reqs -> {"new", "checked", "pushed", "waiting", "granted", "polling",
                            "accepted", "added", "returned"}]
      BY <1>1 DEF TypeOK
    <2> QED BY <1>1, <2>1, <2>2 DEF TypeOK, config
  <1>6. NoLostWaiter'
    BY <1>1, <1>3, WaitersStay
  <1>7. OpenInv'
    <2> SUFFICES ASSUME NEW x \in Reqs
                 PROVE  /\ \A t \in Txs : x \in open'[t] => t = txOf'[x] /\ pc'[x] \in Listed
                        /\ pc'[x] \notin Listed => sent'[x] = 0
                        /\ pc'[x] \in Listed => sent'[x] = IF x \in open'[txOf'[x]] THEN 0 ELSE 1
      BY DEF OpenInv
    <2>1. txOf[x] \in Txs
      BY SeqTypes
    <2>2. CASE x = r
      BY <1>1, <1>2, <1>3, <1>4, <2>1, <2>2 DEF OpenInv, Listed, config
    <2>3. CASE x # r
      BY <1>1, <1>3, <1>4, <2>1, <2>3 DEF OpenInv, config
    <2> QED BY <2>2, <2>3
  <1>8. SeqInv'
    BY <1>1, <1>3 DEF SeqInv, Known, Handled, Acct, config
  <1> QED BY <1>5, <1>6, <1>7, <1>8

LEMMA SubmitStep ==
    ASSUME IInv, NEW r \in Reqs, Submit(r) \/ Cancel(r)
    PROVE  IInv'
  BY CheckStep, PushStep, SubmitUpdateStep, WaitStep, SubmitOnceStep, AddOpenStep DEF Submit


-----------------------------------------------------------------------------
(* System.Tick                                                             *)

(* The open list answers some of its transactions and forgets them. *)
LEMMA OpenAnswered ==
    ASSUME IInv, NEW ts \in SUBSET Txs, NEW a \in Answers,
           Send(UNION {open[t] : t \in ts}, a),
           open' = [t \in Txs |-> IF t \in ts THEN {} ELSE open[t]],
           UNCHANGED <<pc, config>>
    PROVE  /\ OpenInv'
           /\ sent' \in [Reqs -> 0..2]
           /\ answer' \in [Reqs -> {"none"} \cup Answers]
           /\ open' \in [Txs -> SUBSET Reqs]
  <1> USE DEF IInv
  <1> DEFINE rs == UNION {open[t] : t \in ts}
  <1>1. \A r \in Reqs : txOf[r] \in Txs /\ txOf'[r] = txOf[r]
    BY SeqTypes DEF config
  <1>2. \A r \in Reqs : r \in rs <=> txOf[r] \in ts /\ r \in open[txOf[r]]
    BY <1>1 DEF OpenInv
  <1> HIDE DEF rs
  <1>3. \A r \in Reqs : sent'[r] = IF r \in rs THEN sent[r] + 1 ELSE sent[r]
    BY DEF Send, rs
  <1>4. \A r \in Reqs : r \in rs => sent[r] = 0
    BY <1>1, <1>2 DEF OpenInv
  <1>5. OpenInv'
    <2> SUFFICES ASSUME NEW r \in Reqs
                 PROVE  /\ \A t \in Txs : r \in open'[t] => t = txOf'[r] /\ pc'[r] \in Listed
                        /\ pc'[r] \notin Listed => sent'[r] = 0
                        /\ pc'[r] \in Listed => sent'[r] = IF r \in open'[txOf'[r]] THEN 0 ELSE 1
      BY DEF OpenInv
    <2>1. \A t \in Txs : r \in open'[t] <=> r \in open[t] /\ t \notin ts
      OBVIOUS
    <2>2. /\ \A t \in Txs : r \in open[t] => t = txOf[r] /\ pc[r] \in Listed
          /\ pc[r] \notin Listed => sent[r] = 0
          /\ pc[r] \in Listed => sent[r] = IF r \in open[txOf[r]] THEN 0 ELSE 1
      BY DEF OpenInv
    <2>3. CASE r \in rs
      BY <1>1, <1>2, <1>3, <1>4, <2>1, <2>2, <2>3
    <2>4. CASE r \notin rs
      BY <1>1, <1>2, <1>3, <2>1, <2>2, <2>4
    <2> QED BY <2>3, <2>4
  <1>6. sent' \in [Reqs -> 0..2]
    <2>1. \A r \in Reqs : sent'[r] \in 0..2
      BY <1>3, <1>4 DEF TypeOK
    <2>2. sent' = [r \in Reqs |-> sent'[r]]
      BY DEF Send
    <2> QED BY <2>1, <2>2
  <1>7. answer' \in [Reqs -> {"none"} \cup Answers]
    BY DEF Send, TypeOK, Answers
  <1>8. open' \in [Txs -> SUBSET Reqs]
    BY DEF TypeOK
  <1> QED BY <1>5, <1>6, <1>7, <1>8

LEMMA TickAnswers ==
    ASSUME IInv, TickClean \/ \E t \in Txs : TickResult(t)
    PROVE  IInv'
  <1> USE DEF IInv
  <1>1. UNCHANGED <<ledger, mempool, db, queues, aged, signal, pc, seqRead, accepted, deferred, faults, config>>
    BY DEF TickClean, TickResult, netVars, queueVars
  <1>2. /\ OpenInv'
        /\ sent' \in [Reqs -> 0..2]
        /\ answer' \in [Reqs -> {"none"} \cup Answers]
        /\ open' \in [Txs -> SUBSET Reqs]
        /\ old' \subseteq Txs
    <2>1. CASE TickClean
      <3>1. /\ old \in SUBSET Txs /\ Send(UNION {open[t] : t \in old}, "timeout")
            /\ open' = [t \in Txs |-> IF t \in old THEN {} ELSE open[t]] /\ old' = {}
        BY <2>1 DEF TickClean, Clean, TypeOK
      <3> QED BY <1>1, <3>1, OpenAnswered DEF Answers
    <2>2. CASE UNCHANGED <<sent, answer, open, old>>
      BY <1>1, <2>2, OpenKept DEF TypeOK, Answers
    <2>3. CASE \E t \in Txs : TickResult(t) /\ tick.view.res[t] # "none"
      <3>1. PICK t \in Txs : TickResult(t) /\ tick.view.res[t] # "none"
        BY <2>3
      <3>2. tick.view.res[t] \in Answers
        BY <3>1 DEF TypeOK, View, Answers
      <3>3. /\ Send(open[t], tick.view.res[t]) /\ open' = [open EXCEPT ![t] = {}]
            /\ old' \subseteq Txs
        BY <3>1 DEF TickResult, Finish, TypeOK
      <3>4. open[t] = UNION {open[x] : x \in {t}}
        OBVIOUS
      <3>5. open' = [x \in Txs |-> IF x \in {t} THEN {} ELSE open[x]]
        BY <3>3 DEF TypeOK
      <3>6. {t} \in SUBSET Txs
        OBVIOUS
      <3>7. Send(UNION {open[x] : x \in {t}}, tick.view.res[t])
        BY <3>3, <3>4
      <3> QED BY <1>1, <3>2, <3>3, <3>5, <3>6, <3>7, OpenAnswered
    <2> QED BY <2>1, <2>2, <2>3 DEF TickResult
  <1>3. /\ tick' \in [at : {"idle", "queues", "results"}, addys : SUBSET Accounts,
                      view : View, todo : SUBSET Txs]
        /\ tick'.view \in {tick.view, EmptyView}
    <2>1. EmptyView \in View
      BY DEF EmptyView, View, Seqs
    <2> QED BY <2>1 DEF TickClean, TickResult, IdleTick, TypeOK
  <1>4. TypeOK'
    BY <1>1, <1>2, <1>3 DEF TypeOK, Answers, config
  <1>5. NoLostWaiter'
    BY <1>1, WaitersStay
  <1>6. SeqInv'
    <2>1. \A a \in Accounts : Known(a, EmptyView.seq[a])
      BY KnownZero
    <2>2. \A a \in Accounts : Known(a, tick'.view.seq[a])
      BY <1>3, <2>1 DEF SeqInv
    <2> QED BY <1>1, <1>4, <2>2, SeqKept DEF SeqInv, config, Handled
  <1> QED BY <1>2, <1>4, <1>5, <1>6


(* The queues of the accounts Tick saw, with the sequence numbers of its snapshot. *)
LEMMA TickQueuesStep ==
    ASSUME IInv, TickQueues
    PROVE  IInv'
  <1> USE DEF IInv
  <1> DEFINE addys == {a \in tick.addys : tick.view.seq[a] # NoAccount}
             seqs == tick.view.seq
  <1>1. /\ UNCHANGED <<ledger, mempool, db, pc, seqRead, sent, answer, open, old, accepted, deferred, faults, config>>
        /\ ManagerUpdate(addys, seqs)
        /\ tick' = [tick EXCEPT !.at = "results", !.todo = {t \in Txs : open[t] # {}}]
    BY DEF TickQueues, netVars, reqVars
  <1>2. addys \in SUBSET Accounts /\ \A a \in addys : seqs[a] \in Seqs /\ Known(a, seqs[a])
    <2>1. tick.addys \subseteq Accounts
      BY DEF TypeOK
    <2>2. \A a \in Accounts : tick.view.seq[a] \in Seqs \cup {NoAccount} /\ Known(a, tick.view.seq[a])
      BY SeqTypes DEF SeqInv, NoAccount
    <2> QED BY <2>1, <2>2
  <1> HIDE DEF addys, seqs
  <1>3. TypeOK'
    <2>1. /\ queues' \in [Accounts -> [nextSequence : {0} \cup {s + 1 : s \in Seqs}, items : SUBSET Reqs]]
          /\ signal' \in [Reqs -> {"none", "go", "badseq", "noroom"}]
          /\ aged' \subseteq Accounts
      BY <1>1, <1>2, UpdateEffect DEF config
    <2>2. tick' \in [at : {"idle", "queues", "results"}, addys : SUBSET Accounts,
                     view : View, todo : SUBSET Txs]
      BY <1>1 DEF TypeOK
    <2> QED BY <1>1, <2>1, <2>2 DEF TypeOK, config
  <1>4. \A a \in Accounts : Known(a, tick'.view.seq[a])
    BY <1>1 DEF SeqInv, TypeOK
  <1>5. NoLostWaiter' /\ SeqInv'
    BY <1>1, <1>2, <1>3, <1>4, UpdateStep DEF config
  <1>6. OpenInv'
    BY <1>1, OpenKept
  <1> QED BY <1>3, <1>5, <1>6

LEMMA TickMoves ==
    ASSUME IInv, TickBegin \/ TickError
    PROVE  IInv'
  <1> USE DEF IInv
  <1>1. /\ UNCHANGED <<ledger, mempool, db, queues, aged, signal, pc, seqRead, sent, answer, open, old,
                       accepted, deferred, config>>
        /\ faults' \in 0..MaxFaults
    BY FaultType DEF TickBegin, TickError, netVars, queueVars, reqVars
  <1>2. EmptyView \in View
    BY DEF EmptyView, View, Seqs
  <1>3. /\ tick' \in [at : {"idle", "queues", "results"}, addys : SUBSET Accounts,
                      view : View, todo : SUBSET Txs]
        /\ tick'.view \in {tick.view, EmptyView, db}
    <2>1. CASE TickBegin
      BY <1>2, <2>1 DEF TickBegin, IdleTick, TypeOK
    <2>2. CASE tick' = IdleTick
      BY <1>2, <2>2 DEF IdleTick
    <2>3. CASE \E t \in tick.todo : tick' = [tick EXCEPT !.todo = @ \ {t}]
      BY <2>3 DEF TypeOK
    <2> QED BY <2>1, <2>2, <2>3 DEF TickError
  <1>4. TypeOK'
    BY <1>1, <1>3 DEF TypeOK, config
  <1>5. NoLostWaiter' /\ OpenInv'
    BY <1>1, WaitersStay, OpenKept
  <1>6. SeqInv'
    <2>1. \A a \in Accounts : Known(a, tick'.view.seq[a])
      BY <1>3, KnownZero DEF SeqInv
    <2> QED BY <1>1, <1>4, <2>1, SeqKept DEF SeqInv, config, Handled
  <1> QED BY <1>4, <1>5, <1>6

-----------------------------------------------------------------------------
LEMMA InitInv == Init => IInv
  <1> SUFFICES ASSUME Init PROVE IInv
    OBVIOUS
  <1>1. EmptyView \in View
    BY DEF EmptyView, View, Seqs
  <1>2. NoQueue \in [nextSequence : {0} \cup {s + 1 : s \in Seqs}, items : SUBSET Reqs]
    BY DEF NoQueue
  <1>3. TypeOK
    BY <1>1, <1>2, TxSubAssumption DEF Init, TypeOK, IdleTick, Seqs
  <1>5. NoLostWaiter /\ OpenInv
    BY <1>3, SeqTypes DEF Init, NoLostWaiter, OpenInv, Listed
  <1>6. SeqInv
    <2>1. \A a \in Accounts : Known(a, db.seq[a]) /\ Known(a, tick.view.seq[a]) /\ Known(a, 0)
      BY <1>3, KnownZero DEF Init, IdleTick, EmptyView
    <2>2. \A a \in Accounts : Known(a, queues[a].nextSequence - 1)
      BY <1>3, KnownZero DEF Init, NoQueue
    <2>3. \A r \in Reqs : Known(Acct(r), seqRead[r]) /\ pc[r] = "new"
      BY <1>3, <2>1, SeqTypes DEF Init
    <2> QED BY <2>1, <2>2, <2>3 DEF SeqInv
  <1> QED BY <1>3, <1>5, <1>6 DEF IInv

LEMMA NextInv == IInv /\ [Next]_vars => IInv'
  <1> SUFFICES ASSUME IInv, [Next]_vars PROVE IInv'
    OBVIOUS
  <1>1. CASE UNCHANGED vars
    <2>1. UNCHANGED <<ledger, mempool, db, queues, aged, signal, pc, seqRead, sent, answer, open, old,
                      tick, accepted, deferred, faults, config>>
      BY <1>1 DEF vars, netVars, queueVars, reqVars
    <2>2. TypeOK' /\ SeqInv'
      BY <2>1 DEF IInv, TypeOK, SeqInv, Known, Handled, Acct, config
    <2> QED BY <2>1, <2>2, WaitersStay, OpenKept DEF IInv
  <1>2. CASE \/ \E t \in Txs : CloseLedger(t) \/ Drop(t)
             \/ \E a \in Accounts : Merge(a)
             \/ Ingest
    BY <1>2, NetworkStep
  <1>3. CASE (\E t \in Txs : TimeOut(t)) \/ (\E a \in Accounts : Age(a))
    BY <1>3, TimeStep
  <1>4. CASE \E r \in Reqs : Submit(r) \/ Cancel(r)
    BY <1>4, SubmitStep
  <1>5. CASE Tick \/ TickError
    BY <1>5, TickMoves, TickQueuesStep, TickAnswers DEF Tick
  <1> QED BY <1>1, <1>2, <1>3, <1>4, <1>5 DEF Next

LEMMA Invariance == Spec => []IInv
  BY InitInv, NextInv, PTL DEF Spec

(* Types of the submission system: a submission whose account does not exist never gets
   a sequence number, so the queue manager is never updated with one. *)
THEOREM TypeCorrect == Spec => []TypeOK
  <1>1. IInv => TypeOK
    BY DEF IInv
  <1> QED BY Invariance, <1>1, PTL

(* The response channel of a request is sent one result at most, however Submit, Finish
   and Clean interleave, and a request that Submit left unanswered is in the open list. *)
THEOREM OneAnswer == Spec => []AnsweredOnce
  <1>1. IInv => AnsweredOnce
    <2> SUFFICES ASSUME IInv, NEW r \in Reqs
                 PROVE  /\ sent[r] <= 1
                        /\ pc[r] = "returned" /\ sent[r] = 0 => r \in open[txOf[r]]
      BY DEF AnsweredOnce
    <2> QED BY DEF IInv, OpenInv, Listed
  <1> QED BY Invariance, <1>1, PTL

(* Whatever Update removes from a queue is told: a submission that waits is queued or
   signalled. *)
THEOREM WaitersKept == Spec => []NoLostWaiter
  <1>1. IInv => NoLostWaiter
    BY DEF IInv
  <1> QED BY Invariance, <1>1, PTL

-----------------------------------------------------------------------------
(* Results.                                                                *)

(* The result of a transaction in a view of the ledger is missing or the ledger's. *)
Reflects(view) == \A t \in Txs : view.res[t] \in {"none", ledger.res[t]}

(* A transaction with a result has used its sequence number, so the ledger never gets
   another result for it; whatever was read from the ledger stays true. *)
ResInv ==
    /\ \A t \in Txs : ledger.res[t] # "none" =>
           ledger.seq[AcctOf[t]] >= SeqOf[t] \/ ledger.seq[AcctOf[t]] = NoAccount
    /\ Reflects(db) /\ Reflects(tick.view)
    /\ AnswersAreTrue

(* Results only come: an answer that was true stays true. *)
LEMMA TrueStays ==
    ASSUME TypeOK, ResInv, txOf' = txOf,
           \A t \in Txs : ledger.res[t] # "none" => ledger'.res[t] = ledger.res[t],
           \A r \in Reqs : answer'[r] \in {"success", "failed"} =>
               answer'[r] = answer[r] \/ answer'[r] = ledger.res[txOf[r]]
    PROVE  AnswersAreTrue'
  <1> SUFFICES ASSUME NEW r \in Reqs, answer'[r] \in {"success", "failed"}
               PROVE  answer'[r] = ledger'.res[txOf[r]]
    BY DEF AnswersAreTrue
  <1>1. answer'[r] = ledger.res[txOf[r]]
    BY DEF ResInv, AnswersAreTrue
  <1>2. txOf[r] \in Txs
    BY SeqTypes
  <1> QED BY <1>1, <1>2

(* A ledger closes with a transaction that has no result yet. *)
LEMMA CloseResults ==
    ASSUME IInv, ResInv, NEW t \in Txs, CloseLedger(t)
    PROVE  ResInv'
  <1> USE DEF IInv
  <1>1. PICK res \in {"success", "failed"} :
          ledger' = [seq |-> [ledger.seq EXCEPT ![AcctOf[t]] = SeqOf[t]],
                     res |-> [ledger.res EXCEPT ![t] = res]]
    BY DEF CloseLedger
  <1>2. UNCHANGED <<db, tick, answer, txOf>>
    BY DEF CloseLedger, reqVars, config
  <1>3. /\ SeqOf[t] \in Nat \ {0} /\ ledger.seq[AcctOf[t]] = SeqOf[t] - 1
        /\ \A x \in Txs : AcctOf[x] \in Accounts /\ SeqOf[x] \in Nat
    BY SeqTypes DEF CloseLedger
  <1>4. ledger.seq \in [Accounts -> Seqs \cup {NoAccount}] /\ ledger.res \in [Txs -> {"none", "success", "failed"}]
    BY DEF TypeOK, View
  <1>5. /\ \A x \in Txs : ledger'.res[x] = IF x = t THEN res ELSE ledger.res[x]
        /\ \A a \in Accounts : ledger'.seq[a] = IF a = AcctOf[t] THEN SeqOf[t] ELSE ledger.seq[a]
    BY <1>1, <1>4
  <1>6. ledger.res[t] = "none"
    BY <1>3 DEF ResInv, NoAccount
  <1>7. \A x \in Txs : ledger'.res[x] # "none" =>
            ledger'.seq[AcctOf[x]] >= SeqOf[x] \/ ledger'.seq[AcctOf[x]] = NoAccount
    <2> SUFFICES ASSUME NEW x \in Txs, ledger'.res[x] # "none"
                 PROVE  ledger'.seq[AcctOf[x]] >= SeqOf[x] \/ ledger'.seq[AcctOf[x]] = NoAccount
      OBVIOUS
    <2>1. CASE x = t
      BY <1>3, <1>5, <2>1
    <2>2. CASE x # t
      BY <1>3, <1>5, <2>2 DEF ResInv, NoAccount
    <2> QED BY <2>1, <2>2
  <1>8. Reflects(db)' /\ Reflects(tick.view)'
    BY <1>2, <1>5, <1>6 DEF ResInv, Reflects
  <1>9. AnswersAreTrue'
    BY <1>2, <1>5, <1>6, TrueStays
  <1> QED BY <1>7, <1>8, <1>9 DEF ResInv

(* Where an answer comes from: Submit sends no result that it did not read, Finish sends
   the result of the snapshot and Clean none. *)
LEMMA AnswerCases ==
    ASSUME IInv, [Next]_vars
    PROVE  \/ UNCHANGED answer
           \/ \E x \in Reqs, a \in Answers :
                 Answer(x, a) /\ (a \in {"success", "failed"} => a = db.res[txOf[x]])
           \/ \E t \in Txs : Finish(t, tick.view.res[t])
           \/ Clean
  <1> USE DEF IInv
  <1>1. CASE \E r \in Reqs : Check(r)
    <2>1. PICK r \in Reqs : Check(r)
      BY <1>1
    <2>2. db.res[txOf[r]] \in {"none", "success", "failed"}
      BY SeqTypes DEF TypeOK, View
    <2> QED BY <2>1, <2>2 DEF Check, Answers
  <1>2. CASE \E r \in Reqs : Receive(r) \/ Cancel(r) \/ Poll(r)
    <2>1. PICK r \in Reqs : Receive(r) \/ Cancel(r) \/ Poll(r)
      BY <1>2
    <2>2. signal[r] \in {"none", "go", "badseq", "noroom"}
      BY DEF TypeOK
    <2> QED BY <2>1, <2>2 DEF Receive, Cancel, Poll, Answers
  <1>3. CASE \E r \in Reqs : SubmitOnce(r)
    <2>1. PICK r \in Reqs : SubmitOnce(r)
      BY <1>3
    <2>2. UNCHANGED answer \/ Answer(r, "error")
      BY <2>1 DEF SubmitOnce
    <2>3. "error" \in Answers /\ "error" \notin {"success", "failed"}
      BY DEF Answers
    <2> QED BY <2>2, <2>3
  <1>4. CASE TickClean \/ \E t \in Txs : TickResult(t)
    BY <1>4 DEF TickClean, TickResult
  <1> QED BY <1>1, <1>2, <1>3, <1>4
      DEF Next, vars, reqVars, CloseLedger, Drop, Merge, TimeOut, Age, Ingest, Submit, SubmitPush, SubmitUpdate,
          AddOpen, UpdateAccepted, Tick, TickBegin, TickQueues, TickError

(* Every other step: the results of the ledger stay, and what is sent was read. *)
LEMMA OtherResults ==
    ASSUME IInv, ResInv, [Next]_vars, ~ \E t \in Txs : CloseLedger(t)
    PROVE  ResInv'
  <1> USE DEF IInv
  <1>1. txOf' = txOf /\ ledger'.res = ledger.res
        /\ \A a \in Accounts : ledger'.seq[a] \in {ledger.seq[a], NoAccount}
    <2>1. CASE \E a \in Accounts : Merge(a)
      BY <2>1 DEF Merge, config, TypeOK, View
    <2>2. CASE UNCHANGED <<ledger, txOf>>
      BY <2>2
    <2> QED BY <2>1, <2>2
        DEF Next, vars, netVars, config, Drop, TimeOut, Age, Ingest, Submit, Check, SubmitPush, SubmitUpdate,
            Receive, SubmitOnce, AddOpen, UpdateAccepted, Poll, Cancel, Tick, TickBegin, TickQueues, TickClean,
            TickResult, TickError
  <1>2. db' \in {db, ledger}
    BY DEF Next, vars, netVars, Drop, Merge, TimeOut, Age, Ingest, Submit, Check, SubmitPush, SubmitUpdate,
           Receive, SubmitOnce, AddOpen, UpdateAccepted, Poll, Cancel, Tick, TickBegin, TickQueues, TickClean,
           TickResult, TickError
  <1>3. tick'.view \in {tick.view, db, EmptyView}
    <2>1. CASE UNCHANGED tick
      BY <2>1
    <2>2. CASE TickBegin
      BY <2>2 DEF TickBegin, IdleTick
    <2>3. CASE TickQueues \/ \E t \in Txs : TickResult(t)
      BY <2>3 DEF TickQueues, TickResult, TypeOK
    <2>4. CASE TickClean
      BY <2>4 DEF TickClean, IdleTick
    <2>5. CASE TickError
      BY <2>5 DEF TickError, IdleTick, TypeOK
    <2> QED BY <2>1, <2>2, <2>3, <2>4, <2>5
        DEF Next, vars, Drop, Merge, TimeOut, Age, Ingest, Submit, Check, SubmitPush, SubmitUpdate,
            Receive, SubmitOnce, AddOpen, UpdateAccepted, Poll, Cancel, Tick
  <1>4. Reflects(db)' /\ Reflects(tick.view)'
    <2>1. \A t \in Txs : EmptyView.res[t] = "none"
      BY DEF EmptyView
    <2> QED BY <1>1, <1>2, <1>3, <2>1 DEF ResInv, Reflects
  <1>5. \A t \in Txs : ledger'.res[t] # "none" =>
            ledger'.seq[AcctOf[t]] >= SeqOf[t] \/ ledger'.seq[AcctOf[t]] = NoAccount
    <2>1. \A t \in Txs : AcctOf[t] \in Accounts
      BY SeqTypes
    <2> QED BY <1>1, <2>1 DEF ResInv
  <1>6. \A r \in Reqs : answer'[r] \in {"success", "failed"} =>
            answer'[r] = answer[r] \/ answer'[r] = ledger.res[txOf[r]]
    <2>1. \A r \in Reqs : txOf[r] \in Txs
      BY SeqTypes
    <2>2. CASE UNCHANGED answer
      BY <2>2
    <2>3. CASE \E x \in Reqs, a \in Answers : Answer(x, a) /\ (a \in {"success", "failed"} => a = db.res[txOf[x]])
      <3>1. PICK x \in Reqs, a \in Answers :
              Answer(x, a) /\ (a \in {"success", "failed"} => a = db.res[txOf[x]])
        BY <2>3
      <3>2. \A r \in Reqs : answer'[r] = IF r = x THEN a ELSE answer[r]
        BY <3>1 DEF Answer, Send
      <3> QED BY <2>1, <3>1, <3>2 DEF ResInv, Reflects
    <2>4. CASE \E t \in Txs : Finish(t, tick.view.res[t])
      <3>1. PICK t \in Txs : Finish(t, tick.view.res[t])
        BY <2>4
      <3>2. \A r \in Reqs : answer'[r] = IF r \in open[t] THEN tick.view.res[t] ELSE answer[r]
        BY <3>1 DEF Finish, Send
      <3>3. \A r \in Reqs : r \in open[t] => t = txOf[r]
        BY DEF OpenInv
      <3> QED BY <2>1, <3>2, <3>3 DEF ResInv, Reflects
    <2>5. CASE Clean
      BY <2>5 DEF Clean, Send
    <2> QED BY <2>2, <2>3, <2>4, <2>5, AnswerCases
  <1>7. AnswersAreTrue'
    BY <1>1, <1>6, TrueStays
  <1> QED BY <1>4, <1>5, <1>7 DEF ResInv

(* A result sent to a client is the one the ledger has for its transaction and will keep,
   whoever sends it and however old the snapshot is that it was read from. *)
THEOREM TrueAnswers == Spec => []AnswersAreTrue
  <1>1. Init => ResInv
    <2> SUFFICES ASSUME Init PROVE ResInv
      OBVIOUS
    <2>1. \A t \in Txs : EmptyView.res[t] = "none"
      BY DEF EmptyView
    <2> QED BY <2>1 DEF Init, ResInv, Reflects, AnswersAreTrue, IdleTick
  <1>2. IInv /\ ResInv /\ [Next]_vars => ResInv'
    BY CloseResults, OtherResults
  <1>3. ResInv => AnswersAreTrue
    BY DEF ResInv
  <1> QED BY Invariance, <1>1, <1>2, <1>3, PTL DEF Spec

(* Only Manager.Update lets a submission go, with a number that is known. *)
LEMMA GrantStep ==
    ASSUME IInv, [Next]_vars, NEW r \in Reqs, signal[r] = "none", signal'[r] = "go"
    PROVE  Known(Acct(r), SeqNum(r) - 1)
  <1> USE DEF IInv
  <1>1. CASE UNCHANGED signal
    BY <1>1
  <1>2. CASE \E x \in Reqs : SubmitPush(x)
    BY <1>2 DEF SubmitPush, Push, TypeOK
  <1>3. CASE \E x \in Reqs : SubmitUpdate(x) \/ UpdateAccepted(x)
    <2>1. PICK x \in Reqs : SubmitUpdate(x) \/ UpdateAccepted(x)
      BY <1>3
    <2>2. PICK seqs : \/ SubmitUpdate(x) /\ seqs = [a \in Accounts |-> seqRead[x]]
                      \/ UpdateAccepted(x) /\ seqs = [a \in Accounts |-> SeqNum(x)]
      BY <2>1
    <2>3. /\ {Acct(x)} \in SUBSET Accounts
          /\ \A a \in {Acct(x)} : seqs[a] \in Seqs /\ Known(a, seqs[a])
          /\ ManagerUpdate({Acct(x)}, seqs)
      BY <2>2, SubmitSeqs
    <2>4. UNCHANGED <<ledger, accepted, deferred, txOf>>
      BY <2>1 DEF SubmitUpdate, UpdateAccepted, netVars, config
    <2> QED BY <2>3, <2>4, UpdateEffect
  <1>4. CASE TickQueues
    <2> DEFINE addys == {a \in tick.addys : tick.view.seq[a] # NoAccount}
               seqs == tick.view.seq
    <2>1. ManagerUpdate(addys, seqs) /\ UNCHANGED <<ledger, accepted, deferred, txOf>>
      BY <1>4 DEF TickQueues, netVars, config
    <2>2. addys \in SUBSET Accounts /\ \A a \in addys : seqs[a] \in Seqs /\ Known(a, seqs[a])
      <3>1. tick.addys \subseteq Accounts
        BY DEF TypeOK
      <3>2. \A a \in Accounts : tick.view.seq[a] \in Seqs \cup {NoAccount} /\ Known(a, tick.view.seq[a])
        BY SeqTypes DEF SeqInv, NoAccount
      <3> QED BY <3>1, <3>2
    <2> HIDE DEF addys, seqs
    <2> QED BY <2>1, <2>2, UpdateEffect
  <1> QED BY <1>1, <1>2, <1>3, <1>4
      DEF Next, vars, queueVars, CloseLedger, Drop, TimeOut, Merge, Age, Ingest, Submit, Check, Receive,
          SubmitOnce, AddOpen, Poll, Cancel, Tick, TickBegin, TickClean, TickResult, TickError

(* A submission is let go only when its predecessor is in the ledger, was taken or
   deferred by hcnet-core, or the account is gone, whichever goroutine updates the queue and however old the sequence number
   is that it read. *)
THEOREM Granted == Spec => GrantedInOrder
  <1>1. IInv /\ [Next]_vars =>
          [\A r \in Reqs : signal[r] = "none" /\ signal'[r] = "go" =>
              \/ SeqNum(r) - 1 <= ledger.seq[Acct(r)] \/ ledger.seq[Acct(r)] = NoAccount
              \/ \E t \in accepted \cup deferred : AcctOf[t] = Acct(r) /\ SeqOf[t] = SeqNum(r) - 1]_vars
    BY GrantStep DEF Known, Handled
  <1> QED BY Invariance, <1>1, PTL DEF Spec, GrantedInOrder
=============================================================================
