------------------------ MODULE HistoryStreamProofs ------------------------
(***************************************************************************)
(* Proofs about HistoryStream for any number of ledgers, records, faults   *)
(* and connections, any page limit and every retention the reaper's int32  *)
(* holds.                                                                  *)
(***************************************************************************)
EXTENDS HistoryStream, FiniteSetTheorems, SequenceTheorems, TLAPS

(* The database: the latest ledger is never reaped, and the ids of records end before
   those of the next ledger. *)
DbInv ==
    /\ latest \in Nat \ {0}
    /\ ledgers \subseteq 1 .. latest /\ latest \in ledgers
    /\ records \subseteq ever
    /\ ever \subseteq Nat \ {0} /\ \A id \in ever : id <= AfterLedger(latest)

(* The cache, and what is read for it, is not ahead of the database. *)
CacheInv ==
    /\ cached \in [historyLatest : 1 .. latest, historyElder : Nat, expHistoryLatest : Nat]
    /\ tick \in Seq(Nat) /\ (tick # <<>> => tick[1] \in 1 .. latest)
    /\ reaper \in [pc : {"idle", "called", "ledgers"}, target : 0 .. latest]

(* What the client has read and what is on its way. *)
Sent == client.handled \o wire

InSent(id) == \E i \in 1 .. Len(Sent) : Sent[i] = id

(* What the client is owed, once something is on its way to it. *)
Asked(id) ==
    IF client.from # Now THEN id > client.from
    ELSE Sent # <<>> /\ LedgerOf(id) >= LedgerOf(Sent[1])

Owed(id) == Asked(id) \/ DueNow(id)

(* Nothing was sent yet to a client that wants to begin `now`. *)
Fresh == client.from = Now /\ Sent = <<>>

(* `now` is always the end of a ledger. *)
Boundary(c) == \E l \in Nat : c = AfterLedger(l)

(* All that was sent is in order and without a gap. *)
SentInv ==
    /\ \A i \in 1 .. Len(Sent) : Sent[i] \in Nat \ {0} /\ Sent[i] <= AfterLedger(latest)
    /\ \A i, j \in 1 .. Len(Sent) : i < j => Sent[i] < Sent[j]
    /\ \A id \in records, i \in 1 .. Len(Sent) : Owed(id) /\ id <= Sent[i] => InSent(id)

(* A new connection goes on where the client is. *)
ClientInv ==
    /\ client.handled # <<>> => client.cursor = client.handled[Len(client.handled)]
    /\ client.handled = <<>> => client.cursor = client.from
    /\ client.pc = "connecting" => wire = <<>>
    /\ server.cursor = Now => client.from = Now

Serving == server.pc \in {"start", "generate", "select", "wait"}

(* The server goes on after lastEventID, or where it began. *)
ServerInv ==
    Serving =>
        /\ client.pc = "reading"
        /\ server.lastEventID = 0 =>
              /\ wire = <<>> /\ server.cursor = client.cursor
              /\ server.cursor = Now => ~server.init
        /\ server.lastEventID # 0 =>
              /\ server.init
              /\ \A i \in 1 .. Len(Sent) : Sent[i] <= server.lastEventID
              /\ \A id \in records : Owed(id) /\ id <= server.lastEventID => InSent(id)
              /\ \/ server.lastEventID <= AfterLedger(latest)
                 \/ client.from # Now /\ server.lastEventID <= client.from
              /\ Fresh => Boundary(server.lastEventID)
        /\ server.cursor = Now =>
              server.pq \in Nat \ {0} /\ server.pq <= AfterLedger(latest) /\ Boundary(server.pq)
        /\ server.cursor # Now => server.pq = server.cursor
        /\ ~server.init => ~server.empty

ClientRecord == [pc : {"connecting", "reading", "failed"}, cursor : Nat \union {Now},
                 from : Nat \union {Now}, handled : Seq(Nat)]
ServerRecord == [pc : {"none", "start", "generate", "select", "wait", "done"}, cursor : Nat \union {Now},
                 lastEventID : Nat, pq : Nat, sequence : Nat, limit : 0 .. Limit, newLedgers : Nat,
                 init : BOOLEAN, sent : BOOLEAN, empty : BOOLEAN]

TypeInv == client \in ClientRecord /\ server \in ServerRecord /\ wire \in Seq(Nat)

(* The inductive invariant. *)
IInv == DbInv /\ CacheInv /\ TypeInv /\ SentInv /\ ClientInv /\ ServerInv /\ RetainedIsKept

-----------------------------------------------------------------------------
(* Identifiers.                                                            *)

LEMMA WidthType == Width \in Nat /\ Width > MaxRecords + 1 /\ MaxRecords \in Nat
  BY StreamAssumption DEF Width

(* The identifiers of a ledger follow those of the one before. *)
LEMMA ToidFacts ==
    ASSUME NEW l \in Nat
    PROVE  /\ AfterLedger(l) \in Nat \ {0}
           /\ AfterLedger(l + 1) = AfterLedger(l) + Width
           /\ \A i \in 0 .. MaxRecords :
                 Toid(l + 1, i) = AfterLedger(l) + 1 + i /\ Toid(l + 1, i) <= AfterLedger(l + 1)
  <1>1. l * Width \in Nat /\ (l + 1) * Width = l * Width + Width
    BY WidthType
  <1>2. AfterLedger(l) = l * Width + Width - 1 /\ AfterLedger(l + 1) = (l + 1) * Width + Width - 1
    BY WidthType DEF AfterLedger, Toid
  <1>3. \A i \in 0 .. MaxRecords : Toid(l + 1, i) = (l + 1) * Width + i
    BY DEF Toid
  <1> QED BY <1>1, <1>2, <1>3, WidthType

LEMMA AfterLedgerMonotonic ==
    ASSUME NEW l \in Nat, NEW m \in Nat, l <= m
    PROVE  AfterLedger(l) <= AfterLedger(m)
  <1>1. l * Width \in Nat /\ m * Width \in Nat /\ l * Width <= m * Width
    BY WidthType
  <1>2. AfterLedger(l) = l * Width + Width - 1 /\ AfterLedger(m) = m * Width + Width - 1
    BY WidthType DEF AfterLedger, Toid
  <1> QED BY <1>1, <1>2, WidthType

LEMMA LedgerOfType ==
    ASSUME NEW id \in Nat
    PROVE  LedgerOf(id) \in Int
  BY WidthType DEF LedgerOf

(* A record of the ledger of one that is after the end of a ledger is after it, too. *)
LEMMA SameLedgerAfter ==
    ASSUME NEW l \in Nat, NEW x \in Nat, NEW y \in Nat, x > AfterLedger(l), LedgerOf(y) >= LedgerOf(x)
    PROVE  y > AfterLedger(l)
  <1> DEFINE q == x \div Width
             r == y \div Width
  <1>1. Width \in Nat /\ Width > 0
    BY WidthType
  <1>2. AfterLedger(l) = l * Width + Width - 1 /\ l * Width \in Nat
    BY <1>1 DEF AfterLedger, Toid
  <1>3. q \in Int /\ r \in Int /\ r >= q
    BY <1>1 DEF LedgerOf
  <1>4. /\ Width * q <= x /\ x < Width * q + Width
        /\ Width * r <= y /\ y < Width * r + Width
    BY <1>1
  <1> HIDE DEF q, r
  <1>5. q >= l + 1
    BY <1>1, <1>2, <1>3, <1>4
  <1>6. Width * r >= Width * (l + 1)
    BY <1>1, <1>3, <1>5
  <1>7. Width * (l + 1) = l * Width + Width
    BY <1>1
  <1> QED BY <1>1, <1>2, <1>3, <1>4, <1>6, <1>7

-----------------------------------------------------------------------------
(* Finite sets of numbers by rank.                                         *)

Less == {p \in Nat \X Nat : p[1] < p[2]}

LEMMA LessWellFounded == IsWellFoundedOn(Less, Nat)
  BY NatLessThanWellFounded DEF OpToRel, Less

LEMMA Smallest ==
    ASSUME NEW T \in SUBSET Nat, T # {}
    PROVE  \E x \in T : \A y \in T : x <= y
  <1>1. PICK x \in T : \A y \in T : ~(<<y, x>> \in Less)
    BY LessWellFounded, WFMin
  <1>2. \A y \in T : ~(y < x)
    BY <1>1 DEF Less
  <1> QED BY <1>1, <1>2

Below(S, x) == {a \in S : a < x}
Rank(S, x) == Cardinality(Below(S, x))

LEMMA RankType ==
    ASSUME NEW S, IsFiniteSet(S), NEW x
    PROVE  IsFiniteSet(Below(S, x)) /\ Rank(S, x) \in Nat /\ Rank(S, x) <= Cardinality(S)
  <1>1. Below(S, x) \in SUBSET S
    BY DEF Below
  <1> QED BY <1>1, FS_Subset, FS_CardinalityType DEF Rank

(* A larger element has a larger rank. *)
LEMMA RankGrows ==
    ASSUME NEW S \in SUBSET Nat, IsFiniteSet(S), NEW x \in S, NEW y \in S, x < y
    PROVE  Rank(S, x) < Rank(S, y)
  <1>1. x \notin Below(S, x) /\ Below(S, x) \union {x} \in SUBSET Below(S, y)
    <2>1. x \in Nat /\ y \in Nat /\ ~(x < x) /\ \A a \in S : a \in Nat /\ (a < x => a < y)
      OBVIOUS
    <2> QED BY <2>1 DEF Below
  <1>2. IsFiniteSet(Below(S, x)) /\ IsFiniteSet(Below(S, y)) /\ Rank(S, x) \in Nat /\ Rank(S, y) \in Nat
    BY RankType
  <1>3. Cardinality(Below(S, x) \union {x}) = Rank(S, x) + 1
    BY <1>1, <1>2, FS_AddElement DEF Rank
  <1>4. Cardinality(Below(S, x) \union {x}) <= Rank(S, y)
    BY <1>1, <1>2, FS_Subset DEF Rank
  <1> QED BY <1>2, <1>3, <1>4

LEMMA RankUnique ==
    ASSUME NEW S \in SUBSET Nat, IsFiniteSet(S), NEW x \in S, NEW y \in S, Rank(S, x) = Rank(S, y)
    PROVE  x = y
  <1>1. Rank(S, x) \in Nat /\ Rank(S, y) \in Nat /\ x \in Nat /\ y \in Nat
    BY RankType
  <1>2. ~(x < y)
    BY <1>1, RankGrows
  <1>3. ~(y < x)
    BY <1>1, RankGrows
  <1> QED BY <1>1, <1>2, <1>3

(* There is an element of every rank: otherwise take the smallest rank without one. *)
LEMMA RankExists ==
    ASSUME NEW S \in SUBSET Nat, IsFiniteSet(S), NEW k \in Nat, k < Cardinality(S)
    PROVE  \E x \in S : Rank(S, x) = k
  <1> DEFINE T == {n \in Nat : n < Cardinality(S) /\ ~\E x \in S : Rank(S, x) = n}
  <1>1. SUFFICES ASSUME T # {} PROVE FALSE
    BY DEF T
  <1>2. Cardinality(S) \in Nat
    BY FS_CardinalityType
  <1>3. PICK m \in T : \A n \in T : m <= n
    BY <1>1, Smallest
  <1>4. m \in Nat /\ m < Cardinality(S) /\ ~\E x \in S : Rank(S, x) = m
    BY <1>3
  <1>5. CASE m = 0
    <2>1. S # {}
      BY <1>2, <1>4, <1>5, FS_EmptySet
    <2>2. PICK x \in S : \A y \in S : x <= y
      BY <2>1, Smallest
    <2>3. \A a \in S : ~(a < x)
      BY <2>2
    <2>4. Below(S, x) = {}
      BY <2>3 DEF Below
    <2>5. Rank(S, x) = 0
      BY <2>4, FS_EmptySet DEF Rank
    <2> QED BY <1>4, <1>5, <2>2, <2>5
  <1>6. CASE m > 0
    <2>1. m - 1 \in Nat /\ m - 1 < Cardinality(S) /\ m - 1 \notin T
      BY <1>2, <1>3, <1>4, <1>6
    <2>2. PICK x \in S : Rank(S, x) = m - 1
      BY <2>1
    <2> DEFINE U == {a \in S : a > x}
    <2>3. IsFiniteSet(Below(S, x)) /\ x \notin Below(S, x)
      BY RankType DEF Below
    <2>4. Cardinality(Below(S, x) \union {x}) = m
      <3>1. Cardinality(Below(S, x) \union {x}) = Rank(S, x) + 1
        BY <2>3, FS_AddElement DEF Rank
      <3> QED BY <1>4, <2>2, <3>1
    <2>5. U # {}
      <3>1. ASSUME U = {} PROVE S = Below(S, x) \union {x}
        <4>1. \A a \in S : ~(a > x)
          BY <3>1
        <4>2. \A a \in S : a < x \/ a = x
          BY <4>1
        <4> QED BY <2>2, <4>2 DEF Below
      <3> QED BY <1>2, <1>4, <2>4, <3>1
    <2>6. PICK y \in U : \A a \in U : y <= a
      BY <2>5, Smallest
    <2>7. Below(S, y) = Below(S, x) \union {x}
      <3>1. y \in S /\ y > x /\ \A a \in S : a > x => y <= a
        BY <2>6
      <3>2. \A a \in S : a < y <=> a < x \/ a = x
        BY <3>1
      <3> QED BY <2>2, <3>2 DEF Below
    <2> QED BY <1>4, <2>4, <2>6, <2>7 DEF Rank
  <1> QED BY <1>4, <1>5, <1>6

-----------------------------------------------------------------------------
(* Pages.                                                                  *)

LEMMA MinOfTwo ==
    ASSUME NEW a \in Nat, NEW b \in Nat
    PROVE  Min({a, b}) = IF a <= b THEN a ELSE b
  BY DEF Min

(* A page holds records after the cursor, in order and without a gap. *)
LEMMA PageFacts ==
    ASSUME DbInv, NEW cursor \in Nat
    PROVE  /\ Page(cursor) \in Seq(Nat)
           /\ \A i \in 1 .. Len(Page(cursor)) : Page(cursor)[i] \in records /\ Page(cursor)[i] > cursor
           /\ \A i, j \in 1 .. Len(Page(cursor)) : i < j => Page(cursor)[i] < Page(cursor)[j]
           /\ \A id \in records, i \in 1 .. Len(Page(cursor)) :
                 id > cursor /\ id <= Page(cursor)[i] => \E j \in 1 .. i : Page(cursor)[j] = id
  <1> DEFINE after == {id \in records : id > cursor}
             n == Min({Limit, Cardinality(after)})
  <1>1. after \in SUBSET Nat /\ IsFiniteSet(after) /\ Cardinality(after) \in Nat
    <2>1. after \in SUBSET Nat /\ \A id \in after : id <= AfterLedger(latest)
      BY DEF DbInv
    <2>2. AfterLedger(latest) \in Nat
      BY ToidFacts DEF DbInv
    <2>3. IsFiniteSet(after)
      BY <2>1, <2>2, FS_BoundedSetOfNaturals
    <2> QED BY <2>1, <2>3, FS_CardinalityType
  <1>2. n \in Nat /\ n <= Cardinality(after)
    BY <1>1, MinOfTwo, StreamAssumption
  <1> DEFINE elem(i) == CHOOSE id \in after : Cardinality({a \in after : a < id}) = i - 1
  <1>3. Page(cursor) = [i \in 1 .. n |-> elem(i)]
    BY DEF Page
  <1>4. ASSUME NEW i \in 1 .. n
        PROVE  elem(i) \in after /\ Rank(after, elem(i)) = i - 1
    <2>1. i - 1 \in Nat /\ i - 1 < Cardinality(after)
      BY <1>1, <1>2
    <2> HIDE DEF after
    <2>2. \E x \in after : Rank(after, x) = i - 1
      BY <1>1, <2>1, RankExists
    <2>3. \E x \in after : Cardinality({a \in after : a < x}) = i - 1
      BY <2>2 DEF Rank, Below
    <2> QED BY <2>3 DEF Rank, Below
  <1> HIDE DEF n, elem
  <1>5. /\ Len(Page(cursor)) = n /\ Page(cursor) \in Seq(Nat)
        /\ \A i \in 1 .. n : Page(cursor)[i] = elem(i)
    <2>1. \A i \in 1 .. n : elem(i) \in Nat
      BY <1>1, <1>4
    <2> QED BY <1>2, <1>3, <2>1
  <1>6. \A i \in 1 .. n : Page(cursor)[i] \in records /\ Page(cursor)[i] > cursor
    BY <1>4, <1>5
  <1>7. ASSUME NEW i \in 1 .. n, NEW j \in 1 .. n, i < j
        PROVE  elem(i) < elem(j)
    <2>1. elem(i) \in after /\ elem(j) \in after /\ Rank(after, elem(i)) = i - 1 /\ Rank(after, elem(j)) = j - 1
      BY <1>4
    <2> HIDE DEF after
    <2>2. elem(i) \in Nat /\ elem(j) \in Nat
      BY <1>1, <2>1
    <2>3. elem(i) # elem(j)
      BY <1>2, <1>7, <2>1
    <2>4. ~(elem(j) < elem(i))
      <3>1. ASSUME elem(j) < elem(i) PROVE Rank(after, elem(j)) < Rank(after, elem(i))
        <4> DEFINE x == elem(j)
                   y == elem(i)
        <4>1. x \in after /\ y \in after /\ x < y
          BY <2>1, <3>1
        <4> HIDE DEF x, y
        <4>2. Rank(after, x) < Rank(after, y)
          BY <1>1, <4>1, RankGrows
        <4> QED BY <4>2 DEF x, y
      <3> QED BY <1>2, <1>7, <2>1, <3>1
    <2> QED BY <2>2, <2>3, <2>4
  <1>8. ASSUME NEW id \in after, NEW i \in 1 .. n, id <= elem(i)
        PROVE  \E j \in 1 .. i : elem(j) = id
    <2>1. elem(i) \in after /\ Rank(after, elem(i)) = i - 1
      BY <1>4
    <2> HIDE DEF after
    <2>2. Rank(after, id) \in Nat /\ id \in Nat /\ elem(i) \in Nat
      BY <1>1, <2>1, RankType
    <2>3. Rank(after, id) <= i - 1
      <3>1. CASE id = elem(i)
        BY <1>2, <2>1, <3>1
      <3>2. CASE id < elem(i)
        <4>1. Rank(after, id) < Rank(after, elem(i))
          BY <1>1, <2>1, <3>2, RankGrows
        <4> QED BY <1>2, <2>1, <2>2, <4>1
      <3> QED BY <1>8, <2>2, <3>1, <3>2
    <2> DEFINE j == Rank(after, id) + 1
    <2>4. j \in 1 .. i /\ j \in 1 .. n /\ j - 1 = Rank(after, id)
      BY <1>2, <2>2, <2>3
    <2>5. elem(j) \in after /\ Rank(after, elem(j)) = Rank(after, id)
      BY <1>4, <2>4
    <2>6. elem(j) = id
      <3> DEFINE x == elem(j)
      <3>1. x \in after /\ Rank(after, x) = Rank(after, id)
        BY <2>5
      <3> HIDE DEF x
      <3>2. x = id
        BY <1>1, <3>1, RankUnique
      <3> QED BY <3>2 DEF x
    <2> QED BY <2>4, <2>6
  <1> QED
    <2>1. \A i, j \in 1 .. n : i < j => Page(cursor)[i] < Page(cursor)[j]
      BY <1>5, <1>7
    <2>2. ASSUME NEW id \in records, NEW i \in 1 .. n, id > cursor, id <= Page(cursor)[i]
          PROVE  \E j \in 1 .. i : Page(cursor)[j] = id
      <3>1. id \in after /\ id <= elem(i)
        BY <1>5, <2>2
      <3>2. PICK j \in 1 .. i : elem(j) = id
        BY <1>8, <3>1
      <3>3. j \in 1 .. n
        BY <1>2, <3>2
      <3> QED BY <1>5, <3>2, <3>3
    <2> QED BY <1>5, <1>6, <2>1, <2>2

-----------------------------------------------------------------------------
(* Ingestion, the ticks and the reaper.                                    *)

(* The connection does not notice ledgers that come and records that go. *)
LEMMA ConnectionKept ==
    ASSUME IInv, UNCHANGED connVars, latest' \in Nat, latest' >= latest,
           \A id \in records' : id \in Nat /\ (id \in records \/ id > AfterLedger(latest))
    PROVE  TypeInv' /\ SentInv' /\ ClientInv' /\ ServerInv'
  <1> USE DEF IInv
  <1>1. UNCHANGED <<server, wire, client>> /\ Sent' = Sent
    BY DEF connVars, Sent
  <1>2. /\ AfterLedger(latest) \in Nat /\ AfterLedger(latest') \in Nat /\ AfterLedger(latest) <= AfterLedger(latest')
        /\ latest \in Nat
    BY ToidFacts, AfterLedgerMonotonic DEF DbInv
  <1>3. TypeInv' /\ ClientInv'
    BY <1>1 DEF TypeInv, ClientInv
  <1>4. /\ \A id : (Owed(id)' <=> Owed(id)) /\ (InSent(id)' <=> InSent(id))
        /\ Fresh' <=> Fresh
    BY <1>1 DEF Owed, Asked, DueNow, InSent, Fresh
  <1>5. SentInv'
    <2>1. \A i \in 1 .. Len(Sent) : Sent[i] \in Nat \ {0} /\ Sent[i] <= AfterLedger(latest)
      BY DEF SentInv
    <2>2. \A i \in 1 .. Len(Sent) : Sent[i] \in Nat \ {0} /\ Sent[i] <= AfterLedger(latest')
      BY <1>2, <2>1
    <2>3. ASSUME NEW id \in records', NEW i \in 1 .. Len(Sent), Owed(id), id <= Sent[i]
          PROVE  InSent(id)
      <3>1. id \in records
        BY <1>2, <2>1, <2>3
      <3> QED BY <2>3, <3>1 DEF SentInv
    <2>4. \A i, j \in 1 .. Len(Sent) : i < j => Sent[i] < Sent[j]
      BY DEF SentInv
    <2> QED BY <1>1, <1>4, <2>2, <2>3, <2>4 DEF SentInv
  <1>6. ServerInv'
    <2>1. SUFFICES ASSUME Serving, Serving' PROVE ServerInv'
      BY <1>1 DEF ServerInv, Serving
    <2>2. /\ server.lastEventID \in Nat /\ server.pq \in Nat /\ client.from \in Nat \union {Now}
      BY DEF TypeInv, ServerRecord, ClientRecord
    <2>3. ASSUME server.lastEventID # 0, NEW id \in records', Owed(id), id <= server.lastEventID
          PROVE  InSent(id)
      <3>1. CASE id \in records
        BY <2>1, <2>3, <3>1 DEF ServerInv
      <3>2. CASE id > AfterLedger(latest)
        <4>1. \/ server.lastEventID <= AfterLedger(latest)
              \/ client.from # Now /\ server.lastEventID <= client.from
          BY <2>1, <2>3 DEF ServerInv
        <4> QED BY <1>2, <2>2, <2>3, <3>2, <4>1 DEF Owed, Asked, DueNow, ClientInv
      <3> QED BY <3>1, <3>2
    <2>4. server.lastEventID <= AfterLedger(latest) => server.lastEventID <= AfterLedger(latest')
      BY <1>2, <2>2
    <2>5. server.pq <= AfterLedger(latest) => server.pq <= AfterLedger(latest')
      BY <1>2, <2>2
    <2> QED BY <1>1, <1>4, <2>1, <2>3, <2>4, <2>5 DEF ServerInv
  <1> QED BY <1>3, <1>5, <1>6

(* A ledger is committed with its records. *)
LEMMA IngestStep ==
    ASSUME IInv, NEW n \in 0 .. MaxRecords, Ingest(n)
    PROVE  IInv'
  <1> USE DEF IInv
  <1> DEFINE new == {Toid(latest + 1, i) : i \in 1 .. n}
  <1>1. /\ latest' = latest + 1 /\ ledgers' = ledgers \union {latest + 1}
        /\ records' = records \union new /\ ever' = ever \union new
        /\ UNCHANGED <<cached, tick, reaper>> /\ UNCHANGED connVars
    BY DEF Ingest, appVars
  <1>2. latest \in Nat \ {0} /\ MaxRecords \in Nat
    BY WidthType DEF DbInv
  <1>3. \A id \in new : id \in Nat \ {0} /\ id > AfterLedger(latest) /\ id <= AfterLedger(latest')
    <2>1. /\ AfterLedger(latest) \in Nat
          /\ \A i \in 0 .. MaxRecords :
                Toid(latest + 1, i) = AfterLedger(latest) + 1 + i /\ Toid(latest + 1, i) <= AfterLedger(latest + 1)
      BY <1>2, ToidFacts
    <2> QED BY <1>1, <1>2, <2>1
  <1> HIDE DEF new
  <1>4. AfterLedger(latest) \in Nat /\ AfterLedger(latest') \in Nat /\ AfterLedger(latest) <= AfterLedger(latest')
    <2>1. /\ AfterLedger(latest) \in Nat /\ AfterLedger(latest + 1) = AfterLedger(latest) + Width
          /\ Width \in Nat
      BY <1>2, ToidFacts, WidthType
    <2>2. AfterLedger(latest') = AfterLedger(latest + 1)
      BY <1>1
    <2> QED BY <2>1, <2>2
  <1>5. DbInv'
    <2>1. ledgers' \subseteq 1 .. latest' /\ latest' \in ledgers' /\ latest' \in Nat \ {0}
      BY <1>1, <1>2 DEF DbInv
    <2>2. records' \subseteq ever' /\ ever' \subseteq Nat \ {0}
      BY <1>1, <1>3 DEF DbInv
    <2>3. \A id \in ever' : id <= AfterLedger(latest')
      BY <1>1, <1>3, <1>4 DEF DbInv
    <2> QED BY <2>1, <2>2, <2>3 DEF DbInv
  <1>6. CacheInv'
    <2>1. 1 .. latest \subseteq 1 .. latest' /\ 0 .. latest \subseteq 0 .. latest'
      BY <1>1, <1>2
    <2> QED BY <1>1, <2>1 DEF CacheInv
  <1>7. TypeInv' /\ SentInv' /\ ClientInv' /\ ServerInv'
    <2>1. \A id \in records' : id \in Nat /\ (id \in records \/ id > AfterLedger(latest))
      BY <1>1, <1>3 DEF DbInv
    <2>2. latest' \in Nat /\ latest' >= latest
      BY <1>1, <1>2
    <2> QED BY <1>1, <2>1, <2>2, ConnectionKept
  <1>8. RetainedIsKept'
    <2>1. SUFFICES ASSUME NEW id \in ever', LedgerOf(id) > latest' - RetentionCount
                   PROVE  id \in records'
      BY DEF RetainedIsKept
    <2>2. CASE id \in new
      BY <1>1, <2>2
    <2>3. CASE id \in ever
      <3>1. LedgerOf(id) \in Int /\ RetentionCount \in Nat
        BY <2>3, LedgerOfType, StreamAssumption DEF DbInv
      <3>2. LedgerOf(id) > latest - RetentionCount
        BY <1>1, <1>2, <2>1, <3>1
      <3> QED BY <1>1, <2>3, <3>2 DEF RetainedIsKept
    <2> QED BY <1>1, <2>2, <2>3
  <1> QED BY <1>5, <1>6, <1>7, <1>8

(* What a tick reads from the ledgers table. *)
LEMMA LedgerBounds ==
    ASSUME DbInv
    PROVE  MaxOrZero(ledgers) = latest /\ MinOrZero(ledgers) \in Nat
  <1>1. latest \in Nat /\ latest \in ledgers /\ \A l \in ledgers : l \in Nat /\ l <= latest
    BY DEF DbInv
  <1>2. MaxOrZero(ledgers) = latest
    <2>1. \A y \in ledgers : latest >= y
      BY <1>1
    <2>2. Max(ledgers) \in ledgers /\ \A y \in ledgers : Max(ledgers) >= y
      BY <1>1, <2>1 DEF Max
    <2> DEFINE m == Max(ledgers)
    <2>3. m \in Nat /\ m <= latest /\ m >= latest
      <3> HIDE DEF m
      <3>1. m \in ledgers /\ \A y \in ledgers : m >= y
        BY <2>2 DEF m
      <3> QED BY <1>1, <3>1
    <2>4. m = latest
      <3> HIDE DEF m
      <3> QED BY <1>1, <2>3
    <2> QED BY <1>1, <2>4 DEF MaxOrZero
  <1>3. Min(ledgers) \in ledgers
    <2>1. \E x \in ledgers : \A y \in ledgers : x <= y
      BY <1>1, Smallest
    <2> QED BY <2>1 DEF Min
  <1> QED BY <1>1, <1>2, <1>3 DEF MinOrZero

(* The queries of a tick and its cache. *)
LEMMA TickStep ==
    ASSUME IInv, Tick \/ TickFails
    PROVE  IInv'
  <1> USE DEF IInv
  <1>1. UNCHANGED <<latest, records, ledgers, ever>> /\ UNCHANGED connVars
    BY DEF Tick, TickLatest, TickElder, TickSetState, TickFails, dbVars
  <1>2. latest \in Nat /\ latest \in 1 .. latest
    BY DEF DbInv
  <1>3. DbInv' /\ RetainedIsKept'
    BY <1>1 DEF DbInv, RetainedIsKept
  <1>4. TypeInv' /\ SentInv' /\ ClientInv' /\ ServerInv'
    <2>1. \A id \in records' : id \in Nat /\ (id \in records \/ id > AfterLedger(latest))
      BY <1>1 DEF DbInv
    <2>2. latest' \in Nat /\ latest' >= latest
      BY <1>1, <1>2
    <2> QED BY <1>1, <2>1, <2>2, ConnectionKept
  <1>5. tick \in Seq(Nat) /\ reaper \in [pc : {"idle", "called", "ledgers"}, target : 0 .. latest]
        /\ cached \in [historyLatest : 1 .. latest, historyElder : Nat, expHistoryLatest : Nat]
        /\ (tick # <<>> => tick[1] \in 1 .. latest)
    BY DEF CacheInv
  <1>6. CASE TickLatest
    <2>1. tick' = <<latest>> /\ reaper' = [reaper EXCEPT !.pc = "idle"] /\ cached' = cached
      BY <1>6, LedgerBounds DEF TickLatest
    <2>2. tick' \in Seq(Nat) /\ tick'[1] \in 1 .. latest
      BY <1>2, <2>1
    <2>3. CacheInv'
      BY <1>1, <1>5, <2>1, <2>2 DEF CacheInv
    <2> QED BY <1>3, <1>4, <2>3
  <1>7. CASE TickElder
    <2>1. tick' = Append(tick, MinOrZero(ledgers)) /\ Len(tick) = 1 /\ UNCHANGED <<cached, reaper>>
      BY <1>7 DEF TickElder
    <2>2. tick' \in Seq(Nat) /\ tick'[1] = tick[1] /\ tick # <<>>
      BY <1>5, <2>1, LedgerBounds
    <2>3. CacheInv'
      BY <1>1, <1>5, <2>1, <2>2 DEF CacheInv
    <2> QED BY <1>3, <1>4, <2>3
  <1>8. CASE TickSetState
    <2>1. /\ Len(tick) = 2 /\ tick' = <<>> /\ reaper' = [reaper EXCEPT !.pc = "called"]
          /\ cached' = [historyLatest |-> tick[1], historyElder |-> tick[2], expHistoryLatest |-> latest]
      BY <1>8 DEF TickSetState
    <2>2. tick # <<>> /\ tick[2] \in Nat
      <3>1. tick # <<>>
        BY <2>1, EmptySeq
      <3>2. 2 \in 1 .. Len(tick)
        BY <2>1
      <3> QED BY <1>5, <3>1, <3>2, ElementOfSeq
    <2>3. CacheInv'
      BY <1>1, <1>2, <1>5, <2>1, <2>2 DEF CacheInv
    <2> QED BY <1>3, <1>4, <2>3
  <1>9. CASE TickFails
    <2>1. tick' = <<>> /\ reaper' = [reaper EXCEPT !.pc = "called"] /\ cached' = cached
      BY <1>9 DEF TickFails
    <2>2. CacheInv'
      BY <1>1, <1>5, <2>1 DEF CacheInv
    <2> QED BY <1>3, <1>4, <2>2
  <1> QED BY <1>6, <1>7, <1>8, <1>9 DEF Tick

(* The reaper deletes below its target, which a cache that is behind only lowers. *)
LEMMA ReapStep ==
    ASSUME IInv, Reap
    PROVE  IInv'
  <1> USE DEF IInv
  <1>1. UNCHANGED <<latest, ever, cached, tick>> /\ UNCHANGED connVars
    BY DEF Reap, ReapRecords, ReapLedgers, ReapFails, dbVars
  <1>2. latest \in Nat \ {0} /\ latest \in ledgers /\ ledgers \subseteq 1 .. latest
        /\ records \subseteq ever /\ ever \subseteq Nat \ {0}
    BY DEF DbInv
  <1>3. /\ reaper \in [pc : {"idle", "called", "ledgers"}, target : 0 .. latest]
        /\ cached.historyLatest \in 1 .. latest /\ RetentionCount \in Nat \ {0}
    BY StreamAssumption DEF CacheInv
  <1>4. TargetElder \in Int /\ TargetElder <= latest /\ TargetElder <= latest - RetentionCount + 1
    BY <1>2, <1>3 DEF TargetElder
  <1>5. /\ records' \subseteq records
        /\ ledgers' \subseteq ledgers /\ latest \in ledgers'
        /\ reaper' \in [pc : {"idle", "called", "ledgers"}, target : 0 .. latest]
        /\ \A id \in records : LedgerOf(id) > latest - RetentionCount => id \in records'
    <2>1. CASE ReapRecords
      <3>1. /\ records' = {id \in records : LedgerOf(id) >= TargetElder} /\ ledgers' = ledgers
            /\ reaper' = [pc |-> "ledgers", target |-> TargetElder] /\ TargetElder > 1
        BY <2>1 DEF ReapRecords
      <3>2. ASSUME NEW id \in records, LedgerOf(id) > latest - RetentionCount PROVE LedgerOf(id) >= TargetElder
        <4>1. LedgerOf(id) \in Int
          BY <1>2, LedgerOfType
        <4> QED BY <1>2, <1>3, <1>4, <3>2, <4>1
      <3>3. TargetElder \in 0 .. latest
        BY <1>2, <1>4, <3>1
      <3> QED BY <1>2, <3>1, <3>2, <3>3
    <2>2. CASE ReapLedgers
      <3>1. /\ records' = records /\ ledgers' = {l \in ledgers : l >= reaper.target}
            /\ reaper' = [pc |-> "idle", target |-> 0]
        BY <2>2 DEF ReapLedgers
      <3>2. reaper.target \in 0 .. latest /\ 0 \in 0 .. latest
        BY <1>2, <1>3
      <3>3. latest >= reaper.target
        BY <1>2, <3>2
      <3> QED BY <1>2, <3>1, <3>2, <3>3
    <2>3. CASE ReapFails
      <3>1. UNCHANGED <<records, ledgers>> /\ reaper' = [pc |-> "idle", target |-> 0]
        BY <2>3 DEF ReapFails, dbVars
      <3>2. 0 \in 0 .. latest
        BY <1>2
      <3> QED BY <1>2, <3>1, <3>2
    <2> QED BY <2>1, <2>2, <2>3 DEF Reap
  <1>6. DbInv'
    BY <1>1, <1>2, <1>5 DEF DbInv
  <1>7. CacheInv'
    BY <1>1, <1>5 DEF CacheInv
  <1>8. TypeInv' /\ SentInv' /\ ClientInv' /\ ServerInv'
    <2>1. \A id \in records' : id \in Nat /\ (id \in records \/ id > AfterLedger(latest))
      BY <1>2, <1>5
    <2>2. latest' \in Nat /\ latest' >= latest
      BY <1>1, <1>2
    <2> QED BY <1>1, <2>1, <2>2, ConnectionKept
  <1>9. RetainedIsKept'
    BY <1>1, <1>5 DEF RetainedIsKept
  <1> QED BY <1>6, <1>7, <1>8, <1>9

-----------------------------------------------------------------------------
(* Requests.                                                               *)

LEMMA AppKept ==
    ASSUME IInv, UNCHANGED <<dbVars, appVars>>
    PROVE  DbInv' /\ CacheInv' /\ RetainedIsKept'
  <1>1. UNCHANGED <<latest, records, ledgers, ever, cached, tick, reaper>>
    BY DEF dbVars, appVars
  <1> QED BY <1>1 DEF IInv, DbInv, CacheInv, RetainedIsKept

(* A step that sends nothing and leaves the place of the server in the stream. *)
LEMMA QuietStep ==
    ASSUME IInv, UNCHANGED <<dbVars, appVars, wire>>,
           client' \in ClientRecord, server' \in ServerRecord,
           client'.cursor = client.cursor, client'.from = client.from, client'.handled = client.handled,
           client'.pc = "connecting" => wire = <<>>,
           server'.cursor = Now => server.cursor = Now /\ server'.pq = server.pq /\ server'.empty = server.empty,
           Serving' => /\ Serving /\ client'.pc = "reading"
                       /\ server'.cursor = server.cursor /\ server'.lastEventID = server.lastEventID
                       /\ server'.pq = server.pq /\ server'.init = server.init /\ server'.empty = server.empty
    PROVE  IInv'
  <1> USE DEF IInv
  <1>1. DbInv' /\ CacheInv' /\ RetainedIsKept'
    BY AppKept
  <1>2. latest' = latest /\ records' = records /\ wire' = wire
    BY DEF dbVars
  <1>3. Sent' = Sent
    BY <1>2 DEF Sent
  <1>4. /\ \A id : (Owed(id)' => Owed(id)) /\ (InSent(id)' <=> InSent(id))
        /\ Fresh' <=> Fresh
    BY <1>3 DEF Owed, Asked, DueNow, InSent, Fresh
  <1>5. TypeInv'
    BY <1>2 DEF TypeInv
  <1>6. SentInv'
    BY <1>2, <1>3, <1>4 DEF SentInv
  <1>7. ClientInv'
    BY <1>2 DEF ClientInv
  <1>8. ServerInv'
    BY <1>2, <1>3, <1>4 DEF ServerInv
  <1> QED BY <1>1, <1>5, <1>6, <1>7, <1>8

LEMMA RecordTypes ==
    ASSUME IInv
    PROVE  /\ client \in ClientRecord /\ server \in ServerRecord /\ wire \in Seq(Nat)
           /\ client.handled \in Seq(Nat) /\ client.from \in Nat \union {Now}
           /\ client.cursor \in Nat \union {Now} /\ server.cursor \in Nat \union {Now}
           /\ server.lastEventID \in Nat /\ server.pq \in Nat /\ server.limit \in 0 .. Limit
           /\ cached.historyLatest \in 1 .. latest /\ cached.expHistoryLatest \in Nat
  BY DEF IInv, TypeInv, ClientRecord, ServerRecord, CacheInv

(* A resolved cursor is not after the records that are there. *)
LEMMA GetCursorType ==
    ASSUME IInv, NEW c \in Nat \union {Now}
    PROVE  /\ GetCursor(c) \in Nat
           /\ c = Now => GetCursor(c) # 0 /\ GetCursor(c) <= AfterLedger(latest) /\ Boundary(GetCursor(c))
           /\ c # Now => GetCursor(c) = c
  <1>1. latest \in Nat /\ cached.historyLatest \in Nat /\ cached.historyLatest <= latest
    BY RecordTypes DEF IInv, DbInv
  <1>2. AfterLedger(cached.historyLatest) \in Nat \ {0} /\ AfterLedger(cached.historyLatest) <= AfterLedger(latest)
    BY <1>1, ToidFacts, AfterLedgerMonotonic
  <1> QED BY <1>1, <1>2, StreamAssumption DEF GetCursor, Boundary

(* The cursor of a client is `now` only until it has handled a record. *)
LEMMA CursorNow ==
    ASSUME IInv, client.cursor = Now
    PROVE  client.handled = <<>> /\ client.from = Now
  <1> USE DEF IInv
  <1>1. client.handled \in Seq(Nat) /\ Now \notin Nat
    BY RecordTypes, StreamAssumption
  <1>2. ASSUME client.handled # <<>> PROVE FALSE
    <2> DEFINE h == client.handled
    <2>1. h \in Seq(Nat) /\ h # <<>> /\ Now = h[Len(h)]
      BY <1>1, <1>2 DEF ClientInv
    <2> HIDE DEF h
    <2>2. Len(h) \in 1 .. Len(h)
      BY <2>1, EmptySeq, LenProperties
    <2> QED BY <1>1, <2>1, <2>2, ElementOfSeq
  <1> QED BY <1>2 DEF ClientInv

(* A request begins where the client is. *)
LEMMA ConnectStep ==
    ASSUME IInv, Connect
    PROVE  IInv'
  <1> USE DEF IInv
  <1>1. /\ client.pc = "connecting" /\ client' = [client EXCEPT !.pc = "reading"]
        /\ server' = [NoRequest EXCEPT !.pc = "start", !.cursor = client.cursor,
                                       !.pq = GetCursor(client.cursor), !.limit = Limit]
        /\ UNCHANGED <<dbVars, appVars, wire>>
    BY DEF Connect
  <1>2. DbInv' /\ CacheInv' /\ RetainedIsKept'
    BY <1>1, AppKept
  <1>3. latest' = latest /\ records' = records /\ wire' = wire /\ wire = <<>>
    BY <1>1 DEF dbVars, ClientInv
  <1>4. /\ client' \in ClientRecord /\ client'.pc = "reading" /\ client'.cursor = client.cursor
        /\ client'.from = client.from /\ client'.handled = client.handled
    BY <1>1, RecordTypes DEF ClientRecord
  <1>5. /\ server'.lastEventID = 0 /\ server'.cursor = client.cursor /\ ~server'.init /\ ~server'.empty
        /\ server'.pq = GetCursor(client.cursor)
    BY <1>1 DEF NoRequest
  <1>6. server' \in ServerRecord
    <2>1. client.cursor \in Nat \union {Now}
      BY RecordTypes
    <2>2. GetCursor(client.cursor) \in Nat
      BY <2>1, GetCursorType
    <2>3. Limit \in 0 .. Limit
      BY StreamAssumption
    <2> QED BY <1>1, <2>1, <2>2, <2>3 DEF NoRequest, ServerRecord
  <1>7. Sent' = Sent
    BY <1>3, <1>4 DEF Sent
  <1>8. \A id : (Owed(id)' => Owed(id)) /\ (InSent(id)' <=> InSent(id))
    BY <1>4, <1>5, <1>7 DEF Owed, Asked, DueNow, InSent
  <1>9. TypeInv'
    BY <1>3, <1>4, <1>6, RecordTypes DEF TypeInv
  <1>10. SentInv'
    BY <1>3, <1>7, <1>8 DEF SentInv
  <1>11. ClientInv'
    <2>1. client.cursor = Now => client.from = Now
      BY CursorNow
    <2> QED BY <1>3, <1>4, <1>5, <2>1 DEF ClientInv
  <1>12. ServerInv'
    <2>1. client.cursor = Now => /\ GetCursor(client.cursor) \in Nat \ {0} /\ GetCursor(client.cursor) <= AfterLedger(latest)
                                  /\ Boundary(GetCursor(client.cursor))
      BY RecordTypes, GetCursorType
    <2>2. client.cursor # Now => GetCursor(client.cursor) = client.cursor
      BY RecordTypes, GetCursorType
    <2> QED BY <1>3, <1>4, <1>5, <2>1, <2>2 DEF ServerInv, Boundary
  <1> QED BY <1>2, <1>6, <1>9, <1>10, <1>11, <1>12

(* The steps that wait, end or begin again. *)
LEMMA WaitStep ==
    ASSUME IInv, Start \/ Select \/ Poll \/ NewLedger \/ Timeout \/ StreamErr \/ ClientReconnects
    PROVE  IInv'
  <1>1. client \in ClientRecord /\ server \in ServerRecord /\ cached.expHistoryLatest \in Nat
    BY RecordTypes
  <1>2. UNCHANGED <<dbVars, appVars, wire>>
    BY DEF Start, Select, Poll, NewLedger, Timeout, StreamErr, ClientReconnects
  <1>3. client.pc = "connecting" => wire = <<>>
    BY DEF IInv, ClientInv
  <1>4. Serving => client.pc = "reading"
    BY DEF IInv, ServerInv
  <1>5. CASE Start
    BY <1>1, <1>2, <1>3, <1>4, <1>5, QuietStep DEF Start, Serving, ServerRecord
  <1>6. CASE Select
    BY <1>1, <1>2, <1>3, <1>4, <1>6, QuietStep DEF Select, Serving, ServerRecord
  <1>7. CASE Poll
    BY <1>1, <1>2, <1>3, <1>4, <1>7, QuietStep DEF Poll, Serving, ServerRecord
  <1>8. CASE NewLedger
    BY <1>1, <1>2, <1>3, <1>4, <1>8, QuietStep DEF NewLedger, Serving, ServerRecord
  <1>9. CASE Timeout
    BY <1>1, <1>2, <1>3, <1>4, <1>9, QuietStep DEF Timeout, Serving, ServerRecord
  <1>10. CASE StreamErr
    <2>1. server' = [server EXCEPT !.pc = "done"]
      BY <1>10 DEF StreamErr
    <2>2. /\ server' \in ServerRecord /\ ~Serving'
          /\ server'.cursor = server.cursor /\ server'.pq = server.pq /\ server'.empty = server.empty
      BY <1>1, <2>1 DEF ServerRecord, Serving
    <2>3. client' = client \/ client' = [client EXCEPT !.pc = "failed"]
      BY <1>10 DEF StreamErr
    <2>4. /\ client' \in ClientRecord /\ client'.cursor = client.cursor /\ client'.from = client.from
          /\ client'.handled = client.handled /\ (client'.pc = "connecting" => wire = <<>>)
      BY <1>1, <1>3, <2>3 DEF ClientRecord
    <2> QED BY <1>2, <2>2, <2>4, QuietStep
  <1>11. CASE ClientReconnects
    <2>1. server' = NoRequest /\ wire = <<>> /\ client' = [client EXCEPT !.pc = "connecting"]
      BY <1>11 DEF ClientReconnects
    <2>2. server' \in ServerRecord /\ ~Serving' /\ server'.cursor # Now
      BY <2>1, StreamAssumption DEF ServerRecord, Serving, NoRequest
    <2>3. /\ client' \in ClientRecord /\ client'.cursor = client.cursor /\ client'.from = client.from
          /\ client'.handled = client.handled
      BY <1>1, <2>1 DEF ClientRecord
    <2> QED BY <1>2, <2>1, <2>2, <2>3, QuietStep
  <1> QED BY <1>5, <1>6, <1>7, <1>8, <1>9, <1>10, <1>11

(* What follows in a sequence. *)
LEMMA Parts ==
    ASSUME NEW s \in Seq(Nat), NEW t \in Seq(Nat)
    PROVE  /\ s \o t \in Seq(Nat) /\ Len(s) \in Nat /\ Len(t) \in Nat /\ Len(s \o t) = Len(s) + Len(t)
           /\ \A i \in 1 .. Len(s) : i \in 1 .. Len(s \o t) /\ (s \o t)[i] = s[i]
           /\ \A i \in 1 .. Len(t) : Len(s) + i \in 1 .. Len(s \o t) /\ (s \o t)[Len(s) + i] = t[i]
           /\ \A i \in 1 .. Len(s \o t) :
                 \/ i \in 1 .. Len(s) /\ (s \o t)[i] = s[i]
                 \/ i > Len(s) /\ i - Len(s) \in 1 .. Len(t) /\ (s \o t)[i] = t[i - Len(s)]
  <1>1. Len(s) \in Nat /\ Len(t) \in Nat /\ s \o t \in Seq(Nat) /\ Len(s \o t) = Len(s) + Len(t)
    BY LenProperties, ConcatProperties
  <1>2. \A i \in 1 .. Len(s) + Len(t) : (s \o t)[i] = IF i <= Len(s) THEN s[i] ELSE t[i - Len(s)]
    BY ConcatProperties
  <1>3. \A i \in 1 .. Len(s) : i \in 1 .. Len(s) + Len(t) /\ i <= Len(s)
    BY <1>1
  <1>4. \A i \in 1 .. Len(t) : Len(s) + i \in 1 .. Len(s) + Len(t) /\ ~(Len(s) + i <= Len(s)) /\ (Len(s) + i) - Len(s) = i
    BY <1>1
  <1>5. \A i \in 1 .. Len(s) + Len(t) :
            \/ i \in 1 .. Len(s) /\ i <= Len(s)
            \/ i > Len(s) /\ i - Len(s) \in 1 .. Len(t) /\ ~(i <= Len(s))
    BY <1>1
  <1> QED BY <1>1, <1>2, <1>3, <1>4, <1>5

LEMMA ConcatNat ==
    ASSUME NEW s \in Seq(Nat), NEW t \in Seq(Nat)
    PROVE  /\ Len(s) \in Nat /\ Len(t) \in Nat /\ s \o t \in Seq(Nat) /\ Len(s \o t) = Len(s) + Len(t)
           /\ \A i \in 1 .. Len(s) + Len(t) : (s \o t)[i] = IF i <= Len(s) THEN s[i] ELSE t[i - Len(s)]
  BY LenProperties, ConcatProperties

LEMMA LastAppended ==
    ASSUME NEW s \in Seq(Nat), NEW e \in Nat
    PROVE  Append(s, e) # <<>> /\ Len(Append(s, e)) = Len(s) + 1 /\ Append(s, e)[Len(s) + 1] = e
  OBVIOUS

(* A position in three parts of lengths p, q and r. *)
LEMMA Thirds ==
    ASSUME NEW p \in Nat, NEW q \in Nat, NEW r \in Nat, NEW i \in 1 .. (p + q) + r
    PROVE  /\ i \in 1 .. p + (q + r)
           /\ \/ i <= p /\ i <= p + q /\ i \in 1 .. p + q
              \/ /\ i <= p + q /\ ~(i <= p) /\ i \in 1 .. p + q
                 /\ i - p \in 1 .. q + r /\ i - p <= q
              \/ /\ ~(i <= p + q) /\ ~(i <= p) /\ ~(i - p <= q)
                 /\ i - p \in 1 .. q + r /\ (i - p) - q = i - (p + q)
  OBVIOUS

LEMMA Associative ==
    ASSUME NEW s \in Seq(Nat), NEW t \in Seq(Nat), NEW u \in Seq(Nat)
    PROVE  (s \o t) \o u = s \o (t \o u)
  <1>1. PICK a \in Seq(Nat) : a = s \o t
    BY ConcatNat
  <1>2. PICK b \in Seq(Nat) : b = t \o u
    BY ConcatNat
  <1>3. PICK x \in Seq(Nat) : x = a \o u
    BY ConcatNat
  <1>4. PICK y \in Seq(Nat) : y = s \o b
    BY ConcatNat
  <1>5. /\ Len(s) \in Nat /\ Len(t) \in Nat /\ Len(u) \in Nat
        /\ Len(a) = Len(s) + Len(t) /\ Len(b) = Len(t) + Len(u)
        /\ Len(x) = Len(a) + Len(u) /\ Len(y) = Len(s) + Len(b)
    BY <1>1, <1>2, <1>3, <1>4, ConcatNat
  <1>6. \A i \in 1 .. Len(s) + Len(t) : a[i] = IF i <= Len(s) THEN s[i] ELSE t[i - Len(s)]
    BY <1>1, ConcatNat
  <1>7. \A i \in 1 .. Len(t) + Len(u) : b[i] = IF i <= Len(t) THEN t[i] ELSE u[i - Len(t)]
    BY <1>2, ConcatNat
  <1>8. \A i \in 1 .. Len(a) + Len(u) : x[i] = IF i <= Len(a) THEN a[i] ELSE u[i - Len(a)]
    BY <1>3, ConcatNat
  <1>9. \A i \in 1 .. Len(s) + Len(b) : y[i] = IF i <= Len(s) THEN s[i] ELSE b[i - Len(s)]
    BY <1>4, ConcatNat
  <1>10. ASSUME NEW i \in 1 .. Len(x)
         PROVE  x[i] = y[i]
    <2> DEFINE p == Len(s)
               q == Len(t)
               r == Len(u)
    <2>1. p \in Nat /\ q \in Nat /\ r \in Nat /\ i \in 1 .. (p + q) + r
      BY <1>5
    <2>2. Len(a) = p + q /\ Len(b) = q + r
      BY <1>5
    <2>3. /\ a[i] = (IF i <= p THEN s[i] ELSE t[i - p]) \/ i \notin 1 .. p + q
          /\ x[i] = IF i <= p + q THEN a[i] ELSE u[i - (p + q)]
      BY <1>6, <1>8, <2>1, <2>2
    <2>4. i \in 1 .. p + (q + r) => y[i] = IF i <= p THEN s[i] ELSE b[i - p]
      BY <1>9, <2>2
    <2>5. i - p \in 1 .. q + r => b[i - p] = IF i - p <= q THEN t[i - p] ELSE u[(i - p) - q]
      BY <1>7
    <2> HIDE DEF p, q, r
    <2>6. /\ i \in 1 .. p + (q + r)
          /\ \/ i <= p /\ i <= p + q /\ i \in 1 .. p + q
             \/ /\ i <= p + q /\ ~(i <= p) /\ i \in 1 .. p + q
                /\ i - p \in 1 .. q + r /\ i - p <= q
             \/ /\ ~(i <= p + q) /\ ~(i <= p) /\ ~(i - p <= q)
                /\ i - p \in 1 .. q + r /\ (i - p) - q = i - (p + q)
      BY <2>1, Thirds
    <2>7. CASE i <= p /\ i <= p + q /\ i \in 1 .. p + q
      BY <2>3, <2>4, <2>6, <2>7, Zenon
    <2>8. CASE /\ i <= p + q /\ ~(i <= p) /\ i \in 1 .. p + q
               /\ i - p \in 1 .. q + r /\ i - p <= q
      BY <2>3, <2>4, <2>5, <2>6, <2>8, Zenon
    <2>9. CASE /\ ~(i <= p + q) /\ ~(i <= p) /\ ~(i - p <= q)
               /\ i - p \in 1 .. q + r /\ (i - p) - q = i - (p + q)
      BY <2>3, <2>4, <2>5, <2>6, <2>9, Zenon
    <2> QED BY <2>6, <2>7, <2>8, <2>9, Zenon
  <1>11. Len(x) = Len(y)
    <2>1. (Len(s) + Len(t)) + Len(u) = Len(s) + (Len(t) + Len(u))
      <3>1. \A p, q, r \in Nat : (p + q) + r = p + (q + r)
        OBVIOUS
      <3> QED BY <1>5, <3>1
    <2> QED BY <1>5, <2>1, Zenon
  <1>12. x = y
    BY <1>10, <1>11, SeqEqual
  <1> QED BY <1>1, <1>2, <1>3, <1>4, <1>12

(* Only the beginning of what was sent arrives. *)
LEMMA DropStep ==
    ASSUME IInv, Drop
    PROVE  IInv'
  <1> USE DEF IInv
  <1>1. /\ client' = client /\ client.pc = "reading" /\ server' = [server EXCEPT !.pc = "done"]
        /\ UNCHANGED <<dbVars, appVars>>
    BY DEF Drop
  <1>2. PICK n \in 0 .. Len(wire) : wire' = SubSeq(wire, 1, n)
    BY DEF Drop
  <1>3. DbInv' /\ CacheInv' /\ RetainedIsKept'
    BY <1>1, AppKept
  <1>4. latest' = latest /\ records' = records
    BY <1>1 DEF dbVars
  <1>5. wire \in Seq(Nat) /\ client.handled \in Seq(Nat) /\ server \in ServerRecord
    BY RecordTypes
  <1>6. wire' \in Seq(Nat) /\ Len(wire') = n /\ n <= Len(wire) /\ \A i \in 1 .. n : wire'[i] = wire[i]
    BY <1>2, <1>5
  <1>7. TypeInv' /\ ~Serving'
    BY <1>1, <1>5, <1>6 DEF TypeInv, ServerRecord, Serving
  <1>8. ServerInv' /\ ClientInv'
    BY <1>1, <1>5, <1>7 DEF ServerInv, ClientInv, ServerRecord
  <1>9. /\ Len(Sent) \in Nat /\ Len(Sent') \in Nat /\ Len(Sent') <= Len(Sent)
        /\ \A i \in 1 .. Len(Sent') : Sent'[i] = Sent[i]
    <2> DEFINE h == client.handled
    <2>1. Sent = h \o wire /\ Sent' = h \o wire'
      BY <1>1 DEF Sent
    <2>2. h \in Seq(Nat) /\ wire \in Seq(Nat) /\ wire' \in Seq(Nat)
      BY <1>5, <1>6
    <2> HIDE DEF h
    <2>3. Len(h) \in Nat /\ Len(Sent) = Len(h) + Len(wire) /\ Len(Sent') = Len(h) + n
      BY <1>6, <2>1, <2>2, Parts
    <2>4. ASSUME NEW i \in 1 .. Len(Sent') PROVE Sent'[i] = Sent[i]
      <3>1. \/ i \in 1 .. Len(h) /\ Sent'[i] = h[i]
            \/ i > Len(h) /\ i - Len(h) \in 1 .. n /\ Sent'[i] = wire'[i - Len(h)]
        <4>1. \A j \in 1 .. Len(h \o wire') :
                 \/ j \in 1 .. Len(h) /\ (h \o wire')[j] = h[j]
                 \/ j > Len(h) /\ j - Len(h) \in 1 .. Len(wire') /\ (h \o wire')[j] = wire'[j - Len(h)]
          BY <2>2, Parts
        <4> QED BY <1>6, <2>1, <4>1, Zenon
      <3>2. CASE i \in 1 .. Len(h) /\ Sent'[i] = h[i]
        BY <2>1, <2>2, <3>2, Parts
      <3>3. CASE i > Len(h) /\ i - Len(h) \in 1 .. n /\ Sent'[i] = wire'[i - Len(h)]
        <4> DEFINE k == i - Len(h)
        <4>1. k \in 1 .. n /\ k \in 1 .. Len(wire) /\ Len(h) + k = i
          BY <1>6, <2>3, <3>3
        <4>2. Sent[Len(h) + k] = wire[k]
          BY <2>1, <2>2, <4>1, Parts
        <4> QED BY <1>6, <3>3, <4>1, <4>2
      <3> QED BY <3>1, <3>2, <3>3
    <2>5. Len(wire) \in Nat /\ n \in Nat
      BY <1>5
    <2> QED BY <1>6, <2>3, <2>4, <2>5
  <1>10. SentInv'
    <2>1. \A i \in 1 .. Len(Sent') : i \in 1 .. Len(Sent) /\ Sent'[i] = Sent[i]
      BY <1>9
    <2>2. \A i \in 1 .. Len(Sent') : Sent'[i] \in Nat \ {0} /\ Sent'[i] <= AfterLedger(latest)
      BY <2>1 DEF SentInv
    <2>3. \A i, j \in 1 .. Len(Sent') : i < j => Sent'[i] < Sent'[j]
      BY <2>1 DEF SentInv
    <2>4. ASSUME NEW id \in records, NEW i \in 1 .. Len(Sent'), Owed(id), id <= Sent'[i]
          PROVE  \E k \in 1 .. Len(Sent') : Sent'[k] = id
      <3>1. i \in 1 .. Len(Sent) /\ id <= Sent[i]
        BY <2>1, <2>4
      <3>2. PICK k \in 1 .. Len(Sent) : Sent[k] = id
        BY <2>4, <3>1 DEF SentInv, InSent
      <3>3. ~(i < k)
        <4>1. Sent[i] \in Nat /\ Sent[k] \in Nat
          BY <3>1 DEF SentInv
        <4>2. i < k => Sent[i] < Sent[k]
          BY <3>1 DEF SentInv
        <4> QED BY <3>1, <3>2, <4>1, <4>2
      <3>4. k \in 1 .. Len(Sent')
        BY <1>9, <3>1, <3>3
      <3> QED BY <2>1, <3>2, <3>4
    <2>5. \A id : Owed(id)' => Owed(id)
      <3>1. Sent' # <<>> => Sent # <<>> /\ Sent'[1] = Sent[1]
        <4>1. Sent \in Seq(Nat) /\ Sent' \in Seq(Nat)
          BY <1>1, <1>5, <1>6, Parts DEF Sent
        <4>2. Sent' # <<>> => 1 \in 1 .. Len(Sent')
          BY <1>9, <4>1, EmptySeq
        <4>3. Sent = <<>> => Len(Sent) = 0
          OBVIOUS
        <4> QED BY <1>9, <4>2, <4>3
      <3>2. server'.cursor = server.cursor /\ server'.empty = server.empty /\ server'.pq = server.pq
        BY <1>1, <1>5 DEF ServerRecord
      <3> QED BY <1>1, <3>1, <3>2 DEF Owed, Asked, DueNow
    <2> QED BY <1>4, <2>2, <2>3, <2>4, <2>5 DEF SentInv, InSent
  <1> QED BY <1>3, <1>7, <1>8, <1>10

(* The client takes the next event over. *)
LEMMA ClientReadStep ==
    ASSUME IInv, ClientRead
    PROVE  IInv'
  <1> USE DEF IInv
  <1>1. /\ client' = [client EXCEPT !.cursor = Head(wire), !.handled = Append(@, Head(wire))]
        /\ wire # <<>> /\ wire' = Tail(wire) /\ server' = server /\ client.pc = "reading"
        /\ UNCHANGED <<dbVars, appVars>>
    BY DEF ClientRead
  <1>2. DbInv' /\ CacheInv' /\ RetainedIsKept'
    BY <1>1, AppKept
  <1>3. latest' = latest /\ records' = records
    BY <1>1 DEF dbVars
  <1>4. wire \in Seq(Nat) /\ client.handled \in Seq(Nat) /\ server \in ServerRecord /\ client \in ClientRecord
    BY RecordTypes
  <1> DEFINE h == client.handled
  <1>5. Head(wire) \in Nat /\ Tail(wire) \in Seq(Nat) /\ wire = <<Head(wire)>> \o Tail(wire)
    BY <1>1, <1>4, HeadTailProperties
  <1>6. Append(h, Head(wire)) \in Seq(Nat)
    BY <1>4, <1>5
  <1>7. /\ client'.cursor = Head(wire) /\ client'.handled = Append(h, Head(wire))
        /\ client'.from = client.from /\ client'.pc = "reading" /\ client' \in ClientRecord
    BY <1>1, <1>4, <1>5, <1>6 DEF ClientRecord
  <1>8. TypeInv'
    BY <1>1, <1>4, <1>5, <1>7 DEF TypeInv
  <1>9. Sent' = Sent
    <2>1. Sent' = Append(h, Head(wire)) \o Tail(wire) /\ Sent = h \o wire
      BY <1>1, <1>7 DEF Sent
    <2>2. Append(h, Head(wire)) = h \o <<Head(wire)>>
      BY <1>4, <1>5, AppendIsConcat
    <2>3. (h \o <<Head(wire)>>) \o Tail(wire) = h \o (<<Head(wire)>> \o Tail(wire))
      <3>1. <<Head(wire)>> \in Seq(Nat)
        BY <1>5
      <3> QED BY <1>4, <1>5, <3>1, Associative
    <2> QED BY <1>5, <2>1, <2>2, <2>3
  <1>10. /\ \A id : (Owed(id)' <=> Owed(id)) /\ (InSent(id)' <=> InSent(id))
         /\ Fresh' <=> Fresh
    BY <1>1, <1>7, <1>9 DEF Owed, Asked, DueNow, InSent, Fresh
  <1>11. SentInv'
    BY <1>3, <1>9, <1>10 DEF SentInv
  <1>12. ClientInv'
    <2>1. client'.handled # <<>> /\ client'.handled[Len(client'.handled)] = Head(wire)
      <3>1. /\ Append(h, Head(wire)) # <<>> /\ Len(Append(h, Head(wire))) = Len(h) + 1
            /\ Append(h, Head(wire))[Len(h) + 1] = Head(wire)
        BY <1>4, <1>5, LastAppended
      <3> QED BY <1>7, <3>1, Zenon
    <2> QED BY <1>1, <1>7, <2>1 DEF ClientInv
  <1>13. ServerInv'
    BY <1>1, <1>3, <1>7, <1>9, <1>10 DEF ServerInv, Serving
  <1> QED BY <1>2, <1>8, <1>11, <1>12, <1>13

-----------------------------------------------------------------------------
(* A turn of the loop.                                                     *)

(* s holds records in order, and every one of A up to its last. *)
Gapless(s, A) ==
    /\ \A i \in 1 .. Len(s) : s[i] \in Nat \ {0} /\ s[i] <= AfterLedger(latest)
    /\ \A i, j \in 1 .. Len(s) : i < j => s[i] < s[j]
    /\ \A id \in A, i \in 1 .. Len(s) : id <= s[i] => \E j \in 1 .. Len(s) : s[j] = id

(* s has nothing after c, and all of A up to it. *)
Reaches(s, A, c) ==
    /\ \A i \in 1 .. Len(s) : s[i] <= c
    /\ \A id \in A : id <= c => \E i \in 1 .. Len(s) : s[i] = id

(* The beginning of a page continues what was sent up to the cursor; the whole page
   brings it to its last event. *)
LEMMA PageContinues ==
    ASSUME DbInv, NEW s \in Seq(Nat), NEW A \in SUBSET records, NEW c \in Nat, NEW n \in 0 .. Len(Page(c)),
           Gapless(s, A), Reaches(s, A, c)
    PROVE  /\ SubSeq(Page(c), 1, n) \in Seq(Nat) /\ Len(SubSeq(Page(c), 1, n)) = n
           /\ Gapless(s \o SubSeq(Page(c), 1, n), A)
           /\ n = Len(Page(c)) /\ n # 0 =>
                 /\ Page(c)[n] \in Nat \ {0} /\ Page(c)[n] <= AfterLedger(latest)
                 /\ Reaches(s \o SubSeq(Page(c), 1, n), A, Page(c)[n])
  <1> DEFINE p == Page(c)
             t == SubSeq(p, 1, n)
             r == s \o t
  <1>1. /\ p \in Seq(Nat)
        /\ \A i \in 1 .. Len(p) : p[i] \in records /\ p[i] > c
        /\ \A i, j \in 1 .. Len(p) : i < j => p[i] < p[j]
        /\ \A id \in records, i \in 1 .. Len(p) : id > c /\ id <= p[i] => \E j \in 1 .. i : p[j] = id
    BY PageFacts
  <1> HIDE DEF p
  <1>2. Len(p) \in Nat /\ n \in Nat /\ n <= Len(p)
    BY <1>1 DEF p
  <1>3. t \in Seq(Nat) /\ Len(t) = n /\ \A i \in 1 .. n : t[i] = p[i]
    BY <1>1, <1>2
  <1>4. AfterLedger(latest) \in Nat /\ \A id \in records : id \in Nat \ {0} /\ id <= AfterLedger(latest)
    BY ToidFacts DEF DbInv
  <1> HIDE DEF t
  <1>0. \A i \in 1 .. n : i \in 1 .. Len(p)
    BY <1>2
  <1>5. \A i \in 1 .. n : t[i] \in records /\ t[i] > c
    BY <1>0, <1>1, <1>3
  <1>6. \A i, j \in 1 .. n : i < j => t[i] < t[j]
    BY <1>0, <1>1, <1>3
  <1>7. ASSUME NEW id \in records, NEW i \in 1 .. n, id > c, id <= t[i]
        PROVE  \E j \in 1 .. n : t[j] = id
    <2>1. i \in 1 .. Len(p) /\ id <= p[i]
      BY <1>2, <1>3, <1>7
    <2>2. PICK j \in 1 .. i : p[j] = id
      BY <1>1, <1>7, <2>1
    <2>3. j \in 1 .. n
      BY <1>2, <2>2
    <2> QED BY <1>3, <2>2, <2>3
  <1>8. /\ r \in Seq(Nat) /\ Len(s) \in Nat /\ Len(r) = Len(s) + n
        /\ \A i \in 1 .. Len(s) : i \in 1 .. Len(r) /\ r[i] = s[i]
        /\ \A i \in 1 .. n : Len(s) + i \in 1 .. Len(r) /\ r[Len(s) + i] = t[i]
        /\ \A i \in 1 .. Len(r) :
              \/ i \in 1 .. Len(s) /\ r[i] = s[i]
              \/ i > Len(s) /\ i - Len(s) \in 1 .. n /\ r[i] = t[i - Len(s)]
    BY <1>3, Parts
  <1> HIDE DEF r
  <1>9. \A i \in 1 .. Len(s) : s[i] \in Nat \ {0} /\ s[i] <= AfterLedger(latest) /\ s[i] <= c
    BY DEF Gapless, Reaches
  <1>10. \A i \in 1 .. Len(r) : r[i] \in Nat \ {0} /\ r[i] <= AfterLedger(latest)
    BY <1>4, <1>5, <1>8, <1>9
  <1>11. ASSUME NEW i \in 1 .. Len(r), NEW j \in 1 .. Len(r), i < j
         PROVE  r[i] < r[j]
    <2>1. CASE i \in 1 .. Len(s) /\ r[i] = s[i] /\ j \in 1 .. Len(s) /\ r[j] = s[j]
      BY <1>11, <2>1 DEF Gapless
    <2>2. CASE i \in 1 .. Len(s) /\ r[i] = s[i] /\ j - Len(s) \in 1 .. n /\ r[j] = t[j - Len(s)]
      <3>1. r[i] \in Nat /\ r[j] \in Nat
        BY <1>10
      <3>2. r[i] <= c /\ r[j] > c
        BY <1>5, <1>9, <2>2
      <3> QED BY <3>1, <3>2
    <2>3. CASE i > Len(s) /\ i - Len(s) \in 1 .. n /\ r[i] = t[i - Len(s)] /\ j - Len(s) \in 1 .. n /\ r[j] = t[j - Len(s)]
      <3>1. i - Len(s) < j - Len(s)
        BY <1>8, <1>11
      <3> QED BY <1>6, <2>3, <3>1
    <2>4. i > Len(s) => ~(j \in 1 .. Len(s))
      BY <1>8, <1>11
    <2> QED BY <1>8, <2>1, <2>2, <2>3, <2>4
  <1>12. \A id : (\E j \in 1 .. Len(s) : s[j] = id) \/ (\E j \in 1 .. n : t[j] = id) => \E j \in 1 .. Len(r) : r[j] = id
    BY <1>8
  <1>13. ASSUME NEW id \in A, NEW i \in 1 .. Len(r), id <= r[i]
         PROVE  \E j \in 1 .. Len(r) : r[j] = id
    <2>1. id \in records /\ id \in Nat
      BY <1>4
    <2>2. CASE id <= c
      BY <1>12, <2>2 DEF Reaches
    <2>3. CASE id > c
      <3>1. ~(i \in 1 .. Len(s) /\ r[i] = s[i])
        BY <1>9, <1>13, <2>1, <2>3
      <3>2. i - Len(s) \in 1 .. n /\ r[i] = t[i - Len(s)]
        BY <1>8, <3>1
      <3>3. \E j \in 1 .. n : t[j] = id
        BY <1>7, <1>13, <2>1, <2>3, <3>2
      <3> QED BY <1>12, <3>3
    <2> QED BY <2>1, <2>2, <2>3
  <1>14. Gapless(r, A)
    BY <1>10, <1>11, <1>13 DEF Gapless
  <1>15. ASSUME n = Len(p), n # 0
         PROVE  p[n] \in Nat \ {0} /\ p[n] <= AfterLedger(latest) /\ Reaches(r, A, p[n])
    <2>1. n \in 1 .. n /\ t[n] = p[n]
      BY <1>2, <1>3, <1>15
    <2>2. t[n] \in records /\ t[n] > c /\ t[n] \in Nat \ {0} /\ t[n] <= AfterLedger(latest)
      BY <1>4, <1>5, <2>1
    <2>3. ASSUME NEW i \in 1 .. Len(r) PROVE r[i] <= t[n]
      <3>1. CASE i \in 1 .. Len(s) /\ r[i] = s[i]
        BY <1>9, <2>2, <3>1
      <3>2. CASE i > Len(s) /\ i - Len(s) \in 1 .. n /\ r[i] = t[i - Len(s)]
        <4> DEFINE k == i - Len(s)
        <4>1. k \in 1 .. n /\ r[i] = t[k]
          BY <3>2
        <4> HIDE DEF k
        <4>2. t[k] \in Nat /\ (k < n => t[k] < t[n])
          BY <1>4, <1>5, <1>6, <2>1, <4>1
        <4>3. k = n \/ k < n
          BY <1>2, <4>1
        <4> QED BY <2>2, <4>1, <4>2, <4>3
      <3> QED BY <1>8, <3>1, <3>2
    <2>4. ASSUME NEW id \in A, id <= t[n] PROVE \E i \in 1 .. Len(r) : r[i] = id
      <3>1. Len(s) + n \in 1 .. Len(r) /\ r[Len(s) + n] = t[n]
        BY <1>8, <2>1
      <3> QED BY <1>13, <2>4, <3>1
    <2> QED BY <2>1, <2>2, <2>3, <2>4 DEF Reaches
  <1> QED BY <1>3, <1>14, <1>15 DEF p, t, r

(* A request that has not answered yet goes on where the client is. *)
LEMMA FirstTurn ==
    ASSUME IInv, Serving, server.lastEventID = 0
    PROVE  /\ wire = <<>> /\ Sent = client.handled /\ server.cursor = client.cursor
           /\ server.cursor = Now => /\ Fresh /\ ~server.init /\ server.pq # 0 /\ server.pq <= AfterLedger(latest)
                                     /\ Boundary(server.pq)
           /\ server.cursor # Now =>
                 /\ server.pq = server.cursor
                 /\ Reaches(Sent, {id \in records : Owed(id)}, server.cursor)
                 /\ \/ server.cursor <= AfterLedger(latest)
                    \/ client.from # Now /\ server.cursor <= client.from
  <1> USE DEF IInv
  <1>1. /\ wire = <<>> /\ server.cursor = client.cursor
        /\ server.cursor = Now => ~server.init /\ server.pq # 0 /\ server.pq <= AfterLedger(latest) /\ Boundary(server.pq)
        /\ server.cursor # Now => server.pq = server.cursor
    BY DEF ServerInv
  <1>2. /\ client.handled \in Seq(Nat) /\ client.from \in Nat \union {Now} /\ client.cursor \in Nat \union {Now}
        /\ Now \notin Nat
    BY RecordTypes, StreamAssumption
  <1>3. Sent = client.handled
    BY <1>1, <1>2, ConcatEmptySeq DEF Sent
  <1>4. client.handled # <<>> => /\ Len(Sent) \in 1 .. Len(Sent) /\ client.cursor = Sent[Len(Sent)]
                                 /\ client.cursor \in Nat
    <2>1. client.handled # <<>> => Len(client.handled) \in 1 .. Len(client.handled)
      BY <1>2, EmptySeq, LenProperties
    <2>2. client.handled # <<>> => client.cursor = client.handled[Len(client.handled)]
      BY DEF ClientInv
    <2> QED BY <1>2, <1>3, <2>1, <2>2, ElementOfSeq
  <1>5. server.cursor = Now => Fresh
    BY <1>1, <1>3, CursorNow DEF Fresh
  <1>6. ASSUME server.cursor # Now
        PROVE  /\ Reaches(Sent, {id \in records : Owed(id)}, server.cursor)
               /\ \/ server.cursor <= AfterLedger(latest)
                  \/ client.from # Now /\ server.cursor <= client.from
    <2>1. CASE client.handled = <<>>
      <3>1. client.cursor = client.from /\ client.from \in Nat /\ Len(Sent) = 0
        BY <1>1, <1>2, <1>3, <1>6, <2>1 DEF ClientInv
      <3>2. \A id \in records : id \in Nat
        BY DEF DbInv
      <3>3. \A id \in records : Owed(id) => ~(id <= server.cursor)
        BY <1>1, <1>2, <1>6, <3>1, <3>2 DEF Owed, Asked, DueNow
      <3>4. client.from # Now /\ server.cursor <= client.from
        BY <1>1, <1>6, <3>1
      <3> QED BY <3>1, <3>3, <3>4 DEF Reaches
    <2>2. CASE client.handled # <<>>
      <3> DEFINE k == Len(Sent)
      <3>1. k \in 1 .. k /\ server.cursor = Sent[k] /\ k \in Nat
        BY <1>1, <1>2, <1>3, <1>4, <2>2, LenProperties
      <3>2. Sent[k] <= AfterLedger(latest)
        BY <3>1 DEF SentInv
      <3>3. \A i \in 1 .. k : Sent[i] \in Nat /\ (i < k => Sent[i] < Sent[k]) /\ (i < k \/ i = k)
        BY <3>1 DEF SentInv
      <3>4. \A i \in 1 .. k : Sent[i] <= Sent[k]
        BY <3>1, <3>3
      <3>5. \A id \in records : Owed(id) /\ id <= Sent[k] => \E i \in 1 .. Len(Sent) : Sent[i] = id
        BY <3>1 DEF SentInv, InSent
      <3> QED BY <3>1, <3>2, <3>4, <3>5 DEF Reaches
    <2> QED BY <2>1, <2>2
  <1> QED BY <1>1, <1>3, <1>5, <1>6

(* One query, and what of it is sent. *)
LEMMA GenerateStep ==
    ASSUME IInv, GenerateEvents
    PROVE  IInv'
  <1> USE DEF IInv
  <1> DEFINE cursor == IF server.lastEventID # 0 THEN server.lastEventID ELSE GetCursor(server.cursor)
             events == Page(cursor)
             n      == Min({server.limit, Len(events)})
             sent   == SubSeq(events, 1, n)
             left   == server.limit - Len(sent)
             E      == NextEventID(server, events)
             A      == {id \in records : Owed(id)'}
  <1>1. /\ server.pc = "generate" /\ wire' = wire \o sent /\ UNCHANGED <<dbVars, appVars>>
        /\ server' = [server EXCEPT !.lastEventID = E, !.limit = left,
                                    !.pc = IF left = 0 THEN "done" ELSE "select",
                                    !.init = TRUE,
                                    !.empty = IF server.init THEN @ ELSE events = <<>>,
                                    !.sent = @ \/ sent # <<>>]
        /\ client' = client
    BY DEF GenerateEvents
  <1>2. DbInv' /\ CacheInv' /\ RetainedIsKept' /\ latest' = latest /\ records' = records
    BY <1>1, AppKept DEF dbVars
  <1>3. /\ client \in ClientRecord /\ server \in ServerRecord /\ wire \in Seq(Nat)
        /\ client.handled \in Seq(Nat) /\ client.from \in Nat \union {Now}
        /\ server.cursor \in Nat \union {Now}
        /\ server.lastEventID \in Nat /\ server.pq \in Nat /\ server.limit \in 0 .. Limit
        /\ Limit \in Nat /\ Now \notin Nat
    BY RecordTypes, StreamAssumption
  <1>4. Serving /\ client.pc = "reading"
    BY <1>1 DEF Serving, ServerInv
  <1>5. cursor \in Nat
    BY <1>3, GetCursorType
  <1> HIDE DEF cursor
  <1>6. events \in Seq(Nat) /\ Len(events) \in Nat
    BY <1>5, PageFacts, LenProperties
  <1>7. n \in 0 .. Len(events) /\ n <= server.limit /\ (n < server.limit => n = Len(events))
    <2> DEFINE a == server.limit
               b == Len(events)
    <2>1. a \in Nat /\ b \in Nat
      BY <1>3, <1>6
    <2>2. n = Min({a, b})
      OBVIOUS
    <2> HIDE DEF a, b, n
    <2>3. n = IF a <= b THEN a ELSE b
      BY <2>1, <2>2, MinOfTwo
    <2>4. n \in 0 .. b /\ n <= a /\ (n < a => n = b)
      BY <2>1, <2>3
    <2> QED BY <2>4 DEF a, b
  <1> HIDE DEF events, n
  <1>8. sent \in Seq(Nat) /\ Len(sent) = n /\ left = server.limit - n /\ left \in 0 .. Limit
    <2>1. sent \in Seq(Nat) /\ Len(sent) = n
      BY <1>6, <1>7
    <2> HIDE DEF sent
    <2>2. left = server.limit - n
      BY <2>1
    <2> HIDE DEF left
    <2>3. n \in Nat /\ n <= server.limit /\ server.limit \in Nat /\ server.limit <= Limit
      BY <1>3, <1>6, <1>7
    <2>4. left \in 0 .. Limit
      BY <1>3, <2>2, <2>3
    <2> QED BY <2>1, <2>2, <2>4
  <1> HIDE DEF sent, left
  <1>9. E \in Nat /\ (events # <<>> => E = events[Len(events)])
    <2>1. events # <<>> => Last(events) = events[Len(events)] /\ Len(events) \in 1 .. Len(events)
      BY <1>6, EmptySeq DEF Last
    <2>2. events # <<>> => Last(events) \in Nat
      BY <1>6, <2>1, ElementOfSeq
    <2> QED BY <1>3, <2>1, <2>2 DEF NextEventID
  <1>10. events = <<>> => E = IF server.lastEventID = 0 THEN server.pq ELSE server.lastEventID
    BY DEF NextEventID
  <1> HIDE DEF E
  <1>11. /\ server' \in ServerRecord /\ server'.lastEventID = E /\ server'.init = TRUE
         /\ server'.cursor = server.cursor /\ server'.pq = server.pq
         /\ server'.pc = IF left = 0 THEN "done" ELSE "select"
         /\ server'.empty = IF server.init THEN server.empty ELSE events = <<>>
    <2> DEFINE empty == IF server.init THEN server.empty ELSE events = <<>>
               some  == server.sent \/ sent # <<>>
               pc    == IF left = 0 THEN "done" ELSE "select"
    <2>1. empty \in BOOLEAN /\ some \in BOOLEAN
      BY <1>3 DEF ServerRecord
    <2>2. pc \in {"done", "select"}
      OBVIOUS
    <2>3. server' = [server EXCEPT !.lastEventID = E, !.limit = left, !.pc = pc, !.init = TRUE,
                                   !.empty = empty, !.sent = some]
      BY <1>1
    <2> HIDE DEF empty, some, pc
    <2>4. /\ server' \in ServerRecord /\ server'.lastEventID = E /\ server'.init = TRUE
          /\ server'.cursor = server.cursor /\ server'.pq = server.pq
          /\ server'.pc = pc /\ server'.empty = empty
      BY <1>3, <1>8, <1>9, <2>1, <2>2, <2>3 DEF ServerRecord
    <2> QED BY <2>4 DEF empty, pc
  <1>12. wire' \in Seq(Nat) /\ TypeInv'
    <2>1. wire' \in Seq(Nat)
      BY <1>1, <1>3, <1>8, Parts
    <2> QED BY <1>1, <1>3, <1>11, <2>1 DEF TypeInv
  <1>13. Sent \in Seq(Nat) /\ Sent' = Sent \o sent
    <2>1. Sent' = client.handled \o (wire \o sent)
      BY <1>1 DEF Sent
    <2>2. client.handled \o (wire \o sent) = (client.handled \o wire) \o sent
      <3> DEFINE h == client.handled
      <3>1. h \in Seq(Nat) /\ wire \in Seq(Nat) /\ sent \in Seq(Nat)
        BY <1>3, <1>8
      <3> HIDE DEF h
      <3>2. (h \o wire) \o sent = h \o (wire \o sent)
        BY <3>1, Associative
      <3> QED BY <3>2 DEF h
    <2>3. client.handled \o wire \in Seq(Nat)
      BY <1>3, Parts
    <2> QED BY <2>1, <2>2, <2>3 DEF Sent
  <1>14. A \in SUBSET records /\ \A id \in records : id \in Nat
    BY DEF DbInv
  <1>15. /\ Sent # <<>> => Sent' # <<>> /\ Sent'[1] = Sent[1]
         /\ Sent = <<>> => Sent' = sent
    <2> HIDE DEF A
    <2>1. Sent # <<>> => 1 \in 1 .. Len(Sent)
      BY <1>13, EmptySeq
    <2>2. Sent # <<>> => 1 \in 1 .. Len(Sent') /\ Sent'[1] = Sent[1]
      BY <1>8, <1>13, <2>1, Parts
    <2>3. Sent' = <<>> => Len(Sent') = 0
      OBVIOUS
    <2>4. Sent = <<>> => Sent' = sent
      BY <1>8, <1>13, ConcatEmptySeq
    <2> QED BY <2>2, <2>3, <2>4
  <1>16. events = <<>> => sent = <<>> /\ Sent' = Sent /\ wire' = wire
    <2>1. events = <<>> => sent = <<>>
      BY <1>7, <1>8, EmptySeq
    <2> QED BY <1>1, <1>3, <1>13, <2>1, ConcatEmptySeq
  <1>17. server.lastEventID # 0 => server'.empty = server.empty
    BY <1>4, <1>11 DEF ServerInv
  <1>18. server.cursor = Now /\ server.lastEventID = 0 => Fresh /\ server'.empty = (events = <<>>)
    BY <1>4, <1>11, FirstTurn
  <1>19. ASSUME ~Fresh, NEW id \in A
         PROVE  Owed(id)
    <2>1. Asked(id)' => Asked(id)
      BY <1>1, <1>15, <1>19 DEF Asked, Fresh
    <2>2. DueNow(id)' => DueNow(id)
      BY <1>11, <1>17, <1>18, <1>19 DEF DueNow
    <2> QED BY <2>1, <2>2 DEF Owed
  <1>20. Gapless(Sent, A)
    <2>1. CASE Fresh
      <3>1. \A i \in 1 .. Len(Sent) : FALSE
        BY <2>1 DEF Fresh
      <3> QED BY <3>1 DEF Gapless
    <2>2. CASE ~Fresh
      <3>1. \A id \in A : id \in records /\ Owed(id)
        BY <1>14, <1>19, <2>2
      <3> HIDE DEF A
      <3> QED BY <3>1 DEF SentInv, InSent, Gapless
    <2> QED BY <2>1, <2>2
  <1>21. ASSUME Fresh
         PROVE  /\ server.lastEventID = 0 => server.cursor = Now
                /\ Boundary(cursor)
    <2>1. server.lastEventID # 0 => Boundary(cursor)
      BY <1>4, <1>21 DEF ServerInv, cursor
    <2>2. server.lastEventID = 0 => server.cursor = Now
      <3>1. server.lastEventID = 0 => Sent = client.handled /\ server.cursor = client.cursor
        BY <1>4, FirstTurn
      <3> QED BY <1>21, <3>1 DEF Fresh, ClientInv
    <2>3. server.lastEventID = 0 => Boundary(cursor)
      BY <1>3, <2>2, GetCursorType DEF cursor
    <2> QED BY <2>1, <2>2, <2>3
  <1>22. ASSUME Fresh, sent # <<>>, NEW id \in records, Asked(id)'
         PROVE  ~(id <= cursor)
    <2>1. PICK l \in Nat : cursor = AfterLedger(l)
      BY <1>21, <1>22 DEF Boundary
    <2>2. 1 \in 1 .. n /\ 1 \in 1 .. Len(events) /\ sent[1] = events[1]
      <3>1. Len(sent) # 0
        BY <1>8, <1>22, EmptySeq
      <3>2. n \in Nat /\ n # 0 /\ n <= Len(events)
        BY <1>6, <1>7, <1>8, <3>1
      <3>3. 1 \in 1 .. n /\ 1 \in 1 .. Len(events)
        BY <1>6, <3>2
      <3> QED BY <1>6, <1>7, <3>2, <3>3 DEF sent
    <2>3. events[1] \in records /\ events[1] > cursor
      BY <1>5, <2>2, PageFacts DEF events
    <2>4. Sent' = sent
      BY <1>15, <1>22 DEF Fresh
    <2>5. LedgerOf(id) >= LedgerOf(events[1])
      BY <1>1, <1>22, <2>2, <2>4 DEF Asked, Fresh
    <2>6. id \in Nat /\ events[1] \in Nat
      BY <1>14, <2>3
    <2>7. id > AfterLedger(l)
      BY <2>1, <2>3, <2>5, <2>6, SameLedgerAfter
    <2> QED BY <1>5, <2>1, <2>6, <2>7
  <1>23. ASSUME Fresh, sent = <<>>, NEW id PROVE ~Asked(id)'
    BY <1>1, <1>15, <1>23 DEF Asked, Fresh
  <1>24. ASSUME server.lastEventID # 0, NEW id \in records, DueNow(id)', id <= server.lastEventID
         PROVE  InSent(id)
    <2>1. DueNow(id)
      BY <1>11, <1>17, <1>24 DEF DueNow
    <2> QED BY <1>4, <1>24, <2>1 DEF ServerInv, Owed
  <1>25. ASSUME events # <<>>
         PROVE  Reaches(Sent, A, cursor)
    <2>1. CASE ~Fresh /\ server.lastEventID # 0
      <3>1. \A id \in A : id \in records /\ Owed(id)
        BY <1>14, <1>19, <2>1
      <3>2. cursor = server.lastEventID
        BY <2>1 DEF cursor
      <3> HIDE DEF A
      <3> QED BY <1>4, <2>1, <3>1, <3>2 DEF ServerInv, InSent, Reaches
    <2>2. CASE ~Fresh /\ server.lastEventID = 0
      <3>1. server.cursor # Now
        BY <1>18, <2>2
      <3>2. cursor = server.cursor
        BY <1>3, <2>2, <3>1, GetCursorType DEF cursor
      <3>3. Reaches(Sent, {id \in records : Owed(id)}, server.cursor)
        BY <1>4, <2>2, <3>1, FirstTurn
      <3>4. \A id \in A : id \in {x \in records : Owed(x)}
        BY <1>14, <1>19, <2>2
      <3> HIDE DEF A
      <3> QED BY <3>2, <3>3, <3>4 DEF Reaches
    <2>3. CASE Fresh
      <3>1. \A i \in 1 .. Len(Sent) : FALSE
        BY <2>3 DEF Fresh
      <3>2. ASSUME NEW id \in A, id <= cursor PROVE FALSE
        <4>1. id \in records /\ Owed(id)'
          BY <3>2
        <4>2. ~Asked(id)'
          BY <1>22, <1>23, <2>3, <3>2, <4>1
        <4>3. DueNow(id)'
          BY <4>1, <4>2 DEF Owed
        <4>4. server.lastEventID # 0
          BY <1>18, <1>21, <1>25, <2>3, <4>3 DEF DueNow
        <4>5. InSent(id)
          BY <1>24, <3>2, <4>1, <4>3, <4>4 DEF cursor
        <4> QED BY <3>1, <4>5 DEF InSent
      <3> HIDE DEF A
      <3> QED BY <3>1, <3>2 DEF Reaches
    <2> QED BY <2>1, <2>2, <2>3
  <1>26. ASSUME events = <<>>
         PROVE  /\ E # 0 => /\ Reaches(Sent, A, E)
                            /\ (E <= AfterLedger(latest) \/ (client.from # Now /\ E <= client.from))
                            /\ Fresh => Boundary(E)
                /\ E = 0 => server.lastEventID = 0 /\ server.cursor # Now
    <2>1. CASE server.lastEventID # 0
      <3>1. E = server.lastEventID
        BY <1>10, <1>26, <2>1
      <3>2. /\ E <= AfterLedger(latest) \/ (client.from # Now /\ E <= client.from)
            /\ Fresh => Boundary(E)
        BY <1>4, <2>1, <3>1 DEF ServerInv
      <3>3. \A id \in A : id \in records /\ Owed(id)
        <4> SUFFICES ASSUME NEW id \in A PROVE Owed(id)
          BY <1>14
        <4>1. Asked(id)' => Asked(id)
          BY <1>1, <1>16, <1>26 DEF Asked
        <4>2. DueNow(id)' => DueNow(id)
          BY <1>11, <1>17, <2>1 DEF DueNow
        <4> QED BY <4>1, <4>2 DEF Owed
      <3> HIDE DEF A
      <3>4. Reaches(Sent, A, E)
        BY <1>4, <2>1, <3>1, <3>3 DEF ServerInv, InSent, Reaches
      <3> QED BY <2>1, <3>1, <3>2, <3>4
    <2>2. CASE server.lastEventID = 0 /\ server.cursor # Now
      <3>1. E = server.pq /\ ~Fresh
        BY <1>10, <1>21, <1>26, <2>2
      <3>2. /\ server.pq = server.cursor
            /\ Reaches(Sent, {id \in records : Owed(id)}, server.cursor)
            /\ \/ server.cursor <= AfterLedger(latest)
               \/ client.from # Now /\ server.cursor <= client.from
        BY <1>4, <2>2, FirstTurn
      <3>3. \A id \in A : id \in {x \in records : Owed(x)}
        BY <1>14, <1>19, <3>1
      <3> HIDE DEF A
      <3>4. Reaches(Sent, A, E)
        BY <3>1, <3>2, <3>3 DEF Reaches
      <3> QED BY <2>2, <3>1, <3>2, <3>4
    <2>3. CASE server.lastEventID = 0 /\ server.cursor = Now
      <3>1. Fresh /\ server.pq # 0 /\ server.pq <= AfterLedger(latest) /\ Boundary(server.pq)
        BY <1>4, <2>3, FirstTurn
      <3>2. E = server.pq
        BY <1>10, <1>26, <2>3
      <3>3. \A i \in 1 .. Len(Sent) : FALSE
        BY <3>1 DEF Fresh
      <3>4. ASSUME NEW id \in A, id <= server.pq PROVE FALSE
        <4>1. ~Asked(id)'
          BY <1>16, <1>23, <1>26, <3>1
        <4>2. id > server.pq /\ id \in Nat
          BY <1>11, <1>14, <4>1 DEF Owed, DueNow
        <4> QED BY <1>3, <3>4, <4>2
      <3> HIDE DEF A
      <3>5. Reaches(Sent, A, E)
        BY <3>2, <3>3, <3>4 DEF Reaches
      <3> QED BY <3>1, <3>2, <3>5
    <2> QED BY <2>1, <2>2, <2>3
  <1>27. ASSUME events # <<>>
         PROVE  /\ Gapless(Sent \o sent, A)
                /\ n = Len(events) => E # 0 /\ E <= AfterLedger(latest) /\ Reaches(Sent \o sent, A, E)
    <2>1. Reaches(Sent, A, cursor)
      BY <1>25, <1>27
    <2> HIDE DEF A
    <2>2. n \in 0 .. Len(Page(cursor)) /\ Page(cursor) # <<>>
      BY <1>7, <1>27 DEF events
    <2>3. /\ Gapless(Sent \o SubSeq(Page(cursor), 1, n), A)
          /\ n = Len(Page(cursor)) /\ n # 0 =>
                /\ Page(cursor)[n] \in Nat \ {0} /\ Page(cursor)[n] <= AfterLedger(latest)
                /\ Reaches(Sent \o SubSeq(Page(cursor), 1, n), A, Page(cursor)[n])
      BY <1>5, <1>13, <1>14, <1>20, <2>1, <2>2, PageContinues
    <2>4. Len(events) # 0
      BY <1>6, <1>27, EmptySeq
    <2>5. Gapless(Sent \o sent, A)
      BY <2>3 DEF sent, events
    <2>6. n = Len(events) => /\ events[n] \in Nat \ {0} /\ events[n] <= AfterLedger(latest)
                             /\ Reaches(Sent \o sent, A, events[n])
      BY <2>3, <2>4 DEF sent, events
    <2> QED BY <1>9, <1>27, <2>5, <2>6
  <1>28. Gapless(Sent', A)
    BY <1>13, <1>16, <1>20, <1>27
  <1>29. SentInv'
    <2>1. \A id \in records : Owed(id)' => id \in A
      OBVIOUS
    <2> HIDE DEF A
    <2>2. \A id \in records : InSent(id)' <=> \E i \in 1 .. Len(Sent') : Sent'[i] = id
      BY DEF InSent
    <2> QED BY <1>2, <1>28, <2>1, <2>2 DEF SentInv, Gapless
  <1>30. ClientInv'
    BY <1>1, <1>4, <1>11 DEF ClientInv
  <1>31. ServerInv'
    <2>1. SUFFICES ASSUME left # 0 PROVE ServerInv'
      BY <1>11 DEF ServerInv, Serving
    <2>2. n = Len(events)
      BY <1>3, <1>6, <1>7, <1>8, <2>1
    <2>3. E # 0 => /\ Reaches(Sent', A, E)
                   /\ (E <= AfterLedger(latest) \/ (client.from # Now /\ E <= client.from))
      BY <1>13, <1>16, <1>26, <1>27, <2>2
    <2>4. E = 0 => server.lastEventID = 0 /\ server.cursor # Now /\ wire' = <<>> /\ server.cursor = client.cursor
      <3>1. E = 0 => events = <<>>
        BY <1>27, <2>2
      <3> QED BY <1>4, <1>16, <1>26, <3>1, FirstTurn
    <2>5. E # 0 /\ Fresh' => Boundary(E)
      <3>1. CASE events = <<>>
        BY <1>1, <1>16, <1>26, <3>1 DEF Fresh
      <3>2. CASE events # <<>>
        <4>1. Len(sent) # 0 /\ Len(Sent') = Len(Sent) + Len(sent) /\ Len(Sent) \in Nat /\ Len(sent) \in Nat
          BY <1>6, <1>8, <1>13, <2>2, <3>2, EmptySeq, Parts
        <4>2. Sent' = <<>> => Len(Sent') = 0
          OBVIOUS
        <4> QED BY <4>1, <4>2 DEF Fresh
      <3> QED BY <3>1, <3>2
    <2>6. E # 0 => /\ \A i \in 1 .. Len(Sent') : Sent'[i] <= E
                   /\ \A id \in records : Owed(id)' /\ id <= E => InSent(id)'
      <3>1. \A id \in records : Owed(id)' => id \in A
        OBVIOUS
      <3> HIDE DEF A
      <3> QED BY <2>3, <3>1 DEF Reaches, InSent
    <2>7. /\ server.cursor = Now =>
                server.pq \in Nat \ {0} /\ server.pq <= AfterLedger(latest) /\ Boundary(server.pq)
          /\ server.cursor # Now => server.pq = server.cursor
      BY <1>4 DEF ServerInv
    <2> HIDE DEF A
    <2> QED BY <1>1, <1>2, <1>4, <1>11, <2>3, <2>4, <2>5, <2>6, <2>7 DEF ServerInv, Boundary
  <1> QED BY <1>2, <1>12, <1>29, <1>30, <1>31

-----------------------------------------------------------------------------

(* The invariant holds at the start: the first ledger has been ingested. *)
LEMMA InitInv == Init => IInv
  <1> SUFFICES ASSUME Init PROVE IInv
    OBVIOUS
  <1>1. /\ latest = 1 /\ records = {Toid(1, 1)} /\ ever = records /\ ledgers = {1}
        /\ cached = [historyLatest |-> 1, historyElder |-> 1, expHistoryLatest |-> 1] /\ tick = <<>>
        /\ reaper = [pc |-> "idle", target |-> 0] /\ server = NoRequest /\ wire = <<>>
    BY DEF Init
  <1>2. PICK c \in Starts : client = [pc |-> "connecting", cursor |-> c, from |-> c, handled |-> <<>>]
    BY DEF Init
  <1>3. Toid(1, 1) \in Nat \ {0} /\ Toid(1, 1) <= AfterLedger(1)
    <2>1. AfterLedger(0) \in Nat /\ 1 \in 0 .. MaxRecords /\ 0 + 1 = 1
      BY ToidFacts, StreamAssumption
    <2>2. Toid(0 + 1, 1) = AfterLedger(0) + 1 + 1 /\ Toid(0 + 1, 1) <= AfterLedger(0 + 1)
      BY <2>1, ToidFacts
    <2> QED BY <2>1, <2>2
  <1>4. DbInv
    BY <1>1, <1>3 DEF DbInv
  <1>5. CacheInv
    BY <1>1 DEF CacheInv
  <1>6. c \in Nat \union {Now} /\ client \in ClientRecord
    BY <1>2, StreamAssumption DEF ClientRecord
  <1>7. TypeInv
    BY <1>1, <1>6, StreamAssumption DEF TypeInv, ServerRecord, NoRequest
  <1>8. Sent = <<>>
    BY <1>1, <1>2 DEF Sent
  <1>9. SentInv
    <2>1. \A i \in 1 .. Len(Sent) : FALSE
      BY <1>8
    <2> QED BY <2>1 DEF SentInv
  <1>10. ClientInv /\ ServerInv
    <2>1. server.cursor # Now /\ ~Serving
      BY <1>1, StreamAssumption DEF Serving, NoRequest
    <2> QED BY <1>1, <1>2, <2>1 DEF ClientInv, ServerInv
  <1>11. RetainedIsKept
    BY <1>1 DEF RetainedIsKept
  <1> QED BY <1>4, <1>5, <1>7, <1>9, <1>10, <1>11 DEF IInv

(* Every step keeps it. *)
LEMMA NextInv == IInv /\ [Next]_vars => IInv'
  <1> SUFFICES ASSUME IInv, [Next]_vars PROVE IInv'
    OBVIOUS
  <1>1. CASE \E n \in 0 .. MaxRecords : Ingest(n)
    BY <1>1, IngestStep
  <1>2. CASE Tick \/ TickFails
    BY <1>2, TickStep
  <1>3. CASE Reap
    BY <1>3, ReapStep
  <1>4. CASE Connect
    BY <1>4, ConnectStep
  <1>5. CASE GenerateEvents
    BY <1>5, GenerateStep
  <1>6. CASE Start \/ Select \/ Poll \/ NewLedger \/ Timeout \/ StreamErr \/ ClientReconnects
    BY <1>6, WaitStep
  <1>7. CASE Drop
    BY <1>7, DropStep
  <1>8. CASE ClientRead
    BY <1>8, ClientReadStep
  <1>9. CASE UNCHANGED vars
    <2>1. UNCHANGED <<dbVars, appVars, wire>> /\ client' = client /\ server' = server
      BY <1>9 DEF vars, connVars
    <2>2. client \in ClientRecord /\ server \in ServerRecord
      BY RecordTypes
    <2>3. (client.pc = "connecting" => wire = <<>>) /\ (Serving => client.pc = "reading")
      BY DEF IInv, ClientInv, ServerInv
    <2>4. Serving' <=> Serving
      BY <2>1 DEF Serving
    <2> QED BY <2>1, <2>2, <2>3, <2>4, QuietStep
  <1> QED BY <1>1, <1>2, <1>3, <1>4, <1>5, <1>6, <1>7, <1>8, <1>9 DEF Next, Serve, Read

(* The inductive invariant is one. *)
THEOREM StreamInvariant == Spec => []IInv
  BY InitInv, NextInv, PTL DEF Spec

(* From a cache that is behind, and interrupted anywhere, the reaper leaves every
   record of the last RetentionCount ledgers. *)
THEOREM RetainedKept == Spec => []RetainedIsKept
  <1>1. IInv => RetainedIsKept
    BY DEF IInv
  <1> QED BY <1>1, StreamInvariant, PTL

(* What the client has handled is the beginning of what was sent. *)
LEMMA HandledFacts ==
    ASSUME IInv
    PROVE  /\ client.handled \in Seq(Nat) /\ Len(client.handled) \in Nat
           /\ DOMAIN client.handled = 1 .. Len(client.handled)
           /\ \A i \in 1 .. Len(client.handled) :
                 i \in 1 .. Len(Sent) /\ Sent[i] = client.handled[i] /\ client.handled[i] \in Nat \ {0}
           /\ Handled = {client.handled[i] : i \in 1 .. Len(client.handled)}
  <1> DEFINE h == client.handled
  <1>1. h \in Seq(Nat) /\ wire \in Seq(Nat)
    BY RecordTypes
  <1>2. Len(h) \in Nat /\ DOMAIN h = 1 .. Len(h)
    BY <1>1, LenProperties
  <1>3. \A i \in 1 .. Len(h) : i \in 1 .. Len(Sent) /\ Sent[i] = h[i]
    BY <1>1, Parts DEF Sent
  <1>4. \A i \in 1 .. Len(h) : h[i] \in Nat \ {0}
    BY <1>3 DEF IInv, SentInv
  <1>5. Handled = {h[i] : i \in 1 .. Len(h)}
    BY <1>2 DEF Handled, Range
  <1> QED BY <1>1, <1>2, <1>3, <1>4, <1>5

(* Over all connections, and whatever the reaper and the ticks do meanwhile, the
   client handles records in order, each once, and from the place its stream begins
   passes over none that is there: after its cursor, where a request for `now` that
   found nothing resolved it, and at the ledger of its first record in any case. *)
THEOREM InOrder == Spec => []InOrderWithoutGaps
  <1>1. ASSUME IInv PROVE InOrderWithoutGaps
    <2> DEFINE h == client.handled
    <2> USE <1>1
    <2>1. /\ Len(h) \in Nat /\ DOMAIN h = 1 .. Len(h)
          /\ \A i \in 1 .. Len(h) : i \in 1 .. Len(Sent) /\ Sent[i] = h[i] /\ h[i] \in Nat \ {0}
          /\ Handled = {h[i] : i \in 1 .. Len(h)}
      BY HandledFacts
    <2> HIDE DEF h
    <2>2. \A i, j \in 1 .. Len(h) : i < j => h[i] < h[j]
      BY <2>1 DEF IInv, SentInv
    <2>3. ASSUME NEW id \in records, Due(id) \/ DueNow(id), id <= MaxOrZero(Handled)
          PROVE  id \in Handled
      <3>1. id \in Nat \ {0}
        BY DEF IInv, DbInv
      <3>2. Handled # {}
        BY <2>3, <3>1 DEF MaxOrZero
      <3> DEFINE k == Len(h)
      <3>3. k \in 1 .. k
        BY <2>1, <3>2
      <3>4. \A i \in 1 .. k : h[i] <= h[k]
        <4>1. ASSUME NEW i \in 1 .. Len(h) PROVE h[i] <= h[Len(h)]
          <5>0. Len(h) \in Nat
            BY <2>1
          <5>1. i = Len(h) \/ i < Len(h)
            BY <5>0
          <5>2. h[i] \in Nat /\ h[Len(h)] \in Nat
            BY <2>1, <3>3
          <5>3. i < Len(h) => h[i] < h[Len(h)]
            BY <2>2, <3>3
          <5> QED BY <5>1, <5>2, <5>3
        <4> QED BY <4>1
      <3>5. h[k] \in Handled /\ \A x \in Handled : x \in Nat /\ h[k] >= x
        BY <2>1, <3>3, <3>4
      <3>6. Max(Handled) \in Handled
        BY <3>5 DEF Max
      <3>7. id <= h[k]
        <4> DEFINE m == Max(Handled)
        <4>1. id <= m /\ m \in Handled
          BY <2>3, <3>2, <3>6 DEF MaxOrZero
        <4> HIDE DEF m
        <4>2. m \in Nat /\ h[k] >= m /\ h[k] \in Nat
          BY <3>5, <4>1
        <4> QED BY <3>1, <4>1, <4>2
      <3>8. Owed(id) /\ k \in 1 .. Len(Sent) /\ Sent[k] = h[k]
        <4>1. k \in 1 .. Len(Sent) /\ Sent[k] = h[k]
          BY <2>1, <3>3
        <4>2. 1 \in 1 .. Len(h) /\ 1 \in 1 .. Len(Sent) /\ Sent[1] = h[1]
          BY <2>1, <3>3
        <4>3. Sent # <<>>
          BY <4>2
        <4>4. Head(client.handled) = Sent[1]
          BY <4>2 DEF h
        <4>5. Due(id) => Asked(id)
          BY <4>3, <4>4 DEF Due, Asked
        <4> QED BY <2>3, <4>1, <4>5 DEF Owed
      <3>9. PICK j \in 1 .. Len(Sent) : Sent[j] = id
        BY <3>7, <3>8 DEF IInv, SentInv, InSent
      <3>10. ~(k < j)
        <4>1. k < j => Sent[k] < Sent[j]
          BY <3>8, <3>9 DEF IInv, SentInv
        <4> QED BY <2>1, <3>1, <3>3, <3>7, <3>8, <3>9, <4>1
      <3>11. j \in 1 .. k
        BY <2>1, <3>9, <3>10
      <3> QED BY <2>1, <3>9, <3>11
    <2> QED BY <2>1, <2>2, <2>3 DEF InOrderWithoutGaps, h
  <1> QED BY <1>1, StreamInvariant, PTL
=============================================================================
