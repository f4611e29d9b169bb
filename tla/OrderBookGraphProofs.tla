------------------------ MODULE OrderBookGraphProofs ------------------------
(***************************************************************************)
(* Proofs about OrderBookGraph and Price for any offers, assets, batches,  *)
(* ledgers and widths of amounts.                                          *)
(***************************************************************************)
EXTENDS Price, FiniteSetTheorems, SequenceTheorems, WellFoundedInduction, TLAPS

(* A book: at most one offer of every id. *)
IsBook(m) == m \in [Ids -> Entry \cup {None}] /\ \A i \in Ids : m[i] # None => m[i].id = i

Known(m) == {i \in Ids : m[i] # None}

(* The offers of a trading pair. *)
Trading(m, s, b) == {e \in Entry : e.selling = s /\ e.buying = b /\ m[e.id] = e}

(* A list has every offer of a set once, cheapest first. *)
Lists(l, S) ==
    /\ l \in Seq(Entry)
    /\ \A i \in 1..Len(l) : l[i] \in S
    /\ \A e \in S : \E i \in 1..Len(l) : l[i] = e
    /\ \A i, j \in 1..Len(l) : l[i].id = l[j].id => i = j
    /\ \A i, j \in 1..Len(l) : i < j => ~Cheaper(l[j].price, l[i].price)

(* The list of a pair, empty if the index has no key for it. *)
List(index, a, b) == Get(Get(index, a, NoKeys), b, <<>>)

(* A key without offers is gone. *)
KeysUsed(index) ==
    /\ DOMAIN index \subseteq Assets
    /\ \A a \in DOMAIN index :
          /\ DOMAIN index[a] # {} /\ DOMAIN index[a] \subseteq Assets
          /\ \A b \in DOMAIN index[a] : index[a][b] # <<>>

(* Indexes and pairs say the same: the graph is the book m. *)
Holds(g, m) ==
    /\ IsBook(m) /\ IsFiniteSet(Known(m))
    /\ DOMAIN g.pairs = Known(m)
    /\ \A i \in Known(m) : g.pairs[i] = [selling |-> m[i].selling, buying |-> m[i].buying]
    /\ KeysUsed(g.selling) /\ KeysUsed(g.buying)
    /\ \A s, b \in Assets : /\ Lists(List(g.selling, s, b), Trading(m, s, b))
                            /\ Lists(List(g.buying, b, s), Trading(m, s, b))

-----------------------------------------------------------------------------
(* Numbers.                                                                *)

Less == {p \in Nat \X Nat : p[1] < p[2]}

LEMMA Smallest ==
    ASSUME NEW T \in SUBSET Nat, T # {}
    PROVE  \E x \in T : \A y \in T : x <= y
  <1>1. IsWellFoundedOn(Less, Nat)
    BY NatLessThanWellFounded DEF OpToRel, Less
  <1>2. PICK x \in T : \A y \in T : ~(<<y, x>> \in Less)
    BY <1>1, WFMin
  <1>3. \A y \in T : ~(y < x)
    BY <1>2 DEF Less
  <1> QED BY <1>2, <1>3

(* The smallest and the largest number of a bounded set. *)
LEMMA MinIs ==
    ASSUME NEW T \in SUBSET Nat, T # {}
    PROVE  Min(T) \in T /\ \A y \in T : Min(T) <= y
  BY Smallest DEF Min

LEMMA MaxIs ==
    ASSUME NEW n \in Nat, NEW T \in SUBSET (1..n), T # {}
    PROVE  Max(T) \in T /\ \A y \in T : Max(T) >= y
  <1> DEFINE U == {u \in Nat : \A y \in T : y <= u}
  <1>1. U # {} /\ U \subseteq Nat
    <2>1. n \in U
      OBVIOUS
    <2> QED BY <2>1
  <1>2. PICK x \in U : \A y \in U : x <= y
    BY <1>1, Smallest
  <1>3. x \in T
    <2>1. SUFFICES ASSUME x \notin T PROVE FALSE
      OBVIOUS
    <2>2. \A y \in T : y <= x - 1 /\ y >= 1
      BY <1>2, <2>1
    <2>3. x - 1 \in U
      <3>1. PICK y \in T : TRUE
        OBVIOUS
      <3>2. x - 1 \in Nat
        BY <1>2, <2>2, <3>1
      <3> QED BY <2>2, <3>2
    <2> QED BY <1>2, <2>3
  <1>4. \E z \in T : \A y \in T : z >= y
    BY <1>2, <1>3
  <1> QED BY <1>4 DEF Max

(* Prices are compared by value. *)
LEMMA PriceOrder ==
    ASSUME NEW a \in Nat \ {0}, NEW b \in Nat \ {0}, NEW c \in Nat \ {0},
           NEW d \in Nat \ {0}, NEW e \in Nat \ {0}, NEW f \in Nat \ {0},
           a * d < c * b, c * f <= e * d
    PROVE  a * f < e * b
  <1>1. (a * d) * f < (c * b) * f
    OBVIOUS
  <1>2. (c * f) * b <= (e * d) * b
    OBVIOUS
  <1>3. (a * f) * d < (e * b) * d
    BY <1>1, <1>2
  <1> QED BY <1>3

-----------------------------------------------------------------------------
(* Folds.                                                                  *)

(* The recursion of FoldLeft over the positions in s. *)
FoldBody(f, b, ops, s) == IF s = {} THEN b ELSE Execute(f[s \ {Max(s)}], ops[Max(s)])

IsFold(f, b, ops, n) == f = [s \in SUBSET (1..n) |-> FoldBody(f, b, ops, s)]

LEMMA FoldIs ==
    ASSUME NEW b, NEW n \in Nat, NEW ops, DOMAIN ops = 1..n
    PROVE  FoldLeft(Execute, b, ops) = (CHOOSE f : IsFold(f, b, ops, n))[1..n]
  BY DEF FoldLeft, MapThenFoldSet, FoldBody, IsFold

(* A function with this recursion over the first k positions gives one over k + 1. *)
LEMMA FoldExtends ==
    ASSUME NEW b, NEW ops, NEW k \in Nat, NEW f, IsFold(f, b, ops, k)
    PROVE  \E g : IsFold(g, b, ops, k + 1)
  <1> DEFINE new(s) == Execute(f[s \ {k + 1}], ops[k + 1])
             g == [s \in SUBSET (1..k + 1) |-> IF s \in SUBSET (1..k) THEN f[s] ELSE new(s)]
  <1>1. 1..k \subseteq 1..k + 1 /\ (1..k + 1) \ {k + 1} = 1..k
    OBVIOUS
  <1>2. \A s \in SUBSET (1..k) : g[s] = f[s]
    BY <1>1
  <1>3. \A s \in SUBSET (1..k) : f[s] = FoldBody(f, b, ops, s)
    BY DEF IsFold
  <1>4. ASSUME NEW s \in SUBSET (1..k + 1)
        PROVE  g[s] = FoldBody(g, b, ops, s)
    <2>1. CASE s \in SUBSET (1..k)
      <3>1. g[s] = FoldBody(f, b, ops, s)
        BY <1>2, <1>3, <2>1
      <3>2. s # {} => g[s \ {Max(s)}] = f[s \ {Max(s)}]
        <4>1. s \ {Max(s)} \in SUBSET (1..k)
          BY <2>1
        <4> QED BY <1>2, <4>1
      <3> QED BY <3>1, <3>2 DEF FoldBody
    <2>2. CASE s \notin SUBSET (1..k)
      <3>1. k + 1 \in s
        BY <1>1, <2>2
      <3>2. Max(s) = k + 1
        <4>1. k + 1 \in Nat /\ s # {}
          BY <3>1
        <4>2. Max(s) \in s /\ Max(s) >= k + 1
          BY <3>1, <4>1, MaxIs
        <4>3. Max(s) \in 1..k + 1
          BY <4>2
        <4> QED BY <4>2, <4>3
      <3>3. s \ {k + 1} \in SUBSET (1..k)
        BY <1>1
      <3>4. g[s] = new(s)
        BY <2>2
      <3>5. g[s \ {k + 1}] = f[s \ {k + 1}]
        BY <1>2, <3>3
      <3> HIDE DEF g
      <3> QED BY <3>1, <3>2, <3>4, <3>5 DEF FoldBody
    <2> QED BY <2>1, <2>2
  <1>5. g = [s \in SUBSET (1..k + 1) |-> FoldBody(g, b, ops, s)]
    <2>1. g = [s \in SUBSET (1..k + 1) |-> g[s]]
      OBVIOUS
    <2> HIDE DEF g
    <2> QED BY <1>4, <2>1
  <1> QED BY <1>5 DEF IsFold

LEMMA FoldExists ==
    ASSUME NEW b, NEW ops, NEW n \in Nat
    PROVE  \E f : IsFold(f, b, ops, n)
  <1> DEFINE Has(k) == \E f : IsFold(f, b, ops, k)
             T == {k \in Nat : ~Has(k)}
  <1>1. SUFFICES ASSUME T # {} PROVE FALSE
    OBVIOUS
  <1>2. PICK k \in T : \A j \in T : k <= j
    BY <1>1, Smallest
  <1>3. k \in Nat /\ ~Has(k) /\ \A j \in Nat : ~Has(j) => k <= j
    BY <1>2
  <1>4. Has(0)
    <2> DEFINE f == [s \in SUBSET (1..0) |-> b]
    <2>1. \A s \in SUBSET (1..0) : s = {}
      OBVIOUS
    <2>2. f = [s \in SUBSET (1..0) |-> FoldBody(f, b, ops, s)]
      BY <2>1 DEF FoldBody
    <2> QED BY <2>2 DEF IsFold
  <1>5. \A j \in Nat : Has(j) => Has(j + 1)
    BY FoldExtends
  <1> HIDE DEF Has, T
  <1>6. k # 0
    BY <1>3, <1>4
  <1>7. k - 1 \in Nat /\ (k - 1) + 1 = k /\ ~(k <= k - 1)
    BY <1>3, <1>6
  <1> QED BY <1>3, <1>5, <1>7

(* A run of the loop of apply: r[k] is the state after k operations. *)
Applied(b, ops) == FoldLeft(Execute, b, ops)

IsRun(r, b, ops, n) ==
    /\ r[0] = b /\ r[n] = Applied(b, ops)
    /\ \A k \in 0..n - 1 : r[k + 1] = Execute(r[k], ops[k + 1])

LEMMA FoldRun ==
    ASSUME NEW b, NEW n \in Nat, NEW ops, DOMAIN ops = 1..n
    PROVE  \E r : IsRun(r, b, ops, n)
  <1> DEFINE f == CHOOSE h : IsFold(h, b, ops, n)
             r == [k \in 0..n |-> f[1..k]]
  <1>1. f = [s \in SUBSET (1..n) |-> FoldBody(f, b, ops, s)]
    <2>1. IsFold(f, b, ops, n)
      BY FoldExists
    <2> QED BY <2>1 DEF IsFold
  <1>2. Applied(b, ops) = f[1..n]
    BY FoldIs DEF Applied
  <1> HIDE DEF f
  <1>3. f[1..0] = b
    <2>1. 1..0 = {} /\ {} \in SUBSET (1..n)
      OBVIOUS
    <2>2. f[{}] = FoldBody(f, b, ops, {})
      BY <1>1, <2>1
    <2> QED BY <2>1, <2>2 DEF FoldBody
  <1>4. ASSUME NEW k \in 0..n - 1
        PROVE  f[1..k + 1] = Execute(f[1..k], ops[k + 1])
    <2>1. /\ 1..k + 1 \in SUBSET (1..n) /\ k + 1 \in Nat /\ k + 1 \in 1..k + 1
          /\ (1..k + 1) \ {k + 1} = 1..k
      OBVIOUS
    <2>2. Max(1..k + 1) = k + 1
      <3>1. Max(1..k + 1) \in 1..k + 1 /\ Max(1..k + 1) >= k + 1
        BY <2>1, MaxIs
      <3> QED BY <2>1, <3>1
    <2>3. f[1..k + 1] = FoldBody(f, b, ops, 1..k + 1)
      BY <1>1, <2>1
    <2>4. 1..k + 1 # {}
      BY <2>1
    <2> QED BY <2>1, <2>2, <2>3, <2>4, Zenon DEF FoldBody
  <1>5. \A k \in 0..n - 1 : k \in 0..n /\ k + 1 \in 0..n
    OBVIOUS
  <1>6. \A k \in 0..n : r[k] = f[1..k]
    OBVIOUS
  <1>7. 0 \in 0..n /\ n \in 0..n
    OBVIOUS
  <1> HIDE DEF r
  <1>8. r[0] = b /\ r[n] = Applied(b, ops)
    BY <1>2, <1>3, <1>6, <1>7
  <1>9. \A k \in 0..n - 1 : r[k + 1] = Execute(r[k], ops[k + 1])
    BY <1>4, <1>5, <1>6
  <1> QED BY <1>8, <1>9 DEF IsRun

-----------------------------------------------------------------------------
(* Lists.                                                                  *)

LEMMA Joined ==
    ASSUME NEW s \in Seq(Entry), NEW t \in Seq(Entry)
    PROVE  /\ s \o t \in Seq(Entry) /\ Len(s \o t) = Len(s) + Len(t)
           /\ \A i \in 1..Len(s) + Len(t) : (s \o t)[i] = IF i <= Len(s) THEN s[i] ELSE t[i - Len(s)]
  BY ConcatProperties

LEMMA Part ==
    ASSUME NEW s \in Seq(Entry), NEW m \in 1..Len(s) + 1, NEW n \in m - 1..Len(s), NEW k, k = n - m + 1
    PROVE  /\ SubSeq(s, m, n) \in Seq(Entry) /\ Len(SubSeq(s, m, n)) = k
           /\ \A i \in 1..k : SubSeq(s, m, n)[i] = s[m + i - 1]
  <1>1. Len(s) \in Nat /\ m \in Nat /\ n \in Int
    BY LenProperties
  <1>2. SubSeq(s, m, n) \in Seq(Entry) /\ Len(SubSeq(s, m, n)) = IF m <= n THEN n - m + 1 ELSE 0
    BY <1>1, SubSeqProperties
  <1>3. (IF m <= n THEN n - m + 1 ELSE 0) = n - m + 1
    BY <1>1
  <1>4. \A i \in 1..n - m + 1 : SubSeq(s, m, n)[i] = s[m + i - 1]
    BY <1>1, SubSeqProperties
  <1> QED BY <1>2, <1>3, <1>4

(* The first k items, and those from p on. *)
LEMMA FirstItems ==
    ASSUME NEW l \in Seq(Entry), NEW k \in 0..Len(l)
    PROVE  /\ SubSeq(l, 1, k) \in Seq(Entry) /\ Len(SubSeq(l, 1, k)) = k
           /\ \A i \in 1..k : SubSeq(l, 1, k)[i] = l[i]
  <1>1. Len(l) \in Nat /\ k \in Nat
    BY LenProperties
  <1>2. 1 \in 1..Len(l) + 1 /\ k \in 1 - 1..Len(l) /\ k = k - 1 + 1 /\ \A i \in 1..k : 1 + i - 1 = i
    BY <1>1
  <1>3. /\ SubSeq(l, 1, k) \in Seq(Entry) /\ Len(SubSeq(l, 1, k)) = k
        /\ \A i \in 1..k : SubSeq(l, 1, k)[i] = l[1 + i - 1]
    BY <1>2, Part
  <1> QED BY <1>2, <1>3, Zenon

LEMMA LastItems ==
    ASSUME NEW l \in Seq(Entry), NEW p \in 1..Len(l) + 1
    PROVE  /\ SubSeq(l, p, Len(l)) \in Seq(Entry) /\ Len(SubSeq(l, p, Len(l))) = Len(l) - p + 1
           /\ \A i \in 1..Len(l) - p + 1 : SubSeq(l, p, Len(l))[i] = l[p + i - 1]
  <1>1. Len(l) \in Nat /\ p \in Nat
    BY LenProperties
  <1>2. Len(l) \in p - 1..Len(l)
    BY <1>1
  <1> QED BY <1>2, Part

(* A new item among the others, and an item taken out. *)
LEMMA InsertAtIs ==
    ASSUME NEW l \in Seq(Entry), NEW e \in Entry, NEW p \in 1..Len(l) + 1
    PROVE  /\ InsertAt(l, p, e) \in Seq(Entry) /\ Len(InsertAt(l, p, e)) = Len(l) + 1
           /\ \A j \in 1..Len(l) + 1 :
                 InsertAt(l, p, e)[j] = IF j < p THEN l[j] ELSE IF j = p THEN e ELSE l[j - 1]
  <1> DEFINE n == Len(l)
             a == SubSeq(l, 1, p - 1)
             x == <<e>>
             c == SubSeq(l, p, n)
             d == a \o x
             r == d \o c
  <1>1. n \in Nat /\ p \in Nat /\ p >= 1 /\ p <= n + 1
    BY LenProperties
  <1>2. a \in Seq(Entry) /\ Len(a) = p - 1 /\ \A i \in 1..p - 1 : a[i] = l[i]
    <2>1. p - 1 \in 0..n
      BY <1>1
    <2> QED BY <2>1, FirstItems
  <1>3. c \in Seq(Entry) /\ Len(c) = n - p + 1 /\ \A i \in 1..n - p + 1 : c[i] = l[p + i - 1]
    BY LastItems
  <1>4. x \in Seq(Entry) /\ Len(x) = 1 /\ x[1] = e
    OBVIOUS
  <1>5. r = InsertAt(l, p, e)
    BY DEF InsertAt
  <1> HIDE DEF a, x, c, n
  <1>6. /\ d \in Seq(Entry) /\ Len(d) = p
        /\ \A i \in 1..p : d[i] = IF i <= p - 1 THEN a[i] ELSE x[i - (p - 1)]
    <2>1. (p - 1) + 1 = p
      BY <1>1
    <2>2. /\ d \in Seq(Entry) /\ Len(d) = Len(a) + Len(x)
          /\ \A i \in 1..Len(a) + Len(x) : d[i] = IF i <= Len(a) THEN a[i] ELSE x[i - Len(a)]
      BY <1>2, <1>4, Joined
    <2> HIDE DEF d
    <2> QED BY <1>2, <1>4, <2>1, <2>2
  <1> HIDE DEF d
  <1>7. /\ r \in Seq(Entry) /\ Len(r) = n + 1
        /\ \A i \in 1..n + 1 : r[i] = IF i <= p THEN d[i] ELSE c[i - p]
    <2>1. p + (n - p + 1) = n + 1
      BY <1>1
    <2>2. /\ r \in Seq(Entry) /\ Len(r) = Len(d) + Len(c)
          /\ \A i \in 1..Len(d) + Len(c) : r[i] = IF i <= Len(d) THEN d[i] ELSE c[i - Len(d)]
      BY <1>3, <1>6, Joined
    <2> HIDE DEF r
    <2> QED BY <1>3, <1>6, <2>1, <2>2
  <1> HIDE DEF r
  <1>8. ASSUME NEW j \in 1..n + 1
        PROVE  r[j] = IF j < p THEN l[j] ELSE IF j = p THEN e ELSE l[j - 1]
    <2>1. r[j] = IF j <= p THEN d[j] ELSE c[j - p]
      BY <1>7
    <2>2. CASE j < p
      <3>1. j <= p /\ j \in 1..p /\ j <= p - 1 /\ j \in 1..p - 1
        BY <1>1, <2>2
      <3> QED BY <1>2, <1>6, <2>1, <2>2, <3>1, Zenon
    <2>3. CASE j = p
      <3>1. j <= p /\ j \in 1..p /\ ~(j <= p - 1) /\ j - (p - 1) = 1 /\ ~(j < p)
        BY <1>1, <2>3
      <3> QED BY <1>4, <1>6, <2>1, <2>3, <3>1, Zenon
    <2>4. CASE j > p
      <3>1. ~(j <= p) /\ ~(j < p) /\ j # p /\ j - p \in 1..n - p + 1 /\ p + (j - p) - 1 = j - 1
        BY <1>1, <2>4
      <3> QED BY <1>3, <2>1, <3>1, Zenon
    <2> QED BY <1>1, <2>2, <2>3, <2>4
  <1> QED BY <1>5, <1>7, <1>8 DEF n

LEMMA RemoveAtIs ==
    ASSUME NEW l \in Seq(Entry), NEW p \in 1..Len(l)
    PROVE  /\ RemoveAt(l, p) \in Seq(Entry) /\ Len(RemoveAt(l, p)) = Len(l) - 1
           /\ \A j \in 1..Len(l) - 1 : RemoveAt(l, p)[j] = IF j < p THEN l[j] ELSE l[j + 1]
  <1> DEFINE n == Len(l)
             a == SubSeq(l, 1, p - 1)
             c == SubSeq(l, p + 1, n)
             r == a \o c
  <1>1. n \in Nat /\ p \in Nat /\ p >= 1 /\ p <= n
    BY LenProperties
  <1>2. a \in Seq(Entry) /\ Len(a) = p - 1 /\ \A i \in 1..p - 1 : a[i] = l[i]
    <2>1. p - 1 \in 0..n
      BY <1>1
    <2> QED BY <2>1, FirstItems
  <1>3. c \in Seq(Entry) /\ Len(c) = n - (p + 1) + 1 /\ \A i \in 1..n - (p + 1) + 1 : c[i] = l[(p + 1) + i - 1]
    <2>1. p + 1 \in 1..n + 1
      BY <1>1
    <2> QED BY <2>1, LastItems
  <1>4. r = RemoveAt(l, p)
    BY DEF RemoveAt
  <1> HIDE DEF a, c, n
  <1>5. /\ r \in Seq(Entry) /\ Len(r) = n - 1
        /\ \A i \in 1..n - 1 : r[i] = IF i <= p - 1 THEN a[i] ELSE c[i - (p - 1)]
    <2>1. (p - 1) + (n - (p + 1) + 1) = n - 1
      BY <1>1
    <2>2. /\ r \in Seq(Entry) /\ Len(r) = Len(a) + Len(c)
          /\ \A i \in 1..Len(a) + Len(c) : r[i] = IF i <= Len(a) THEN a[i] ELSE c[i - Len(a)]
      BY <1>2, <1>3, Joined
    <2> HIDE DEF r
    <2> QED BY <1>2, <1>3, <2>1, <2>2
  <1> HIDE DEF r
  <1>6. ASSUME NEW j \in 1..n - 1
        PROVE  r[j] = IF j < p THEN l[j] ELSE l[j + 1]
    <2>1. r[j] = IF j <= p - 1 THEN a[j] ELSE c[j - (p - 1)]
      BY <1>5
    <2>2. CASE j < p
      <3>1. j <= p - 1 /\ j \in 1..p - 1
        BY <1>1, <2>2
      <3> QED BY <1>2, <2>1, <2>2, <3>1, Zenon
    <2>3. CASE ~(j < p)
      <3>1. ~(j <= p - 1) /\ j - (p - 1) \in 1..n - (p + 1) + 1 /\ (p + 1) + (j - (p - 1)) - 1 = j + 1
        BY <1>1, <2>3
      <3> QED BY <1>3, <2>1, <2>3, <3>1, Zenon
    <2> QED BY <2>2, <2>3
  <1> QED BY <1>4, <1>5, <1>6 DEF n

-----------------------------------------------------------------------------
(* One price-sorted list.                                                  *)

LEMMA Prices ==
    ASSUME NEW x \in Entry, NEW y \in Entry
    PROVE  /\ x.price.n \in Nat \ {0} /\ x.price.d \in Nat \ {0}
           /\ y.price.n \in Nat \ {0} /\ y.price.d \in Nat \ {0}
           /\ x.price.n * y.price.d \in Int /\ y.price.n * x.price.d \in Int
  BY GraphAssumption

LEMMA Dearer ==
    ASSUME NEW x \in Entry, NEW y \in Entry, NEW z \in Entry,
           Cheaper(x.price, y.price), ~Cheaper(z.price, y.price)
    PROVE  Cheaper(x.price, z.price) /\ ~Cheaper(z.price, x.price)
  <1>1. x.price.n * y.price.d < y.price.n * x.price.d
    BY DEF Cheaper
  <1>2. y.price.n * z.price.d <= z.price.n * y.price.d
    BY Prices DEF Cheaper
  <1>3. x.price.n * z.price.d < z.price.n * x.price.d
    BY <1>1, <1>2, Prices, PriceOrder
  <1> QED BY <1>3, Prices DEF Cheaper

LEMMA NotDearer ==
    ASSUME NEW x \in Entry
    PROVE  ~Cheaper(x.price, x.price)
  BY Prices DEF Cheaper

(* Where edgeSet.add puts an offer. *)
Place(l, e) ==
    LET i == SelectInSeq(l, LAMBDA o : Cheaper(e.price, o.price))
    IN IF i = 0 THEN Len(l) + 1 ELSE i

LEMMA PlaceIs ==
    ASSUME NEW l \in Seq(Entry), NEW e \in Entry
    PROVE  /\ Place(l, e) \in 1..Len(l) + 1
           /\ \A j \in 1..Len(l) : j < Place(l, e) => ~Cheaper(e.price, l[j].price)
           /\ Place(l, e) <= Len(l) => Cheaper(e.price, l[Place(l, e)].price)
  <1> DEFINE I == {i \in 1..Len(l) : Cheaper(e.price, l[i].price)}
  <1>1. Len(l) \in Nat
    BY LenProperties
  <1>2. Place(l, e) = LET i == IF I # {} THEN Min(I) ELSE 0 IN IF i = 0 THEN Len(l) + 1 ELSE i
    BY DEF Place, SelectInSeq
  <1>3. CASE I = {}
    <2>1. Place(l, e) = Len(l) + 1
      BY <1>2, <1>3
    <2> QED BY <1>1, <1>3, <2>1
  <1>4. CASE I # {}
    <2>1. I \subseteq Nat
      OBVIOUS
    <2>2. Min(I) \in I /\ \A y \in I : Min(I) <= y
      BY <1>4, <2>1, MinIs
    <2>3. Place(l, e) = Min(I)
      BY <1>2, <1>4, <2>2
    <2>4. Min(I) \in 1..Len(l) /\ Cheaper(e.price, l[Min(I)].price)
      BY <2>2
    <2>5. \A j \in 1..Len(l) : j < Min(I) => j \notin I
      BY <1>1, <2>2, <2>4
    <2> HIDE DEF I
    <2>6. \A j \in 1..Len(l) : j \notin I => ~Cheaper(e.price, l[j].price)
      BY DEF I
    <2> QED BY <1>1, <2>3, <2>4, <2>5, <2>6
  <1> QED BY <1>3, <1>4

LEMMA Inserted ==
    ASSUME NEW l, NEW S, Lists(l, S), NEW e \in Entry, \A x \in S : x.id # e.id
    PROVE  Lists(InsertAt(l, Place(l, e), e), S \cup {e})
  <1> DEFINE p == Place(l, e)
             n == Len(l)
             r == InsertAt(l, p, e)
  <1>1. l \in Seq(Entry) /\ n \in Nat
    BY LenProperties DEF Lists
  <1>2. /\ p \in 1..n + 1
        /\ \A j \in 1..n : j < p => ~Cheaper(e.price, l[j].price)
        /\ p <= n => Cheaper(e.price, l[p].price)
    BY <1>1, PlaceIs
  <1> HIDE DEF p
  <1>3. /\ r \in Seq(Entry) /\ Len(r) = n + 1
        /\ \A j \in 1..n + 1 : r[j] = IF j < p THEN l[j] ELSE IF j = p THEN e ELSE l[j - 1]
    BY <1>1, <1>2, InsertAtIs
  <1>4. /\ \A i \in 1..n : l[i] \in S /\ l[i] \in Entry
        /\ \A x \in S : \E i \in 1..n : l[i] = x
        /\ \A i, j \in 1..n : l[i].id = l[j].id => i = j
        /\ \A i, j \in 1..n : i < j => ~Cheaper(l[j].price, l[i].price)
    BY <1>1, ElementOfSeq DEF Lists
  <1> HIDE DEF r, n
  <1>5. /\ \A j \in 1..n + 1 : j < p => r[j] = l[j] /\ j \in 1..n
        /\ p \in 1..n + 1 /\ r[p] = e
        /\ \A j \in 1..n + 1 : j > p => r[j] = l[j - 1] /\ j - 1 \in 1..n /\ j - 1 >= p
    BY <1>1, <1>2, <1>3
  <1>6. ASSUME NEW i \in 1..n + 1
        PROVE  r[i] \in S \cup {e}
    <2>1. i < p \/ i = p \/ i > p
      BY <1>2
    <2> QED BY <1>4, <1>5, <2>1
  <1>7. ASSUME NEW x \in S \cup {e}
        PROVE  \E i \in 1..n + 1 : r[i] = x
    <2>1. CASE x = e
      BY <1>5, <2>1
    <2>2. CASE x \in S
      <3>1. PICK i \in 1..n : l[i] = x
        BY <1>4, <2>2
      <3>2. CASE i < p
        <4>1. i \in 1..n + 1
          BY <1>1
        <4> QED BY <1>5, <3>1, <3>2, <4>1
      <3>3. CASE ~(i < p)
        <4>1. i + 1 \in 1..n + 1 /\ i + 1 > p /\ (i + 1) - 1 = i
          BY <1>1, <1>2, <3>3
        <4>2. r[i + 1] = l[i]
          BY <1>5, <4>1
        <4> QED BY <3>1, <4>1, <4>2
      <3> QED BY <3>2, <3>3
    <2> QED BY <2>1, <2>2
  <1>8. ASSUME NEW i \in 1..n + 1, NEW j \in 1..n + 1, i < j
        PROVE  r[i].id # r[j].id /\ ~Cheaper(r[j].price, r[i].price)
    <2>1. CASE j < p
      <3>1. i < p
        BY <1>2, <1>8, <2>1
      <3>2. r[i] = l[i] /\ r[j] = l[j] /\ i \in 1..n /\ j \in 1..n /\ i # j
        BY <1>5, <1>8, <2>1, <3>1
      <3> QED BY <1>4, <1>8, <3>2
    <2>2. CASE j = p
      <3>1. r[i] = l[i] /\ r[j] = e /\ i \in 1..n
        BY <1>5, <1>8, <2>2
      <3> QED BY <1>2, <1>4, <1>8, <2>2, <3>1
    <2>3. CASE j > p /\ i < p
      <3>1. r[i] = l[i] /\ r[j] = l[j - 1] /\ i \in 1..n /\ j - 1 \in 1..n /\ i < j - 1 /\ i # j - 1
        BY <1>2, <1>5, <2>3
      <3> QED BY <1>4, <3>1
    <2>4. CASE j > p /\ i = p
      <3>1. r[i] = e /\ r[j] = l[j - 1] /\ j - 1 \in 1..n /\ p <= j - 1
        BY <1>2, <1>5, <2>4
      <3>2. p \in 1..n /\ p <= n
        BY <1>1, <1>2, <3>1
      <3>3. ~Cheaper(l[j - 1].price, l[p].price)
        <4>1. CASE p = j - 1
          BY <1>4, <3>1, <4>1, NotDearer
        <4>2. CASE p < j - 1
          BY <1>4, <3>1, <3>2, <4>2
        <4> QED BY <1>2, <3>1, <4>1, <4>2
      <3>4. ~Cheaper(l[j - 1].price, e.price)
        BY <1>2, <1>4, <3>1, <3>2, <3>3, Dearer
      <3> QED BY <1>4, <3>1, <3>4
    <2>5. CASE j > p /\ i > p
      <3>1. /\ r[i] = l[i - 1] /\ r[j] = l[j - 1] /\ i - 1 \in 1..n /\ j - 1 \in 1..n
            /\ i - 1 < j - 1 /\ i - 1 # j - 1
        BY <1>2, <1>5, <1>8, <2>5
      <3> QED BY <1>4, <3>1
    <2> QED BY <1>2, <2>1, <2>2, <2>3, <2>4, <2>5
  <1>9. \A i, j \in 1..n + 1 : r[i].id = r[j].id => i = j
    BY <1>1, <1>8
  <1> QED BY <1>3, <1>6, <1>7, <1>8, <1>9 DEF Lists, r, p

(* What edgeSet.remove leaves of a list. *)
Taken(l, id) == RemoveFirstMatch(l, LAMBDA o : o.id = id)

LEMMA Removed ==
    ASSUME NEW l, NEW S, Lists(l, S), NEW x \in S
    PROVE  Lists(Taken(l, x.id), S \ {x})
  <1> DEFINE n == Len(l)
             I == {i \in 1..n : l[i].id = x.id}
             p == Min(I)
             r == RemoveAt(l, p)
  <1>1. l \in Seq(Entry) /\ n \in Nat
    BY LenProperties DEF Lists
  <1>2. /\ \A i \in 1..n : l[i] \in S
        /\ \A y \in S : \E i \in 1..n : l[i] = y
        /\ \A i, j \in 1..n : l[i].id = l[j].id => i = j
        /\ \A i, j \in 1..n : i < j => ~Cheaper(l[j].price, l[i].price)
    BY DEF Lists
  <1>3. PICK k \in 1..n : l[k] = x
    BY <1>2
  <1>4. k \in I /\ I \subseteq Nat
    BY <1>3
  <1>5. p \in 1..n /\ l[p].id = x.id
    <2>1. Min(I) \in I
      BY <1>4, MinIs
    <2> QED BY <2>1
  <1>6. Taken(l, x.id) = r
    <2>1. \E i \in 1..Len(l) : l[i].id = x.id
      BY <1>5
    <2>2. SelectInSeq(l, LAMBDA o : o.id = x.id) = p
      BY <1>4 DEF SelectInSeq
    <2> HIDE DEF p
    <2> QED BY <2>1, <2>2 DEF Taken, RemoveFirstMatch
  <1> HIDE DEF p, I
  <1>7. l[p] = x
    BY <1>2, <1>3, <1>5
  <1>8. /\ r \in Seq(Entry) /\ Len(r) = n - 1
        /\ \A j \in 1..n - 1 : r[j] = IF j < p THEN l[j] ELSE l[j + 1]
    BY <1>1, <1>5, RemoveAtIs
  <1> HIDE DEF r, n
  <1>9. /\ \A j \in 1..n - 1 : j < p => r[j] = l[j] /\ j \in 1..n /\ j # p
        /\ \A j \in 1..n - 1 : ~(j < p) => r[j] = l[j + 1] /\ j + 1 \in 1..n /\ j + 1 # p /\ j + 1 > p
    BY <1>1, <1>5, <1>8
  <1>10. \A i \in 1..n : i # p => l[i] # x
    BY <1>2, <1>5, <1>7
  <1>11. ASSUME NEW i \in 1..n - 1
         PROVE  r[i] \in S \ {x}
    BY <1>2, <1>9, <1>10
  <1>12. ASSUME NEW y \in S \ {x}
         PROVE  \E i \in 1..n - 1 : r[i] = y
    <2>1. PICK i \in 1..n : l[i] = y
      BY <1>2
    <2>2. i # p
      BY <1>7, <2>1
    <2>3. CASE i < p
      <3>1. i \in 1..n - 1
        BY <1>1, <1>5, <2>3
      <3> QED BY <1>9, <2>1, <2>3, <3>1
    <2>4. CASE i > p
      <3>1. i - 1 \in 1..n - 1 /\ ~(i - 1 < p) /\ (i - 1) + 1 = i
        BY <1>1, <1>5, <2>4
      <3>2. r[i - 1] = l[i]
        BY <1>9, <3>1
      <3> QED BY <2>1, <3>1, <3>2
    <2> QED BY <1>5, <2>2, <2>3, <2>4
  <1>13. ASSUME NEW i \in 1..n - 1, NEW j \in 1..n - 1, i < j
         PROVE  r[i].id # r[j].id /\ ~Cheaper(r[j].price, r[i].price)
    <2>1. PICK u \in 1..n, v \in 1..n : r[i] = l[u] /\ r[j] = l[v] /\ u < v /\ u # v
      <3>1. CASE j < p
        <4>1. i < p /\ i # j
          BY <1>5, <1>13, <3>1
        <4> QED BY <1>9, <1>13, <3>1, <4>1
      <3>2. CASE i < p /\ ~(j < p)
        <4>1. i < j + 1 /\ i # j + 1
          BY <1>5, <1>13, <3>2
        <4> QED BY <1>9, <3>2, <4>1
      <3>3. CASE ~(i < p)
        <4>1. ~(j < p) /\ i + 1 < j + 1 /\ i + 1 # j + 1
          BY <1>5, <1>13, <3>3
        <4> QED BY <1>9, <3>3, <4>1
      <3> QED BY <3>1, <3>2, <3>3
    <2> QED BY <1>2, <2>1
  <1>14. \A i, j \in 1..n - 1 : r[i].id = r[j].id => i = j
    BY <1>1, <1>13
  <1> QED BY <1>6, <1>8, <1>11, <1>12, <1>13, <1>14 DEF Lists

LEMMA EmptyList ==
    ASSUME NEW l, NEW S, Lists(l, S)
    PROVE  l = <<>> <=> S = {}
  <1>1. l \in Seq(Entry) /\ Len(l) \in Nat
    BY LenProperties DEF Lists
  <1>2. l = <<>> <=> Len(l) = 0
    BY <1>1, EmptySeq
  <1>3. Len(l) = 0 => S = {}
    BY DEF Lists
  <1>4. S = {} => Len(l) = 0
    <2>1. Len(l) # 0 => 1 \in 1..Len(l)
      BY <1>1
    <2> QED BY <2>1 DEF Lists
  <1> QED BY <1>2, <1>3, <1>4

-----------------------------------------------------------------------------
(* One index.                                                              *)

LEMMA PutIs ==
    \A map, key, value :
        /\ \A d : Get(Put(map, key, value), key, d) = value
        /\ \A k, d : k # key => Get(Put(map, key, value), k, d) = Get(map, k, d)
  BY DEF Put, Get

LEMMA DeleteIs ==
    \A map, key :
        /\ \A d : Get(Delete(map, key), key, d) = d
        /\ \A k, d : k # key => Get(Delete(map, key), k, d) = Get(map, k, d)
  BY DEF Delete, Get

LEMMA NoKeysIs == DOMAIN NoKeys = {} /\ \A k, d : Get(NoKeys, k, d) = d
  BY DEF NoKeys, Get

(* Keys with their lists. *)
KeysOf(edges) ==
    /\ DOMAIN edges \subseteq Assets
    /\ \A b \in DOMAIN edges : edges[b] # <<>>

LEMMA AddView ==
    ASSUME NEW index, KeysUsed(index), NEW a \in Assets, NEW b \in Assets, NEW e \in Entry,
           List(index, a, b) \in Seq(Entry)
    PROVE  LET index2 == IndexAdd(index, a, b, e)
               old == List(index, a, b)
           IN /\ KeysUsed(index2)
              /\ List(index2, a, b) = InsertAt(old, Place(old, e), e)
              /\ \A a1, b1 : a1 # a \/ b1 # b => List(index2, a1, b1) = List(index, a1, b1)
  <1> DEFINE edges == Get(index, a, NoKeys)
             old == Get(edges, b, <<>>)
             new == InsertAt(old, Place(old, e), e)
             edges2 == Put(edges, b, new)
             index2 == Put(index, a, edges2)
  <1>1. IndexAdd(index, a, b, e) = index2 /\ List(index, a, b) = old
    BY DEF IndexAdd, EdgeAdd, Place, List
  <1>2. new # <<>>
    <2>1. old \in Seq(Entry) /\ Len(old) \in Nat
      BY <1>1, LenProperties
    <2>2. new \in Seq(Entry) /\ Len(new) = Len(old) + 1
      BY <2>1, PlaceIs, InsertAtIs
    <2> HIDE DEF new, old
    <2>3. Len(new) # 0
      BY <2>1, <2>2
    <2> QED BY <2>2, <2>3, EmptySeq
  <1>3. KeysOf(edges)
    <2>1. CASE a \in DOMAIN index
      BY <2>1 DEF KeysUsed, KeysOf, Get
    <2>2. CASE a \notin DOMAIN index
      BY <2>2, NoKeysIs DEF KeysOf, Get
    <2> QED BY <2>1, <2>2
  <1> HIDE DEF new
  <1>4. KeysOf(edges2) /\ b \in DOMAIN edges2
    <2> HIDE DEF edges
    <2> QED BY <1>2, <1>3 DEF KeysOf, Put
  <1>5. /\ Get(edges2, b, <<>>) = new
        /\ \A b1 : b1 # b => Get(edges2, b1, <<>>) = Get(edges, b1, <<>>)
    <2> HIDE DEF edges
    <2> QED BY PutIs
  <1> HIDE DEF edges2
  <1>6. /\ DOMAIN index2 = DOMAIN index \cup {a} /\ index2[a] = edges2
        /\ \A k \in DOMAIN index : k # a => index2[k] = index[k]
    BY DEF Put
  <1>7. /\ Get(index2, a, NoKeys) = edges2
        /\ \A k : k # a => Get(index2, k, NoKeys) = Get(index, k, NoKeys)
    BY PutIs
  <1> HIDE DEF index2
  <1>8. KeysUsed(index2)
    BY <1>4, <1>6 DEF KeysUsed, KeysOf
  <1>9. List(index2, a, b) = new
    BY <1>5, <1>7 DEF List
  <1>10. \A a1, b1 : a1 # a \/ b1 # b => List(index2, a1, b1) = List(index, a1, b1)
    BY <1>5, <1>7 DEF List
  <1> QED BY <1>1, <1>8, <1>9, <1>10 DEF new

LEMMA RemoveView ==
    ASSUME NEW index, KeysUsed(index), NEW a, NEW b, NEW id, List(index, a, b) # <<>>
    PROVE  LET index2 == IndexRemove(index, a, b, id)
           IN /\ KeysUsed(index2)
              /\ List(index2, a, b) = Taken(List(index, a, b), id)
              /\ \A a1, b1 : a1 # a \/ b1 # b => List(index2, a1, b1) = List(index, a1, b1)
  <1> DEFINE edges == index[a]
             rest == Taken(edges[b], id)
             edges2 == IF rest = <<>> THEN Delete(edges, b) ELSE Put(edges, b, rest)
             index2 == IF DOMAIN edges2 = {} THEN Delete(index, a) ELSE Put(index, a, edges2)
  <1>1. a \in DOMAIN index
    BY NoKeysIs DEF List, Get
  <1>2. Get(index, a, NoKeys) = edges
    BY <1>1 DEF Get
  <1>3. b \in DOMAIN edges /\ List(index, a, b) = edges[b]
    BY <1>2 DEF List, Get
  <1>4. IndexRemove(index, a, b, id) = index2
    BY DEF IndexRemove, EdgeRemove, Taken
  <1>5. KeysOf(edges)
    BY <1>1 DEF KeysUsed, KeysOf
  <1> HIDE DEF rest, edges
  <1>6. KeysOf(edges2)
    <2>1. CASE rest = <<>>
      <3>1. edges2 = Delete(edges, b)
        BY <2>1
      <3> QED BY <1>5, <3>1 DEF KeysOf, Delete
    <2>2. CASE rest # <<>>
      <3>1. edges2 = Put(edges, b, rest)
        BY <2>2
      <3> QED BY <1>3, <1>5, <2>2, <3>1 DEF KeysOf, Put
    <2> QED BY <2>1, <2>2
  <1>7. /\ Get(edges2, b, <<>>) = rest
        /\ \A b1 : b1 # b => Get(edges2, b1, <<>>) = Get(edges, b1, <<>>)
    BY PutIs, DeleteIs
  <1> HIDE DEF edges2
  <1>8. KeysUsed(index2)
    <2>1. CASE DOMAIN edges2 = {}
      <3>1. index2 = Delete(index, a)
        BY <2>1
      <3> QED BY <3>1 DEF KeysUsed, Delete
    <2>2. CASE DOMAIN edges2 # {}
      <3>1. index2 = Put(index, a, edges2)
        BY <2>2
      <3>2. /\ DOMAIN index2 = DOMAIN index /\ index2[a] = edges2
            /\ \A k \in DOMAIN index : k # a => index2[k] = index[k]
        BY <1>1, <3>1 DEF Put
      <3> HIDE DEF index2
      <3> QED BY <1>6, <2>2, <3>2 DEF KeysUsed, KeysOf
    <2> QED BY <2>1, <2>2
  <1>9. \A b1 : Get(Get(index2, a, NoKeys), b1, <<>>) = Get(edges2, b1, <<>>)
    <2>1. CASE DOMAIN edges2 = {}
      <3>1. Get(index2, a, NoKeys) = NoKeys
        BY <2>1, DeleteIs
      <3>2. \A b1 : Get(edges2, b1, <<>>) = <<>>
        BY <2>1 DEF Get
      <3> QED BY <3>1, <3>2, NoKeysIs
    <2>2. CASE DOMAIN edges2 # {}
      <3>1. Get(index2, a, NoKeys) = edges2
        BY <2>2, PutIs
      <3> QED BY <3>1
    <2> QED BY <2>1, <2>2
  <1>10. \A k : k # a => Get(index2, k, NoKeys) = Get(index, k, NoKeys)
    BY PutIs, DeleteIs
  <1> HIDE DEF index2
  <1>11. List(index2, a, b) = rest
    BY <1>7, <1>9 DEF List
  <1>12. \A a1, b1 : a1 # a \/ b1 # b => List(index2, a1, b1) = List(index, a1, b1)
    <2>1. \A b1 : b1 # b => List(index2, a, b1) = List(index, a, b1)
      BY <1>2, <1>7, <1>9 DEF List
    <2>2. \A a1, b1 : a1 # a => List(index2, a1, b1) = List(index, a1, b1)
      BY <1>10 DEF List
    <2> QED BY <2>1, <2>2
  <1> QED BY <1>3, <1>4, <1>8, <1>11, <1>12 DEF rest

-----------------------------------------------------------------------------
(* One operation.                                                          *)

(* The loop of apply goes on, with a graph that is the book m. *)
Good(st, m) == st = [g |-> st.g, panicked |-> FALSE] /\ Holds(st.g, m)

LEMMA Offered ==
    ASSUME NEW m, IsBook(m), NEW i \in Known(m)
    PROVE  /\ i \in Ids /\ m[i] \in Entry /\ m[i].id = i
           /\ m[i].selling \in Assets /\ m[i].buying \in Assets
           /\ m[i] \in Trading(m, m[i].selling, m[i].buying)
  <1>1. i \in Ids /\ m[i] \in Entry /\ m[i].id = i
    BY DEF IsBook, Known
  <1>2. m[i].selling \in Assets /\ m[i].buying \in Assets
    BY <1>1, GraphAssumption
  <1> QED BY <1>1, <1>2 DEF Trading

LEMMA Found ==
    ASSUME NEW index, NEW a, NEW b, NEW S, Lists(List(index, a, b), S), NEW x \in S
    PROVE  List(index, a, b) # <<>> /\ HasOffer(Get(index, a, NoKeys), b, x.id)
  <1> DEFINE l == List(index, a, b)
  <1>1. l \in Seq(Entry) /\ DOMAIN l = 1..Len(l)
    BY LenProperties DEF Lists
  <1>2. PICK k \in 1..Len(l) : l[k] = x
    BY DEF Lists
  <1>3. x \in ToSet(l)
    BY <1>1, <1>2 DEF ToSet
  <1>4. l # <<>>
    BY EmptyList
  <1> QED BY <1>3, <1>4 DEF HasOffer, List

(* The book m2 is the book m without the offer of id i. *)
Without(m2, m, i) ==
    /\ IsBook(m2) /\ IsFiniteSet(Known(m2)) /\ Known(m2) = Known(m) \ {i}
    /\ \A k \in Known(m2) : m2[k] = m[k]
    /\ \A s, b : Trading(m2, s, b) = IF s = m[i].selling /\ b = m[i].buying
                                     THEN Trading(m, s, b) \ {m[i]} ELSE Trading(m, s, b)

LEMMA BookRemove ==
    ASSUME NEW m, IsBook(m), IsFiniteSet(Known(m)), NEW i \in Known(m)
    PROVE  Without([m EXCEPT ![i] = None], m, i)
  <1> DEFINE m2 == [m EXCEPT ![i] = None]
  <1>1. m2 \in [Ids -> Entry \cup {None}] /\ i \in Ids /\ m2[i] = None /\ \A k \in Ids : k # i => m2[k] = m[k]
    BY DEF IsBook, Known
  <1> HIDE DEF m2
  <1>2. Known(m2) = Known(m) \ {i}
    BY <1>1 DEF Known
  <1>3. IsFiniteSet(Known(m2))
    BY <1>2, FS_RemoveElement
  <1>4. IsBook(m2)
    BY <1>1 DEF IsBook
  <1>5. \A k \in Known(m2) : m2[k] = m[k]
    BY <1>1, <1>2 DEF Known
  <1>6. \A e \in Entry : e.id \in Ids /\ e # None
    BY GraphAssumption
  <1>7. \A e \in Entry : m2[e.id] = e <=> m[e.id] = e /\ e.id # i
    BY <1>1, <1>6
  <1>8. m[i].id = i
    BY Offered
  <1>9. \A e \in Entry : m2[e.id] = e <=> m[e.id] = e /\ e # m[i]
    BY <1>7, <1>8
  <1>10. ASSUME NEW s, NEW b
         PROVE  Trading(m2, s, b) = IF s = m[i].selling /\ b = m[i].buying
                                    THEN Trading(m, s, b) \ {m[i]} ELSE Trading(m, s, b)
    BY <1>9 DEF Trading
  <1> QED BY <1>2, <1>3, <1>4, <1>5, <1>10 DEF Without, m2

LEMMA BookInsert ==
    ASSUME NEW m, IsBook(m), IsFiniteSet(Known(m)), NEW x \in Entry, m[x.id] = None,
           NEW m2, m2 = [m EXCEPT ![x.id] = x]
    PROVE  /\ IsBook(m2) /\ IsFiniteSet(Known(m2)) /\ Known(m2) = Known(m) \cup {x.id}
           /\ m2[x.id] = x /\ \A k \in Known(m) : k # x.id /\ m2[k] = m[k]
           /\ \A s, b : Trading(m2, s, b) = IF s = x.selling /\ b = x.buying
                                            THEN Trading(m, s, b) \cup {x} ELSE Trading(m, s, b)
           /\ \A s, b : \A e \in Trading(m, s, b) : e.id # x.id
  <1>1. \A e \in Entry : e.id \in Ids /\ e # None
    BY GraphAssumption
  <1>2. m2 \in [Ids -> Entry \cup {None}] /\ m2[x.id] = x /\ \A k \in Ids : k # x.id => m2[k] = m[k]
    BY <1>1 DEF IsBook
  <1>3. Known(m2) = Known(m) \cup {x.id}
    BY <1>1, <1>2 DEF Known
  <1>4. IsFiniteSet(Known(m2))
    <2>1. IsFiniteSet(Known(m) \cup {x.id})
      BY FS_AddElement
    <2> QED BY <1>3, <2>1
  <1>5. IsBook(m2)
    BY <1>2 DEF IsBook
  <1>6. \A k \in Known(m) : k # x.id /\ m2[k] = m[k]
    BY <1>2 DEF Known
  <1>7. \A e \in Entry : m2[e.id] = e <=> m[e.id] = e \/ e = x
    BY <1>1, <1>2
  <1>8. ASSUME NEW s, NEW b
        PROVE  Trading(m2, s, b) = IF s = x.selling /\ b = x.buying
                                   THEN Trading(m, s, b) \cup {x} ELSE Trading(m, s, b)
    BY <1>7 DEF Trading
  <1>9. \A s, b : \A e \in Trading(m, s, b) : e.id # x.id
    BY <1>1 DEF Trading
  <1> QED BY <1>2, <1>3, <1>4, <1>5, <1>6, <1>8, <1>9

(* remove of a known offer. *)
LEMMA GraphRemoveStep ==
    ASSUME NEW st, NEW m, Good(st, m), NEW id \in Known(m)
    PROVE  Good(GraphRemove(st, id), [m EXCEPT ![id] = None])
  <1> DEFINE g == st.g
             x == m[id]
             s0 == x.selling
             b0 == x.buying
             pair == g.pairs[id]
             m2 == [m EXCEPT ![id] = None]
             g2 == [selling |-> IndexRemove(g.selling, s0, b0, id),
                    buying |-> IndexRemove(g.buying, b0, s0, id),
                    pairs |-> Delete(g.pairs, id)]
  <1>1. IsBook(m) /\ IsFiniteSet(Known(m)) /\ DOMAIN g.pairs = Known(m)
    BY DEF Good, Holds
  <1>2. \A i \in Known(m) : g.pairs[i] = [selling |-> m[i].selling, buying |-> m[i].buying]
    BY DEF Good, Holds
  <1>3. KeysUsed(g.selling) /\ KeysUsed(g.buying)
    BY DEF Good, Holds
  <1>4. \A s, b \in Assets : /\ Lists(List(g.selling, s, b), Trading(m, s, b))
                             /\ Lists(List(g.buying, b, s), Trading(m, s, b))
    BY DEF Good, Holds
  <1>5. s0 \in Assets /\ b0 \in Assets /\ x \in Trading(m, s0, b0) /\ x.id = id
    BY <1>1, Offered
  <1>6. /\ Lists(List(g.selling, s0, b0), Trading(m, s0, b0))
        /\ Lists(List(g.buying, b0, s0), Trading(m, s0, b0))
    BY <1>4, <1>5
  <1>7. pair.selling = s0 /\ pair.buying = b0
    <2>1. pair = [selling |-> s0, buying |-> b0]
      BY <1>2
    <2> HIDE DEF pair
    <2> QED BY <2>1
  <1> HIDE DEF x, s0, b0
  <1>8. /\ List(g.selling, s0, b0) # <<>> /\ HasOffer(Get(g.selling, s0, NoKeys), b0, id)
        /\ List(g.buying, b0, s0) # <<>> /\ HasOffer(Get(g.buying, b0, NoKeys), s0, id)
    BY <1>5, <1>6, Found
  <1>9. GraphRemove(st, id) = [g |-> g2, panicked |-> FALSE]
    <2>1. st = [g |-> g, panicked |-> FALSE]
      BY DEF Good
    <2>2. GraphRemove(st, id) = [st EXCEPT !.g = [selling |-> IndexRemove(@.selling, s0, b0, id),
                              buying |-> IndexRemove(@.buying, b0, s0, id),
                              pairs |-> Delete(@.pairs, id)]]
      BY <1>7, <1>8 DEF GraphRemove
    <2> HIDE DEF g
    <2> QED BY <2>1, <2>2
  <1>10. /\ KeysUsed(g2.selling)
         /\ List(g2.selling, s0, b0) = Taken(List(g.selling, s0, b0), id)
         /\ \A a1, b1 : a1 # s0 \/ b1 # b0 => List(g2.selling, a1, b1) = List(g.selling, a1, b1)
    <2>1. g2.selling = IndexRemove(g.selling, s0, b0, id)
      OBVIOUS
    <2> HIDE DEF g2
    <2> QED BY <1>3, <1>8, <2>1, RemoveView
  <1>11. /\ KeysUsed(g2.buying)
         /\ List(g2.buying, b0, s0) = Taken(List(g.buying, b0, s0), id)
         /\ \A a1, b1 : a1 # b0 \/ b1 # s0 => List(g2.buying, a1, b1) = List(g.buying, a1, b1)
    <2>1. g2.buying = IndexRemove(g.buying, b0, s0, id)
      OBVIOUS
    <2> HIDE DEF g2
    <2> QED BY <1>3, <1>8, <2>1, RemoveView
  <1>12. /\ IsBook(m2) /\ IsFiniteSet(Known(m2)) /\ Known(m2) = Known(m) \ {id}
         /\ \A k \in Known(m2) : m2[k] = m[k]
         /\ \A s, b : Trading(m2, s, b) = IF s = s0 /\ b = b0
                                          THEN Trading(m, s, b) \ {x} ELSE Trading(m, s, b)
    <2>1. Without(m2, m, id)
      BY <1>1, BookRemove
    <2> HIDE DEF m2
    <2> QED BY <2>1 DEF Without, x, s0, b0
  <1> HIDE DEF m2
  <1>13. /\ DOMAIN g2.pairs = Known(m2)
         /\ \A k \in Known(m2) : g2.pairs[k] = [selling |-> m2[k].selling, buying |-> m2[k].buying]
    <2>1. g2.pairs = [k \in DOMAIN g.pairs \ {id} |-> g.pairs[k]]
      BY DEF Delete
    <2> HIDE DEF g2
    <2> QED BY <1>1, <1>2, <1>12, <2>1
  <1>14. ASSUME NEW s \in Assets, NEW b \in Assets
         PROVE  /\ Lists(List(g2.selling, s, b), Trading(m2, s, b))
                /\ Lists(List(g2.buying, b, s), Trading(m2, s, b))
    <2> HIDE DEF g2, g
    <2>1. CASE s = s0 /\ b = b0
      <3>1. Trading(m2, s, b) = Trading(m, s0, b0) \ {x}
        BY <1>12, <2>1
      <3>2. /\ Lists(Taken(List(g.selling, s0, b0), id), Trading(m, s0, b0) \ {x})
            /\ Lists(Taken(List(g.buying, b0, s0), id), Trading(m, s0, b0) \ {x})
        BY <1>5, <1>6, Removed
      <3> QED BY <1>10, <1>11, <2>1, <3>1, <3>2
    <2>2. CASE ~(s = s0 /\ b = b0)
      <3>1. Trading(m2, s, b) = Trading(m, s, b)
        BY <1>12, <2>2
      <3>2. List(g2.selling, s, b) = List(g.selling, s, b) /\ List(g2.buying, b, s) = List(g.buying, b, s)
        BY <1>10, <1>11, <2>2
      <3> QED BY <1>4, <3>1, <3>2
    <2> QED BY <2>1, <2>2
  <1> HIDE DEF g2
  <1>15. Holds(g2, m2)
    BY <1>10, <1>11, <1>12, <1>13, <1>14 DEF Holds
  <1> QED BY <1>9, <1>15 DEF Good, m2

LEMMA GraphInsertStep ==
    ASSUME NEW st, NEW m, Good(st, m), NEW x \in Entry, m[x.id] = None
    PROVE  Good(GraphInsert(st, x), [m EXCEPT ![x.id] = x])
  <1> DEFINE g == st.g
             s0 == x.selling
             b0 == x.buying
             m2 == [m EXCEPT ![x.id] = x]
             g2 == [selling |-> IndexAdd(g.selling, s0, b0, x),
                    buying |-> IndexAdd(g.buying, b0, s0, x),
                    pairs |-> Put(g.pairs, x.id, [selling |-> x.selling, buying |-> x.buying])]
  <1>1. IsBook(m) /\ IsFiniteSet(Known(m)) /\ DOMAIN g.pairs = Known(m)
    BY DEF Good, Holds
  <1>2. \A i \in Known(m) : g.pairs[i] = [selling |-> m[i].selling, buying |-> m[i].buying]
    BY DEF Good, Holds
  <1>3. KeysUsed(g.selling) /\ KeysUsed(g.buying)
    BY DEF Good, Holds
  <1>4. \A s, b \in Assets : /\ Lists(List(g.selling, s, b), Trading(m, s, b))
                             /\ Lists(List(g.buying, b, s), Trading(m, s, b))
    BY DEF Good, Holds
  <1>5. s0 \in Assets /\ b0 \in Assets
    BY GraphAssumption
  <1>6. /\ Lists(List(g.selling, s0, b0), Trading(m, s0, b0))
        /\ Lists(List(g.buying, b0, s0), Trading(m, s0, b0))
    BY <1>4, <1>5
  <1>7. List(g.selling, s0, b0) \in Seq(Entry) /\ List(g.buying, b0, s0) \in Seq(Entry)
    BY <1>6 DEF Lists
  <1>8. /\ IsBook(m2) /\ IsFiniteSet(Known(m2)) /\ Known(m2) = Known(m) \cup {x.id}
        /\ m2[x.id] = x /\ \A k \in Known(m) : k # x.id /\ m2[k] = m[k]
        /\ \A s, b : Trading(m2, s, b) = IF s = s0 /\ b = b0
                                         THEN Trading(m, s, b) \cup {x} ELSE Trading(m, s, b)
        /\ \A s, b : \A e \in Trading(m, s, b) : e.id # x.id
    BY <1>1, BookInsert
  <1>9. GraphInsert(st, x) = [g |-> g2, panicked |-> FALSE]
    <2>1. st = [g |-> g, panicked |-> FALSE]
      BY DEF Good
    <2>2. GraphInsert(st, x) = [st EXCEPT !.g = [selling |-> IndexAdd(@.selling, s0, b0, x),
                              buying |-> IndexAdd(@.buying, b0, s0, x),
                              pairs |-> Put(@.pairs, x.id, [selling |-> x.selling, buying |-> x.buying])]]
      BY DEF GraphInsert
    <2> HIDE DEF g
    <2> QED BY <2>1, <2>2
  <1> HIDE DEF m2, s0, b0
  <1>10. LET old == List(g.selling, s0, b0)
         IN /\ KeysUsed(g2.selling)
            /\ List(g2.selling, s0, b0) = InsertAt(old, Place(old, x), x)
            /\ \A a1, b1 : a1 # s0 \/ b1 # b0 => List(g2.selling, a1, b1) = List(g.selling, a1, b1)
    <2>1. g2.selling = IndexAdd(g.selling, s0, b0, x)
      OBVIOUS
    <2> HIDE DEF g2
    <2> QED BY <1>3, <1>5, <1>7, <2>1, AddView
  <1>11. LET old == List(g.buying, b0, s0)
         IN /\ KeysUsed(g2.buying)
            /\ List(g2.buying, b0, s0) = InsertAt(old, Place(old, x), x)
            /\ \A a1, b1 : a1 # b0 \/ b1 # s0 => List(g2.buying, a1, b1) = List(g.buying, a1, b1)
    <2>1. g2.buying = IndexAdd(g.buying, b0, s0, x)
      OBVIOUS
    <2> HIDE DEF g2
    <2> QED BY <1>3, <1>5, <1>7, <2>1, AddView
  <1>12. /\ DOMAIN g2.pairs = Known(m2)
         /\ \A k \in Known(m2) : g2.pairs[k] = [selling |-> m2[k].selling, buying |-> m2[k].buying]
    <2>1. g2.pairs = [k \in DOMAIN g.pairs \cup {x.id} |->
                         IF k = x.id THEN [selling |-> x.selling, buying |-> x.buying] ELSE g.pairs[k]]
      BY DEF Put
    <2> HIDE DEF g2
    <2> QED BY <1>1, <1>2, <1>8, <2>1
  <1>13. ASSUME NEW s \in Assets, NEW b \in Assets
         PROVE  /\ Lists(List(g2.selling, s, b), Trading(m2, s, b))
                /\ Lists(List(g2.buying, b, s), Trading(m2, s, b))
    <2> HIDE DEF g2, g
    <2>1. CASE s = s0 /\ b = b0
      <3> DEFINE l1 == List(g.selling, s0, b0)
                 l2 == List(g.buying, b0, s0)
      <3>1. Trading(m2, s, b) = Trading(m, s0, b0) \cup {x}
        BY <1>8, <2>1
      <3>2. \A e \in Trading(m, s0, b0) : e.id # x.id
        BY <1>8
      <3>3. /\ Lists(InsertAt(l1, Place(l1, x), x), Trading(m, s0, b0) \cup {x})
            /\ Lists(InsertAt(l2, Place(l2, x), x), Trading(m, s0, b0) \cup {x})
        BY <1>6, <3>2, Inserted
      <3> QED BY <1>10, <1>11, <2>1, <3>1, <3>3
    <2>2. CASE ~(s = s0 /\ b = b0)
      <3>1. Trading(m2, s, b) = Trading(m, s, b)
        BY <1>8, <2>2
      <3>2. List(g2.selling, s, b) = List(g.selling, s, b) /\ List(g2.buying, b, s) = List(g.buying, b, s)
        BY <1>10, <1>11, <2>2
      <3> QED BY <1>4, <3>1, <3>2
    <2> QED BY <2>1, <2>2
  <1> HIDE DEF g2
  <1>14. Holds(g2, m2)
    BY <1>8, <1>10, <1>11, <1>12, <1>13 DEF Holds
  <1> QED BY <1>9, <1>14 DEF Good, m2

(* Any operation of a batch: its offer, or None, becomes the offer of its id. *)
LEMMA ExecuteStep ==
    ASSUME NEW st, NEW m, Good(st, m), NEW op \in Op
    PROVE  op.id \in Ids /\ Good(Execute(st, op), [m EXCEPT ![op.id] = op.offer])
  <1>1. ~st.panicked /\ IsBook(m) /\ DOMAIN st.g.pairs = Known(m)
    BY DEF Good, Holds
  <1>2. CASE \E e \in Entry : op = AddOp(e)
    <2>1. PICK e \in Entry : op.id = e.id /\ op.offer = e
      BY <1>2 DEF AddOp
    <2>2. e # None /\ e.id \in Ids
      BY GraphAssumption
    <2>3. Execute(st, op) = GraphAdd(st, e)
      BY <1>1, <2>1, <2>2 DEF Execute
    <2>4. CASE e.id \in Known(m)
      <3> DEFINE st1 == GraphRemove(st, e.id)
                 m1 == [m EXCEPT ![e.id] = None]
      <3>1. Good(st1, m1)
        BY <2>4, GraphRemoveStep
      <3>2. m1[e.id] = None /\ [m1 EXCEPT ![e.id] = e] = [m EXCEPT ![e.id] = e]
        BY <1>1, <2>2 DEF IsBook
      <3>3. GraphAdd(st, e) = GraphInsert(st1, e)
        BY <1>1, <2>4 DEF GraphAdd
      <3> HIDE DEF st1, m1
      <3>4. Good(GraphInsert(st1, e), [m1 EXCEPT ![e.id] = e])
        BY <3>1, <3>2, GraphInsertStep
      <3> QED BY <2>1, <2>2, <2>3, <3>2, <3>3, <3>4
    <2>5. CASE e.id \notin Known(m)
      <3>1. m[e.id] = None
        BY <2>2, <2>5 DEF Known
      <3>2. GraphAdd(st, e) = GraphInsert(st, e)
        BY <1>1, <2>5 DEF GraphAdd
      <3>3. Good(GraphInsert(st, e), [m EXCEPT ![e.id] = e])
        BY <3>1, GraphInsertStep
      <3> QED BY <2>1, <2>2, <2>3, <3>2, <3>3
    <2> QED BY <2>4, <2>5
  <1>3. CASE \E i \in Ids : op = RemoveOp(i)
    <2>1. PICK i \in Ids : op.id = i /\ op.offer = None
      BY <1>3 DEF RemoveOp
    <2>2. CASE i \in Known(m)
      <3>1. Execute(st, op) = GraphRemove(st, i)
        BY <1>1, <2>1, <2>2 DEF Execute
      <3>2. Good(GraphRemove(st, i), [m EXCEPT ![i] = None])
        BY <2>2, GraphRemoveStep
      <3> QED BY <2>1, <3>1, <3>2
    <2>3. CASE i \notin Known(m)
      <3>1. Execute(st, op) = st
        BY <1>1, <2>1, <2>3 DEF Execute
      <3>2. [m EXCEPT ![i] = None] = m
        BY <1>1, <2>1, <2>3 DEF IsBook, Known
      <3> QED BY <2>1, <3>1, <3>2
    <2> QED BY <2>2, <2>3
  <1> QED BY <1>2, <1>3 DEF Op

-----------------------------------------------------------------------------
(* A batch.                                                                *)

(* The operations on offer i among the first k. *)
About(ops, k, i) == {j \in 1..k : ops[j].id = i}

(* The book m after the first k operations: the last word on an offer counts. *)
After(m, ops, k) ==
    [i \in Ids |-> IF About(ops, k, i) = {} THEN m[i] ELSE ops[Max(About(ops, k, i))].offer]

LEMMA OpIs ==
    ASSUME NEW op \in Op
    PROVE  op.id \in Ids /\ op.offer \in Entry \cup {None}
  BY GraphAssumption DEF Op, AddOp, RemoveOp

LEMMA AboutNext ==
    ASSUME NEW ops, NEW k \in Nat, NEW i
    PROVE  /\ ops[k + 1].id = i => About(ops, k + 1, i) # {} /\ Max(About(ops, k + 1, i)) = k + 1
           /\ ops[k + 1].id # i => About(ops, k + 1, i) = About(ops, k, i)
  <1>1. ASSUME ops[k + 1].id = i
        PROVE  About(ops, k + 1, i) # {} /\ Max(About(ops, k + 1, i)) = k + 1
    <2> DEFINE J == About(ops, k + 1, i)
    <2>1. J \subseteq 1..k + 1 /\ k + 1 \in J /\ k + 1 \in Nat
      BY <1>1 DEF About
    <2> HIDE DEF J
    <2>2. Max(J) \in J /\ Max(J) >= k + 1
      BY <2>1, MaxIs
    <2>3. Max(J) \in 1..k + 1
      BY <2>1, <2>2
    <2>4. J # {} /\ Max(J) = k + 1
      BY <2>1, <2>2, <2>3
    <2> QED BY <2>4 DEF J
  <1>2. ASSUME ops[k + 1].id # i
        PROVE  About(ops, k + 1, i) = About(ops, k, i)
    BY <1>2 DEF About
  <1> QED BY <1>1, <1>2

LEMMA AfterNext ==
    ASSUME NEW m, NEW ops, NEW k \in Nat, ops[k + 1] \in Op
    PROVE  After(m, ops, k + 1) = [After(m, ops, k) EXCEPT ![ops[k + 1].id] = ops[k + 1].offer]
  <1> DEFINE op == ops[k + 1]
             new(i) == IF About(ops, k + 1, i) = {} THEN m[i] ELSE ops[Max(About(ops, k + 1, i))].offer
             old(i) == IF About(ops, k, i) = {} THEN m[i] ELSE ops[Max(About(ops, k, i))].offer
  <1>1. \A i \in Ids : new(i) = IF i = op.id THEN op.offer ELSE old(i)
    BY AboutNext
  <1>2. After(m, ops, k + 1) = [i \in Ids |-> new(i)] /\ After(m, ops, k) = [i \in Ids |-> old(i)]
    BY DEF After
  <1> HIDE DEF new, old
  <1> QED BY <1>1, <1>2

LEMMA AfterNone ==
    ASSUME NEW m, IsBook(m), NEW ops
    PROVE  After(m, ops, 0) = m
  <1>1. \A i : About(ops, 0, i) = {}
    BY DEF About
  <1> QED BY <1>1 DEF After, IsBook

(* The loop of apply never meets an offer that is not where its pair says. *)
LEMMA Batch ==
    ASSUME NEW g, NEW m, Holds(g, m), NEW ops \in Seq(Op)
    PROVE  Good(Applied([g |-> g, panicked |-> FALSE], ops), After(m, ops, Len(ops)))
  <1> DEFINE n == Len(ops)
             st == [g |-> g, panicked |-> FALSE]
  <1>1. n \in Nat /\ DOMAIN ops = 1..n
    BY LenProperties
  <1> HIDE DEF n, st
  <1>2. PICK r : IsRun(r, st, ops, n)
    BY <1>1, FoldRun
  <1> DEFINE Done(k) == Good(r[k], After(m, ops, k))
  <1>3. Done(0)
    <2>1. Good(st, m)
      BY DEF Good, st
    <2>2. After(m, ops, 0) = m
      BY AfterNone DEF Holds
    <2> QED BY <1>2, <2>1, <2>2 DEF IsRun
  <1>4. ASSUME NEW k \in 0..n - 1, Done(k)
        PROVE  Done(k + 1)
    <2>1. ops[k + 1] \in Op /\ k \in Nat
      <3>1. k + 1 \in 1..n /\ k \in Nat
        BY <1>1
      <3> QED BY <3>1, ElementOfSeq DEF n
    <2>2. Good(Execute(r[k], ops[k + 1]), [After(m, ops, k) EXCEPT ![ops[k + 1].id] = ops[k + 1].offer])
      BY <1>4, <2>1, ExecuteStep
    <2> QED BY <1>2, <2>1, <2>2, AfterNext DEF IsRun
  <1> HIDE DEF Done
  <1>5. Done(n)
    <2>1. SUFFICES ASSUME ~Done(n) PROVE FALSE
      OBVIOUS
    <2> DEFINE T == {k \in 0..n : ~Done(k)}
    <2>2. T # {} /\ T \subseteq Nat
      <3>1. n \in T
        BY <1>1, <2>1
      <3> QED BY <1>1, <3>1
    <2>3. PICK k \in T : \A j \in T : k <= j
      BY <2>2, Smallest
    <2>4. k \in 0..n /\ ~Done(k) /\ k # 0
      BY <1>3, <2>3
    <2>5. k - 1 \in 0..n - 1 /\ k - 1 \in 0..n /\ (k - 1) + 1 = k /\ ~(k <= k - 1)
      BY <1>1, <2>4
    <2>6. Done(k - 1)
      BY <2>3, <2>5
    <2> QED BY <1>4, <2>4, <2>5, <2>6
  <1> QED BY <1>2, <1>5 DEF Done, IsRun, n, st

-----------------------------------------------------------------------------
(* What an index of the book m holds, by the asset sold or by the asset bought. *)

Pair(m, a, b, side) == IF side = "buying" THEN Trading(m, b, a) ELSE Trading(m, a, b)

IsIndex(index, m, side) ==
    /\ IsBook(m) /\ IsFiniteSet(Known(m)) /\ KeysUsed(index)
    /\ \A a, b \in Assets : Lists(List(index, a, b), Pair(m, a, b, side))

LEMMA Indexes ==
    ASSUME NEW g, NEW m, Holds(g, m)
    PROVE  IsIndex(g.selling, m, "selling") /\ IsIndex(g.buying, m, "buying")
  BY DEF Holds, IsIndex, Pair

LEMMA PairIs ==
    ASSUME NEW m, NEW a, NEW b, NEW side \in {"selling", "buying"}, NEW e \in Pair(m, a, b, side)
    PROVE  /\ e \in Entry /\ e.id \in Known(m) /\ m[e.id] = e
           /\ a = (IF side = "buying" THEN e.buying ELSE e.selling)
           /\ b = (IF side = "buying" THEN e.selling ELSE e.buying)
  BY GraphAssumption DEF Pair, Trading, Known

LEMMA Slot ==
    ASSUME NEW index, KeysUsed(index), NEW a \in DOMAIN index, NEW b \in DOMAIN index[a]
    PROVE  a \in Assets /\ b \in Assets /\ List(index, a, b) = index[a][b] /\ index[a][b] # <<>>
  BY DEF KeysUsed, List, Get

LEMMA SlotOf ==
    ASSUME NEW index, NEW a, NEW b, List(index, a, b) # <<>>
    PROVE  a \in DOMAIN index /\ b \in DOMAIN index[a] /\ List(index, a, b) = index[a][b]
  <1>1. a \in DOMAIN index
    BY NoKeysIs DEF List, Get
  <1> QED BY <1>1 DEF List, Get

(* The items of a list and the places they are at. *)
LEMMA SlotItems ==
    ASSUME NEW index, NEW m, NEW side, IsIndex(index, m, side),
           NEW a \in DOMAIN index, NEW b \in DOMAIN index[a]
    PROVE  /\ Lists(index[a][b], Pair(m, a, b, side))
           /\ DOMAIN index[a][b] = 1..Len(index[a][b])
           /\ ToSet(index[a][b]) = Pair(m, a, b, side)
  <1> DEFINE l == index[a][b]
             S == Pair(m, a, b, side)
  <1>1. Lists(l, S)
    BY Slot DEF IsIndex
  <1> HIDE DEF l, S
  <1>2. l \in Seq(Entry) /\ DOMAIN l = 1..Len(l)
    BY <1>1, LenProperties DEF Lists
  <1>3. ToSet(l) = S
    BY <1>1, <1>2 DEF ToSet, Lists
  <1> QED BY <1>1, <1>2, <1>3 DEF l, S

LEMMA KnownSlot ==
    ASSUME NEW index, NEW m, NEW side \in {"selling", "buying"}, IsIndex(index, m, side), NEW i \in Known(m)
    PROVE  \E a \in DOMAIN index : \E b \in DOMAIN index[a] : m[i] \in Pair(m, a, b, side)
  <1> DEFINE e == m[i]
             a == IF side = "buying" THEN e.buying ELSE e.selling
             b == IF side = "buying" THEN e.selling ELSE e.buying
  <1>1. e.selling \in Assets /\ e.buying \in Assets /\ e \in Trading(m, e.selling, e.buying)
    BY Offered DEF IsIndex
  <1>2. a \in Assets /\ b \in Assets /\ e \in Pair(m, a, b, side)
    BY <1>1 DEF Pair
  <1> HIDE DEF a, b, e
  <1>3. List(index, a, b) # <<>>
    BY <1>2, EmptyList DEF IsIndex
  <1>4. a \in DOMAIN index /\ b \in DOMAIN index[a]
    BY <1>3, SlotOf
  <1> QED BY <1>2, <1>4 DEF e

LEMMA IndexOffers ==
    ASSUME NEW index, NEW m, NEW side \in {"selling", "buying"}, IsIndex(index, m, side)
    PROVE  Offers(index) = {m[i] : i \in Known(m)}
  <1>1. ASSUME NEW e \in Offers(index)
        PROVE  e \in {m[i] : i \in Known(m)}
    <2>1. PICK a \in DOMAIN index : \E b \in DOMAIN index[a] : e \in ToSet(index[a][b])
      BY <1>1 DEF Offers
    <2>2. PICK b \in DOMAIN index[a] : e \in ToSet(index[a][b])
      BY <2>1
    <2>3. e \in Pair(m, a, b, side)
      BY <2>2, SlotItems
    <2> QED BY <2>3, PairIs
  <1>2. ASSUME NEW i \in Known(m)
        PROVE  m[i] \in Offers(index)
    <2>1. PICK a \in DOMAIN index : \E b \in DOMAIN index[a] : m[i] \in Pair(m, a, b, side)
      BY KnownSlot
    <2>2. PICK b \in DOMAIN index[a] : m[i] \in Pair(m, a, b, side)
      BY <2>1
    <2>3. m[i] \in ToSet(index[a][b])
      BY <2>2, SlotItems
    <2> QED BY <2>3 DEF Offers
  <1> QED BY <1>1, <1>2

(* The id at a place: one to one with the known ids. *)
LEMMA IndexPlaces ==
    ASSUME NEW index, NEW m, NEW side \in {"selling", "buying"}, IsIndex(index, m, side)
    PROVE  Cardinality(Places(index)) = Cardinality(Known(m))
  <1> DEFINE f == [p \in Places(index) |-> index[p[1]][p[2]][p[3]].id]
  <1>1. ASSUME NEW p \in Places(index)
        PROVE  \E a \in DOMAIN index : \E b \in DOMAIN index[a] : \E i \in DOMAIN index[a][b] : p = <<a, b, i>>
    <2>1. PICK a \in DOMAIN index : \E b \in DOMAIN index[a] : p \in {<<a, b, i>> : i \in DOMAIN index[a][b]}
      BY DEF Places
    <2> QED BY <2>1
  <1>2. ASSUME NEW a \in DOMAIN index, NEW b \in DOMAIN index[a], NEW i \in DOMAIN index[a][b]
        PROVE  <<a, b, i>> \in Places(index) /\ f[<<a, b, i>>] = index[a][b][i].id
    <2>1. <<a, b, i>> \in Places(index)
      BY DEF Places
    <2> QED BY <2>1
  <1>3. ASSUME NEW a \in DOMAIN index, NEW b \in DOMAIN index[a], NEW i \in DOMAIN index[a][b]
        PROVE  index[a][b][i] \in Pair(m, a, b, side)
    BY SlotItems DEF Lists
  <1>4. IsFiniteSet(Known(m))
    BY DEF IsIndex
  <1>5. DOMAIN f = Places(index) /\ f = [p \in DOMAIN f |-> f[p]]
    OBVIOUS
  <1> HIDE DEF f
  <1>6. ASSUME NEW p \in Places(index)
        PROVE  f[p] \in Known(m)
    <2>1. PICK a \in DOMAIN index : \E b \in DOMAIN index[a] : \E i \in DOMAIN index[a][b] : p = <<a, b, i>>
      BY <1>1
    <2>2. PICK b \in DOMAIN index[a] : \E i \in DOMAIN index[a][b] : p = <<a, b, i>>
      BY <2>1
    <2>3. PICK i \in DOMAIN index[a][b] : p = <<a, b, i>>
      BY <2>2
    <2>4. index[a][b][i].id \in Known(m)
      BY <1>3, PairIs
    <2> QED BY <1>2, <2>3, <2>4
  <1>7. ASSUME NEW p \in Places(index), NEW q \in Places(index), f[p] = f[q]
        PROVE  p = q
    <2>1. PICK a \in DOMAIN index : \E b \in DOMAIN index[a] : \E i \in DOMAIN index[a][b] : p = <<a, b, i>>
      BY <1>1
    <2>2. PICK b \in DOMAIN index[a] : \E i \in DOMAIN index[a][b] : p = <<a, b, i>>
      BY <2>1
    <2>3. PICK i \in DOMAIN index[a][b] : p = <<a, b, i>>
      BY <2>2
    <2>4. PICK c \in DOMAIN index : \E d \in DOMAIN index[c] : \E j \in DOMAIN index[c][d] : q = <<c, d, j>>
      BY <1>1
    <2>5. PICK d \in DOMAIN index[c] : \E j \in DOMAIN index[c][d] : q = <<c, d, j>>
      BY <2>4
    <2>6. PICK j \in DOMAIN index[c][d] : q = <<c, d, j>>
      BY <2>5
    <2> DEFINE x == index[a][b][i]
               y == index[c][d][j]
    <2>7. f[p] = x.id /\ f[q] = y.id
      BY <1>2, <2>3, <2>6
    <2>8. x \in Pair(m, a, b, side) /\ y \in Pair(m, c, d, side)
      BY <1>3
    <2>9. x.id = y.id
      BY <1>7, <2>7
    <2>10. x = y /\ a = c /\ b = d
      <3> HIDE DEF x, y
      <3>1. x = m[x.id] /\ y = m[y.id]
        BY <2>8, PairIs
      <3>2. x = y
        BY <2>9, <3>1
      <3> QED BY <2>8, <3>2, PairIs
    <2>11. i = j
      <3>1. Lists(index[a][b], Pair(m, a, b, side)) /\ DOMAIN index[a][b] = 1..Len(index[a][b])
        BY SlotItems
      <3> QED BY <2>9, <2>10, <3>1 DEF Lists
    <2> QED BY <2>3, <2>6, <2>10, <2>11
  <1>8. ASSUME NEW k \in Known(m)
        PROVE  \E p \in Places(index) : f[p] = k
    <2>1. PICK a \in DOMAIN index : \E b \in DOMAIN index[a] : m[k] \in Pair(m, a, b, side)
      BY KnownSlot
    <2>2. PICK b \in DOMAIN index[a] : m[k] \in Pair(m, a, b, side)
      BY <2>1
    <2>3. PICK i \in DOMAIN index[a][b] : index[a][b][i] = m[k]
      BY <2>2, SlotItems DEF Lists
    <2>4. m[k].id = k
      BY Offered DEF IsIndex
    <2>5. <<a, b, i>> \in Places(index) /\ f[<<a, b, i>>] = index[a][b][i].id
      BY <1>2
    <2> QED BY <2>3, <2>4, <2>5
  <1>9. f \in [Places(index) -> Known(m)]
    BY <1>5, <1>6
  <1>10. f \in Injection(Places(index), Known(m))
    BY <1>7, <1>9 DEF Injection, IsInjective
  <1>11. f \in Surjection(Places(index), Known(m))
    BY <1>8, <1>9 DEF Surjection
  <1> QED BY <1>4, <1>10, <1>11, FS_Injection

-----------------------------------------------------------------------------
(* The book and the batch as OfferBook sees them.                          *)

MapOf(g) == [i \in Ids |-> IF \E e \in Offers(g.selling) : e.id = i
                           THEN CHOOSE e \in Offers(g.selling) : e.id = i ELSE None]

LEMMA MapOfIs ==
    ASSUME NEW g, NEW m, Holds(g, m)
    PROVE  MapOf(g) = m
  <1>1. IsBook(m)
    BY DEF Holds
  <1>2. Offers(g.selling) = {m[i] : i \in Known(m)}
    BY Indexes, IndexOffers
  <1>3. \A i \in Known(m) : m[i].id = i /\ i \in Ids
    BY <1>1, Offered
  <1> DEFINE O == Offers(g.selling)
             val(i) == IF \E e \in O : e.id = i THEN CHOOSE e \in O : e.id = i ELSE None
  <1>4. ASSUME NEW i \in Ids
        PROVE  val(i) = m[i]
    <2> HIDE DEF O
    <2>1. CASE i \in Known(m)
      <3>1. m[i] \in O /\ m[i].id = i
        BY <1>2, <1>3, <2>1 DEF O
      <3>2. \A e \in O : e.id = i => e = m[i]
        BY <1>2, <1>3 DEF O
      <3> QED BY <3>1, <3>2
    <2>2. CASE i \notin Known(m)
      <3>1. ~\E e \in O : e.id = i
        BY <1>2, <1>3, <2>2 DEF O
      <3>2. m[i] = None
        BY <2>2 DEF Known
      <3> QED BY <3>1, <3>2
    <2> QED BY <2>1, <2>2
  <1>5. MapOf(g) = [i \in Ids |-> val(i)]
    BY DEF MapOf
  <1> HIDE DEF val
  <1>6. m = [i \in Ids |-> m[i]]
    BY <1>1 DEF IsBook
  <1> QED BY <1>4, <1>5, <1>6

Pending(ops) == [i \in Ids |-> IF About(ops, Len(ops), i) = {} THEN {}
                               ELSE {ops[Max(About(ops, Len(ops), i))].offer}]

LastWords(ops) == [i \in Ids |-> LET n == SelectLastInSeq(ops, LAMBDA op : op.id = i)
                                IN IF n = 0 THEN {} ELSE {ops[n].offer}]

LEMMA PendingMapIs ==
    ASSUME NEW ops \in Seq(Op)
    PROVE  LastWords(ops) = Pending(ops)
  <1> DEFINE last(i) == SelectLastInSeq(ops, LAMBDA op : op.id = i)
  <1>1. ASSUME NEW i \in Ids
        PROVE  /\ last(i) = IF About(ops, Len(ops), i) = {} THEN 0 ELSE Max(About(ops, Len(ops), i))
               /\ About(ops, Len(ops), i) # {} => last(i) # 0
    <2>1. last(i) = IF About(ops, Len(ops), i) = {} THEN 0 ELSE Max(About(ops, Len(ops), i))
      BY DEF SelectLastInSeq, About
    <2>2. About(ops, Len(ops), i) \subseteq 1..Len(ops) /\ Len(ops) \in Nat
      BY LenProperties DEF About
    <2> HIDE DEF last
    <2>3. About(ops, Len(ops), i) # {} => Max(About(ops, Len(ops), i)) \in 1..Len(ops)
      BY <2>2, MaxIs
    <2>4. 0 \notin 1..Len(ops)
      OBVIOUS
    <2> QED BY <2>1, <2>3, <2>4
  <1>2. \A i \in Ids : (IF last(i) = 0 THEN {} ELSE {ops[last(i)].offer})
                       = IF About(ops, Len(ops), i) = {} THEN {}
                         ELSE {ops[Max(About(ops, Len(ops), i))].offer}
    <2> HIDE DEF last
    <2> QED BY <1>1
  <1> HIDE DEF last
  <1>3. [i \in Ids |-> IF last(i) = 0 THEN {} ELSE {ops[last(i)].offer}] = Pending(ops)
    BY <1>2 DEF Pending
  <1> QED BY <1>3 DEF last, LastWords

LEMMA PendingNone == Pending(<<>>) = [i \in Ids |-> {}]
  <1>1. \A i : About(<<>>, Len(<<>>), i) = {}
    BY DEF About
  <1> QED BY <1>1 DEF Pending

LEMMA PendingAppend ==
    ASSUME NEW ops \in Seq(Op), NEW op \in Op
    PROVE  /\ Append(ops, op) \in Seq(Op)
           /\ Pending(Append(ops, op)) = [Pending(ops) EXCEPT ![op.id] = {op.offer}]
  <1> DEFINE k == Len(ops)
             new == Append(ops, op)
  <1>1. new \in Seq(Op) /\ Len(new) = k + 1 /\ k \in Nat /\ new[k + 1] = op /\ \A j \in 1..k : new[j] = ops[j]
    BY AppendProperties, LenProperties
  <1> HIDE DEF k, new
  <1>2. \A i : About(new, k, i) = About(ops, k, i)
    BY <1>1 DEF About
  <1>3. \A i : About(ops, k, i) # {} => Max(About(ops, k, i)) \in 1..k
    <2>1. \A i : About(ops, k, i) \in SUBSET (1..k)
      BY DEF About
    <2> QED BY <1>1, <2>1, MaxIs
  <1>4. /\ About(new, k + 1, op.id) # {} /\ Max(About(new, k + 1, op.id)) = k + 1
        /\ \A i : i # op.id => About(new, k + 1, i) = About(ops, k, i)
    BY <1>1, <1>2, AboutNext
  <1> DEFINE val(i) == IF About(new, k + 1, i) = {} THEN {} ELSE {new[Max(About(new, k + 1, i))].offer}
             was(i) == IF About(ops, k, i) = {} THEN {} ELSE {ops[Max(About(ops, k, i))].offer}
  <1>5. val(op.id) = {op.offer}
    BY <1>1, <1>4
  <1>6. ASSUME NEW i \in Ids, i # op.id
        PROVE  val(i) = was(i)
    <2>1. About(new, k + 1, i) = About(ops, k, i)
      BY <1>4, <1>6
    <2>2. About(ops, k, i) # {} => new[Max(About(ops, k, i))] = ops[Max(About(ops, k, i))]
      BY <1>1, <1>3
    <2> QED BY <2>1, <2>2, Zenon
  <1>7. Pending(new) = [i \in Ids |-> val(i)] /\ Pending(ops) = [i \in Ids |-> was(i)]
    BY <1>1 DEF Pending, k
  <1> HIDE DEF val, was
  <1>8. Pending(new) = [Pending(ops) EXCEPT ![op.id] = {op.offer}]
    BY <1>5, <1>6, <1>7
  <1> QED BY <1>1, <1>8 DEF new

(* The last words of the batch, as OfferBook applies them. *)
LEMMA PendingApplied ==
    ASSUME NEW m, NEW ops
    PROVE  After(m, ops, Len(ops))
             = [i \in Ids |-> IF Pending(ops)[i] = {} THEN m[i] ELSE CHOOSE e \in Pending(ops)[i] : TRUE]
  <1> DEFINE J(i) == About(ops, Len(ops), i)
             val(i) == ops[Max(J(i))].offer
             new(i) == IF Pending(ops)[i] = {} THEN m[i] ELSE CHOOSE e \in Pending(ops)[i] : TRUE
  <1>1. After(m, ops, Len(ops)) = [i \in Ids |-> IF J(i) = {} THEN m[i] ELSE val(i)]
    BY DEF After
  <1>2. \A i \in Ids : Pending(ops)[i] = IF J(i) = {} THEN {} ELSE {val(i)}
    BY DEF Pending
  <1> HIDE DEF J, val
  <1>3. ASSUME NEW i \in Ids
        PROVE  new(i) = IF J(i) = {} THEN m[i] ELSE val(i)
    <2>1. \A v : (CHOOSE e \in {v} : TRUE) = v
      OBVIOUS
    <2>2. CASE J(i) = {}
      BY <1>2, <2>2
    <2>3. CASE J(i) # {}
      <3>1. Pending(ops)[i] = {val(i)} /\ {val(i)} # {}
        BY <1>2, <2>3
      <3> QED BY <2>1, <2>3, <3>1
    <2> QED BY <2>2, <2>3
  <1> HIDE DEF new
  <1>4. After(m, ops, Len(ops)) = [i \in Ids |-> new(i)]
    BY <1>1, <1>3
  <1> QED BY <1>4 DEF new

-----------------------------------------------------------------------------
(* The inductive invariant.                                                *)

IInv ==
    /\ operations \in Seq(Op) /\ lastLedger \in 0..MaxLedger /\ committed \in BOOLEAN
    /\ panicked = FALSE
    /\ Holds(graph, OfferMap)

LEMMA OfferMapIs == OfferMap = MapOf(graph) /\ OfferMap' = MapOf(graph')
  BY DEF OfferMap, MapOf

LEMMA Reached ==
    ASSUME NEW g, NEW m, Holds(g, m)
    PROVE  Holds(g, MapOf(g))
  BY MapOfIs

NoOffers == [i \in Ids |-> None]

LEMMA EmptyHolds == Holds(EmptyGraph, NoOffers)
  <1> DEFINE m == NoOffers
  <1>1. m \in [Ids -> Entry \cup {None}] /\ \A i \in Ids : m[i] = None
    BY DEF NoOffers
  <1> HIDE DEF m
  <1>2. IsBook(m) /\ Known(m) = {}
    BY <1>1 DEF IsBook, Known
  <1>3. \A s, b : Trading(m, s, b) = {}
    BY <1>1, GraphAssumption DEF Trading
  <1>4. EmptyGraph.selling = NoKeys /\ EmptyGraph.buying = NoKeys /\ EmptyGraph.pairs = NoKeys
    BY DEF EmptyGraph
  <1>5. KeysUsed(NoKeys)
    BY NoKeysIs DEF KeysUsed
  <1>6. \A s, b : List(NoKeys, s, b) = <<>>
    BY NoKeysIs DEF List
  <1>7. Lists(<<>>, {})
    BY DEF Lists
  <1>8. IsFiniteSet(Known(m))
    BY <1>2, FS_EmptySet
  <1> QED BY <1>2, <1>3, <1>4, <1>5, <1>6, <1>7, <1>8, NoKeysIs DEF Holds, m

LEMMA InitHolds ==
    ASSUME Init
    PROVE  IInv
  <1>1. Holds(graph, OfferMap)
    BY EmptyHolds, Reached, OfferMapIs DEF Init
  <1>2. <<>> \in Seq(Op) /\ 0 \in 0..MaxLedger
    BY GraphAssumption
  <1> QED BY <1>1, <1>2 DEF Init, IInv

LEMMA SameGraph ==
    ASSUME UNCHANGED graph
    PROVE  OfferMap' = OfferMap
  BY OfferMapIs

(* What an accepted batch makes of the book. *)
LEMMA ApplyStep ==
    ASSUME IInv, NEW l \in 0..MaxLedger, Apply(l), ~(lastLedger > 0 /\ l <= lastLedger)
    PROVE  /\ panicked' = FALSE /\ lastLedger' = l /\ operations' = <<>> /\ committed' = committed
           /\ Holds(graph', OfferMap') /\ OfferMap' = After(OfferMap, operations, Len(operations))
  <1> DEFINE m2 == After(OfferMap, operations, Len(operations))
             done == Applied([g |-> graph, panicked |-> FALSE], operations)
  <1>1. /\ graph' = done.g /\ panicked' = done.panicked
        /\ lastLedger' = l /\ operations' = <<>> /\ committed' = committed
    BY DEF Apply, Applied
  <1>2. Good(done, m2)
    BY Batch DEF IInv
  <1> HIDE DEF done, m2
  <1>3. panicked' = FALSE /\ Holds(graph', m2)
    BY <1>1, <1>2 DEF Good
  <1>4. OfferMap' = m2
    BY <1>3, OfferMapIs, MapOfIs
  <1> QED BY <1>1, <1>3, <1>4 DEF m2

LEMMA NextHolds ==
    ASSUME IInv, [Next]_vars
    PROVE  IInv'
  <1> USE DEF IInv
  <1>1. ASSUME NEW op \in Op, Queue(op)
        PROVE  IInv'
    <2>1. operations' \in Seq(Op)
      BY <1>1, PendingAppend DEF Queue
    <2>2. UNCHANGED <<graph, lastLedger, committed, panicked>>
      BY <1>1 DEF Queue
    <2> QED BY <2>1, <2>2, SameGraph
  <1>2. CASE AddOffer
    BY <1>1, <1>2 DEF AddOffer, Op
  <1>3. CASE RemoveOffer
    BY <1>1, <1>3 DEF RemoveOffer, Op
  <1>4. CASE Discard
    <2>1. operations' = <<>> /\ committed' = FALSE /\ UNCHANGED <<graph, lastLedger, panicked>>
      BY <1>4 DEF Discard
    <2>2. <<>> \in Seq(Op)
      OBVIOUS
    <2> QED BY <2>1, <2>2, SameGraph
  <1>5. CASE Clear
    <2>1. graph' = EmptyGraph /\ lastLedger' = 0 /\ operations' = <<>> /\ committed' = FALSE /\ panicked' = panicked
      BY <1>5 DEF Clear
    <2>2. Holds(graph', OfferMap')
      BY <2>1, EmptyHolds, Reached, OfferMapIs
    <2>3. <<>> \in Seq(Op) /\ 0 \in 0..MaxLedger
      BY GraphAssumption
    <2> QED BY <2>1, <2>2, <2>3
  <1>6. ASSUME NEW l \in 0..MaxLedger, Apply(l)
        PROVE  IInv'
    <2>1. CASE lastLedger > 0 /\ l <= lastLedger
      <3>1. l > lastLedger => FALSE
        BY <2>1
      <3>2. committed' = TRUE /\ UNCHANGED <<graph, lastLedger, operations, panicked>>
        BY <1>6, <2>1, <3>1 DEF Apply
      <3> QED BY <3>2, SameGraph
    <2>2. CASE ~(lastLedger > 0 /\ l <= lastLedger)
      <3>1. /\ panicked' = FALSE /\ lastLedger' = l /\ operations' = <<>> /\ committed' = committed
            /\ Holds(graph', OfferMap')
        BY <1>6, <2>2, ApplyStep
      <3>2. <<>> \in Seq(Op)
        OBVIOUS
      <3> QED BY <3>1, <3>2
    <2> QED BY <2>1, <2>2
  <1>7. CASE UNCHANGED vars
    BY <1>7, SameGraph DEF vars
  <1> QED BY <1>2, <1>3, <1>4, <1>5, <1>6, <1>7 DEF Next

(* The graph is a book: both indexes list every offer once, in the list of its own
   pair and sorted by price, and the pairs are those of the offers, after any number
   of batches of additions, updates that move an offer to another pair and removals. *)
THEOREM BookInvariant == Spec => []IInv
  <1>1. Init => IInv
    BY InitHolds
  <1>2. IInv /\ [Next]_vars => IInv'
    BY NextHolds
  <1> QED BY <1>1, <1>2, PTL DEF Spec

-----------------------------------------------------------------------------
(* The indexes agree.                                                      *)

(* What IndexesAgree says of one index. *)
OneIndex(index, ids) ==
    /\ {e.id : e \in Offers(index)} = ids
    /\ Cardinality(Places(index)) = Cardinality(ids)
    /\ \A a \in DOMAIN index : DOMAIN index[a] # {}
    /\ \A a \in DOMAIN index : \A b \in DOMAIN index[a] : index[a][b] # <<>>

LEMMA IndexIs ==
    ASSUME NEW index, NEW m, NEW side \in {"selling", "buying"}, IsIndex(index, m, side)
    PROVE  OneIndex(index, Known(m)) /\ (DOMAIN index = {} <=> Known(m) = {})
  <1>1. IsBook(m) /\ KeysUsed(index)
    BY DEF IsIndex
  <1>2. {e.id : e \in Offers(index)} = Known(m)
    <2>1. \A i \in Known(m) : m[i].id = i
      BY <1>1, Offered
    <2>2. Offers(index) = {m[i] : i \in Known(m)}
      BY IndexOffers
    <2> QED BY <2>1, <2>2
  <1>3. Cardinality(Places(index)) = Cardinality(Known(m))
    BY IndexPlaces
  <1>4. /\ \A a \in DOMAIN index : DOMAIN index[a] # {}
        /\ \A a \in DOMAIN index : \A b \in DOMAIN index[a] : index[a][b] # <<>>
    BY <1>1 DEF KeysUsed
  <1>5. ASSUME NEW a \in DOMAIN index
        PROVE  Known(m) # {}
    <2>1. PICK b \in DOMAIN index[a] : index[a][b] # <<>>
      BY <1>4
    <2>2. Lists(index[a][b], Pair(m, a, b, side))
      BY SlotItems
    <2>3. Pair(m, a, b, side) # {}
      BY <2>1, <2>2, EmptyList
    <2> QED BY <2>3, PairIs
  <1>6. Known(m) # {} => DOMAIN index # {}
    BY KnownSlot
  <1> QED BY <1>2, <1>3, <1>4, <1>5, <1>6 DEF OneIndex

LEMMA BothIndexes ==
    ASSUME NEW g, NEW m, Holds(g, m),
           NEW s \in DOMAIN g.selling, NEW b \in DOMAIN g.selling[s], NEW e \in ToSet(g.selling[s][b])
    PROVE  e.selling = s /\ e.buying = b /\ e \in ToSet(g.buying[b][s])
  <1>1. IsIndex(g.selling, m, "selling") /\ IsIndex(g.buying, m, "buying")
    BY Indexes
  <1>2. s \in Assets /\ b \in Assets
    BY <1>1, Slot DEF IsIndex
  <1>3. e \in Pair(m, s, b, "selling")
    BY <1>1, SlotItems
  <1>4. e.selling = s /\ e.buying = b /\ e \in Pair(m, b, s, "buying")
    BY <1>3 DEF Pair, Trading
  <1>5. Lists(List(g.buying, b, s), Pair(m, b, s, "buying"))
    BY <1>1, <1>2 DEF IsIndex
  <1>6. List(g.buying, b, s) # <<>>
    BY <1>4, <1>5, EmptyList
  <1>7. b \in DOMAIN g.buying /\ s \in DOMAIN g.buying[b]
    BY <1>6, SlotOf
  <1>8. ToSet(g.buying[b][s]) = Pair(m, b, s, "buying")
    BY <1>1, <1>7, SlotItems
  <1> QED BY <1>4, <1>8

LEMMA BookAgrees ==
    ASSUME IInv
    PROVE  IndexesAgree
  <1> DEFINE m == OfferMap
  <1>1. ~panicked /\ Holds(graph, m)
    BY DEF IInv
  <1> HIDE DEF m
  <1>2. DOMAIN graph.pairs = Known(m)
    BY <1>1 DEF Holds
  <1>3. IsIndex(graph.selling, m, "selling") /\ IsIndex(graph.buying, m, "buying")
    BY <1>1, Indexes
  <1>4. OneIndex(graph.selling, Known(m)) /\ (DOMAIN graph.selling = {} <=> Known(m) = {})
    BY <1>3, IndexIs
  <1>5. OneIndex(graph.buying, Known(m))
    BY <1>3, IndexIs
  <1>6. \A index \in {graph.selling, graph.buying} : OneIndex(index, DOMAIN graph.pairs)
    BY <1>2, <1>4, <1>5
  <1>7. \A s \in DOMAIN graph.selling : \A b \in DOMAIN graph.selling[s] :
            \A e \in ToSet(graph.selling[s][b]) :
                e.selling = s /\ e.buying = b /\ e \in ToSet(graph.buying[b][s])
    BY <1>1, BothIndexes
  <1>8. IsEmpty <=> DOMAIN graph.pairs = {}
    BY <1>2, <1>4 DEF IsEmpty
  <1> QED BY <1>1, <1>6, <1>7, <1>8, Zenon DEF IndexesAgree, OneIndex

(* apply never panics: whatever batches are applied, an offer is where its pair says,
   once in each index, and no key is left without offers. *)
THEOREM BookIndexesAgree == Spec => []IndexesAgree
  <1>1. IInv => IndexesAgree
    BY BookAgrees
  <1> QED BY <1>1, BookInvariant, PTL

-----------------------------------------------------------------------------
(* The graph implements OfferBook.                                         *)

LEMMA PendingWords == PendingMap = LastWords(operations) /\ PendingMap' = LastWords(operations')
  BY DEF PendingMap, LastWords, SelectLastInSeq

LEMMA PendingIs ==
    /\ operations \in Seq(Op) => PendingMap = Pending(operations)
    /\ operations' \in Seq(Op) => PendingMap' = Pending(operations')
  BY PendingMapIs, PendingWords

LEMMA BookInit ==
    ASSUME Init
    PROVE  Book!Init
  <1>1. OfferMap = NoOffers
    BY EmptyHolds, MapOfIs, OfferMapIs DEF Init
  <1>2. PendingMap = [i \in Ids |-> {}]
    <2>1. operations = <<>> /\ operations \in Seq(Op)
      BY DEF Init
    <2> QED BY <2>1, PendingIs, PendingNone
  <1> QED BY <1>1, <1>2 DEF Init, Book!Init, Book!Nothing, NoOffers

LEMMA BookStep ==
    ASSUME IInv, IInv', [Next]_vars
    PROVE  [Book!Next]_<<OfferMap, lastLedger, PendingMap>>
  <1>1. PendingMap = Pending(operations) /\ PendingMap' = Pending(operations')
    BY PendingIs DEF IInv
  <1>2. ASSUME NEW op \in Op, Queue(op)
        PROVE  Book!Queue(op.id, op.offer)
    <2>1. operations' = Append(operations, op) /\ UNCHANGED <<graph, lastLedger>>
      BY <1>2 DEF Queue
    <2>2. PendingMap' = [PendingMap EXCEPT ![op.id] = {op.offer}]
      BY <1>1, <2>1, PendingAppend DEF IInv
    <2>3. UNCHANGED <<OfferMap, lastLedger>>
      BY <2>1, SameGraph
    <2> QED BY <2>2, <2>3 DEF Book!Queue
  <1>3. CASE AddOffer
    <2>1. PICK e \in Entry : Queue(AddOp(e))
      BY <1>3 DEF AddOffer
    <2>2. AddOp(e) \in Op /\ AddOp(e).id = e.id /\ AddOp(e).offer = e
      BY DEF Op, AddOp
    <2>3. Book!Queue(e.id, e)
      BY <1>2, <2>1, <2>2
    <2> QED BY <2>3 DEF Book!Next
  <1>4. CASE RemoveOffer
    <2>1. PICK i \in Ids : Queue(RemoveOp(i))
      BY <1>4 DEF RemoveOffer
    <2>2. RemoveOp(i) \in Op /\ RemoveOp(i).id = i /\ RemoveOp(i).offer = None
      BY DEF Op, RemoveOp
    <2>3. Book!Queue(i, None)
      BY <1>2, <2>1, <2>2
    <2> QED BY <2>3 DEF Book!Next
  <1>5. CASE Discard
    <2>1. operations' = <<>> /\ UNCHANGED <<graph, lastLedger>>
      BY <1>5 DEF Discard
    <2>2. PendingMap' = Book!Nothing /\ UNCHANGED <<OfferMap, lastLedger>>
      BY <1>1, <2>1, PendingNone, SameGraph DEF Book!Nothing
    <2> QED BY <2>2 DEF Book!Next, Book!Discard
  <1>6. CASE Clear
    <2>1. graph' = EmptyGraph /\ lastLedger' = 0 /\ operations' = <<>>
      BY <1>6 DEF Clear
    <2>2. OfferMap' = [i \in Ids |-> None]
      BY <2>1, EmptyHolds, MapOfIs, OfferMapIs DEF NoOffers
    <2>3. PendingMap' = Book!Nothing
      BY <1>1, <2>1, PendingNone DEF Book!Nothing
    <2> QED BY <2>1, <2>2, <2>3 DEF Book!Next, Book!Clear
  <1>7. ASSUME NEW l \in 0..MaxLedger, Apply(l)
        PROVE  Book!Apply(l) \/ UNCHANGED <<OfferMap, lastLedger, PendingMap>>
    <2>1. CASE lastLedger > 0 /\ l <= lastLedger
      <3>1. ~(l > lastLedger)
        BY <2>1 DEF IInv
      <3>2. UNCHANGED <<graph, lastLedger, operations>>
        BY <1>7, <2>1, <3>1 DEF Apply
      <3> QED BY <1>1, <3>2, SameGraph
    <2>2. CASE ~(lastLedger > 0 /\ l <= lastLedger)
      <3>1. lastLedger = 0 \/ l > lastLedger
        BY <2>2 DEF IInv
      <3>2. /\ lastLedger' = l /\ operations' = <<>>
            /\ OfferMap' = After(OfferMap, operations, Len(operations))
        BY <1>7, <2>2, ApplyStep
      <3>3. OfferMap' = [i \in Ids |-> IF PendingMap[i] = {} THEN OfferMap[i]
                                       ELSE CHOOSE e \in PendingMap[i] : TRUE]
        BY <1>1, <3>2, PendingApplied
      <3>4. PendingMap' = Book!Nothing
        BY <1>1, <3>2, PendingNone DEF Book!Nothing
      <3> QED BY <3>1, <3>2, <3>3, <3>4 DEF Book!Apply
    <2> QED BY <2>1, <2>2
  <1>8. CASE UNCHANGED vars
    <2>1. UNCHANGED <<graph, lastLedger, operations>>
      BY <1>8 DEF vars
    <2> QED BY <1>1, <2>1, SameGraph
  <1> QED BY <1>3, <1>4, <1>5, <1>6, <1>7, <1>8 DEF Next, Book!Next

(* The two indexes and the queued operations are, at every step, a map from ids to
   offers changed by whole batches in which the last word on an offer counts. *)
THEOREM BookRefines == Spec => BookSpec
  <1>1. Init => Book!Init
    BY BookInit
  <1>2. IInv /\ IInv' /\ [Next]_vars => [Book!Next]_<<OfferMap, lastLedger, PendingMap>>
    BY BookStep
  <1> QED BY <1>1, <1>2, BookInvariant, PTL DEF Spec, BookSpec, Book!Spec

-----------------------------------------------------------------------------
(* Price levels.                                                           *)

Level(S, e) == {x \in S : Equal(x.price, e.price)}
Better(S, e) == {Level(S, x) : x \in {y \in S : Cheaper(y.price, e.price)}}

Starts(l) == {i \in DOMAIN l : i = 1 \/ ~Equal(l[i - 1].price, l[i].price)}
UpTo(l, i) == {j \in Starts(l) : j <= i}
Cut(l, n) == {i \in DOMAIN l : Cardinality(UpTo(l, i)) > n}

LEMMA ByValue ==
    ASSUME NEW x \in Entry, NEW y \in Entry
    PROVE  Equal(x.price, y.price) <=> ~Cheaper(x.price, y.price) /\ ~Cheaper(y.price, x.price)
  BY Prices DEF Equal, Cheaper

(* Offers of equal price have the same cheaper offers and the same level. *)
LEMMA SameLevel ==
    ASSUME NEW S \in SUBSET Entry, NEW x \in Entry, NEW y \in Entry, Equal(x.price, y.price)
    PROVE  Level(S, x) = Level(S, y) /\ Better(S, x) = Better(S, y)
  <1>1. ~Cheaper(x.price, y.price) /\ ~Cheaper(y.price, x.price)
    BY ByValue
  <1>2. ASSUME NEW z \in Entry
        PROVE  /\ Cheaper(z.price, x.price) <=> Cheaper(z.price, y.price)
               /\ Cheaper(x.price, z.price) <=> Cheaper(y.price, z.price)
    <2>1. Cheaper(z.price, x.price) <=> Cheaper(z.price, y.price)
      BY <1>1, Dearer
    <2>2. Cheaper(x.price, z.price) => Cheaper(y.price, z.price)
      <3>1. SUFFICES ASSUME Cheaper(x.price, z.price), ~Cheaper(y.price, z.price) PROVE FALSE
        OBVIOUS
      <3> QED BY <1>1, <3>1, Dearer
    <2>3. Cheaper(y.price, z.price) => Cheaper(x.price, z.price)
      <3>1. SUFFICES ASSUME Cheaper(y.price, z.price), ~Cheaper(x.price, z.price) PROVE FALSE
        OBVIOUS
      <3> QED BY <1>1, <3>1, Dearer
    <2> QED BY <2>1, <2>2, <2>3
  <1>3. \A z \in S : Equal(z.price, x.price) <=> Equal(z.price, y.price)
    BY <1>2, ByValue
  <1>4. \A z \in S : Cheaper(z.price, x.price) <=> Cheaper(z.price, y.price)
    BY <1>2
  <1>5. Level(S, x) = Level(S, y)
    BY <1>3 DEF Level
  <1>6. {z \in S : Cheaper(z.price, x.price)} = {z \in S : Cheaper(z.price, y.price)}
    BY <1>4
  <1> QED BY <1>5, <1>6 DEF Better

LEMMA ListFacts ==
    ASSUME NEW l, NEW S, Lists(l, S)
    PROVE  /\ l \in Seq(Entry) /\ Len(l) \in Nat /\ DOMAIN l = 1..Len(l) /\ S \subseteq Entry
           /\ \A i \in 1..Len(l) : l[i] \in S /\ l[i] \in Entry
           /\ \A e \in S : \E i \in 1..Len(l) : l[i] = e
           /\ \A i, j \in 1..Len(l) : i < j => ~Cheaper(l[j].price, l[i].price)
  <1>1. l \in Seq(Entry) /\ Len(l) \in Nat /\ DOMAIN l = 1..Len(l)
    BY LenProperties DEF Lists
  <1>2. \A i \in 1..Len(l) : l[i] \in Entry
    BY <1>1, ElementOfSeq
  <1> QED BY <1>1, <1>2 DEF Lists

(* The first offer of a list has none cheaper; the next one has those of the one
   before it and, if it starts a level, the level of the one before it. *)
LEMMA BetterFirst ==
    ASSUME NEW l, NEW S, Lists(l, S), 1 \in 1..Len(l)
    PROVE  Better(S, l[1]) = {}
  <1>1. ASSUME NEW y \in S
        PROVE  ~Cheaper(y.price, l[1].price)
    <2>1. PICK j \in 1..Len(l) : l[j] = y
      BY ListFacts
    <2>2. j = 1 \/ 1 < j
      BY <2>1
    <2> QED BY <2>1, <2>2, ListFacts, NotDearer
  <1> QED BY <1>1 DEF Better

LEMMA BetterNext ==
    ASSUME NEW l, NEW S, Lists(l, S), NEW i \in 1..Len(l), i + 1 \in 1..Len(l),
           ~Equal(l[i].price, l[i + 1].price)
    PROVE  /\ Better(S, l[i + 1]) = Better(S, l[i]) \cup {Level(S, l[i])}
           /\ Level(S, l[i]) \notin Better(S, l[i])
  <1> DEFINE x == l[i]
             y == l[i + 1]
  <1>1. x \in S /\ y \in S /\ x \in Entry /\ y \in Entry /\ S \subseteq Entry
    BY ListFacts
  <1>2. Cheaper(x.price, y.price)
    <2>1. ~Cheaper(y.price, x.price)
      <3>1. i < i + 1
        OBVIOUS
      <3> QED BY <3>1, ListFacts
    <2>2. ~Equal(x.price, y.price)
      OBVIOUS
    <2> HIDE DEF x, y
    <2> QED BY <1>1, <2>1, <2>2, ByValue
  <1>3. ASSUME NEW z \in S, Cheaper(z.price, y.price)
        PROVE  Cheaper(z.price, x.price) \/ Equal(z.price, x.price)
    <2>1. PICK j \in 1..Len(l) : l[j] = z
      BY ListFacts
    <2>2. j < i \/ j = i \/ j = i + 1 \/ i + 1 < j
      BY <2>1
    <2>3. ~(j = i + 1) /\ ~(i + 1 < j)
      BY <1>1, <1>3, <2>1, ListFacts, NotDearer
    <2>4. ~Cheaper(x.price, z.price)
      BY <1>1, <2>1, <2>2, <2>3, ListFacts, NotDearer
    <2> HIDE DEF x, y
    <2> QED BY <1>1, <2>4, ByValue
  <1> HIDE DEF x, y
  <1>4. ASSUME NEW z \in S, Cheaper(z.price, x.price)
        PROVE  Cheaper(z.price, y.price)
    <2>1. ~Cheaper(y.price, x.price)
      BY <1>1, <1>2, NotDearer, Dearer
    <2> QED BY <1>1, <1>4, <2>1, Dearer
  <1>5. ASSUME NEW z \in S, Equal(z.price, x.price)
        PROVE  Level(S, z) = Level(S, x)
    BY <1>1, <1>5, SameLevel
  <1>6. Better(S, y) = Better(S, x) \cup {Level(S, x)}
    <2>1. ASSUME NEW v \in Better(S, y)
          PROVE  v \in Better(S, x) \cup {Level(S, x)}
      <3>1. PICK z \in S : Cheaper(z.price, y.price) /\ v = Level(S, z)
        BY <2>1 DEF Better
      <3> QED BY <1>3, <1>5, <3>1 DEF Better
    <2>2. ASSUME NEW v \in Better(S, x)
          PROVE  v \in Better(S, y)
      <3>1. PICK z \in S : Cheaper(z.price, x.price) /\ v = Level(S, z)
        BY <2>2 DEF Better
      <3> QED BY <1>4, <3>1 DEF Better
    <2>3. Level(S, x) \in Better(S, y)
      BY <1>1, <1>2 DEF Better
    <2> QED BY <2>1, <2>2, <2>3
  <1>7. Level(S, x) \notin Better(S, x)
    <2>1. SUFFICES ASSUME NEW z \in S, Cheaper(z.price, x.price), Level(S, x) = Level(S, z) PROVE FALSE
      BY DEF Better
    <2>2. x \in Level(S, x)
      BY <1>1, ByValue, NotDearer DEF Level
    <2>3. Equal(x.price, z.price)
      BY <2>1, <2>2 DEF Level
    <2> QED BY <1>1, <2>1, <2>3, ByValue
  <1> QED BY <1>6, <1>7 DEF x, y

LEMMA UpToIs ==
    ASSUME NEW l, NEW S, Lists(l, S)
    PROVE  /\ \A i \in 1..Len(l) : /\ IsFiniteSet(UpTo(l, i)) /\ Cardinality(UpTo(l, i)) \in Nat
                                   /\ \A j \in 1..Len(l) : i <= j =>
                                         Cardinality(UpTo(l, i)) <= Cardinality(UpTo(l, j))
           /\ 1 \in 1..Len(l) => UpTo(l, 1) = {1}
           /\ \A i \in 1..Len(l) : i + 1 \in 1..Len(l) =>
                 /\ Equal(l[i].price, l[i + 1].price) => UpTo(l, i + 1) = UpTo(l, i)
                 /\ ~Equal(l[i].price, l[i + 1].price) => UpTo(l, i + 1) = UpTo(l, i) \cup {i + 1}
                 /\ i + 1 \notin UpTo(l, i)
  <1> DEFINE n == Len(l)
  <1>1. n \in Nat /\ DOMAIN l = 1..n
    BY ListFacts
  <1> HIDE DEF n
  <1>2. Starts(l) \subseteq 1..n
    BY <1>1 DEF Starts
  <1>3. ASSUME NEW i \in 1..n
        PROVE  IsFiniteSet(UpTo(l, i)) /\ Cardinality(UpTo(l, i)) \in Nat
    <2>1. UpTo(l, i) \in SUBSET (1..n)
      BY <1>2 DEF UpTo
    <2>2. IsFiniteSet(1..n)
      BY <1>1, FS_Interval
    <2>3. IsFiniteSet(UpTo(l, i))
      BY <2>1, <2>2, FS_Subset
    <2> QED BY <2>3, FS_CardinalityType
  <1>4. ASSUME NEW i \in 1..n, NEW j \in 1..n, i <= j
        PROVE  Cardinality(UpTo(l, i)) <= Cardinality(UpTo(l, j))
    <2>1. UpTo(l, i) \in SUBSET UpTo(l, j)
      BY <1>2, <1>4 DEF UpTo
    <2> QED BY <1>3, <2>1, FS_Subset
  <1>5. ASSUME 1 \in 1..n
        PROVE  UpTo(l, 1) = {1}
    <2>1. 1 \in Starts(l)
      BY <1>1, <1>5 DEF Starts
    <2> QED BY <1>2, <2>1 DEF UpTo
  <1>6. ASSUME NEW i \in 1..n, i + 1 \in 1..n
        PROVE  /\ Equal(l[i].price, l[i + 1].price) => UpTo(l, i + 1) = UpTo(l, i)
               /\ ~Equal(l[i].price, l[i + 1].price) => UpTo(l, i + 1) = UpTo(l, i) \cup {i + 1}
               /\ i + 1 \notin UpTo(l, i)
    <2>1. i + 1 # 1 /\ (i + 1) - 1 = i
      OBVIOUS
    <2>2. i + 1 \in Starts(l) <=> ~Equal(l[i].price, l[i + 1].price)
      BY <1>1, <1>6, <2>1 DEF Starts
    <2>3. \A j \in 1..n : j <= i + 1 <=> j <= i \/ j = i + 1
      OBVIOUS
    <2>4. ~(i + 1 <= i)
      OBVIOUS
    <2>5. \A j : j \in UpTo(l, i + 1) <=> j \in UpTo(l, i) \/ (j = i + 1 /\ i + 1 \in Starts(l))
      BY <1>2, <2>3 DEF UpTo
    <2>6. i + 1 \notin UpTo(l, i)
      BY <2>4 DEF UpTo
    <2> QED BY <2>2, <2>5, <2>6
  <1> QED BY <1>3, <1>4, <1>5, <1>6 DEF n

(* An offer stands in the level that comes after the levels cheaper than it. *)
LevelAt(l, S, i) ==
    IsFiniteSet(Better(S, l[i])) /\ Cardinality(UpTo(l, i)) = Cardinality(Better(S, l[i])) + 1

LEMMA LevelFirst ==
    ASSUME NEW l, NEW S, Lists(l, S), 1 \in 1..Len(l)
    PROVE  LevelAt(l, S, 1)
  <1>1. UpTo(l, 1) = {1}
    BY UpToIs
  <1>2. Better(S, l[1]) = {}
    BY BetterFirst
  <1>3. Cardinality({1}) = 1 /\ IsFiniteSet({}) /\ Cardinality({}) = 0
    BY FS_Singleton, FS_EmptySet
  <1>4. Cardinality(UpTo(l, 1)) = 1 /\ IsFiniteSet(Better(S, l[1])) /\ Cardinality(Better(S, l[1])) = 0
    BY <1>1, <1>2, <1>3, Zenon
  <1> QED BY <1>4 DEF LevelAt

LEMMA LevelNext ==
    ASSUME NEW l, NEW S, Lists(l, S), NEW i \in 1..Len(l), i + 1 \in 1..Len(l), LevelAt(l, S, i)
    PROVE  LevelAt(l, S, i + 1)
  <1>1. CASE Equal(l[i].price, l[i + 1].price)
    <2>1. UpTo(l, i + 1) = UpTo(l, i)
      BY <1>1, UpToIs
    <2>2. l[i] \in Entry /\ l[i + 1] \in Entry /\ S \in SUBSET Entry
      BY ListFacts
    <2>3. Better(S, l[i + 1]) = Better(S, l[i])
      BY <1>1, <2>2, SameLevel
    <2> QED BY <2>1, <2>3 DEF LevelAt
  <1>2. CASE ~Equal(l[i].price, l[i + 1].price)
    <2> DEFINE U == UpTo(l, i)
               B == Better(S, l[i])
    <2>1. UpTo(l, i + 1) = U \cup {i + 1} /\ i + 1 \notin U /\ IsFiniteSet(U) /\ Cardinality(U) \in Nat
      BY <1>2, UpToIs
    <2>2. Better(S, l[i + 1]) = B \cup {Level(S, l[i])} /\ Level(S, l[i]) \notin B
      BY <1>2, BetterNext
    <2>3. IsFiniteSet(B) /\ Cardinality(U) = Cardinality(B) + 1
      BY DEF LevelAt
    <2> HIDE DEF U, B
    <2>4. Cardinality(U \cup {i + 1}) = Cardinality(U) + 1
      BY <2>1, FS_AddElement
    <2>5. IsFiniteSet(B \cup {Level(S, l[i])}) /\ Cardinality(B \cup {Level(S, l[i])}) = Cardinality(B) + 1
      BY <2>2, <2>3, FS_AddElement
    <2> QED BY <2>1, <2>2, <2>3, <2>4, <2>5 DEF LevelAt
  <1> QED BY <1>1, <1>2

LEMMA Levels ==
    ASSUME NEW l, NEW S, Lists(l, S), NEW i \in 1..Len(l)
    PROVE  LevelAt(l, S, i)
  <1>1. SUFFICES ASSUME ~LevelAt(l, S, i) PROVE FALSE
    OBVIOUS
  <1> DEFINE T == {j \in 1..Len(l) : ~LevelAt(l, S, j)}
  <1>2. T # {} /\ T \subseteq Nat
    BY <1>1
  <1>3. PICK k \in T : \A j \in T : k <= j
    BY <1>2, Smallest
  <1>4. k \in 1..Len(l) /\ ~LevelAt(l, S, k) /\ Len(l) \in Nat
    BY <1>3, ListFacts
  <1>5. 1 \in 1..Len(l)
    BY <1>4
  <1>6. k # 1
    BY <1>4, <1>5, LevelFirst
  <1>7. k - 1 \in 1..Len(l) /\ (k - 1) + 1 = k /\ ~(k <= k - 1)
    BY <1>4, <1>6
  <1>8. LevelAt(l, S, k - 1)
    BY <1>3, <1>7
  <1> QED BY <1>4, <1>7, <1>8, LevelNext

(* Where findOffers cuts: behind the last offer of the n cheapest levels. *)
LEMMA CutIs ==
    ASSUME NEW l, NEW S, Lists(l, S), NEW n \in Nat
    PROVE  /\ Len(l) - Cardinality(Cut(l, n)) \in 0..Len(l)
           /\ \A i \in 1..Len(l) : i <= Len(l) - Cardinality(Cut(l, n)) <=> Cardinality(UpTo(l, i)) <= n
  <1> DEFINE k == Len(l)
             C == Cut(l, n)
             u(i) == Cardinality(UpTo(l, i))
  <1>1. k \in Nat /\ DOMAIN l = 1..k
    BY ListFacts
  <1>2. /\ \A i \in 1..k : u(i) \in Nat
        /\ \A i, j \in 1..k : i <= j => u(i) <= u(j)
    BY UpToIs
  <1>3. C = {i \in 1..k : u(i) > n}
    BY <1>1 DEF Cut
  <1> HIDE DEF C, k, u
  <1>4. CASE C = {}
    <2>1. Cardinality(C) = 0
      BY <1>4, FS_EmptySet
    <2>2. \A i \in 1..k : u(i) <= n
      BY <1>2, <1>3, <1>4
    <2>3. k - Cardinality(C) = k
      BY <1>1, <2>1
    <2>4. k \in 0..k /\ \A i \in 1..k : i <= k
      BY <1>1
    <2> QED BY <2>2, <2>3, <2>4 DEF C, k, u
  <1>5. CASE C # {}
    <2>1. PICK c \in C : \A y \in C : c <= y
      <3>1. C \in SUBSET Nat
        BY <1>3
      <3> QED BY <1>5, <3>1, Smallest
    <2>2. c \in 1..k /\ u(c) > n
      BY <1>3, <2>1
    <2>3. \A i \in 1..k : i < c => u(i) <= n
      <3>1. \A i \in 1..k : i < c => i \notin C
        BY <2>1, <2>2
      <3> QED BY <1>2, <1>3, <3>1
    <2>4. \A i \in 1..k : c <= i => u(i) > n
      BY <1>2, <2>2
    <2>5. C = c..k
      <3>1. \A i \in 1..k : i \in C <=> c <= i
        BY <1>3, <2>1, <2>4
      <3>2. C \subseteq 1..k
        BY <1>3
      <3>3. \A i : i \in c..k <=> i \in 1..k /\ c <= i
        BY <1>1, <2>2
      <3> QED BY <3>1, <3>2, <3>3, Zenon
    <2>6. Cardinality(C) = k - c + 1
      <3>1. Cardinality(c..k) = IF c > k THEN 0 ELSE k - c + 1
        BY <1>1, <2>2, FS_Interval
      <3> QED BY <1>1, <2>2, <2>5, <3>1
    <2>7. k - Cardinality(C) = c - 1 /\ c - 1 \in 0..k
      BY <1>1, <2>2, <2>6
    <2>8. \A i \in 1..k : i <= c - 1 <=> u(i) <= n
      BY <1>2, <2>2, <2>3, <2>4
    <2> QED BY <2>7, <2>8 DEF C, k, u
  <1> QED BY <1>4, <1>5

(* As many items as the list is long. *)
LEMMA DistinctItems ==
    ASSUME NEW l \in Seq(Entry), \A i, j \in 1..Len(l) : l[i] = l[j] => i = j
    PROVE  Len(l) = Cardinality(ToSet(l))
  <1> DEFINE n == Len(l)
             D == 1..n
             T == ToSet(l)
  <1>1. n \in Nat /\ DOMAIN l = D
    BY LenProperties
  <1>2. l \in [D -> T]
    <2>1. \A i \in D : l[i] \in T
      BY <1>1 DEF ToSet
    <2>2. l = [i \in D |-> l[i]]
      BY LenProperties
    <2> HIDE DEF D, T
    <2> QED BY <2>1, <2>2
  <1>3. \A t \in T : \E i \in D : l[i] = t
    BY <1>1 DEF ToSet
  <1> HIDE DEF T
  <1>4. l \in Surjection(D, T) /\ l \in Injection(D, T)
    <2>1. l \in Surjection(D, T)
      BY <1>2, <1>3 DEF Surjection
    <2>2. l \in Injection(D, T)
      <3>1. \A i, j \in D : l[i] = l[j] => i = j
        OBVIOUS
      <3> HIDE DEF D
      <3> QED BY <1>2, <3>1 DEF Injection, IsInjective
    <2> QED BY <2>1, <2>2
  <1>5. IsFiniteSet(D) /\ Cardinality(D) = n
    <2>1. 1 \in Int /\ n \in Int
      BY <1>1
    <2> HIDE DEF n
    <2>2. IsFiniteSet(1..n) /\ Cardinality(1..n) = IF 1 > n THEN 0 ELSE n - 1 + 1
      BY <2>1, FS_Interval, ZenonT(20)
    <2> QED BY <1>1, <2>2
  <1> HIDE DEF D
  <1>6. Cardinality(T) = Cardinality(D)
    BY <1>4, <1>5, FS_Surjection
  <1> QED BY <1>5, <1>6 DEF T

-----------------------------------------------------------------------------
(* Asks and bids.                                                          *)

(* What AsksAreBest says of the offers found for the offers S of a pair. *)
BestOf(found, S, n) ==
    /\ \A i \in 1..Len(found) - 1 : ~Cheaper(found[i + 1].price, found[i].price)
    /\ ToSet(found) = {e \in S : Cardinality(Better(S, e)) < n}
    /\ Len(found) = Cardinality(ToSet(found))

LEMMA FoundIsBest ==
    ASSUME NEW l, NEW S, Lists(l, S), NEW n \in Nat
    PROVE  BestOf(SubSeq(l, 1, Len(l) - Cardinality(Cut(l, n))), S, n)
  <1> DEFINE k == Len(l) - Cardinality(Cut(l, n))
             r == SubSeq(l, 1, k)
             u(i) == Cardinality(UpTo(l, i))
             d(i) == Cardinality(Better(S, l[i]))
  <1>1. /\ l \in Seq(Entry) /\ Len(l) \in Nat
        /\ \A i \in 1..Len(l) : l[i] \in S
        /\ \A e \in S : \E i \in 1..Len(l) : l[i] = e
        /\ \A i, j \in 1..Len(l) : i < j => ~Cheaper(l[j].price, l[i].price)
    BY ListFacts
  <1>2. k \in 0..Len(l) /\ \A i \in 1..Len(l) : i <= k <=> u(i) <= n
    BY CutIs
  <1>3. \A i \in 1..Len(l) : u(i) = d(i) + 1 /\ d(i) \in Nat
    BY Levels, FS_CardinalityType DEF LevelAt
  <1> HIDE DEF k, u, d
  <1>4. r \in Seq(Entry) /\ Len(r) = k /\ \A i \in 1..k : r[i] = l[i]
    BY <1>1, <1>2, FirstItems
  <1> HIDE DEF r
  <1>5. \A i \in 1..k : i \in 1..Len(l)
    BY <1>1, <1>2
  <1>6. DOMAIN r = 1..k
    BY <1>4, LenProperties
  <1>7. \A i \in 1..Len(l) : i \in 1..k <=> d(i) < n
    BY <1>1, <1>2, <1>3
  <1>8. ASSUME NEW i \in 1..k - 1
        PROVE  ~Cheaper(r[i + 1].price, r[i].price)
    <2>1. i \in 1..k /\ i + 1 \in 1..k /\ i < i + 1
      BY <1>2
    <2> QED BY <1>1, <1>4, <1>5, <2>1
  <1>9. ToSet(r) = {e \in S : Cardinality(Better(S, e)) < n}
    <2>1. ASSUME NEW e \in ToSet(r)
          PROVE  e \in S /\ Cardinality(Better(S, e)) < n
      <3>1. PICK i \in 1..k : r[i] = e
        BY <1>6 DEF ToSet
      <3>2. e = l[i] /\ i \in 1..Len(l)
        BY <1>4, <1>5, <3>1
      <3>3. d(i) < n
        BY <1>7, <3>2
      <3> QED BY <1>1, <3>2, <3>3 DEF d
    <2>2. ASSUME NEW e \in S, Cardinality(Better(S, e)) < n
          PROVE  e \in ToSet(r)
      <3>1. PICK i \in 1..Len(l) : l[i] = e
        BY <1>1
      <3>2. d(i) < n
        BY <2>2, <3>1 DEF d
      <3>3. i \in 1..k
        BY <1>7, <3>2
      <3> QED BY <1>4, <1>6, <3>1, <3>3 DEF ToSet
    <2> QED BY <2>1, <2>2
  <1>10. Len(r) = Cardinality(ToSet(r))
    <2>1. \A i, j \in 1..Len(l) : l[i] = l[j] => i = j
      BY DEF Lists
    <2>2. \A i, j \in 1..Len(r) : r[i] = r[j] => i = j
      BY <1>4, <1>5, <2>1
    <2> QED BY <1>4, <2>2, DistinctItems
  <1> QED BY <1>4, <1>8, <1>9, <1>10 DEF BestOf, r, k

LEMMA FindOffersIs ==
    ASSUME NEW s, NEW b, NEW n
    PROVE  LET l == List(graph.selling, s, b)
           IN FindOffers(s, b, n) = SubSeq(l, 1, Len(l) - Cardinality(Cut(l, n)))
  BY DEF FindOffers, List, Cut, UpTo, Starts

LEMMA OfPair ==
    ASSUME NEW g, NEW m, Holds(g, m), NEW s, NEW b
    PROVE  {e \in Offers(g.selling) : e.selling = s /\ e.buying = b} = Trading(m, s, b)
  <1>1. IsBook(m) /\ IsIndex(g.selling, m, "selling")
    BY Indexes DEF Holds
  <1>2. Offers(g.selling) = {m[i] : i \in Known(m)}
    BY <1>1, IndexOffers
  <1>3. \A i \in Known(m) : m[i] \in Entry /\ m[i].id = i
    BY <1>1, Offered
  <1>4. \A e \in Entry : e.id \in Ids /\ e # None
    BY GraphAssumption
  <1>5. \A e \in Entry : m[e.id] = e => e.id \in Known(m)
    BY <1>4 DEF Known
  <1> QED BY <1>2, <1>3, <1>5 DEF Trading

LEMMA BookAsks ==
    ASSUME IInv
    PROVE  AsksAreBest
  <1> DEFINE m == OfferMap
  <1>1. Holds(graph, m)
    BY DEF IInv
  <1> HIDE DEF m
  <1>2. ASSUME NEW s \in Assets, NEW b \in Assets, NEW n \in 0..2
        PROVE  BestOf(FindOffers(s, b, n), Trading(m, s, b), n)
    <2>1. Lists(List(graph.selling, s, b), Trading(m, s, b)) /\ n \in Nat
      BY <1>1 DEF Holds
    <2> QED BY <2>1, FoundIsBest, FindOffersIs
  <1>3. ASSUME NEW s, NEW b
        PROVE  {e \in Offers(graph.selling) : e.selling = s /\ e.buying = b} = Trading(m, s, b)
    BY <1>1, OfPair
  <1>4. ASSUME NEW s \in Assets, NEW b \in Assets, NEW n \in 0..2
        PROVE  BestOf(FindOffers(s, b, n),
                      {e \in Offers(graph.selling) : e.selling = s /\ e.buying = b}, n)
    BY <1>2, <1>3
  <1> QED BY <1>4, Zenon DEF AsksAreBest, BestOf, Better, Level

(* Whatever was applied to the book, findOffers returns exactly the offers of the best
   price levels of a pair, each once and cheapest first, prices compared by value. *)
THEOREM BookAsksAreBest == Spec => []AsksAreBest
  <1>1. IInv => AsksAreBest
    BY BookAsks
  <1> QED BY <1>1, BookInvariant, PTL

-----------------------------------------------------------------------------
(* Conversions.                                                            *)

LEMMA Quotient ==
    ASSUME NEW x \in Nat, NEW d \in Nat \ {0}
    PROVE  x \div d \in Nat /\ (x \div d) * d <= x /\ x < (x \div d) * d + d
  OBVIOUS

LEMMA RoundedDown ==
    ASSUME NEW x \in Nat, NEW n \in Nat \ {0}, NEW d \in Nat \ {0},
           MulFractionRoundDown(x, n, d) # Overflow
    PROVE  LET r == MulFractionRoundDown(x, n, d) IN r \in Nat /\ r * d <= x * n /\ x * n < r * d + d
  <1> DEFINE y == x * n
             q == y \div d
  <1>1. y \in Nat
    OBVIOUS
  <1>2. MulFractionRoundDown(x, n, d) = q
    BY DEF MulFractionRoundDown
  <1> HIDE DEF y
  <1>3. q \in Nat /\ q * d <= y /\ y < q * d + d
    BY <1>1, Quotient
  <1> HIDE DEF q
  <1> QED BY <1>2, <1>3 DEF y

LEMMA RoundedUp ==
    ASSUME NEW x \in Nat, NEW n \in Nat \ {0}, NEW d \in Nat \ {0},
           MulFractionRoundUp(x, n, d) # Overflow
    PROVE  LET r == MulFractionRoundUp(x, n, d) IN r \in Nat /\ r * d >= x * n /\ (r - 1) * d < x * n
  <1> DEFINE y == x * n
             z == y + d - 1
             q == z \div d
  <1>1. y \in Nat
    OBVIOUS
  <1>2. MulFractionRoundUp(x, n, d) = q
    BY DEF MulFractionRoundUp
  <1> HIDE DEF y
  <1>3. z \in Nat /\ z = y + d - 1
    BY <1>1
  <1> HIDE DEF z
  <1>4. q \in Nat /\ q * d <= z /\ z < q * d + d
    BY <1>3, Quotient
  <1> HIDE DEF q
  <1>5. (q - 1) * d = q * d - d /\ q * d \in Nat
    BY <1>4
  <1>6. q * d >= y /\ (q - 1) * d < y
    BY <1>1, <1>3, <1>4, <1>5
  <1> QED BY <1>2, <1>4, <1>6 DEF y

(* An offer is emptied but for a remainder that is worth nothing. *)
LEMMA SellingBound ==
    ASSUME NEW a \in Nat, NEW n \in Nat \ {0}, NEW d \in Nat \ {0},
           OfferSellingBound(a, n, d) # Overflow
    PROVE  LET b == OfferSellingBound(a, n, d) IN b \in Nat /\ b <= a /\ (a - b) * n < d
  <1> DEFINE b == OfferSellingBound(a, n, d)
             r == MulFractionRoundDown(a, n, d)
  <1>1. CASE n > d
    <2>1. b = a
      BY <1>1 DEF OfferSellingBound
    <2>2. (a - a) * n = 0
      OBVIOUS
    <2> HIDE DEF b
    <2>3. b \in Nat /\ b <= a /\ (a - b) * n < d
      BY <2>1, <2>2
    <2> QED BY <2>3 DEF b
  <1>2. CASE ~(n > d)
    <2>1. r # Overflow /\ b = MulFractionRoundUp(r, d, n)
      BY <1>2 DEF OfferSellingBound
    <2>2. r \in Nat /\ r * d <= a * n /\ a * n < r * d + d
      BY <2>1, RoundedDown
    <2> HIDE DEF r
    <2>3. b \in Nat /\ b * n >= r * d /\ (b - 1) * n < r * d
      BY <2>1, <2>2, RoundedUp
    <2> HIDE DEF b
    <2>4. r * d \in Nat /\ a * n \in Nat /\ b * n \in Nat /\ (a - b) * n = a * n - b * n
      BY <2>2, <2>3
    <2>5. (a - b) * n < d
      BY <2>2, <2>3, <2>4
    <2>6. (b - 1) * n < a * n /\ (b - 1) * n \in Int
      BY <2>2, <2>3, <2>4
    <2>7. b - 1 < a
      <3>1. SUFFICES ASSUME a <= b - 1 PROVE FALSE
        BY <2>3
      <3>2. a * n <= (b - 1) * n
        BY <2>3, <3>1
      <3> QED BY <2>4, <2>6, <3>2
    <2> QED BY <2>3, <2>5, <2>7 DEF b
  <1> QED BY <1>1, <1>2

LEMMA MinOfTwo ==
    ASSUME NEW x \in Nat, NEW y \in Nat
    PROVE  Min({x, y}) \in {x, y} /\ Min({x, y}) <= x /\ Min({x, y}) <= y
  <1>1. {x, y} \in SUBSET Nat /\ {x, y} # {}
    OBVIOUS
  <1>2. Min({x, y}) \in {x, y} /\ \A z \in {x, y} : Min({x, y}) <= z
    BY <1>1, MinIs
  <1> QED BY <1>2

LEMMA Conversion ==
    ASSUME NEW a \in Nat, NEW needed \in Nat, NEW n \in Nat \ {0}, NEW d \in Nat \ {0},
           NEW c, c = ConvertToBuyingUnits(a, needed, n, d), c # <<>>
    PROVE  /\ c[2] <= a /\ c[2] <= needed
           /\ c[1] * d >= c[2] * n /\ (c[1] - 1) * d < c[2] * n
           /\ c[2] < needed => (a - c[2]) * n < d
  <1> DEFINE bound == OfferSellingBound(a, n, d)
             selling == Min({bound, needed})
             buying == MulFractionRoundUp(selling, n, d)
  <1>1. bound # Overflow /\ buying # Overflow /\ c = <<buying, selling>>
    BY DEF ConvertToBuyingUnits
  <1>2. bound \in Nat /\ bound <= a /\ (a - bound) * n < d
    BY <1>1, SellingBound
  <1> HIDE DEF bound
  <1>3. selling \in {bound, needed} /\ selling <= bound /\ selling <= needed
    BY <1>2, MinOfTwo
  <1> HIDE DEF selling
  <1>4. selling \in Nat
    BY <1>2, <1>3
  <1>5. buying \in Nat /\ buying * d >= selling * n /\ (buying - 1) * d < selling * n
    BY <1>1, <1>4, RoundedUp
  <1> HIDE DEF buying
  <1>6. c[1] = buying /\ c[2] = selling
    BY <1>1
  <1>7. selling <= a
    BY <1>2, <1>3, <1>4
  <1>8. ASSUME selling < needed
        PROVE  (a - selling) * n < d
    <2>1. selling = bound
      BY <1>3, <1>4, <1>8
    <2> QED BY <1>2, <2>1
  <1> QED BY <1>3, <1>5, <1>6, <1>7, <1>8

LEMMA BookConversions ==
    ASSUME IInv
    PROVE  ConversionFair
  <1>1. SUFFICES ASSUME NEW o \in Offers(graph.selling), NEW needed \in 1..MaxInt, NEW c,
                        c = ConvertToBuyingUnits(o.amount, needed, o.price.n, o.price.d), c # <<>>
                 PROVE  /\ c[2] <= o.amount /\ c[2] <= needed
                        /\ c[1] * o.price.d >= c[2] * o.price.n
                        /\ (c[1] - 1) * o.price.d < c[2] * o.price.n
                        /\ c[2] < needed => (o.amount - c[2]) * o.price.n < o.price.d
    BY DEF ConversionFair
  <1>2. o \in Entry
    <2>1. Holds(graph, OfferMap)
      BY DEF IInv
    <2>2. Offers(graph.selling) = {OfferMap[i] : i \in Known(OfferMap)}
      BY <2>1, Indexes, IndexOffers
    <2> QED BY <2>1, <2>2, Offered DEF Holds
  <1>3. o.amount \in Nat /\ o.price.n \in Nat \ {0} /\ o.price.d \in Nat \ {0} /\ needed \in Nat
    BY <1>2, GraphAssumption
  <1> QED BY <1>1, <1>3, Conversion

(* For any book and amounts of any width: the owner of an offer is never paid under its
   price and the payer never more than a unit above it, no more is taken than the
   offer has or is needed, and what is left of an emptied offer is worth nothing. *)
THEOREM ConversionIsFair == Spec => []ConversionFair
  <1>1. IInv => ConversionFair
    BY BookConversions
  <1> QED BY <1>1, BookInvariant, PTL
=============================================================================
