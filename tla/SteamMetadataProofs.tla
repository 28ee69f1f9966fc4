------------------------- MODULE SteamMetadataProofs -------------------------
(***************************************************************************)
(* Theorems about SteamMetadata for any commands, games, lists, times and  *)
(* number of slots: it implements SteamPopular, so that all that is proved *)
(* there holds of it; no slot of the semaphore is lost; the chart shown is *)
(* well formed, its names and dates are what the properties say, and no    *)
(* refresh waits for a request that is not made.                           *)
(***************************************************************************)
EXTENDS SteamMetadata, SteamPopularProofs, SequenceTheorems,
        WellFoundedInduction,
        FiniteSetTheorems

USE DurationAssumption, NoneAssumption, LimitAssumption, NobodyAssumption

-----------------------------------------------------------------------------
(* Each step of the refresh in full is a step of SteamPopular or changes   *)
(* nothing it knows of.                                                    *)
LEMMA StepImplements == [MNext]_allvars => [Next]_vars
  <1> SUFFICES ASSUME [MNext]_allvars PROVE [Next]_vars
    OBVIOUS
  <1>1. CASE Tick /\ UNCHANGED mvars
    BY <1>1 DEF Next
  <1>2. ASSUME NEW c \in Client, (Ask(c) \/ Resume(c)) /\ UNCHANGED mvars
        PROVE  Next
    BY <1>2 DEF Next
  <1>3. ASSUME NEW c \in Client, MRefresh(c)
        PROVE  Next
    BY <1>3 DEF MRefresh, ChartParsed, ChartMissing, GamesPublished, Next, Refresh
  <1>4. ASSUME NEW i \in DOMAIN asking, JobEnds(i)
        PROVE  [Next]_vars
    BY <1>4 DEF JobEnds, JobOk, JobMisses, JobBreaks, GatherBreaks, Next, Refresh
  <1>5. CASE UNCHANGED allvars
    BY <1>5 DEF allvars
  <1>6. QED
    BY <1>1, <1>2, <1>3, <1>4, <1>5 DEF MNext

(* The service with its metadata does what SteamPopular says of the chart. *)
THEOREM ImplementsChart == MSpec => Spec
  <1>1. MInit => Init
    BY DEF MInit
  <1>2. QED
    BY <1>1, StepImplements, PTL DEF MSpec, Spec

(* Hence a fresh answer is fresh however long the metadata took and        *)
(* whatever of it failed.                                                  *)
THEOREM FreshWithMetadata == MSpec => []FreshMeansFresh
  BY ImplementsChart, FreshAnswers, PTL

-----------------------------------------------------------------------------
(* The ranks go up, no game comes twice, and the limit is kept.            *)
Ordered(chart) ==
  /\ DOMAIN chart \subseteq 1..ResultLimit
  /\ \A i, j \in DOMAIN chart :
       i < j => chart[i].rank < chart[j].rank /\ chart[i].app # chart[j].app

(* Two positions that are kept do not clash: the later one was dropped.    *)
LEMMA KeptDoNotClash ==
  ASSUME NEW ranks \in Seq(Entry \cup {Junk}), NEW K \in FirstMet(ranks),
         NEW i \in K, NEW j \in K, i # j
  PROVE  /\ ranks[i] \in Entry
         /\ ranks[i].rank # ranks[j].rank /\ ranks[i].app # ranks[j].app
  <1>1. /\ DOMAIN ranks \subseteq Nat
        /\ \A k \in DOMAIN ranks : ranks[k] \in Entry \cup {Junk}
    BY LenProperties, ElementOfSeq
  <1>2. /\ K \subseteq Valid(ranks)
        /\ \A k, l \in K : l < k => ~Clash(ranks[l], ranks[k])
    BY DEF FirstMet
  <1>3. \A k \in K : k \in Nat /\ ranks[k] \in Entry
    BY <1>1, <1>2 DEF Valid
  <1>4. i < j \/ j < i
    BY <1>3
  <1>5. QED
    BY <1>2, <1>3, <1>4 DEF Clash

(* A chart is a list of entries, ordered by rank, without repetition.      *)
LEMMA ChartFacts ==
  ASSUME NEW entries \in Charts
  PROVE  entries \in Seq(Entry) /\ entries # << >> /\ Ordered(entries)
  <1>1. PICK ranks \in Payload : entries \in ParseChart(ranks)
    BY DEF Charts
  <1>2. ranks \in Seq(Entry \cup {Junk})
    BY PayloadAssumption
  <1> DEFINE chart(p) == [i \in (DOMAIN p) \cap (1..ResultLimit) |-> ranks[p[i]]]
  <1>3. PICK p \in UNION {ByRank(K, ranks) : K \in FirstMet(ranks)} :
          entries = chart(p)
    BY <1>1, Zenon DEF ParseChart
  <1>4. PICK K \in FirstMet(ranks) : p \in ByRank(K, ranks)
    BY <1>3
  <1>5. Cardinality(K) \in Nat
    <2>1. DOMAIN ranks = 1..Len(ranks) /\ Len(ranks) \in Nat
      BY <1>2, LenProperties
    <2>2. IsFiniteSet(DOMAIN ranks)
      BY <2>1, FS_Interval
    <2>3. K \subseteq DOMAIN ranks
      BY DEF FirstMet, Valid
    <2>4. QED
      BY <2>2, <2>3, FS_Subset, FS_CardinalityType
  <1>6. /\ p \in [1..Cardinality(K) -> K]
        /\ \A i, j \in 1..Cardinality(K) :
             i < j => p[i] # p[j] /\ ranks[p[i]].rank <= ranks[p[j]].rank
    BY <1>4 DEF ByRank
  <1>7. PICK n \in Nat : (DOMAIN p) \cap (1..ResultLimit) = 1..n /\ n <= Cardinality(K)
    <2>1. CASE Cardinality(K) <= ResultLimit
      <3>1. (DOMAIN p) \cap (1..ResultLimit) = 1..Cardinality(K)
        BY <1>5, <1>6, <2>1
      <3>2. QED
        BY <1>5, <3>1
    <2>2. CASE ResultLimit < Cardinality(K)
      <3>1. (DOMAIN p) \cap (1..ResultLimit) = 1..ResultLimit
        BY <1>5, <1>6, <2>2
      <3>2. QED
        BY <1>5, <2>2, <3>1
    <2>3. QED
      BY <1>5, <2>1, <2>2
  <1>8. \A i \in K : ranks[i] \in Entry
    <2>1. \A i \in DOMAIN ranks : ranks[i] \in Entry \cup {Junk}
      BY <1>2, LenProperties, ElementOfSeq
    <2>2. QED
      BY <2>1 DEF FirstMet, Valid
  <1>9. entries \in [1..n -> Entry] /\ \A i \in 1..n : entries[i] = ranks[p[i]]
    BY <1>3, <1>5, <1>6, <1>7, <1>8
  <1>10. entries \in Seq(Entry)
    BY <1>9, SeqDef
  <1>11. ASSUME NEW i \in 1..n, NEW j \in 1..n, i < j
         PROVE  entries[i].rank < entries[j].rank /\ entries[i].app # entries[j].app
    <2>1. i \in 1..Cardinality(K) /\ j \in 1..Cardinality(K)
      BY <1>5, <1>7
    <2>2. p[i] \in K /\ p[j] \in K /\ p[i] # p[j]
          /\ ranks[p[i]].rank <= ranks[p[j]].rank
      BY <1>6, <1>11, <2>1
    <2>3. /\ ranks[p[i]] \in Entry /\ ranks[p[j]] \in Entry
          /\ ranks[p[i]].rank # ranks[p[j]].rank
          /\ ranks[p[i]].app # ranks[p[j]].app
      BY <1>2, <1>8, <2>2, KeptDoNotClash
    <2>4. QED
      BY <1>9, <2>2, <2>3 DEF Entry
  <1>12. DOMAIN entries \subseteq 1..ResultLimit
    BY <1>7, <1>9
  <1>13. QED
    BY <1>9, <1>10, <1>11, <1>12 DEF Charts, Ordered

-----------------------------------------------------------------------------
-----------------------------------------------------------------------------
(* The definitions by a property have exactly one value: parse_chart_payload *)
(* makes one chart of a list, and the requests are made in one order.  An  *)
(* induction over data goes by the least position or number where it fails. *)
LEMMA Least ==
  ASSUME NEW S \in SUBSET Nat, S # {}
  PROVE  \E x \in S : \A y \in S : x <= y
  <1> DEFINE R == OpToRel(<, Nat)
  <1>1. IsWellFoundedOn(R, Nat)
    BY NatLessThanWellFounded, Zenon
  <1>2. PICK x \in S : \A y \in S : ~(<<y, x>> \in R)
    <2> HIDE DEF R
    <2> QED
      BY <1>1, WFMin, Zenon
  <1>3. \A y \in S : ~(y < x)
    BY <1>2 DEF OpToRel
  <1>4. QED
    BY <1>3

(* p lists S by growing values of f.                                       *)
Lists(p, S, f) ==
  /\ p \in [1..Cardinality(S) -> S]
  /\ \A i, j \in 1..Cardinality(S) : i < j => f[p[i]] < f[p[j]]

(* The element of the least value, put in front of a list of the others.   *)
LEMMA ListOneMore ==
  ASSUME NEW S, IsFiniteSet(S), NEW f \in [S -> Nat], NEW m \in S,
         \A a \in S : a # m => f[m] < f[a],
         NEW q, Lists(q, S \ {m}, f)
  PROVE  \E p : Lists(p, S, f)
  <1>1. PICK n \in Nat : Cardinality(S \ {m}) = n /\ Cardinality(S) = n + 1
    <2>1. /\ Cardinality(S) \in Nat
          /\ Cardinality(S \ {m}) \in Nat
          /\ Cardinality(S \ {m}) = Cardinality(S) - 1
      BY FS_CardinalityType, FS_RemoveElement
    <2>2. QED
      BY <2>1
  <1>2. PICK p : p = [i \in 1..(n + 1) |-> IF i = 1 THEN m ELSE q[i - 1]]
    OBVIOUS
  <1>3. /\ \A i \in 1..n : q[i] \in S /\ q[i] # m
        /\ \A i, j \in 1..n : i < j => f[q[i]] < f[q[j]]
    BY <1>1 DEF Lists
  <1>4. /\ p[1] = m
        /\ \A i \in 1..(n + 1) : i # 1 => i - 1 \in 1..n /\ p[i] = q[i - 1]
    BY <1>2
  <1>5. p \in [1..(n + 1) -> S]
    BY <1>2, <1>3, <1>4
  <1>6. ASSUME NEW i \in 1..(n + 1), NEW j \in 1..(n + 1), i < j
        PROVE  f[p[i]] < f[p[j]]
    <2>1. j # 1 /\ j - 1 \in 1..n /\ p[j] = q[j - 1]
      BY <1>4, <1>6
    <2>2. CASE i = 1
      BY <1>3, <1>4, <2>1, <2>2
    <2>3. CASE i # 1
      <3>1. i - 1 \in 1..n /\ p[i] = q[i - 1] /\ i - 1 < j - 1
        BY <1>4, <1>6, <2>3
      <3>2. QED
        BY <1>3, <2>1, <3>1
    <2>4. QED
      BY <2>2, <2>3
  <1>7. QED
    BY <1>1, <1>5, <1>6 DEF Lists

LEMMA ListExists ==
  ASSUME NEW S, IsFiniteSet(S), NEW f \in [S -> Nat],
         \A a, b \in S : f[a] = f[b] => a = b
  PROVE  \E p : Lists(p, S, f)
  <1> DEFINE Fails(T) == \A p : ~Lists(p, T, f)
             Bad == {n \in Nat : \E T \in SUBSET S : Cardinality(T) = n /\ Fails(T)}
  <1>1. ASSUME Bad # {} PROVE FALSE
    <2>1. PICK n \in Bad : \A k \in Bad : n <= k
      <3>1. Bad \in SUBSET Nat
        OBVIOUS
      <3> HIDE DEF Bad
      <3>2. QED
        BY <1>1, <3>1, Least
    <2>2. PICK T \in SUBSET S : Cardinality(T) = n /\ Fails(T)
      OBVIOUS
    <2>3. IsFiniteSet(T) /\ n \in Nat
      BY FS_Subset
    <2>4. CASE T = {}
      <3>1. n = 0 /\ 1..n = {}
        BY <2>2, <2>4, FS_EmptySet
      <3>2. Lists([i \in 1..n |-> i], T, f)
        BY <2>2, <3>1 DEF Lists
      <3>3. QED
        BY <2>2, <3>2
    <2>5. CASE T # {}
      <3>1. PICK m \in T : \A a \in T : a # m => f[m] < f[a]
        <4> DEFINE values == {f[a] : a \in T}
        <4>1. values \in SUBSET Nat /\ values # {}
          BY <2>5
        <4>2. PICK x \in values : \A y \in values : x <= y
          <5> HIDE DEF values
          <5>1. QED
            BY <4>1, Least
        <4>3. PICK m \in T : f[m] = x
          BY <4>2
        <4>4. \A a \in T : f[a] \in Nat /\ f[m] <= f[a]
          BY <4>2, <4>3
        <4>5. \A a \in T : a # m => f[a] # f[m]
          OBVIOUS
        <4>6. QED
          BY <4>4, <4>5
      <3>2. Cardinality(T \ {m}) = n - 1 /\ Cardinality(T \ {m}) \in Nat
        BY <2>2, <2>3, FS_RemoveElement, FS_CardinalityType
      <3>3. n - 1 \notin Bad
        BY <2>1, <2>3
      <3>4. ~Fails(T \ {m})
        BY <3>2, <3>3
      <3>5. PICK q : Lists(q, T \ {m}, f)
        BY <3>4
      <3>6. PICK h : h = [a \in T |-> f[a]]
        OBVIOUS
      <3>7. h \in [T -> Nat] /\ \A a \in T : h[a] = f[a]
        BY <3>6
      <3>8. Lists(q, T \ {m}, h)
        BY <3>2, <3>5, <3>7 DEF Lists
      <3>9. \E p : Lists(p, T, h)
        BY <2>3, <3>1, <3>7, <3>8, ListOneMore
      <3>10. \E p : Lists(p, T, f)
        BY <2>2, <2>3, <3>7, <3>9 DEF Lists
      <3>11. QED
        BY <2>2, <3>10
    <2>6. QED
      BY <2>4, <2>5
  <1>2. Cardinality(S) \in Nat
    BY FS_CardinalityType
  <1>3. Cardinality(S) \notin Bad
    BY <1>1
  <1>4. QED
    BY <1>2, <1>3

(* A list has all elements.                                                *)
LEMMA ListHasAll ==
  ASSUME NEW S, IsFiniteSet(S), NEW f \in [S -> Nat], NEW p, Lists(p, S, f),
         NEW a \in S
  PROVE  \E i \in 1..Cardinality(S) : p[i] = a
  <1>1. PICK n \in Nat : Cardinality(S) = n
    BY FS_CardinalityType
  <1>2. /\ p \in [1..n -> S]
        /\ \A i, j \in 1..n : i < j => f[p[i]] < f[p[j]]
    BY <1>1 DEF Lists
  <1>3. \A i, j \in 1..n : p[i] = p[j] => i = j
    BY <1>2
  <1>4. p \in Injection(1..n, S)
    BY <1>2, <1>3 DEF Injection, IsInjective
  <1>5. IsFiniteSet(1..n) /\ Cardinality(1..n) = n
    BY FS_Interval
  <1>6. p \in Surjection(1..n, S)
    BY <1>1, <1>4, <1>5, FS_Injection
  <1>7. QED
    BY <1>1, <1>6 DEF Surjection

(* Two lists do not differ: not at the first position where they would.    *)
LEMMA ListsAgree ==
  ASSUME NEW S, IsFiniteSet(S), NEW f \in [S -> Nat],
         NEW p, Lists(p, S, f), NEW q, Lists(q, S, f),
         NEW i \in 1..Cardinality(S),
         \A j \in 1..Cardinality(S) : j < i => p[j] = q[j]
  PROVE  ~(f[p[i]] < f[q[i]])
  <1>1. PICK n \in Nat : Cardinality(S) = n
    BY FS_CardinalityType
  <1>2. /\ p \in [1..n -> S] /\ q \in [1..n -> S]
        /\ \A k, j \in 1..n : k < j => f[p[k]] < f[p[j]] /\ f[q[k]] < f[q[j]]
    BY <1>1 DEF Lists
  <1>3. SUFFICES ASSUME f[p[i]] < f[q[i]] PROVE FALSE
    OBVIOUS
  <1>4. i \in 1..n /\ p[i] \in S
    BY <1>1, <1>2
  <1>5. PICK k \in 1..n : q[k] = p[i]
    BY <1>1, <1>4, ListHasAll
  <1>6. CASE k < i
    <2>1. p[k] = p[i]
      BY <1>1, <1>4, <1>5, <1>6
    <2>2. f[p[k]] < f[p[i]] /\ f[p[i]] \in Nat
      BY <1>2, <1>4, <1>6
    <2>3. QED
      BY <2>1, <2>2
  <1>7. CASE k = i
    BY <1>2, <1>3, <1>4, <1>5, <1>7
  <1>8. CASE i < k
    <2>1. f[q[i]] < f[q[k]] /\ f[q[i]] \in Nat /\ f[q[k]] \in Nat
      BY <1>2, <1>4, <1>8
    <2>2. QED
      BY <1>3, <1>5, <2>1
  <1>9. QED
    BY <1>4, <1>6, <1>7, <1>8

LEMMA OneList ==
  ASSUME NEW S, IsFiniteSet(S), NEW f \in [S -> Nat],
         \A a, b \in S : f[a] = f[b] => a = b
  PROVE  \E p : Lists(p, S, f) /\ \A q : Lists(q, S, f) => q = p
  <1>1. PICK p : Lists(p, S, f)
    BY ListExists
  <1>2. PICK n \in Nat : Cardinality(S) = n
    BY FS_CardinalityType
  <1>3. ASSUME NEW q, Lists(q, S, f), q # p PROVE FALSE
    <2>1. p \in [1..n -> S] /\ q \in [1..n -> S]
      BY <1>1, <1>2, <1>3 DEF Lists
    <2> DEFINE D == {i \in 1..n : p[i] # q[i]}
    <2>2. D \in SUBSET Nat /\ D # {}
      <3>1. \E i \in 1..n : p[i] # q[i]
        <4>1. SUFFICES ASSUME \A i \in 1..n : p[i] = q[i] PROVE FALSE
          OBVIOUS
        <4>2. p = [i \in 1..n |-> p[i]] /\ q = [i \in 1..n |-> q[i]]
          BY <2>1
        <4>3. [i \in 1..n |-> p[i]] = [i \in 1..n |-> q[i]]
          BY <4>1, Zenon
        <4>4. QED
          BY <1>3, <4>2, <4>3
      <3>2. QED
        BY <3>1
    <2>3. PICK i \in D : \A j \in D : i <= j
      <3> HIDE DEF D
      <3>1. QED
        BY <2>2, Least
    <2>4. \A j \in 1..n : j < i => p[j] = q[j]
      BY <2>3
    <2>5. i \in 1..n /\ p[i] # q[i]
      OBVIOUS
    <2>6. ~(f[p[i]] < f[q[i]]) /\ ~(f[q[i]] < f[p[i]])
      BY <1>1, <1>2, <1>3, <2>4, <2>5, ListsAgree
    <2>7. p[i] \in S /\ q[i] \in S /\ f[p[i]] \in Nat /\ f[q[i]] \in Nat
      BY <2>1, <2>5
    <2>8. f[p[i]] # f[q[i]]
      BY <2>5, <2>7
    <2>9. QED
      BY <2>6, <2>7, <2>8
  <1>4. QED
    BY <1>1, <1>3

LEMMA OneOrder ==
  ASSUME NEW S \in SUBSET Nat, IsFiniteSet(S)
  PROVE  \E p : InOrder(S) = {p}
  <1>1. PICK f : f = [a \in S |-> a]
    OBVIOUS
  <1>2. f \in [S -> Nat] /\ \A a \in S : f[a] = a
    BY <1>1
  <1>3. PICK p : Lists(p, S, f) /\ \A q : Lists(q, S, f) => q = p
    <2>1. \A a, b \in S : f[a] = f[b] => a = b
      BY <1>2
    <2>2. QED
      BY <1>2, <2>1, OneList, Zenon
  <1>4. \A q : q \in InOrder(S) <=> Lists(q, S, f)
    BY <1>2 DEF InOrder, Lists
  <1>5. p \in InOrder(S) /\ \A q \in InOrder(S) : q = p
    BY <1>3, <1>4, Zenon
  <1>6. QED
    BY <1>5

(* Each valid item is kept or not according to those kept before it.       *)
LEMMA OneFirstMet ==
  ASSUME NEW ranks \in Seq(Entry \cup {Junk})
  PROVE  \E K : FirstMet(ranks) = {K}
  <1>1. PICK n \in Nat : DOMAIN ranks = 1..n
    BY LenProperties
  <1> DEFINE V == Valid(ranks)
             Kept(i, K) == \A j \in K : j < i => ~Clash(ranks[j], ranks[i])
             Right(K, k) ==
               K \in SUBSET (V \cap (1..k))
               /\ \A i \in V \cap (1..k) : i \in K <=> Kept(i, K)
  <1>2. V \subseteq 1..n
    BY <1>1 DEF Valid
  <1> HIDE DEF V
  <1>3. \E K : Right(K, n)
    <2> DEFINE Bad == {k \in 0..n : ~\E K : Right(K, k)}
    <2>1. SUFFICES ASSUME Bad # {} PROVE FALSE
      <3>1. n \in 0..n
        OBVIOUS
      <3>2. n \notin Bad => \E K : Right(K, n)
        BY <3>1, Zenon
      <3>3. QED
        BY <3>2
    <2>2. PICK k \in Bad : \A l \in Bad : k <= l
      <3>1. Bad \in SUBSET Nat
        OBVIOUS
      <3> HIDE DEF Bad
      <3>2. QED
        BY <2>1, <3>1, Least
    <2>3. k \in 0..n /\ ~\E K : Right(K, k)
      OBVIOUS
    <2>4. CASE k = 0
      <3>1. 1..k = {}
        BY <2>4
      <3>2. Right({}, k)
        BY <3>1
      <3>3. QED
        BY <2>3, <3>2
    <2>5. CASE k # 0
      <3>1. k - 1 \in 0..n /\ k - 1 \notin Bad
        BY <2>2, <2>3, <2>5, SMTT(20)
      <3>2. PICK K : Right(K, k - 1)
        BY <3>1
      <3>3. /\ \A i \in 1..k : i = k \/ i \in 1..(k - 1)
            /\ \A i \in 1..(k - 1) : i \in 1..k /\ i # k /\ i < k
            /\ k \in 1..k
        BY <2>3, <2>5
      <3>4. K \subseteq V \cap (1..(k - 1)) /\ K \subseteq 1..k /\ k \notin K
        BY <3>2, <3>3
      <3>5. CASE k \in V /\ Kept(k, K)
        <4> DEFINE M == K \cup {k}
        <4>1. \A i \in 1..(k - 1) : Kept(i, M) <=> Kept(i, K)
          <5>1. \A i \in 1..(k - 1) : ~(k < i)
            BY <2>3
          <5>2. QED
            BY <5>1
        <4>2. Kept(k, M)
          <5>1. ~(k < k)
            BY <2>3
          <5>2. QED
            BY <3>5, <5>1
        <4>3. Right(M, k)
          BY <3>2, <3>3, <3>4, <3>5, <4>1, <4>2
        <4>4. QED
          BY <2>3, <4>3
      <3>6. CASE ~(k \in V /\ Kept(k, K))
        <4>1. Right(K, k)
          BY <3>2, <3>3, <3>4, <3>6
        <4>2. QED
          BY <2>3, <4>1
      <3>7. QED
        BY <3>5, <3>6
    <2>6. QED
      BY <2>4, <2>5
  <1>4. PICK K : Right(K, n)
    BY <1>3
  <1>5. V \cap (1..n) = V
    BY <1>2
  <1>6. K \in FirstMet(ranks)
    BY <1>4, <1>5 DEF FirstMet, V
  <1>7. ASSUME NEW M \in FirstMet(ranks), M # K PROVE FALSE
    <2>1. /\ M \subseteq V /\ K \subseteq V
          /\ \A i \in V : (i \in M <=> Kept(i, M)) /\ (i \in K <=> Kept(i, K))
      BY <1>4, <1>5 DEF FirstMet, V
    <2> DEFINE D == {i \in V : ~(i \in M <=> i \in K)}
    <2>2. D \in SUBSET Nat /\ D # {}
      <3>1. D \subseteq V /\ V \subseteq Nat
        BY <1>2
      <3>2. \E i \in V : ~(i \in M <=> i \in K)
        <4>1. CASE \E i \in M : i \notin K
          BY <2>1, <4>1
        <4>2. CASE \E i \in K : i \notin M
          BY <2>1, <4>2
        <4>3. QED
          BY <1>7, <4>1, <4>2
      <3>3. QED
        BY <3>1, <3>2
    <2>3. PICK i \in D : \A j \in D : i <= j
      <3> HIDE DEF D
      <3>1. QED
        BY <2>2, Least
    <2>4. i \in V /\ i \in Nat /\ ~(i \in M <=> i \in K)
      BY <2>2
    <2>5. \A j \in V : j < i => (j \in M <=> j \in K)
      <3>1. \A j \in V : j < i => ~(i <= j)
        BY <1>2, <2>4
      <3>2. QED
        BY <2>3, <3>1
    <2>6. Kept(i, M) <=> Kept(i, K)
      BY <2>1, <2>5
    <2>7. QED
      BY <2>1, <2>4, <2>6
  <1>8. QED
    BY <1>6, <1>7

(* parse_chart_payload makes one chart, of any list of any length.         *)
THEOREM OneChart ==
  \A ranks \in Seq(Entry \cup {Junk}) : \E chart : ParseChart(ranks) = {chart}
  <1> SUFFICES ASSUME NEW ranks \in Seq(Entry \cup {Junk})
               PROVE  \E chart : ParseChart(ranks) = {chart}
    OBVIOUS
  <1>1. PICK K : FirstMet(ranks) = {K}
    BY OneFirstMet
  <1>2. IsFiniteSet(K) /\ K \subseteq DOMAIN ranks
    <2>1. DOMAIN ranks = 1..Len(ranks) /\ Len(ranks) \in Nat
      BY LenProperties
    <2>2. K \subseteq DOMAIN ranks
      BY <1>1 DEF FirstMet, Valid
    <2>3. IsFiniteSet(1..Len(ranks))
      BY <2>1, FS_Interval
    <2>4. K \in SUBSET (1..Len(ranks))
      BY <2>1, <2>2
    <2>5. IsFiniteSet(K)
      BY <2>3, <2>4, FS_Subset
    <2>6. QED
      BY <2>2, <2>5
  <1>3. \A i \in K : ranks[i] \in Entry
    BY <1>1, <1>2, ElementOfSeq, LenProperties DEF FirstMet, Valid
  <1>4. PICK f : f = [i \in K |-> ranks[i].rank]
    OBVIOUS
  <1>5. f \in [K -> Nat] /\ \A i \in K : f[i] = ranks[i].rank
    BY <1>3, <1>4 DEF Entry
  <1>6. \A i, j \in K : f[i] = f[j] => i = j
    <2>1. SUFFICES ASSUME NEW i \in K, NEW j \in K, i # j PROVE f[i] # f[j]
      OBVIOUS
    <2>2. K \in FirstMet(ranks)
      BY <1>1
    <2>3. ranks[i].rank # ranks[j].rank
      BY <2>1, <2>2, KeptDoNotClash
    <2>4. QED
      BY <1>5, <2>1, <2>3
  <1>7. PICK p : Lists(p, K, f) /\ \A q : Lists(q, K, f) => q = p
    <2>1. IsFiniteSet(K) /\ f \in [K -> Nat]
      BY <1>2, <1>5
    <2>2. QED
      BY <1>6, <2>1, OneList, Zenon
  <1>8. \A q : q \in ByRank(K, ranks) <=> Lists(q, K, f)
    <2>1. ASSUME NEW q \in [1..Cardinality(K) -> K],
                 NEW i \in 1..Cardinality(K), NEW j \in 1..Cardinality(K)
          PROVE  q[i] # q[j] /\ ranks[q[i]].rank <= ranks[q[j]].rank
                   <=> f[q[i]] < f[q[j]]
      <3>1. /\ q[i] \in K /\ q[j] \in K
            /\ f[q[i]] \in Nat /\ f[q[j]] \in Nat
            /\ f[q[i]] = ranks[q[i]].rank /\ f[q[j]] = ranks[q[j]].rank
        BY <1>5
      <3>2. f[q[i]] = f[q[j]] => q[i] = q[j]
        BY <1>6, <3>1
      <3>3. QED
        BY <3>1, <3>2
    <2>2. QED
      BY <2>1 DEF ByRank, Lists
  <1>9. ByRank(K, ranks) = {p}
    <2>1. p \in ByRank(K, ranks) /\ \A q \in ByRank(K, ranks) : q = p
      BY <1>7, <1>8, Zenon
    <2>2. QED
      BY <2>1
  <1>10. UNION {ByRank(M, ranks) : M \in FirstMet(ranks)} = {p}
    BY <1>1, <1>9
  <1> DEFINE chart(o) == [i \in (DOMAIN o) \cap (1..ResultLimit) |-> ranks[o[i]]]
  <1>11. ParseChart(ranks) = {chart(o) : o \in {p}}
    BY <1>10, Zenon DEF ParseChart
  <1> HIDE DEF chart
  <1>12. {chart(o) : o \in {p}} = {chart(p)}
    OBVIOUS
  <1>13. QED
    BY <1>11, <1>12

-----------------------------------------------------------------------------
(* Taking one element out of a sequence.                                   *)
LEMMA RemoveAtFacts ==
  ASSUME NEW T, NEW s \in Seq(T), NEW i \in DOMAIN s
  PROVE  /\ RemoveAt(s, i) \in Seq(T)
         /\ Len(RemoveAt(s, i)) = Len(s) - 1
         /\ \A k \in 1..(Len(s) - 1) :
              RemoveAt(s, i)[k] = IF k < i THEN s[k] ELSE s[k + 1]
  <1>1. Len(s) \in Nat /\ i \in 1..Len(s)
    BY LenProperties
  <1>2. \A j \in 1..Len(s) : s[j] \in T
    BY ElementOfSeq
  <1> DEFINE before == SubSeq(s, 1, i - 1)
             after == SubSeq(s, i + 1, Len(s))
  <1>3. /\ before \in Seq(T) /\ Len(before) = i - 1
        /\ \A k \in 1..(i - 1) : before[k] = s[k]
    BY <1>1, <1>2, SubSeqProperties
  <1>4. /\ after \in Seq(T) /\ Len(after) = Len(s) - i
        /\ \A k \in 1..(Len(s) - i) : after[k] = s[i + k]
    BY <1>1, <1>2, SubSeqProperties
  <1>5. RemoveAt(s, i) = before \o after
    BY DEF RemoveAt
  <1> HIDE DEF before, after
  <1>6. /\ before \o after \in Seq(T)
        /\ Len(before \o after) = Len(s) - 1
        /\ \A k \in 1..(Len(s) - 1) : (before \o after)[k] =
             IF k <= i - 1 THEN before[k] ELSE after[k - (i - 1)]
    <2>1. /\ before \o after \in Seq(T)
          /\ Len(before \o after) = Len(before) + Len(after)
          /\ \A k \in 1..(Len(before) + Len(after)) : (before \o after)[k] =
               IF k <= Len(before) THEN before[k] ELSE after[k - Len(before)]
      BY <1>3, <1>4, ConcatProperties
    <2>2. Len(before) = i - 1 /\ Len(before) + Len(after) = Len(s) - 1
      BY <1>1, <1>3, <1>4
    <2>3. QED
      BY <2>1, <2>2
  <1>7. ASSUME NEW k \in 1..(Len(s) - 1)
        PROVE  (before \o after)[k] = IF k < i THEN s[k] ELSE s[k + 1]
    <2>1. CASE k < i
      <3>1. k \in 1..(i - 1) /\ k <= i - 1
        BY <1>1, <2>1
      <3>2. QED
        BY <1>3, <1>6, <2>1, <3>1
    <2>2. CASE ~(k < i)
      <3>1. k - (i - 1) \in 1..(Len(s) - i) /\ i + (k - (i - 1)) = k + 1
        BY <1>1, <2>2
      <3>2. ~(k <= i - 1)
        BY <1>1, <2>2
      <3>3. (before \o after)[k] = after[k - (i - 1)]
        BY <1>6, <3>2
      <3>4. after[k - (i - 1)] = s[k + 1]
        BY <1>4, <3>1
      <3>5. QED
        BY <2>2, <3>3, <3>4
    <2>3. QED
      BY <2>1, <2>2
  <1>8. QED
    BY <1>5, <1>6, <1>7

(* A released slot goes to the first that waits, if there is one.          *)
LEMMA HandFacts ==
  ASSUME NEW rest \in Seq(JobType), NEW waiting \in Seq(JobType),
         Hand(rest, waiting)
  PROVE  /\ asking' \in Seq(JobType) /\ queue' \in Seq(JobType)
         /\ waiting = << >> => Len(asking') = Len(rest) /\ queue' = << >>
         /\ waiting # << >> => Len(asking') = Len(rest) + 1
  <1>1. CASE waiting = << >>
    BY <1>1 DEF Hand
  <1>2. CASE waiting # << >>
    BY <1>2, HeadTailProperties, AppendProperties DEF Hand
  <1>3. QED
    BY <1>1, <1>2

(* Orphans keep their place.                                               *)
LEMMA OrphanedFacts ==
  ASSUME NEW jobs \in Seq(JobType), NEW c
  PROVE  /\ Orphaned(jobs, c) \in Seq(JobType)
         /\ Len(Orphaned(jobs, c)) = Len(jobs)
         /\ Orphaned(jobs, c) = << >> <=> jobs = << >>
  <1>1. Len(jobs) \in Nat /\ DOMAIN jobs = 1..Len(jobs)
    BY LenProperties
  <1>2. \A i \in 1..Len(jobs) : jobs[i] \in JobType
    BY ElementOfSeq
  <1>3. \A j \in JobType : [j EXCEPT !.for = None] \in JobType
    BY DEF JobType
  <1>4. Orphaned(jobs, c) \in [1..Len(jobs) -> JobType]
    BY <1>1, <1>2, <1>3 DEF Orphaned
  <1>5. Orphaned(jobs, c) \in Seq(JobType)
    BY <1>1, <1>4, SeqDef
  <1>6. Len(Orphaned(jobs, c)) = Len(jobs)
    BY <1>1, <1>5, LenProperties DEF Orphaned
  <1>7. QED
    BY <1>5, <1>6, EmptySeq

(* Settling one game of a gather leaves every gather of its type.          *)
LEMMA SettleFacts ==
  ASSUME gather \in [Client -> Seq(GameType)], NEW job \in JobType,
         NEW date \in Time \cup {None}, NEW missed \in BOOLEAN,
         Settle(job, date, missed)
  PROVE  gather' \in [Client -> Seq(GameType)]
  <1>1. CASE job.for = None
    BY <1>1 DEF Settle
  <1>2. CASE job.for # None
    <2> DEFINE g == gather[job.for]
    <2>1. job.for \in Client
      BY <1>2 DEF JobType
    <2>2. g \in Seq(GameType)
      BY <2>1
    <2> HIDE DEF g
    <2> DEFINE settled(x) ==
                 [rank |-> x.rank, app |-> job.app,
                  settled |-> TRUE, date |-> date, missed |-> missed]
               new == [i \in DOMAIN g |->
                 IF g[i].app # job.app THEN g[i] ELSE settled(g[i])]
    <2>3. \A x \in GameType : settled(x) \in GameType
      BY DEF GameType, JobType
    <2>4. gather' = [gather EXCEPT ![job.for] = new]
      BY <1>2 DEF Settle, g
    <2> HIDE DEF settled
    <2>5. DOMAIN g = 1..Len(g) /\ Len(g) \in Nat
          /\ \A i \in 1..Len(g) : g[i] \in GameType
      BY <2>2, LenProperties, ElementOfSeq
    <2>6. new \in [1..Len(g) -> GameType]
      BY <2>3, <2>5
    <2>7. new \in Seq(GameType)
      BY <2>5, <2>6, SeqDef
    <2> HIDE DEF new
    <2>8. QED
      BY <2>1, <2>4, <2>7
  <1>3. QED
    BY <1>1, <1>2

(* A request that ends gives its slot back or on.                          *)
LEMMA ReleaseFacts ==
  ASSUME MTypeOK, SlotsAccounted, NEW i \in DOMAIN asking, Release(i)
  PROVE  /\ asking' \in Seq(JobType) /\ queue' \in Seq(JobType)
         /\ free' \in 0..Slots
         /\ SlotsAccounted'
  <1>1. /\ asking \in Seq(JobType) /\ queue \in Seq(JobType)
        /\ Len(asking) \in Nat /\ i \in 1..Len(asking)
        /\ free \in 0..Slots /\ free + Len(asking) = Slots
        /\ queue # << >> => free = 0
    BY LenProperties DEF MTypeOK, SlotsAccounted
  <1>2. /\ RemoveAt(asking, i) \in Seq(JobType)
        /\ Len(RemoveAt(asking, i)) = Len(asking) - 1
    BY <1>1, RemoveAtFacts
  <1>3. Hand(RemoveAt(asking, i), queue)
        /\ free' = IF queue = << >> THEN free + 1 ELSE free
    BY DEF Release
  <1>4. /\ asking' \in Seq(JobType) /\ queue' \in Seq(JobType)
        /\ queue = << >> => Len(asking') = Len(asking) - 1 /\ queue' = << >>
        /\ queue # << >> => Len(asking') = Len(asking)
    BY <1>1, <1>2, <1>3, HandFacts
  <1>5. QED
    BY <1>1, <1>3, <1>4 DEF SlotsAccounted

(* The same when the request's end breaks the gather of a command.         *)
LEMMA BreakFacts ==
  ASSUME MTypeOK, SlotsAccounted, NEW i \in DOMAIN asking, NEW c \in Client,
         GatherBreaks(i, c)
  PROVE  /\ asking' \in Seq(JobType) /\ queue' \in Seq(JobType)
         /\ free' \in 0..Slots
         /\ gather' \in [Client -> Seq(GameType)]
         /\ SlotsAccounted'
  <1> DEFINE rest == RemoveAt(asking, i)
  <1>1. /\ asking \in Seq(JobType) /\ queue \in Seq(JobType)
        /\ Len(asking) \in Nat /\ i \in 1..Len(asking)
        /\ free \in 0..Slots /\ free + Len(asking) = Slots
        /\ queue # << >> => free = 0
    BY LenProperties DEF MTypeOK, SlotsAccounted
  <1>2. rest \in Seq(JobType) /\ Len(rest) = Len(asking) - 1
    BY <1>1, RemoveAtFacts
  <1>3. Hand(Orphaned(rest, c), Orphaned(queue, c))
        /\ free' = IF queue = << >> THEN free + 1 ELSE free
    BY DEF GatherBreaks
  <1> HIDE DEF rest
  <1>4. /\ Orphaned(rest, c) \in Seq(JobType)
        /\ Len(Orphaned(rest, c)) = Len(asking) - 1
        /\ Orphaned(queue, c) \in Seq(JobType)
        /\ Orphaned(queue, c) = << >> <=> queue = << >>
    BY <1>1, <1>2, OrphanedFacts
  <1>5. /\ asking' \in Seq(JobType) /\ queue' \in Seq(JobType)
        /\ queue = << >> => Len(asking') = Len(asking) - 1 /\ queue' = << >>
        /\ queue # << >> => Len(asking') = Len(asking) - 1 + 1
    BY <1>3, <1>4, HandFacts
  <1>6. gather' \in [Client -> Seq(GameType)]
    BY EmptySeq DEF GatherBreaks, MTypeOK
  <1>7. free' \in 0..Slots /\ free' + Len(asking') = Slots
    <2>1. CASE queue = << >>
      BY <1>1, <1>3, <1>5, <2>1
    <2>2. CASE queue # << >>
      BY <1>1, <1>3, <1>5, <2>2
    <2>3. QED
      BY <2>1, <2>2
  <1>8. queue' # << >> => free' = 0
    BY <1>1, <1>3, <1>5
  <1>9. QED
    BY <1>5, <1>6, <1>7, <1>8 DEF SlotsAccounted

(* A gather that starts takes the free slots, and waits for others only    *)
(* when it has taken them all.                                             *)
Taken(jobs) == IF Len(jobs) < free THEN Len(jobs) ELSE free
Started(jobs) ==
  /\ free' = free - Taken(jobs)
  /\ asking' = asking \o SubSeq(jobs, 1, Taken(jobs))
  /\ queue' = queue \o SubSeq(jobs, Taken(jobs) + 1, Len(jobs))

LEMMA StartedFacts ==
  ASSUME MTypeOK, SlotsAccounted, NEW jobs \in Seq(JobType), Started(jobs)
  PROVE  /\ asking' \in Seq(JobType) /\ queue' \in Seq(JobType)
         /\ free' \in 0..Slots
         /\ SlotsAccounted'
  <1>1. /\ asking \in Seq(JobType) /\ queue \in Seq(JobType)
        /\ Len(asking) \in Nat
        /\ free \in 0..Slots /\ free + Len(asking) = Slots
        /\ queue # << >> => free = 0
    BY LenProperties DEF MTypeOK, SlotsAccounted
  <1>2. PICK n \in Nat : n = Len(jobs)
    BY LenProperties
  <1>3. PICK at \in Nat : at = Taken(jobs)
    BY <1>1, <1>2 DEF Taken
  <1>4. at <= n /\ at <= free /\ (at = n \/ at = free)
    BY <1>1, <1>2, <1>3 DEF Taken
  <1>5. \A i \in 1..n : jobs[i] \in JobType
    BY <1>2, ElementOfSeq
  <1>6. SubSeq(jobs, 1, at) \in Seq(JobType) /\ Len(SubSeq(jobs, 1, at)) = at
    <2>1. \A i \in 1..at : jobs[i] \in JobType
      BY <1>4, <1>5
    <2>2. QED
      BY <2>1, SubSeqProperties
  <1>7. SubSeq(jobs, at + 1, n) \in Seq(JobType)
    <2>1. \A i \in (at + 1)..n : jobs[i] \in JobType
      BY <1>4, <1>5
    <2>2. QED
      BY <2>1, SubSeqProperties
  <1>8. /\ free' = free - at
        /\ asking' = asking \o SubSeq(jobs, 1, at)
        /\ queue' = queue \o SubSeq(jobs, at + 1, n)
    BY <1>2, <1>3 DEF Started
  <1>9. asking' \in Seq(JobType) /\ Len(asking') = Len(asking) + at
    BY <1>1, <1>6, <1>8, ConcatProperties
  <1>10. queue' \in Seq(JobType)
    BY <1>1, <1>7, <1>8, ConcatProperties
  <1>11. queue' # << >> => free' = 0
    <2>1. CASE at = free
      BY <1>1, <1>8, <2>1
    <2>2. CASE at = n /\ at # free
      <3>1. SubSeq(jobs, at + 1, n) = << >>
        BY <2>2, SubSeqEmpty
      <3>2. queue = << >> /\ queue' = << >>
        BY <1>1, <1>4, <1>8, <2>2, <3>1, ConcatEmptySeq
      <3>3. QED
        BY <3>2
    <2>3. QED
      BY <1>4, <2>1, <2>2
  <1>12. free' \in 0..Slots /\ free' + Len(asking') = Slots
    <2>1. \A f, l, k \in Nat : k <= f =>
            f - k \in 0..(f + l) /\ (f - k) + (l + k) = f + l
      OBVIOUS
    <2>2. free \in Nat
      BY <1>1
    <2>3. /\ free - at \in 0..(free + Len(asking))
          /\ (free - at) + (Len(asking) + at) = free + Len(asking)
      BY <1>1, <1>4, <2>1, <2>2
    <2>4. free + Len(asking) = Slots
      BY <1>1
    <2>5. QED
      BY <1>8, <1>9, <2>3, <2>4
  <1>13. QED
    BY <1>9, <1>10, <1>11, <1>12 DEF SlotsAccounted

(* What ChartParsed does: the gather starts with the games of a chart, and *)
(* a request is made for each that has no current metadata, once.          *)
Gathered(entries) ==
  [i \in DOMAIN entries |->
    [rank |-> entries[i].rank, app |-> entries[i].app,
     settled |-> Current(entries[i].app),
     date |-> metadata[entries[i].app], missed |-> FALSE]]

AskedFor(entries, c, jobs) ==
  /\ \A k \in DOMAIN jobs : \E i \in DOMAIN entries :
       ~Current(entries[i].app) /\ jobs[k] = Job(c, entries[i].app)
  /\ \A k, m \in DOMAIN jobs : k # m => jobs[k].app # jobs[m].app
  /\ \A i \in DOMAIN entries : Current(entries[i].app)
       \/ \E k \in DOMAIN jobs : jobs[k] = Job(c, entries[i].app)

LEMMA ParsedAsks ==
  ASSUME TypeOK, MTypeOK, NEW c \in Client, ChartParsed(c)
  PROVE  \E entries \in Charts : \E jobs \in Seq(JobType) :
           /\ gather' = [gather EXCEPT ![c] = Gathered(entries)]
           /\ Started(jobs)
           /\ AskedFor(entries, c, jobs)
  <1>1. now \in Time /\ metadata \in [App -> Time \cup {None}]
    BY DEF TypeOK, MTypeOK
  <1>2. PICK entries \in Charts :
          \E lacking \in InOrder({i \in DOMAIN entries : ~Current(entries[i].app)}) :
            LET jobs == [i \in DOMAIN lacking |-> Job(c, entries[lacking[i]].app)]
                at == IF Len(jobs) < free THEN Len(jobs) ELSE free
            IN /\ gather' = [gather EXCEPT ![c] = [i \in DOMAIN entries |->
                    [rank |-> entries[i].rank, app |-> entries[i].app,
                     settled |-> Current(entries[i].app),
                     date |-> metadata[entries[i].app], missed |-> FALSE]]]
               /\ free' = free - at
               /\ asking' = asking \o SubSeq(jobs, 1, at)
               /\ queue' = queue \o SubSeq(jobs, at + 1, Len(jobs))
    BY DEF ChartParsed
  <1> DEFINE Lack == {i \in DOMAIN entries : ~Current(entries[i].app)}
  <1>3. PICK lacking \in InOrder(Lack) :
          /\ gather' = [gather EXCEPT ![c] = Gathered(entries)]
          /\ Started([i \in DOMAIN lacking |-> Job(c, entries[lacking[i]].app)])
    BY <1>2 DEF Started, Taken, Gathered
  <1>4. /\ entries \in Seq(Entry) /\ Len(entries) \in Nat
        /\ DOMAIN entries = 1..Len(entries)
        /\ \A i \in DOMAIN entries : entries[i] \in Entry
        /\ Ordered(entries)
    BY ChartFacts, LenProperties, ElementOfSeq
  <1>5. Cardinality(Lack) \in Nat /\ IsFiniteSet(Lack)
    <2>1. IsFiniteSet(DOMAIN entries)
      BY <1>4, FS_Interval
    <2>2. Lack \subseteq DOMAIN entries
      OBVIOUS
    <2>3. QED
      BY <2>1, <2>2, FS_Subset, FS_CardinalityType
  <1> DEFINE n == Cardinality(Lack)
             jobs == [i \in DOMAIN lacking |-> Job(c, entries[lacking[i]].app)]
  <1>6. /\ lacking \in [1..n -> Lack]
        /\ \A i, j \in 1..n : i < j => lacking[i] < lacking[j]
    BY DEF InOrder
  <1>7. /\ DOMAIN jobs = 1..n
        /\ \A k \in 1..n : /\ lacking[k] \in DOMAIN entries
                           /\ ~Current(entries[lacking[k]].app)
                           /\ jobs[k] = Job(c, entries[lacking[k]].app)
    BY <1>6
  <1>8. \A i \in DOMAIN entries : Job(c, entries[i].app) \in JobType
    BY <1>1, <1>4 DEF Job, JobType, Entry
  <1>9. jobs \in Seq(JobType)
    <2>1. jobs \in [1..n -> JobType]
      BY <1>7, <1>8
    <2> HIDE DEF jobs, Lack
    <2>2. QED
      BY <1>5, <2>1, SeqDef
  <1>10. \A k, m \in 1..n : k # m => jobs[k].app # jobs[m].app
    <2>1. ASSUME NEW k \in 1..n, NEW m \in 1..n, k < m
          PROVE  jobs[k].app # jobs[m].app
      <3>1. lacking[k] < lacking[m]
        BY <1>6, <2>1
      <3>2. entries[lacking[k]].app # entries[lacking[m]].app
        BY <1>4, <1>7, <3>1 DEF Ordered
      <3>3. QED
        BY <1>7, <3>2 DEF Job
    <2> HIDE DEF jobs, Lack
    <2>2. \A k, m \in 1..n : k # m => k < m \/ m < k
      BY <1>5
    <2>3. QED
      BY <2>1, <2>2
  <1>11. \A i \in Lack : \E k \in 1..n : lacking[k] = i
    <2>1. PICK f : f = [i \in Lack |-> i]
      OBVIOUS
    <2>2. f \in [Lack -> Nat] /\ \A i \in Lack : f[i] = i
      BY <1>4, <2>1
    <2>3. Lists(lacking, Lack, f)
      BY <1>6, <2>2 DEF Lists
    <2> HIDE DEF Lack
    <2>4. QED
      BY <1>5, <2>2, <2>3, ListHasAll
  <1>12. AskedFor(entries, c, jobs)
    BY <1>7, <1>10, <1>11 DEF AskedFor
  <1>13. QED
    BY <1>3, <1>9, <1>12

(* What it leaves is of its type, and no slot is lost.                     *)
LEMMA ParsedFacts ==
  ASSUME TypeOK, MTypeOK, SlotsAccounted, NEW c \in Client, ChartParsed(c)
  PROVE  /\ asking' \in Seq(JobType) /\ queue' \in Seq(JobType)
         /\ free' \in 0..Slots
         /\ gather' \in [Client -> Seq(GameType)]
         /\ SlotsAccounted'
  <1>1. PICK entries \in Charts, jobs \in Seq(JobType) :
          gather' = [gather EXCEPT ![c] = Gathered(entries)] /\ Started(jobs)
    BY ParsedAsks
  <1>2. /\ entries \in Seq(Entry) /\ Len(entries) \in Nat
        /\ DOMAIN entries = 1..Len(entries)
        /\ \A i \in DOMAIN entries : entries[i] \in Entry
    BY ChartFacts, LenProperties, ElementOfSeq
  <1>3. Gathered(entries) \in [1..Len(entries) -> GameType]
    BY <1>2 DEF Gathered, Entry, GameType, Current, MTypeOK
  <1>4. Gathered(entries) \in Seq(GameType)
    BY <1>2, <1>3, SeqDef
  <1>5. gather' \in [Client -> Seq(GameType)]
    BY <1>1, <1>4 DEF MTypeOK
  <1>6. QED
    BY <1>1, <1>5, StartedFacts

-----------------------------------------------------------------------------
(* The types of what each action changes, and the account of the slots.    *)
MInv == MTypeOK /\ SlotsAccounted

LEMMA MInvStep ==
  ASSUME TypeOK, MInv, [MNext]_allvars
  PROVE  MInv'
  <1> USE DEF MInv
  <1>1. CASE UNCHANGED mvars
    BY <1>1 DEF mvars, requests, MTypeOK, SlotsAccounted
  <1>2. ASSUME NEW c \in Client, ChartParsed(c)
        PROVE  MInv'
    <2>1. UNCHANGED <<metadata, games>>
      BY <1>2 DEF ChartParsed
    <2>2. QED
      BY <1>2, <2>1, ParsedFacts DEF MTypeOK
  <1>3. ASSUME NEW c \in Client, GamesPublished(c)
        PROVE  MInv'
    BY <1>3, EmptySeq DEF GamesPublished, requests, MTypeOK, SlotsAccounted
  <1>4. ASSUME NEW i \in DOMAIN asking, JobOk(i)
        PROVE  MInv'
    <2> DEFINE job == asking[i]
    <2>1. job \in JobType
      BY LenProperties, ElementOfSeq DEF MTypeOK
    <2>2. /\ Release(i) /\ Settle(job, job.asked, FALSE)
          /\ metadata' = [metadata EXCEPT ![job.app] = job.asked]
          /\ UNCHANGED games
      BY <1>4 DEF JobOk
    <2> HIDE DEF job
    <2>3. metadata' \in [App -> Time \cup {None}]
      BY <2>1, <2>2 DEF MTypeOK, JobType
    <2>4. gather' \in [Client -> Seq(GameType)]
      BY <2>1, <2>2, SettleFacts DEF MTypeOK, JobType
    <2>5. QED
      BY <2>2, <2>3, <2>4, ReleaseFacts DEF MTypeOK
  <1>5. ASSUME NEW i \in DOMAIN asking, JobMisses(i)
        PROVE  MInv'
    <2> DEFINE job == asking[i]
    <2>1. job \in JobType
      BY LenProperties, ElementOfSeq DEF MTypeOK
    <2>2. /\ Release(i) /\ Settle(job, job.cached, TRUE)
          /\ UNCHANGED <<metadata, games>>
      BY <1>5 DEF JobMisses
    <2> HIDE DEF job
    <2>3. gather' \in [Client -> Seq(GameType)]
      BY <2>1, <2>2, SettleFacts DEF MTypeOK, JobType
    <2>4. QED
      BY <2>2, <2>3, ReleaseFacts DEF MTypeOK
  <1>6. ASSUME NEW i \in DOMAIN asking, JobBreaks(i)
        PROVE  MInv'
    <2>1. UNCHANGED <<metadata, games>>
      BY <1>6 DEF JobBreaks
    <2>2. ASSUME NEW c \in Client, GatherBreaks(i, c)
          PROVE  MInv'
      BY <2>1, <2>2, BreakFacts DEF MTypeOK
    <2>3. CASE Release(i) /\ UNCHANGED gather
      BY <2>1, <2>3, ReleaseFacts DEF MTypeOK
    <2>4. QED
      BY <1>6, <2>2, <2>3 DEF JobBreaks
  <1>7. QED
    BY <1>1, <1>2, <1>3, <1>4, <1>5, <1>6
       DEF MNext, MRefresh, ChartMissing, JobEnds, allvars

(* Both hold, for any number of commands, games and slots, and whatever    *)
(* becomes of the requests.                                                *)
LEMMA MInvariance == MSpec => []MInv
  <1>1. MInit => MInv
    BY EmptySeq DEF MInit, MInv, MTypeOK, SlotsAccounted
  <1>2. TypeOK /\ MInv /\ [MNext]_allvars => MInv'
    BY MInvStep
  <1>3. QED
    BY <1>1, <1>2, ImplementsChart, TypeCorrect, PTL DEF MSpec

(* Every variable of the refresh keeps its type.                           *)
THEOREM MetadataTypeCorrect == MSpec => []MTypeOK
  BY MInvariance, PTL DEF MInv

(* A slot of the semaphore is free or held by one request, and nobody      *)
(* waits while one is free, however many gathers broke.                    *)
THEOREM NoSlotLost == MSpec => []SlotsAccounted
  BY MInvariance, PTL DEF MInv

-----------------------------------------------------------------------------
(* The requests under way, those that hold a slot before those that wait:  *)
(* a request joins them at the end, and a slot handed on moves nobody.     *)
Underway == asking \o queue

LEMMA UnderwayType ==
  ASSUME MTypeOK
  PROVE  /\ Underway \in Seq(JobType)
         /\ Len(Underway) \in Nat /\ DOMAIN Underway = 1..Len(Underway)
         /\ \A k \in DOMAIN Underway : Underway[k] \in JobType
         /\ \A i \in DOMAIN asking : i \in DOMAIN Underway /\ Underway[i] = asking[i]
  <1>1. asking \in Seq(JobType) /\ queue \in Seq(JobType)
    BY DEF MTypeOK
  <1>2. /\ Len(asking) \in Nat /\ Len(queue) \in Nat
        /\ DOMAIN asking = 1..Len(asking)
    BY <1>1, LenProperties
  <1>3. /\ Underway \in Seq(JobType)
        /\ Len(Underway) = Len(asking) + Len(queue)
        /\ \A i \in 1..(Len(asking) + Len(queue)) : Underway[i] =
             IF i <= Len(asking) THEN asking[i] ELSE queue[i - Len(asking)]
    BY <1>1, ConcatProperties DEF Underway
  <1>4. /\ Len(Underway) \in Nat /\ DOMAIN Underway = 1..Len(Underway)
        /\ \A k \in DOMAIN Underway : Underway[k] \in JobType
    BY <1>3, LenProperties, ElementOfSeq
  <1>5. QED
    BY <1>2, <1>3, <1>4

LEMMA HandKeepsOrder ==
  ASSUME NEW rest \in Seq(JobType), NEW waiting \in Seq(JobType),
         Hand(rest, waiting)
  PROVE  Underway' = rest \o waiting
  <1>1. CASE waiting = << >>
    BY <1>1 DEF Hand, Underway
  <1>2. CASE waiting # << >>
    <2>1. /\ Head(waiting) \in JobType /\ Tail(waiting) \in Seq(JobType)
          /\ <<Head(waiting)>> \in Seq(JobType)
      BY <1>2, HeadTailProperties
    <2>2. Underway' = (rest \o <<Head(waiting)>>) \o Tail(waiting)
      BY <1>2, <2>1, AppendIsConcat DEF Hand, Underway
    <2>3. Underway' = rest \o (<<Head(waiting)>> \o Tail(waiting))
      BY <2>1, <2>2, ConcatAssociative
    <2>4. <<Head(waiting)>> \o Tail(waiting) = waiting
      BY <1>2
    <2>5. QED
      BY <2>3, <2>4
  <1>3. QED
    BY <1>1, <1>2

LEMMA RemoveAtConcat ==
  ASSUME NEW T, NEW s \in Seq(T), NEW t \in Seq(T), NEW i \in DOMAIN s
  PROVE  RemoveAt(s, i) \o t = RemoveAt(s \o t, i)
  <1>1. /\ Len(s) \in Nat /\ Len(t) \in Nat /\ i \in 1..Len(s)
    BY LenProperties
  <1>2. /\ RemoveAt(s, i) \in Seq(T) /\ Len(RemoveAt(s, i)) = Len(s) - 1
        /\ \A k \in 1..(Len(s) - 1) :
             RemoveAt(s, i)[k] = IF k < i THEN s[k] ELSE s[k + 1]
    BY RemoveAtFacts
  <1>3. /\ s \o t \in Seq(T) /\ Len(s \o t) = Len(s) + Len(t)
        /\ \A k \in 1..(Len(s) + Len(t)) :
             (s \o t)[k] = IF k <= Len(s) THEN s[k] ELSE t[k - Len(s)]
    BY ConcatProperties
  <1> DEFINE l == RemoveAt(s, i) \o t
             r == RemoveAt(s \o t, i)
             n == Len(s) + Len(t) - 1
  <1>4. /\ l \in Seq(T) /\ Len(l) = n
        /\ \A k \in 1..n : l[k] =
             IF k <= Len(s) - 1 THEN RemoveAt(s, i)[k] ELSE t[k - (Len(s) - 1)]
    <2> DEFINE rest == RemoveAt(s, i)
    <2>1. /\ l \in Seq(T) /\ Len(l) = Len(rest) + Len(t)
          /\ \A k \in 1..(Len(rest) + Len(t)) : l[k] =
               IF k <= Len(rest) THEN rest[k] ELSE t[k - Len(rest)]
      BY <1>2, ConcatProperties
    <2>2. Len(rest) = Len(s) - 1 /\ Len(rest) + Len(t) = n
      BY <1>1, <1>2
    <2>3. QED
      BY <2>1, <2>2
  <1>5. i \in DOMAIN (s \o t)
    BY <1>1, <1>3, LenProperties
  <1>6. /\ r \in Seq(T) /\ Len(r) = n
        /\ \A k \in 1..n :
             r[k] = IF k < i THEN (s \o t)[k] ELSE (s \o t)[k + 1]
    <2>1. /\ r \in Seq(T) /\ Len(r) = Len(s \o t) - 1
          /\ \A k \in 1..(Len(s \o t) - 1) :
               r[k] = IF k < i THEN (s \o t)[k] ELSE (s \o t)[k + 1]
      BY <1>3, <1>5, RemoveAtFacts
    <2>2. Len(s \o t) - 1 = n
      BY <1>1, <1>3
    <2>3. QED
      BY <2>1, <2>2
  <1> HIDE DEF l, r
  <1>7. ASSUME NEW k \in 1..n PROVE l[k] = r[k]
    <2>1. CASE k < i
      BY <1>1, <1>2, <1>3, <1>4, <1>6, <2>1
    <2>2. CASE k >= i /\ k <= Len(s) - 1
      BY <1>1, <1>2, <1>3, <1>4, <1>6, <2>2
    <2>3. CASE k > Len(s) - 1
      BY <1>1, <1>2, <1>3, <1>4, <1>6, <2>3
    <2>4. QED
      BY <1>1, <2>1, <2>2, <2>3
  <1>8. l = r
    BY <1>4, <1>6, <1>7, SeqEqual
  <1>9. QED
    BY <1>8 DEF l, r

LEMMA ReleaseRemoves ==
  ASSUME MTypeOK, NEW i \in DOMAIN asking, Release(i)
  PROVE  Underway' = RemoveAt(Underway, i)
  <1>1. asking \in Seq(JobType) /\ queue \in Seq(JobType)
    BY DEF MTypeOK
  <1>2. RemoveAt(asking, i) \in Seq(JobType)
    BY <1>1, RemoveAtFacts
  <1>3. Underway' = RemoveAt(asking, i) \o queue
    BY <1>1, <1>2, HandKeepsOrder DEF Release
  <1>4. QED
    BY <1>1, <1>3, RemoveAtConcat DEF Underway
LEMMA OrphanedConcat ==
  ASSUME NEW s \in Seq(JobType), NEW t \in Seq(JobType), NEW c
  PROVE  Orphaned(s, c) \o Orphaned(t, c) = Orphaned(s \o t, c)
  <1> DEFINE orphan(job) == IF job.for = c THEN [job EXCEPT !.for = None] ELSE job
             l == Orphaned(s, c) \o Orphaned(t, c)
             r == Orphaned(s \o t, c)
             n == Len(s) + Len(t)
  <1>1. Len(s) \in Nat /\ Len(t) \in Nat
        /\ DOMAIN s = 1..Len(s) /\ DOMAIN t = 1..Len(t)
    BY LenProperties
  <1>2. /\ s \o t \in Seq(JobType) /\ Len(s \o t) = n
        /\ \A k \in 1..n : (s \o t)[k] = IF k <= Len(s) THEN s[k] ELSE t[k - Len(s)]
    BY ConcatProperties
  <1>3. /\ Orphaned(s, c) \in Seq(JobType) /\ Len(Orphaned(s, c)) = Len(s)
        /\ Orphaned(t, c) \in Seq(JobType) /\ Len(Orphaned(t, c)) = Len(t)
        /\ r \in Seq(JobType) /\ Len(r) = n
    BY <1>2, OrphanedFacts
  <1>4. /\ \A k \in 1..Len(s) : Orphaned(s, c)[k] = orphan(s[k])
        /\ \A k \in 1..Len(t) : Orphaned(t, c)[k] = orphan(t[k])
    BY <1>1 DEF Orphaned
  <1>5. \A k \in 1..n : r[k] = orphan((s \o t)[k])
    <2>1. DOMAIN (s \o t) = 1..n
      BY <1>2, LenProperties
    <2>2. QED
      BY <2>1 DEF Orphaned
  <1>6. /\ l \in Seq(JobType) /\ Len(l) = n
        /\ \A k \in 1..n : l[k] =
             IF k <= Len(s) THEN Orphaned(s, c)[k] ELSE Orphaned(t, c)[k - Len(s)]
    <2>0. PICK a, b : a = Orphaned(s, c) /\ b = Orphaned(t, c)
      OBVIOUS
    <2>1. /\ a \o b \in Seq(JobType) /\ Len(a \o b) = Len(a) + Len(b)
          /\ \A k \in 1..(Len(a) + Len(b)) :
               (a \o b)[k] = IF k <= Len(a) THEN a[k] ELSE b[k - Len(a)]
      <3>1. a \in Seq(JobType) /\ b \in Seq(JobType)
        BY <1>3, <2>0
      <3>2. QED
        BY <3>1, ConcatProperties
    <2>2. QED
      BY <1>3, <2>0, <2>1
  <1> HIDE DEF l, r, orphan
  <1>7. ASSUME NEW k \in 1..n PROVE l[k] = r[k]
    <2>1. CASE k <= Len(s)
      <3>1. k \in 1..Len(s)
        BY <1>1, <2>1
      <3>2. l[k] = orphan(s[k]) /\ r[k] = orphan(s[k])
        BY <1>2, <1>4, <1>5, <1>6, <2>1, <3>1
      <3>3. QED
        BY <3>2
    <2>2. CASE ~(k <= Len(s))
      <3>1. k - Len(s) \in 1..Len(t)
        BY <1>1, <2>2
      <3>2. l[k] = orphan(t[k - Len(s)]) /\ r[k] = orphan(t[k - Len(s)])
        BY <1>2, <1>4, <1>5, <1>6, <2>2, <3>1
      <3>3. QED
        BY <3>2
    <2>3. QED
      BY <2>1, <2>2
  <1>8. l = r
    BY <1>3, <1>6, <1>7, SeqEqual
  <1>9. QED
    BY <1>8 DEF l, r

LEMMA BreakRemoves ==
  ASSUME MTypeOK, NEW i \in DOMAIN asking, NEW c \in Client, GatherBreaks(i, c)
  PROVE  Underway' = Orphaned(RemoveAt(Underway, i), c)
  <1> DEFINE rest == RemoveAt(asking, i)
  <1>1. asking \in Seq(JobType) /\ queue \in Seq(JobType)
    BY DEF MTypeOK
  <1>2. rest \in Seq(JobType)
    BY <1>1, RemoveAtFacts
  <1>3. Hand(Orphaned(rest, c), Orphaned(queue, c))
    BY DEF GatherBreaks
  <1>4. rest \o queue = RemoveAt(Underway, i)
    BY <1>1, RemoveAtConcat DEF Underway
  <1> HIDE DEF rest
  <1>5. Orphaned(rest, c) \in Seq(JobType) /\ Orphaned(queue, c) \in Seq(JobType)
    BY <1>1, <1>2, OrphanedFacts
  <1>6. Underway' = Orphaned(rest, c) \o Orphaned(queue, c)
    BY <1>3, <1>5, HandKeepsOrder
  <1>7. Orphaned(rest, c) \o Orphaned(queue, c) = Orphaned(rest \o queue, c)
    BY <1>1, <1>2, OrphanedConcat
  <1>8. QED
    BY <1>4, <1>6, <1>7

LEMMA StartedAppends ==
  ASSUME MTypeOK, SlotsAccounted, NEW jobs \in Seq(JobType), Started(jobs)
  PROVE  Underway' = Underway \o jobs
  <1>1. /\ asking \in Seq(JobType) /\ queue \in Seq(JobType)
        /\ free \in Nat
        /\ queue # << >> => free = 0
    BY DEF MTypeOK, SlotsAccounted
  <1>2. PICK n \in Nat : n = Len(jobs)
    BY LenProperties
  <1>3. PICK at \in 0..n :
          at = Taken(jobs) /\ at = IF n < free THEN n ELSE free
    <2>1. Taken(jobs) = IF n < free THEN n ELSE free
      BY <1>2 DEF Taken
    <2>2. (IF n < free THEN n ELSE free) \in 0..n
      BY <1>1
    <2>3. QED
      BY <2>1, <2>2
  <1> DEFINE first == SubSeq(jobs, 1, at)
             later == SubSeq(jobs, at + 1, n)
  <1>4. asking' = asking \o first /\ queue' = queue \o later
    BY <1>2, <1>3 DEF Started
  <1>5. \A i \in 1..n : jobs[i] \in JobType
    BY <1>2, ElementOfSeq
  <1>6. first \in Seq(JobType) /\ later \in Seq(JobType)
    <2>1. (\A i \in 1..at : jobs[i] \in JobType)
          /\ (\A i \in (at + 1)..n : jobs[i] \in JobType)
      BY <1>5
    <2>2. QED
      BY <2>1, SubSeqProperties
  <1>7. first \o later = jobs
    <2>1. 1 \in 1..(Len(jobs) + 1) /\ at \in (1 - 1)..Len(jobs) /\ n \in at..Len(jobs)
      BY <1>2
    <2>2. first \o later = SubSeq(jobs, 1, n)
      BY <2>1, ConcatAdjacentSubSeq
    <2>3. QED
      BY <1>2, <2>2, SubSeqFull
  <1>8. CASE queue = << >>
    <2>1. queue' = later /\ Underway = asking
      BY <1>1, <1>4, <1>6, <1>8, ConcatEmptySeq DEF Underway
    <2> HIDE DEF first, later
    <2>2. (asking \o first) \o later = asking \o (first \o later)
      BY <1>1, <1>6, ConcatAssociative
    <2>3. QED
      BY <1>4, <1>7, <2>1, <2>2 DEF Underway
  <1>9. CASE queue # << >>
    <2>1. at = 0
      BY <1>1, <1>3, <1>9
    <2>2. first = << >>
      BY <2>1, SubSeqEmpty
    <2>3. asking' = asking
      BY <1>1, <1>4, <2>2, ConcatEmptySeq
    <2>4. later = jobs
      BY <1>6, <1>7, <2>2, ConcatEmptySeq
    <2>5. asking \o (queue \o jobs) = (asking \o queue) \o jobs
      BY <1>1, ConcatAssociative, SMTT(20)
    <2>6. QED
      BY <1>4, <2>3, <2>4, <2>5 DEF Underway
  <1>10. QED
    BY <1>8, <1>9
-----------------------------------------------------------------------------
(* What the gathers, the requests and the cache have to do with the games  *)
(* that are shown.                                                         *)

(* A shown game whose metadata is known.                                   *)
Named(app) == \E i \in DOMAIN games : games[i].app = app /\ games[i].date # None

(* Metadata that was there once is in the cache for good; and, unless its  *)
(* request gave nothing, it was current when the refresh began.            *)
GameOK(g, began) ==
  /\ g.date # None => metadata[g.app] # None
  /\ g.settled /\ ~g.missed => g.date # None /\ began - g.date < MetadataTtl

Shown ==
  /\ Ordered(games)
  /\ \A i \in DOMAIN games : games[i].settled /\ GameOK(games[i], cachedAt)

(* Only the command that waits for metadata gathers any, and it loses none *)
(* that is shown.                                                          *)
Collects(c) ==
  /\ Ordered(gather[c])
  /\ \A i \in DOMAIN gather[c] :
       /\ client[c].pc = "metadata"
       /\ GameOK(gather[c][i], client[c].began)
       /\ Named(gather[c][i].app) => gather[c][i].date # None

(* A request somebody waits for is one for a game that is not settled; it  *)
(* began in this refresh, and it knows what is shown.                      *)
Awaited(job) ==
  /\ job.cached # None => metadata[job.app] # None
  /\ job.for # None =>
       /\ Named(job.app) => job.cached # None
       /\ client[job.for].began <= job.asked
       /\ \E i \in DOMAIN gather[job.for] :
            gather[job.for][i].app = job.app /\ ~gather[job.for][i].settled

AskedOnce ==
  \A k, m \in DOMAIN Underway :
    k # m /\ Underway[k].for # None /\ Underway[k].for = Underway[m].for
      => Underway[k].app # Underway[m].app

GInv ==
  /\ Shown
  /\ \A c \in Client : Collects(c)
  /\ \A k \in DOMAIN Underway : Awaited(Underway[k])
  /\ AskedOnce

(* A command that gathers nothing may go on as it likes.                   *)
LEMMA QuietStep ==
  ASSUME MTypeOK, GInv, UNCHANGED <<mvars, cachedAt>>,
         \A d \in Client : client[d].pc = "metadata" => client'[d] = client[d]
  PROVE  GInv'
  <1>1. /\ UNCHANGED <<metadata, gather, free, asking, queue, games, cachedAt>>
        /\ Underway' = Underway
    BY DEF mvars, requests, Underway
  <1>2. Shown'
    BY <1>1 DEF GInv, Shown, Ordered, GameOK
  <1>3. \A a : Named(a)' <=> Named(a)
    BY <1>1 DEF Named
  <1>4. ASSUME NEW c \in Client PROVE Collects(c)'
    <2>1. Collects(c)
      BY DEF GInv
    <2>2. \A i \in DOMAIN gather[c] : client'[c] = client[c]
      BY <2>1 DEF Collects
    <2>3. QED
      BY <1>1, <1>3, <2>1, <2>2 DEF Collects, Ordered, GameOK
  <1>5. ASSUME NEW k \in DOMAIN Underway PROVE Awaited(Underway[k])'
    <2> DEFINE job == Underway[k]
    <2>1. Awaited(job) /\ job \in JobType
      BY UnderwayType DEF GInv
    <2> HIDE DEF job
    <2>2. job.for # None => job.for \in Client /\ Collects(job.for)
      BY <2>1 DEF JobType, GInv
    <2>3. job.for # None => client'[job.for] = client[job.for]
      BY <2>1, <2>2 DEF Awaited, Collects
    <2>4. job' = job
      BY <1>1 DEF job
    <2>5. Awaited(job)'
      BY <1>1, <1>3, <2>1, <2>3, <2>4 DEF Awaited
    <2>6. QED
      BY <2>5 DEF job
  <1>6. AskedOnce'
    BY <1>1 DEF GInv, AskedOnce
  <1>7. QED
    BY <1>1, <1>2, <1>4, <1>5, <1>6 DEF GInv

(* Where the elements of a sequence without its i-th come from.            *)
Without(r, s, i) ==
  \E f \in [DOMAIN r -> (DOMAIN s) \ {i}] :
    /\ \A k, m \in DOMAIN r : k # m => f[k] # f[m]
    /\ \A k \in DOMAIN r : r[k] = s[f[k]]

LEMMA RestFacts ==
  ASSUME NEW T, NEW s \in Seq(T), NEW i \in DOMAIN s, NEW r, r = RemoveAt(s, i)
  PROVE  Without(r, s, i)
  <1> DEFINE f == [k \in DOMAIN r |-> IF k < i THEN k ELSE k + 1]
  <1>1. Len(s) \in Nat /\ i \in 1..Len(s) /\ DOMAIN s = 1..Len(s)
    BY LenProperties
  <1>2. /\ r \in Seq(T) /\ Len(r) = Len(s) - 1
        /\ \A k \in 1..(Len(s) - 1) : r[k] = IF k < i THEN s[k] ELSE s[k + 1]
    BY RemoveAtFacts
  <1>3. DOMAIN r = 1..(Len(s) - 1)
    BY <1>2, LenProperties
  <1>4. \A k \in DOMAIN r : (IF k < i THEN k ELSE k + 1) \in (1..Len(s)) \ {i}
    BY <1>1, <1>3
  <1>5. f \in [DOMAIN r -> (DOMAIN s) \ {i}]
    BY <1>1, <1>4
  <1>6. \A k, m \in DOMAIN f : k # m => f[k] # f[m]
    BY <1>1, <1>3
  <1>7. \A k \in DOMAIN f : r[k] = s[f[k]]
    BY <1>2, <1>3
  <1>8. QED
    BY <1>5, <1>6, <1>7 DEF Without

(* What becomes of each game of each gather when a request ends.           *)
LEMMA SettleItems ==
  ASSUME MTypeOK, NEW job \in JobType, NEW date, NEW missed,
         Settle(job, date, missed), NEW c \in Client
  PROVE  /\ DOMAIN gather'[c] = DOMAIN gather[c]
         /\ \A i \in DOMAIN gather[c] :
              /\ gather'[c][i].rank = gather[c][i].rank
              /\ gather'[c][i].app = gather[c][i].app
              /\ job.for = c /\ gather[c][i].app = job.app =>
                   /\ gather'[c][i].settled
                   /\ gather'[c][i].date = date /\ gather'[c][i].missed = missed
              /\ ~(job.for = c /\ gather[c][i].app = job.app) =>
                   gather'[c][i] = gather[c][i]
  <1>1. CASE job.for # c
    <2>1. gather'[c] = gather[c]
      BY <1>1 DEF Settle, MTypeOK
    <2>2. QED
      BY <1>1, <2>1
  <1>2. CASE job.for = c
    <2> DEFINE g == gather[c]
               item(i) == IF g[i].app # job.app THEN g[i]
                          ELSE [rank |-> g[i].rank, app |-> job.app,
                                settled |-> TRUE, date |-> date, missed |-> missed]
    <2>1. gather'[c] = [i \in DOMAIN g |-> item(i)]
      BY <1>2 DEF Settle, MTypeOK
    <2>2. /\ DOMAIN gather'[c] = DOMAIN g
          /\ \A i \in DOMAIN g : gather'[c][i] = item(i)
      BY <2>1
    <2>3. ASSUME NEW i \in DOMAIN g
          PROVE  /\ item(i).rank = g[i].rank /\ item(i).app = g[i].app
                 /\ g[i].app = job.app =>
                      /\ item(i).settled
                      /\ item(i).date = date /\ item(i).missed = missed
                 /\ g[i].app # job.app => item(i) = g[i]
      OBVIOUS
    <2> HIDE DEF item
    <2>4. QED
      BY <1>2, <2>2, <2>3
  <1>3. QED
    BY <1>1, <1>2

(* A request that ends, with or without metadata.                          *)
LEMMA SettleStep ==
  ASSUME MTypeOK, GInv, UNCHANGED <<vars, games>>,
         NEW i \in DOMAIN asking, Release(i),
         NEW date \in Time \cup {None}, NEW missed \in BOOLEAN,
         Settle(asking[i], date, missed),
         \A a \in App : metadata[a] # None => metadata'[a] # None,
         date # None => metadata'[asking[i].app] # None,
         asking[i].for # None =>
           /\ Named(asking[i].app) => date # None
           /\ ~missed => date # None
                         /\ client[asking[i].for].began - date < MetadataTtl
  PROVE  GInv'
  <1> DEFINE job == asking[i]
  <1>1. /\ UNCHANGED <<client, cachedAt, games>>
        /\ \A a : Named(a)' <=> Named(a)
    BY DEF vars, cache, Named
  <1>2. job \in JobType /\ i \in DOMAIN Underway /\ Underway[i] = job
    BY UnderwayType
  <1>3. Settle(job, date, missed) /\ (date # None => metadata'[job.app] # None)
    OBVIOUS
  <1>4. job.for # None =>
           /\ Named(job.app) => date # None
           /\ ~missed => date # None /\ client[job.for].began - date < MetadataTtl
    OBVIOUS
  <1> HIDE DEF job
  <1>5. /\ \A k \in DOMAIN games : games[k] \in GameType
        /\ \A c \in Client : \A k \in DOMAIN gather[c] : gather[c][k] \in GameType
    BY LenProperties, ElementOfSeq DEF MTypeOK
  <1>6. Shown'
    BY <1>1, <1>5 DEF GInv, Shown, Ordered, GameOK, GameType
  <1>7. ASSUME NEW c \in Client PROVE Collects(c)'
    <2>1. Collects(c)
      BY DEF GInv
    <2>2. /\ DOMAIN gather'[c] = DOMAIN gather[c]
          /\ \A k \in DOMAIN gather[c] :
               /\ gather'[c][k].rank = gather[c][k].rank
               /\ gather'[c][k].app = gather[c][k].app
               /\ job.for = c /\ gather[c][k].app = job.app =>
                    gather'[c][k].date = date /\ gather'[c][k].missed = missed
               /\ ~(job.for = c /\ gather[c][k].app = job.app) =>
                    gather'[c][k] = gather[c][k]
      BY <1>2, <1>3, SettleItems
    <2>4. Ordered(gather[c])'
      BY <2>1, <2>2 DEF Collects, Ordered
    <2>5. ASSUME NEW k \in DOMAIN gather[c]
          PROVE  /\ client'[c].pc = "metadata"
                 /\ GameOK(gather[c][k], client[c].began)'
                 /\ Named(gather[c][k].app)' => gather'[c][k].date # None
      <3>1. /\ client[c].pc = "metadata"
            /\ GameOK(gather[c][k], client[c].began)
            /\ Named(gather[c][k].app) => gather[c][k].date # None
            /\ gather[c][k].app \in App
        BY <1>5, <2>1 DEF Collects, GameType
      <3>2. CASE job.for = c /\ gather[c][k].app = job.app
        <4>1. /\ gather'[c][k].app = job.app
              /\ gather'[c][k].date = date /\ gather'[c][k].missed = missed
          BY <2>2, <3>2
        <4>2. job.for # None
          BY <3>2
        <4>3. QED
          BY <1>1, <1>3, <1>4, <3>1, <3>2, <4>1, <4>2 DEF GameOK
      <3>3. CASE ~(job.for = c /\ gather[c][k].app = job.app)
        <4>1. gather'[c][k] = gather[c][k]
          BY <2>2, <3>3
        <4>2. QED
          BY <1>1, <3>1, <4>1 DEF GameOK
      <3>4. QED
        BY <3>2, <3>3
    <2>6. QED
      BY <2>2, <2>4, <2>5 DEF Collects
  <1>8. PICK f \in [DOMAIN Underway' -> (DOMAIN Underway) \ {i}] :
          /\ \A k, m \in DOMAIN Underway' : k # m => f[k] # f[m]
          /\ \A k \in DOMAIN Underway' : Underway'[k] = Underway[f[k]]
    <2>1. Underway' = RemoveAt(Underway, i) /\ Underway \in Seq(JobType)
      BY ReleaseRemoves, UnderwayType
    <2>2. Without(Underway', Underway, i)
      BY <1>2, <2>1, RestFacts
    <2>3. QED
      BY <2>2 DEF Without
  <1>9. ASSUME NEW k \in DOMAIN Underway' PROVE Awaited(Underway[k])'
    <2>1. PICK other \in JobType :
            /\ Underway'[k] = other /\ Underway[f[k]] = other
            /\ f[k] \in DOMAIN Underway /\ f[k] # i
      BY <1>8, UnderwayType
    <2>2. /\ Awaited(other)
          /\ other.for = job.for /\ job.for # None => other.app # job.app
      BY <1>2, <2>1 DEF GInv, AskedOnce
    <2>3. other.cached # None => metadata'[other.app] # None
      BY <2>2 DEF Awaited, JobType
    <2>4. ASSUME other.for # None
          PROVE  /\ Named(other.app)' => other.cached # None
                 /\ client'[other.for].began <= other.asked
                 /\ \E m \in DOMAIN gather'[other.for] :
                      gather'[other.for][m].app = other.app
                      /\ ~gather'[other.for][m].settled
      <3>1. other.for \in Client
        BY <2>4 DEF JobType
      <3>2. PICK m \in DOMAIN gather[other.for] :
              gather[other.for][m].app = other.app /\ ~gather[other.for][m].settled
        BY <2>2, <2>4 DEF Awaited
      <3>3. /\ m \in DOMAIN gather'[other.for]
            /\ gather'[other.for][m] = gather[other.for][m]
        BY <1>2, <1>3, <2>2, <2>4, <3>1, <3>2, SettleItems
      <3>4. QED
        BY <1>1, <2>2, <2>4, <3>2, <3>3 DEF Awaited
    <2>5. QED
      BY <2>1, <2>3, <2>4 DEF Awaited
  <1>10. AskedOnce'
    BY <1>8 DEF GInv, AskedOnce
  <1>11. QED
    BY <1>6, <1>7, <1>9, <1>10 DEF GInv

LEMMA JobOkStep ==
  ASSUME TypeOK, MTypeOK, GInv, NEW i \in DOMAIN asking, JobOk(i)
  PROVE  GInv'
  <1> DEFINE job == asking[i]
  <1>1. /\ job \in JobType /\ Awaited(job)
        /\ client \in [Client -> ClientType]
    BY UnderwayType DEF TypeOK, GInv
  <1>2. /\ Release(i) /\ Settle(job, job.asked, FALSE)
        /\ metadata' = [metadata EXCEPT ![job.app] = job.asked]
        /\ UNCHANGED <<vars, games>>
    BY DEF JobOk
  <1>3. job.asked \in Time /\ job.asked # None /\ job.app \in App
    BY <1>1 DEF JobType, Time
  <1>4. /\ metadata'[job.app] # None
        /\ \A a \in App : metadata[a] # None => metadata'[a] # None
    BY <1>2, <1>3 DEF MTypeOK
  <1>5. job.for # None => client[job.for].began - job.asked < MetadataTtl
    <2>1. SUFFICES ASSUME job.for # None
                   PROVE  client[job.for].began - job.asked < MetadataTtl
      OBVIOUS
    <2>2. client[job.for].began \in Nat /\ client[job.for].began <= job.asked
      BY <1>1, <2>1 DEF JobType, ClientType, Awaited, Time
    <2>3. QED
      BY <1>3, <2>2 DEF Time
  <1>6. QED
    BY <1>2, <1>3, <1>4, <1>5, SettleStep

LEMMA JobMissesStep ==
  ASSUME MTypeOK, GInv, NEW i \in DOMAIN asking, JobMisses(i)
  PROVE  GInv'
  <1>1. asking[i] \in JobType /\ Awaited(asking[i])
    BY UnderwayType DEF GInv
  <1>2. /\ Release(i) /\ Settle(asking[i], asking[i].cached, TRUE)
        /\ UNCHANGED <<vars, metadata, games>>
    BY DEF JobMisses
  <1>3. /\ asking[i].cached \in Time \cup {None}
        /\ asking[i].cached # None => metadata'[asking[i].app] # None
        /\ asking[i].for # None /\ Named(asking[i].app) => asking[i].cached # None
    BY <1>1, <1>2 DEF JobType, Awaited
  <1>4. QED
    BY <1>2, <1>3, SettleStep

(* A request nobody waits for ends with an error.                          *)
LEMMA OrphanBreaksStep ==
  ASSUME MTypeOK, GInv, NEW i \in DOMAIN asking, asking[i].for = None,
         Release(i), UNCHANGED <<vars, metadata, gather, games>>
  PROVE  GInv'
  <1>1. Settle(asking[i], None, TRUE)
    BY DEF Settle
  <1>2. QED
    BY <1>1, SettleStep

(* The gather breaks: nobody waits for its requests any more.              *)
LEMMA GatherBreaksStep ==
  ASSUME TypeOK, MTypeOK, GInv, NEW i \in DOMAIN asking, NEW c \in Client,
         GatherBreaks(i, c), UNCHANGED <<metadata, games>>
  PROVE  GInv'
  <1>1. /\ UNCHANGED <<metadata, games, cachedAt>>
        /\ \A d \in Client \ {c} : client'[d] = client[d] /\ gather'[d] = gather[d]
        /\ gather'[c] = << >>
        /\ \A a : Named(a)' <=> Named(a)
    BY DEF GatherBreaks, RefreshBreaks, Answered, TypeOK, MTypeOK, cache, Named
  <1>2. Shown'
    BY <1>1 DEF GInv, Shown, GameOK
  <1>3. ASSUME NEW d \in Client PROVE Collects(d)'
    <2>1. CASE d = c
      <3>1. DOMAIN gather'[d] = {}
        BY <1>1, <2>1
      <3>2. QED
        BY <3>1 DEF Collects, Ordered
    <2>2. CASE d # c
      <3>1. client'[d] = client[d] /\ gather'[d] = gather[d] /\ Collects(d)
        BY <1>1, <2>2 DEF GInv
      <3>2. QED
        BY <1>1, <3>1 DEF Collects, GameOK
    <2>3. QED
      BY <2>1, <2>2
  <1> DEFINE rest == RemoveAt(Underway, i)
             orphan(job) == IF job.for = c THEN [job EXCEPT !.for = None] ELSE job
  <1>4. Underway \in Seq(JobType) /\ i \in DOMAIN Underway
    BY UnderwayType
  <1>5. Underway' = Orphaned(rest, c) /\ Without(rest, Underway, i)
    BY <1>4, BreakRemoves, RestFacts
  <1>6. /\ DOMAIN Underway' = DOMAIN rest
        /\ \A k \in DOMAIN rest : Underway'[k] = orphan(rest[k])
    BY <1>5 DEF Orphaned
  <1> HIDE DEF rest
  <1>7. PICK f \in [DOMAIN rest -> (DOMAIN Underway) \ {i}] :
          /\ \A k, m \in DOMAIN rest : k # m => f[k] # f[m]
          /\ \A k \in DOMAIN rest : rest[k] = Underway[f[k]]
    BY <1>5 DEF Without
  <1>8. ASSUME NEW k \in DOMAIN rest
        PROVE  /\ Underway'[k].app = Underway[f[k]].app
               /\ Underway'[k].cached = Underway[f[k]].cached
               /\ Underway'[k].asked = Underway[f[k]].asked
               /\ Underway'[k].for # None =>
                    Underway'[k].for # c /\ Underway'[k].for = Underway[f[k]].for
    <2>1. PICK job \in JobType : job = Underway[f[k]]
      BY <1>7, UnderwayType
    <2>2. Underway'[k] = orphan(job)
      BY <1>6, <1>7, <2>1
    <2>3. QED
      BY <2>1, <2>2 DEF JobType
  <1>9. ASSUME NEW k \in DOMAIN Underway' PROVE Awaited(Underway[k])'
    <2>1. k \in DOMAIN rest /\ f[k] \in DOMAIN Underway
      BY <1>6, <1>7
    <2>2. PICK job \in JobType : job = Underway[f[k]] /\ Awaited(job)
      BY <2>1, UnderwayType DEF GInv
    <2>3. PICK job1 : job1 = Underway'[k]
      OBVIOUS
    <2>4. /\ job1.app = job.app /\ job1.cached = job.cached /\ job1.asked = job.asked
          /\ job1.for # None => job1.for # c /\ job1.for = job.for
      BY <1>8, <2>1, <2>2, <2>3
    <2>5. job1.cached # None => metadata'[job1.app] # None
      BY <1>1, <2>2, <2>4 DEF Awaited
    <2>6. ASSUME job1.for # None
          PROVE  /\ Named(job1.app)' => job1.cached # None
                 /\ client'[job1.for].began <= job1.asked
                 /\ \E m \in DOMAIN gather'[job1.for] :
                      gather'[job1.for][m].app = job1.app
                      /\ ~gather'[job1.for][m].settled
      <3>1. job1.for \in Client \ {c}
        BY <2>2, <2>4, <2>6 DEF JobType
      <3>2. client'[job1.for] = client[job1.for] /\ gather'[job1.for] = gather[job1.for]
        BY <1>1, <3>1
      <3>3. QED
        BY <1>1, <2>2, <2>4, <2>6, <3>2 DEF Awaited
    <2>7. QED
      BY <2>3, <2>5, <2>6 DEF Awaited
  <1>10. AskedOnce'
    <2>1. ASSUME NEW k \in DOMAIN Underway', NEW m \in DOMAIN Underway', k # m,
                 Underway'[k].for # None, Underway'[k].for = Underway'[m].for
          PROVE  Underway'[k].app # Underway'[m].app
      <3>1. /\ k \in DOMAIN rest /\ m \in DOMAIN rest
            /\ f[k] \in DOMAIN Underway /\ f[m] \in DOMAIN Underway /\ f[k] # f[m]
        BY <1>6, <1>7, <2>1
      <3>2. /\ Underway[f[k]].for = Underway'[k].for
            /\ Underway[f[m]].for = Underway'[m].for
        BY <1>8, <2>1, <3>1
      <3>3. Underway[f[k]].app # Underway[f[m]].app
        BY <2>1, <3>1, <3>2 DEF GInv, AskedOnce
      <3>4. QED
        BY <1>8, <3>1, <3>3
    <2>2. QED
      BY <2>1 DEF AskedOnce
  <1>11. QED
    BY <1>2, <1>3, <1>9, <1>10 DEF GInv

(* A chart has come: what is shown is in the cache, so the new gather has  *)
(* it from the start.                                                      *)
LEMMA ChartParsedStep ==
  ASSUME IInv, MTypeOK, SlotsAccounted, GInv, NEW c \in Client, ChartParsed(c)
  PROVE  GInv'
  <1>1. /\ TypeOK /\ client \in [Client -> ClientType] /\ now \in Nat
        /\ metadata \in [App -> Time \cup {None}]
        /\ gather \in [Client -> Seq(GameType)]
    BY DEF IInv, TypeOK, MTypeOK, Time
  <1>2. PICK entries \in Charts, jobs \in Seq(JobType) :
          /\ gather' = [gather EXCEPT ![c] = Gathered(entries)]
          /\ Started(jobs)
          /\ AskedFor(entries, c, jobs)
    BY <1>1, ParsedAsks
  <1>3. /\ client[c].pc = "chart"
        /\ client' = [client EXCEPT ![c] =
             [pc |-> "metadata", began |-> client[c].began, chart |-> now,
              answer |-> client[c].answer]]
        /\ UNCHANGED <<metadata, games, cachedAt>>
    BY DEF ChartParsed, ChartArrives, Enter, cache
  <1>4. /\ client'[c].pc = "metadata" /\ client'[c].began = client[c].began
        /\ client[c].began \in Nat /\ client[c].began <= now
    BY <1>1, <1>3 DEF ClientType, Time, IInv, RefreshOK, Refreshing
  <1>5. /\ gather'[c] = Gathered(entries)
        /\ \A d \in Client \ {c} : client'[d] = client[d] /\ gather'[d] = gather[d]
    BY <1>1, <1>2, <1>3
  <1>6. \A a : Named(a)' <=> Named(a)
    BY <1>3 DEF Named
  <1>7. \A a : Named(a) => metadata[a] # None
    BY DEF Named, GInv, Shown, GameOK
  <1>8. /\ Ordered(entries)
        /\ \A i \in DOMAIN entries : entries[i].app \in App
    <2>1. entries \in Seq(Entry) /\ Ordered(entries)
      BY ChartFacts
    <2>2. \A i \in DOMAIN entries : entries[i] \in Entry
      BY <2>1, LenProperties, ElementOfSeq
    <2>3. QED
      BY <2>1, <2>2 DEF Entry
  <1>9. /\ DOMAIN gather'[c] = DOMAIN entries
        /\ \A i \in DOMAIN entries :
             /\ gather'[c][i].rank = entries[i].rank
             /\ gather'[c][i].app = entries[i].app
             /\ gather'[c][i].settled = Current(entries[i].app)
             /\ gather'[c][i].date = metadata[entries[i].app]
    BY <1>5 DEF Gathered
  <1>10. Shown'
    BY <1>3 DEF GInv, Shown, GameOK
  <1>11. ASSUME NEW d \in Client PROVE Collects(d)'
    <2>1. CASE d = c
      <3>1. Ordered(gather[c])'
        BY <1>8, <1>9 DEF Ordered
      <3>2. ASSUME NEW i \in DOMAIN entries
            PROVE  /\ GameOK(gather[c][i], client[c].began)'
                   /\ Named(gather[c][i].app)' => gather'[c][i].date # None
        <4> DEFINE app == entries[i].app
        <4>1. app \in App /\ metadata[app] \in Nat \cup {None}
          BY <1>1, <1>8 DEF Time
        <4>2. /\ gather'[c][i].app = app /\ gather'[c][i].date = metadata[app]
              /\ gather'[c][i].settled = Current(app)
          BY <1>9
        <4>3. Current(app) =>
                metadata[app] # None /\ client'[c].began - metadata[app] < MetadataTtl
          BY <1>1, <1>4, <4>1 DEF Current
        <4> HIDE DEF app
        <4>4. QED
          BY <1>3, <1>6, <1>7, <4>2, <4>3 DEF GameOK
      <3>3. QED
        BY <1>4, <1>9, <2>1, <3>1, <3>2 DEF Collects
    <2>2. CASE d # c
      <3>1. client'[d] = client[d] /\ gather'[d] = gather[d] /\ Collects(d)
        BY <1>5, <2>2 DEF GInv
      <3>2. QED
        BY <1>3, <1>6, <3>1 DEF Collects, GameOK
    <2>3. QED
      BY <2>1, <2>2
  <1>12. /\ Underway \in Seq(JobType) /\ Len(Underway) \in Nat
         /\ DOMAIN Underway = 1..Len(Underway)
         /\ \A k \in DOMAIN Underway : Underway[k] \in JobType
         /\ Len(jobs) \in Nat /\ DOMAIN jobs = 1..Len(jobs)
    BY UnderwayType, LenProperties
  <1> DEFINE n == Len(Underway)
  <1>13. /\ DOMAIN Underway' = 1..(n + Len(jobs))
         /\ \A k \in 1..(n + Len(jobs)) :
              Underway'[k] = IF k <= n THEN Underway[k] ELSE jobs[k - n]
    <2>1. Underway' = Underway \o jobs
      BY <1>2, StartedAppends
    <2>2. /\ Underway' \in Seq(JobType) /\ Len(Underway') = n + Len(jobs)
          /\ \A k \in 1..(n + Len(jobs)) :
               Underway'[k] = IF k <= n THEN Underway[k] ELSE jobs[k - n]
      BY <1>12, <2>1, ConcatProperties
    <2> HIDE DEF n
    <2>3. QED
      BY <2>2, LenProperties
  <1>14. \A k \in DOMAIN Underway' :
           \/ k \in DOMAIN Underway /\ Underway'[k] = Underway[k]
           \/ /\ k \notin DOMAIN Underway
              /\ k - n \in DOMAIN jobs /\ Underway'[k] = jobs[k - n]
    BY <1>12, <1>13
  (* Nobody asked for this command before: it had no gather. *)
  <1>15. \A k \in DOMAIN Underway : Underway[k].for # c
    BY <1>3 DEF GInv, Awaited, Collects, NobodyAssumption
  <1>16. \A k \in DOMAIN jobs : jobs[k].for = c
    BY <1>2 DEF AskedFor, Job
  <1>17. ASSUME NEW k \in DOMAIN Underway' PROVE Awaited(Underway[k])'
    <2>1. CASE k \in DOMAIN Underway /\ Underway'[k] = Underway[k]
      <3>1. PICK job \in JobType :
              job = Underway[k] /\ Awaited(job) /\ job.for # c
        BY <1>12, <1>15, <2>1 DEF GInv
      <3>2. job.for # None =>
              client'[job.for] = client[job.for] /\ gather'[job.for] = gather[job.for]
        BY <1>5, <3>1 DEF JobType
      <3>3. QED
        BY <1>3, <1>6, <2>1, <3>1, <3>2 DEF Awaited
    <2>2. CASE k - n \in DOMAIN jobs /\ Underway'[k] = jobs[k - n]
      <3>1. PICK i \in DOMAIN entries :
              ~Current(entries[i].app) /\ Underway'[k] = Job(c, entries[i].app)
        BY <1>2, <2>2 DEF AskedFor
      <3>2. PICK job : job = Underway'[k]
        OBVIOUS
      <3>3. /\ job.for = c /\ job.app = entries[i].app
            /\ job.asked = now /\ job.cached = metadata[entries[i].app]
        BY <3>1, <3>2 DEF Job
      <3>4. gather'[c][i].app = job.app /\ ~gather'[c][i].settled
        BY <1>9, <3>1, <3>3
      <3>5. QED
        BY <1>3, <1>4, <1>6, <1>7, <1>9, <3>2, <3>3, <3>4 DEF Awaited
    <2>3. QED
      BY <1>14, <2>1, <2>2
  <1>18. AskedOnce'
    <2>1. ASSUME NEW k \in DOMAIN Underway', NEW m \in DOMAIN Underway', k # m,
                 Underway'[k].for # None, Underway'[k].for = Underway'[m].for
          PROVE  Underway'[k].app # Underway'[m].app
      <3>1. CASE k \in DOMAIN Underway /\ m \in DOMAIN Underway
        BY <1>14, <2>1, <3>1 DEF GInv, AskedOnce
      <3>2. CASE k \notin DOMAIN Underway /\ m \notin DOMAIN Underway
        <4>1. k \in Int /\ m \in Int
          BY <1>12, <1>13
        <4>2. k - n # m - n
          BY <1>12, <2>1, <4>1
        <4>3. QED
          BY <1>2, <1>14, <3>2, <4>2 DEF AskedFor
      <3>3. CASE k \in DOMAIN Underway /\ m \notin DOMAIN Underway
        BY <1>14, <1>15, <1>16, <2>1, <3>3
      <3>4. CASE k \notin DOMAIN Underway /\ m \in DOMAIN Underway
        BY <1>14, <1>15, <1>16, <2>1, <3>4
      <3>5. QED
        BY <3>1, <3>2, <3>3, <3>4
    <2>2. QED
      BY <2>1 DEF AskedOnce
  <1>19. QED
    BY <1>10, <1>11, <1>17, <1>18 DEF GInv

(* The gather is complete, and becomes what is shown.                      *)
LEMMA GamesPublishedStep ==
  ASSUME IInv, MTypeOK, GInv, NEW c \in Client, GamesPublished(c)
  PROVE  GInv'
  <1>1. /\ client[c].pc = "metadata"
        /\ \A i \in DOMAIN gather[c] : gather[c][i].settled
        /\ games' = gather[c] /\ cachedAt' = client[c].began
        /\ gather' = [gather EXCEPT ![c] = << >>]
        /\ UNCHANGED <<metadata, asking, queue>>
    BY DEF GamesPublished, Publish, Range, requests
  <1>2. /\ gather'[c] = << >>
        /\ \A d \in Client \ {c} : gather'[d] = gather[d]
    BY <1>1 DEF MTypeOK
  <1>3. \A d \in Client \ {c} : client[d].pc # "metadata"
    BY <1>1 DEF IInv, HoldsLock, Refreshing
  <1>4. Shown'
    BY <1>1 DEF GInv, Collects, Shown, GameOK
  <1>5. ASSUME NEW d \in Client PROVE Collects(d)'
    <2>1. DOMAIN gather'[d] = {}
      BY <1>2, <1>3 DEF GInv, Collects
    <2>2. QED
      BY <2>1 DEF Collects, Ordered
  <1>6. Underway' = Underway
    BY <1>1 DEF Underway
  <1>7. ASSUME NEW k \in DOMAIN Underway PROVE Awaited(Underway[k])'
    <2>1. PICK job \in JobType : job = Underway[k] /\ Awaited(job)
      BY UnderwayType DEF GInv
    <2>2. job.for = None
      BY <1>1, <1>3, <2>1 DEF GInv, Collects, Awaited, JobType
    <2>3. QED
      BY <1>1, <1>6, <2>1, <2>2 DEF Awaited
  <1>8. AskedOnce'
    BY <1>6 DEF GInv, AskedOnce
  <1>9. \A k \in DOMAIN Underway' : Awaited(Underway[k])'
    BY <1>6, <1>7
  <1>10. QED
    BY <1>4, <1>5, <1>8, <1>9 DEF GInv

(* The commands that are not refreshing, and those that fail to get a      *)
(* chart, have no gather.                                                  *)
LEMMA GInvStep ==
  ASSUME IInv, MInv, GInv, [MNext]_allvars
  PROVE  GInv'
  <1>1. TypeOK /\ MTypeOK /\ SlotsAccounted /\ client \in [Client -> ClientType]
    BY DEF IInv, TypeOK, MInv
  <1>2. CASE UNCHANGED allvars
    BY <1>1, <1>2, QuietStep DEF allvars, vars, cache
  <1>3. CASE Tick /\ UNCHANGED mvars
    BY <1>1, <1>3, QuietStep DEF Tick, cache
  <1>4. ASSUME NEW c \in Client, (Ask(c) \/ Resume(c)) /\ UNCHANGED mvars
        PROVE  GInv'
    <2>1. client[c].pc # "metadata" /\ UNCHANGED cachedAt
      BY <1>4 DEF Ask, Resume, HasLock, cache
    <2>2. \A d \in Client \ {c} : client'[d] = client[d]
      BY <1>1, <1>4 DEF Ask, Resume, Served, StartRefresh, Enter, Answered
    <2>3. QED
      BY <1>1, <1>4, <2>1, <2>2, QuietStep
  <1>5. ASSUME NEW c \in Client, ChartMissing(c)
        PROVE  GInv'
    <2>1. client[c].pc # "metadata" /\ UNCHANGED <<mvars, cachedAt>>
      BY <1>5 DEF ChartMissing, RefreshFails, RefreshBreaks, cache
    <2>2. \A d \in Client \ {c} : client'[d] = client[d]
      BY <1>1, <1>5 DEF ChartMissing, RefreshFails, RefreshBreaks, Answered
    <2>3. QED
      BY <1>1, <2>1, <2>2, QuietStep
  <1>6. ASSUME NEW c \in Client, ChartParsed(c) \/ GamesPublished(c)
        PROVE  GInv'
    BY <1>1, <1>6, ChartParsedStep, GamesPublishedStep
  <1>7. ASSUME NEW i \in DOMAIN asking, JobEnds(i)
        PROVE  GInv'
    <2>1. CASE JobOk(i)
      BY <1>1, <2>1, JobOkStep
    <2>2. CASE JobMisses(i)
      BY <1>1, <2>2, JobMissesStep
    <2>3. CASE JobBreaks(i)
      BY <1>1, <2>3, GatherBreaksStep, OrphanBreaksStep DEF JobBreaks
    <2>4. QED
      BY <1>7, <2>1, <2>2, <2>3 DEF JobEnds
  <1>8. QED
    BY <1>2, <1>3, <1>4, <1>5, <1>6, <1>7 DEF MNext, MRefresh

LEMMA GInvariance == MSpec => [](IInv /\ MInv /\ GInv)
  <1>1. MInit => GInv
    <2> SUFFICES ASSUME MInit PROVE GInv
      OBVIOUS
    <2>1. /\ games = << >> /\ \A c \in Client : gather[c] = << >>
          /\ asking = << >> /\ queue = << >>
      BY DEF MInit
    <2>2. DOMAIN << >> = {} /\ Underway = << >>
      BY <2>1 DEF Underway
    <2>3. QED
      BY <2>1, <2>2 DEF GInv, Shown, Ordered, Collects, AskedOnce
  <1>2. IInv /\ MInv /\ GInv /\ [MNext]_allvars => GInv'
    BY GInvStep
  <1>3. QED
    BY <1>1, <1>2, ImplementsChart, Invariance, MInvariance, PTL DEF MSpec

(* What is shown is ordered by rank, without repetition, no longer than    *)
(* the limit and with all the metadata there was to get, whatever Steam    *)
(* sends.                                                                  *)
THEOREM ShownChartWellFormed == MSpec => []ChartWellFormed
  <1>1. GInv => ChartWellFormed
    BY DEF GInv, Shown, Ordered, ChartWellFormed, Range
  <1>2. QED
    BY <1>1, GInvariance, PTL

(* A game shown by its name keeps it in every later snapshot.              *)
THEOREM NamesKept == MSpec => NameKept
  <1> DEFINE Kept == \A g \in Range(games), h \in Range(games') :
                       g.app = h.app /\ g.date # None => h.date # None
  <1>1. ASSUME MInv, GInv, [MNext]_allvars PROVE Kept
    <2> SUFFICES ASSUME NEW i \in DOMAIN games, NEW j \in DOMAIN games',
                        games[i].app = games'[j].app, games[i].date # None
                 PROVE  games'[j].date # None
      BY DEF Range
    <2>1. CASE \E c \in Client : GamesPublished(c)
      <3>1. PICK c \in Client : games' = gather[c]
        BY <2>1 DEF GamesPublished
      <3>2. QED
        BY <1>1, <3>1 DEF GInv, Collects, Named
    <2>2. CASE UNCHANGED games
      <3>1. i \in Nat /\ j \in DOMAIN games /\ j \in Nat /\ games'[j] = games[j]
        BY <1>1, <2>2, LenProperties DEF MInv, MTypeOK
      <3>2. i = j
        BY <1>1, <3>1 DEF GInv, Shown, Ordered
      <3>3. QED
        BY <3>1, <3>2
    <2>3. UNCHANGED games \/ \E c \in Client : GamesPublished(c)
      <3>1. CASE \E c \in Client : MRefresh(c)
        <4>1. PICK c \in Client : MRefresh(c)
          BY <3>1
        <4>2. CASE ChartParsed(c)
          BY <4>2 DEF ChartParsed
        <4>3. CASE ChartMissing(c)
          BY <4>3 DEF ChartMissing, mvars
        <4>4. QED
          BY <4>1, <4>2, <4>3 DEF MRefresh
      <3>2. CASE \E k \in DOMAIN asking : JobEnds(k)
        <4>1. PICK k \in DOMAIN asking : JobEnds(k)
          BY <3>2
        <4>2. CASE JobOk(k)
          BY <4>2 DEF JobOk
        <4>3. CASE JobMisses(k)
          BY <4>3 DEF JobMisses
        <4>4. CASE JobBreaks(k)
          BY <4>4 DEF JobBreaks
        <4>5. QED
          BY <4>1, <4>2, <4>3, <4>4 DEF JobEnds
      <3>3. QED
        BY <1>1, <3>1, <3>2 DEF MNext, allvars, mvars
    <2>4. QED
      BY <2>1, <2>2, <2>3
  <1>2. MInv /\ GInv /\ [MNext]_allvars => [Kept]_allvars
    BY <1>1
  <1>3. QED
    BY <1>2, GInvariance, PTL DEF MSpec, NameKept

(* Metadata shown as fresh is no older than both lifetimes together, with  *)
(* any number of slots, however long the requests wait.                    *)
THEOREM MetadataFresh == MSpec => FreshMetadata
  <1> DEFINE Young == \A c \in Client : AnsweredFresh(c) =>
                        \A g \in Range(games) :
                          g.missed \/ now - g.date < CacheTtl + MetadataTtl
  <1>1. ASSUME IInv, MInv, GInv, [MNext]_allvars PROVE Young
    <2> SUFFICES ASSUME NEW c \in Client, AnsweredFresh(c),
                        NEW i \in DOMAIN games, ~games[i].missed
                 PROVE  now - games[i].date < CacheTtl + MetadataTtl
      BY DEF Range
    <2>1. /\ now \in Nat /\ cachedAt \in Nat /\ CacheTtl \in Nat /\ MetadataTtl \in Nat
          /\ client \in [Client -> ClientType]
      BY <1>1 DEF IInv, TypeOK, Time
    <2>2. /\ games[i].date \in Nat /\ cachedAt - games[i].date < MetadataTtl
      <3>1. games[i] \in GameType
        BY <1>1, LenProperties, ElementOfSeq DEF MInv, MTypeOK
      <3>2. QED
        BY <1>1, <3>1 DEF GInv, Shown, GameOK, GameType, Time
    <2>3. now - cachedAt < CacheTtl
      <3>1. [Next]_vars
        BY <1>1, StepImplements
      <3>2. QED
        BY <2>1, <3>1 DEF AnsweredFresh, Next, vars, Tick, Ask, Resume, Refresh,
             Served, StartRefresh, Enter, Answered, ChartArrives, Publish,
             RefreshFails, RefreshBreaks, Fresh
    <2>4. QED
      BY <2>1, <2>2, <2>3
  <1>2. IInv /\ MInv /\ GInv /\ [MNext]_allvars => [Young]_allvars
    BY <1>1
  <1>3. QED
    BY <1>2, GInvariance, PTL DEF MSpec, FreshMetadata
-----------------------------------------------------------------------------
(* No refresh waits for nothing: the safety half of ServesChart.           *)
Requested(c, app) ==
  \E k \in DOMAIN Underway : Underway[k].for = c /\ Underway[k].app = app

Attended(c) ==
  \A i \in DOMAIN gather[c] :
    gather[c][i].settled \/ Requested(c, gather[c][i].app)

(* The requests that stay are still there when one is taken out.           *)
LEMMA OthersStay ==
  ASSUME NEW T, NEW s \in Seq(T), NEW i \in DOMAIN s, NEW k \in DOMAIN s, k # i
  PROVE  \E m \in DOMAIN RemoveAt(s, i) : RemoveAt(s, i)[m] = s[k]
  <1>1. Len(s) \in Nat /\ i \in 1..Len(s) /\ k \in 1..Len(s)
    BY LenProperties
  <1>2. PICK r : r = RemoveAt(s, i)
    OBVIOUS
  <1>3. /\ r \in Seq(T) /\ Len(r) = Len(s) - 1
        /\ \A m \in 1..(Len(s) - 1) : r[m] = IF m < i THEN s[m] ELSE s[m + 1]
    BY <1>2, RemoveAtFacts
  <1>4. DOMAIN r = 1..(Len(s) - 1)
    BY <1>3, LenProperties
  <1>5. CASE k < i
    <2>1. k \in 1..(Len(s) - 1)
      BY <1>1, <1>5
    <2>2. r[k] = s[k]
      BY <1>3, <1>5, <2>1
    <2>3. QED
      BY <1>2, <1>4, <2>1, <2>2
  <1>6. CASE ~(k < i)
    <2>1. k - 1 \in 1..(Len(s) - 1) /\ ~(k - 1 < i) /\ (k - 1) + 1 = k
      BY <1>1, <1>6
    <2>2. r[k - 1] = s[k]
      BY <1>3, <2>1
    <2>3. QED
      BY <1>2, <1>4, <2>1, <2>2
  <1>7. QED
    BY <1>5, <1>6

(* A request that ends settles its game, and leaves the others' requests.  *)
LEMMA SettleAttends ==
  ASSUME MTypeOK, NEW i \in DOMAIN asking, Release(i), NEW date, NEW missed,
         Settle(asking[i], date, missed), NEW c \in Client, Attended(c)
  PROVE  Attended(c)'
  <1>1. /\ Underway \in Seq(JobType) /\ i \in DOMAIN Underway
        /\ Underway[i] = asking[i] /\ asking[i] \in JobType
    BY UnderwayType
  <1>2. Underway' = RemoveAt(Underway, i)
    BY ReleaseRemoves
  <1>3. /\ DOMAIN gather'[c] = DOMAIN gather[c]
        /\ \A k \in DOMAIN gather[c] :
             /\ gather'[c][k].app = gather[c][k].app
             /\ asking[i].for = c /\ gather[c][k].app = asking[i].app =>
                  gather'[c][k].settled
             /\ ~(asking[i].for = c /\ gather[c][k].app = asking[i].app) =>
                  gather'[c][k] = gather[c][k]
    BY <1>1, SettleItems
  <1>4. ASSUME NEW k \in DOMAIN gather[c], ~gather'[c][k].settled
        PROVE  Requested(c, gather[c][k].app)'
    <2>1. /\ ~(asking[i].for = c /\ gather[c][k].app = asking[i].app)
          /\ ~gather[c][k].settled /\ gather'[c][k].app = gather[c][k].app
      BY <1>3, <1>4
    <2>2. PICK m \in DOMAIN Underway :
            Underway[m].for = c /\ Underway[m].app = gather[c][k].app
      BY <2>1 DEF Attended, Requested
    <2>3. m # i
      BY <1>1, <2>1, <2>2
    <2>4. PICK h \in DOMAIN Underway' : Underway'[h] = Underway[m]
      BY <1>1, <1>2, <2>3, OthersStay
    <2>5. QED
      BY <2>1, <2>2, <2>4 DEF Requested
  <1>5. QED
    BY <1>3, <1>4 DEF Attended

(* A gather that breaks takes no request away from another.                *)
LEMMA BreakAttends ==
  ASSUME TypeOK, MTypeOK, NEW i \in DOMAIN asking, NEW b \in Client,
         asking[i].for = b, GatherBreaks(i, b), NEW c \in Client, Attended(c)
  PROVE  Attended(c)'
  <1>1. gather' = [gather EXCEPT ![b] = << >>] /\ gather \in [Client -> Seq(GameType)]
    BY DEF GatherBreaks, MTypeOK
  <1>2. CASE c = b
    <2>1. DOMAIN gather'[c] = {}
      BY <1>1, <1>2
    <2>2. QED
      BY <2>1 DEF Attended
  <1>3. CASE c # b
    <2>1. gather'[c] = gather[c]
      BY <1>1, <1>3
    <2>2. /\ Underway \in Seq(JobType) /\ i \in DOMAIN Underway
          /\ Underway[i] = asking[i]
      BY UnderwayType
    <2>3. PICK rest : rest = RemoveAt(Underway, i)
      OBVIOUS
    <2>4. Underway' = Orphaned(rest, b)
      BY <2>3, BreakRemoves
    <2>5. /\ DOMAIN Underway' = DOMAIN rest
          /\ \A m \in DOMAIN rest : rest[m].for = c => Underway'[m] = rest[m]
      BY <1>3, <2>4 DEF Orphaned
    <2>6. ASSUME NEW k \in DOMAIN gather[c], ~gather[c][k].settled
          PROVE  Requested(c, gather[c][k].app)'
      <3>1. PICK m \in DOMAIN Underway :
              Underway[m].for = c /\ Underway[m].app = gather[c][k].app
        BY <2>6 DEF Attended, Requested
      <3>2. m # i
        BY <1>3, <2>2, <3>1
      <3>3. PICK h \in DOMAIN rest : rest[h] = Underway[m]
        BY <2>2, <2>3, <3>2, OthersStay
      <3>4. h \in DOMAIN Underway' /\ Underway'[h] = Underway[m]
        BY <2>5, <3>1, <3>3
      <3>5. QED
        BY <2>1, <3>1, <3>4 DEF Requested
    <2>7. QED
      BY <2>1, <2>6 DEF Attended
  <1>4. QED
    BY <1>2, <1>3

(* A gather starts with a request for each game that has to be asked for.  *)
LEMMA ParsedAttends ==
  ASSUME TypeOK, MTypeOK, SlotsAccounted, NEW b \in Client, ChartParsed(b),
         NEW c \in Client, Attended(c)
  PROVE  Attended(c)'
  <1>1. PICK entries \in Charts, jobs \in Seq(JobType) :
          /\ gather' = [gather EXCEPT ![b] = Gathered(entries)]
          /\ Started(jobs)
          /\ AskedFor(entries, b, jobs)
    BY ParsedAsks
  <1>2. gather \in [Client -> Seq(GameType)]
    BY DEF MTypeOK
  <1>3. PICK n \in Nat : /\ n = Len(Underway) /\ DOMAIN Underway = 1..n
                         /\ Underway \in Seq(JobType)
    BY UnderwayType
  <1>4. PICK j \in Nat : j = Len(jobs) /\ DOMAIN jobs = 1..j
    BY LenProperties
  <1>5. /\ Underway' \in Seq(JobType) /\ Len(Underway') = n + j
        /\ \A k \in 1..(n + j) :
             Underway'[k] = IF k <= n THEN Underway[k] ELSE jobs[k - n]
    <2>1. Underway' = Underway \o jobs
      BY <1>1, StartedAppends
    <2>2. /\ Underway \o jobs \in Seq(JobType)
          /\ Len(Underway \o jobs) = n + j
          /\ \A k \in 1..(n + j) :
               (Underway \o jobs)[k] = IF k <= n THEN Underway[k] ELSE jobs[k - n]
      BY <1>3, <1>4, ConcatProperties
    <2>3. QED
      BY <2>1, <2>2
  <1>6. DOMAIN Underway' = 1..(n + j)
    BY <1>5, LenProperties
  <1>7. \A k \in DOMAIN Underway : k \in DOMAIN Underway' /\ Underway'[k] = Underway[k]
    BY <1>3, <1>5, <1>6
  <1>8. \A k \in DOMAIN jobs : n + k \in DOMAIN Underway' /\ Underway'[n + k] = jobs[k]
    <2>1. ASSUME NEW k \in 1..j
          PROVE  n + k \in 1..(n + j) /\ ~(n + k <= n) /\ (n + k) - n = k
      OBVIOUS
    <2>2. QED
      BY <1>4, <1>5, <1>6, <2>1
  <1>9. CASE c = b
    <2>1. /\ DOMAIN gather'[c] = DOMAIN entries
          /\ \A i \in DOMAIN entries :
               /\ gather'[c][i].app = entries[i].app
               /\ gather'[c][i].settled = Current(entries[i].app)
      BY <1>1, <1>2, <1>9 DEF Gathered
    <2>2. ASSUME NEW i \in DOMAIN entries, ~gather'[c][i].settled
          PROVE  Requested(c, gather[c][i].app)'
      <3>1. PICK k \in DOMAIN jobs : jobs[k] = Job(b, entries[i].app)
        BY <1>1, <2>1, <2>2 DEF AskedFor
      <3>2. jobs[k].for = c /\ jobs[k].app = entries[i].app
        BY <1>9, <3>1 DEF Job
      <3>3. QED
        BY <1>8, <2>1, <3>2 DEF Requested
    <2>3. QED
      BY <2>1, <2>2 DEF Attended
  <1>10. CASE c # b
    <2>1. gather'[c] = gather[c]
      BY <1>1, <1>2, <1>10
    <2>2. ASSUME NEW i \in DOMAIN gather[c], ~gather[c][i].settled
          PROVE  Requested(c, gather[c][i].app)'
      <3>1. PICK m \in DOMAIN Underway :
              Underway[m].for = c /\ Underway[m].app = gather[c][i].app
        BY <2>2 DEF Attended, Requested
      <3>2. QED
        BY <1>7, <2>1, <3>1 DEF Requested
    <2>3. QED
      BY <2>1, <2>2 DEF Attended
  <1>11. QED
    BY <1>9, <1>10

LEMMA AttendedStep ==
  ASSUME TypeOK, MInv, [MNext]_allvars, NEW c \in Client, Attended(c)
  PROVE  Attended(c)'
  <1>1. MTypeOK /\ SlotsAccounted
    BY DEF MInv
  <1>2. CASE UNCHANGED <<gather, asking, queue>>
    BY <1>2 DEF Attended, Requested, Underway
  <1>3. ASSUME NEW b \in Client, ChartParsed(b) PROVE Attended(c)'
    BY <1>1, <1>3, ParsedAttends
  <1>4. ASSUME NEW b \in Client, GamesPublished(b) PROVE Attended(c)'
    <2>1. gather' = [gather EXCEPT ![b] = << >>] /\ UNCHANGED <<asking, queue>>
      BY <1>4 DEF GamesPublished, requests
    <2>2. Underway' = Underway /\ (gather'[c] = gather[c] \/ gather'[c] = << >>)
      BY <1>1, <2>1 DEF Underway, MTypeOK
    <2>3. QED
      BY <2>2 DEF Attended, Requested
  <1>5. ASSUME NEW i \in DOMAIN asking, JobEnds(i) PROVE Attended(c)'
    <2>1. CASE JobOk(i)
      BY <1>1, <2>1, SettleAttends DEF JobOk
    <2>2. CASE JobMisses(i)
      BY <1>1, <2>2, SettleAttends DEF JobMisses
    <2>3. ASSUME asking[i].for = None, Release(i), UNCHANGED gather
          PROVE  Attended(c)'
      <3>1. Settle(asking[i], None, TRUE)
        BY <2>3 DEF Settle
      <3>2. QED
        BY <1>1, <2>3, <3>1, SettleAttends
    <2>4. ASSUME NEW b \in Client, asking[i].for = b, GatherBreaks(i, b)
          PROVE  Attended(c)'
      BY <1>1, <2>4, BreakAttends
    <2>5. QED
      BY <1>5, <2>1, <2>2, <2>3, <2>4 DEF JobEnds, JobBreaks
  <1>6. QED
    BY <1>2, <1>3, <1>4, <1>5 DEF MNext, MRefresh, ChartMissing, mvars, requests, allvars

(* A refresh that waits for metadata always has a request under way for    *)
(* each game that lacks it, and some request holds a slot: whatever broke  *)
(* before, there is an answer yet to come for it to wait for.              *)
THEOREM NothingAwaitedInVain ==
  MSpec => [](\A c \in Client : \A i \in DOMAIN gather[c] :
                ~gather[c][i].settled =>
                  Requested(c, gather[c][i].app) /\ asking # << >>)
  <1> DEFINE AllAttended == \A c \in Client : Attended(c)
             InHand == \A c \in Client : \A i \in DOMAIN gather[c] :
                         ~gather[c][i].settled =>
                           Requested(c, gather[c][i].app) /\ asking # << >>
  <1>1. MInit => AllAttended
    <2>1. DOMAIN << >> = {}
      OBVIOUS
    <2>2. MInit => \A c \in Client : gather[c] = << >>
      BY DEF MInit
    <2>3. QED
      BY <2>1, <2>2 DEF Attended
  <1>2. IInv /\ MInv /\ AllAttended /\ [MNext]_allvars => AllAttended'
    BY AttendedStep DEF IInv
  <1>3. MInv /\ AllAttended => InHand
    <2> SUFFICES ASSUME MInv, AllAttended, NEW c \in Client,
                        NEW i \in DOMAIN gather[c], ~gather[c][i].settled
                 PROVE  Requested(c, gather[c][i].app) /\ asking # << >>
      OBVIOUS
    <2>1. Requested(c, gather[c][i].app)
      BY DEF Attended
    <2>2. PICK k \in DOMAIN Underway : TRUE
      BY <2>1 DEF Requested
    <2>3. SUFFICES ASSUME asking = << >> PROVE FALSE
      BY <2>1
    <2>4. /\ queue \in Seq(JobType) /\ free + Len(asking) = Slots /\ free \in Nat
          /\ queue # << >> => free = 0
      BY DEF MInv, MTypeOK, SlotsAccounted
    <2>5. queue = << >>
      BY <2>3, <2>4
    <2>6. Underway = << >>
      BY <2>3, <2>5 DEF Underway
    <2>7. QED
      BY <2>2, <2>6
  <1> HIDE DEF AllAttended, InHand
  <1>4. QED
    BY <1>1, <1>2, <1>3, ImplementsChart, Invariance, MInvariance, PTL DEF MSpec, InHand
=============================================================================
