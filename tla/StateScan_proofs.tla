---------------------------- MODULE StateScan_proofs ----------------------------
(***************************************************************************)
(* Theorems of a traversal, for any collection, any keyword hash and any   *)
(* chunk size: what the query keywords select is what their documentation  *)
(* promises, the loop yields it once and in order whatever it is cut into, *)
(* pages join up, and every way out closes the cursor once.                *)
(***************************************************************************)
EXTENDS StateScan, SequenceTheorems, FiniteSetTheorems, TLAPS

--------------------------------------------------------------------------------
(* Iteration order.                                                        *)

LEMMA AheadOrders ==
    ASSUME NEW d, NEW a \in Nat, NEW b \in Nat
    PROVE  /\ ~Ahead(a, a, d)
           /\ a = b \/ Ahead(a, b, d) \/ Ahead(b, a, d)
           /\ ~(Ahead(a, b, d) /\ Ahead(b, a, d))
           /\ \A c \in Nat : Ahead(a, b, d) /\ Ahead(b, c, d) => Ahead(a, c, d)
BY DEF Ahead

LEMMA RankType ==
    ASSUME NEW d, NEW S \in SUBSET Nat, IsFiniteSet(S), NEW k \in S
    PROVE  /\ IsFiniteSet({ j \in S : Ahead(j, k, d) })
           /\ Cardinality(S) \in Nat
           /\ Rank(k, S, d) \in Nat /\ Rank(k, S, d) \in 0 .. Cardinality(S) - 1
<1> DEFINE ahead == { j \in S : Ahead(j, k, d) }
<1>1. ahead \in SUBSET S /\ k \notin ahead
    BY AheadOrders
<1>2. IsFiniteSet(ahead) /\ Cardinality(ahead) <= Cardinality(S) /\ Cardinality(ahead) # Cardinality(S)
    BY <1>1, FS_Subset
<1>3. Cardinality(S) \in Nat /\ Cardinality(ahead) \in Nat
    BY <1>2, FS_CardinalityType
<1> QED
    BY <1>2, <1>3 DEF Rank

LEMMA RankOrders ==
    ASSUME NEW d, NEW S \in SUBSET Nat, IsFiniteSet(S), NEW a \in S, NEW b \in S
    PROVE  Ahead(a, b, d) <=> Rank(a, S, d) < Rank(b, S, d)
<1>1. ASSUME NEW x \in S, NEW y \in S, Ahead(x, y, d) PROVE Rank(x, S, d) < Rank(y, S, d)
    <2> DEFINE upto(k) == { j \in S : Ahead(j, k, d) }
    <2>1. upto(x) \subseteq upto(y) /\ x \in upto(y) /\ x \notin upto(x)
        BY <1>1, AheadOrders
    <2>2. IsFiniteSet(upto(y))
        BY RankType
    <2>3. Cardinality(upto(x)) <= Cardinality(upto(y)) /\ Cardinality(upto(x)) # Cardinality(upto(y))
        BY <2>1, <2>2, FS_Subset
    <2>4. Rank(x, S, d) \in Nat /\ Rank(y, S, d) \in Nat
        BY RankType
    <2> QED
        BY <2>3, <2>4 DEF Rank
<1>2. Rank(a, S, d) \in Nat /\ Rank(b, S, d) \in Nat
    BY RankType
<1> QED
    BY <1>1, <1>2, AheadOrders

(* Ranks number the items of a set from 0, so each place has its item.     *)
LEMMA InOrderLists ==
    ASSUME NEW d, NEW S \in SUBSET Nat, IsFiniteSet(S)
    PROVE  /\ InOrder(S, d) \in Seq(S) /\ Len(InOrder(S, d)) = Cardinality(S)
           /\ DOMAIN InOrder(S, d) = 1 .. Cardinality(S)
           /\ \A i \in 1 .. Cardinality(S) :
                 InOrder(S, d)[i] \in S /\ Rank(InOrder(S, d)[i], S, d) = i - 1
           /\ \A k \in S : Rank(k, S, d) + 1 \in 1 .. Cardinality(S)
                           /\ InOrder(S, d)[Rank(k, S, d) + 1] = k
<1> DEFINE n == Cardinality(S)
           ranks == 0 .. n - 1
           rank == [k \in S |-> Rank(k, S, d)]
<1>1. n \in Nat
    BY FS_CardinalityType
<1>2. \A k \in S : Rank(k, S, d) \in ranks
    BY RankType
<1>3. \A a, b \in S : Rank(a, S, d) = Rank(b, S, d) => a = b
    <2> SUFFICES ASSUME NEW a \in S, NEW b \in S, Rank(a, S, d) = Rank(b, S, d) PROVE a = b
        OBVIOUS
    <2>1. Rank(a, S, d) \in Nat
        BY RankType
    <2>2. ~Ahead(a, b, d) /\ ~Ahead(b, a, d)
        BY <2>1, RankOrders
    <2> QED
        BY <2>2, AheadOrders
<1>4. rank \in Injection(S, ranks)
    BY <1>2, <1>3 DEF Injection, IsInjective
<1>5. IsFiniteSet(ranks) /\ Cardinality(ranks) = n
    <2>1. 0 \in Int /\ n - 1 \in Int
        BY <1>1
    <2>2. IsFiniteSet(ranks) /\ Cardinality(ranks) = IF 0 > n - 1 THEN 0 ELSE n - 1 - 0 + 1
        BY <2>1, FS_Interval
    <2> QED
        BY <1>1, <2>2
<1>6. rank \in Surjection(S, ranks)
    BY <1>4, <1>5, FS_Injection
<1>7. \A i \in 1 .. n : \E k \in S : Rank(k, S, d) = i - 1
    <2> SUFFICES ASSUME NEW i \in 1 .. n PROVE \E k \in S : rank[k] = i - 1
        OBVIOUS
    <2>1. i - 1 \in ranks
        BY <1>1
    <2> HIDE DEF ranks, rank
    <2> QED
        BY <1>6, <2>1 DEF Surjection
<1>8. \A i \in 1 .. n : InOrder(S, d)[i] \in S /\ Rank(InOrder(S, d)[i], S, d) = i - 1
    BY <1>7 DEF InOrder
<1>9. InOrder(S, d) \in [1 .. n -> S]
    BY <1>8 DEF InOrder
<1>10. InOrder(S, d) \in Seq(S) /\ Len(InOrder(S, d)) = n
    BY <1>1, <1>9
<1>11. ASSUME NEW k \in S
       PROVE  Rank(k, S, d) + 1 \in 1 .. n /\ InOrder(S, d)[Rank(k, S, d) + 1] = k
    <2> DEFINE i == Rank(k, S, d) + 1
    <2>1. i \in 1 .. n /\ i - 1 = Rank(k, S, d)
        BY <1>1, <1>2
    <2> HIDE DEF i
    <2>2. InOrder(S, d)[i] \in S /\ Rank(InOrder(S, d)[i], S, d) = Rank(k, S, d)
        BY <1>8, <2>1
    <2>3. InOrder(S, d)[i] = k
        BY <1>3, <2>2
    <2> QED
        BY <2>1, <2>3 DEF i
<1> QED
    BY <1>8, <1>9, <1>10, <1>11

(* The place of an item in the walk tells which items come before it.      *)
Place(k, S, d) == CHOOSE i \in DOMAIN InOrder(S, d) : InOrder(S, d)[i] = k

LEMMA Places ==
    ASSUME NEW d, NEW S \in SUBSET Nat, IsFiniteSet(S), NEW a \in S, NEW b \in S
    PROVE  /\ Place(a, S, d) >= Place(b, S, d) <=> ~Ahead(a, b, d)
           /\ Place(a, S, d) > Place(b, S, d) <=> Ahead(b, a, d)
           /\ Place(a, S, d) <= Place(b, S, d) <=> ~Ahead(b, a, d)
           /\ Place(a, S, d) < Place(b, S, d) <=> Ahead(a, b, d)
<1>1. ASSUME NEW k \in S PROVE Place(k, S, d) = Rank(k, S, d) + 1 /\ Rank(k, S, d) \in Nat
    <2> DEFINE walk == InOrder(S, d)
    <2>1. Rank(k, S, d) + 1 \in DOMAIN walk /\ walk[Rank(k, S, d) + 1] = k
        BY InOrderLists
    <2>2. \A i \in DOMAIN walk : walk[i] = k => i = Rank(k, S, d) + 1
        <3> SUFFICES ASSUME NEW i \in DOMAIN walk, walk[i] = k PROVE i = Rank(k, S, d) + 1
            OBVIOUS
        <3>1. i \in 1 .. Cardinality(S) /\ Rank(k, S, d) = i - 1 /\ Cardinality(S) \in Nat
            BY InOrderLists, FS_CardinalityType
        <3> QED
            BY <3>1
    <2>3. Rank(k, S, d) \in Nat
        BY RankType
    <2>4. Place(k, S, d) = CHOOSE i \in DOMAIN walk : walk[i] = k
        BY DEF Place
    <2> HIDE DEF walk
    <2> QED
        BY <2>1, <2>2, <2>3, <2>4
<1>2. /\ Place(a, S, d) = Rank(a, S, d) + 1 /\ Place(b, S, d) = Rank(b, S, d) + 1
      /\ Rank(a, S, d) \in Nat /\ Rank(b, S, d) \in Nat
    BY <1>1
<1> QED
    BY <1>2, RankOrders

LEMMA Least ==
    ASSUME NEW S \in SUBSET Nat, IsFiniteSet(S), S # {}
    PROVE  Min(S) \in S /\ \A k \in S : Min(S) <= k
<1> DEFINE first == InOrder(S, "forward")[1]
<1>1. 1 \in 1 .. Cardinality(S)
    BY FS_EmptySet, FS_CardinalityType
<1>2. first \in S /\ Rank(first, S, "forward") = 0
    BY <1>1, InOrderLists
<1>3. \A k \in S : first <= k
    <2> SUFFICES ASSUME NEW k \in S, ~(first <= k) PROVE FALSE
        BY Zenon
    <2> HIDE DEF first
    <2>0. k \in Nat /\ first \in Nat /\ k < first
        BY <1>2
    <2>1. Rank(k, S, "forward") \in Nat /\ Rank(k, S, "forward") < Rank(first, S, "forward")
        BY <1>2, <2>0, RankType, RankOrders DEF Ahead
    <2> QED
        BY <1>2, <2>1
<1> QED
    BY <1>2, <1>3 DEF Min

--------------------------------------------------------------------------------
(* The keywords: what raises.                                              *)

KeyFor(kd, v) == IF kd = "key" THEN v.type = "string"
                               ELSE v.type = "integer" /\ v.n \in 0 .. MaxUsize
Told == {"none", "ArgumentError", "TypeError"}

LEMMA ScalarTypes ==
    ASSUME NEW v \in Scalars
    PROVE  /\ v.type \in {"nil", "other", "integer", "string"}
           /\ v = Nil <=> v.type = "nil"
           /\ v.type = "integer" => v.n \in Int
           /\ v.type = "string" => v.n \in Nat
BY DEF Scalars, Nil, Other

LEMMA Conversion ==
    ASSUME NEW kd \in {"key", "position"}, NEW v \in Scalars
    PROVE  /\ ConvertFault(kd, v) \in Told
           /\ ConvertFault(kd, v) = "none" <=> KeyFor(kd, v)
           /\ KeyFor(kd, v) => v # Nil /\ v.n \in Nat
<1>1. MaxUsize \in Nat
    BY QueriesAssumption
<1>2. CASE kd = "key"
    BY <1>2, ScalarTypes DEF ConvertFault, KeyFor, Told
<1>3. CASE kd = "position"
    BY <1>1, <1>3, ScalarTypes DEF ConvertFault, KeyFor, Told
<1> QED
    BY <1>2, <1>3

LEMMA EdgeVerdict ==
    ASSUME NEW kd \in {"key", "position"}, NEW v \in Scalars, NEW w \in Scalars
    PROVE  /\ EdgeFault(kd, v, w) \in Told
           /\ EdgeFault(kd, v, w) = "none" <=>
                 /\ v = Nil \/ w = Nil
                 /\ \A u \in {v, w} \ {Nil} : KeyFor(kd, u)
<1>1. CASE v # Nil /\ w # Nil
    BY <1>1 DEF EdgeFault, Told
<1>2. CASE v # Nil /\ w = Nil
    BY <1>2, Conversion DEF EdgeFault
<1>3. CASE v = Nil /\ w # Nil
    BY <1>3, Conversion DEF EdgeFault
<1>4. CASE v = Nil /\ w = Nil
    BY <1>4 DEF EdgeFault, Told
<1> QED
    BY <1>1, <1>2, <1>3, <1>4

LEMMA RangeTypes ==
    ASSUME NEW r \in Scalars \cup Ranges
    PROVE  /\ r.type = "range" <=> r \in Ranges
           /\ r = Nil <=> r.type = "nil"
<1>1. CASE r \in Scalars
    <2>1. r.type # "range"
        BY <1>1, ScalarTypes
    <2>2. r \notin Ranges
        BY <2>1 DEF Ranges
    <2> QED
        BY <1>1, <2>1, <2>2, ScalarTypes
<1>2. CASE r \in Ranges
    BY <1>2 DEF Ranges, Nil
<1> QED
    BY <1>1, <1>2

LEMMA RangeVerdict ==
    ASSUME NEW kd \in {"key", "position"}, NEW r \in Scalars \cup Ranges
    PROVE  /\ RangeFault(r) \in Told /\ LowFault(kd, r) \in Told /\ HighFault(kd, r) \in Told
           /\ (RangeFault(r) = "none" /\ LowFault(kd, r) = "none" /\ HighFault(kd, r) = "none")
                 <=> \/ r = Nil
                     \/ /\ r.type = "range"
                        /\ \A u \in {r.low, r.high} \ {Nil} : KeyFor(kd, u)
<1>1. CASE r.type # "range"
    BY <1>1, RangeTypes DEF RangeFault, LowFault, HighFault, Told
<1>2. CASE r.type = "range"
    <2>1. r.low \in Scalars /\ r.high \in Scalars /\ r # Nil
        BY <1>2, RangeTypes DEF Ranges
    <2>2. /\ ConvertFault(kd, r.low) \in Told /\ ConvertFault(kd, r.high) \in Told
          /\ ConvertFault(kd, r.low) = "none" <=> KeyFor(kd, r.low)
          /\ ConvertFault(kd, r.high) = "none" <=> KeyFor(kd, r.high)
        BY <2>1, Conversion
    <2> QED
        BY <1>2, <2>1, <2>2 DEF RangeFault, LowFault, HighFault, Told
<1> QED
    BY <1>1, <1>2

(* A hash raises if and only if the documentation does not allow it, and   *)
(* then an ArgumentError or a TypeError (query.rs:86).                     *)
LEMMA RaisedUnlessSensible ==
    ASSUME NEW kd \in {"key", "position"}, NEW h \in KeywordHashes
    PROVE  /\ Raised(kd, h) \in Told
           /\ Raised(kd, h) = "none" <=> Sensible(kd, h)
<1> DEFINE faults == Faults(kd, h)
           bad == { i \in DOMAIN faults : faults[i] # "none" }
<1>t. /\ h.from \in Scalars /\ h.after \in Scalars /\ h.to \in Scalars /\ h.before \in Scalars
      /\ h.range \in Scalars \cup Ranges /\ h.limit \in Scalars /\ h.prefix \in Scalars
      /\ h.extra \in BOOLEAN
    BY DEF KeywordHashes
<1>d. /\ DOMAIN faults = 1 .. 8
      /\ faults[1] = (IF h.extra \/ (kd = "position" /\ h.prefix # Nil) THEN "ArgumentError" ELSE "none")
      /\ faults[2] = (IF h.prefix # Nil /\ h.prefix.type # "string" THEN "TypeError" ELSE "none")
      /\ faults[3] = EdgeFault(kd, h.from, h.after)
      /\ faults[4] = EdgeFault(kd, h.to, h.before)
      /\ faults[5] = RangeFault(h.range)
      /\ faults[6] = LowFault(kd, h.range)
      /\ faults[7] = HighFault(kd, h.range)
      /\ faults[8] = LimitFault(h.limit)
    BY DEF Faults
<1> HIDE DEF faults
<1>1. \A i \in 1 .. 8 : faults[i] \in Told
    <2>1. faults[8] \in Told
        BY <1>d DEF LimitFault, Told
    <2>2. faults[1] \in Told /\ faults[2] \in Told
        BY <1>d DEF Told
    <2>3. faults[3] \in Told /\ faults[4] \in Told
        BY <1>d, <1>t, EdgeVerdict
    <2>4. faults[5] \in Told /\ faults[6] \in Told /\ faults[7] \in Told
        BY <1>d, <1>t, RangeVerdict
    <2>5. \A i \in 1 .. 8 : i \in {1, 2, 3, 4, 5, 6, 7, 8}
        OBVIOUS
    <2> QED
        BY <2>1, <2>2, <2>3, <2>4, <2>5
<1>2. bad = {} <=> Sensible(kd, h)
    <2>1. bad = {} <=> /\ faults[1] = "none" /\ faults[2] = "none" /\ faults[3] = "none"
                       /\ faults[4] = "none" /\ faults[5] = "none" /\ faults[6] = "none"
                       /\ faults[7] = "none" /\ faults[8] = "none"
        <3>1. 1 .. 8 = {1, 2, 3, 4, 5, 6, 7, 8}
            OBVIOUS
        <3> QED
            BY <1>d, <3>1, Zenon
    <2>2. faults[8] = "none" <=>
              h.limit = Nil \/ (h.limit.type = "integer" /\ h.limit.n \in 1 .. MaxUsize)
        BY <1>d DEF LimitFault
    <2>3. (faults[1] = "none" /\ faults[2] = "none") <=>
              ~h.extra /\ (h.prefix = Nil \/ (kd = "key" /\ h.prefix.type = "string"))
        BY <1>d
    <2>4. (faults[3] = "none" /\ faults[4] = "none") <=>
              /\ h.from = Nil \/ h.after = Nil
              /\ h.to = Nil \/ h.before = Nil
              /\ \A v \in {h.from, h.after, h.to, h.before} \ {Nil} : KeyFor(kd, v)
        BY <1>d, <1>t, EdgeVerdict
    <2>5. (faults[5] = "none" /\ faults[6] = "none" /\ faults[7] = "none") <=>
              \/ h.range = Nil
              \/ /\ h.range.type = "range"
                 /\ \A v \in {h.range.low, h.range.high} \ {Nil} : KeyFor(kd, v)
        BY <1>d, <1>t, RangeVerdict
    <2>6. Sensible(kd, h) <=>
              /\ ~h.extra
              /\ h.from = Nil \/ h.after = Nil
              /\ h.to = Nil \/ h.before = Nil
              /\ \A v \in {h.from, h.after, h.to, h.before} \ {Nil} : KeyFor(kd, v)
              /\ \/ h.range = Nil
                 \/ /\ h.range.type = "range"
                    /\ \A v \in {h.range.low, h.range.high} \ {Nil} : KeyFor(kd, v)
              /\ h.limit = Nil \/ (h.limit.type = "integer" /\ h.limit.n \in 1 .. MaxUsize)
              /\ h.prefix = Nil \/ (kd = "key" /\ h.prefix.type = "string")
        BY Zenon DEF Sensible, KeyFor
    <2> QED
        BY <2>1, <2>2, <2>3, <2>4, <2>5, <2>6
<1>3. ASSUME bad # {} PROVE faults[Min(bad)] \in Told /\ faults[Min(bad)] # "none"
    <2>1. bad \in SUBSET Nat /\ bad \subseteq 1 .. 8
        BY <1>d
    <2>2. IsFiniteSet(bad)
        <3>1. 1 \in Int /\ 8 \in Int
            OBVIOUS
        <3>2. IsFiniteSet(1 .. 8)
            BY <3>1, FS_Interval
        <3> QED
            BY <2>1, <3>2, FS_Subset
    <2>3. Min(bad) \in bad
        BY <1>3, <2>1, <2>2, Least
    <2> QED
        BY <1>1, <1>d, <2>3
<1>4. Raised(kd, h) = IF bad = {} THEN "none" ELSE faults[Min(bad)]
    BY DEF Raised, faults
<1> QED
    BY <1>2, <1>3, <1>4 DEF Told

--------------------------------------------------------------------------------
(* The keywords: what is selected.                                         *)

(* The items a hash keeps of the walk, limit aside, by their order only.   *)
Passes(h, k, d) ==
    /\ h.from = Nil \/ ~Ahead(k, h.from.n, d)
    /\ h.after = Nil \/ Ahead(h.after.n, k, d)
    /\ h.to = Nil \/ ~Ahead(h.to.n, k, d)
    /\ h.before = Nil \/ Ahead(k, h.before.n, d)
    /\ h.range = Nil \/ Holds(h.range, k)
    /\ h.prefix = Nil \/ k \in Prefixed

Passing(h, d) == { k \in Live : Passes(h, k, d) }

SensibleHashes(kd) == { h \in KeywordHashes : Sensible(kd, h) }

LEMMA SensibleTypes ==
    ASSUME NEW kd \in {"key", "position"}, NEW h \in SensibleHashes(kd)
    PROVE  /\ \A v \in {h.from, h.after, h.to, h.before} \ {Nil} : v.n \in Nat
           /\ h.from = Nil \/ h.after = Nil
           /\ h.to = Nil \/ h.before = Nil
           /\ h.range # Nil => /\ h.range \in Ranges
                               /\ h.range.low = Nil \/ h.range.low.n \in Nat
                               /\ h.range.high = Nil \/ h.range.high.n \in Nat
           /\ h.limit # Nil => h.limit.n \in Nat \ {0}
<1>1. /\ h.from \in Scalars /\ h.after \in Scalars /\ h.to \in Scalars /\ h.before \in Scalars
      /\ h.range \in Scalars \cup Ranges
    BY DEF KeywordHashes, SensibleHashes
<1>2. /\ h.from = Nil \/ h.after = Nil
      /\ h.to = Nil \/ h.before = Nil
      /\ \A v \in {h.from, h.after, h.to, h.before} \ {Nil} : KeyFor(kd, v)
      /\ h.range = Nil \/ /\ h.range.type = "range"
                          /\ \A v \in {h.range.low, h.range.high} \ {Nil} : KeyFor(kd, v)
      /\ h.limit = Nil \/ h.limit.n \in 1 .. MaxUsize
    BY Zenon DEF Sensible, KeyFor, SensibleHashes
<1>3. \A v \in {h.from, h.after, h.to, h.before} \ {Nil} : v.n \in Nat
    BY <1>1, <1>2, Conversion
<1>4. h.range # Nil => h.range \in Ranges
    BY <1>1, <1>2, RangeTypes
<1>5. h.range # Nil => h.range.low \in Scalars /\ h.range.high \in Scalars
    BY <1>4 DEF Ranges
<1>6. h.range # Nil => /\ h.range.low = Nil \/ h.range.low.n \in Nat
                       /\ h.range.high = Nil \/ h.range.high.n \in Nat
    BY <1>2, <1>5, Conversion
<1>7. h.limit # Nil => h.limit.n \in Nat \ {0}
    BY <1>2, QueriesAssumption
<1> QED
    BY <1>2, <1>3, <1>4, <1>6, <1>7

LEMMA PassingTypes ==
    ASSUME NEW h, NEW d
    PROVE  Passing(h, d) \in SUBSET Nat /\ Passing(h, d) \in SUBSET Live /\ IsFiniteSet(Passing(h, d))
<1>1. Passing(h, d) \subseteq Live
    BY DEF Passing
<1> QED
    BY <1>1, FS_Subset, ScanAssumption

(* What the bounds of the core query keep.                                 *)
LEMMA SelectedItems ==
    ASSUME NEW kd \in {"key", "position"}, NEW h \in SensibleHashes(kd), NEW d
    PROVE  Selected(Live, d, Translate(h)) = FirstItems(InOrder(Passing(h, d), d), h.limit)
<1> DEFINE q == Translate(h)
           chosen == { k \in Live :
               /\ IF d = "forward" THEN Above(q.start, k) /\ Below(q.end, k)
                                   ELSE Below(q.start, k) /\ Above(q.end, k)
               /\ Above(q.low, k) /\ Below(q.high, k)
               /\ q.prefix = Nil \/ k \in Prefixed }
<1>1. /\ q.start = Edge(h.from, h.after) /\ q.end = Edge(h.to, h.before)
      /\ q.low = (IF h.range = Nil THEN Edge(Nil, Nil) ELSE Edge(h.range.low, Nil))
      /\ q.high = (IF h.range = Nil THEN Edge(Nil, Nil) ELSE RangeEnd(h.range))
      /\ q.prefix = h.prefix /\ q.limit = h.limit
    BY DEF Translate
<1> HIDE DEF q
<1>2. ASSUME NEW k \in Live, NEW v, NEW w, v = Nil \/ w = Nil,
             v # Nil => v.n \in Nat, w # Nil => w.n \in Nat
      PROVE  /\ Above(Edge(v, w), k) <=> (v = Nil \/ k >= v.n) /\ (w = Nil \/ k > w.n)
             /\ Below(Edge(v, w), k) <=> (v = Nil \/ k <= v.n) /\ (w = Nil \/ k < w.n)
    <2>1. CASE v # Nil
        BY <1>2, <2>1 DEF Edge, Above, Below
    <2>2. CASE v = Nil /\ w # Nil
        BY <1>2, <2>2 DEF Edge, Above, Below
    <2>3. CASE v = Nil /\ w = Nil
        BY <2>3 DEF Edge, Above, Below
    <2> QED
        BY <1>2, <2>1, <2>2, <2>3
<1>3. ASSUME NEW k \in Live
      PROVE  (IF d = "forward" THEN Above(q.start, k) /\ Below(q.end, k)
                               ELSE Below(q.start, k) /\ Above(q.end, k))
             <=> /\ h.from = Nil \/ ~Ahead(k, h.from.n, d)
                 /\ h.after = Nil \/ Ahead(h.after.n, k, d)
                 /\ h.to = Nil \/ ~Ahead(h.to.n, k, d)
                 /\ h.before = Nil \/ Ahead(k, h.before.n, d)
    <2>1. k \in Nat
        BY ScanAssumption
    <2>2. /\ h.from = Nil \/ h.after = Nil
          /\ h.from # Nil => h.from.n \in Nat
          /\ h.after # Nil => h.after.n \in Nat
          /\ h.to = Nil \/ h.before = Nil
          /\ h.to # Nil => h.to.n \in Nat
          /\ h.before # Nil => h.before.n \in Nat
        BY SensibleTypes
    <2>3. /\ Above(q.start, k) <=> (h.from = Nil \/ k >= h.from.n) /\ (h.after = Nil \/ k > h.after.n)
          /\ Below(q.start, k) <=> (h.from = Nil \/ k <= h.from.n) /\ (h.after = Nil \/ k < h.after.n)
        BY <1>1, <1>2, <2>2
    <2>4. /\ Above(q.end, k) <=> (h.to = Nil \/ k >= h.to.n) /\ (h.before = Nil \/ k > h.before.n)
          /\ Below(q.end, k) <=> (h.to = Nil \/ k <= h.to.n) /\ (h.before = Nil \/ k < h.before.n)
        BY <1>1, <1>2, <2>2
    <2>5. \A a, b \in Nat : /\ d = "forward" => (Ahead(a, b, d) <=> a < b)
                            /\ d # "forward" => (Ahead(a, b, d) <=> b < a)
        BY DEF Ahead
    <2> QED
        BY <2>1, <2>2, <2>3, <2>4, <2>5
<1>4. ASSUME NEW k \in Live
      PROVE  Above(q.low, k) /\ Below(q.high, k) <=> h.range = Nil \/ Holds(h.range, k)
    <2>1. k \in Nat
        BY ScanAssumption
    <2>2. CASE h.range = Nil
        <3>1. Above(Edge(Nil, Nil), k) /\ Below(Edge(Nil, Nil), k)
            BY DEF Edge, Above, Below
        <3> QED
            BY <1>1, <2>2, <3>1
    <2>3. CASE h.range # Nil
        <3> DEFINE low == h.range.low
                   high == h.range.high
        <3>1. /\ low = Nil \/ low.n \in Nat
              /\ high = Nil \/ high.n \in Nat
              /\ h.range.excl \in BOOLEAN
            BY <2>3, SensibleTypes DEF Ranges
        <3>2. q.low = Edge(low, Nil)
              /\ q.high = IF h.range.excl THEN Edge(Nil, high) ELSE Edge(high, Nil)
            BY <1>1, <2>3 DEF RangeEnd
        <3>3. Above(q.low, k) <=> low = Nil \/ k >= low.n
            BY <1>2, <3>1, <3>2
        <3>4. Below(q.high, k) <=> high = Nil \/ k < high.n \/ (k = high.n /\ ~h.range.excl)
            <4>1. CASE h.range.excl
                BY <1>2, <3>1, <3>2, <4>1
            <4>2. CASE ~h.range.excl
                BY <1>2, <2>1, <3>1, <3>2, <4>2
            <4> QED
                BY <4>1, <4>2
        <3> QED
            BY <2>1, <2>3, <3>1, <3>3, <3>4 DEF Holds
    <2> QED
        BY <2>2, <2>3
<1>5. chosen = Passing(h, d)
    BY <1>1, <1>3, <1>4 DEF Passing, Passes
<1> QED
    BY <1>1, <1>5 DEF Selected, q

(* What the documentation promises.                                        *)
LEMMA PromisedItems ==
    ASSUME NEW kd \in {"key", "position"}, NEW h \in SensibleHashes(kd), NEW d
    PROVE  Promised(Live, d, h) = FirstItems(InOrder(Passing(h, d), d), h.limit)
<1> DEFINE ends == { v.n : v \in {h.from, h.after, h.to, h.before} \ {Nil} }
           S == Live \union ends
           reached(k) == /\ h.from = Nil \/ Place(k, S, d) >= Place(h.from.n, S, d)
                         /\ h.after = Nil \/ Place(k, S, d) > Place(h.after.n, S, d)
                         /\ h.to = Nil \/ Place(k, S, d) <= Place(h.to.n, S, d)
                         /\ h.before = Nil \/ Place(k, S, d) < Place(h.before.n, S, d)
           kept(k) == /\ reached(k)
                      /\ h.range = Nil \/ Holds(h.range, k)
                      /\ h.prefix = Nil \/ k \in Prefixed
           all == InOrder({ k \in Live : kept(k) }, d)
<1>1. S \in SUBSET Nat /\ IsFiniteSet(S)
    <2>1. ends \subseteq {h.from.n} \cup {h.after.n} \cup {h.to.n} \cup {h.before.n}
        OBVIOUS
    <2>2. IsFiniteSet({h.from.n} \cup {h.after.n} \cup {h.to.n} \cup {h.before.n})
        <3>1. IsFiniteSet({h.from.n} \cup {h.after.n})
            BY FS_Singleton, FS_AddElement
        <3>2. IsFiniteSet(({h.from.n} \cup {h.after.n}) \cup {h.to.n})
            BY <3>1, FS_AddElement
        <3> QED
            BY <3>2, FS_AddElement
    <2>3. IsFiniteSet(ends)
        BY <2>1, <2>2, FS_Subset
    <2>4. ends \subseteq Nat
        BY SensibleTypes
    <2> QED
        BY <2>3, <2>4, FS_Union, ScanAssumption
<1> HIDE DEF S
<1>2. ASSUME NEW a \in S, NEW b \in S
      PROVE  /\ Place(a, S, d) >= Place(b, S, d) <=> ~Ahead(a, b, d)
             /\ Place(a, S, d) > Place(b, S, d) <=> Ahead(b, a, d)
             /\ Place(a, S, d) <= Place(b, S, d) <=> ~Ahead(b, a, d)
             /\ Place(a, S, d) < Place(b, S, d) <=> Ahead(a, b, d)
    BY <1>1, Places
<1>3. ASSUME NEW k \in Live
      PROVE  reached(k) <=> /\ h.from = Nil \/ ~Ahead(k, h.from.n, d)
                            /\ h.after = Nil \/ Ahead(h.after.n, k, d)
                            /\ h.to = Nil \/ ~Ahead(h.to.n, k, d)
                            /\ h.before = Nil \/ Ahead(k, h.before.n, d)
    <2>1. /\ k \in S
          /\ h.from = Nil \/ h.from.n \in S
          /\ h.after = Nil \/ h.after.n \in S
          /\ h.to = Nil \/ h.to.n \in S
          /\ h.before = Nil \/ h.before.n \in S
        BY DEF S
    <2> QED
        BY <1>2, <2>1
<1>4. { k \in Live : kept(k) } = Passing(h, d)
    BY <1>3 DEF Passing, Passes
<1>5. all \in Seq(Passing(h, d)) /\ Len(all) \in Nat
    <2>1. InOrder(Passing(h, d), d) \in Seq(Passing(h, d))
        BY PassingTypes, InOrderLists
    <2> QED
        BY <1>4, <2>1, LenProperties
<1>6. Promised(Live, d, h) =
          IF h.limit = Nil THEN all ELSE SubSeq(all, 1, Min({h.limit.n, Len(all)}))
    BY Zenon DEF Promised, Place, S
<1> QED
    <2>1. CASE h.limit = Nil
        BY <1>4, <1>6, <2>1 DEF FirstItems
    <2>2. CASE h.limit # Nil
        <3>1. h.limit.n \in Nat
            BY <2>2, SensibleTypes
        <3> HIDE DEF all
        <3>2. Min({h.limit.n, Len(all)}) = IF h.limit.n >= Len(all) THEN Len(all) ELSE h.limit.n
            BY <1>5, <3>1 DEF Min
        <3>3. SubSeq(all, 1, Len(all)) = all
            BY <1>5
        <3>4. Promised(Live, d, h) = FirstItems(all, h.limit)
            BY <1>6, <2>2, <3>2, <3>3 DEF FirstItems
        <3> QED
            BY <1>4, <3>4 DEF all
    <2> QED
        BY <2>1, <2>2

(* The query a hash becomes selects what the documentation promises.       *)
THEOREM QueriesKeepPromise ==
    ASSUME NEW kd \in {"key", "position"}, NEW h \in KeywordHashes, NEW d, Sensible(kd, h)
    PROVE  Selected(Live, d, Translate(h)) = Promised(Live, d, h)
BY SelectedItems, PromisedItems DEF SensibleHashes

--------------------------------------------------------------------------------
(* The inductive invariant.                                                *)

(* The sequence in which the query of this page gives its items, and that  *)
(* of the query without its pages.                                         *)
Whole == Selected(Live, direction, Translate(kw))
Unpaged == [kw EXCEPT !.after = Nil, !.limit = Nil]
Everything == InOrder(Passing(Unpaged, direction), direction)

Starts(s, t) == \E u \in Seq(Live) : t = s \o u

Typed ==
    /\ kind \in {"key", "position"} /\ kw \in KeywordHashes
    /\ TypeOK
    /\ answer \in [is : {"nothing", "items", "end", "error"}, items : Seq(Live)]
    /\ cursor \in [state : {"none", "open", "closed"}, rest : Seq(Live)]
    /\ closes \in {0, 1}

(* Before the cursor is opened nothing has happened.                       *)
NotOpened ==
    pc = "start" =>
        /\ outcome = "none" /\ read = "none" /\ closes = 0 /\ cursor.state = "none"
        /\ yielded = << >> /\ chunk = << >>

(* An answer stands between its arrival and the next step of the loop.     *)
Answered ==
    IF read = "answered"
    THEN /\ pc = "pulling" /\ answer.is # "nothing"
         /\ answer.is = "items" <=> answer.items # << >>
         /\ answer.is = "end" => cursor.rest = << >>
    ELSE answer = Nothing

(* While the loop runs, each selected item is in one of four places.       *)
Conserved ==
    pc \in {"pulling", "yielding"} =>
        /\ outcome = "none" /\ closes = 0 /\ cursor.state = "open" /\ Raised(kind, kw) = "none"
        /\ IF pc = "pulling" THEN chunk = << >> /\ read \in {"spawned", "answered"}
                             ELSE read = "none"
        /\ yielded \o (chunk \o (answer.items \o cursor.rest)) = Whole

(* A loop that is left raised at once, or it opened the cursor and closes. *)
Refused ==
    /\ outcome = Raised(kind, kw) /\ outcome # "none"
    /\ pc = "done" /\ cursor.state = "none" /\ closes = 0 /\ yielded = << >> /\ read = "none"
Ended ==
    /\ outcome \in {"exhausted", "left", "stopped", "state_error"}
    /\ Raised(kind, kw) = "none" /\ cursor.state # "none" /\ closes = 1
    /\ Starts(yielded, Whole)
    /\ read \in {"none", "orphaned"}
    /\ outcome = "exhausted" => yielded = Whole /\ chunk = << >> /\ read = "none"
Over == pc \in {"closing", "done"} => Refused \/ Ended

(* Earlier pages are a beginning of everything, and this one goes on after *)
(* their last key.                                                         *)
Paged ==
    earlier # << >> =>
        /\ kind = "key" /\ Sensible(kind, kw)
        /\ kw.from = Nil /\ kw.limit # Nil /\ kw.after = RubyStr(Last(earlier))
        /\ Starts(earlier, Everything)

ScanInv == Typed /\ NotOpened /\ Answered /\ Conserved /\ Over /\ Paged

LEMMA SameInput ==
    ASSUME UNCHANGED input
    PROVE  /\ Whole' = Whole /\ Everything' = Everything
           /\ UNCHANGED <<kind, kw, direction>>
           /\ Raised(kind, kw)' = Raised(kind, kw) /\ Sensible(kind, kw)' = Sensible(kind, kw)
BY DEF input, Whole, Everything, Unpaged

LEMMA SamePage ==
    ASSUME Paged, UNCHANGED <<input, earlier>>
    PROVE  Paged'
BY SameInput DEF Paged, Starts

--------------------------------------------------------------------------------
(* Sequences.                                                              *)

Regrouped(s, t, u) == (s \o t) \o u = s \o (t \o u)

LEMMA Regroup ==
    ASSUME NEW s \in Seq(Live), NEW t \in Seq(Live), NEW u \in Seq(Live)
    PROVE  Regrouped(s, t, u)
BY ConcatAssociative DEF Regrouped

LEMMA FrontMoves ==
    ASSUME NEW s \in Seq(Live), NEW t \in Seq(Live), NEW u \in Seq(Live), t # << >>
    PROVE  /\ Append(s, Head(t)) \in Seq(Live) /\ Tail(t) \in Seq(Live)
           /\ Append(s, Head(t)) \o (Tail(t) \o u) = s \o (t \o u)
<1>1. Head(t) \in Live /\ Tail(t) \in Seq(Live) /\ <<Head(t)>> \in Seq(Live)
    BY HeadTailProperties
<1>2. Append(s, Head(t)) = s \o <<Head(t)>> /\ Append(s, Head(t)) \in Seq(Live)
    BY <1>1, AppendIsConcat, AppendProperties
<1>3. <<Head(t)>> \o Tail(t) = t
    BY <1>1
<1>4. Tail(t) \o u \in Seq(Live)
    BY <1>1, ConcatProperties
<1> DEFINE first == <<Head(t)>>
<1>5. Regrouped(s, first, Tail(t) \o u) /\ Regrouped(first, Tail(t), u)
    <2>1. first \in Seq(Live)
        BY <1>1
    <2> HIDE DEF first
    <2> QED
        BY <1>1, <1>4, <2>1, Regroup
<1>6. /\ (s \o <<Head(t)>>) \o (Tail(t) \o u) = s \o (<<Head(t)>> \o (Tail(t) \o u))
      /\ <<Head(t)>> \o (Tail(t) \o u) = (<<Head(t)>> \o Tail(t)) \o u
    BY <1>5 DEF Regrouped
<1> QED
    BY <1>1, <1>2, <1>3, <1>6

(* One item handed on from the front of t to the end of s.                 *)
Handed(s, t, u) ==
    /\ Append(s, Head(t)) \in Seq(Live) /\ Tail(t) \in Seq(Live)
    /\ Append(s, Head(t)) \o (Tail(t) \o u) = s \o (t \o u)

LEMMA HandOn ==
    ASSUME NEW s \in Seq(Live), NEW t \in Seq(Live), NEW u \in Seq(Live), t # << >>
    PROVE  Handed(s, t, u)
BY FrontMoves DEF Handed

LEMMA Cut ==
    ASSUME NEW S, NEW s \in Seq(S), NEW n \in 0 .. Len(s)
    PROVE  /\ SubSeq(s, 1, n) \in Seq(S) /\ SubSeq(s, n + 1, Len(s)) \in Seq(S)
           /\ Len(SubSeq(s, 1, n)) = n
           /\ s = SubSeq(s, 1, n) \o SubSeq(s, n + 1, Len(s))
<1>1. Len(s) \in Nat /\ n \in Nat /\ n <= Len(s)
    BY LenProperties
<1>2. /\ SubSeq(s, 1, n) \in Seq(S) /\ Len(SubSeq(s, 1, n)) = n
      /\ \A i \in 1 .. n : SubSeq(s, 1, n)[i] = s[i]
    BY <1>1
<1>3. /\ SubSeq(s, n + 1, Len(s)) \in Seq(S) /\ Len(SubSeq(s, n + 1, Len(s))) = Len(s) - n
      /\ \A i \in 1 .. Len(s) - n : SubSeq(s, n + 1, Len(s))[i] = s[n + i]
    BY <1>1
<1> DEFINE t == SubSeq(s, 1, n)
           u == SubSeq(s, n + 1, Len(s))
<1> HIDE DEF t, u
<1>4. /\ t \o u \in Seq(S) /\ Len(t \o u) = Len(s)
      /\ \A i \in 1 .. Len(s) : (t \o u)[i] = IF i <= n THEN t[i] ELSE u[i - n]
    <2>1. t \in Seq(S) /\ Len(t) = n /\ u \in Seq(S) /\ Len(u) = Len(s) - n
        BY <1>2, <1>3 DEF t, u
    <2>2. n + (Len(s) - n) = Len(s)
        BY <1>1
    <2> QED
        BY <2>1, <2>2, ConcatProperties
<1>5. \A i \in 1 .. Len(s) : (t \o u)[i] = s[i]
    <2> SUFFICES ASSUME NEW i \in 1 .. Len(s) PROVE (t \o u)[i] = s[i]
        OBVIOUS
    <2>1. CASE i <= n
        BY <1>1, <1>2, <1>4, <2>1 DEF t
    <2>2. CASE ~(i <= n)
        <3>1. i - n \in 1 .. Len(s) - n /\ n + (i - n) = i
            BY <1>1, <2>2
        <3> QED
            BY <1>3, <1>4, <2>2, <3>1 DEF u
    <2> QED
        BY <2>1, <2>2
<1>6. s = t \o u
    BY <1>4, <1>5, SeqEqual
<1> QED
    BY <1>2, <1>3, <1>6 DEF t, u

LEMMA PrefixOfConcat ==
    ASSUME NEW S, NEW s \in Seq(S), NEW u \in Seq(S)
    PROVE  IsPrefix(s, s \o u)
<1>1. /\ Len(s) \in Nat /\ Len(u) \in Nat /\ s \o u \in Seq(S)
      /\ Len(s \o u) = Len(s) + Len(u)
      /\ \A i \in 1 .. Len(s) : (s \o u)[i] = s[i]
    BY LenProperties, ConcatProperties
<1>2. SubSeq(s, 1, Len(s)) = SubSeq(s \o u, 1, Len(s))
    <2> DEFINE t == s \o u
    <2> HIDE DEF t
    <2>1. /\ SubSeq(s, 1, Len(s)) = [i \in 1 .. Len(s) |-> s[i]]
          /\ SubSeq(t, 1, Len(s)) = [i \in 1 .. Len(s) |-> t[i]]
        BY <1>1 DEF t
    <2> QED
        BY <1>1, <2>1 DEF t
<1> QED
    BY <1>1, <1>2 DEF IsPrefix

LEMMA StartsIsPrefix ==
    ASSUME NEW s \in Seq(Live), NEW t, Starts(s, t)
    PROVE  IsPrefix(s, t)
BY PrefixOfConcat DEF Starts

LEMMA StartsChain ==
    ASSUME NEW r \in Seq(Live), NEW s \in Seq(Live), NEW t, NEW u \in Seq(Live),
           t = r \o u, Starts(s, u)
    PROVE  r \o s \in Seq(Live) /\ Starts(r \o s, t)
<1>1. PICK v \in Seq(Live) : u = s \o v
    BY DEF Starts
<1>2. (r \o s) \o v = r \o (s \o v)
    <2>1. Regrouped(r, s, v)
        BY Regroup
    <2> QED
        BY <2>1 DEF Regrouped
<1>3. r \o s \in Seq(Live)
    BY ConcatProperties
<1> QED
    BY <1>1, <1>2, <1>3 DEF Starts

--------------------------------------------------------------------------------
(* Pages.                                                                  *)

LEMMA FirstItemsStart ==
    ASSUME NEW s \in Seq(Live), NEW limit, limit = Nil \/ limit.n \in Nat \ {0}
    PROVE  /\ FirstItems(s, limit) \in Seq(Live)
           /\ Starts(FirstItems(s, limit), s)
           /\ FirstItems(s, limit) = << >> => s = << >>
<1>1. Len(s) \in Nat
    BY LenProperties
<1>2. CASE limit = Nil \/ limit.n >= Len(s)
    <2>1. FirstItems(s, limit) = s /\ << >> \in Seq(Live)
        BY <1>2, EmptySeq DEF FirstItems
    <2>2. s \o << >> = s
        BY ConcatEmptySeq
    <2> QED
        BY <2>1, <2>2 DEF Starts
<1>3. CASE limit # Nil /\ ~(limit.n >= Len(s))
    <2>1. limit.n \in 0 .. Len(s) /\ limit.n # 0
        BY <1>1, <1>3
    <2>2. FirstItems(s, limit) = SubSeq(s, 1, limit.n)
        BY <1>3 DEF FirstItems
    <2>3. /\ SubSeq(s, 1, limit.n) \in Seq(Live) /\ SubSeq(s, limit.n + 1, Len(s)) \in Seq(Live)
          /\ Len(SubSeq(s, 1, limit.n)) = limit.n
          /\ s = SubSeq(s, 1, limit.n) \o SubSeq(s, limit.n + 1, Len(s))
        BY <2>1, Cut
    <2>4. SubSeq(s, 1, limit.n) # << >>
        BY <2>1, <2>3, EmptySeq
    <2>5. Starts(SubSeq(s, 1, limit.n), s)
        BY <2>3, Zenon DEF Starts
    <2> QED
        BY <2>2, <2>3, <2>4, <2>5
<1> QED
    BY <1>2, <1>3

(* The items after x are numbered from x on.                               *)
LEMMA Beyond ==
    ASSUME NEW d, NEW A \in SUBSET Nat, IsFiniteSet(A), NEW x \in A
    PROVE  LET B == { k \in A : Ahead(x, k, d) }
               m == Rank(x, A, d) + 1
           IN  /\ B \in SUBSET Nat /\ IsFiniteSet(B)
               /\ Cardinality(A) = m + Cardinality(B)
               /\ \A i \in 1 .. Cardinality(B) : InOrder(A, d)[m + i] = InOrder(B, d)[i]
<1> DEFINE B == { k \in A : Ahead(x, k, d) }
           m == Rank(x, A, d) + 1
           upto == { j \in A : Ahead(j, x, d) } \cup {x}
<1>1. B \in SUBSET Nat /\ B \subseteq A /\ IsFiniteSet(B) /\ Cardinality(B) \in Nat
    BY FS_Subset, FS_CardinalityType
<1>2. IsFiniteSet(upto) /\ Cardinality(upto) = m /\ m \in Nat
    <2>1. IsFiniteSet({ j \in A : Ahead(j, x, d) }) /\ x \notin { j \in A : Ahead(j, x, d) }
        <3>1. x \in Nat /\ ~Ahead(x, x, d)
            BY AheadOrders
        <3>2. IsFiniteSet({ j \in A : Ahead(j, x, d) })
            BY RankType
        <3> QED
            BY <3>1, <3>2
    <2>2. /\ IsFiniteSet(upto)
          /\ Cardinality(upto) = Cardinality({ j \in A : Ahead(j, x, d) }) + 1
        BY <2>1, FS_AddElement
    <2>3. Rank(x, A, d) \in Nat
        BY RankType
    <2> QED
        BY <2>2, <2>3 DEF Rank
<1>3. \A j \in A : j \in upto <=> j \notin B
    BY AheadOrders
<1>4. A = upto \cup B /\ upto \cap B = {}
    BY <1>3
<1> HIDE DEF B, upto, m
<1>5. ASSUME NEW C, C \subseteq B PROVE Cardinality(upto \cup C) = m + Cardinality(C)
    <2>1. IsFiniteSet(C) /\ upto \cap C = {}
        BY <1>1, <1>4, <1>5, FS_Subset
    <2>2. Cardinality(upto \cup C) = Cardinality(upto) + Cardinality(C) - Cardinality(upto \cap C)
        BY <1>2, <2>1, FS_Union
    <2>3. Cardinality(upto \cap C) = 0
        BY <2>1, FS_EmptySet
    <2>4. Cardinality(C) \in Nat
        BY <2>1, FS_CardinalityType
    <2> QED
        BY <1>2, <2>2, <2>3, <2>4
<1>6. Cardinality(A) = m + Cardinality(B)
    BY <1>4, <1>5
<1>7. ASSUME NEW k \in B PROVE Rank(k, A, d) = m + Rank(k, B, d)
    <2> DEFINE C == { j \in B : Ahead(j, k, d) }
    <2>1. \A j \in upto : Ahead(j, k, d)
        <3>1. k \in Nat /\ x \in Nat /\ Ahead(x, k, d)
            BY <1>1 DEF B
        <3>2. \A j \in upto : j \in Nat /\ (j = x \/ Ahead(j, x, d))
            BY DEF upto
        <3> QED
            BY <3>1, <3>2, AheadOrders
    <2>2. { j \in A : Ahead(j, k, d) } = upto \cup C
        BY <1>4, <2>1
    <2>3. Cardinality(upto \cup C) = m + Cardinality(C)
        BY <1>5
    <2> QED
        BY <2>2, <2>3 DEF Rank
<1>8. ASSUME NEW i \in 1 .. Cardinality(B) PROVE InOrder(A, d)[m + i] = InOrder(B, d)[i]
    <2> DEFINE k == InOrder(B, d)[i]
    <2>1. k \in B /\ Rank(k, B, d) = i - 1
        BY <1>1, InOrderLists
    <2> HIDE DEF k
    <2>2. k \in A /\ Rank(k, A, d) + 1 = m + i
        BY <1>1, <1>2, <1>7, <2>1
    <2>3. InOrder(A, d)[Rank(k, A, d) + 1] = k
        BY <2>2, InOrderLists
    <2> QED
        BY <2>2, <2>3 DEF k
<1> QED
    BY <1>1, <1>6, <1>8 DEF B, m

(* The page after the last key that was given goes on where it ended.      *)
LEMMA PageContinues ==
    ASSUME NEW h \in KeywordHashes, NEW d, NEW e \in Seq(Live), e # << >>,
           h.from = Nil, h.after = RubyStr(Last(e)),
           NEW A, A = Passing([h EXCEPT !.after = Nil, !.limit = Nil], d),
           Starts(e, InOrder(A, d))
    PROVE  InOrder(A, d) = e \o InOrder(Passing(h, d), d)
<1> DEFINE x == Last(e)
           n == Len(e)
           u == [h EXCEPT !.after = Nil, !.limit = Nil]
           B == { k \in A : Ahead(x, k, d) }
<1>1. A \in SUBSET Nat /\ A \in SUBSET Live /\ IsFiniteSet(A) /\ Cardinality(A) \in Nat
    BY PassingTypes, FS_CardinalityType
<1>2. PICK rest \in Seq(Live) : InOrder(A, d) = e \o rest
    BY DEF Starts
<1>3. n \in Nat \ {0} /\ Len(rest) \in Nat /\ x = e[n]
    BY EmptySeq, LenProperties DEF Last
<1>4. /\ Len(InOrder(A, d)) = n + Len(rest)
      /\ \A i \in 1 .. n : InOrder(A, d)[i] = e[i]
    BY <1>2, <1>3, ConcatProperties
<1>5. x \in A /\ Rank(x, A, d) + 1 = n
    <2>1. Cardinality(A) = n + Len(rest)
        BY <1>1, <1>4, InOrderLists
    <2>2. n \in 1 .. Cardinality(A) /\ n \in 1 .. n
        BY <1>3, <2>1
    <2>3. InOrder(A, d)[n] = x
        BY <1>3, <1>4, <2>2
    <2>4. InOrder(A, d)[n] \in A /\ Rank(InOrder(A, d)[n], A, d) = n - 1
        BY <1>1, <2>2, InOrderLists
    <2> QED
        BY <1>3, <2>3, <2>4
<1>6. B = Passing(h, d)
    <2>1. /\ u.from = h.from /\ u.after = Nil /\ u.to = h.to /\ u.before = h.before
          /\ u.range = h.range /\ u.prefix = h.prefix
        BY DEF KeywordHashes
    <2>2. h.after.n = x /\ h.after # Nil
        BY DEF RubyStr, Nil
    <2> HIDE DEF u, x
    <2>3. \A k \in Live : Passes(h, k, d) <=> Passes(u, k, d) /\ Ahead(x, k, d)
        BY <2>1, <2>2 DEF Passes
    <2>4. A = Passing(u, d)
        BY DEF u
    <2> QED
        BY <2>3, <2>4 DEF Passing
<1>7. /\ IsFiniteSet(B) /\ B \in SUBSET Nat
      /\ Cardinality(A) = n + Cardinality(B)
      /\ \A i \in 1 .. Cardinality(B) : InOrder(A, d)[n + i] = InOrder(B, d)[i]
    <2>1. /\ IsFiniteSet(B) /\ B \in SUBSET Nat
          /\ Cardinality(A) = (Rank(x, A, d) + 1) + Cardinality(B)
          /\ \A i \in 1 .. Cardinality(B) :
                InOrder(A, d)[(Rank(x, A, d) + 1) + i] = InOrder(B, d)[i]
        <3>1. A \in SUBSET Nat /\ IsFiniteSet(A) /\ x \in A
            BY <1>1, <1>5
        <3> HIDE DEF x
        <3> QED
            BY <3>1, Beyond
    <2> QED
        BY <1>5, <2>1
<1>8. /\ InOrder(B, d) \in Seq(Live) /\ Len(InOrder(B, d)) = Cardinality(B)
      /\ InOrder(A, d) \in Seq(Live) /\ Len(InOrder(A, d)) = Cardinality(A)
    <2>1. InOrder(B, d) \in Seq(B) /\ Len(InOrder(B, d)) = Cardinality(B)
        BY <1>7, InOrderLists
    <2>2. InOrder(A, d) \in Seq(A) /\ Len(InOrder(A, d)) = Cardinality(A)
        BY <1>1, InOrderLists
    <2>3. B \subseteq Live /\ A \subseteq Live
        BY <1>1
    <2> QED
        BY <2>1, <2>2, <2>3
<1> HIDE DEF B, n, x
<1>9. /\ e \o InOrder(B, d) \in Seq(Live)
      /\ Len(e \o InOrder(B, d)) = Cardinality(A)
    BY <1>7, <1>8, ConcatProperties DEF n
<1>10. \A i \in 1 .. Cardinality(A) : (e \o InOrder(B, d))[i] = InOrder(A, d)[i]
    <2> SUFFICES ASSUME NEW i \in 1 .. Cardinality(A)
                 PROVE  (e \o InOrder(B, d))[i] = InOrder(A, d)[i]
        OBVIOUS
    <2>1. /\ Cardinality(B) \in Nat
          /\ (e \o InOrder(B, d))[i] = IF i <= n THEN e[i] ELSE InOrder(B, d)[i - n]
        <3>1. Cardinality(B) \in Nat
            BY <1>7, FS_CardinalityType
        <3>2. i \in 1 .. Len(e) + Len(InOrder(B, d))
            BY <1>7, <1>8 DEF n
        <3> QED
            BY <1>8, <3>1, <3>2, ConcatProperties DEF n
    <2>2. CASE i <= n
        BY <1>3, <1>4, <2>1, <2>2
    <2>3. CASE ~(i <= n)
        <3>1. i - n \in 1 .. Cardinality(B) /\ n + (i - n) = i
            BY <1>1, <1>3, <1>7, <2>1, <2>3
        <3> QED
            BY <1>7, <2>1, <2>3, <3>1
    <2> QED
        BY <2>2, <2>3
<1>11. e \o InOrder(B, d) = InOrder(A, d)
    BY <1>8, <1>9, <1>10, SeqEqual
<1> QED
    BY <1>6, <1>11

(* What a query without a fault selects.                                   *)
LEMMA WholeItems ==
    ASSUME Typed, Sensible(kind, kw)
    PROVE  /\ Whole = Promised(Live, direction, kw)
           /\ Whole = FirstItems(InOrder(Passing(kw, direction), direction), kw.limit)
           /\ InOrder(Passing(kw, direction), direction) \in Seq(Live) /\ Whole \in Seq(Live)
           /\ Starts(Whole, InOrder(Passing(kw, direction), direction))
           /\ Whole = << >> => InOrder(Passing(kw, direction), direction) = << >>
<1> DEFINE all == InOrder(Passing(kw, direction), direction)
<1>1. kind \in {"key", "position"} /\ kw \in SensibleHashes(kind)
    BY DEF Typed, SensibleHashes
<1>2. Whole = Promised(Live, direction, kw) /\ Whole = FirstItems(all, kw.limit)
    BY <1>1, SelectedItems, PromisedItems DEF Whole
<1>3. all \in Seq(Live)
    <2>1. all \in Seq(Passing(kw, direction)) /\ Passing(kw, direction) \subseteq Live
        BY PassingTypes, InOrderLists
    <2> QED
        BY <2>1
<1>4. kw.limit = Nil \/ kw.limit.n \in Nat \ {0}
    BY <1>1, SensibleTypes
<1> HIDE DEF all
<1>5. /\ FirstItems(all, kw.limit) \in Seq(Live) /\ Starts(FirstItems(all, kw.limit), all)
      /\ FirstItems(all, kw.limit) = << >> => all = << >>
    BY <1>3, <1>4, FirstItemsStart
<1> QED
    BY <1>2, <1>3, <1>5 DEF all

(* All pages so far and this one are a beginning of everything.            *)
LEMMA PagesJoin ==
    ASSUME Typed, Paged, Sensible(kind, kw), kw.from = Nil, earlier = << >> => kw.after = Nil
    PROVE  /\ \A s \in Seq(Live) : Starts(s, Whole) => Starts(earlier \o s, Everything)
           /\ Whole = << >> => earlier = Everything
<1> DEFINE page == InOrder(Passing(kw, direction), direction)
<1>1. /\ page \in Seq(Live) /\ Whole \in Seq(Live) /\ Starts(Whole, page)
      /\ Whole = << >> => page = << >>
    BY WholeItems
<1>2. earlier \in Seq(Live) /\ kw \in KeywordHashes
    BY DEF Typed, TypeOK
<1>3. Everything = earlier \o page
    <2>1. CASE earlier = << >>
        <3>1. /\ Unpaged.from = kw.from /\ Unpaged.after = kw.after /\ Unpaged.to = kw.to
              /\ Unpaged.before = kw.before /\ Unpaged.range = kw.range
              /\ Unpaged.prefix = kw.prefix
            BY <1>2, <2>1 DEF KeywordHashes, Unpaged
        <3>2. Passing(Unpaged, direction) = Passing(kw, direction)
            BY <3>1 DEF Passing, Passes
        <3>3. << >> \o page = page
            BY <1>1, ConcatEmptySeq
        <3> QED
            BY <2>1, <3>2, <3>3 DEF Everything
    <2>2. CASE earlier # << >>
        <3>1. kw.after = RubyStr(Last(earlier)) /\ Starts(earlier, Everything)
            BY <2>2 DEF Paged
        <3> QED
            BY <1>2, <2>2, <3>1, PageContinues DEF Everything, Unpaged
    <2> QED
        BY <2>1, <2>2
<1> HIDE DEF page
<1>4. ASSUME NEW s \in Seq(Live), Starts(s, Whole) PROVE Starts(earlier \o s, Everything)
    <2>1. PICK v \in Seq(Live) : page = Whole \o v
        BY <1>1 DEF Starts
    <2>2. PICK w \in Seq(Live) : Whole = s \o w
        BY <1>4 DEF Starts
    <2>3. (s \o w) \o v = s \o (w \o v) /\ w \o v \in Seq(Live)
        BY ConcatAssociative, ConcatProperties
    <2>4. Starts(s, page)
        BY <2>1, <2>2, <2>3 DEF Starts
    <2> QED
        BY <1>1, <1>2, <1>3, <2>4, StartsChain
<1>5. Whole = << >> => earlier = Everything
    <2>1. earlier \o << >> = earlier
        BY <1>2, ConcatEmptySeq
    <2> QED
        BY <1>1, <1>3, <2>1
<1> QED
    BY <1>4, <1>5

--------------------------------------------------------------------------------
(* The invariant.                                                          *)

LEMMA Sequences ==
    ASSUME Typed
    PROVE  /\ chunk \in Seq(Live) /\ yielded \in Seq(Live) /\ earlier \in Seq(Live)
           /\ cursor.rest \in Seq(Live) /\ answer.items \in Seq(Live)
           /\ Nothing \in [is : {"nothing", "items", "end", "error"}, items : Seq(Live)]
           /\ Nothing.items = << >> /\ Nothing.is = "nothing"
<1>1. << >> \in Seq(Live)
    BY EmptySeq
<1> QED
    BY <1>1 DEF Typed, TypeOK, Nothing, Answer

LEMMA ScanStarts == Init => ScanInv
<1> SUFFICES ASSUME Init PROVE ScanInv
    OBVIOUS
<1>1. kind \in {"key", "position"} /\ kw \in KeywordHashes
    BY ScanAssumption DEF Init
<1>2. << >> \in Seq(Live)
    BY EmptySeq
<1>3. Typed
    BY <1>1, <1>2 DEF Init, Typed, TypeOK, Nothing, Answer
<1> QED
    BY <1>3 DEF Init, ScanInv, NotOpened, Answered, Conserved, Over, Paged

(* What was yielded is a beginning of the selection.                       *)
LEMMA YieldedStarts ==
    ASSUME Typed, Conserved, pc \in {"pulling", "yielding"}
    PROVE  Starts(yielded, Whole)
<1>1. chunk \o (answer.items \o cursor.rest) \in Seq(Live)
    BY Sequences, ConcatProperties
<1> QED
    BY <1>1 DEF Conserved, Starts

(* Every way out of the loop spawns one close.                             *)
LEMMA LoopLeft ==
    ASSUME ScanInv, pc \in {"pulling", "yielding"},
           UNCHANGED <<input, chunk, yielded, earlier, cursor, attempt>>,
           pc' = "closing", closes' = closes + 1,
           read' \in {"none", "orphaned"}, answer' = Nothing,
           outcome' \in {"exhausted", "left", "stopped", "state_error"},
           outcome' = "exhausted" => yielded = Whole /\ chunk = << >> /\ read' = "none"
    PROVE  ScanInv'
<1> USE DEF ScanInv
<1>1. outcome = "none" /\ closes = 0 /\ cursor.state = "open" /\ Raised(kind, kw) = "none"
    BY DEF Conserved
<1>2. Typed'
    BY <1>1, Sequences DEF Typed, TypeOK, input
<1>3. NotOpened' /\ Answered' /\ Conserved'
    BY DEF NotOpened, Answered, Conserved
<1>4. Over'
    <2>1. Starts(yielded, Whole)
        BY YieldedStarts
    <2>2. Ended'
        <3>1. Whole' = Whole /\ Raised(kind, kw)' = "none" /\ yielded' = yielded
            BY <1>1, SameInput
        <3>2. Starts(yielded, Whole)'
            BY <2>1, <3>1 DEF Starts
        <3>3. cursor'.state # "none" /\ closes' = 1
            BY <1>1
        <3> QED
            BY <3>1, <3>2, <3>3 DEF Ended
    <2> QED
        BY <2>2 DEF Over
<1>5. Paged'
    BY SamePage
<1> QED
    BY <1>2, <1>3, <1>4, <1>5

LEMMA OpenStep ==
    ASSUME ScanInv, OpenRaises \/ Open
    PROVE  ScanInv'
<1> USE DEF ScanInv
<1>1. Raised(kind, kw) \in Told /\ UNCHANGED <<input, earlier>> /\ pc = "start"
    BY RaisedUnlessSensible DEF Typed, OpenRaises, Open
<1>2. Paged'
    BY <1>1, SamePage
<1>3. /\ outcome = "none" /\ read = "none" /\ closes = 0 /\ cursor.state = "none"
      /\ yielded = << >> /\ chunk = << >> /\ answer = Nothing
    BY <1>1 DEF NotOpened, Answered
<1>4. CASE OpenRaises
    <2>1. Typed'
        BY <1>1, <1>4 DEF OpenRaises, Typed, TypeOK, input, Told
    <2>2. NotOpened' /\ Answered' /\ Conserved'
        BY <1>3, <1>4 DEF OpenRaises, NotOpened, Answered, Conserved
    <2>3. Refused'
        BY <1>1, <1>3, <1>4, SameInput DEF OpenRaises, Refused
    <2> QED
        BY <1>2, <2>1, <2>2, <2>3 DEF Over
<1>5. CASE Open
    <2>1. Sensible(kind, kw) /\ cursor' = [state |-> "open", rest |-> Whole]
        BY <1>5, RaisedUnlessSensible DEF Open, Typed, Whole
    <2>2. Whole \in Seq(Live)
        BY <2>1, WholeItems
    <2>3. Typed'
        BY <1>5, <2>1, <2>2, Sequences DEF Open, Typed, TypeOK, input
    <2>4. NotOpened' /\ Answered' /\ Over'
        BY <1>3, <1>5 DEF Open, NotOpened, Answered, Over
    <2>5. << >> \o (<< >> \o (<< >> \o Whole)) = Whole
        BY <2>2, ConcatEmptySeq
    <2>6. yielded' = << >> /\ chunk' = << >> /\ answer'.items = << >> /\ cursor'.rest = Whole
        BY <1>3, <1>5, <2>1, Sequences DEF Open
    <2>7. yielded' \o (chunk' \o (answer'.items \o cursor'.rest)) = Whole'
        BY <1>1, <2>5, <2>6, SameInput
    <2>8. Conserved'
        BY <1>1, <1>3, <1>5, <2>1, <2>7, SameInput DEF Open, Conserved
    <2> QED
        BY <1>2, <2>3, <2>4, <2>8
<1> QED
    BY <1>4, <1>5

(* The loop hands items on in their order.                                 *)
LEMMA YieldStep ==
    ASSUME ScanInv, TakeChunk \/ Yield
    PROVE  ScanInv'
<1> USE DEF ScanInv
<1>1. UNCHANGED <<input, earlier, outcome, cursor, closes, attempt>>
    BY DEF TakeChunk, Yield
<1>2. /\ outcome = "none" /\ closes = 0 /\ cursor.state = "open" /\ Raised(kind, kw) = "none"
      /\ yielded \o (chunk \o (answer.items \o cursor.rest)) = Whole
      /\ pc' = "yielding" /\ read' = "none" /\ answer' = Nothing
    BY DEF TakeChunk, Yield, Conserved, Answered
<1>3. /\ yielded' \in Seq(Live) /\ chunk' \in Seq(Live)
      /\ yielded' \o (chunk' \o (<< >> \o cursor.rest)) = Whole
    <2>0. /\ chunk \in Seq(Live) /\ yielded \in Seq(Live)
          /\ cursor.rest \in Seq(Live) /\ answer.items \in Seq(Live)
        BY Sequences
    <2>1. << >> \o cursor.rest = cursor.rest /\ << >> \o (answer.items \o cursor.rest) = answer.items \o cursor.rest
        BY Sequences, ConcatEmptySeq, ConcatProperties
    <2>2. CASE TakeChunk
        <3>1. /\ chunk = << >> /\ answer.items # << >>
              /\ yielded' = Append(yielded, Head(answer.items)) /\ chunk' = Tail(answer.items)
            BY <2>2 DEF TakeChunk, Conserved, Answered
        <3>2. Handed(yielded, answer.items, cursor.rest)
            BY <2>0, <3>1, HandOn
        <3> QED
            BY <1>2, <2>1, <3>1, <3>2 DEF Handed
    <2>3. CASE Yield
        <3>1. /\ chunk # << >> /\ answer.items = << >>
              /\ yielded' = Append(yielded, Head(chunk)) /\ chunk' = Tail(chunk)
            BY <1>2, <2>3, Sequences DEF Yield
        <3>2. Handed(yielded, chunk, cursor.rest)
            BY <2>0, <3>1, HandOn
        <3> QED
            BY <1>2, <2>1, <3>1, <3>2 DEF Handed
    <2> QED
        BY <2>2, <2>3
<1>4. Typed'
    BY <1>1, <1>2, <1>3, Sequences DEF Typed, TypeOK, input
<1>5. NotOpened' /\ Answered' /\ Over'
    BY <1>2 DEF NotOpened, Answered, Over
<1>6. Conserved'
    <2>1. answer'.items = << >> /\ cursor'.rest = cursor.rest
        BY <1>1, <1>2, Sequences
    <2>2. yielded' \o (chunk' \o (answer'.items \o cursor'.rest)) = Whole'
        BY <1>1, <1>3, <2>1, SameInput
    <2> QED
        BY <1>1, <1>2, <2>2, SameInput DEF Conserved
<1>7. Paged'
    BY <1>1, SamePage
<1> QED
    BY <1>4, <1>5, <1>6, <1>7

LEMMA LeaveStep ==
    ASSUME ScanInv, TakeEnd \/ BlockLeaves \/ Stop
    PROVE  ScanInv'
<1>1. pc \in {"pulling", "yielding"} /\ UNCHANGED <<input, chunk, yielded, earlier, cursor, attempt>>
    BY DEF TakeEnd, BlockLeaves, Stop
<1>2. pc' = "closing" /\ closes' = closes + 1 /\ read' \in {"none", "orphaned"} /\ answer' = Nothing
    <2>1. CASE TakeEnd
        BY <2>1 DEF TakeEnd, Leave
    <2>2. CASE BlockLeaves
        BY <2>2 DEF BlockLeaves, Leave, ScanInv, Conserved, Answered
    <2>3. CASE Stop
        BY <2>3 DEF Stop, Leave, Orphan
    <2> QED
        BY <2>1, <2>2, <2>3
<1>3. outcome' \in {"exhausted", "left", "stopped", "state_error"}
    BY DEF TakeEnd, BlockLeaves, Stop, Leave
<1>4. ASSUME outcome' = "exhausted" PROVE yielded = Whole /\ chunk = << >> /\ read' = "none"
    <2>1. TakeEnd /\ answer.is = "end"
        BY <1>4 DEF TakeEnd, BlockLeaves, Stop, Leave
    <2>2. answer.items = << >> /\ cursor.rest = << >> /\ chunk = << >> /\ read' = "none"
        BY <2>1 DEF TakeEnd, ScanInv, Answered, Conserved
    <2>3. yielded \o (<< >> \o (<< >> \o << >>)) = Whole
        BY <2>1, <2>2 DEF TakeEnd, ScanInv, Conserved
    <2>4. << >> \o (<< >> \o << >>) = << >> /\ yielded \o << >> = yielded
        <3>1. << >> \in Seq(Live) /\ yielded \in Seq(Live)
            BY Sequences DEF ScanInv
        <3> QED
            BY <3>1, ConcatEmptySeq
    <2> QED
        BY <2>2, <2>3, <2>4
<1> QED
    BY <1>1, <1>2, <1>3, <1>4, LoopLeft

LEMMA WaitStep ==
    ASSUME ScanInv, Pull \/ AttemptEnds
    PROVE  ScanInv'
<1> USE DEF ScanInv
<1>1. UNCHANGED <<input, outcome, chunk, yielded, earlier, answer, cursor, closes>>
    BY DEF Pull, AttemptEnds
<1>2. Typed'
    BY <1>1 DEF Pull, AttemptEnds, Typed, TypeOK, input
<1>3. NotOpened' /\ Answered' /\ Over'
    BY <1>1 DEF Pull, AttemptEnds, NotOpened, Answered, Over, Conserved
<1>4. Conserved'
    BY <1>1, SameInput DEF Pull, AttemptEnds, Conserved
<1>5. Paged'
    BY <1>1, SamePage
<1> QED
    BY <1>2, <1>3, <1>4, <1>5

LEMMA CloseStep ==
    ASSUME ScanInv, CloseReturns \/ StopClosing \/ CloseCursor
    PROVE  ScanInv'
<1> USE DEF ScanInv
<1>1. UNCHANGED <<input, chunk, yielded, earlier, read, answer, closes, attempt>>
    BY DEF CloseReturns, StopClosing, CloseCursor
<1>2. pc \in {"closing", "done"} /\ pc' \in {"closing", "done"} /\ Ended
    <2>1. pc \in {"closing", "done"} /\ pc' \in {"closing", "done"}
        BY DEF CloseReturns, StopClosing, CloseCursor, NotOpened, Conserved, Typed, TypeOK
    <2>2. ~Refused
        BY DEF CloseReturns, StopClosing, CloseCursor, Refused
    <2> QED
        BY <2>1, <2>2 DEF Over
<1>3. Typed'
    <2>1. outcome' = outcome \/ outcome' = "stopped"
        BY DEF CloseReturns, StopClosing, CloseCursor
    <2>2. cursor' = cursor \/ cursor' = [cursor EXCEPT !.state = "closed"]
        BY DEF CloseReturns, StopClosing, CloseCursor
    <2>3. /\ cursor' \in [state : {"none", "open", "closed"}, rest : Seq(Live)]
          /\ cursor'.state \in {"none", "open", "closed"} /\ cursor'.rest \in Seq(Live)
        BY <2>2 DEF Typed
    <2> QED
        BY <1>1, <1>2, <2>1, <2>3 DEF Typed, TypeOK, input
<1>4. NotOpened' /\ Answered' /\ Conserved'
    BY <1>1, <1>2 DEF NotOpened, Answered, Conserved, Ended
<1>5. Ended'
    <2>1. cursor.state # "none" /\ cursor'.state # "none"
        BY <1>2 DEF CloseReturns, StopClosing, CloseCursor, Ended, Typed
    <2>2. outcome' = outcome \/ outcome' = "stopped"
        BY DEF CloseReturns, StopClosing, CloseCursor
    <2> QED
        BY <1>1, <1>2, <2>1, <2>2, SameInput DEF Ended, Starts
<1>6. Paged'
    BY <1>1, SamePage
<1> QED
    BY <1>3, <1>4, <1>5, <1>6 DEF Over

LEMMA StoreStep ==
    ASSUME ScanInv, Store
    PROVE  ScanInv'
<1> USE DEF ScanInv
<1>1. UNCHANGED <<input, pc, outcome, chunk, yielded, earlier, closes, attempt>>
    BY DEF Store, ReadItems, ReadEnd, ReadFails
<1>2. Reading /\ answer = Nothing
    BY DEF Store, ReadItems, ReadEnd, ReadFails, Reading, Answered
<1>3. PICK a \in [is : {"items", "end", "error"}, items : Seq(Live)], r \in Seq(Live) :
          /\ Reply(a) /\ cursor' = [cursor EXCEPT !.rest = r]
          /\ a.is = "items" <=> a.items # << >>
          /\ cursor.state = "open" => /\ a.is = "end" => r = << >>
                                      /\ a.items \o r = cursor.rest
    <2>1. ASSUME NEW n \in 1 .. Chunk, ReadItems(n)
          PROVE  \E a \in [is : {"items", "end", "error"}, items : Seq(Live)], r \in Seq(Live) :
                     /\ Reply(a) /\ cursor' = [cursor EXCEPT !.rest = r]
                     /\ a.is = "items" <=> a.items # << >>
                     /\ cursor.state = "open" => /\ a.is = "end" => r = << >>
                                                 /\ a.items \o r = cursor.rest
        <3> DEFINE rest == cursor.rest
                   front == SubSeq(rest, 1, n)
                   back == SubSeq(rest, n + 1, Len(rest))
        <3>1. rest \in Seq(Live) /\ n \in 0 .. Len(rest)
            BY <2>1, Sequences, ScanAssumption, LenProperties DEF ReadItems
        <3>2. front \in Seq(Live) /\ back \in Seq(Live) /\ Len(front) = n /\ rest = front \o back
            BY <3>1, Cut
        <3>3. Reply(Answer("items", front)) /\ cursor' = [cursor EXCEPT !.rest = back]
            BY <2>1 DEF ReadItems
        <3> HIDE DEF front, back
        <3>4. front # << >>
            BY <3>2, ScanAssumption, EmptySeq
        <3>5. /\ Answer("items", front) \in [is : {"items", "end", "error"}, items : Seq(Live)]
              /\ Answer("items", front).is = "items" /\ Answer("items", front).items = front
            BY <3>2 DEF Answer
        <3> QED
            BY <3>2, <3>3, <3>4, <3>5
    <2>2. ASSUME ReadEnd \/ ReadFails
          PROVE  \E a \in [is : {"items", "end", "error"}, items : Seq(Live)], r \in Seq(Live) :
                     /\ Reply(a) /\ cursor' = [cursor EXCEPT !.rest = r]
                     /\ a.is = "items" <=> a.items # << >>
                     /\ cursor.state = "open" => /\ a.is = "end" => r = << >>
                                                 /\ a.items \o r = cursor.rest
        <3>1. /\ cursor' = [cursor EXCEPT !.rest = cursor.rest]
              /\ cursor.rest \in Seq(Live) /\ << >> \in Seq(Live) /\ << >> \o cursor.rest = cursor.rest
            BY <2>2, Sequences, ConcatEmptySeq DEF ReadEnd, ReadFails, Typed
        <3>2. PICK is \in {"end", "error"} : /\ Reply(Answer(is, << >>))
                                             /\ cursor.state = "open" /\ is = "end" => cursor.rest = << >>
            BY <2>2 DEF ReadEnd, ReadFails
        <3>3. /\ Answer(is, << >>) \in [is : {"items", "end", "error"}, items : Seq(Live)]
              /\ Answer(is, << >>).is = is /\ Answer(is, << >>).items = << >>
            BY <3>1 DEF Answer
        <3> QED
            BY <3>1, <3>2, <3>3
    <2> QED
        BY <2>1, <2>2 DEF Store
<1>4. /\ cursor'.state = cursor.state /\ cursor'.rest = r
      /\ cursor' \in [state : {"none", "open", "closed"}, rest : Seq(Live)]
    BY <1>3 DEF Typed
<1>5. CASE read = "orphaned"
    <2>1. read' = "none" /\ answer' = Nothing
        BY <1>3, <1>5 DEF Reply
    <2>2. pc \in {"closing", "done"} /\ Ended
        BY <1>5 DEF NotOpened, Conserved, Over, Refused, Typed, TypeOK
    <2>3. Typed'
        BY <1>1, <1>4, <2>1, Sequences DEF Typed, TypeOK, input
    <2>4. NotOpened' /\ Answered' /\ Conserved'
        BY <1>1, <2>1, <2>2 DEF NotOpened, Answered, Conserved
    <2>5. Ended'
        BY <1>1, <1>4, <1>5, <2>1, <2>2, SameInput DEF Ended, Starts
    <2> QED
        BY <1>1, <2>3, <2>4, <2>5, SamePage DEF Over
<1>6. CASE read = "spawned"
    <2>1. read' = "answered" /\ answer' = a
        BY <1>3, <1>6 DEF Reply
    <2>2. /\ pc = "pulling" /\ cursor.state = "open" /\ outcome = "none" /\ closes = 0
          /\ Raised(kind, kw) = "none" /\ chunk = << >>
          /\ yielded \o (chunk \o (answer.items \o cursor.rest)) = Whole
        BY <1>6 DEF NotOpened, Conserved, Over, Refused, Ended, Typed, TypeOK
    <2>3. Typed'
        BY <1>1, <1>4, <2>1 DEF Typed, TypeOK, input
    <2>4. NotOpened' /\ Answered' /\ Over'
        BY <1>1, <1>3, <1>4, <2>1, <2>2 DEF NotOpened, Answered, Over
    <2>5. yielded \o (chunk \o (a.items \o r)) = Whole
        BY <1>2, <1>3, <2>2, Sequences, ConcatEmptySeq
    <2>6. Conserved'
        BY <1>1, <1>4, <2>1, <2>2, <2>5, SameInput DEF Conserved
    <2> QED
        BY <1>1, <2>3, <2>4, <2>6, SamePage
<1> QED
    BY <1>2, <1>5, <1>6 DEF Reading

LEMMA PageStep ==
    ASSUME ScanInv, NextPage
    PROVE  ScanInv'
<1> USE DEF ScanInv
<1>1. /\ kind = "key" /\ kw.limit # Nil /\ kw.from = Nil
      /\ earlier = << >> => kw.after = Nil
      /\ yielded # << >> /\ earlier' = earlier \o yielded
      /\ kw' = [kw EXCEPT !.after = RubyStr(Last(yielded))]
      /\ UNCHANGED <<kind, direction, external, chunk, read, answer, attempt>>
    BY DEF NextPage
<1>2. /\ Raised(kind, kw) = "none" /\ yielded = Whole /\ chunk = << >> /\ read = "none"
      /\ answer = Nothing
    <2>1. ~Refused
        BY RaisedUnlessSensible DEF NextPage, Refused, Typed, Told
    <2> QED
        BY <2>1 DEF NextPage, Over, Ended, Answered
<1>3. Sensible(kind, kw)
    BY <1>2, RaisedUnlessSensible DEF Typed
<1>4. earlier \in Seq(Live) /\ yielded \in Seq(Live) /\ << >> \in Seq(Live)
    BY Sequences, EmptySeq
<1>5. earlier' \in Seq(Live) /\ earlier' # << >> /\ Last(earlier') = Last(yielded)
      /\ Last(yielded) \in Nat
    <2> DEFINE e == earlier \o yielded
    <2>1. Len(earlier) \in Nat /\ Len(yielded) \in Nat \ {0}
        BY <1>1, <1>4, EmptySeq, LenProperties
    <2>2. /\ e \in Seq(Live) /\ Len(e) = Len(earlier) + Len(yielded)
          /\ e[Len(e)] = yielded[Len(yielded)]
        BY <1>4, <2>1, ConcatProperties
    <2>3. Len(e) # 0 /\ yielded[Len(yielded)] \in Live
        BY <1>4, <2>1, <2>2
    <2> HIDE DEF e
    <2>4. e # << >> /\ Last(e) = Last(yielded) /\ Last(yielded) \in Nat
        BY <2>2, <2>3, ScanAssumption, EmptySeq DEF Last
    <2> QED
        BY <1>1, <2>2, <2>4 DEF e
<1>6. Starts(earlier', Everything)
    <2>1. Whole \o << >> = Whole
        BY <1>2, <1>4, ConcatEmptySeq
    <2>2. Starts(Whole, Whole)
        BY <1>4, <2>1 DEF Starts
    <2> QED
        BY <1>1, <1>2, <1>3, <1>4, <2>2, PagesJoin
<1>7. kw' \in KeywordHashes /\ Unpaged' = Unpaged
    <2>1. kw \in KeywordHashes /\ RubyStr(Last(yielded)) \in Scalars
        BY <1>5 DEF Typed, RubyStr, Scalars
    <2> QED
        BY <1>1, <2>1 DEF KeywordHashes, Unpaged
<1>8. Everything' = Everything
    <2>1. direction' = direction
        BY <1>1
    <2> QED
        BY <1>7, <2>1 DEF Everything
<1>9. Sensible(kind', kw')
    <2>1. /\ kw'.from = kw.from /\ kw'.to = kw.to /\ kw'.before = kw.before
          /\ kw'.range = kw.range /\ kw'.limit = kw.limit /\ kw'.prefix = kw.prefix
          /\ kw'.extra = kw.extra /\ kw'.after = RubyStr(Last(yielded)) /\ kw'.after.type = "string"
        BY <1>1 DEF Typed, KeywordHashes, RubyStr
    <2> QED
        BY <1>1, <1>3, <2>1 DEF Sensible
<1>10. Paged'
    BY <1>1, <1>5, <1>6, <1>8, <1>9 DEF Paged, Starts, Typed, KeywordHashes
<1>11. Typed'
    BY <1>1, <1>2, <1>4, <1>5, <1>7 DEF NextPage, Typed, TypeOK
<1>12. NotOpened' /\ Answered' /\ Conserved' /\ Over'
    BY <1>1, <1>2 DEF NextPage, NotOpened, Answered, Conserved, Over
<1> QED
    BY <1>10, <1>11, <1>12

LEMMA ScanStep == ScanInv /\ [Next]_vars => ScanInv'
<1> SUFFICES ASSUME ScanInv, [Next]_vars PROVE ScanInv'
    OBVIOUS
<1>1. CASE Loop
    BY <1>1, OpenStep, YieldStep, LeaveStep, WaitStep, CloseStep DEF Loop
<1>2. CASE Yield
    BY <1>2, YieldStep
<1>3. CASE BlockLeaves \/ Stop
    BY <1>3, LeaveStep
<1>4. CASE StopClosing \/ CloseCursor
    BY <1>4, CloseStep
<1>5. CASE AttemptEnds
    BY <1>5, WaitStep
<1>6. CASE NextPage
    BY <1>6, PageStep
<1>7. CASE Store
    BY <1>7, StoreStep
<1>8. CASE UNCHANGED vars
    <2>1. UNCHANGED <<input, pc, outcome, chunk, yielded, earlier, read, answer, cursor, closes, attempt>>
        BY <1>8 DEF vars, input
    <2>2. Typed' /\ NotOpened' /\ Answered'
        BY <2>1 DEF ScanInv, Typed, TypeOK, NotOpened, Answered, input
    <2>3. Conserved'
        BY <2>1, SameInput DEF ScanInv, Conserved
    <2>4. Over'
        BY <2>1, SameInput DEF ScanInv, Over, Refused, Ended, Starts
    <2>5. Paged'
        BY <2>1, SamePage DEF ScanInv
    <2> QED
        BY <2>2, <2>3, <2>4, <2>5 DEF ScanInv
<1> QED
    BY <1>1, <1>2, <1>3, <1>4, <1>5, <1>6, <1>7, <1>8 DEF Next, Finished

(* Every reachable state is as the invariant says.                         *)
LEMMA ScanInvariant == Spec => []ScanInv
<1> QED
    BY ScanStarts, ScanStep, PTL DEF Spec

--------------------------------------------------------------------------------
(* The theorems.                                                           *)

(* The traversal keeps its types: in particular a hash never raises        *)
(* anything but an ArgumentError or a TypeError (query.rs:86).             *)
THEOREM ScanTypes == Spec => []TypeOK
<1>1. ScanInv => TypeOK
    BY DEF ScanInv, Typed
<1> QED
    BY <1>1, ScanInvariant, PTL

(* Whatever the block, the stops and the store do, the block is given the  *)
(* promised items from the first on, in order, and all of them when the    *)
(* loop ends by itself; a hash outside the documentation raises before     *)
(* anything is given (state/scan.rb traverse, scan.rs:61).                 *)
THEOREM TraversalsYieldPromised == Spec => []YieldsPromised
<1>1. ASSUME ScanInv PROVE YieldsPromised
    <2> USE <1>1 DEF ScanInv
    <2>1. /\ Raised(kind, kw) \in Told
          /\ Raised(kind, kw) = "none" <=> Sensible(kind, kw)
        BY RaisedUnlessSensible DEF Typed
    <2>2. pc \in {"start", "pulling", "yielding", "closing", "done"} /\ yielded \in Seq(Live)
        BY Sequences DEF Typed, TypeOK
    <2>3. CASE Sensible(kind, kw)
        <3>1. Whole = Promised(Live, direction, kw) /\ Whole \in Seq(Live)
            BY <2>3, WholeItems
        <3>2. Starts(yielded, Whole)
            <4>1. CASE pc = "start"
                <5>1. << >> \o Whole = Whole /\ yielded = << >>
                    BY <3>1, <4>1, ConcatEmptySeq DEF NotOpened
                <5> QED
                    BY <3>1, <5>1 DEF Starts
            <4>2. CASE pc \in {"pulling", "yielding"}
                BY <4>2, YieldedStarts
            <4>3. CASE pc \in {"closing", "done"}
                BY <2>1, <2>3, <4>3 DEF Over, Refused, Ended
            <4> QED
                BY <2>2, <4>1, <4>2, <4>3
        <3>3. IsPrefix(yielded, Whole)
            BY <2>2, <3>2, StartsIsPrefix
        <3>4. /\ outcome \notin {"ArgumentError", "TypeError"}
              /\ outcome = "exhausted" => yielded = Whole
            BY <2>1, <2>2, <2>3 DEF NotOpened, Conserved, Over, Refused, Ended, Told
        <3> QED
            BY <2>3, <3>1, <3>3, <3>4 DEF YieldsPromised
    <2>4. CASE ~Sensible(kind, kw)
        BY <2>1, <2>2, <2>4 DEF YieldsPromised, NotOpened, Conserved, Over, Refused, Ended, Told
    <2> QED
        BY <2>3, <2>4
<1> QED
    BY <1>1, ScanInvariant, PTL

(* Pages are each one query after the last key of the page before; put     *)
(* together they are the unpaged query, with no key lost or given twice at *)
(* a seam, and an empty page means that nothing is left.                   *)
THEOREM PagesCoverAll == Spec => []PagesCover
<1>1. ASSUME ScanInv PROVE PagesCover
    <2> USE <1>1 DEF ScanInv
    <2> SUFFICES ASSUME earlier # << >> PROVE PagesCover
        BY DEF PagesCover
    <2>1. /\ kind = "key" /\ Sensible(kind, kw) /\ kw.from = Nil
          /\ kw.after = RubyStr(Last(earlier)) /\ kw \in KeywordHashes
        BY DEF Paged, Typed
    <2>2. Promised(Live, direction, Unpaged) = Everything
        <3>1. /\ Unpaged \in KeywordHashes /\ Unpaged.limit = Nil
              /\ Unpaged.from = kw.from /\ Unpaged.after = Nil /\ Unpaged.to = kw.to
              /\ Unpaged.before = kw.before /\ Unpaged.range = kw.range
              /\ Unpaged.prefix = kw.prefix /\ Unpaged.extra = kw.extra
            <4>1. Nil \in Scalars
                BY DEF Scalars
            <4> QED
                BY <2>1, <4>1 DEF KeywordHashes, Unpaged
        <3>2. Sensible(kind, Unpaged)
            BY <2>1, <3>1 DEF Sensible
        <3>3. kind \in {"key", "position"} /\ Unpaged \in SensibleHashes(kind)
            BY <2>1, <3>1, <3>2 DEF SensibleHashes
        <3>4. Promised(Live, direction, Unpaged)
                  = FirstItems(InOrder(Passing(Unpaged, direction), direction), Unpaged.limit)
            BY <3>3, PromisedItems
        <3> QED
            BY <3>1, <3>4 DEF FirstItems, Everything
    <2>3. Starts(yielded, Whole) /\ (outcome = "exhausted" => yielded = Whole)
        <3>1. Raised(kind, kw) = "none"
            BY <2>1, RaisedUnlessSensible DEF Typed
        <3>2. CASE pc = "start"
            <4>1. << >> \o Whole = Whole /\ yielded = << >> /\ Whole \in Seq(Live)
                BY <2>1, <3>2, WholeItems, ConcatEmptySeq DEF NotOpened
            <4> QED
                BY <3>2, <4>1 DEF Starts, NotOpened
        <3>3. CASE pc \in {"pulling", "yielding"}
            BY <3>3, YieldedStarts DEF Conserved
        <3>4. CASE pc \in {"closing", "done"}
            BY <3>1, <3>4 DEF Over, Refused, Ended
        <3> QED
            BY <3>2, <3>3, <3>4 DEF Typed, TypeOK
    <2>4. earlier \in Seq(Live) /\ yielded \in Seq(Live) /\ earlier \o yielded \in Seq(Live)
        BY Sequences, ConcatProperties
    <2>5. /\ Starts(earlier \o yielded, Everything)
          /\ Whole = << >> => earlier = Everything
        BY <2>1, <2>3, <2>4, PagesJoin
    <2>6. IsPrefix(earlier \o yielded, Everything)
        BY <2>4, <2>5, StartsIsPrefix
    <2> QED
        BY <2>2, <2>3, <2>5, <2>6 DEF PagesCover, Unpaged
<1> QED
    BY <1>1, ScanInvariant, PTL

(* Whichever way the loop is left, and if its close is interrupted too,    *)
(* close is called exactly once for an opened cursor and never without one *)
(* (spec/state_scan_spec.rb).                                              *)
THEOREM CursorClosedOnce == Spec => []ClosedOnce
<1>1. ASSUME ScanInv PROVE ClosedOnce
    BY <1>1 DEF ScanInv, Typed, TypeOK, NotOpened, Conserved, Over, Refused, Ended, ClosedOnce
<1> QED
    BY <1>1, ScanInvariant, PTL

================================================================================
