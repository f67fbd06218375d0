------------------------------- MODULE Queries -------------------------------
(***************************************************************************)
(* The query keywords of a traversal, as handler/state/query.rs translates *)
(* them, and the selection README.md promises.                             *)
(*                                                                         *)
(* Keys of maps and sets, and positions of deques, are naturals in their   *)
(* order.  A keyword hash is a record with Nil where a keyword is unset;   *)
(* extra says that it has a keyword no traversal knows.                    *)
(***************************************************************************)
EXTENDS Integers, SequencesExt

CONSTANTS
    Prefixed,   \* the keys that start with the string a prefix: may give
    MaxUsize    \* the largest usize

ASSUME QueriesAssumption == Prefixed \subseteq Nat /\ MaxUsize \in Nat

Nil == [type |-> "nil"]
Other == [type |-> "other"]
RubyInt(n) == [type |-> "integer", n |-> n]
RubyStr(n) == [type |-> "string", n |-> n]
RubyRange(low, high, excl) ==
    [type |-> "range", low |-> low, high |-> high, excl |-> excl]

Scalars == {Nil, Other} \cup [type : {"integer"}, n : Int] \cup [type : {"string"}, n : Nat]
Ranges == [type : {"range"}, low : Scalars, high : Scalars, excl : BOOLEAN]
KeywordHashes ==
    [from : Scalars, after : Scalars, to : Scalars, before : Scalars,
     range : Scalars \cup Ranges, limit : Scalars, prefix : Scalars, extra : BOOLEAN]

---------------------------------------------------------------------------
\* Faulty variant: a bad position is taken for a state error of the caller.
ConvertFaultTransient(kind, v) ==
    CASE kind = "key"      -> IF v.type = "string" THEN "none" ELSE "TypeError"
      [] kind = "position" -> IF v.type = "integer" /\ v.n \in 0..MaxUsize
                              THEN "none" ELSE "TransientStateError"

\* String::try_convert for keys, position() for positions.
ConvertFault(kind, v) ==
    CASE kind = "key"      -> IF v.type = "string" THEN "none" ELSE "TypeError"
      [] kind = "position" -> IF v.type = "integer" /\ v.n \in 0..MaxUsize
                              THEN "none" ELSE "ArgumentError"

\* edge(): one side of the selection.
EdgeFault(kind, inclusive, exclusive) ==
    CASE inclusive # Nil /\ exclusive # Nil -> "ArgumentError"
      [] inclusive # Nil /\ exclusive = Nil -> ConvertFault(kind, inclusive)
      [] inclusive = Nil /\ exclusive # Nil -> ConvertFault(kind, exclusive)
      [] OTHER -> "none"

Edge(inclusive, exclusive) ==
    CASE inclusive # Nil -> [bound |-> "included", at |-> inclusive.n]
      [] exclusive # Nil -> [bound |-> "excluded", at |-> exclusive.n]
      [] OTHER -> [bound |-> "unbounded"]

\* range(): nil ends are not converted.
RangeFault(range) == IF range.type \in {"nil", "range"} THEN "none" ELSE "TypeError"

LowFault(kind, range) ==
    IF range.type = "range" /\ range.low # Nil THEN ConvertFault(kind, range.low) ELSE "none"

HighFault(kind, range) ==
    IF range.type = "range" /\ range.high # Nil THEN ConvertFault(kind, range.high) ELSE "none"

\* Faulty variant: the end of an exclusive range is included.
RangeEndKept(range) == Edge(range.high, Nil)

RangeEnd(range) ==
    IF range.excl THEN Edge(Nil, range.high) ELSE Edge(range.high, Nil)

\* limit().
LimitFault(limit) ==
    IF limit = Nil \/ (limit.type = "integer" /\ limit.n \in 1..MaxUsize)
    THEN "none" ELSE "ArgumentError"

\* Keywords::collect, then key_query or position_query, which differ in
\* prefix:; the first fault is the one raised.
Faults(kind, kw) ==
    <<IF kw.extra \/ (kind = "position" /\ kw.prefix # Nil) THEN "ArgumentError" ELSE "none",
      IF kw.prefix # Nil /\ kw.prefix.type # "string" THEN "TypeError" ELSE "none",
      EdgeFault(kind, kw.from, kw.after),
      EdgeFault(kind, kw.to, kw.before),
      RangeFault(kw.range),
      LowFault(kind, kw.range),
      HighFault(kind, kw.range),
      LimitFault(kw.limit)>>

Raised(kind, kw) ==
    LET faults == Faults(kind, kw)
        bad == { i \in DOMAIN faults : faults[i] # "none" }
    IN  IF bad = {} THEN "none" ELSE faults[Min(bad)]

\* The core query that a faultless hash becomes.
Translate(kw) ==
    [start |-> Edge(kw.from, kw.after),
     end |-> Edge(kw.to, kw.before),
     low |-> IF kw.range = Nil THEN Edge(Nil, Nil) ELSE Edge(kw.range.low, Nil),
     high |-> IF kw.range = Nil THEN Edge(Nil, Nil) ELSE RangeEnd(kw.range),
     prefix |-> kw.prefix,
     limit |-> kw.limit]

---------------------------------------------------------------------------
(* The core: what a query selects.                                         *)

\* Iteration order: the i-th item is the one that i - 1 items come before.
Ahead(a, b, direction) == IF direction = "forward" THEN a < b ELSE a > b
Rank(k, S, direction) == Cardinality({ j \in S : Ahead(j, k, direction) })
InOrder(S, direction) ==
    [i \in 1 .. Cardinality(S) |-> CHOOSE k \in S : Rank(k, S, direction) = i - 1]

Above(bound, k) ==
    CASE bound.bound = "included" -> k >= bound.at
      [] bound.bound = "excluded" -> k > bound.at
      [] OTHER -> TRUE

Below(bound, k) ==
    CASE bound.bound = "included" -> k <= bound.at
      [] bound.bound = "excluded" -> k < bound.at
      [] OTHER -> TRUE

FirstItems(seq, limit) ==
    IF limit = Nil \/ limit.n >= Len(seq) THEN seq ELSE SubSeq(seq, 1, limit.n)

Selected(S, direction, q) ==
    FirstItems(InOrder({ k \in S :
        /\ IF direction = "forward" THEN Above(q.start, k) /\ Below(q.end, k)
                                    ELSE Below(q.start, k) /\ Above(q.end, k)
        /\ Above(q.low, k) /\ Below(q.high, k)
        /\ q.prefix = Nil \/ k \in Prefixed }, direction), q.limit)

---------------------------------------------------------------------------
(* README.md, "Query keywords".                                            *)

\* The keys a Ruby Range holds.
Holds(range, k) ==
    /\ range.low = Nil \/ range.low.n <= k
    /\ range.high = Nil \/ k < range.high.n \/ (k = range.high.n /\ ~range.excl)

\* Walk the collection in iteration order from the start to the stop, keep
\* what the range and the prefix keep, and stop after limit items.
Promised(S, direction, kw) ==
    LET walk == InOrder(S \union { v.n : v \in {kw.from, kw.after, kw.to, kw.before} \ {Nil} },
                        direction)
        place(k) == CHOOSE i \in DOMAIN walk : walk[i] = k
        reached(k) == /\ kw.from = Nil \/ place(k) >= place(kw.from.n)
                      /\ kw.after = Nil \/ place(k) > place(kw.after.n)
                      /\ kw.to = Nil \/ place(k) <= place(kw.to.n)
                      /\ kw.before = Nil \/ place(k) < place(kw.before.n)
        kept(k) == /\ reached(k)
                   /\ kw.range = Nil \/ Holds(kw.range, k)
                   /\ kw.prefix = Nil \/ k \in Prefixed
        all == InOrder({ k \in S : kept(k) }, direction)
    IN  IF kw.limit = Nil THEN all ELSE SubSeq(all, 1, Min({kw.limit.n, Len(all)}))

\* A hash the documentation allows.
Sensible(kind, kw) ==
    LET key(v) == IF kind = "key" THEN v.type = "string"
                                  ELSE v.type = "integer" /\ v.n \in 0..MaxUsize
        set == {kw.from, kw.after, kw.to, kw.before} \ {Nil}
    IN  /\ ~kw.extra
        /\ kw.from = Nil \/ kw.after = Nil
        /\ kw.to = Nil \/ kw.before = Nil
        /\ \A v \in set : key(v)
        /\ \/ kw.range = Nil
           \/ /\ kw.range.type = "range"
              /\ \A v \in {kw.range.low, kw.range.high} \ {Nil} : key(v)
        /\ kw.limit = Nil \/ (kw.limit.type = "integer" /\ kw.limit.n \in 1..MaxUsize)
        /\ kw.prefix = Nil \/ (kind = "key" /\ kw.prefix.type = "string")
=============================================================================
