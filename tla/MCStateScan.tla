---------------------------- MODULE MCStateScan ----------------------------
(* Keyword hashes for TLC: both kinds of collection, every pair of edges,  *)
(* and values on both sides of each boundary.                              *)
EXTENDS StateScan

MCLive == 0..3
MCPrefixed == {1, 2, 3}
Huge == MaxUsize + 1

Edges(kd) == IF kd = "key" THEN {Nil, RubyStr(1), RubyInt(1)}
                            ELSE {Nil, RubyInt(1), RubyInt(-1)}
Stops(kd) == IF kd = "key" THEN {Nil, RubyStr(2)} ELSE {Nil, RubyInt(2), RubyInt(Huge)}
At(kd, n) == IF kd = "key" THEN RubyStr(n) ELSE RubyInt(n)
RangesOf(kd) ==
    {Nil, Other, RubyRange(Nil, Nil, FALSE), RubyRange(At(kd, 2), At(kd, 1), FALSE),
     RubyRange(Nil, Other, TRUE)}
    \union { RubyRange(At(kd, 1), h, x) : h \in {Nil, At(kd, 3)}, x \in BOOLEAN }
Limits == {Nil, RubyInt(0), RubyInt(2), Other}
PrefixValues(kd) == IF kd = "key" THEN {Nil, RubyStr(0), RubyInt(0)} ELSE {Nil, RubyStr(0)}

Hash(kd) == [from : Edges(kd), after : Edges(kd), to : Stops(kd), before : Stops(kd),
             range : RangesOf(kd), limit : Limits, prefix : PrefixValues(kd), extra : {FALSE}]

Plain == [from |-> Nil, after |-> Nil, to |-> Nil, before |-> Nil, range |-> Nil,
          limit |-> Nil, prefix |-> Nil, extra |-> FALSE]

\* Hashes with at most three keywords set, and one unknown keyword.
MCInputs ==
    UNION { { [kind |-> kd, kw |-> h] : h \in
                { g \in Hash(kd) : Cardinality({ f \in DOMAIN g : g[f] # Plain[f] }) <= 3 }
                \union {[Plain EXCEPT !.extra = TRUE]} } : kd \in {"key", "position"} }
=============================================================================
