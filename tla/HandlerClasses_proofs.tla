-------------------------- MODULE HandlerClasses_proofs --------------------------
(***************************************************************************)
(* What subscribe accepts runs, and what declarations do to an exception,  *)
(* for every depth of inheritance, every parameter list and every class    *)
(* body.  Both look at chains that Ruby builds step by step; what holds of *)
(* the whole chain is shown by induction over its steps.                   *)
(***************************************************************************)
EXTENDS HandlerClasses, TLAPS, NaturalsInduction, SequenceTheorems, WellFoundedInduction

--------------------------------------------------------------------------------
(* Induction, for sets.                                                    *)
LEMMA SetInduction ==
    ASSUME NEW S, 0 \in S, \A n \in Nat : n \in S => n + 1 \in S
    PROVE  Nat \subseteq S
<1> DEFINE Less == { p \in Nat \X Nat : p[1] < p[2] }
           T == Nat \ S
<1>1. IsWellFoundedOn(Less, Nat)
    BY NatLessThanWellFounded DEF OpToRel
<1>2. SUFFICES ASSUME T # {} PROVE FALSE
    OBVIOUS
<1>3. T \subseteq Nat
    OBVIOUS
<1>4. PICK x \in T : \A y \in T : ~ (<<y, x>> \in Less)
    <2> HIDE DEF Less, T
    <2> QED
        BY <1>1, <1>2, <1>3, WFMin
<1>5. x \in Nat /\ x # 0 /\ x - 1 \in Nat /\ x - 1 < x
    OBVIOUS
<1>6. x - 1 \notin T
    BY <1>4, <1>5
<1> QED
    BY <1>5, <1>6

(* The same from m to n.                                                   *)
LEMMA UpTo ==
    ASSUME NEW m \in Nat, NEW n \in Nat, NEW S,
           m \in S, \A i \in m + 1 .. n : i - 1 \in S => i \in S
    PROVE  m .. n \subseteq S
<1> DEFINE T == { k \in Nat : m + k <= n => m + k \in S }
<1>1. 0 \in T
    OBVIOUS
<1>2. ASSUME NEW k \in Nat, k \in T PROVE k + 1 \in T
    <2> SUFFICES ASSUME m + (k + 1) <= n PROVE m + (k + 1) \in S
        OBVIOUS
    <2>1. m + k \in S
        BY <1>2
    <2>2. m + (k + 1) \in m + 1 .. n /\ (m + (k + 1)) - 1 = m + k
        OBVIOUS
    <2> QED
        BY <2>1, <2>2
<1>3. Nat \subseteq T
    <2> HIDE DEF T
    <2> QED
        BY <1>1, <1>2, SetInduction
<1>4. ASSUME NEW i \in m .. n PROVE i \in S
    <2>1. i - m \in Nat /\ m + (i - m) = i
        OBVIOUS
    <2>2. i - m \in T
        BY <1>3, <2>1
    <2> QED
        BY <2>1, <2>2
<1> QED
    BY <1>4

(* A function whose value at i is a step from its value at i - 1 exists.   *)
Iterates(f, n, a, step) ==
    /\ f[0] = a
    /\ \A i \in 1 .. n : f[i] = step[i][f[i - 1]]

LEMMA Recursion ==
    ASSUME NEW n \in Nat, NEW V, NEW a \in V, NEW step \in [1 .. n -> [V -> V]]
    PROVE  \E f \in [0 .. n -> V] : Iterates(f, n, a, step)
<1> DEFINE S == { m \in 0 .. n : \E f \in [0 .. m -> V] : Iterates(f, m, a, step) }
<1>1. 0 \in S
    <2> DEFINE f == [i \in 0 .. 0 |-> a]
    <2>1. f \in [0 .. 0 -> V] /\ Iterates(f, 0, a, step)
        BY DEF Iterates
    <2> HIDE DEF f
    <2> QED
        BY <2>1
<1>2. ASSUME NEW m \in 0 + 1 .. n, m - 1 \in S PROVE m \in S
    <2>1. PICK g \in [0 .. m - 1 -> V] : Iterates(g, m - 1, a, step)
        BY <1>2
    <2> DEFINE f == [i \in 0 .. m |-> IF i = m THEN step[m][g[m - 1]] ELSE g[i]]
    <2>2. step[m][g[m - 1]] \in V
        <3>1. m - 1 \in 0 .. m - 1 /\ m \in 1 .. n
            OBVIOUS
        <3> QED
            BY <3>1
    <2>3. f \in [0 .. m -> V]
        <3>1. \A i \in 0 .. m : i # m => i \in 0 .. m - 1
            OBVIOUS
        <3> QED
            BY <2>2, <3>1
    <2>4. ASSUME NEW i \in 1 .. m
          PROVE  f[i] = step[i][f[i - 1]]
        <3>1. CASE i = m
            <4>1. f[i] = step[m][g[m - 1]] /\ f[i - 1] = g[m - 1]
                BY <3>1
            <4> QED
                BY <3>1, <4>1
        <3>2. CASE i # m
            <4>1. i \in 1 .. m - 1 /\ f[i] = g[i] /\ f[i - 1] = g[i - 1]
                BY <3>2
            <4> QED
                BY <2>1, <4>1 DEF Iterates
        <3> QED
            BY <3>1, <3>2
    <2>5. f[0] = a
        BY <2>1 DEF Iterates
    <2>6. Iterates(f, m, a, step)
        BY <2>4, <2>5 DEF Iterates
    <2> HIDE DEF f
    <2>7. \E h \in [0 .. m -> V] : Iterates(h, m, a, step)
        BY <2>3, <2>6
    <2> QED
        BY <2>7
<1>3. 0 .. n \subseteq S
    <2> HIDE DEF S
    <2> QED
        BY <1>1, <1>2, UpTo
<1>4. n \in S
    BY <1>3
<1> QED
    BY <1>4

(* A set of numbers has a greatest one.                                    *)
LEMMA Greatest ==
    ASSUME NEW n \in Nat, NEW S \in SUBSET (1 .. n), S # {}
    PROVE  Max(S) \in S /\ \A x \in S : x <= Max(S)
<1> DEFINE T == { m \in 0 .. n :
                    S \cap (1 .. m) # {} =>
                        \E x \in S \cap (1 .. m) : \A y \in S \cap (1 .. m) : x >= y }
<1>1. 0 \in T
    OBVIOUS
<1>2. ASSUME NEW m \in 0 + 1 .. n, m - 1 \in T PROVE m \in T
    <2>1. CASE m \in S
        BY <1>2, <2>1
    <2>2. CASE m \notin S
        <3>1. S \cap (1 .. m) = S \cap (1 .. m - 1)
            BY <2>2
        <3> QED
            BY <1>2, <3>1
    <2> QED
        BY <2>1, <2>2
<1>3. 0 .. n \subseteq T
    <2> HIDE DEF T
    <2> QED
        BY <1>1, <1>2, UpTo
<1>4. n \in T
    BY <1>3
<1>5. \E x \in S : \A y \in S : x >= y
    <2>1. S \cap (1 .. n) = S
        OBVIOUS
    <2> QED
        BY <1>4, <2>1
<1> QED
    BY <1>5 DEF Max
--------------------------------------------------------------------------------
Declaration == [rescues : SUBSET STRING, as : {"PermanentError", "TransientError"}]
ParameterList ==
    [req : Nat, opt : Nat, rest : BOOLEAN, keyreq : BOOLEAN, defined : BOOLEAN]
Ancestor == { WrapperOf(w) : w \in Declaration } \cup { ClassWith(p) : p \in ParameterList }
            \cup {EventHandler}

Typed ==
    /\ derives \in BOOLEAN
    /\ body \in [Level -> ParameterList]
    /\ wrappers \in [Level -> Seq(Declaration)]

(* The ancestors of a level: its wrappers, the last first, and its method. *)
LEMMA LevelShape ==
    ASSUME Typed, NEW l \in Level
    PROVE  LET ws == wrappers[l]
           IN  /\ Len(ws) \in Nat
               /\ OfLevel(l) \in Seq(Ancestor)
               /\ Len(OfLevel(l)) = Len(ws) + IF body[l].defined THEN 1 ELSE 0
               /\ \A i \in 1 .. Len(ws) : OfLevel(l)[i] = WrapperOf(ws[Len(ws) + 1 - i])
               /\ body[l].defined => OfLevel(l)[Len(ws) + 1] = ClassWith(body[l])
<1> DEFINE ws == wrappers[l]
           front == Reverse([i \in DOMAIN ws |-> WrapperOf(ws[i])])
           back == IF body[l].defined THEN <<ClassWith(body[l])>> ELSE << >>
<1>1. ws \in Seq(Declaration) /\ body[l] \in ParameterList
    BY DEF Typed
<1>2. Len(ws) \in Nat /\ DOMAIN ws = 1 .. Len(ws) /\ \A i \in 1 .. Len(ws) : ws[i] \in Declaration
    <2> HIDE DEF ws
    <2> QED
        BY <1>1
<1>3. /\ front \in Seq(Ancestor) /\ Len(front) = Len(ws)
      /\ \A i \in 1 .. Len(ws) : front[i] = WrapperOf(ws[Len(ws) + 1 - i])
    <2> HIDE DEF ws
    <2> DEFINE s == [i \in 1 .. Len(ws) |-> WrapperOf(ws[i])]
    <2>1. \A i \in 1 .. Len(ws) : WrapperOf(ws[i]) \in Ancestor
        BY <1>2 DEF Ancestor
    <2>2. s \in Seq(Ancestor) /\ Len(s) = Len(ws)
        BY <1>2, <2>1
    <2>3. front = [i \in 1 .. Len(ws) |-> s[(Len(ws) - i) + 1]]
        BY <1>2, <2>2 DEF Reverse
    <2>4. \A i \in 1 .. Len(ws) : /\ (Len(ws) - i) + 1 \in 1 .. Len(ws)
                                  /\ (Len(ws) - i) + 1 = Len(ws) + 1 - i
        BY <1>2
    <2>5. \A i \in 1 .. Len(ws) : front[i] = WrapperOf(ws[Len(ws) + 1 - i])
        BY <2>3, <2>4
    <2> QED
        BY <1>2, <2>1, <2>3, <2>4, <2>5
<1>4. /\ back \in Seq(Ancestor)
      /\ Len(back) = IF body[l].defined THEN 1 ELSE 0
      /\ body[l].defined => back[1] = ClassWith(body[l])
    <2>1. ClassWith(body[l]) \in Ancestor
        BY <1>1 DEF Ancestor
    <2> QED
        BY <2>1
<1>5. OfLevel(l) = front \o back
    BY DEF OfLevel
<1> HIDE DEF ws, front, back
<1>6. OfLevel(l) \in Seq(Ancestor) /\ Len(OfLevel(l)) = Len(front) + Len(back)
    BY <1>3, <1>4, <1>5
<1>7. ASSUME NEW i \in 1 .. Len(ws) PROVE OfLevel(l)[i] = front[i]
    BY <1>2, <1>3, <1>4, <1>5
<1>8. ASSUME body[l].defined PROVE OfLevel(l)[Len(ws) + 1] = back[1]
    <2>1. Len(back) = 1 /\ Len(front) + 1 \in Len(front) + 1 .. Len(front) + Len(back)
        BY <1>2, <1>3, <1>4, <1>8
    <2>2. (front \o back)[Len(front) + 1] = back[(Len(front) + 1) - Len(front)]
        BY <1>3, <1>4, <2>1, ConcatProperties
    <2> QED
        BY <1>2, <1>3, <1>5, <2>2
<1> QED
    BY <1>2, <1>3, <1>4, <1>6, <1>7, <1>8 DEF ws

(* The ancestors up to a level, as their definition has them.              *)
LEMMA AncestorsEquation ==
    ASSUME Typed
    PROVE  /\ Ancestors \in [0 .. Levels -> Seq(Ancestor)]
           /\ Ancestors[0] = IF derives THEN <<EventHandler>> ELSE << >>
           /\ \A l \in Level : Ancestors[l] = OfLevel(l) \o Ancestors[l - 1]
<1> DEFINE a == IF derives THEN <<EventHandler>> ELSE << >>
           V == Seq(Ancestor)
           step == [l \in 1 .. Levels |-> [s \in V |-> OfLevel(l) \o s]]
           Chain(f) == f = [l \in 0 .. Levels |-> IF l = 0 THEN a ELSE OfLevel(l) \o f[l - 1]]
<1>1. a \in V
    <2>1. EventHandler \in Ancestor
        BY DEF Ancestor
    <2> QED
        BY <2>1
<1>2. step \in [1 .. Levels -> [V -> V]]
    <2>1. \A l \in 1 .. Levels : OfLevel(l) \in V
        BY LevelShape DEF Level
    <2>2. \A l \in 1 .. Levels : \A s \in V : OfLevel(l) \o s \in V
        BY <2>1
    <2> QED
        BY <2>2
<1>3. PICK f \in [0 .. Levels -> V] :
          Iterates(f, Levels, a, step)
    <2> HIDE DEF a, V, step
    <2>1. Levels \in Nat
        BY HandlerClassesAssumption
    <2> QED
        BY <1>1, <1>2, <2>1, Recursion
<1>4. Chain(f)
    <2>1. ASSUME NEW l \in 0 .. Levels, l # 0
          PROVE  f[l] = OfLevel(l) \o f[l - 1]
        <3>1. l - 1 \in 0 .. Levels /\ l \in Level /\ l \in 1 .. Levels
            BY <2>1, HandlerClassesAssumption DEF Level
        <3>2. f[l - 1] \in V
            BY <3>1
        <3>3. step[l][f[l - 1]] = OfLevel(l) \o f[l - 1]
            BY <3>1, <3>2
        <3> QED
            BY <1>3, <3>1, <3>3 DEF Iterates
    <2> HIDE DEF a, V, step
    <2> QED
        BY <1>3, <2>1 DEF Iterates
<1>5. Ancestors = CHOOSE g : Chain(g)
    BY DEF Ancestors
<1>6. Chain(Ancestors)
    <2> HIDE DEF Chain
    <2> QED
        BY <1>4, <1>5
<1>7. ASSUME NEW l \in Level PROVE Ancestors[l] = OfLevel(l) \o Ancestors[l - 1]
    <2>1. l \in 0 .. Levels /\ l # 0
        BY HandlerClassesAssumption DEF Level
    <2> QED
        BY <1>6, <2>1
<1>8. Ancestors[0] = a
    BY <1>6, HandlerClassesAssumption
<1>9. 0 .. Levels \subseteq { l \in 0 .. Levels : Ancestors[l] \in V }
    <2> DEFINE S == { l \in 0 .. Levels : Ancestors[l] \in V }
    <2>1. 0 \in S
        <3>1. 0 \in 0 .. Levels
            BY HandlerClassesAssumption
        <3> HIDE DEF a, V
        <3> QED
            BY <1>1, <1>8, <3>1
    <2>2. ASSUME NEW l \in 0 + 1 .. Levels, l - 1 \in S PROVE l \in S
        <3>1. l \in Level /\ l \in 0 .. Levels
            BY HandlerClassesAssumption DEF Level
        <3>2. OfLevel(l) \in V
            BY <3>1, LevelShape
        <3>3. OfLevel(l) \o Ancestors[l - 1] \in V
            BY <2>2, <3>2
        <3> QED
            BY <1>7, <3>1, <3>3
    <2> HIDE DEF S
    <2> QED
        BY <2>1, <2>2, UpTo, HandlerClassesAssumption DEF S
<1>10. Ancestors = [l \in 0 .. Levels |-> Ancestors[l]]
    BY <1>6
<1> QED
    BY <1>7, <1>8, <1>9, <1>10

(* The declarations in force up to a level, likewise.                      *)
LEMMA DeclaredEquation ==
    ASSUME Typed
    PROVE  /\ DeclaredUpTo \in [0 .. Levels -> Seq(Declaration)]
           /\ DeclaredUpTo[0] = << >>
           /\ \A l \in Level :
                 DeclaredUpTo[l] = IF \E m \in Defining : l < m
                                   THEN << >>
                                   ELSE DeclaredUpTo[l - 1] \o wrappers[l]
<1> DEFINE V == Seq(Declaration)
           After(l, s) == IF \E m \in Defining : l < m THEN << >> ELSE s \o wrappers[l]
           step == [l \in 1 .. Levels |-> [s \in V |-> After(l, s)]]
           Chain(f) == f = [l \in 0 .. Levels |->
                               IF l = 0 \/ \E m \in Defining : l < m
                               THEN << >>
                               ELSE f[l - 1] \o wrappers[l]]
<1>1. << >> \in V
    OBVIOUS
<1>2. \A l \in Level : \A s \in V : After(l, s) \in V
    BY DEF Typed
<1>3. step \in [1 .. Levels -> [V -> V]]
    BY <1>2 DEF Level
<1>4. PICK f \in [0 .. Levels -> V] : Iterates(f, Levels, << >>, step)
    <2> HIDE DEF V, step
    <2>1. Levels \in Nat
        BY HandlerClassesAssumption
    <2> QED
        BY <1>1, <1>3, <2>1, Recursion
<1>5. Chain(f)
    <2>1. ASSUME NEW l \in 0 .. Levels, l # 0
          PROVE  f[l] = After(l, f[l - 1])
        <3>1. l - 1 \in 0 .. Levels /\ l \in Level /\ l \in 1 .. Levels
            BY <2>1, HandlerClassesAssumption DEF Level
        <3>2. f[l - 1] \in V
            BY <3>1
        <3>3. step[l][f[l - 1]] = After(l, f[l - 1])
            BY <3>1, <3>2
        <3> QED
            BY <1>4, <3>1, <3>3 DEF Iterates
    <2>2. f[0] = << >>
        BY <1>4 DEF Iterates
    <2> HIDE DEF V, step
    <2> QED
        BY <2>1, <2>2
<1>6. DeclaredUpTo = CHOOSE g : Chain(g)
    BY DEF DeclaredUpTo
<1>7. Chain(DeclaredUpTo)
    <2> HIDE DEF Chain
    <2> QED
        BY <1>5, <1>6
<1>8. ASSUME NEW l \in Level PROVE DeclaredUpTo[l] = After(l, DeclaredUpTo[l - 1])
    <2>1. l \in 0 .. Levels /\ l # 0
        BY HandlerClassesAssumption DEF Level
    <2> QED
        BY <1>7, <2>1
<1>9. DeclaredUpTo[0] = << >> /\ 0 \in 0 .. Levels
    BY <1>7, HandlerClassesAssumption
<1>10. 0 .. Levels \subseteq { l \in 0 .. Levels : DeclaredUpTo[l] \in V }
    <2> DEFINE S == { l \in 0 .. Levels : DeclaredUpTo[l] \in V }
    <2> HIDE DEF V, After
    <2>1. 0 \in S
        BY <1>1, <1>9
    <2>2. ASSUME NEW l \in 0 + 1 .. Levels, l - 1 \in S PROVE l \in S
        <3>1. l \in Level /\ l \in 0 .. Levels
            BY HandlerClassesAssumption DEF Level
        <3> QED
            BY <1>2, <1>8, <2>2, <3>1
    <2> HIDE DEF S
    <2> QED
        BY <2>1, <2>2, UpTo, HandlerClassesAssumption DEF S
<1>11. DeclaredUpTo = [l \in 0 .. Levels |-> DeclaredUpTo[l]]
    BY <1>7
<1> QED
    BY <1>8, <1>9, <1>10, <1>11

(* What a call meets, when the class or one it inherits from defines the   *)
(* method: the declarations in force, the outer ones first, then the       *)
(* method.                                                                 *)
Shape(ancestors, declared, p) ==
    LET k == Len(declared)
    IN  /\ k + 1 <= Len(ancestors)
        /\ \A i \in 1 .. k : ancestors[i] = WrapperOf(declared[k + 1 - i])
        /\ ancestors[k + 1] = ClassWith(p)

LEMMA ShapeBelow ==
    ASSUME NEW front \in Seq(Ancestor), NEW ws \in Seq(Declaration), NEW p,
           Len(front) = Len(ws),
           \A i \in 1 .. Len(ws) : front[i] = WrapperOf(ws[Len(ws) + 1 - i]),
           NEW ancestors \in Seq(Ancestor), NEW declared \in Seq(Declaration),
           Shape(ancestors, declared, p)
    PROVE  Shape(front \o ancestors, declared \o ws, p)
<1> DEFINE all == front \o ancestors
           ds == declared \o ws
           k == Len(declared)
           n == Len(ws)
<1>1. /\ k \in Nat /\ n \in Nat /\ Len(front) = n /\ Len(ancestors) \in Nat
      /\ k + 1 <= Len(ancestors)
    BY DEF Shape
<1>2. Len(all) = n + Len(ancestors) /\ Len(ds) = k + n
    <2>1. Len(front \o ancestors) = Len(front) + Len(ancestors)
        BY ConcatProperties
    <2>2. Len(declared \o ws) = Len(declared) + Len(ws)
        BY ConcatProperties
    <2> QED
        BY <2>1, <2>2
<1>3. ASSUME NEW i \in 1 .. n PROVE all[i] = WrapperOf(ds[(k + n) + 1 - i])
    <2>1. all[i] = front[i]
        BY <1>1
    <2>2. /\ (k + n) + 1 - i \in k + 1 .. k + n
          /\ ((k + n) + 1 - i) - k = n + 1 - i
        BY <1>1
    <2>3. ds[(k + n) + 1 - i] = ws[n + 1 - i]
        BY <1>1, <2>2, ConcatProperties
    <2> QED
        BY <2>1, <2>3
<1>4. ASSUME NEW i \in n + 1 .. n + k PROVE all[i] = WrapperOf(ds[(k + n) + 1 - i])
    <2>1. i - n \in 1 .. k /\ k + 1 - (i - n) = (k + n) + 1 - i
          /\ (k + n) + 1 - i \in 1 .. k /\ i \in Len(front) + 1 .. Len(front) + Len(ancestors)
        BY <1>1
    <2>2. all[i] = ancestors[i - n]
        BY <1>1, <2>1, ConcatProperties
    <2>3. ds[(k + n) + 1 - i] = declared[(k + n) + 1 - i]
        BY <1>1, <2>1, ConcatProperties
    <2> QED
        BY <2>1, <2>2, <2>3 DEF Shape
<1>5. all[(k + n) + 1] = ClassWith(p)
    <2>1. /\ (k + n) + 1 \in Len(front) + 1 .. Len(front) + Len(ancestors)
          /\ ((k + n) + 1) - Len(front) = k + 1
        BY <1>1
    <2>2. all[(k + n) + 1] = ancestors[k + 1]
        BY <1>1, <2>1, ConcatProperties
    <2> QED
        BY <2>2 DEF Shape
<1>6. \A i \in 1 .. k + n : i \in 1 .. n \/ i \in n + 1 .. n + k
    <2> HIDE DEF k, n
    <2>1. k \in Nat /\ n \in Nat
        BY <1>1
    <2> QED
        BY <2>1
<1> HIDE DEF all, ds, k, n
<1>7. \A i \in 1 .. k + n : all[i] = WrapperOf(ds[(k + n) + 1 - i])
    BY <1>3, <1>4, <1>6
<1>8. (k + n) + 1 <= Len(all)
    BY <1>1, <1>2
<1>9. Shape(all, ds, p)
    BY <1>2, <1>5, <1>7, <1>8 DEF Shape
<1> QED
    BY <1>9 DEF all, ds

(* The level the method is found at.                                       *)
LEMMA Found ==
    ASSUME Typed, Defining # {}
    PROVE  LET m == Max(Defining)
           IN  /\ m \in Level /\ m \in 1 .. Levels /\ body[m].defined
               /\ \A l \in Level : l > m => ~ body[l].defined
<1>1. Defining \in SUBSET (1 .. Levels) /\ Levels \in Nat
    BY HandlerClassesAssumption DEF Defining, Level
<1>2. Max(Defining) \in Defining /\ \A x \in Defining : x <= Max(Defining)
    BY <1>1, Greatest
<1>3. Max(Defining) \in Level /\ body[Max(Defining)].defined
    BY <1>2 DEF Defining
<1>4. ASSUME NEW l \in Level, l > Max(Defining) PROVE ~ body[l].defined
    <2>1. l \in Int /\ Max(Defining) \in Int
        BY <1>3, HandlerClassesAssumption DEF Level
    <2>2. l \notin Defining
        BY <1>2, <1>4, <2>1
    <2> QED
        BY <2>2 DEF Defining
<1> QED
    BY <1>3, <1>4 DEF Level

LEMMA LookupShape ==
    ASSUME Typed, Defining # {}
    PROVE  Shape(Lookup, InForce, body[Max(Defining)])
<1> DEFINE m == Max(Defining)
           Right(l) == Shape(Ancestors[l], DeclaredUpTo[l], body[m])
           S == { l \in m .. Levels : Right(l) }
<1>1. /\ m \in Level /\ m \in 1 .. Levels /\ body[m].defined
      /\ \A l \in Level : l > m => ~ body[l].defined
    BY Found
<1> HIDE DEF m
<1>2. /\ m \in Nat /\ Levels \in Nat /\ m <= Levels
      /\ \A l \in m .. Levels : l \in Level /\ l \in 0 .. Levels /\ l - 1 \in 0 .. Levels
    BY <1>1, HandlerClassesAssumption DEF Level
<1>3. ASSUME NEW l \in m .. Levels
      PROVE  /\ wrappers[l] \in Seq(Declaration)
             /\ Ancestors[l - 1] \in Seq(Ancestor)
             /\ DeclaredUpTo[l - 1] \in Seq(Declaration)
             /\ Ancestors[l] = OfLevel(l) \o Ancestors[l - 1]
    BY <1>2, AncestorsEquation, DeclaredEquation DEF Typed
<1>4. \A l \in m .. Levels : ~ \E d \in Defining : l < d
    <2>1. \A d \in Defining : d \in Level /\ d \in Int /\ d <= m
        BY <1>1, HandlerClassesAssumption DEF Defining, Level
    <2> QED
        BY <1>2, <2>1
<1>5. \A l \in m .. Levels : DeclaredUpTo[l] = DeclaredUpTo[l - 1] \o wrappers[l]
    BY <1>2, <1>4, DeclaredEquation
<1>6. DeclaredUpTo[m - 1] = << >>
    <2>1. CASE m = 1
        BY <2>1, DeclaredEquation
    <2>2. CASE m # 1
        <3>1. m - 1 \in Level /\ m \in Defining /\ m - 1 < m
            BY <1>1, <1>2, <2>2 DEF Level, Defining
        <3> QED
            BY <3>1, DeclaredEquation
    <2> QED
        BY <2>1, <2>2
<1>7. m \in S
    <2> DEFINE ws == wrappers[m]
    <2>1. m \in m .. Levels
        BY <1>2
    <2>2. DeclaredUpTo[m] = ws
        <3>1. ws \in Seq(Declaration) /\ DeclaredUpTo[m] = << >> \o ws
            BY <1>3, <1>5, <1>6, <2>1
        <3> HIDE DEF ws
        <3> QED
            BY <3>1
    <2>3. /\ Len(ws) \in Nat /\ OfLevel(m) \in Seq(Ancestor)
          /\ Len(OfLevel(m)) = Len(ws) + 1
          /\ \A i \in 1 .. Len(ws) : OfLevel(m)[i] = WrapperOf(ws[Len(ws) + 1 - i])
          /\ OfLevel(m)[Len(ws) + 1] = ClassWith(body[m])
        BY <1>1, LevelShape
    <2>4. Ancestors[m] = OfLevel(m) \o Ancestors[m - 1] /\ Ancestors[m - 1] \in Seq(Ancestor)
        BY <1>3, <2>1
    <2> HIDE DEF ws
    <2>5. Len(ws) + 1 <= Len(Ancestors[m])
        <3>1. Len(Ancestors[m]) = Len(OfLevel(m)) + Len(Ancestors[m - 1])
            <4>1. Len(OfLevel(m) \o Ancestors[m - 1]) = Len(OfLevel(m)) + Len(Ancestors[m - 1])
                BY <2>3, <2>4, ConcatProperties
            <4> QED
                BY <2>4, <4>1
        <3>2. Len(Ancestors[m - 1]) \in Nat /\ Len(OfLevel(m)) = Len(ws) + 1 /\ Len(ws) \in Nat
            BY <2>3, <2>4
        <3> QED
            <4> DEFINE x == Len(ws)
                       y == Len(Ancestors[m - 1])
                       z == Len(Ancestors[m])
            <4>1. x \in Nat /\ y \in Nat /\ z = (x + 1) + y
                BY <3>1, <3>2
            <4> HIDE DEF x, y, z
            <4>2. x + 1 <= z
                BY <4>1
            <4> QED
                BY <4>2 DEF x, z
    <2>6. \A i \in 1 .. Len(ws) + 1 : Ancestors[m][i] = OfLevel(m)[i]
        BY <2>3, <2>4, ConcatProperties
    <2>7. /\ \A i \in 1 .. Len(ws) : i \in 1 .. Len(ws) + 1
          /\ Len(ws) + 1 \in 1 .. Len(ws) + 1
        BY <2>3
    <2>8. Shape(Ancestors[m], ws, body[m])
        BY <2>3, <2>5, <2>6, <2>7 DEF Shape
    <2> QED
        BY <2>1, <2>2, <2>8
<1>8. ASSUME NEW l \in m + 1 .. Levels, l - 1 \in S PROVE l \in S
    <2>1. l \in m .. Levels /\ l \in Level /\ ~ body[l].defined
        BY <1>1, <1>2
    <2>2. /\ Len(OfLevel(l)) = Len(wrappers[l])
          /\ OfLevel(l) \in Seq(Ancestor)
          /\ \A i \in 1 .. Len(wrappers[l]) :
                OfLevel(l)[i] = WrapperOf(wrappers[l][Len(wrappers[l]) + 1 - i])
        <3>1. Len(wrappers[l]) \in Nat /\ Len(wrappers[l]) + 0 = Len(wrappers[l])
            BY <2>1, LevelShape
        <3> QED
            BY <2>1, <3>1, LevelShape
    <2>3. Shape(Ancestors[l - 1], DeclaredUpTo[l - 1], body[m])
        BY <1>8
    <2>4. Shape(OfLevel(l) \o Ancestors[l - 1], DeclaredUpTo[l - 1] \o wrappers[l], body[m])
        BY <1>3, <2>1, <2>2, <2>3, ShapeBelow
    <2> QED
        BY <1>3, <1>5, <2>1, <2>4
<1>9. m .. Levels \subseteq S
    <2> HIDE DEF S
    <2> QED
        BY <1>2, <1>7, <1>8, UpTo
<1>10. Levels \in S
    BY <1>2, <1>9
<1> QED
    BY <1>10 DEF Lookup, InForce, m

(* Without a method there is none to be found.                             *)
LEMMA NoClass ==
    ASSUME Typed, Defining = {}
    PROVE  ~ Implemented
<1> DEFINE Classless(s) == \A i \in DOMAIN s : s[i].owner # "class"
           S == { l \in 0 .. Levels : Classless(Ancestors[l]) }
<1>1. 0 \in S
    BY AncestorsEquation, HandlerClassesAssumption DEF EventHandler
<1>2. ASSUME NEW l \in 0 + 1 .. Levels, l - 1 \in S PROVE l \in S
    <2> DEFINE n == Len(wrappers[l])
    <2>1. l \in Level /\ l \in 0 .. Levels /\ ~ body[l].defined
        BY HandlerClassesAssumption DEF Level, Defining
    <2>2. /\ n \in Nat /\ Len(OfLevel(l)) = n /\ OfLevel(l) \in Seq(Ancestor)
          /\ \A i \in 1 .. n : OfLevel(l)[i] = WrapperOf(wrappers[l][n + 1 - i])
        <3>1. Len(wrappers[l]) \in Nat /\ Len(wrappers[l]) + 0 = Len(wrappers[l])
            BY <2>1, LevelShape
        <3> QED
            BY <2>1, <3>1, LevelShape
    <2>3. Classless(OfLevel(l))
        <3> HIDE DEF n
        <3>1. DOMAIN OfLevel(l) = 1 .. n
            BY <2>2
        <3>2. \A i \in 1 .. n : OfLevel(l)[i].owner = "wrapper"
            BY <2>2 DEF WrapperOf
        <3> QED
            BY <3>1, <3>2
    <2>4. Ancestors[l - 1] \in Seq(Ancestor) /\ Classless(Ancestors[l - 1])
        BY <1>2, AncestorsEquation
    <2>5. Classless(OfLevel(l) \o Ancestors[l - 1])
        BY <2>2, <2>3, <2>4
    <2> QED
        BY <2>1, <2>5, AncestorsEquation
<1>3. Levels \in S
    <2> HIDE DEF S
    <2> QED
        BY <1>1, <1>2, UpTo, HandlerClassesAssumption
<1> QED
    BY <1>3 DEF Implemented, Lookup

(* What runs is the method, behind the declarations in force.              *)
LEMMA RunsTheMethod ==
    ASSUME Typed, Defining # {}
    PROVE  /\ InForce \in Seq(Declaration) /\ Len(InForce) \in Nat
           /\ Runs = Len(InForce) + 1
           /\ Runs \in DOMAIN Lookup
           /\ Lookup[Runs] = ClassWith(body[Max(Defining)])
           /\ \A i \in 1 .. Len(InForce) : Lookup[Runs - i] = WrapperOf(InForce[i])
<1> DEFINE k == Len(InForce)
           plain == { i \in DOMAIN Lookup : Lookup[i].owner # "wrapper" }
<1>1. InForce \in Seq(Declaration) /\ Lookup \in Seq(Ancestor)
    BY AncestorsEquation, DeclaredEquation, HandlerClassesAssumption DEF InForce, Lookup
<1>2. k \in Nat /\ Len(Lookup) \in Nat /\ DOMAIN Lookup = 1 .. Len(Lookup)
    BY <1>1
<1>3. /\ k + 1 <= Len(Lookup)
      /\ \A i \in 1 .. k : Lookup[i] = WrapperOf(InForce[k + 1 - i])
      /\ Lookup[k + 1] = ClassWith(body[Max(Defining)])
    BY LookupShape DEF Shape
<1> HIDE DEF k
<1>4. k + 1 \in plain
    <2>1. k + 1 \in DOMAIN Lookup
        BY <1>2, <1>3
    <2> QED
        BY <1>3, <2>1 DEF ClassWith
<1>5. \A i \in plain : i \in Nat /\ k + 1 <= i
    <2>1. \A i \in 1 .. k : Lookup[i].owner = "wrapper"
        <3> SUFFICES ASSUME NEW i \in 1 .. k PROVE Lookup[i].owner = "wrapper"
            OBVIOUS
        <3>1. Lookup[i] = WrapperOf(InForce[k + 1 - i])
            BY <1>3
        <3> QED
            BY <3>1 DEF WrapperOf
    <2>2. \A i \in plain : i \in 1 .. Len(Lookup) /\ i \notin 1 .. k
        BY <1>2, <2>1
    <2> HIDE DEF plain
    <2> QED
        BY <1>2, <2>2
<1>6. Runs = IF plain = {} THEN 0 ELSE Min(plain)
    BY DEF Runs
<1> HIDE DEF plain
<1>7. Min(plain) = k + 1
    <2>1. \A x \in plain : (\A y \in plain : x <= y) => x = k + 1
        BY <1>2, <1>4, <1>5
    <2> QED
        BY <1>4, <1>5, <2>1 DEF Min
<1>8. Runs = k + 1
    BY <1>4, <1>6, <1>7
<1>9. ASSUME NEW i \in 1 .. k PROVE Lookup[Runs - i] = WrapperOf(InForce[i])
    <2>1. /\ (k + 1) - i \in 1 .. k /\ k + 1 - ((k + 1) - i) = i
        BY <1>2
    <2> QED
        BY <1>3, <1>8, <2>1
<1>10. k + 1 \in DOMAIN Lookup
    BY <1>2, <1>3
<1> QED
    BY <1>1, <1>2, <1>3, <1>8, <1>9, <1>10 DEF k

(* validate_method! says what Ruby's rules for calls say.                  *)
LEMMA ValidMeaning ==
    ASSUME Typed
    PROVE  Valid <=> (Defining # {} /\ TakesTwo(body[Max(Defining)]))
<1>1. CASE Defining = {}
    BY <1>1, NoClass DEF Valid, Implemented
<1>2. CASE Defining # {}
    <2> DEFINE p == body[Max(Defining)]
    <2>1. /\ Runs \in DOMAIN Lookup /\ Lookup[Runs] = ClassWith(p)
          /\ Runs = Len(InForce) + 1 /\ Len(InForce) \in Nat
        BY <1>2, RunsTheMethod
    <2>2. p \in ParameterList
        BY <1>2, Found DEF Typed
    <2> HIDE DEF p
    <2>3. Lookup[Runs].owner = "class" /\ Lookup[Runs].parameters = p
        BY <2>1 DEF ClassWith
    <2>4. Implemented /\ Runs # 0
        BY <2>1, <2>3 DEF Implemented
    <2>5. /\ p.req \in Nat /\ p.opt \in Nat /\ p.rest \in BOOLEAN /\ p.keyreq \in BOOLEAN
        BY <2>2 DEF ParameterList
    <2>6. p.req + p.opt >= 2 <=> 2 - p.req <= p.opt
        BY <2>5
    <2>7. AcceptsTwoParameters(p) <=> TakesTwo(p)
        BY <2>6 DEF AcceptsTwoParameters, TakesTwo
    <2> QED
        BY <1>2, <2>3, <2>4, <2>7 DEF Valid, p
<1> QED
    BY <1>1, <1>2

--------------------------------------------------------------------------------
(* The ancestors of an exception's class, as their definition has them:    *)
(* the inheritance of handler.rb:3 has an end.                             *)
LEMMA AncestryEquation ==
    \A c \in Exceptions :
        Ancestry[c] = {c} \cup IF c = Superclass[c] THEN {} ELSE Ancestry[Superclass[c]]
<1> DEFINE Chain(f) == f = [c \in Exceptions |->
                               {c} \cup IF c = Superclass[c] THEN {} ELSE f[Superclass[c]]]
           Table ==
               [c \in Exceptions |->
                   IF c = "Exception"
                   THEN {"Exception"}
                   ELSE IF c \in {"StandardError", "Stop", "NotImplementedError"}
                   THEN {c, "Exception"}
                   ELSE IF c \in {"TypeError", "RuntimeError", "Error"}
                   THEN {c, "StandardError", "Exception"}
                   ELSE IF c = "EventHandlerError"
                   THEN {c, "Error", "StandardError", "Exception"}
                   ELSE {c, "EventHandlerError", "Error", "StandardError", "Exception"}]
<1>1. ASSUME NEW c \in Exceptions
      PROVE  Table[c] = {c} \cup IF c = Superclass[c] THEN {} ELSE Table[Superclass[c]]
    BY DEF Exceptions, Superclass
<1>2. Chain(Table)
    BY <1>1
<1>3. Ancestry = CHOOSE f : Chain(f)
    BY DEF Ancestry
<1>4. Chain(Ancestry)
    <2> HIDE DEF Chain, Table
    <2> QED
        BY <1>2, <1>3
<1> QED
    BY <1>4

(* What rescues StandardError or Exception rescues every error.            *)
LEMMA Errors ==
    /\ \A e \in Exceptions :
          Catches({"StandardError"}, e) => Ancestry["StandardError"] \subseteq Ancestry[e]
    /\ \A as \in {"PermanentError", "TransientError"} : Catches({"StandardError"}, as)
<1> DEFINE A == Ancestry
<1>1. A["Exception"] = {"Exception"}
    BY AncestryEquation DEF Exceptions, Superclass
<1>2. \A c \in {"StandardError", "Stop", "NotImplementedError"} : A[c] = {c, "Exception"}
    BY <1>1, AncestryEquation DEF Exceptions, Superclass
<1>3. \A c \in {"TypeError", "RuntimeError", "Error"} : A[c] = {c, "StandardError", "Exception"}
    BY <1>2, AncestryEquation DEF Exceptions, Superclass
<1>4. A["EventHandlerError"] = {"EventHandlerError", "Error", "StandardError", "Exception"}
    BY <1>3, AncestryEquation DEF Exceptions, Superclass
<1>5. \A c \in {"PermanentError", "TransientError"} :
         A[c] = {c, "EventHandlerError", "Error", "StandardError", "Exception"}
    BY <1>4, AncestryEquation DEF Exceptions, Superclass
<1> QED
    BY <1>1, <1>2, <1>3, <1>4, <1>5 DEF Exceptions, Superclass, Catches

(* An exception on its way out, declaration by declaration.                *)
Passes(out, declared, e) ==
    /\ out[0] = e
    /\ \A i \in 1 .. Len(declared) : out[i] = RescuedBy(out[i - 1], declared[i])

LEMMA RescuedTyped ==
    ASSUME NEW e \in Exceptions, NEW w \in Declaration
    PROVE  RescuedBy(e, w) \in Exceptions /\ RescuedBy(e, WrapperOf(w)) = RescuedBy(e, w)
<1>1. WrapperOf(w).rescues = w.rescues /\ WrapperOf(w).as = w.as
    BY DEF WrapperOf
<1>2. w.as \in Exceptions
    BY DEF Declaration, Exceptions, Superclass
<1> QED
    BY <1>1, <1>2 DEF RescuedBy

LEMMA LeavesStepwise ==
    ASSUME Typed, Defining # {}, NEW e \in Exceptions
    PROVE  \E out \in [0 .. Len(InForce) -> Exceptions] :
              Passes(out, InForce, e) /\ Leaves(e) = out[Len(InForce)]
<1> DEFINE k == Len(InForce)
           step == [i \in 1 .. k |-> [x \in Exceptions |-> RescuedBy(x, InForce[i])]]
           Chain(f) == f = [i \in 0 .. Runs - 1 |->
                               IF i = 0 THEN e ELSE RescuedBy(f[i - 1], Lookup[Runs - i])]
           out == CHOOSE f : Chain(f)
<1>1. /\ k \in Nat /\ Runs = k + 1 /\ 0 .. Runs - 1 = 0 .. k
      /\ \A i \in 1 .. k : /\ InForce[i] \in Declaration
                           /\ Lookup[Runs - i] = WrapperOf(InForce[i])
    BY RunsTheMethod
<1>2. Leaves(e) = out[Runs - 1]
    BY DEF Leaves
<1> HIDE DEF k
<1>3. step \in [1 .. k -> [Exceptions -> Exceptions]]
    BY <1>1, RescuedTyped
<1>4. PICK f \in [0 .. k -> Exceptions] : Iterates(f, k, e, step)
    <2> HIDE DEF step
    <2> QED
        BY <1>1, <1>3, Recursion
<1>5. ASSUME NEW i \in 1 .. k, NEW x \in Exceptions
      PROVE  step[i][x] = RescuedBy(x, Lookup[Runs - i])
    BY <1>1, RescuedTyped
<1>6. Chain(f)
    <2>1. ASSUME NEW i \in 0 .. k, i # 0 PROVE f[i] = RescuedBy(f[i - 1], Lookup[Runs - i])
        <3>1. i \in 1 .. k /\ i - 1 \in 0 .. k
            BY <1>1, <2>1
        <3> HIDE DEF step
        <3> QED
            BY <1>4, <1>5, <3>1 DEF Iterates
    <2>2. f[0] = e
        BY <1>4 DEF Iterates
    <2> QED
        BY <1>1, <2>1, <2>2
<1>7. Chain(out)
    <2> HIDE DEF Chain
    <2> QED
        BY <1>6
<1> HIDE DEF out
<1>8. out[0] = e
    BY <1>1, <1>7
<1>9. ASSUME NEW i \in 1 .. k, out[i - 1] \in Exceptions
      PROVE  out[i] = RescuedBy(out[i - 1], InForce[i]) /\ out[i] \in Exceptions
    <2>1. i \in 0 .. k /\ i # 0
        BY <1>1
    <2>2. out[i] = RescuedBy(out[i - 1], Lookup[Runs - i])
        BY <1>1, <1>7, <2>1
    <2> QED
        BY <1>1, <1>9, <2>2, RescuedTyped
<1>10. 0 .. k \subseteq { i \in 0 .. k : out[i] \in Exceptions }
    <2> DEFINE S == { i \in 0 .. k : out[i] \in Exceptions }
    <2>1. 0 \in S
        BY <1>1, <1>8
    <2>2. ASSUME NEW i \in 0 + 1 .. k, i - 1 \in S PROVE i \in S
        <3>1. i \in 1 .. k /\ i \in 0 .. k
            BY <1>1
        <3> QED
            BY <1>9, <2>2, <3>1
    <2> HIDE DEF S
    <2> QED
        BY <1>1, <2>1, <2>2, UpTo DEF S
<1>11. out \in [0 .. k -> Exceptions]
    <2>1. out = [i \in 0 .. k |-> out[i]]
        BY <1>1, <1>7
    <2> QED
        BY <1>10, <2>1
<1>12. \A i \in 1 .. k : out[i] = RescuedBy(out[i - 1], InForce[i])
    <2> SUFFICES ASSUME NEW i \in 1 .. k PROVE out[i - 1] \in Exceptions
        BY <1>9
    <2> QED
        BY <1>1, <1>11
<1>13. Leaves(e) = out[k]
    <2>1. Runs - 1 = k
        BY <1>1
    <2> QED
        BY <1>2, <2>1
<1> QED
    BY <1>8, <1>11, <1>12, <1>13 DEF Passes, k

(* The last declaration that rescues StandardError, if no later one        *)
(* rescues errors of Prosody, classifies every error.                      *)
LEMMA LastWord ==
    ASSUME NEW declared \in Seq(Declaration), NEW e \in Exceptions,
           NEW out \in [0 .. Len(declared) -> Exceptions], Passes(out, declared, e),
           Catches({"StandardError"}, e), NEW b \in DOMAIN declared,
           Catches(declared[b].rescues, "StandardError"),
           \A i \in DOMAIN declared, as \in {"PermanentError", "TransientError"} :
              Catches(declared[i].rescues, as) => i <= b
    PROVE  out[Len(declared)] = declared[b].as
<1> DEFINE k == Len(declared)
<1>1. /\ k \in Nat /\ b \in 1 .. k /\ DOMAIN declared = 1 .. k
      /\ \A i \in 1 .. k : declared[i] \in Declaration
    OBVIOUS
<1>2. \A i \in 1 .. k : declared[i].as \in {"PermanentError", "TransientError"}
    BY <1>1 DEF Declaration
<1>3. out[0] = e /\ \A i \in 1 .. k : out[i] = RescuedBy(out[i - 1], declared[i])
    BY DEF Passes
<1> HIDE DEF k
<1>4. ASSUME NEW i \in 1 .. k
      PROVE  out[i] = IF Catches(declared[i].rescues, out[i - 1])
                      THEN declared[i].as ELSE out[i - 1]
    BY <1>3 DEF RescuedBy
<1>5. 0 .. k \subseteq { i \in 0 .. k : Catches({"StandardError"}, out[i]) }
    <2> DEFINE S == { i \in 0 .. k : Catches({"StandardError"}, out[i]) }
    <2>1. 0 \in S
        BY <1>1, <1>3
    <2>2. ASSUME NEW i \in 0 + 1 .. k, i - 1 \in S PROVE i \in S
        <3>1. i \in 1 .. k /\ i \in 0 .. k
            BY <1>1
        <3>2. out[i] = declared[i].as \/ out[i] = out[i - 1]
            BY <1>4, <3>1
        <3> QED
            BY <1>2, <2>2, <3>1, <3>2, Errors
    <2>3. 0 \in Nat /\ k \in Nat
        BY <1>1
    <2>4. 0 .. k \subseteq S
        <3> HIDE DEF S
        <3> QED
            BY <2>1, <2>2, <2>3, UpTo
    <2> QED
        BY <2>4
<1>6. out[b] = declared[b].as
    <2>1. b - 1 \in 0 .. k
        BY <1>1
    <2>2. out[b - 1] \in Exceptions
        BY <2>1 DEF k
    <2>3. Catches({"StandardError"}, out[b - 1])
        BY <1>5, <2>1
    <2>4. Ancestry["StandardError"] \subseteq Ancestry[out[b - 1]]
        BY <2>2, <2>3, Errors
    <2>5. Catches(declared[b].rescues, out[b - 1])
        BY <2>4 DEF Catches
    <2> QED
        BY <1>1, <1>4, <2>5
<1>7. b .. k \subseteq { i \in b .. k : out[i] = declared[b].as }
    <2> DEFINE S == { i \in b .. k : out[i] = declared[b].as }
    <2>1. b \in S
        BY <1>1, <1>6
    <2>2. ASSUME NEW i \in b + 1 .. k, i - 1 \in S PROVE i \in S
        <3>1. i \in 1 .. k /\ i \in b .. k /\ ~ (i <= b) /\ i \in DOMAIN declared
            BY <1>1
        <3>2. ~ Catches(declared[i].rescues, declared[b].as)
            BY <1>1, <1>2, <3>1
        <3> QED
            BY <1>4, <2>2, <3>1, <3>2
    <2>3. b \in Nat /\ k \in Nat
        BY <1>1
    <2>4. b .. k \subseteq S
        <3> HIDE DEF S
        <3> QED
            BY <2>1, <2>2, <2>3, UpTo
    <2> QED
        BY <2>4
<1>8. k \in b .. k
    BY <1>1
<1> QED
    BY <1>7, <1>8 DEF k

LEMMA PassesAsDeclared ==
    ASSUME NEW declared \in Seq(Declaration), NEW e \in Exceptions,
           NEW out \in [0 .. Len(declared) -> Exceptions], Passes(out, declared, e)
    PROVE  AsDeclared(declared, e, out[Len(declared)])
<1> DEFINE k == Len(declared)
           Names(i, c) == Catches(declared[i].rescues, c)
           naming == { i \in DOMAIN declared : Names(i, e) }
           reclassing == { i \in DOMAIN declared :
                             Names(i, "PermanentError") \/ Names(i, "TransientError") }
           broad == { i \in DOMAIN declared : Names(i, "StandardError") }
<1>1. /\ k \in Nat /\ DOMAIN declared = 1 .. k
      /\ \A i \in 1 .. k : declared[i] \in Declaration
    OBVIOUS
<1>2. out[0] = e /\ \A i \in 1 .. k : out[i] = RescuedBy(out[i - 1], declared[i])
    BY DEF Passes
<1> HIDE DEF k
<1>3. ASSUME NEW i \in 1 .. k
      PROVE  out[i] = IF Names(i, out[i - 1]) THEN declared[i].as ELSE out[i - 1]
    BY <1>2 DEF RescuedBy
<1>4. ASSUME naming = {} PROVE out[k] = e
    <2> DEFINE S == { i \in 0 .. k : out[i] = e }
    <2>1. 0 \in S
        BY <1>1, <1>2
    <2>2. ASSUME NEW i \in 0 + 1 .. k, i - 1 \in S PROVE i \in S
        <3>1. i \in 1 .. k /\ i \in 0 .. k /\ ~ Names(i, e)
            BY <1>1, <1>4
        <3> QED
            BY <1>3, <2>2, <3>1
    <2>3. 0 .. k \subseteq S /\ k \in 0 .. k
        <3> HIDE DEF S
        <3>1. 0 \in Nat /\ k \in Nat /\ k \in 0 .. k
            BY <1>1
        <3>2. 0 .. k \subseteq S
            BY <2>1, <2>2, <3>1, UpTo
        <3> QED
            BY <3>1, <3>2
    <2> QED
        BY <2>3
<1>5. ASSUME NEW as \in {"PermanentError", "TransientError"}, naming # {},
             \A i \in naming \cup reclassing : declared[i].as = as
      PROVE  out[k] = as
    <2> DEFINE S == { i \in 0 .. k : out[i] = as \/ (out[i] = e /\ \A j \in naming : j > i) }
    <2>1. 0 \in S
        <3>1. \A j \in naming : j > 0 /\ 0 \in 0 .. k
            BY <1>1
        <3>2. out[0] = e /\ 0 \in 0 .. k
            BY <1>1, <1>2
        <3> QED
            BY <3>1, <3>2
    <2>2. ASSUME NEW i \in 0 + 1 .. k, i - 1 \in S PROVE i \in S
        <3>1. i \in 1 .. k /\ i \in 0 .. k /\ i \in DOMAIN declared
            BY <1>1
        <3>2. CASE out[i - 1] = as
            <4>1. Names(i, as) => declared[i].as = as
                BY <1>5, <3>1
            <4> QED
                BY <1>3, <3>1, <3>2, <4>1
        <3>3. CASE out[i - 1] = e /\ \A j \in naming : j > i - 1
            <4>1. CASE Names(i, e)
                BY <1>3, <1>5, <3>1, <3>3, <4>1
            <4>2. CASE ~ Names(i, e)
                <5>1. \A j \in naming : j # i /\ j \in Nat
                    BY <1>1, <4>2
                <5>2. \A j \in naming : j > i
                    BY <3>1, <3>3, <5>1
                <5> QED
                    BY <1>3, <3>1, <3>3, <4>2, <5>2
            <4> QED
                BY <4>1, <4>2
        <3> QED
            BY <2>2, <3>2, <3>3
    <2>3. 0 .. k \subseteq S /\ k \in 0 .. k
        <3> HIDE DEF S
        <3>1. 0 \in Nat /\ k \in Nat /\ k \in 0 .. k
            BY <1>1
        <3>2. 0 .. k \subseteq S
            BY <2>1, <2>2, <3>1, UpTo
        <3> QED
            BY <3>1, <3>2
    <2>4. \A j \in naming : j \in 1 .. k
        BY <1>1
    <2>5. ~ \A j \in naming : j > k
        BY <1>1, <1>5, <2>4
    <2> QED
        BY <2>3, <2>5
<1>6. ASSUME broad # {}, Catches({"StandardError"}, e), Max(reclassing) = Max(broad)
      PROVE  out[k] = declared[Max(broad)].as
    <2>1. broad \in SUBSET (1 .. k) /\ reclassing \in SUBSET (1 .. k)
        BY <1>1
    <2>2. broad \subseteq reclassing
        BY Errors DEF Catches, Exceptions, Superclass
    <2>3. Max(broad) \in broad
        BY <1>1, <1>6, <2>1, Greatest
    <2>4. \A i \in reclassing : i <= Max(broad)
        <3>1. reclassing # {}
            BY <1>6, <2>2
        <3> QED
            BY <1>1, <1>6, <2>1, <3>1, Greatest
    <2>5. Max(broad) \in DOMAIN declared /\ Names(Max(broad), "StandardError")
        BY <2>3
    <2>6. \A i \in DOMAIN declared, as \in {"PermanentError", "TransientError"} :
             Catches(declared[i].rescues, as) => i <= Max(broad)
        BY <2>4
    <2> QED
        BY <1>6, <2>5, <2>6, LastWord DEF k
<1> QED
    BY <1>4, <1>5, <1>6 DEF AsDeclared, k

--------------------------------------------------------------------------------
(* The chains are those of the class bodies: they change with them only.   *)
DeclaredIn(b, w) ==
    CHOOSE f : f = [l \in 0 .. Levels |->
                       IF l = 0 \/ \E m \in { n \in Level : b[n].defined } : l < m
                       THEN << >>
                       ELSE f[l - 1] \o w[l]]

LEMMA InForceStays ==
    ASSUME UNCHANGED <<body, wrappers>>
    PROVE  InForce' = InForce
<1>1. DeclaredUpTo = DeclaredIn(body, wrappers)
    BY DEF DeclaredUpTo, DeclaredIn, Defining
<1>2. DeclaredUpTo' = DeclaredIn(body', wrappers')
    BY DEF DeclaredUpTo, DeclaredIn, Defining
<1> QED
    BY <1>1, <1>2 DEF InForce

ClassInv ==
    /\ Typed
    /\ handler = "unseen" => outcome = NoOutcome
    /\ AcceptedHandlersRun
    /\ DeclaredVerdict

LEMMA ClassBodyStays ==
    ASSUME ClassInv, UNCHANGED <<derives, body, wrappers, outcome>>
    PROVE  Typed' /\ DeclaredVerdict' /\ Defining' = Defining
BY InForceStays DEF ClassInv, Typed, DeclaredVerdict, Defining

LEMMA ClassInvariant == ClassSpec => []ClassInv
<1>1. ClassInit => ClassInv
    <2> SUFFICES ASSUME ClassInit PROVE ClassInv
        OBVIOUS
    <2>1. Undefined \in ParameterList
        BY DEF Undefined, ParameterList
    <2>2. Typed
        BY <2>1 DEF ClassInit, Typed
    <2> QED
        BY <2>2 DEF ClassInit, ClassInv, AcceptedHandlersRun, DeclaredVerdict
<1>2. ClassInv /\ [ClassNext]_classVars => ClassInv'
    <2> SUFFICES ASSUME ClassInv, [ClassNext]_classVars PROVE ClassInv'
        OBVIOUS
    <2>1. ASSUME NEW l \in Level, NEW p \in Parameters, DefineMethod(l, p)
          PROVE  ClassInv'
        <3>1. p \in ParameterList
            BY HandlerClassesAssumption DEF ParameterList
        <3>2. Typed'
            BY <2>1, <3>1 DEF ClassInv, DefineMethod, Typed
        <3> QED
            BY <2>1, <3>2 DEF ClassInv, DefineMethod, AcceptedHandlersRun, DeclaredVerdict
    <2>2. ASSUME NEW l \in Level, NEW c \in Rescued,
                 NEW as \in {"PermanentError", "TransientError"}, WrapErrors(l, c, as)
          PROVE  ClassInv'
        <3> DEFINE w == [rescues |-> c, as |-> as]
        <3>1. w \in Declaration
            BY HandlerClassesAssumption DEF Declaration
        <3> HIDE DEF w
        <3>2. \A ws \in Seq(Declaration) : Append(ws, w) \in Seq(Declaration)
            BY <3>1
        <3>3. wrappers' = [wrappers EXCEPT ![l] = Append(wrappers[l], w)]
            BY <2>2 DEF WrapErrors, w
        <3>4. Typed'
            BY <2>2, <3>2, <3>3 DEF ClassInv, WrapErrors, Typed
        <3> QED
            BY <2>2, <3>4 DEF ClassInv, WrapErrors, AcceptedHandlersRun, DeclaredVerdict
    <2>3. CASE Subscribe
        <3>1. Typed' /\ DeclaredVerdict' /\ Defining' = Defining
            BY <2>3, ClassBodyStays DEF Subscribe
        <3>2. handler' = "accepted" <=> Defining # {} /\ TakesTwo(body[Max(Defining)])
            BY <2>3, ValidMeaning DEF Subscribe, ClassInv
        <3>3. AcceptedHandlersRun'
            BY <2>3, <3>1, <3>2 DEF Subscribe, AcceptedHandlersRun
        <3> QED
            BY <2>3, <3>1, <3>3 DEF ClassInv, Subscribe
    <2>4. ASSUME NEW e \in Exceptions, RaiseInHandler(e) PROVE ClassInv'
        <3>1. UNCHANGED <<derives, body, wrappers, handler>> /\ handler = "accepted"
            BY <2>4 DEF RaiseInHandler
        <3>2. Typed' /\ AcceptedHandlersRun'
            BY <3>1 DEF ClassInv, Typed, AcceptedHandlersRun, Defining
        <3>3. Typed /\ Defining # {}
            BY <3>1 DEF ClassInv, AcceptedHandlersRun
        <3>4. InForce \in Seq(Declaration)
            BY <3>3, RunsTheMethod
        <3>5. PICK out \in [0 .. Len(InForce) -> Exceptions] :
                  Passes(out, InForce, e) /\ Leaves(e) = out[Len(InForce)]
            BY <3>3, LeavesStepwise
        <3>6. AsDeclared(InForce, e, Leaves(e))
            BY <3>4, <3>5, PassesAsDeclared
        <3>7. outcome'.raised = e /\ outcome'.left = Leaves(e)
            BY <2>4 DEF RaiseInHandler
        <3>8. DeclaredVerdict'
            BY <3>1, <3>6, <3>7, InForceStays DEF DeclaredVerdict
        <3> QED
            BY <3>1, <3>2, <3>8 DEF ClassInv
    <2>5. CASE UNCHANGED classVars
        BY <2>5, ClassBodyStays DEF classVars, ClassInv, AcceptedHandlersRun
    <2> QED
        BY <2>1, <2>2, <2>3, <2>4, <2>5 DEF ClassNext
<1> QED
    BY <1>1, <1>2, PTL DEF ClassSpec

(* subscribe accepts exactly the handlers whose events reach a method of   *)
(* the user that takes two arguments (handler.rb:163).                     *)
THEOREM AcceptedRun == ClassSpec => []AcceptedHandlersRun
<1>1. ClassInv => AcceptedHandlersRun
    BY DEF ClassInv
<1> QED
    BY <1>1, ClassInvariant, PTL

(* Every exception of an accepted handler leaves it as the declarations    *)
(* around the method that runs say (handler.rb:100).                       *)
THEOREM DeclarationsDecide == ClassSpec => []DeclaredVerdict
<1>1. ClassInv => DeclaredVerdict
    BY DEF ClassInv
<1> QED
    BY <1>1, ClassInvariant, PTL
================================================================================
