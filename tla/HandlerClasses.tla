----------------------------- MODULE HandlerClasses -----------------------------
(***************************************************************************)
(* handler.rb: how a handler class comes to be, what subscribe thinks of   *)
(* it, and what becomes of an exception its method raises.  One of the     *)
(* three handler methods is modelled; they do not touch each other.        *)
(*                                                                         *)
(* A class body runs in any order: a method may be defined before or after *)
(* the wrappers that permanent and transient prepend to the class, in the  *)
(* class itself or in one it inherits from.                                *)
(***************************************************************************)
EXTENDS Integers, SequencesExt

CONSTANTS
    Levels,           \* classes between the instance and EventHandler, the
                      \* direct subclass is 1 and the handler's own the last
    Rescued,          \* the lists of classes a declaration may name
    Parameters,       \* parameter lists of methods
    MaxDeclarations   \* bound on the wrappers of all levels

ASSUME HandlerClassesAssumption ==
    /\ Levels \in Nat \ {0}
    /\ Rescued \subseteq SUBSET STRING
    /\ Parameters \subseteq
          [req : Nat, opt : Nat, rest : BOOLEAN, keyreq : BOOLEAN, defined : {TRUE}]
    /\ MaxDeclarations \in Nat

VARIABLES
    derives,   \* whether the classes inherit from EventHandler
    body,      \* parameters of the method each level defines, or Undefined
    wrappers,  \* wrappers prepended to each level, the first declared first
    handler,   \* what validate_handler! said
    outcome    \* what became of the last exception

classVars == <<derives, body, wrappers, handler, outcome>>

(* Superclasses.  Stop is the cancellation of the async gem.               *)
Superclass ==
    [Exception |-> "Exception", StandardError |-> "Exception", Stop |-> "Exception",
     NotImplementedError |-> "Exception", TypeError |-> "StandardError",
     RuntimeError |-> "StandardError", Error |-> "StandardError",
     EventHandlerError |-> "Error", TransientError |-> "EventHandlerError",
     PermanentError |-> "EventHandlerError"]

Exceptions == DOMAIN Superclass

Ancestry[c \in Exceptions] ==
    {c} \cup IF c = Superclass[c] THEN {} ELSE Ancestry[Superclass[c]]

Catches(classes, e) == Ancestry[e] \cap classes # {}

Undefined == [req |-> 0, opt |-> 0, rest |-> FALSE, keyreq |-> FALSE, defined |-> FALSE]

Level == 1 .. Levels

--------------------------------------------------------------------------------
(* The ancestors that know the method, from the handler's own class up;    *)
(* prepend puts the newest wrapper first.                                  *)
WrapperOf(w) == [owner |-> "wrapper", rescues |-> w.rescues, as |-> w.as]
ClassWith(p) == [owner |-> "class", parameters |-> p]
EventHandler == [owner |-> "EventHandler"]

OfLevel(l) ==
    Reverse([i \in DOMAIN wrappers[l] |-> WrapperOf(wrappers[l][i])])
    \o IF body[l].defined THEN <<ClassWith(body[l])>> ELSE << >>

Ancestors[l \in 0 .. Levels] ==
    IF l = 0
    THEN IF derives THEN <<EventHandler>> ELSE << >>
    ELSE OfLevel(l) \o Ancestors[l - 1]

Lookup == Ancestors[Levels]

MethodDefined(l) ==
    \/ derives
    \/ \E m \in 1 .. l : body[m].defined \/ wrappers[m] # << >>

(* What a call runs: the position of the first ancestor that is no wrapper *)
(* of it, 0 if there is none.                                              *)
Runs ==
    LET plain == { i \in DOMAIN Lookup : Lookup[i].owner # "wrapper" }
    IN  IF plain = {} THEN 0 ELSE Min(plain)

--------------------------------------------------------------------------------
(* validate_method!                                                        *)

AcceptsTwoParameters(p) ==
    /\ ~ p.keyreq
    /\ p.req <= 2
    /\ p.rest \/ p.req + p.opt >= 2

\* Faulty variant: a wrapper counts as an implementation.
ImplementedByAny == \E i \in DOMAIN Lookup : Lookup[i].owner \in {"class", "wrapper"}

Implemented == \E i \in DOMAIN Lookup : Lookup[i].owner = "class"

Valid ==
    /\ Implemented
    /\ Runs # 0
    /\ Lookup[Runs].owner = "class" => AcceptsTwoParameters(Lookup[Runs].parameters)

(* An exception on its way out: the wrappers around what runs, the inner   *)
(* ones first.  wrap_errors raises a new exception for what it catches.    *)
\* Faulty variant: a wrapper leaves alone what another one has classified.
RescuedOnceBy(e, w) ==
    IF e \notin {"PermanentError", "TransientError"} /\ Catches(w.rescues, e) THEN w.as ELSE e

RescuedBy(e, w) == IF Catches(w.rescues, e) THEN w.as ELSE e

Leaves(e) ==
    LET out[i \in 0 .. Runs - 1] ==
            IF i = 0 THEN e ELSE RescuedBy(out[i - 1], Lookup[Runs - i])
    IN  out[Runs - 1]

(* permanent? as result.rs asks for it; what has no answer is transient.   *)
Verdict(e) ==
    CASE e = "Stop" -> "cancelled"
      [] e # "Stop" /\ ~ Catches({"StandardError"}, e) -> "fatal"
      [] e = "PermanentError" -> "permanent"
      [] OTHER -> "transient"

--------------------------------------------------------------------------------
NoOutcome == [raised |-> "nothing"]

ClassInit ==
    /\ derives \in BOOLEAN
    /\ body = [l \in Level |-> Undefined]
    /\ wrappers = [l \in Level |-> << >>]
    /\ handler = "unseen"
    /\ outcome = NoOutcome

(* def, which replaces an earlier one of the same class.                   *)
DefineMethod(l, p) ==
    /\ handler = "unseen"
    /\ body' = [body EXCEPT ![l] = p]
    /\ UNCHANGED <<derives, wrappers, handler, outcome>>

Declarations == FoldFunction(LAMBDA ws, n : Len(ws) + n, 0, wrappers)

(* permanent and transient; without classes (ArgumentError) or without a   *)
(* method (NameError) nothing is prepended.                                *)
WrapErrors(l, rescues, as) ==
    /\ handler = "unseen"
    /\ Declarations < MaxDeclarations
    /\ rescues # {}
    /\ MethodDefined(l)
    /\ wrappers' = [wrappers EXCEPT ![l] = Append(@, [rescues |-> rescues, as |-> as])]
    /\ UNCHANGED <<derives, body, handler, outcome>>

Subscribe ==
    /\ handler = "unseen"
    /\ handler' = IF Valid THEN "accepted" ELSE "refused"
    /\ UNCHANGED <<derives, body, wrappers, outcome>>

(* An event: what the dispatch calls runs and raises e.                    *)
RaiseInHandler(e) ==
    /\ handler = "accepted"
    /\ outcome' = [raised |-> e, left |-> Leaves(e)]
    /\ UNCHANGED <<derives, body, wrappers, handler>>

ClassNext ==
    \/ \E l \in Level, p \in Parameters : DefineMethod(l, p)
    \/ \E l \in Level, c \in Rescued, as \in {"PermanentError", "TransientError"} :
          WrapErrors(l, c, as)
    \/ Subscribe
    \/ \E e \in Exceptions : RaiseInHandler(e)

ClassSpec == ClassInit /\ [][ClassNext]_classVars

--------------------------------------------------------------------------------
(* The method Ruby finds, wrappers aside.                                  *)
Defining == { l \in Level : body[l].defined }
TakesTwo(p) == ~ p.keyreq /\ p.req <= 2 /\ (p.rest \/ 2 - p.req <= p.opt)

(* subscribe accepts a handler if and only if an event will reach a method *)
(* of the user that can be called with two arguments, in whatever order    *)
(* and at whatever level methods were defined and wrapped: no event of an  *)
(* accepted handler ends in the NotImplementedError of EventHandler, which *)
(* would take the processing thread down (handler.rb:163).                 *)
AcceptedHandlersRun ==
    handler # "unseen" =>
        (handler = "accepted") = (Defining # {} /\ TakesTwo(body[Max(Defining)]))

(* The declarations around that method, the inner ones first.              *)
DeclaredUpTo[l \in 0 .. Levels] ==
    IF l = 0 \/ \E m \in Defining : l < m
    THEN << >>
    ELSE DeclaredUpTo[l - 1] \o wrappers[l]

InForce == DeclaredUpTo[Levels]

(* What the declarations around a method, the inner ones first, do to an   *)
(* exception it raises (handler.rb:100).  One that none of them names      *)
(* keeps its class.  When all that name it, or that name an error of       *)
(* Prosody, agree, their verdict is the verdict.  And one for              *)
(* StandardError has the last word on every error, declared before or      *)
(* after a narrower one, unless an outer one names errors of Prosody.      *)
AsDeclared(declared, e, left) ==
    LET Names(i, c) == Catches(declared[i].rescues, c)
        naming == { i \in DOMAIN declared : Names(i, e) }
        reclassing == { i \in DOMAIN declared :
                          Names(i, "PermanentError") \/ Names(i, "TransientError") }
        broad == { i \in DOMAIN declared : Names(i, "StandardError") }
    IN  /\ naming = {} => left = e
        /\ \A as \in {"PermanentError", "TransientError"} :
              naming # {} /\ (\A i \in naming \cup reclassing : declared[i].as = as)
                  => left = as
        /\ broad # {} /\ Catches({"StandardError"}, e) /\ Max(reclassing) = Max(broad)
              => Verdict(left) = Verdict(declared[Max(broad)].as)

(* An exception leaves an accepted handler as the declarations in force    *)
(* say, in whatever order and at whatever level methods were defined and   *)
(* wrapped: those of a method that was overridden have no say              *)
(* (handler.rb:100).                                                       *)
DeclaredVerdict ==
    outcome # NoOutcome => AsDeclared(InForce, outcome.raised, outcome.left)
================================================================================
