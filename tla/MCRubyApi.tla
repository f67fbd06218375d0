------------------------------- MODULE MCRubyApi -------------------------------
(* Four parts of the Ruby API that share no state, checked side by side:   *)
(* each behaviour is one of the part it is given.                          *)
EXTENDS Configuration, HandlerClasses, Timers, Deques

CONSTANT Parts
VARIABLE part

allVars == <<part, configVars, classVars, timerVars, dequeVars>>

Init ==
    /\ part \in Parts
    /\ ConfigInit /\ (part # "configuration" => settings = << >>)
    /\ ClassInit /\ (part # "classes" => derives)
    /\ TimersInit
    /\ DequesInit

Configure ==
    /\ part = "configuration"
    /\ ConfigNext
    /\ UNCHANGED <<part, classVars, timerVars, dequeVars>>
UseClasses ==
    /\ part = "classes"
    /\ ClassNext
    /\ UNCHANGED <<part, configVars, timerVars, dequeVars>>
UseTimers ==
    /\ part = "timers"
    /\ TimersNext
    /\ UNCHANGED <<part, configVars, classVars, dequeVars>>
UseDeques ==
    /\ part = "deques"
    /\ DequesNext
    /\ UNCHANGED <<part, configVars, classVars, timerVars>>

Next == Configure \/ UseClasses \/ UseTimers \/ UseDeques
Spec == Init /\ [][Next]_allVars

--------------------------------------------------------------------------------
(* Values on both sides of each boundary an option has.                    *)
Numbers == {Whole(-1), Whole(0), Whole(MaxSeconds + 1), Float(-1), Float(1), NotANumber,
            Text("1"), Flag(TRUE), Unset}
Wholes == {Whole(-1), Whole(0), Whole(1), Whole(MaxU32 + 1), Float(1), Float(3), Float(-1),
           NotANumber, Text("1"), Text("x"), Sym("x"), Unset}

OptionSamples(o) ==
    CASE o = "ttl_seconds" -> {Whole(1), Whole(0), Whole(-1), Float(1)}
      [] o = "keyset_limit" -> {Whole(0), Whole(Ceiling + 1), Whole(MaxU32 + 1)}
      [] o = "capacity" -> {Whole(0), Whole(1)}
      [] o = "read_cache" -> {Flag(FALSE), Whole(0)}
      [] OTHER -> {Flag(TRUE), Flag(FALSE)}

(* At most two options of a collection.                                    *)
OptionMaps(names) ==
    UNION { { f \in [{o, p} -> OptionSamples(o) \cup OptionSamples(p)] :
                f[o] \in OptionSamples(o) /\ f[p] \in OptionSamples(p) } : o, p \in names }
    \cup {<< >>}

Definitions == UNION { {Definition(c, f) : f \in OptionMaps(c.takes)} : c \in Constructors }
Hashes ==
    { Registration(k, p, f) : k \in {"value", "map", "set", "deque", "queue"},
                              p \in {"nil", "json", "message", "xml"},
                              f \in UNION { OptionMaps({o}) :
                                        o \in {"published", "keyset_limit", "capacity"} } }
Plain == Definition([kind |-> "value", payload |-> "json"], << >>)

Samples(o) ==
    CASE Converter[o] = "list" -> {Text("x"), Strings(<<"x", "y">>), Whole(1), Sym("x"), Unset}
      [] Converter[o] = "flag" -> {Flag(TRUE), Flag(FALSE), Text("x"), Unset}
      [] Converter[o] = "duration" -> Numbers
      [] Converter[o] = "float" -> Numbers \cup {Text("x")}
      [] Converter[o] = "integer" -> Wholes
      [] Converter[o] = "text" -> {Text("fine"), Text("x"), Text(""), Sym("x"), Whole(1), Unset}
      [] Converter[o] = "mode" -> {Text("PIPELINE"), Sym("low_latency"), Text("x"), Unset}
      [] Converter[o] = "port" ->
           {Flag(FALSE), Flag(TRUE), Sym("disabled"), Sym("x"), Whole(MaxPort),
            Whole(MaxPort + 1), Float(-1), Text("1"), Unset}
      [] Converter[o] = "read_cache" -> Numbers \cup {Flag(FALSE), Text("x")}
      [] OTHER -> Definitions \cup Hashes
                  \cup { Collections(<<Plain, d>>) : d \in Definitions \cup Hashes }
                  \cup {Whole(1), Unset, Collections(<< >>)}

(* One option, one option twice, and a few options before any other.       *)
Single(o) == { <<o, v>> : v \in Samples(o) }
First == {<<"mock", Flag(TRUE)>>, <<"idempotence_cache_size", Whole(0)>>,
          <<"loader_cache_size", Whole(1)>>, <<"bootstrap_servers", Text("x")>>}
Others == Options \ {"state_collections"}
MCSettings ==
    {<< >>}
    \cup { <<s>> : s \in UNION { Single(o) : o \in Options } }
    \cup { <<s, t>> : s \in First, t \in UNION { Single(o) : o \in Others } }
    \cup UNION { { <<s, t>> : s, t \in Single(o) } : o \in Others }

(* Methods that take two arguments, and some that do not.                  *)
Params(req, opt, rest, keyreq) ==
    [req |-> req, opt |-> opt, rest |-> rest, keyreq |-> keyreq, defined |-> TRUE]
MCParameters ==
    {Params(2, 0, FALSE, FALSE), Params(1, 1, FALSE, FALSE), Params(0, 0, TRUE, FALSE),
     Params(1, 0, FALSE, FALSE), Params(3, 0, TRUE, FALSE), Params(2, 0, FALSE, TRUE)}
MCRescued ==
    {{}, {"TypeError"}, {"StandardError"}, {"Exception"}, {"TransientError", "RuntimeError"}}

(* Every quarter of a second from before the epoch to after its end.       *)
MCGiven == [sec : -1 .. LastSecond + 1, nsec : 0 .. Unit - 1]

(* The handler reads everywhere; readers where one operation answers.      *)
MCOwned == -MaxElements .. MaxElements - 1
MCDirect == -1 .. 1
MCFromTheEnd == {-2}
MCNoSettings == {<< >>}
================================================================================
