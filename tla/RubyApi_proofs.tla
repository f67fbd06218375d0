----------------------------- MODULE RubyApi_proofs -----------------------------
(***************************************************************************)
(* Three parts of the Ruby API with a state of their own each.               *)
(*                                                                         *)
(* Timers: TimersNearest for every unit of time, every range of seconds    *)
(* and every set of times.  The invariant is inductive once it is said     *)
(* through Rounded instead of distances; that both say the same is a       *)
(* lemma.                                                                  *)
(*                                                                         *)
(* Deques: get for every index and every deque, the arithmetic of          *)
(* at_negative, and the reason deque.rb gives for the handler's two-step   *)
(* read, a single writer per attempt, as an invariant.  For readers the    *)
(* theorem needs indexes that one operation answers; what happens with     *)
(* others is the run published_index.                                      *)
(*                                                                         *)
(* Configuration: RefusesInconvertible and SettingsReachCore for every     *)
(* sequence of settings, every value Ruby can pass and every bound.  Each  *)
(* option is followed on its own (Right): what its setter makes of a value *)
(* raises or is refused unless the value converts, and if it does, the     *)
(* core is told what was meant; what is documented converts.  The          *)
(* invariant adds that the configuration holds the last setting of each    *)
(* option.                                                                 *)
(***************************************************************************)
EXTENDS Configuration, Timers, Deques, TLAPS

--------------------------------------------------------------------------------
(* Timers *)

(* The conversion of context/mod.rs:412 finds the nearest second, and      *)
(* there is no other.                                                      *)
LEMMA NearestIsRounded ==
    ASSUME NEW t \in Times, NEW s \in Int
    PROVE  Nearest(t, s) <=> s = Rounded(t)
<1> DEFINE d == s - t.sec
<1>1. /\ t.sec \in Int /\ t.nsec \in 0 .. Unit - 1
      /\ Unit \in Int /\ Half \in Int /\ Half > 0 /\ Unit = 2 * Half
      /\ d \in Int
    BY TimersAssumption DEF Times
<1>2. Nearest(t, s) <=> -Half < d * Unit - t.nsec /\ d * Unit - t.nsec <= Half
    BY DEF Nearest
<1>3. CASE d <= -1
    <2>1. d * Unit <= -Unit
        BY <1>1, <1>3
    <2> QED
        BY <2>1, <1>1, <1>2, <1>3 DEF Rounded
<1>4. CASE d = 0
    <2>1. d * Unit = 0 /\ s = t.sec
        BY <1>1, <1>4
    <2> QED
        BY <2>1, <1>1, <1>2 DEF Rounded
<1>5. CASE d = 1
    <2>1. d * Unit = Unit /\ s = t.sec + 1
        BY <1>1, <1>5
    <2> QED
        BY <2>1, <1>1, <1>2 DEF Rounded
<1>6. CASE d >= 2
    <2>1. d * Unit >= 2 * Unit
        BY <1>1, <1>6
    <2> QED
        BY <2>1, <1>1, <1>2, <1>6 DEF Rounded
<1> QED
    BY <1>1, <1>3, <1>4, <1>5, <1>6

(* A second that is given back converts to itself.                         *)
LEMMA RoundTrip ==
    ASSUME NEW s \in Seconds32
    PROVE  /\ RubyTime(s) \in Times
           /\ Converts32(RubyTime(s))
           /\ Rounded(RubyTime(s)) = s
BY TimersAssumption DEF RubyTime, Times, Converts32, Rounded, Seconds32

(* What is stored are the seconds of what was asked for.                   *)
TimersInv ==
    /\ stored \subseteq Seconds32
    /\ asked \subseteq Times
    /\ stored = { Rounded(t) : t \in asked }

LEMMA RoundedTyped == ASSUME NEW t \in Times PROVE Rounded(t) \in Int
BY TimersAssumption DEF Times, Rounded

(* Handlers use times they are given or read from scheduled.               *)
LEMMA UsedTimes ==
    ASSUME TimersInv
    PROVE  Given \cup Scheduled \subseteq Times
BY RoundTrip, TimersAssumption DEF TimersInv, Scheduled

(* What goes when the timer of a second goes.                              *)
LEMMA GoneWithItsSecond ==
    ASSUME TimersInv, NEW t \in Times, Converts32(t)
    PROVE  stored \ {Rounded(t)} =
           { Rounded(v) : v \in { u \in asked :
                                    ~ \E s \in Seconds32 : Nearest(t, s) /\ Nearest(u, s) } }
<1> DEFINE Left == { u \in asked : ~ \E s \in Seconds32 : Nearest(t, s) /\ Nearest(u, s) }
<1>1. ASSUME NEW u \in asked
      PROVE  (u \in Left) <=> Rounded(u) # Rounded(t)
    <2>1. u \in Times /\ Rounded(u) \in Seconds32 /\ Rounded(t) \in Seconds32
        BY <1>1 DEF TimersInv, Converts32
    <2>2. \A s \in Seconds32 : (Nearest(t, s) <=> s = Rounded(t)) /\ (Nearest(u, s) <=> s = Rounded(u))
        BY <2>1, NearestIsRounded, TimersAssumption DEF Seconds32
    <2> QED
        BY <2>1, <2>2
<1> QED
    BY <1>1 DEF TimersInv

(* The invariant holds at first and after every step.                      *)
LEMMA TimersInvariant == TimersSpec => []TimersInv
<1>1. TimersInit => TimersInv
    BY DEF TimersInit, TimersInv
<1>2. TimersInv /\ [TimersNext]_timerVars => TimersInv'
    <2> SUFFICES ASSUME TimersInv, [TimersNext]_timerVars PROVE TimersInv'
        OBVIOUS
    <2> USE DEF TimersInv
    <2>1. ASSUME NEW t \in Times, Schedule(t) PROVE TimersInv'
        BY <2>1 DEF Schedule, Converts32
    <2>2. ASSUME NEW t \in Times, ClearAndSchedule(t) PROVE TimersInv'
        BY <2>2 DEF ClearAndSchedule, Converts32
    <2>3. ASSUME NEW t \in Times, Unschedule(t) PROVE TimersInv'
        BY <2>3, GoneWithItsSecond DEF Unschedule
    <2>4. CASE ClearScheduled
        BY <2>4 DEF ClearScheduled
    <2>5. ASSUME NEW s \in stored, Fire(s) PROVE TimersInv'
        <3>1. s \in Int
            BY TimersAssumption DEF Seconds32
        <3>2. \A u \in asked : Nearest(u, s) <=> s = Rounded(u)
            BY <3>1, NearestIsRounded
        <3> QED
            BY <2>5, <3>2 DEF Fire
    <2>6. CASE UNCHANGED timerVars
        BY <2>6 DEF timerVars
    <2> QED
        BY <2>1, <2>2, <2>3, <2>4, <2>5, <2>6, UsedTimes
        DEF TimersNext, ScheduleListed, UnscheduleListed
<1> QED
    BY <1>1, <1>2, PTL DEF TimersSpec

(* The timers of a key are those asked for, at the nearest second; what    *)
(* scheduled lists can be unscheduled; only times outside the range are    *)
(* refused (context/mod.rs:412, trigger.rs:50).                            *)
THEOREM TimersAreNearest == TimersSpec => []TimersNearest
<1>1. TimersInv => TimersNearest
    <2> SUFFICES ASSUME TimersInv PROVE TimersNearest
        OBVIOUS
    <2> USE DEF TimersInv
    <2>1. \A s \in stored : s \in Seconds32 /\ \E t \in asked : Nearest(t, s)
        BY NearestIsRounded, RoundedTyped
    <2>2. \A t \in asked : \E s \in stored : Nearest(t, s)
        BY NearestIsRounded, RoundedTyped
    <2>3. \A t \in Scheduled : Converts32(t) /\ Rounded(t) = t.sec
        BY RoundTrip DEF Scheduled, RubyTime
    <2>4. ASSUME NEW t \in Given
          PROVE  Converts32(t) <=> t.sec >= 0 /\ \E s \in Seconds32 : Nearest(t, s)
        <3>1. t \in Times /\ t.sec \in Int
            BY TimersAssumption DEF Times
        <3>2. \A s \in Seconds32 : Nearest(t, s) <=> s = Rounded(t)
            BY <3>1, NearestIsRounded, TimersAssumption DEF Seconds32
        <3> QED
            BY <3>1, <3>2, TimersAssumption DEF Converts32, Rounded, Seconds32
    <2> QED
        BY <2>1, <2>2, <2>3, <2>4 DEF TimersNearest
<1> QED
    BY <1>1, TimersInvariant, PTL

--------------------------------------------------------------------------------
(* Deques *)

(* One operation answers from the front and for the last element.          *)
LEMMA DirectIsRight ==
    ASSUME NEW q \in Seq(Nat), NEW index \in Int, index >= -1
    PROVE  ElementAt(q, index) = IF index = -1 THEN PeekBack(q) ELSE NativeGet(q, index)
<1>1. Len(q) \in Nat /\ (q = << >> <=> Len(q) = 0)
    OBVIOUS
<1> QED
    BY <1>1 DEF ElementAt, PeekBack, NativeGet

(* The length plus a negative index is the position from the front, and    *)
(* falls before it exactly when there is no such element.                  *)
LEMMA ResolvedIsRight ==
    ASSUME NEW q \in Seq(Nat), NEW index \in Int, index < -1
    PROVE  ElementAt(q, index) = IF Len(q) + index < 0 THEN Nothing
                                 ELSE NativeGet(q, Len(q) + index)
<1>1. Len(q) \in Nat
    OBVIOUS
<1> QED
    BY <1>1 DEF ElementAt, NativeGet

DirectReaders == \A i \in ReadIndexes : i >= -1

(* Between the two steps of the handler's read the deque stays as it was.  *)
SingleWriter ==
    reads["handler"].at = "length" =>
        /\ reads["handler"].index \in Int
        /\ reads["handler"].index < -1
        /\ reads["handler"].len = Len(deque)
        /\ ElementAt(deque, reads["handler"].index) \in right["handler"]

DequesInv ==
    /\ deque \in Seq(Nat)
    /\ committed \in Seq(Nat)
    /\ made \in Nat
    /\ DOMAIN reads = Readers
    /\ DOMAIN right = Readers
    /\ reads["reader"].at # "length"
    /\ SingleWriter
    /\ AnsweredAsOfSomeMoment

(* A change of the attempt's: no read is under way.                        *)
LEMMA MovePreserves ==
    ASSUME DequesInv, Attempt, made' \in Nat, UNCHANGED reads,
           NEW d \in Seq(Nat), NEW c \in Seq(Nat), Moves(d, c)
    PROVE  DequesInv'
<1>1. right' = [r \in Readers |-> right[r]] /\ deque' = d /\ committed' = c
    BY DEF DequesInv, Attempt, Moves, Readers
<1> QED
    BY <1>1 DEF DequesInv, Attempt, SingleWriter, AnsweredAsOfSomeMoment, Readers

(* An answer that was right is right.                                      *)
LEMMA AnswerPreserves ==
    ASSUME DequesInv, UNCHANGED <<deque, committed, made>>, NEW r \in Readers,
           NEW index, NEW value, NEW asOf, value \in asOf,
           Answer(r, index, value, asOf)
    PROVE  DequesInv'
<1>1. /\ reads'[r].at = "done" /\ reads'[r].value = value /\ right'[r] = asOf
      /\ DOMAIN reads' = Readers /\ DOMAIN right' = Readers
      /\ \A o \in Readers \ {r} : reads'[o] = reads[o] /\ right'[o] = right[o]
    BY DEF DequesInv, Answer
<1> QED
    BY <1>1 DEF DequesInv, SingleWriter, AnsweredAsOfSomeMoment, Readers

(* The invariant holds at first and after every step.                      *)
LEMMA DequesInvariant ==
    ASSUME DirectReaders
    PROVE  DequesSpec => []DequesInv
<1>1. DequesInit => DequesInv
    BY DEF DequesInit, DequesInv, SingleWriter, AnsweredAsOfSomeMoment, Idle, Readers
<1>2. DequesInv /\ [DequesNext]_dequeVars => DequesInv'
    <2> SUFFICES ASSUME DequesInv, [DequesNext]_dequeVars PROVE DequesInv'
        OBVIOUS
    <2>0. /\ deque \in Seq(Nat) /\ committed \in Seq(Nat) /\ made \in Nat
          /\ << >> \in Seq(Nat)
        BY DEF DequesInv
    <2>a. \A r \in Readers : \A index \in Indexes[r] :
             index \in Int /\ (r = "reader" => index >= -1)
        <3>1. /\ Indexes["handler"] = OwnedIndexes /\ Indexes["reader"] = ReadIndexes
              /\ \A index \in OwnedIndexes : index \in Int
              /\ \A index \in ReadIndexes : index \in Int /\ index >= -1
            BY DequesAssumption DEF Indexes, DirectReaders
        <3>2. \A r \in Readers : r = "handler" \/ r = "reader"
            BY DEF Readers
        <3> QED
            BY <3>1, <3>2
    <2>1. CASE Push
        <3>1. made + 1 \in Nat /\ Append(deque, made + 1) \in Seq(Nat)
            BY <2>0
        <3> QED
            BY <2>0, <2>1, <3>1, MovePreserves DEF Push
    <2>2. CASE Unshift
        <3>1. made + 1 \in Nat /\ <<made + 1>> \o deque \in Seq(Nat)
            BY <2>0
        <3> QED
            BY <2>0, <2>2, <3>1, MovePreserves DEF Unshift
    <2>3. CASE Pop
        <3>1. SubSeq(deque, 1, Len(deque) - 1) \in Seq(Nat)
            BY <2>0
        <3> QED
            BY <2>0, <2>3, <3>1, MovePreserves DEF Pop
    <2>4. CASE Shift
        <3>1. Tail(deque) \in Seq(Nat)
            BY <2>0, <2>4 DEF Shift
        <3> QED
            BY <2>0, <2>4, <3>1, MovePreserves DEF Shift
    <2>5. CASE Clear
        BY <2>0, <2>5, MovePreserves DEF Clear
    <2>6. CASE Commit
        BY <2>0, <2>6, MovePreserves DEF Commit
    <2>7. CASE Rollback
        BY <2>0, <2>7, MovePreserves DEF Rollback
    <2>8. ASSUME NEW r \in Readers, NEW index \in Indexes[r], GetDirectly(r, index)
          PROVE  DequesInv'
        <3> DEFINE q == View(deque, committed)[r]
        <3>1. q \in Seq(Nat)
            BY <2>0 DEF View, Readers
        <3>a. index \in Int /\ index >= -1
            BY <2>a, <2>8 DEF GetDirectly
        <3>2. (IF index = -1 THEN PeekBack(q) ELSE NativeGet(q, index)) \in {ElementAt(q, index)}
            BY <3>1, <3>a, DirectIsRight
        <3> QED
            BY <2>8, <3>2, AnswerPreserves DEF GetDirectly
    <2>9. ASSUME NEW r \in Readers, NEW index \in Indexes[r], GetLength(r, index)
          PROVE  DequesInv'
        <3>a. index \in Int /\ index < -1
            BY <2>a, <2>9 DEF GetLength
        <3>1. r = "handler" /\ index \in Int /\ index < -1
            BY <2>a, <3>a DEF Readers
        <3>2. View(deque, committed)[r] = deque
            BY <3>1 DEF View
        <3>3. /\ reads' = [reads EXCEPT ![r] = [at |-> "length", index |-> index, len |-> Len(deque)]]
              /\ right' = [right EXCEPT ![r] = {ElementAt(deque, index)}]
              /\ UNCHANGED <<deque, committed, made>>
            BY <2>9, <3>2 DEF GetLength
        <3> QED
            BY <3>1, <3>3 DEF DequesInv, SingleWriter, AnsweredAsOfSomeMoment, Readers
    <2>10. ASSUME NEW r \in Readers, GetResolved(r)
           PROVE  DequesInv'
        <3> DEFINE read == reads["handler"]
        <3>1. r = "handler" /\ View(deque, committed)[r] = deque
            BY <2>10 DEF GetResolved, DequesInv, Readers, View
        <3>2. /\ read.index \in Int /\ read.index < -1 /\ read.len = Len(deque)
              /\ ElementAt(deque, read.index) \in right["handler"]
            BY <2>10, <3>1 DEF GetResolved, DequesInv, SingleWriter
        <3>3. (IF Resolved(read) < 0 THEN Nothing ELSE NativeGet(deque, Resolved(read)))
                  \in right["handler"]
            BY <2>0, <3>2, ResolvedIsRight DEF Resolved
        <3> QED
            BY <2>10, <3>1, <3>3, AnswerPreserves DEF GetResolved
    <2>11. CASE UNCHANGED dequeVars
        BY <2>11 DEF dequeVars, DequesInv, SingleWriter, AnsweredAsOfSomeMoment
    <2> QED
        BY <2>1, <2>2, <2>3, <2>4, <2>5, <2>6, <2>7, <2>8, <2>9, <2>10, <2>11 DEF DequesNext
<1> QED
    BY <1>1, <1>2, PTL DEF DequesSpec

(* get gives the element at the index, counted from the end if negative,   *)
(* whatever the handler does to its deque and at every index; readers      *)
(* that count from the end are excepted (deque.rb:66, 208).                *)
THEOREM GetIsRight ==
    ASSUME DirectReaders
    PROVE  DequesSpec => []AnsweredAsOfSomeMoment
<1>1. DequesInv => AnsweredAsOfSomeMoment
    BY DEF DequesInv
<1> QED
    BY <1>1, DequesInvariant, PTL

--------------------------------------------------------------------------------
(* Configuration *)

(* The options by the conversion of their setter.                          *)
Lists == {"bootstrap_servers", "subscribed_topics", "allowed_events", "cassandra_nodes"}
Flags == {"mock", "monopolization_enabled", "defer_enabled", "telemetry_enabled"}
Durations ==
    {"send_timeout", "stall_threshold", "shutdown_timeout", "poll_interval",
     "commit_interval", "statistics_interval", "retry_base", "max_retry_delay",
     "idempotence_ttl", "peer_registration_ttl", "cassandra_retention", "slab_size",
     "scheduler_max_wait", "monopolization_window", "defer_base", "defer_max_delay",
     "defer_failure_window", "loader_seek_timeout", "timeout"}
Floats ==
    {"scheduler_failure_weight", "scheduler_wait_weight", "monopolization_threshold",
     "defer_failure_threshold"}
Counts ==
    {"idempotence_cache_size", "max_concurrency", "max_uncommitted", "max_retries",
     "peer_cache_capacity", "scheduler_cache_size", "monopolization_cache_size",
     "defer_store_cache_size", "loader_cache_size"}
Texts ==
    {"idempotence_version", "group_id", "source_system", "peer_bind_address",
     "peer_advertised_connect", "peer_network_name", "failure_topic",
     "cassandra_keyspace", "cassandra_datacenter", "cassandra_rack", "cassandra_user",
     "cassandra_password", "telemetry_topic", "message_spans", "timer_spans",
     "subsystem", "state_cache_dir", "state_owned_cache_size", "state_memtable_size",
     "state_read_cache_size"}

(* Each option has the conversion of its set, and is in one.               *)
Sorted(f) ==
    \A o \in DOMAIN f :
        \/ o \in Lists /\ f[o] = "list"
        \/ o \in Flags /\ f[o] = "flag"
        \/ o \in Durations /\ f[o] = "duration"
        \/ o \in Floats /\ f[o] = "float"
        \/ o \in Counts /\ f[o] = "integer"
        \/ o = "loader_discard_threshold" /\ f[o] = "integer"
        \/ o \in Texts /\ f[o] = "text"
        \/ o = "mode" /\ f[o] = "mode"
        \/ o = "probe_port" /\ f[o] = "port"
        \/ o = "state_read_cache" /\ f[o] = "read_cache"
        \/ o = "state_collections" /\ f[o] = "collections"

LEMMA SortedMerge ==
    ASSUME NEW f, NEW g, Sorted(f), Sorted(g)
    PROVE  Sorted(f ++ g)
BY DEF Sorted, ++

LEMMA ConverterSorted == Sorted(Converter)
<1>1. Sorted(KafkaOptions)
    BY DEF Sorted, KafkaOptions, Of, ++, Lists, Flags, Durations
<1>2. Sorted(DeliveryOptions)
    BY DEF Sorted, DeliveryOptions, Of, ++, Durations, Counts, Texts
<1>3. Sorted(StorageOptions)
    BY DEF Sorted, StorageOptions, Of, ++, Lists, Durations, Texts
<1>4. Sorted(MiddlewareOptions)
    <2>1. Sorted(Of("float", {"scheduler_failure_weight", "scheduler_wait_weight",
                              "monopolization_threshold", "defer_failure_threshold"}))
        BY DEF Sorted, Of, Floats
    <2>2. Sorted(Of("duration", {"scheduler_max_wait", "monopolization_window",
                                 "defer_base", "defer_max_delay", "defer_failure_window",
                                 "loader_seek_timeout", "timeout"}))
        BY DEF Sorted, Of, Durations
    <2>3. Sorted(Of("integer", {"scheduler_cache_size", "monopolization_cache_size",
                                "defer_store_cache_size", "loader_cache_size",
                                "loader_discard_threshold"}))
        BY DEF Sorted, Of, Counts
    <2>4. Sorted(Of("flag", {"monopolization_enabled", "defer_enabled",
                             "telemetry_enabled"}))
        BY DEF Sorted, Of, Flags
    <2>5. Sorted(Of("text", {"telemetry_topic", "message_spans", "timer_spans"}))
        BY DEF Sorted, Of, Texts
    <2> QED
        BY <2>1, <2>2, <2>3, <2>4, <2>5, SortedMerge DEF MiddlewareOptions
<1>5. Sorted(StateOptions)
    BY DEF Sorted, StateOptions, Of, ++, Texts
<1>6. Sorted(Of("mode", {"mode"})) /\ Sorted(Of("port", {"probe_port"}))
    BY DEF Sorted, Of
<1> QED
    BY <1>1, <1>2, <1>3, <1>4, <1>5, <1>6, SortedMerge DEF Converter

(* What the field of an option deserializes from.                          *)
Fielded(f) ==
    \A o \in DOMAIN f :
        /\ o \in Lists => f[o] = "strings"
        /\ o \in Flags => f[o] = "bool"
        /\ o \in Durations \cup Floats => f[o] = "f64"
        /\ o \in Counts => f[o] = "unsigned"
        /\ o = "loader_discard_threshold" => f[o] = "i64"
        /\ o \in Texts \cup {"mode"} => f[o] = "string"
        /\ o = "probe_port" => f[o] = "port"
        /\ o = "state_read_cache" => f[o] = "read_cache"
        /\ o = "state_collections" => f[o] = "collections"

LEMMA FieldedMerge ==
    ASSUME NEW f, NEW g, Fielded(f), Fielded(g)
    PROVE  Fielded(f ++ g)
BY DEF Fielded, ++

LEMMA FieldsFielded == Fielded(FieldType)
<1> USE DEF Of, Lists, Flags, Durations, Floats, Counts, Texts
<1>1. Fielded(NativeKafka)
    BY FieldedMerge DEF Fielded, NativeKafka
<1>2. Fielded(NativeStorage)
    BY DEF Fielded, NativeStorage, ++
<1>3. Fielded(NativeMiddleware)
    BY FieldedMerge DEF Fielded, NativeMiddleware
<1>4. Fielded(NativeState)
    BY FieldedMerge DEF Fielded, NativeState
<1> QED
    BY <1>1, <1>2, <1>3, <1>4, FieldedMerge DEF FieldType

Everything ==
    Lists \cup Flags \cup Durations \cup Floats \cup Counts \cup Texts
    \cup {"loader_discard_threshold", "mode", "probe_port", "state_read_cache",
          "state_collections"}

LEMMA OptionsKnown == Options \subseteq Everything
BY ConverterSorted DEF Options, Sorted, Everything

LEMMA EveryField == Everything \subseteq DOMAIN FieldType
<1> DEFINE D(f) == DOMAIN f
<1>1. \A f, g : D(f ++ g) = D(f) \cup D(g)
    BY DEF ++
<1>2. \A kind, names : D(Of(kind, names)) = names
    BY DEF Of
<1> HIDE DEF D
<1>3. D(FieldType) = D(NativeKafka) \cup D(NativeStorage)
                     \cup D(NativeMiddleware) \cup D(NativeState)
    BY <1>1 DEF FieldType
<1>4. Lists \subseteq D(FieldType)
    BY <1>1, <1>2, <1>3 DEF Lists, NativeKafka, NativeStorage
<1>5. Flags \subseteq D(FieldType)
    BY <1>1, <1>2, <1>3 DEF Flags, NativeKafka, NativeMiddleware
<1>6. Durations \cup Floats \subseteq D(FieldType)
    BY <1>1, <1>2, <1>3
    DEF Durations, Floats, NativeKafka, NativeStorage, NativeMiddleware, NativeState
<1>7. Counts \subseteq D(FieldType)
    BY <1>1, <1>2, <1>3 DEF Counts, NativeKafka, NativeMiddleware, NativeState
<1>8. Texts \subseteq D(FieldType)
    BY <1>1, <1>2, <1>3
    DEF Texts, NativeKafka, NativeStorage, NativeMiddleware, NativeState
<1>9. {"loader_discard_threshold", "mode", "probe_port", "state_read_cache",
       "state_collections"} \subseteq D(FieldType)
    BY <1>1, <1>2, <1>3 DEF NativeKafka, NativeMiddleware, NativeState
<1> QED
    BY <1>4, <1>5, <1>6, <1>7, <1>8, <1>9 DEF Everything, D

LEMMA EveryBuilder ==
    /\ \A o \in Everything : \E b \in DOMAIN Builders : o \in Builders[b]
    /\ "dedup" \in DOMAIN Builders /\ "idempotence_cache_size" \in Builders["dedup"]
<1> DEFINE Reached(o) == \E b \in DOMAIN Builders : o \in Builders[b]
<1>1. /\ \A o \in {"mode"} : Reached(o)
      /\ \A o \in ProducerOptions : Reached(o)
      /\ \A o \in ConsumerOptions \cup SpanOptions : Reached(o)
      /\ \A o \in LoaderOptions : Reached(o)
      /\ \A o \in CassandraOptions : Reached(o)
      /\ \A o \in EmitterOptions : Reached(o)
      /\ \A o \in RetryOptions : Reached(o)
      /\ \A o \in FailureTopicOptions : Reached(o)
      /\ \A o \in SchedulerOptions : Reached(o)
      /\ \A o \in MonopolizationOptions : Reached(o)
      /\ \A o \in DeferOptions : Reached(o)
      /\ \A o \in TimeoutOptions : Reached(o)
      /\ \A o \in DedupOptions : Reached(o)
      /\ \A o \in KeyedStateOptions : Reached(o)
      /\ \A o \in PeerOptions : Reached(o)
    BY DEF Builders
<1> HIDE DEF Reached
<1>2. \A o \in Lists : Reached(o)
    BY <1>1 DEF Lists, ConsumerOptions, CassandraOptions
<1>3. \A o \in Flags : Reached(o)
    BY <1>1 DEF Flags, ConsumerOptions, MonopolizationOptions, DeferOptions, EmitterOptions
<1>4. \A o \in Durations : Reached(o)
    BY <1>1 DEF Durations, ProducerOptions, ConsumerOptions, RetryOptions, DedupOptions,
                PeerOptions, CassandraOptions, SchedulerOptions, MonopolizationOptions,
                DeferOptions, LoaderOptions, TimeoutOptions
<1>5. \A o \in Floats : Reached(o)
    BY <1>1 DEF Floats, SchedulerOptions, MonopolizationOptions, DeferOptions
<1>6. \A o \in Counts : Reached(o)
    BY <1>1 DEF Counts, ProducerOptions, SchedulerOptions, ConsumerOptions, RetryOptions,
                PeerOptions, MonopolizationOptions, DeferOptions, LoaderOptions
<1>7. \A o \in Texts : Reached(o)
    BY <1>1 DEF Texts, DedupOptions, ConsumerOptions, ProducerOptions, PeerOptions,
                FailureTopicOptions, CassandraOptions, EmitterOptions, SpanOptions,
                KeyedStateOptions
<1>8. \A o \in {"loader_discard_threshold", "mode", "probe_port", "state_read_cache",
                "state_collections"} : Reached(o)
    BY <1>1 DEF LoaderOptions, ConsumerOptions, KeyedStateOptions
<1>9. "dedup" \in DOMAIN Builders /\ "idempotence_cache_size" \in Builders["dedup"]
    BY DEF Builders, DedupOptions
<1> QED
    BY <1>2, <1>3, <1>4, <1>5, <1>6, <1>7, <1>8, <1>9 DEF Everything, Reached

--------------------------------------------------------------------------------
(* A Ruby value is of one type.                                            *)
LEMMA Forms ==
    ASSUME NEW v, Value(v)
    PROVE  /\ v.type \in {"nil", "nan", "boolean", "integer", "float", "string", "symbol",
                          "array", "definition", "hash", "collections"}
           /\ v.type = "nil" <=> v = Unset
           /\ v.type = "nan" <=> v = NotANumber
           /\ v.type = "boolean" => v.b \in BOOLEAN /\ v = Flag(v.b)
           /\ v.type = "integer" => v.n \in Int /\ v = Whole(v.n)
           /\ v.type = "float" => v.halves \in Int /\ v = Float(v.halves)
           /\ v.type = "string" => v = Text(v.s)
           /\ v.type = "symbol" => v = Sym(v.s)
           /\ v.type = "array" => v = Strings(v.list)
<1> USE DEF Unset, NotANumber, Flag, Whole, Float, Text, Sym, Strings, Collections
<1>1. CASE v \in Scalars
    BY <1>1 DEF Scalars
<1>2. CASE v.type \in {"definition", "hash", "collections"}
    BY <1>2
<1>3. CASE CollectionValue(v) /\ v \notin Scalars
    BY <1>2, <1>3 DEF CollectionValue
<1>4. CASE v = Collections(v.list)
    <2>1. Collections(v.list).type = "collections"
        OBVIOUS
    <2> QED
        BY <1>2, <1>4, <2>1
<1> QED
    BY <1>1, <1>3, <1>4 DEF Value

(* Integer() cuts off halves.                                              *)
LEMMA Truncation ==
    ASSUME NEW h \in Int
    PROVE  /\ Truncated(h) \in Int
           /\ h = 2 * (h \div 2) => Truncated(h) = h \div 2
           /\ \A m \in Nat : /\ Truncated(h) \in 0 .. m <=> h \in -1 .. 2 * m + 1
                             /\ Truncated(h) \in 1 .. m <=> h \in 2 .. 2 * m + 1
<1>1. CASE h >= 0
    <2>1. h \div 2 \in Nat /\ 2 * (h \div 2) <= h /\ h <= 2 * (h \div 2) + 1
        BY <1>1
    <2>2. Truncated(h) = h \div 2
        BY <1>1 DEF Truncated
    <2> DEFINE q == h \div 2
    <2> HIDE DEF q
    <2> QED
        BY <1>1, <2>1, <2>2 DEF q
<1>2. CASE h < 0
    <2>1. (-h) \div 2 \in Nat /\ 2 * ((-h) \div 2) <= -h /\ -h <= 2 * ((-h) \div 2) + 1
        BY <1>2
    <2>2. Truncated(h) = -((-h) \div 2)
        BY <1>2 DEF Truncated
    <2> QED
        BY <1>2, <2>1, <2>2
<1> QED
    BY <1>1, <1>2

LEMMA Numerals ==
    ASSUME NEW v, Value(v)
    PROVE  /\ Numeric(v) => /\ Halves(v) \in Int
                            /\ KernelInteger(v) = Whole(Truncated(Halves(v)))
                            /\ KernelFloat(v) = Float(Halves(v))
           /\ ~ Numeric(v) => /\ KernelInteger(v) = Raised
                              /\ KernelFloat(v) = IF v = NotANumber THEN v ELSE Raised
<1>1. CASE v.type = "integer"
    <2>1. v.n \in Int /\ 2 * v.n \in Int /\ v = Whole(v.n) /\ v # Text("1")
        BY <1>1, Forms DEF Text
    <2>2. Halves(v) = 2 * v.n /\ Numeric(v)
        BY <1>1 DEF Halves, Numeric, Number
    <2>3. Truncated(2 * v.n) = v.n
        <3>1. (2 * v.n) \div 2 = v.n
            BY <2>1
        <3> QED
            BY <2>1, <3>1, Truncation
    <2> QED
        BY <1>1, <2>1, <2>2, <2>3 DEF KernelInteger, KernelFloat
<1>2. CASE v.type = "float"
    <2>1. v.halves \in Int /\ v = Float(v.halves) /\ v # Text("1")
        BY <1>2, Forms DEF Text
    <2> QED
        BY <1>2, <2>1 DEF Halves, Numeric, Number, KernelInteger, KernelFloat
<1>3. CASE v.type = "nan"
    BY <1>3, Forms DEF NotANumber, Numeric, Number, Text, KernelInteger, KernelFloat
<1>4. CASE v = Text("1")
    <2>1. v.type = "string" /\ Truncated(2) = 1
        BY <1>4 DEF Text, Truncated
    <2> QED
        BY <1>4, <2>1 DEF Halves, Numeric, Number, KernelInteger, KernelFloat
<1>5. CASE v.type \notin {"integer", "float", "nan"} /\ v # Text("1")
    BY <1>5, Forms DEF Numeric, Number, KernelInteger, KernelFloat, NotANumber
<1> QED
    BY <1>1, <1>2, <1>3, <1>4, <1>5

--------------------------------------------------------------------------------
(* What becomes of a value on its way: the setter raises, the field does   *)
(* not deserialize, a conversion refuses, or the core is told.             *)
Passes(o, c) ==
    /\ Deserializes(o, c)
    /\ \A b \in DOMAIN Builders : o \in Builders[b] => BuilderTakes(b, o, c)

Right(o, v) ==
    LET c == Convert(o, v)
    IN  v # Unset =>
          /\ c # Unset
          /\ c # Raised /\ Passes(o, c) <=> Convertible(o, v)
          /\ Convertible(o, v) => CoreValue(o, c) = Meant(o, v)

LEMMA PassesIs ==
    ASSUME NEW o \in Everything, NEW c
    PROVE  Passes(o, c) <=> /\ Deserializes(o, c)
                            /\ Converts(o, c)
                            /\ o = "idempotence_cache_size" => c.n # 0
BY EveryBuilder DEF Passes, BuilderTakes

LEMMA KindOf ==
    ASSUME NEW o \in Options
    PROVE  /\ o \in Lists => Converter[o] = "list" /\ FieldType[o] = "strings"
           /\ o \in Flags => Converter[o] = "flag" /\ FieldType[o] = "bool"
           /\ o \in Durations => Converter[o] = "duration" /\ FieldType[o] = "f64"
           /\ o \in Floats => Converter[o] = "float" /\ FieldType[o] = "f64"
           /\ o \in Counts => Converter[o] = "integer" /\ FieldType[o] = "unsigned"
           /\ o = "loader_discard_threshold" =>
                 Converter[o] = "integer" /\ FieldType[o] = "i64"
           /\ o \in Texts => Converter[o] = "text" /\ FieldType[o] = "string"
           /\ o = "mode" => Converter[o] = "mode" /\ FieldType[o] = "string"
           /\ o = "probe_port" => Converter[o] = "port" /\ FieldType[o] = "port"
           /\ o = "state_read_cache" =>
                 Converter[o] = "read_cache" /\ FieldType[o] = "read_cache"
           /\ o = "state_collections" =>
                 Converter[o] = "collections" /\ FieldType[o] = "collections"
<1>1. o \in Everything /\ o \in DOMAIN FieldType /\ o \in DOMAIN Converter
    BY OptionsKnown, EveryField DEF Options
<1>2. /\ o \in Lists => FieldType[o] = "strings"
      /\ o \in Flags => FieldType[o] = "bool"
      /\ o \in Durations \cup Floats => FieldType[o] = "f64"
      /\ o \in Counts => FieldType[o] = "unsigned"
      /\ o = "loader_discard_threshold" => FieldType[o] = "i64"
      /\ o \in Texts \cup {"mode"} => FieldType[o] = "string"
      /\ o = "probe_port" => FieldType[o] = "port"
      /\ o = "state_read_cache" => FieldType[o] = "read_cache"
      /\ o = "state_collections" => FieldType[o] = "collections"
    BY <1>1, FieldsFielded DEF Fielded
<1> QED
    BY <1>1, <1>2, ConverterSorted
    DEF Sorted, Lists, Flags, Durations, Floats, Counts, Texts

(* Options of one conversion that are special in no other way.             *)
LEMMA ListRight ==
    ASSUME NEW o \in Options, o \in Lists, NEW v, Value(v)
    PROVE  Right(o, v)
<1>1. /\ Converter[o] = "list" /\ FieldType[o] = "strings" /\ o \in Everything
      /\ o \notin DurationOptions
    BY KindOf, OptionsKnown DEF DurationOptions
<1>2. o \notin ParsedOptions \cup {"state_read_cache", "state_collections", "probe_port",
                                   "idempotence_cache_size", "mode"}
    BY DEF Lists, ParsedOptions
<1>3. Convert(o, v) = IF v = Unset THEN Unset ELSE ListConverter(v)
    BY <1>1 DEF Convert
<1>4. \A c : Deserializes(o, c) <=> c.type = "array"
    BY <1>1 DEF Deserializes
<1>5. \A c : Converts(o, c) /\ CoreValue(o, c) = c
    BY <1>1, <1>2 DEF Converts, CoreValue
<1>6. Convertible(o, v) <=> v = Unset \/ v.type \in {"string", "array"}
    BY <1>1, <1>2 DEF Convertible
<1>7. Meant(o, v) = IF v.type = "string" THEN Strings(<<v.s>>) ELSE v
    BY <1>1, <1>2 DEF Meant
<1>8. \A c : Passes(o, c) <=> c.type = "array"
    BY <1>1, <1>2, <1>4, <1>5, PassesIs
<1>9. ListConverter(v) = CASE v.type = "string" -> Strings(<<v.s>>)
                           [] v.type = "array" -> v
                           [] OTHER -> Raised
    BY DEF ListConverter
<1> QED
    BY <1>3, <1>5, <1>6, <1>7, <1>8, <1>9, Forms DEF Right, Strings, Unset, Raised

LEMMA FlagRight ==
    ASSUME NEW o \in Options, o \in Flags, NEW v, Value(v)
    PROVE  Right(o, v)
<1>1. /\ Converter[o] = "flag" /\ FieldType[o] = "bool" /\ o \in Everything
      /\ o \notin DurationOptions
    BY KindOf, OptionsKnown DEF DurationOptions
<1>2. o \notin ParsedOptions \cup {"state_read_cache", "state_collections", "probe_port",
                                   "idempotence_cache_size", "mode"}
    BY DEF Flags, ParsedOptions
<1>3. Convert(o, v) = IF v = Unset THEN Unset ELSE Flag(v # Flag(FALSE))
    BY <1>1 DEF Convert
<1>4. \A c : Deserializes(o, c) <=> c.type = "boolean"
    BY <1>1 DEF Deserializes
<1>5. \A c : Converts(o, c) /\ CoreValue(o, c) = c
    BY <1>1, <1>2 DEF Converts, CoreValue
<1>6. Convertible(o, v)
    BY <1>1, <1>2 DEF Convertible
<1>7. Meant(o, v) = Flag(v # Flag(FALSE))
    BY <1>1, <1>2 DEF Meant
<1>8. \A c : Passes(o, c) <=> c.type = "boolean"
    BY <1>1, <1>2, <1>4, <1>5, PassesIs
<1>9. LET c == Flag(v # Flag(FALSE)) IN c.type = "boolean" /\ c # Unset /\ c # Raised
    BY DEF Flag, Unset, Raised
<1> QED
    BY <1>3, <1>5, <1>6, <1>7, <1>8, <1>9 DEF Right

LEMMA DurationRight ==
    ASSUME NEW o \in Options, o \in Durations, NEW v, Value(v)
    PROVE  Right(o, v)
<1>1. /\ Converter[o] = "duration" /\ FieldType[o] = "f64" /\ o \in Everything
      /\ o \in DurationOptions
    BY KindOf, OptionsKnown DEF DurationOptions
<1>2. o \notin ParsedOptions \cup {"state_read_cache", "state_collections", "probe_port",
                                   "idempotence_cache_size", "mode"}
    BY DEF Durations, ParsedOptions
<1>3. Convert(o, v) = IF v = Unset THEN Unset ELSE DurationConverter(v)
    BY <1>1 DEF Convert
<1>4. \A c : Deserializes(o, c) <=> c.type \in {"float", "nan"}
    BY <1>1 DEF Deserializes
<1>5. \A c : (Converts(o, c) <=> Seconds(c)) /\ CoreValue(o, c) = c
    BY <1>1, <1>2 DEF Converts, CoreValue
<1>6. Convertible(o, v) <=> v = Unset \/ (Number(v) /\ FitsDuration(v))
    BY <1>1, <1>2 DEF Convertible
<1>7. Meant(o, v) = IF v = NotANumber THEN v ELSE Float(Halves(v))
    BY <1>1, <1>2 DEF Meant
<1>8. \A c : Passes(o, c) <=> c.type \in {"float", "nan"} /\ Seconds(c)
    BY <1>1, <1>2, <1>4, <1>5, PassesIs
<1>9. CASE Number(v)
    <2>1. DurationConverter(v) = Float(Halves(v)) /\ v # NotANumber
        BY <1>9, Numerals DEF DurationConverter, Number, Numeric, NotANumber
    <2>2. /\ Float(Halves(v)).type = "float" /\ Float(Halves(v)).halves = Halves(v)
          /\ Float(Halves(v)) # Unset /\ Float(Halves(v)) # Raised
        BY DEF Float, Unset, Raised
    <2> QED
        BY <1>3, <1>5, <1>6, <1>7, <1>8, <1>9, <2>1, <2>2 DEF Right, Seconds, FitsDuration
<1>10. CASE ~ Number(v)
    <2>1. DurationConverter(v) = IF v = NotANumber THEN NotANumber ELSE Raised
        <3>1. CASE v = NotANumber
            BY <3>1, Numerals DEF DurationConverter, Number, Numeric, Text, NotANumber
        <3>2. CASE v # NotANumber
            BY <1>10, <3>2, Forms DEF DurationConverter, Number
        <3> QED
            BY <3>1, <3>2
    <2>2. NotANumber # Unset /\ Raised # Unset /\ NotANumber.type # "float"
        BY DEF NotANumber, Unset, Raised
    <2> QED
        BY <1>3, <1>6, <1>8, <1>10, <2>1, <2>2 DEF Right, Seconds
<1> QED
    BY <1>9, <1>10

LEMMA FloatRight ==
    ASSUME NEW o \in Options, o \in Floats, NEW v, Value(v)
    PROVE  Right(o, v)
<1>1. /\ Converter[o] = "float" /\ FieldType[o] = "f64" /\ o \in Everything
      /\ o \notin DurationOptions
    BY KindOf, OptionsKnown DEF DurationOptions
<1>2. o \notin ParsedOptions \cup {"state_read_cache", "state_collections", "probe_port",
                                   "idempotence_cache_size", "mode"}
    BY DEF Floats, ParsedOptions
<1>3. Convert(o, v) = IF v = Unset THEN Unset ELSE KernelFloat(v)
    BY <1>1 DEF Convert
<1>4. \A c : Deserializes(o, c) <=> c.type \in {"float", "nan"}
    BY <1>1 DEF Deserializes
<1>5. \A c : Converts(o, c) /\ CoreValue(o, c) = c
    BY <1>1, <1>2 DEF Converts, CoreValue
<1>6. Convertible(o, v) <=> v = Unset \/ Numeric(v) \/ v = NotANumber
    BY <1>1, <1>2 DEF Convertible
<1>7. Meant(o, v) = IF v = NotANumber THEN v ELSE Float(Halves(v))
    BY <1>1, <1>2 DEF Meant
<1>8. \A c : Passes(o, c) <=> c.type \in {"float", "nan"}
    BY <1>1, <1>2, <1>4, <1>5, PassesIs
<1>9. /\ Float(Halves(v)).type = "float" /\ NotANumber.type = "nan"
      /\ Unset \notin {Float(Halves(v)), NotANumber, Raised}
      /\ Raised \notin {Float(Halves(v)), NotANumber}
      /\ ~ Numeric(NotANumber)
    BY DEF Float, Unset, Raised, NotANumber, Numeric, Number, Text
<1> QED
    BY <1>3, <1>5, <1>6, <1>7, <1>8, <1>9, Numerals DEF Right

LEMMA CountRight ==
    ASSUME NEW o \in Options, o \in Counts, NEW v, Value(v)
    PROVE  Right(o, v)
<1>1. /\ Converter[o] = "integer" /\ FieldType[o] = "unsigned" /\ o \in Everything
      /\ o \notin DurationOptions
    BY KindOf, OptionsKnown DEF DurationOptions
<1>2. o \notin ParsedOptions \cup {"state_read_cache", "state_collections", "probe_port",
                                   "mode", "loader_discard_threshold"}
    BY DEF Counts, ParsedOptions
<1>3. Convert(o, v) = IF v = Unset THEN Unset ELSE KernelInteger(v)
    BY <1>1 DEF Convert
<1>4. \A c : Deserializes(o, c) <=> c.type = "integer" /\ c.n \in 0 .. MaxU32
    BY <1>1 DEF Deserializes
<1>5. \A c : Converts(o, c) /\ CoreValue(o, c) = c
    BY <1>1, <1>2 DEF Converts, CoreValue
<1>6. Convertible(o, v) <=> v = Unset \/ (Numeric(v) /\ FitsCount(o, v))
    BY <1>1, <1>2 DEF Convertible
<1>7. Meant(o, v) = Whole(Truncated(Halves(v)))
    BY <1>1, <1>2 DEF Meant
<1>8. \A c : Passes(o, c) <=> /\ c.type = "integer" /\ c.n \in 0 .. MaxU32
                              /\ o = "idempotence_cache_size" => c.n # 0
    BY <1>1, <1>2, <1>4, <1>5, PassesIs
<1>9. CASE Numeric(v)
    <2>1. Halves(v) \in Int /\ KernelInteger(v) = Whole(Truncated(Halves(v)))
        BY <1>9, Numerals
    <2> DEFINE t == Truncated(Halves(v))
    <2>2. /\ t \in Int
          /\ t \in 0 .. MaxU32 <=> Halves(v) \in -1 .. 2 * MaxU32 + 1
          /\ t \in 1 .. MaxU32 <=> Halves(v) \in 2 .. 2 * MaxU32 + 1
        BY <2>1, Truncation, ConfigurationAssumption
    <2>3. /\ Whole(t).type = "integer" /\ Whole(t).n = t
          /\ Whole(t) # Unset /\ Whole(t) # Raised
        BY DEF Whole, Unset, Raised
    <2> HIDE DEF t
    <2>4. FitsCount(o, v) <=> t \in 0 .. MaxU32 /\ (o = "idempotence_cache_size" => t # 0)
        BY <2>2, ConfigurationAssumption DEF FitsCount, Least
    <2>5. Convert(o, v) = IF v = Unset THEN Unset ELSE Whole(t)
        BY <1>3, <2>1 DEF t
    <2>6. Meant(o, v) = Whole(t)
        BY <1>7 DEF t
    <2> QED
        BY <1>5, <1>6, <1>8, <1>9, <2>3, <2>4, <2>5, <2>6 DEF Right
<1>10. CASE ~ Numeric(v)
    BY <1>3, <1>6, <1>10, Numerals DEF Right, Unset, Raised
<1> QED
    BY <1>9, <1>10

LEMMA ThresholdRight ==
    ASSUME NEW o \in Options, o = "loader_discard_threshold", NEW v, Value(v)
    PROVE  Right(o, v)
<1>1. /\ Converter[o] = "integer" /\ FieldType[o] = "i64" /\ o \in Everything
      /\ o \notin DurationOptions
    BY KindOf, OptionsKnown DEF DurationOptions
<1>2. o \notin ParsedOptions
    BY DEF ParsedOptions
<1>3. Convert(o, v) = IF v = Unset THEN Unset ELSE KernelInteger(v)
    BY <1>1 DEF Convert
<1>4. \A c : Passes(o, c) <=> c.type = "integer"
    BY <1>1, <1>2, PassesIs DEF Deserializes, Converts
<1>5. \A c : CoreValue(o, c) = c
    BY DEF CoreValue
<1>6. Convertible(o, v) <=> v = Unset \/ Numeric(v)
    BY <1>1, <1>2 DEF Convertible
<1>7. Meant(o, v) = Whole(Truncated(Halves(v)))
    BY <1>1, <1>2 DEF Meant
<1>8. LET c == Whole(Truncated(Halves(v)))
      IN  c.type = "integer" /\ c # Unset /\ c # Raised /\ Raised # Unset
    BY DEF Whole, Unset, Raised
<1> QED
    BY <1>3, <1>4, <1>5, <1>6, <1>7, <1>8, Numerals DEF Right

LEMMA TextRight ==
    ASSUME NEW o \in Options, o \in Texts, NEW v, Value(v)
    PROVE  Right(o, v)
<1>1. /\ Converter[o] = "text" /\ FieldType[o] = "string" /\ o \in Everything
      /\ o \notin DurationOptions
    BY KindOf, OptionsKnown DEF DurationOptions
<1>2. o \notin {"state_read_cache", "state_collections", "probe_port",
                "idempotence_cache_size", "mode", "loader_discard_threshold"}
    BY DEF Texts
<1>3. Convert(o, v) = IF v = Unset THEN Unset ELSE TextConverter(v)
    BY <1>1 DEF Convert
<1>4. \A c : Passes(o, c) <=> /\ c.type \in {"string", "symbol"}
                              /\ o \in ParsedOptions => c.s \in WellFormed
    BY <1>1, <1>2, PassesIs DEF Deserializes, Converts
<1>5. \A c : CoreValue(o, c) = c
    BY <1>2 DEF CoreValue
<1>6. Convertible(o, v) <=> v = Unset \/ (o \in ParsedOptions => TextConverter(v).s \in WellFormed)
    BY <1>1, <1>2 DEF Convertible
<1>7. Meant(o, v) = TextConverter(v)
    BY <1>1, <1>2 DEF Meant
<1>8. /\ TextConverter(v).type = "string"
      /\ TextConverter(v) # Unset /\ TextConverter(v) # Raised
    <2>1. \E s : TextConverter(v) = Text(s)
        BY DEF TextConverter
    <2> QED
        BY <2>1 DEF Text, Unset, Raised
<1> QED
    BY <1>3, <1>4, <1>5, <1>6, <1>7, <1>8 DEF Right

LEMMA ModeRight ==
    ASSUME NEW o \in Options, o = "mode", NEW v, Value(v)
    PROVE  Right(o, v)
<1>1. /\ Converter[o] = "mode" /\ FieldType[o] = "string" /\ o \in Everything
      /\ o \notin DurationOptions
    BY KindOf, OptionsKnown DEF DurationOptions
<1>2. o \notin ParsedOptions
    BY DEF ParsedOptions
<1>3. Convert(o, v) = IF v = Unset THEN Unset ELSE ModeConverter(v)
    BY <1>1 DEF Convert
<1>4. \A c : Passes(o, c) <=> c.type \in {"string", "symbol"}
    BY <1>1, <1>2, PassesIs DEF Deserializes, Converts
<1>5. \A c : CoreValue(o, c) = c
    BY DEF CoreValue
<1> DEFINE s == Downcase(TextConverter(v).s)
<1>6. Convertible(o, v) <=> v = Unset \/ s \in Modes
    BY <1>1, <1>2 DEF Convertible
<1>7. Meant(o, v) = Sym(s)
    BY <1>1, <1>2 DEF Meant
<1>8. ModeConverter(v) = IF s \in Modes THEN Sym(s) ELSE Raised
    BY DEF ModeConverter
<1>9. Sym(s).type = "symbol" /\ Sym(s) # Unset /\ Sym(s) # Raised /\ Raised # Unset
    BY DEF Sym, Unset, Raised
<1> HIDE DEF s
<1> QED
    BY <1>3, <1>4, <1>5, <1>6, <1>7, <1>8, <1>9 DEF Right

LEMMA PortRight ==
    ASSUME NEW o \in Options, o = "probe_port", NEW v, Value(v)
    PROVE  Right(o, v)
<1>1. /\ Converter[o] = "port" /\ FieldType[o] = "port" /\ o \in Everything
      /\ o \notin DurationOptions
    BY KindOf, OptionsKnown DEF DurationOptions
<1>2. o \notin ParsedOptions
    BY DEF ParsedOptions
<1>3. Convert(o, v) = IF v = Unset THEN Unset ELSE PortConverter(v)
    BY <1>1 DEF Convert
<1>4. \A c : Passes(o, c) <=> c.type = "boolean" \/ c.n \in 0 .. MaxPort
    BY <1>1, <1>2, PassesIs DEF Deserializes, Converts
<1>5. \A c : CoreValue(o, c) = IF c = Flag(FALSE) THEN Disabled ELSE c
    BY DEF CoreValue
<1> DEFINE Off == {Flag(FALSE), Sym("disabled"), Text("disabled")}
<1>6. Convertible(o, v) <=> v = Unset \/ v \in Off \/ (Numeric(v) /\ FitsPort(v))
    BY <1>1, <1>2 DEF Convertible
<1>7. Meant(o, v) = IF Numeric(v) THEN Whole(Truncated(Halves(v))) ELSE Disabled
    BY <1>1, <1>2 DEF Meant
<1>8. CASE v \in Off
    <2>1. ~ Numeric(v)
        BY <1>8 DEF Numeric, Number, Flag, Sym, Text
    <2>2. PortConverter(v) = Flag(FALSE)
        BY <1>8, <2>1, Numerals DEF PortConverter
    <2>3. Flag(FALSE).type = "boolean" /\ Flag(FALSE) # Unset /\ Flag(FALSE) # Raised
        BY DEF Flag, Unset, Raised
    <2> HIDE DEF Off
    <2> QED
        BY <1>3, <1>4, <1>5, <1>6, <1>7, <1>8, <2>1, <2>2, <2>3 DEF Right
<1>9. CASE v \notin Off /\ Numeric(v)
    <2>1. Halves(v) \in Int /\ KernelInteger(v) = Whole(Truncated(Halves(v)))
        BY <1>9, Numerals
    <2> DEFINE t == Truncated(Halves(v))
    <2>2. t \in Int /\ (t \in 0 .. MaxPort <=> FitsPort(v))
        BY <2>1, Truncation, ConfigurationAssumption DEF FitsPort
    <2>3. /\ Whole(t).type = "integer" /\ Whole(t).n = t
          /\ Whole(t) # Unset /\ Whole(t) # Raised /\ Whole(t) # Flag(FALSE)
        BY DEF Whole, Unset, Raised, Flag
    <2>4. PortConverter(v) = IF t \in 0 .. MaxPort THEN Whole(t) ELSE Raised
        BY <1>9, <2>1, <2>3 DEF PortConverter
    <2>5. Meant(o, v) = Whole(t)
        BY <1>7, <1>9
    <2>6. v # Unset /\ Raised # Unset
        BY <1>9 DEF Numeric, Number, Text, Unset, Raised
    <2>7. CoreValue(o, Whole(t)) = Whole(t)
        BY <1>5, <2>3
    <2>8. Passes(o, Whole(t)) <=> t \in 0 .. MaxPort
        BY <1>4, <2>3
    <2> HIDE DEF t, Off
    <2>9. Convertible(o, v) <=> t \in 0 .. MaxPort
        BY <1>6, <1>9, <2>2, <2>6
    <2> QED
        BY <1>3, <2>3, <2>4, <2>5, <2>6, <2>7, <2>8, <2>9 DEF Right
<1>10. CASE v \notin Off /\ ~ Numeric(v)
    <2>1. PortConverter(v) = Raised
        BY <1>10, Numerals DEF PortConverter
    <2> HIDE DEF Off
    <2> QED
        BY <1>3, <1>6, <1>10, <2>1 DEF Right, Unset, Raised
<1> QED
    BY <1>8, <1>9, <1>10

LEMMA ReadCacheRight ==
    ASSUME NEW o \in Options, o = "state_read_cache", NEW v, Value(v)
    PROVE  Right(o, v)
<1>1. /\ Converter[o] = "read_cache" /\ FieldType[o] = "read_cache" /\ o \in Everything
      /\ o \notin DurationOptions
    BY KindOf, OptionsKnown DEF DurationOptions
<1>2. o \notin ParsedOptions
    BY DEF ParsedOptions
<1>3. Convert(o, v) = IF v = Unset THEN Unset ELSE ReadCacheConverter(v)
    BY <1>1 DEF Convert
<1>4. \A c : Passes(o, c) <=> /\ c.type \in {"boolean", "float", "nan"}
                              /\ c = Flag(FALSE) \/ Seconds(c)
    BY <1>1, <1>2, PassesIs DEF Deserializes, Converts, ReadCachePolicy
<1>5. \A c : CoreValue(o, c) = IF c = Flag(FALSE) THEN Disabled ELSE c
    BY DEF CoreValue
<1>6. Convertible(o, v) <=> v = Unset \/ v = Flag(FALSE) \/ (Numeric(v) /\ FitsDuration(v))
    BY <1>1, <1>2 DEF Convertible
<1>7. Meant(o, v) = IF v = Flag(FALSE) THEN Disabled ELSE Float(Halves(v))
    BY <1>1, <1>2 DEF Meant
<1>8. CASE v.type = "boolean"
    <2>1. ~ Numeric(v) /\ ReadCacheConverter(v) = v /\ ~ Seconds(v)
        BY <1>8 DEF Numeric, Number, Text, ReadCacheConverter, Seconds
    <2>2. v # Unset /\ v # Raised
        BY <1>8 DEF Unset, Raised
    <2> QED
        BY <1>3, <1>4, <1>5, <1>6, <1>7, <1>8, <2>1, <2>2 DEF Right
<1>9. CASE v.type # "boolean"
    <2>1. ReadCacheConverter(v) = KernelFloat(v) /\ v # Flag(FALSE)
        BY <1>9 DEF ReadCacheConverter, Flag
    <2>2. /\ Float(Halves(v)).type = "float" /\ Float(Halves(v)).halves = Halves(v)
          /\ Float(Halves(v)) \notin {Unset, Raised, Flag(FALSE)}
          /\ NotANumber.type = "nan" /\ NotANumber \notin {Unset, Raised, Flag(FALSE)}
          /\ Raised # Unset
        BY DEF Float, Unset, Raised, Flag, NotANumber
    <2>3. Seconds(Float(Halves(v))) <=> FitsDuration(v)
        BY <2>2 DEF Seconds, FitsDuration
    <2>4. ~ Seconds(NotANumber)
        BY <2>2 DEF Seconds
    <2> QED
        BY <1>3, <1>4, <1>5, <1>6, <1>7, <2>1, <2>2, <2>3, <2>4, Numerals DEF Right
<1> QED
    BY <1>8, <1>9

(* What one definition becomes.                                            *)
Plain(d) == IF d.type = "definition" THEN ToStateConfig(d) ELSE d

MeantDefinition(d) ==
    [d EXCEPT !.type = "hash",
        !.options = [p \in { q \in DOMAIN @ :
            q # "read_cache" /\ ~ (q = "read_uncommitted" /\ @[q] = Flag(FALSE)) } |-> @[p]]]

LEMMA OptionsAllowed ==
    ASSUME NEW o, NEW w
    PROVE  ConvertibleOption(o, w) <=> o = "read_cache" \/ OptionDeserializes(o, w)
BY DEF ConvertibleOption, OptionDeserializes

(* The registration has the fields that count.                             *)
LEMMA DescriptorMeant ==
    ASSUME NEW k, NEW l, NEW names, NEW options, DOMAIN options = names,
           NEW type,
           "read_uncommitted" \in names => options["read_uncommitted"].type = "boolean",
           \A o \in names : Value(options[o])
    PROVE  Descriptor(Registration(k, l, [o \in names \ {"read_cache"} |-> options[o]]))
           = MeantDefinition([type |-> type, kind |-> k, payload |-> l, options |-> options])
<1> DEFINE kept == { q \in names :
                        q # "read_cache" /\ ~ (q = "read_uncommitted" /\ options[q] = Flag(FALSE)) }
           rest == [o \in names \ {"read_cache"} |-> options[o]]
<1>1. "read_uncommitted" \in names =>
          (options["read_uncommitted"] = Flag(TRUE) <=> options["read_uncommitted"] # Flag(FALSE))
    BY Forms DEF Flag
<1>2. { p \in DOMAIN rest : p = "read_uncommitted" => rest[p] = Flag(TRUE) } = kept
    BY <1>1
<1>3. WithDef(rest) = [p \in kept |-> options[p]]
    BY <1>2 DEF WithDef
<1>4. Descriptor(Registration(k, l, rest))
      = [type |-> "hash", kind |-> k, payload |-> l, options |-> WithDef(rest)]
    <2>1. Registration(k, l, rest) = [type |-> "hash", kind |-> k, payload |-> l, options |-> rest]
        BY DEF Registration
    <2> HIDE DEF rest
    <2> QED
        BY <2>1 DEF Descriptor
<1>5. MeantDefinition([type |-> type, kind |-> k, payload |-> l, options |-> options])
      = [type |-> "hash", kind |-> k, payload |-> l, options |-> [p \in kept |-> options[p]]]
    <2> DEFINE d == [type |-> type, kind |-> k, payload |-> l, options |-> options]
    <2>1. MeantDefinition(d) = [d EXCEPT !.type = "hash", !.options = [p \in kept |-> options[p]]]
        BY DEF MeantDefinition
    <2> HIDE DEF kept
    <2> QED
        BY <2>1
<1> QED
    BY <1>3, <1>4, <1>5

LEMMA CollectionRight ==
    ASSUME NEW d, CollectionValue(d)
    PROVE  /\ CollectionDeserializes(Plain(d)) /\ Registers(Plain(d)) <=> ConvertibleCollection(d)
           /\ ConvertibleCollection(d) => Descriptor(Plain(d)) = MeantDefinition(d)
<1> USE DEF Plain
<1>1. CASE d \in Scalars
    <2>1. d.type \notin {"definition", "hash"}
        BY <1>1 DEF Scalars
    <2> QED
        BY <2>1 DEF CollectionDeserializes, ConvertibleCollection
<1>2. ASSUME NEW c \in Constructors, NEW names \in SUBSET c.takes,
             d \in [type : {"definition"}, kind : {c.kind}, payload : {c.payload},
                    options : [names -> Scalars]]
      PROVE  /\ CollectionDeserializes(Plain(d)) /\ Registers(Plain(d)) <=> ConvertibleCollection(d)
             /\ ConvertibleCollection(d) => Descriptor(Plain(d)) = MeantDefinition(d)
    <2> DEFINE rest == [o \in names \ {"read_cache"} |-> d.options[o]]
    <2>1. /\ d = [type |-> "definition", kind |-> c.kind, payload |-> c.payload,
                  options |-> d.options]
          /\ d.type = "definition" /\ d.kind = c.kind /\ d.payload = c.payload
          /\ DOMAIN d.options = names /\ d.options \in [names -> Scalars]
        BY <1>2
    <2>2. Plain(d) = Registration(c.kind, c.payload, rest)
        BY <2>1 DEF ToStateConfig
    <2>3. /\ Plain(d).type = "hash" /\ Plain(d).kind = c.kind /\ Plain(d).payload = c.payload
          /\ Plain(d).options = rest
        BY <2>2 DEF Registration
    <2>4. Registers(Plain(d))
        <3>1. /\ ParseKind(c.kind) /\ ParsePayload(c.payload)
              /\ "keyset_limit" \in c.takes => c.kind \in {"map", "set"}
              /\ "capacity" \in c.takes => c.kind = "deque"
              /\ (c.kind = "set") = (c.payload = "nil")
            BY DEF Constructors, ParseKind, ParsePayload, Common, Published
        <3> HIDE DEF Plain
        <3> QED
            BY <2>3, <3>1 DEF Registers, KeysetLimit, Capacity
    <2> HIDE DEF Plain
    <2>5. CollectionDeserializes(Plain(d)) <=>
              \A o \in names \ {"read_cache"} : OptionDeserializes(o, d.options[o])
        BY <2>3 DEF CollectionDeserializes
    <2>6. ConvertibleCollection(d) <=> \A o \in names : ConvertibleOption(o, d.options[o])
        BY <2>1 DEF ConvertibleCollection
    <2>7. ASSUME ConvertibleCollection(d)
          PROVE  Descriptor(Plain(d)) = MeantDefinition(d)
        <3>1. "read_uncommitted" \in names => d.options["read_uncommitted"].type = "boolean"
            BY <2>6, <2>7 DEF ConvertibleOption
        <3>2. \A o \in names : Value(d.options[o])
            BY <2>1 DEF Value, CollectionValue
        <3> QED
            BY <2>1, <2>2, <3>1, <3>2, DescriptorMeant
    <2> QED
        BY <2>4, <2>5, <2>6, <2>7, OptionsAllowed
<1>3. ASSUME NEW names \in SUBSET RegistrationOptions,
             d \in [type : {"hash"}, kind : STRING, payload : STRING,
                    options : [names -> Scalars]]
      PROVE  /\ CollectionDeserializes(Plain(d)) /\ Registers(Plain(d)) <=> ConvertibleCollection(d)
             /\ ConvertibleCollection(d) => Descriptor(Plain(d)) = MeantDefinition(d)
    <2>1. /\ d = [type |-> "hash", kind |-> d.kind, payload |-> d.payload, options |-> d.options]
          /\ d.type = "hash" /\ DOMAIN d.options = names /\ d.options \in [names -> Scalars]
        BY <1>3
    <2>2. Plain(d) = d
        BY <2>1
    <2>3. names \subseteq {"ttl_seconds", "read_uncommitted", "published", "keyset_limit", "capacity"}
        BY DEF RegistrationOptions, Common
    <2>4. CollectionDeserializes(d) <=> \A o \in names : OptionDeserializes(o, d.options[o])
        BY <2>1 DEF CollectionDeserializes
    <2>5. \A o \in names : ConvertibleOption(o, d.options[o]) <=> OptionDeserializes(o, d.options[o])
        BY <2>3, OptionsAllowed
    <2>6. Registers(d) <=>
              \E c \in Constructors : /\ <<c.kind, c.payload>> = <<d.kind, d.payload>>
                                      /\ names \subseteq c.takes \cup {"published"}
        <3>1. ASSUME NEW c \in Constructors
              PROVE  names \subseteq c.takes \cup {"published"} <=>
                         /\ "keyset_limit" \in names => c.kind \in {"map", "set"}
                         /\ "capacity" \in names => c.kind = "deque"
            BY <2>3 DEF Constructors, Common, Published
        <3>2. (\E c \in Constructors : c.kind = d.kind /\ c.payload = d.payload) <=>
                  ParseKind(d.kind) /\ ParsePayload(d.payload)
                  /\ (d.kind = "set") = (d.payload = "nil")
            BY DEF Constructors, ParseKind, ParsePayload
        <3>3. Registers(d) <=>
                  /\ ParseKind(d.kind) /\ ParsePayload(d.payload)
                  /\ (d.kind = "set") = (d.payload = "nil")
                  /\ "keyset_limit" \in names => d.kind \in {"map", "set"}
                  /\ "capacity" \in names => d.kind = "deque"
            BY <2>1 DEF Registers, KeysetLimit, Capacity
        <3> QED
            BY <3>1, <3>2, <3>3
    <2>7. ConvertibleCollection(d) <=> CollectionDeserializes(d) /\ Registers(d)
        BY <2>1, <2>4, <2>5, <2>6 DEF ConvertibleCollection
    <2>8. ASSUME ConvertibleCollection(d)
          PROVE  Descriptor(d) = MeantDefinition(d)
        <3>1. "read_uncommitted" \in names => d.options["read_uncommitted"].type = "boolean"
            BY <2>1, <2>8 DEF ConvertibleCollection, ConvertibleOption
        <3>2. \A o \in names : Value(d.options[o])
            BY <2>1 DEF Value, CollectionValue
        <3>3. d = Registration(d.kind, d.payload, [o \in names \ {"read_cache"} |-> d.options[o]])
            <4>1. [o \in names \ {"read_cache"} |-> d.options[o]] = d.options
                BY <2>1, <2>3
            <4> QED
                BY <2>1, <4>1 DEF Registration
        <3> QED
            BY <2>1, <3>1, <3>2, <3>3, DescriptorMeant
    <2> QED
        BY <2>2, <2>7, <2>8
<1> QED
    BY <1>1, <1>2, <1>3 DEF CollectionValue

LEMMA CollectionsRight ==
    ASSUME NEW o \in Options, o = "state_collections", NEW v, Value(v)
    PROVE  Right(o, v)
<1>1. /\ Converter[o] = "collections" /\ FieldType[o] = "collections" /\ o \in Everything
      /\ o \notin DurationOptions
    BY KindOf, OptionsKnown DEF DurationOptions
<1>2. o \notin ParsedOptions
    BY DEF ParsedOptions
<1> DEFINE list == IF v.type = "collections" THEN v.list ELSE <<v>>
           c == Collections([i \in DOMAIN list |-> Plain(list[i])])
<1>3. Convert(o, v) = IF v = Unset THEN Unset ELSE c
    <2>1. CollectionsConverter(v) = c
        BY DEF CollectionsConverter, Plain
    <2> QED
        BY <1>1, <2>1 DEF Convert
<1>4. Passes(o, c) <=> \A i \in DOMAIN c.list : /\ CollectionDeserializes(c.list[i])
                                                /\ Registers(c.list[i])
    BY <1>1, <1>2, PassesIs DEF Deserializes, Converts
<1>5. DOMAIN c.list = DOMAIN list /\ (\A i \in DOMAIN list : c.list[i] = Plain(list[i]))
      /\ c # Unset /\ c # Raised
    BY DEF Collections, Unset, Raised
<1>6. \A i \in DOMAIN list : CollectionValue(list[i])
    <2>1. CASE v.type = "collections"
        <3>1. ~ CollectionValue(v)
            BY <2>1 DEF CollectionValue, Scalars
        <3> QED
            BY <2>1, <3>1 DEF Value
    <2>2. CASE v.type # "collections"
        <3>1. v # Collections(v.list)
            BY <2>2 DEF Collections
        <3>2. CollectionValue(v)
            BY <3>1 DEF Value
        <3> QED
            BY <2>2, <3>2
    <2> QED
        BY <2>1, <2>2
<1>7. Convertible(o, v) <=> v = Unset \/ \A i \in DOMAIN list : ConvertibleCollection(list[i])
    <2>1. CASE v.type = "collections"
        BY <1>1, <1>2, <2>1 DEF Convertible
    <2>2. CASE v.type # "collections"
        <3>1. list = <<v>>
            BY <2>2
        <3>2. (\A i \in DOMAIN list : ConvertibleCollection(list[i])) <=> ConvertibleCollection(v)
            BY <3>1
        <3> HIDE DEF list
        <3> QED
            BY <1>1, <1>2, <2>2, <3>2 DEF Convertible
    <2> QED
        BY <2>1, <2>2
<1>8. Meant(o, v) = Collections([i \in DOMAIN list |-> MeantDefinition(list[i])])
    BY <1>1, <1>2 DEF Meant, MeantDefinition
<1>9. CoreValue(o, c) = Collections([i \in DOMAIN c.list |-> Descriptor(c.list[i])])
    BY DEF CoreValue
<1> HIDE DEF list, c
<1>10. Passes(o, c) <=> \A i \in DOMAIN list : ConvertibleCollection(list[i])
    BY <1>4, <1>5, <1>6, CollectionRight
<1>11. ASSUME \A i \in DOMAIN list : ConvertibleCollection(list[i])
       PROVE  CoreValue(o, c) = Meant(o, v)
    <2>1. \A i \in DOMAIN list : Descriptor(c.list[i]) = MeantDefinition(list[i])
        BY <1>5, <1>6, <1>11, CollectionRight
    <2>2. [i \in DOMAIN c.list |-> Descriptor(c.list[i])]
          = [i \in DOMAIN list |-> MeantDefinition(list[i])]
        BY <1>5, <2>1
    <2> QED
        BY <1>8, <1>9, <2>2
<1> QED
    BY <1>3, <1>5, <1>7, <1>10, <1>11 DEF Right

LEMMA AllRight ==
    ASSUME NEW o \in Options, NEW v, Value(v)
    PROVE  Right(o, v)
BY OptionsKnown, ListRight, FlagRight, DurationRight, FloatRight, CountRight, ThresholdRight,
   TextRight, ModeRight, PortRight, ReadCacheRight, CollectionsRight DEF Everything

(* The documentation stays within what converts.                           *)
LEMMA DocumentedEntries ==
    ASSUME NEW o, NEW w, DocumentedEntry(o, w)
    PROVE  ConvertibleOption(o, w)
<1>1. 0 .. Ceiling \subseteq 0 .. MaxU32 /\ 1 .. MaxU32 \subseteq 0 .. MaxU32
    BY ConfigurationAssumption
<1> QED
    BY <1>1 DEF DocumentedEntry, ConvertibleOption

LEMMA DocumentedCollections ==
    ASSUME NEW d, DocumentedCollection(d)
    PROVE  ConvertibleCollection(d)
BY DocumentedEntries DEF DocumentedCollection, ConvertibleCollection

LEMMA DocumentedConverts ==
    ASSUME NEW o \in Options, NEW v, Value(v), Documented(o, v)
    PROVE  Convertible(o, v)
<1>1. CASE v = Unset
    BY <1>1 DEF Convertible
<1>2. CASE v # Unset /\ o \in Durations
    <2>1. Converter[o] = "duration" /\ o \in DurationOptions
        BY <1>2, KindOf DEF DurationOptions
    <2>2. DocumentedSeconds(o) \subseteq 0 .. 2 * MaxSeconds
        BY ConfigurationAssumption DEF DocumentedSeconds
    <2>3. Number(v) /\ FitsDuration(v)
        BY <1>2, <2>1, <2>2 DEF Documented, FitsDuration
    <2>4. o \notin ParsedOptions \cup {"state_read_cache", "probe_port", "mode", "state_collections"}
        BY <1>2 DEF Durations, ParsedOptions
    <2> QED
        BY <2>1, <2>3, <2>4 DEF Convertible
<1>3. CASE v # Unset /\ o \in Floats
    <2>1. Converter[o] = "float" /\ o \notin DurationOptions
        BY <1>3, KindOf DEF DurationOptions
    <2>2. Numeric(v)
        BY <1>3, <2>1 DEF Documented, Numeric
    <2>3. o \notin ParsedOptions \cup {"state_read_cache", "probe_port", "mode", "state_collections"}
        BY <1>3 DEF Floats, ParsedOptions
    <2> QED
        BY <2>1, <2>2, <2>3 DEF Convertible
<1>4. CASE v # Unset /\ (o \in Counts \/ o = "loader_discard_threshold")
    <2>1. Converter[o] = "integer" /\ o \notin DurationOptions
        BY <1>4, KindOf DEF DurationOptions
    <2>2. /\ v.type = "integer" /\ v.n \in Int /\ 0 <= v.n /\ v.n <= MaxU32
          /\ o = "idempotence_cache_size" => 1 <= v.n
        BY <1>4, <2>1, ConfigurationAssumption DEF Documented
    <2>3. Halves(v) = 2 * v.n
        BY <2>2 DEF Halves
    <2>4. Numeric(v) /\ FitsCount(o, v)
        BY <2>2, <2>3, ConfigurationAssumption DEF Numeric, Number, FitsCount, Least
    <2>5. o \notin ParsedOptions \cup {"state_read_cache", "probe_port", "mode", "state_collections"}
        BY <1>4 DEF Counts, ParsedOptions
    <2> QED
        BY <2>1, <2>4, <2>5 DEF Convertible
<1>5. CASE v # Unset /\ o = "probe_port"
    <2>1. Converter[o] = "port" /\ o \notin DurationOptions
        BY <1>5, KindOf DEF DurationOptions
    <2>2. v \in {Flag(FALSE), Sym("disabled")} \/ (v.type = "integer" /\ v.n \in 0 .. MaxPort)
        BY <1>5, <2>1 DEF Documented
    <2>3. CASE v.type = "integer" /\ v.n \in 0 .. MaxPort
        <3>1. Halves(v) = 2 * v.n
            BY <2>3 DEF Halves
        <3>2. Numeric(v) /\ FitsPort(v)
            BY <2>3, <3>1, ConfigurationAssumption DEF Numeric, Number, FitsPort
        <3> QED
            BY <1>5, <2>1, <3>2 DEF Convertible, ParsedOptions
    <2> QED
        BY <1>5, <2>1, <2>2, <2>3 DEF Convertible, ParsedOptions
<1>6. CASE v # Unset /\ o = "state_read_cache"
    <2>1. Converter[o] = "read_cache" /\ o \notin DurationOptions
        BY <1>6, KindOf DEF DurationOptions
    <2>2. v = Flag(FALSE) \/ (Numeric(v) /\ FitsDuration(v))
        BY <1>6, <2>1 DEF Documented, Numeric, FitsDuration
    <2> QED
        BY <1>6, <2>1, <2>2 DEF Convertible, ParsedOptions
<1>7. CASE v # Unset /\ (o \in Flags \/ o \in Lists)
    <2>1. Converter[o] \in {"flag", "list"} /\ o \notin DurationOptions
        BY <1>7, KindOf DEF DurationOptions
    <2>2. Converter[o] = "list" => v.type \in {"string", "array"}
        BY <1>7 DEF Documented
    <2>3. o \notin ParsedOptions \cup {"state_read_cache", "probe_port", "mode", "state_collections"}
        BY <1>7 DEF Flags, Lists, ParsedOptions
    <2> QED
        BY <2>1, <2>2, <2>3 DEF Convertible
<1>8. CASE v # Unset /\ o = "mode"
    <2>1. Converter[o] = "mode" /\ o \notin DurationOptions
        BY <1>8, KindOf DEF DurationOptions
    <2>2. v.type \in {"string", "symbol"} /\ v.s \in Modes
        BY <1>8, <2>1 DEF Documented
    <2>3. Downcase(TextConverter(v).s) \in Modes
        BY <2>2 DEF TextConverter, Text, Downcase, Modes
    <2> QED
        BY <1>8, <2>1, <2>3 DEF Convertible, ParsedOptions
<1>9. CASE v # Unset /\ o \in Texts
    <2>1. Converter[o] = "text" /\ o \notin DurationOptions
        BY <1>9, KindOf DEF DurationOptions
    <2>2. v.type = "string" /\ (o \in ParsedOptions => v.s \in WellFormed)
        BY <1>9, <2>1 DEF Documented
    <2>3. o \in ParsedOptions => TextConverter(v).s \in WellFormed
        BY <2>2 DEF TextConverter, Text
    <2>4. o \notin {"state_read_cache", "probe_port", "mode", "state_collections"}
        BY <1>9 DEF Texts
    <2> QED
        BY <2>1, <2>3, <2>4 DEF Convertible
<1>10. CASE v # Unset /\ o = "state_collections"
    <2>1. Converter[o] = "collections" /\ o \notin DurationOptions
        BY <1>10, KindOf DEF DurationOptions
    <2>2. v.type = "collections" /\ \A i \in DOMAIN v.list : DocumentedCollection(v.list[i])
        BY <1>10, <2>1 DEF Documented
    <2>3. \A i \in DOMAIN v.list : ConvertibleCollection(v.list[i])
        BY <2>2, DocumentedCollections
    <2> QED
        BY <1>10, <2>1, <2>2, <2>3 DEF Convertible, ParsedOptions
<1> QED
    BY <1>1, <1>2, <1>3, <1>4, <1>5, <1>6, <1>7, <1>8, <1>9, <1>10, OptionsKnown DEF Everything

--------------------------------------------------------------------------------
(* The last of the first n settings of an option.                          *)
LastOf(n, o, i) ==
    /\ i \in 1 .. n
    /\ settings[i][1] = o
    /\ \A j \in i + 1 .. n : settings[j][1] # o

(* While no client is made, the configuration holds the last setting taken *)
(* of each option, converted, and none of those taken raised.              *)
Collected ==
    client = Unmade =>
        /\ DOMAIN config = { settings[i][1] : i \in 1 .. taken }
        /\ \A o \in DOMAIN config : \E i \in 1 .. taken :
              /\ LastOf(taken, o, i)
              /\ config[o] = Convert(o, settings[i][2]) /\ config[o] # Raised

ConfigInv ==
    /\ settings \in Settings
    /\ taken \in 0 .. Len(settings)
    /\ Collected
    /\ RefusesInconvertible
    /\ SettingsReachCore

LEMMA SettingsAre ==
    ASSUME settings \in Settings
    PROVE  /\ Len(settings) \in Nat /\ DOMAIN settings = 1 .. Len(settings)
           /\ \A i \in 1 .. Len(settings) : /\ settings[i][1] \in Options
                                            /\ Value(settings[i][2])
                                            /\ Right(settings[i][1], settings[i][2])
BY SettingsAssumption, AllRight

LEMMA ClientForms ==
    /\ ~ Unmade.made /\ ~ Unmade.refused
    /\ ~ Refused.made /\ Refused.refused
    /\ Refused # Unmade
BY DEF Unmade, Refused

LEMMA ConfigInitInv == ConfigInit => ConfigInv
<1> SUFFICES ASSUME ConfigInit PROVE ConfigInv
    OBVIOUS
<1>1. settings \in Settings /\ taken \in 0 .. Len(settings)
    BY SettingsAre DEF ConfigInit
<1>2. Collected
    BY DEF ConfigInit, Collected
<1> QED
    BY <1>1, <1>2, ClientForms DEF ConfigInit, ConfigInv, RefusesInconvertible, SettingsReachCore

LEMMA SetOptionInv ==
    ASSUME ConfigInv, SetOption
    PROVE  ConfigInv'
<1> DEFINE k == taken + 1
           o == settings[k][1]
           v == settings[k][2]
<1>1. /\ client = Unmade /\ k \in 1 .. Len(settings) /\ taken \in Nat /\ Len(settings) \in Nat
      /\ taken' = k /\ settings' = settings /\ settings \in Settings /\ taken' \in 0 .. Len(settings)
    BY SettingsAre DEF ConfigInv, SetOption
<1>2. o \in Options /\ Right(o, v) /\ DOMAIN settings = 1 .. Len(settings)
    BY <1>1, SettingsAre
<1>3. CASE Convert(o, v) = Raised
    <2>1. client' = Refused
        BY <1>3 DEF SetOption
    <2>2. v # Unset
        BY <1>3 DEF Convert, Unset, Raised
    <2>3. ~ Convertible(o, v)
        BY <1>2, <1>3, <2>2 DEF Right
    <2>4. ~ Documented(o, v)
        BY <1>1, <1>2, <2>3, SettingsAre, DocumentedConverts
    <2> QED
        BY <1>1, <1>2, <2>1, <2>3, <2>4, ClientForms
        DEF ConfigInv, Collected, RefusesInconvertible, SettingsReachCore
<1>4. CASE Convert(o, v) # Raised
    <2>1. client' = Unmade /\ config' = Of(Convert(o, v), {o}) ++ config
        BY <1>1, <1>4 DEF SetOption
    <2>2. /\ DOMAIN config' = DOMAIN config \cup {o} /\ config'[o] = Convert(o, v)
          /\ \A p \in DOMAIN config \ {o} : config'[p] = config[p]
        BY <2>1 DEF Of, ++
    <2>3. 1 .. k = (1 .. taken) \cup {k}
        BY <1>1
    <2>4. DOMAIN config' = { settings[i][1] : i \in 1 .. k }
        BY <1>1, <2>2, <2>3 DEF ConfigInv, Collected
    <2>5. LastOf(k, o, k)
        BY <1>1 DEF LastOf
    <2>6. ASSUME NEW p \in DOMAIN config \ {o}
          PROVE  \E i \in 1 .. k : /\ LastOf(k, p, i)
                                  /\ config'[p] = Convert(p, settings[i][2])
                                  /\ config'[p] # Raised
        <3>1. PICK i \in 1 .. taken : /\ LastOf(taken, p, i)
                                      /\ config[p] = Convert(p, settings[i][2])
                                      /\ config[p] # Raised
            BY <1>1, <2>6 DEF ConfigInv, Collected
        <3>2. LastOf(k, p, i)
            BY <1>1, <2>6, <3>1 DEF LastOf
        <3> QED
            BY <2>2, <2>3, <3>1, <3>2
    <2>7. \A p \in DOMAIN config' : \E i \in 1 .. k :
              /\ LastOf(k, p, i)
              /\ config'[p] = Convert(p, settings[i][2]) /\ config'[p] # Raised
        BY <1>1, <1>4, <2>2, <2>5, <2>6
    <2>8. Collected'
        <3>1. \A n, p, i : LastOf(n, p, i)' <=> LastOf(n, p, i)
            BY <1>1 DEF LastOf
        <3> QED
            BY <1>1, <2>4, <2>7, <3>1 DEF Collected
    <2> QED
        BY <1>1, <2>1, <2>8, ClientForms DEF ConfigInv, RefusesInconvertible, SettingsReachCore
<1> QED
    BY <1>3, <1>4

(* With every setting taken, the configuration holds the settings that     *)
(* count.                                                                  *)
LEMMA SettingsTaken ==
    ASSUME ConfigInv, client = Unmade, taken = Len(settings)
    PROVE  /\ DOMAIN config = Asked
           /\ \A o \in Asked : /\ o \in Options /\ Value(LastSetting(o))
                               /\ config[o] = Convert(o, LastSetting(o)) /\ config[o] # Raised
                               /\ \E i \in DOMAIN settings :
                                     settings[i][1] = o /\ settings[i][2] = LastSetting(o)
<1>1. /\ Len(settings) \in Nat /\ DOMAIN settings = 1 .. Len(settings)
      /\ \A i \in 1 .. Len(settings) : settings[i][1] \in Options /\ Value(settings[i][2])
    BY SettingsAre DEF ConfigInv
<1>2. DOMAIN config = Asked
    BY <1>1 DEF ConfigInv, Collected, Asked
<1>3. ASSUME NEW o \in Asked
      PROVE  /\ o \in Options /\ Value(LastSetting(o))
             /\ config[o] = Convert(o, LastSetting(o)) /\ config[o] # Raised
             /\ \E i \in DOMAIN settings : settings[i][1] = o /\ settings[i][2] = LastSetting(o)
    <2>1. PICK i \in 1 .. taken : /\ LastOf(taken, o, i)
                                  /\ config[o] = Convert(o, settings[i][2])
                                  /\ config[o] # Raised
        BY <1>2, <1>3 DEF ConfigInv, Collected
    <2>2. \A h \in DOMAIN settings :
             /\ settings[h][1] = o
             /\ \A j \in h + 1 .. Len(settings) : settings[j][1] # o
             => h = i
        BY <1>1, <2>1 DEF LastOf
    <2>3. i = CHOOSE h \in DOMAIN settings :
                 /\ settings[h][1] = o
                 /\ \A j \in h + 1 .. Len(settings) : settings[j][1] # o
        BY <1>1, <2>1, <2>2 DEF LastOf
    <2>4. LastSetting(o) = settings[i][2]
        BY <2>3 DEF LastSetting
    <2> QED
        BY <1>1, <2>1, <2>4 DEF LastOf
<1> QED
    BY <1>2, <1>3

LEMMA SettingsFixed ==
    ASSUME settings' = settings
    PROVE  Asked' = Asked /\ \A o : LastSetting(o)' = LastSetting(o)
<1>1. Asked' = Asked
    BY DEF Asked
<1>2. \A o : LastSetting(o)' = LastSetting(o)
    BY DEF LastSetting
<1> QED
    BY <1>1, <1>2

LEMMA NewClientInv ==
    ASSUME ConfigInv, NewClient
    PROVE  ConfigInv'
<1> DEFINE hash == { o \in DOMAIN config : config[o] # Unset }
           native == hash \cap DOMAIN FieldType
           Copied(b) == Builders[b] \cap native
           accepted ==
               /\ \A o \in native : Deserializes(o, config[o])
               /\ \A b \in DOMAIN Builders : \A o \in Copied(b) : BuilderTakes(b, o, config[o])
           core == [b \in DOMAIN Builders |-> [o \in Copied(b) |-> CoreValue(o, config[o])]]
           ready == [made |-> TRUE, refused |-> FALSE, core |-> core]
<1>1. /\ client = Unmade /\ taken = Len(settings) /\ UNCHANGED <<settings, taken>>
      /\ client' = IF accepted THEN ready ELSE Refused
    BY DEF NewClient
<1>2. /\ DOMAIN config = Asked
      /\ \A o \in Asked : /\ o \in Options /\ Value(LastSetting(o))
                          /\ config[o] = Convert(o, LastSetting(o)) /\ config[o] # Raised
                          /\ Right(o, LastSetting(o))
                          /\ \E i \in DOMAIN settings :
                                settings[i][1] = o /\ settings[i][2] = LastSetting(o)
    BY <1>1, SettingsTaken, AllRight
<1>3. \A o \in Asked : LastSetting(o) = Unset => config[o] = Unset
    BY <1>2 DEF Convert
<1>4. native = { o \in Asked : LastSetting(o) # Unset }
    BY <1>2, <1>3, OptionsKnown, EveryField DEF Right
<1>5. accepted <=> \A o \in native : Passes(o, config[o])
    BY DEF Passes
<1> HIDE DEF native, accepted
<1>6. \A o \in native : /\ o \in Asked /\ LastSetting(o) # Unset
                        /\ Convertible(o, LastSetting(o)) =>
                              CoreValue(o, config[o]) = Meant(o, LastSetting(o))
    BY <1>2, <1>4 DEF Right
<1>7. /\ settings' = settings /\ settings \in Settings /\ taken' \in 0 .. Len(settings)
      /\ client' # Unmade
    <2>1. ready # Unmade
        <3>1. ready.made /\ ~ Unmade.made
            BY DEF Unmade
        <3> QED
            BY <3>1
    <2> QED
        BY <1>1, <2>1, ClientForms DEF ConfigInv
<1>8. CASE accepted
    <2>1. client' = ready
        BY <1>1, <1>8
    <2>2. client'.made /\ ~ client'.refused /\ client'.core = core
        BY <2>1
    <2>3. \A o \in native : Convertible(o, LastSetting(o))
        <3> SUFFICES ASSUME NEW o \in native PROVE Convertible(o, LastSetting(o))
            OBVIOUS
        <3>1. Passes(o, config[o])
            BY <1>5, <1>8
        <3>2. config[o] # Raised
            BY <1>2, <1>6
        <3> QED
            BY <1>2, <1>6, <3>1, <3>2 DEF Right
    <2>4. \A o \in Asked : Convertible(o, LastSetting(o))
        BY <1>4, <2>3 DEF Convertible
    <2>5. RefusesInconvertible'
        <3>1. \A o \in Asked' : Convertible(o, LastSetting(o)')
            BY <1>7, <2>4, SettingsFixed
        <3> QED
            BY <2>2, <3>1 DEF RefusesInconvertible
    <2>6. SettingsReachCore'
        <3> DEFINE told(o) == { b \in DOMAIN Builders : o \in DOMAIN core[b] }
        <3>1. DOMAIN core = DOMAIN Builders
              /\ \A b \in DOMAIN Builders :
                    /\ DOMAIN core[b] = Builders[b] \cap native
                    /\ \A o \in DOMAIN core[b] : core[b][o] = CoreValue(o, config[o])
            OBVIOUS
        <3> HIDE DEF core
        <3>2. ASSUME NEW o \in Options, o \in Asked, LastSetting(o) # Unset
              PROVE  /\ told(o) # {}
                     /\ \A b \in told(o) : core[b][o] = Meant(o, LastSetting(o))
            <4>1. o \in native
                BY <1>4, <3>2
            <4>2. PICK b \in DOMAIN Builders : o \in Builders[b]
                BY EveryBuilder, OptionsKnown
            <4>3. CoreValue(o, config[o]) = Meant(o, LastSetting(o))
                BY <1>6, <2>3, <4>1
            <4> QED
                BY <3>1, <4>1, <4>2, <4>3
        <3>3. ASSUME NEW o \in Options, ~ (o \in Asked /\ LastSetting(o) # Unset)
              PROVE  told(o) = {}
            BY <1>4, <3>1, <3>3
        <3>4. /\ \A o : LastSetting(o)' = LastSetting(o)
              /\ Asked' = Asked
            BY <1>7, SettingsFixed
        <3> QED
            BY <2>2, <3>2, <3>3, <3>4 DEF SettingsReachCore
    <2> QED
        BY <1>7, <2>5, <2>6 DEF ConfigInv, Collected
<1>9. CASE ~ accepted
    <2>1. client' = Refused
        BY <1>1, <1>9
    <2>2. PICK o \in native : ~ Passes(o, config[o])
        BY <1>5, <1>9
    <2>3. ~ Convertible(o, LastSetting(o))
        BY <1>2, <1>6, <2>2 DEF Right
    <2>4. \E i \in DOMAIN settings : ~ Convertible(settings[i][1], settings[i][2])
        BY <1>2, <1>6, <2>3
    <2>5. \E i \in DOMAIN settings : ~ Documented(settings[i][1], settings[i][2])
        BY <1>2, <1>6, <2>3, DocumentedConverts
    <2> QED
        BY <1>7, <2>1, <2>4, <2>5, ClientForms
        DEF ConfigInv, Collected, RefusesInconvertible, SettingsReachCore
<1> QED
    BY <1>8, <1>9

LEMMA ConfigStutterInv ==
    ASSUME ConfigInv, UNCHANGED configVars
    PROVE  ConfigInv'
<1>1. /\ settings' = settings /\ taken' = taken /\ config' = config /\ client' = client
      /\ Asked' = Asked
      /\ \A o : LastSetting(o)' = LastSetting(o)
    BY SettingsFixed DEF configVars
<1>2. \A n, o, i : LastOf(n, o, i)' <=> LastOf(n, o, i)
    BY <1>1 DEF LastOf
<1>3. Collected'
    BY <1>1, <1>2 DEF ConfigInv, Collected
<1>4. RefusesInconvertible' /\ SettingsReachCore'
    BY <1>1 DEF ConfigInv, RefusesInconvertible, SettingsReachCore
<1> QED
    BY <1>1, <1>3, <1>4 DEF ConfigInv

THEOREM ConfigInvariant == ConfigSpec => []ConfigInv
BY ConfigInitInv, SetOptionInv, NewClientInv, ConfigStutterInv, PTL DEF ConfigSpec, ConfigNext

(* A client is made only when every setting that counts converts, refused  *)
(* only when one does not, and never when all are documented, for every    *)
(* sequence of settings and every bound.                                   *)
THEOREM OnlyInconvertibleRefused == ConfigSpec => []RefusesInconvertible
<1>1. ConfigInv => RefusesInconvertible
    BY DEF ConfigInv
<1> QED
    BY <1>1, ConfigInvariant, PTL

(* What was set reaches the builders of the core as it was meant, and what *)
(* was not set reaches none, for every sequence of settings.               *)
THEOREM CoreGetsSettings == ConfigSpec => []SettingsReachCore
<1>1. ConfigInv => SettingsReachCore
    BY DEF ConfigInv
<1> QED
    BY <1>1, ConfigInvariant, PTL
================================================================================
