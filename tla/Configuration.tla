----------------------------- MODULE Configuration -----------------------------
(***************************************************************************)
(* The options of a client on their way to the core: the setters of        *)
(* configuration.rb convert each Ruby value, Client.new deserializes the   *)
(* resulting hash into NativeConfiguration (client/config), and conversion *)
(* after conversion copies its fields into the builders of the core.       *)
(*                                                                         *)
(* Ruby values are records with a type.  Whole numbers stand for           *)
(* themselves, floats count in halves so that Integer() has something to   *)
(* cut off, and the texts the core parses are either in WellFormed or not. *)
(***************************************************************************)
EXTENDS Integers, SequencesExt

CONSTANTS
    Settings,    \* sequences of <<option, Ruby value>>: the hash, then the block
    WellFormed,  \* texts that parse as what their option asks for
    MaxPort,     \* u16::MAX
    MaxU32,      \* u32::MAX, the bound of usize and i64 here as well
    MaxSeconds,  \* the longest Duration
    Ceiling,     \* the largest keyset_limit documented, 4096
    Lease,       \* 5 seconds to 20 years, in halves of a second
    Reporting    \* 1ms to 24h, in halves of a second

ASSUME ConfigurationAssumption ==
    /\ MaxPort \in Nat
    /\ MaxU32 \in Nat
    /\ MaxSeconds \in Nat
    /\ Ceiling \in 0 .. MaxU32
    /\ Lease \cup Reporting \subseteq 0 .. 2 * MaxSeconds

VARIABLES
    settings,  \* what the caller of Client.new passes
    taken,     \* how many of the settings the configuration has taken
    config,    \* @config: converted values by option
    client     \* Unmade, Refused, or the settings of each builder of the core

configVars == <<settings, taken, config, client>>

Unset == [type |-> "nil"]
Raised == [type |-> "raised"]
Disabled == [type |-> "none"]
Flag(b) == [type |-> "boolean", b |-> b]
Whole(n) == [type |-> "integer", n |-> n]
Float(h) == [type |-> "float", halves |-> h]
NotANumber == [type |-> "nan"]
Text(s) == [type |-> "string", s |-> s]
Sym(s) == [type |-> "symbol", s |-> s]
Strings(list) == [type |-> "array", list |-> list]
Collections(list) == [type |-> "collections", list |-> list]

Of(kind, names) == [o \in names |-> kind]

(* Hash#merge; what f has, f keeps.                                        *)
f ++ g == [x \in DOMAIN f \cup DOMAIN g |-> IF x \in DOMAIN f THEN f[x] ELSE g[x]]

--------------------------------------------------------------------------------
(* Definitions of keyed-state collections (state.rb).  The options of a    *)
(* definition are those that are not nil; its name is left out.            *)

Common == {"ttl_seconds", "read_uncommitted"}
Published == {"published", "read_cache"}

(* What each constructor of Prosody takes.                                 *)
Constructors ==
    { [kind |-> "value", payload |-> "json", takes |-> Common \cup Published],
      [kind |-> "map", payload |-> "json", takes |-> Common \cup Published \cup {"keyset_limit"}],
      [kind |-> "set", payload |-> "nil", takes |-> Common \cup Published \cup {"keyset_limit"}],
      [kind |-> "deque", payload |-> "json", takes |-> Common \cup Published \cup {"capacity"}],
      [kind |-> "value", payload |-> "message", takes |-> Common],
      [kind |-> "map", payload |-> "message", takes |-> Common \cup {"keyset_limit"}],
      [kind |-> "deque", payload |-> "message", takes |-> Common \cup {"capacity"}] }

Definition(c, options) ==
    [type |-> "definition", kind |-> c.kind, payload |-> c.payload, options |-> options]

(* A hash with the same fields may also come from the user.                *)
RegistrationOptions == Common \cup {"published", "keyset_limit", "capacity"}
Registration(kind, payload, options) ==
    [type |-> "hash", kind |-> kind, payload |-> payload, options |-> options]

ToStateConfig(d) ==
    Registration(d.kind, d.payload, [o \in DOMAIN d.options \ {"read_cache"} |-> d.options[o]])

CollectionsConverter(v) ==
    LET list == IF v.type = "collections" THEN v.list ELSE <<v>>
    IN  Collections([i \in DOMAIN list |->
            IF list[i].type = "definition" THEN ToStateConfig(list[i]) ELSE list[i]])

--------------------------------------------------------------------------------
(* The setters of configuration.rb.                                        *)

KafkaOptions ==
    Of("list", {"bootstrap_servers", "subscribed_topics", "allowed_events"})
    ++ Of("flag", {"mock"})
    ++ Of("duration", {"send_timeout", "stall_threshold", "shutdown_timeout",
                       "poll_interval", "commit_interval", "statistics_interval"})

DeliveryOptions ==
    Of("duration", {"retry_base", "max_retry_delay", "idempotence_ttl",
                    "peer_registration_ttl"})
    ++ Of("integer", {"idempotence_cache_size", "max_concurrency", "max_uncommitted",
                      "max_retries", "peer_cache_capacity"})
    ++ Of("text", {"idempotence_version", "group_id", "source_system",
                   "peer_bind_address", "peer_advertised_connect",
                   "peer_network_name", "failure_topic"})

StorageOptions ==
    Of("list", {"cassandra_nodes"})
    ++ Of("text", {"cassandra_keyspace", "cassandra_datacenter", "cassandra_rack",
                   "cassandra_user", "cassandra_password"})
    ++ Of("duration", {"cassandra_retention", "slab_size"})

MiddlewareOptions ==
    Of("float", {"scheduler_failure_weight", "scheduler_wait_weight",
                 "monopolization_threshold", "defer_failure_threshold"})
    ++ Of("duration", {"scheduler_max_wait", "monopolization_window", "defer_base",
                       "defer_max_delay", "defer_failure_window",
                       "loader_seek_timeout", "timeout"})
    ++ Of("integer", {"scheduler_cache_size", "monopolization_cache_size",
                      "defer_store_cache_size", "loader_cache_size",
                      "loader_discard_threshold"})
    ++ Of("flag", {"monopolization_enabled", "defer_enabled", "telemetry_enabled"})
    ++ Of("text", {"telemetry_topic", "message_spans", "timer_spans"})

StateOptions ==
    Of("collections", {"state_collections"})
    ++ Of("text", {"subsystem", "state_cache_dir", "state_owned_cache_size",
                   "state_memtable_size", "state_read_cache_size"})
    ++ Of("read_cache", {"state_read_cache"})

Converter ==
    KafkaOptions ++ DeliveryOptions ++ StorageOptions ++ MiddlewareOptions
    ++ StateOptions ++ Of("mode", {"mode"}) ++ Of("port", {"probe_port"})

Options == DOMAIN Converter

(* Kernel#Integer and Kernel#Float; the only numeral among the texts is 1. *)
Truncated(h) == IF h >= 0 THEN h \div 2 ELSE -((-h) \div 2)
KernelInteger(v) ==
    CASE v.type = "integer" -> v
      [] v.type = "float" -> Whole(Truncated(v.halves))
      [] v = Text("1") -> Whole(1)
      [] OTHER -> Raised
KernelFloat(v) ==
    CASE v.type = "integer" -> Float(2 * v.n)
      [] v.type \in {"float", "nan"} -> v
      [] v = Text("1") -> Float(2)
      [] OTHER -> Raised

DurationConverter(v) ==
    IF v.type \in {"integer", "float", "nan"} THEN KernelFloat(v) ELSE Raised

ListConverter(v) ==
    CASE v.type = "string" -> Strings(<<v.s>>)
      [] v.type = "array" -> v
      [] OTHER -> Raised

TextConverter(v) ==
    CASE v.type \in {"string", "symbol"} -> Text(v.s)
      [] v.type = "integer" -> Text(ToString(v.n))
      [] OTHER -> Text("other")

Modes == {"pipeline", "low_latency", "best_effort"}
Downcase(s) == IF s = "PIPELINE" THEN "pipeline" ELSE s
ModeConverter(v) ==
    LET s == Downcase(TextConverter(v).s)
    IN  IF s \in Modes THEN Sym(s) ELSE Raised

PortConverter(v) ==
    LET port == KernelInteger(v)
    IN  CASE v = Flag(FALSE) \/ v \in {Sym("disabled"), Text("disabled")} -> Flag(FALSE)
          [] port # Raised /\ port.n \in 0 .. MaxPort -> port
          [] OTHER -> Raised

ReadCacheConverter(v) == IF v.type = "boolean" THEN v ELSE KernelFloat(v)

Convert(o, v) ==
    IF v = Unset THEN Unset ELSE
    CASE Converter[o] = "list" -> ListConverter(v)
      [] Converter[o] = "flag" -> Flag(v # Flag(FALSE))
      [] Converter[o] = "duration" -> DurationConverter(v)
      [] Converter[o] = "integer" -> KernelInteger(v)
      [] Converter[o] = "float" -> KernelFloat(v)
      [] Converter[o] = "text" -> TextConverter(v)
      [] Converter[o] = "mode" -> ModeConverter(v)
      [] Converter[o] = "port" -> PortConverter(v)
      [] Converter[o] = "read_cache" -> ReadCacheConverter(v)
      [] OTHER -> CollectionsConverter(v)

(* What a caller can pass for an option.                                   *)
Scalars ==
    [type : {"nil", "nan"}] \cup [type : {"boolean"}, b : BOOLEAN]
    \cup [type : {"integer"}, n : Int] \cup [type : {"float"}, halves : Int]
    \cup [type : {"string", "symbol"}, s : STRING]
    \cup [type : {"array"}, list : Seq(STRING)]

CollectionValue(d) ==
    \/ d \in Scalars
    \/ \E c \in Constructors : \E names \in SUBSET c.takes :
          d \in [type : {"definition"}, kind : {c.kind}, payload : {c.payload},
                 options : [names -> Scalars]]
    \/ \E names \in SUBSET RegistrationOptions :
          d \in [type : {"hash"}, kind : STRING, payload : STRING,
                 options : [names -> Scalars]]

Value(v) ==
    \/ CollectionValue(v)
    \/ v = Collections(v.list) /\ \A i \in DOMAIN v.list : CollectionValue(v.list[i])

ASSUME SettingsAssumption ==
    \A s \in Settings :
        /\ Len(s) \in Nat /\ DOMAIN s = 1 .. Len(s)
        /\ \A i \in DOMAIN s : s[i][1] \in Options /\ Value(s[i][2])

--------------------------------------------------------------------------------
(* NativeConfiguration: its fields and what they deserialize from.  Hash   *)
(* keys that are no field are ignored.                                     *)

NativeKafka ==
    Of("strings", {"bootstrap_servers", "subscribed_topics", "allowed_events"})
    ++ Of("bool", {"mock"})
    ++ Of("f64", {"send_timeout", "idempotence_ttl", "stall_threshold", "shutdown_timeout",
                  "poll_interval", "commit_interval", "statistics_interval", "retry_base",
                  "max_retry_delay"})
    ++ Of("string", {"group_id", "idempotence_version", "source_system", "mode",
                     "failure_topic"})
    ++ Of("unsigned", {"idempotence_cache_size", "max_concurrency", "max_uncommitted",
                       "max_retries"})
    ++ Of("port", {"probe_port"})

NativeStorage ==
    Of("strings", {"cassandra_nodes"})
    ++ Of("string", {"cassandra_keyspace", "cassandra_datacenter", "cassandra_rack",
                     "cassandra_user", "cassandra_password"})
    ++ Of("f64", {"cassandra_retention", "slab_size"})

NativeMiddleware ==
    Of("f64", {"scheduler_failure_weight", "scheduler_max_wait", "scheduler_wait_weight",
               "monopolization_threshold", "monopolization_window", "defer_base",
               "defer_max_delay", "defer_failure_threshold", "defer_failure_window",
               "loader_seek_timeout", "timeout"})
    ++ Of("bool", {"monopolization_enabled", "defer_enabled", "telemetry_enabled"})
    ++ Of("unsigned", {"scheduler_cache_size", "monopolization_cache_size",
                       "loader_cache_size", "defer_store_cache_size"})
    ++ Of("i64", {"loader_discard_threshold"})
    ++ Of("string", {"telemetry_topic", "message_spans", "timer_spans"})

NativeState ==
    Of("string", {"peer_bind_address", "peer_advertised_connect", "peer_network_name",
                  "subsystem", "state_cache_dir", "state_owned_cache_size",
                  "state_memtable_size", "state_read_cache_size"})
    ++ Of("unsigned", {"peer_cache_capacity"})
    ++ Of("f64", {"peer_registration_ttl"})
    ++ Of("collections", {"state_collections"})
    ++ Of("read_cache", {"state_read_cache"})

FieldType == NativeKafka ++ NativeStorage ++ NativeMiddleware ++ NativeState

(* The fields of StateCollectionConfig.                                    *)
OptionDeserializes(o, v) ==
    CASE o \in {"ttl_seconds", "keyset_limit"} -> v.type = "integer" /\ v.n \in 0 .. MaxU32
      [] o = "capacity" -> v.type = "integer" /\ v.n \in 1 .. MaxU32
      [] OTHER -> v.type = "boolean"

CollectionDeserializes(c) ==
    /\ c.type = "hash"
    /\ \A o \in DOMAIN c.options : OptionDeserializes(o, c.options[o])

Deserializes(o, v) ==
    CASE FieldType[o] = "strings" -> v.type = "array"
      [] FieldType[o] = "bool" -> v.type = "boolean"
      [] FieldType[o] = "f64" -> v.type \in {"float", "nan"}
      [] FieldType[o] = "string" -> v.type \in {"string", "symbol"}
      [] FieldType[o] = "unsigned" -> v.type = "integer" /\ v.n \in 0 .. MaxU32
      [] FieldType[o] = "i64" -> v.type = "integer"
      [] FieldType[o] = "port" -> v.type = "boolean" \/ v.n \in 0 .. MaxPort
      [] FieldType[o] = "read_cache" -> v.type \in {"boolean", "float", "nan"}
      [] OTHER -> \A i \in DOMAIN v.list : CollectionDeserializes(v.list[i])

--------------------------------------------------------------------------------
(* The conversions of the fields, and what they refuse.                    *)

Seconds(v) == v.type = "float" /\ v.halves \in 0 .. 2 * MaxSeconds

(* register_state_collection with parse_kind and parse_payload.            *)
ParseKind(kind) == kind \in {"value", "map", "set", "deque"}
ParsePayload(payload) == payload \in {"nil", "json", "message"}
KeysetLimit(c) == "keyset_limit" \in DOMAIN c.options => c.kind \in {"map", "set"}
Capacity(c) == "capacity" \in DOMAIN c.options => c.kind = "deque"

Registers(c) ==
    /\ ParseKind(c.kind)
    /\ ParsePayload(c.payload)
    /\ KeysetLimit(c)
    /\ Capacity(c)
    /\ (c.kind = "set") = (c.payload = "nil")

(* The descriptor a collection is registered with.                         *)
WithDef(options) ==
    [o \in { p \in DOMAIN options : p = "read_uncommitted" => options[p] = Flag(TRUE) }
        |-> options[o]]

Descriptor(c) == [c EXCEPT !.options = WithDef(@)]

ParsedOptions ==
    {"message_spans", "timer_spans", "peer_bind_address", "peer_advertised_connect",
     "state_owned_cache_size", "state_memtable_size", "state_read_cache_size", "subsystem"}

DurationOptions == { o \in Options : Converter[o] = "duration" }

ReadCachePolicy(v) == v = Flag(FALSE) \/ Seconds(v)

Converts(o, v) ==
    CASE o \in DurationOptions -> Seconds(v)
      [] o \in ParsedOptions -> v.s \in WellFormed
      [] o = "state_read_cache" -> ReadCachePolicy(v)
      [] o = "state_collections" -> \A i \in DOMAIN v.list : Registers(v.list[i])
      [] OTHER -> TRUE

CoreValue(o, v) ==
    CASE o \in {"probe_port", "state_read_cache"} /\ v = Flag(FALSE) -> Disabled
      [] o = "state_collections" ->
           Collections([i \in DOMAIN v.list |-> Descriptor(v.list[i])])
      [] OTHER -> v

(* The options each conversion copies into its builder.                    *)
ProducerOptions ==
    {"bootstrap_servers", "send_timeout", "idempotence_cache_size", "source_system", "mock"}
ConsumerOptions ==
    {"bootstrap_servers", "group_id", "subscribed_topics", "allowed_events",
     "max_uncommitted", "stall_threshold", "shutdown_timeout", "poll_interval",
     "commit_interval", "statistics_interval", "mock", "probe_port", "slab_size"}
SpanOptions == {"message_spans", "timer_spans"}
\* Faulty variant: one setting of the loader is forgotten.
LoaderOptionsCacheOnly == {"loader_cache_size", "loader_seek_timeout"}

LoaderOptions == {"loader_cache_size", "loader_seek_timeout", "loader_discard_threshold"}
CassandraOptions ==
    {"cassandra_nodes", "cassandra_keyspace", "cassandra_datacenter", "cassandra_rack",
     "cassandra_user", "cassandra_password", "cassandra_retention"}
EmitterOptions == {"telemetry_topic", "telemetry_enabled"}
RetryOptions == {"retry_base", "max_retries", "max_retry_delay"}
FailureTopicOptions == {"failure_topic"}
SchedulerOptions ==
    {"max_concurrency", "scheduler_failure_weight", "scheduler_max_wait",
     "scheduler_wait_weight", "scheduler_cache_size"}
MonopolizationOptions ==
    {"monopolization_enabled", "monopolization_threshold", "monopolization_window",
     "monopolization_cache_size"}
DeferOptions ==
    {"defer_enabled", "defer_base", "defer_max_delay", "defer_failure_threshold",
     "defer_failure_window", "defer_store_cache_size"}
TimeoutOptions == {"timeout"}
DedupOptions == {"idempotence_cache_size", "idempotence_version", "idempotence_ttl"}
KeyedStateOptions ==
    {"state_cache_dir", "state_owned_cache_size", "state_memtable_size",
     "state_read_cache_size", "state_read_cache", "subsystem", "state_collections"}
PeerOptions ==
    {"peer_bind_address", "peer_advertised_connect", "peer_network_name",
     "peer_cache_capacity", "peer_registration_ttl"}

Builders ==
    [mode |-> {"mode"}, producer |-> ProducerOptions,
     consumer |-> ConsumerOptions \cup SpanOptions, loader |-> LoaderOptions,
     cassandra |-> CassandraOptions, emitter |-> EmitterOptions, retry |-> RetryOptions,
     failure_topic |-> FailureTopicOptions, scheduler |-> SchedulerOptions,
     monopolization |-> MonopolizationOptions, defer |-> DeferOptions,
     timeout |-> TimeoutOptions, dedup |-> DedupOptions,
     keyed_state |-> KeyedStateOptions, peer |-> PeerOptions]

\* Faulty variant: the cache of the consumer is not checked.
BuilderTakesEmptyCache(b, o, v) == Converts(o, v)

(* The deduplication of the consumer has no empty cache.                   *)
BuilderTakes(b, o, v) ==
    /\ Converts(o, v)
    /\ b = "dedup" /\ o = "idempotence_cache_size" => v.n # 0

--------------------------------------------------------------------------------
Unmade == [made |-> FALSE, refused |-> FALSE]
Refused == [made |-> FALSE, refused |-> TRUE]

ConfigInit ==
    /\ settings \in Settings
    /\ taken = 0
    /\ config = << >>
    /\ client = Unmade

(* Configuration.new, one setter after the other; what raises ends it.     *)
SetOption ==
    /\ client = Unmade
    /\ taken < Len(settings)
    /\ LET o == settings[taken + 1][1]
           v == Convert(o, settings[taken + 1][2])
       IN  IF v = Raised
           THEN client' = Refused /\ UNCHANGED config
           ELSE config' = Of(v, {o}) ++ config /\ UNCHANGED client
    /\ taken' = taken + 1
    /\ UNCHANGED settings

(* The rest of Client.new, up to the call of the core.                     *)
NewClient ==
    /\ client = Unmade
    /\ taken = Len(settings)
    /\ LET hash == { o \in DOMAIN config : config[o] # Unset }
           native == hash \cap DOMAIN FieldType
           Copied(b) == Builders[b] \cap native
           accepted ==
               /\ \A o \in native : Deserializes(o, config[o])
               /\ \A b \in DOMAIN Builders : \A o \in Copied(b) : BuilderTakes(b, o, config[o])
       IN  client' = IF accepted
                     THEN [made |-> TRUE, refused |-> FALSE,
                           core |-> [b \in DOMAIN Builders |->
                                        [o \in Copied(b) |-> CoreValue(o, config[o])]]]
                     ELSE Refused
    /\ UNCHANGED <<settings, taken, config>>

ConfigNext == SetOption \/ NewClient
ConfigSpec == ConfigInit /\ [][ConfigNext]_configVars

--------------------------------------------------------------------------------
(* Two readings of an option that know nothing of setters and fields.      *)
(* CONFIGURATION.md:5 draws the line between them: the client reports what *)
(* it cannot convert, the core validates what the values mean.             *)

Number(v) == v.type \in {"integer", "float"}
Halves(v) == IF v.type = "float" THEN v.halves ELSE IF v.type = "integer" THEN 2 * v.n ELSE 2

(* The values that convert to the type the core has for an option.         *)
ConvertibleOption(o, v) ==
    CASE o \in {"ttl_seconds", "keyset_limit"} -> v.type = "integer" /\ v.n \in 0 .. MaxU32
      [] o = "capacity" -> v.type = "integer" /\ v.n \in 1 .. MaxU32
      [] o = "read_cache" -> TRUE
      [] OTHER -> v.type = "boolean"

ConvertibleCollection(d) ==
    /\ d.type \in {"definition", "hash"}
    /\ \E c \in Constructors :
          /\ <<c.kind, c.payload>> = <<d.kind, d.payload>>
          /\ DOMAIN d.options \subseteq c.takes \cup {"published"}
    /\ \A o \in DOMAIN d.options : ConvertibleOption(o, d.options[o])

(* Numbers are also taken from a text, except for durations.               *)
Numeric(v) == Number(v) \/ v = Text("1")
Least(o) == IF o = "idempotence_cache_size" THEN 2 ELSE -1

FitsDuration(v) == Halves(v) \in 0 .. 2 * MaxSeconds
FitsPort(v) == Halves(v) \in -1 .. 2 * MaxPort + 1
FitsCount(o, v) == Halves(v) \in Least(o) .. 2 * MaxU32 + 1

Convertible(o, v) == v = Unset \/
    /\ o \in DurationOptions => Number(v) /\ FitsDuration(v)
    /\ o = "state_read_cache" => v = Flag(FALSE) \/ (Numeric(v) /\ FitsDuration(v))
    /\ o = "probe_port" =>
          \/ v \in {Flag(FALSE), Sym("disabled"), Text("disabled")}
          \/ Numeric(v) /\ FitsPort(v)
    /\ Converter[o] = "integer" =>
          Numeric(v) /\ (o # "loader_discard_threshold" => FitsCount(o, v))
    /\ Converter[o] = "float" => Numeric(v) \/ v = NotANumber
    /\ Converter[o] = "list" => v.type \in {"string", "array"}
    /\ o = "mode" => Downcase(TextConverter(v).s) \in Modes
    /\ o \in ParsedOptions => TextConverter(v).s \in WellFormed
    /\ o = "state_collections" =>
          IF v.type = "collections" THEN \A i \in DOMAIN v.list : ConvertibleCollection(v.list[i])
                                    ELSE ConvertibleCollection(v)

(* The values the tables of CONFIGURATION.md and the comments of           *)
(* configuration.rb and state.rb give an option, taken alone: that         *)
(* published collections need a subsystem is not said here.                *)
DocumentedSeconds(o) ==
    CASE o = "peer_registration_ttl" -> Lease
      [] o = "statistics_interval" -> Reporting
      [] OTHER -> 0 .. 2 * MaxSeconds

DocumentedEntry(o, v) ==
    CASE o \in {"ttl_seconds", "capacity"} -> v.type = "integer" /\ v.n \in 1 .. MaxU32
      [] o = "keyset_limit" -> v.type = "integer" /\ v.n \in 0 .. Ceiling
      [] o = "read_cache" -> v = Flag(FALSE) \/ (Number(v) /\ Halves(v) \in 1 .. 2 * MaxSeconds)
      [] OTHER -> v.type = "boolean"

DocumentedCollection(d) ==
    /\ d.type \in {"definition", "hash"}
    /\ \E c \in Constructors : /\ <<c.kind, c.payload>> = <<d.kind, d.payload>>
                               /\ DOMAIN d.options \subseteq c.takes
    /\ \A o \in DOMAIN d.options : DocumentedEntry(o, d.options[o])

Documented(o, v) ==
    CASE v = Unset -> TRUE
      [] Converter[o] = "duration" -> Number(v) /\ Halves(v) \in DocumentedSeconds(o)
      [] Converter[o] = "float" ->
           Number(v) /\ (o # "scheduler_wait_weight" => Halves(v) \in 0 .. 2)
      [] Converter[o] = "integer" ->
           /\ v.type = "integer"
           /\ v.n \in (IF o = "idempotence_cache_size" THEN 1 ELSE 0) .. MaxU32
      [] Converter[o] = "port" ->
           \/ v \in {Flag(FALSE), Sym("disabled")}
           \/ v.type = "integer" /\ v.n \in 0 .. MaxPort
      [] Converter[o] = "read_cache" ->
           v = Flag(FALSE) \/ (Number(v) /\ Halves(v) \in 0 .. 2 * MaxSeconds)
      [] Converter[o] = "flag" -> v.type = "boolean"
      [] Converter[o] = "list" -> v.type \in {"string", "array"}
      [] Converter[o] = "mode" -> v.type \in {"string", "symbol"} /\ v.s \in Modes
      [] Converter[o] = "text" ->
           /\ v.type = "string"
           /\ o \in ParsedOptions => v.s \in WellFormed
           /\ o \in {"state_cache_dir", "peer_network_name"} => v.s # ""
      [] OTHER -> v.type = "collections" /\ \A i \in DOMAIN v.list : DocumentedCollection(v.list[i])

(* The setting of an option that counts: the last one.                     *)
Asked == { settings[i][1] : i \in DOMAIN settings }
LastSetting(o) == settings[CHOOSE i \in DOMAIN settings :
                              /\ settings[i][1] = o
                              /\ \A j \in i + 1 .. Len(settings) : settings[j][1] # o][2]

(* A client is made only when every setting that counts converts, and      *)
(* refused only when one does not, whichever of the three layers has to    *)
(* object: the setters (configuration.rb), the fields (config/mod.rs) or   *)
(* the conversions.  No client is refused whose settings are all           *)
(* documented.  What converts but is outside the documented ranges is the  *)
(* core's to refuse.                                                       *)
RefusesInconvertible ==
    /\ client.made => \A o \in Asked : Convertible(o, LastSetting(o))
    /\ client.refused =>
          /\ \E i \in DOMAIN settings : ~ Convertible(settings[i][1], settings[i][2])
          /\ \E i \in DOMAIN settings : ~ Documented(settings[i][1], settings[i][2])

(* What a value that converts means to the core.                           *)
Meant(o, v) ==
    CASE o \in DurationOptions \/ Converter[o] = "float" ->
           IF v = NotANumber THEN v ELSE Float(Halves(v))
      [] o = "probe_port" -> IF Numeric(v) THEN Whole(Truncated(Halves(v))) ELSE Disabled
      [] o = "state_read_cache" -> IF v = Flag(FALSE) THEN Disabled ELSE Float(Halves(v))
      [] Converter[o] = "integer" -> Whole(Truncated(Halves(v)))
      [] Converter[o] = "flag" -> Flag(v # Flag(FALSE))
      [] Converter[o] = "list" -> IF v.type = "string" THEN Strings(<<v.s>>) ELSE v
      [] o = "mode" -> Sym(Downcase(TextConverter(v).s))
      [] o = "state_collections" ->
           LET list == IF v.type = "collections" THEN v.list ELSE <<v>>
           IN  Collections([i \in DOMAIN list |->
                   [list[i] EXCEPT !.type = "hash",
                       !.options = [p \in { q \in DOMAIN @ :
                           q # "read_cache" /\ ~ (q = "read_uncommitted" /\ @[q] = Flag(FALSE)) }
                               |-> @[p]]]])
      [] OTHER -> TextConverter(v)

(* Every option that was set reaches a builder of the core, and every      *)
(* builder it reaches learns what was meant; an option that was not set,   *)
(* or set to nil in the end, leaves every builder at its default.  A       *)
(* keyword, field or builder that is missing on the way is silent          *)
(* (config/mod.rs:307): nothing but this would tell.                       *)
SettingsReachCore ==
    client.made => \A o \in Options :
        LET told == { b \in DOMAIN Builders : o \in DOMAIN client.core[b] }
        IN  IF o \in Asked /\ LastSetting(o) # Unset
            THEN /\ told # {}
                 /\ \A b \in told : client.core[b][o] = Meant(o, LastSetting(o))
            ELSE told = {}
================================================================================
