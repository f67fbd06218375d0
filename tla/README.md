# A verification project for prosody-rb

prosody-rb is the Ruby binding of the Prosody Kafka client.  The Rust crate
`prosody` (outside this repository) consumes events, serialises them by key and
calls a handler; this binding runs that handler as Ruby code.  What is its own,
and what is modelled here, is everything between the two worlds: a bridge thread
that lends the GVL to Rust, a scheduler that submits handler calls to a Ruby
thread full of fibers, cancellation and results that cross back, and the objects
(client, context, state handles, loggers) whose methods use that machinery.

Paths below are relative to `src/`; `R/` stands for `ext/prosody/src/`.

## The system

| Component | State it keeps | Operations | Talks to |
|---|---|---|---|
| Ruby bridge (`R/bridge/`, `R/gvl.rs`) | unbounded channel of closures, batch taken by the current poll | `run` (await a closure's value), `wait_for` (block a Ruby thread on a future), `send` (fire and forget), `poll` | everything that needs Ruby from Rust |
| Handler dispatch (`R/handler/mod.rs`, `R/scheduler/`) | one future per event, its result channel and cancellation token, `is_shutdown` | `on_message`, `on_excise`, `on_timer`, `schedule`, `submit`, `cancel`, `send`, `stop`, drop | core (futures), bridge (closures), Ruby processor (commands, callback) |
| Async task processor (`lib/prosody/processor.rb`) | command queue, processing thread, worker and watcher fiber per task, barrier | `start`, `submit`, `stop`, `process_commands`, `run_with_cancellation` | dispatch (callback), async gem, error capture |
| Handler base class (`lib/prosody/handler.rb`, `sentry.rb`) | error classes declared per method | `permanent`, `transient`, `validate_handler!`, `capture_exception` | dispatch (`permanent?`) |
| Client (`R/client/`, `lib/prosody/client.rb`) | core client, shared shutdown future, creator's pid | `send`, `excise`, `request`, `subscribe`, `unsubscribe`, `shutdown`, readers | bridge (`wait_for`), core |
| Values and process exit (`R/util.rs`, `R/lib.rs`) | wrapped Ruby values, runtime and bridge singletons | drop, fork check, telemetry flush at exit | bridge (`send`) |
| Event context (`R/handler/context/`, triggers, messages) | core context of one attempt | timers, `should_cancel`, state handles | bridge (`wait_for`) |
| Keyed state (`R/handler/state/`, `lib/prosody/state*.rb`) | handle to a core collection, open scans | value, map, deque, set operations, scans, published readers | bridge (`wait_for`) |
| Logging (`R/logging.rs`) | unbounded channel of lines, at most 16 requests in flight | `on_event`, `log_event` | bridge (`run`) |
| Configuration (`R/client/config/`, `lib/prosody/configuration.rb`) | none at run time | build and validate | client |
| Admin (`R/admin.rs`) | none | create and delete topic | bridge |

What is hard here:

- **Two schedulers and a lock.**  Tokio tasks, a bridge thread, a processing
  thread with cooperative fibers, and Ruby callers interleave; the only order
  between them is that of two queues.
- **Cancellation** travels future -> bridge -> token -> watcher fiber -> worker
  fiber, while the result travels worker -> callback -> channel -> future.  They
  race in a `select!` and again in the fibers.
- **Failure between two steps**: error capture between the rescue and the
  callback, a closure that panics inside a batch, an exception that no clause
  rescues, a future dropped by the core, a callback freed by the collector.
- **Shutdown** happens in destructors: dropping the last handler sends a stop
  behind whatever is already queued.

What makes each part correct: the bridge runs every closure once, in order, and
forgets no waiter; the dispatch tells the core the truth, keeps a key's events
apart and always settles a cancelled event; the processor reports every task and
drains before it ends; the client's calls are safe in any order and in a fork;
values are released only on Ruby threads; scans stop where the block stops; the
conversions (errors, times, queries, options) are total and lose nothing that
the reader relies on.  The hazards these properties answer are listed with their
lines in `PROJECT.json`.

## Modules

| Module | Models |
|---|---|
| `CommandQueue` | abstract: what the bridge promises its callers |
| `Bridge` | `R/bridge/mod.rs`, implements `CommandQueue` |
| `HandlerContract` | abstract: what the handler promises the core |
| `TaskDispatch` | `R/handler/mod.rs`, `R/scheduler/`, `lib/prosody/processor.rb`, implements `HandlerContract` |
| `ClientLifecycle` | `subscribe`, `unsubscribe` and `shutdown` of `R/client/`, down to the drop of the scheduler |
| `ForkSafety` | the singletons of `R/lib.rs` and `R/util.rs`, and every entry point of every native class, in forked processes |
| `Queries` | the query keywords: `R/handler/state/query.rs` against the README's table |
| `StateScan` | a traversal: `traverse` of `lib/prosody/state.rb`, `R/handler/state/scan.rs`, and paging |
| `Logging` | `R/logging.rs` on top of `Bridge` |
| `ThreadSafeValues` | `R/util.rs`: the drop of wrapped Ruby values, on top of `Logging` |
| `Configuration` | `lib/prosody/configuration.rb`, `R/client/config/`, the definitions of `lib/prosody/state.rb` |
| `HandlerClasses` | `lib/prosody/handler.rb` |
| `Timers` | the timer operations of `R/handler/context/mod.rs`, the time of `R/handler/trigger.rs` |
| `Deques` | `lib/prosody/state/deque.rb` over `R/handler/state/deque.rs`, owned and published |
| `Bridge_proofs`, `ThreadSafeValues_proofs`, `TaskDispatch_proofs`, `ClientLifecycle_proofs`, `ForkSafety_proofs`, `StateScan_proofs`, `RubyApi_proofs` (`Timers`, `Deques`, `Configuration`), `HandlerClasses_proofs` | theorems about these |
| `MCBridge`, `MCTaskDispatch`, `MCClientLifecycle`, `MCForkSafety`, `MCStateScan`, `MCRubyApi` | instances for TLC |

Definitions named "Faulty variant" in a comment are what the code would do with
a plausible bug; no specification uses them.  They are there so that each
property can be seen to fail when its cause is removed.

### Bridge

`chan` and `batch` are the channel and the `Vec` of the current `poll`;
`thread` is the control point of the bridge thread: in the `select!`, in the
`try_recv` loop, running closures, or gone.  `interrupted` is `cancel_rx`, made
anew by each poll; `Interrupt` is the unblock function Ruby calls to get the
thread back, and the `select!` may take either side when both are ready.  A call
of `run` has a future and a oneshot, a call of `wait_for` a spawned future, a
Ruby queue and a blocked caller.  `Panic` is a closure that unwinds: magnus
catches the unwinding at the thread's end, so the rest of the batch and the
receiver are dropped, every oneshot in them reports `Shutdown`, and a `wait_for`
in them is never answered.  Interrupts change `interrupted` only, so their
number needs no bound.  The channel itself is what orders the calls; the GVL is
left out because no closure runs without it and no property sees it.

### Logging and ThreadSafeValues

Both use the bridge and are checked with it: `Logging` extends `Bridge`, and
`ThreadSafeValues` extends `Logging`, because each needs what the one before it
may do to a closure.  A tracing event is emitted into an unbounded channel
(`logChan`); one task takes lines from it while fewer than `Limit` are in flight
and hands each to `Bridge::run` as a call of its own, `Line(cause)`.  `ruby` is
what the logger took and `stderr` what `report` wrote, both in order.  The
bridge logs too (a caller that went away, a closure that could not be sent, an
interrupted poll), and those lines come back to it: `ExecuteLogged`,
`FutureResolvesLogged` and `PollCancelledLogged` are the bridge's steps with
the lines they emit.  The closure of a line calls user code, which may raise.

`holder` and `releases` follow a wrapped value from its drop to
`rb_gc_unregister_address`: at once on a Ruby thread, by a closure of the bridge
elsewhere, by the unwinding of a bridge thread that dies with the closure, and
never when the bridge was dead before, which leaks it and logs a warning.

### TaskDispatch

One event is followed through four parties.

| Variables | Code |
|---|---|
| `rust`, `outcome`, `cancelled`, `reply` | the future of `handle_record` / `on_timer`: before `schedule` returns, in `select!`, in `cancel(..).await`, in `result_future.await`; what it returns; the context's cancellation; the oneshot of `Bridge::run` |
| `taken`, `chan`, `claimed` | the `AtomicTake` and the oneshot of `ResultSender`; what the callback answered Ruby |
| `worker`, `ended`, `signal`, `watcher`, `parent` | the fibers of `run_with_cancellation` and the queue of its `CancellationToken`; `ended` records how the user's code ended |
| `commands`, `loop` | `@command_queue` and `process_commands` |
| `bridge`, `bridgeQ`, `isShutdown`, `handler` | the bridge as the FIFO `CommandQueue` promises, open or closed, the processor's flag, the last clone of the handler |

Actions of the core (`Dispatch`, `Cancel`, `DropFuture`) are external: the core
offers the next event of a key when the future of the one before it has settled
or was dropped, may cancel any pending event and may drop any future.  A fiber
step is atomic up to a point where the code can yield: between the callback and
the `ensure` clause the logger may yield, and that is where a late stop lands
(`StopReported`).  The block and `callback.call(true, ..)` are one step because
nothing yields between them.

The bridge's thread may die (`BridgeDies`, `CommandQueue`'s `Close`): a closure
panics, everything in the channel is dropped, and every call of the bridge that
waits, or is made later, answers `BridgeError::Shutdown` (`CallBridge`).  The
`?` behind `schedule` and behind `cancel(..).await` then returns from the future
at once with a transient error (`BridgeCallFails`).  For `schedule` nothing of
the task is in Ruby.  For `cancel` the handler's code may still wait or run on
the processing thread, which knows nothing of the bridge, and may even return
afterwards: the event is retried although it succeeded.  `GaveUp` names that
future, and `ResultTruthful` says nothing of its verdict but that it is a retry.
The exclusion of a key survives, because no later event gets into Ruby.  A
handler dropped by then sends its stop to nobody, and the processing thread pops
for ever.  The closure that panics is taken to have had no effect yet.

`Faults` names what may go wrong: `"capture"`, error capture that raises or
yields, `"fatal"`, an exception outside `StandardError`, and `"bridge"`, the death
of the bridge.  The async gem is external: a stop of a finished task does nothing, `Async::Stop` is
not a `StandardError`, and a fiber that dies of any other exception outside
`StandardError` takes the reactor, hence the processing thread, with it.

`HandlerContract` is what the core may rely on: code is handed over once, by a
future that has not settled (`Hand`), and the future settles only when its code
neither waits nor runs (`Settle`), with a verdict honest about how it ended.  It
has one exception, `GiveUp`: when the way into Ruby is lost (`Lose`), the future
of an event the core cancelled may settle as transient whatever becomes of its
code, and from then on nothing is handed over.

Left out: tracing, texts, loggers that raise, a Ruby `cancel` that raises, and
the destructors of wrapped values, which add closures to the bridge but change
nothing a task sees.

### ClientLifecycle

Each call of `subscribe`, `unsubscribe` or `shutdown` is made on a thread of its
own and passes two sides: `caller` is the Ruby thread (about to call `wait_for`,
in `queue.pop`, returned, raised, interrupted), `future` the spawned future.
Ruby's `Timeout` or `Thread#kill` may interrupt the caller: in `Queue.new`,
before the spawn, the future is dropped with the handler it owns
(`InterruptEarly`); in `queue.pop` the future goes on without a reader
(`Interrupt`).  `Client.open` is a caller of shutdown whose block has ended.

| Variables | Code |
|---|---|
| `op`, `caller`, `future`, `answer` | a call, its Ruby thread, its future, that future's output |
| `processor`, `owner` | the `AsyncTaskProcessor` that `RubyHandler::new` starts, and who holds the last clone of that handler |
| `shared` | the `Shared` shutdown of `support.rs`: never polled, its poller, or its output |
| `core`, `lock` | the core client (external): its consumer state, the handler it runs, and the future inside it |

Of the core it is assumed that it serves one call at a time, refuses what its
state does not allow, drops a handler it refused or no longer runs, and ends up
shut down even when a service fails on the way.  `subscribe` starts its
processing thread before the core has said yes, so a refused, failed or
interrupted subscribe leaves a thread that only the drop of the handler stops:
`SubscriptionServed` and `AbandonedStops` are about that.  How a stopped
processor drains is `TaskDispatch`; here `ThreadEnds` is one step.

### ForkSafety

`alive`, `runtime` and `bridge` say which processes exist and in which process
the threads behind each process's `RUNTIME` and `BRIDGE` live; `objects` are the
native objects in its memory, each with the process its `ForkGuard` recorded and
the process that serves its bridge handle.  `Fork` copies all of it and no
thread.  Every method that waits is an action: it checks the guard if its class
has one, spawns on the process's runtime and waits; `Answer` happens only where
the runtime's workers and the handle's bridge thread live.

Guards belong to clients, readers and admin clients.  Contexts, state handles
and scans have none, so those calls wait forever in a child that inherited one;
the documentation promises no more (`R/util.rs:198-201`), and no property does.
The model takes process ids as unique and follows one call per process.  "Waits
forever" is Rust's view: when no other thread of the child is alive, Ruby itself
may report a deadlock instead.

### Queries and StateScan

`Queries` translates a keyword hash as the code does, in the code's order of
checks (`Raised` is the first error met, `Translate` the core's query), and
states beside it what the README's table promises (`Promised`: walk the
collection in iteration order from the start to the stop; `Sensible`: the hashes
the README allows).  Keys and positions are naturals; a Ruby value is its type
and, where it matters, its number.  `parse_direction` is left out: only the
binding's own methods call it, with a valid token.

`StateScan` runs one traversal.  `pc` is the place of the loop; `read` and
`answer` are the `wait_for` of `next_chunk`; `cursor` is the core's cursor
(external) with the items it has not given out; `closes` counts calls of
`close`.  A stop can land where the fiber waits: in `queue.pop` of
`next_chunk`, in the block, in `queue.pop` of `close`.  The future then goes on
and its answer is dropped: a chunk pulled for nobody is gone from the cursor,
which is why the loop must not go on after it.  A traversal without a block is
an Enumerator (`external`): between two calls of `next` its loop is suspended,
no stop reaches it, and the handler may end meanwhile (`AttemptEnds`), after
which the cursor only answers with an error.  `NextPage` is the loop the README
shows.  The collection does not change during a traversal or between two pages:
what a scan sees of concurrent writes is decided by the core.

### Configuration

`settings` is what a caller passes to `Client.new`, keywords first and the block
after; `SetOption` is one setter of `Configuration` and `NewClient` the rest, up
to the call of the core.  Every option is there.  `Converter` names the
converter of each, `FieldType` the type of its field in `NativeConfiguration`,
and `Builders` the fields each `TryFrom` copies into its builder, so that a
forgotten line is a difference between sets.  Ruby values are typed records:
integers are themselves, floats count in halves (`Integer()` cuts them off),
texts that the core parses (sizes, span relations, addresses, subsystems) are
well-formed or not.

CONFIGURATION.md:5 divides the checks: "The Ruby client reports values it cannot
convert to Prosody types.  Prosody validates configuration semantics when the
client is built."  Two definitions beside the code follow that line, and neither
knows of setters, fields or builders.  `Convertible` says which values are of the
type an option has: a duration that fits, a count that is not negative, a text
the core parses, a collection with the options its kind has; and, since the code
insists on it and README.md:497 says so, an `idempotence_cache_size` of at least
1.  `Documented` says which values the tables of CONFIGURATION.md and the
comments of `configuration.rb` and `state.rb` give it.  `RefusesInconvertible`:
a client is made only when every setting that counts converts, refused only
because of one that does not, and never when all settings are documented.

What converts but is not documented passes this repository's code, and
`SettingsReachCore` shows that it reaches the core as it was meant; whether the
core refuses it is external.  These values are:

- `ttl_seconds` 0 and `keyset_limit` above 4096 (CONFIGURATION.md:162, 165);
- `published` on a message collection, which only a hash can say (164);
- weights and thresholds outside 0.0 to 1.0, and `Float::NAN`
  (`configuration.rb:219`, 237, 257);
- an empty `state_cache_dir` (`configuration.rb:327`) or `peer_network_name`;
- `statistics_interval` and `peer_registration_ttl` outside their ranges;
- a `read_cache` of a definition that is not positive, which is checked when a
  reader is opened and not at registration;
- values of another type that the setters coerce: a numeral for a number, a
  fraction for a count, a Symbol or a number for a text, anything for a flag.

Published collections without a subsystem, two collections of one name and
missing settings are also the core's to refuse.

`SettingsReachCore` compares what the builders are told with what the option
meant.

### HandlerClasses

`body` and `wrappers` are the class bodies between the instance and
`EventHandler`, in whatever order they are written; `Lookup` is the ancestor
list Ruby searches for the method, newest wrapper first.  `Subscribe` is
`validate_handler!`, `RaiseInHandler` an event whose code raises.  The two
properties restate the outcome without the ancestor list: a handler is accepted
exactly when the method Ruby will find can be called with two arguments, and an
exception is classified by the declarations around that method.  A reader
should know two things the model makes plain: the wrappers nest in the order of
the declarations, so one for `StandardError` has the last word over a narrower
one, whichever of them is written first, because a new `PermanentError` is a
`StandardError`; and a method defined in a subclass loses the declarations of
its parent.

### Timers

`stored` are the seconds the core holds for a key, `asked` the times handlers
asked for.  The conversion is that of `time_to_compact_datetime`: whole seconds
must fit 32 bits before and after a half counts up.  `TimersNearest` says the
same with distances and binds the operations together: what `scheduled` lists is
what `unschedule` finds.

### Deques

`deque` is the collection as its attempt sees it and `committed` as it is
stored; elements are numbered as they are pushed.  `get` with a position from
the front, or -1, is one operation; any other negative index reads the length
(`GetLength`) and then the element (`GetResolved`).  While a read is between the
two, `right` collects what would have been right at each moment.  The owner's
fiber waits in both, so nothing of its attempt happens between them (`Attempt`);
a reader has no such protection.  That is the difference between the run
`ruby_api` and finding 5.  An index of 2^64 or more raises `RangeError`
before anything is read and is left out.  An attempt that touches one deque from several
threads is outside this model, as it is outside what `deque.rb:61` relies on.

## Runs

| Run | Checks | Shows |
|---|---|---|
| `bridge` | `TypeOK`, `RunTruthful`, `ImplementsCommandQueue`, `RunAnswered`, `WaitAnswered`, `LinesInOrder`, `LinesAheadBounded`, `LineOnce`, `LinesWritten`, `OneOwner`, `DroppedReleased` | one `run`, one `wait_for`, one wrapped value and up to five lines, batches of two: in every order, with interrupts, raising loggers and a panic anywhere |
| `dispatch_faults` | `TypeOK`, `ResultTruthful`, `KeyExclusive`, `NoSpuriousStop`, `GracefulShutdown`, `FirstResultWins`, `ImplementsContract` | two events of one key, the first asking for a reply, and a middleware timer, with every fault: both kinds of failing Ruby code and the death of the bridge |
| `dispatch_live` | `CompletedTaskReported`, `CancelSettles`, `ShutdownExits` | two events of different keys, in the handler at once, with a bridge that may die |
| `callback_lost` | `CompletedTaskReported` violated | a capture that raises |
| `fatal_wedges` | `EveryEventSettles` violated | an exception outside `StandardError` |
| `lifecycle` | `TypeOK`, `SubscriptionServed`, `OneShutdown`, `AbandonedStops`, `ShutdownCompletes`, `CallsReturn` | three concurrent calls of any kind, from a client that can subscribe and one that cannot, any caller interrupted |
| `scan` | `TypeOK`, `YieldsPromised`, `PagesCover`, `ClosedOnce`, `CursorCloses` | every hash of up to three keywords, maps and deques, both directions, blocks and Enumerators, stopped anywhere |
| `leaked_enumerator` | `LeakedRaises` violated | an Enumerator used in its handler and again after it |
| `fork` | `TypeOK`, `GuardedAnswered` | a parent that forks once with any objects in memory and any call in flight |
| `fork_child` | `OwnObjectsAnswered` violated | a client made in the child of a process that already has one |
| `ruby_api` | `RefusesInconvertible`, `SettingsReachCore`, `AcceptedHandlersRun`, `DeclaredVerdict`, `TimersNearest`, `AnsweredAsOfSomeMoment` | every option at its boundaries and in pairs, every class body of two levels with up to two declarations, timers around their range, a deque read at every index |
| `published_index` | `AnsweredAsOfSomeMoment` violated | a reader that counts from the end while the writer commits |

`ruby_api` runs four parts that share no state; `part` says which one a
behaviour is about, so their states add up instead of multiplying.

Bounds.  The code has no counter that grows with the number of tasks; parties
meet only through the two queues, the key and the processing thread.  Two events
of one key show every overlap the key must exclude (including a dropped event
whose code still runs beside its successor), two events of different keys every
overlap of two pending futures.  What two events cannot show, the proofs cover
for any number.  A batch of two with more closures
than two shows a full batch, a partial one and a closure that arrives while a
batch is collected; two lines in flight stand for the 16 of
`CONCURRENT_LOG_REQUESTS`, and two events beside the bridge's own lines exceed
them.  Three calls of a
client give two shutdowns against a subscribe and two subscribes against a
shutdown: the shared future and the core meet at most two calls of a kind at
once, and the theorems cover any number.  A parent and a child show every state
an inherited object can be in; grandchildren are covered by the theorem.
A collection of four with edges at its second and third item, a limit of two and
chunks of two (`Chunk` stands for 256) has items before, between, on and after
every edge, a full and a partial chunk, and a page that ends on the last item.
`MaxUsize = 5` stands for the largest `usize`, `Huge` is one more.  Hashes set at
most three of the seven keywords, and `extra` stands for any unknown one: an edge
pair, a range or a prefix meet with a limit in all combinations.
In `ruby_api` the widths are scaled: `MaxPort = 3` for `u16::MAX`, `MaxU32 = 5`
for the unsigned types, `MaxSeconds = 4` for the longest `Duration`, `Ceiling = 4`
for the 4096 of `keyset_limit`, `Lease` and `Reporting` for the documented ranges
of `peer_registration_ttl` and `statistics_interval`, and seconds
of four units up to `LastSecond = 2`; samples lie on both sides of each.  An
option is set alone, twice, or after one of four others: setters and builders
do not read each other's options, so larger hashes add nothing.  Two levels of
classes and two declarations show every nesting of a wrapper around, below and
above a definition; three elements and every index from -3 to 2 show a deque
that grows, shrinks and is emptied between two steps of a read.

Fairness.  Weak fairness of the bridge thread, of each future, of the command
loop and of each fiber that waits for nothing but the scheduler: these are
threads and tasks that run when they are ready.  The bridge and the command loop
are one thread each, which goes on with whatever its queue has (`BridgeThread`,
`CommandLoop`); nothing is assumed of the bridge's death, which may come at any
time or never.  Handlers are not fair: user code
may run forever, except that code in which `Async::Stop` was raised leaves (a
handler that swallows the stop and loops is outside README's contract).
`ShutdownExits` states its own premise that no handler runs forever;
`fatal_wedges` assumes that every handler ends and even that the collector runs,
and is violated all the same.  The core is never assumed to do anything.

In `ClientLifecycle` a call's future is strongly fair, because the core's lock
(tokio's mutex queues its waiters) may be free and taken again many times before
a given waiter gets it; callers, the drop of the scheduler and the drain of a
processor are weakly fair.  Calls and interrupts are never assumed to happen.
`ForkSafety` states safety only.  In `StateScan` the loop, the store and the
future of `close` go on when they can; blocks and the callers of
`Enumerator#next` may take forever.

Deadlock is checked in the dispatch, lifecycle, scan and fork runs; `Terminated`
and `Finished` are the states where all is released, or where the command loop
pops for ever because its stop died with the bridge.  In `bridge` the system may stop: the thread can be dead and every call
made.  In `ruby_api` and `published_index` a client is made once and a behaviour
ends there.

## Findings

1. `callback_lost`: error capture stands between `rescue` and the callback
   (`processor.rb:278`).  When it raises, the task ends without reporting; the
   event waits for the collector, and a permanent error is retried.
2. `fatal_wedges`: an exception outside `StandardError` ends the processing
   thread.  Running events are stopped and retried, but events submitted later
   wait in a queue nobody reads.
3. `fork_child`: the error of a forked client says "Create a new client in the
   child process" (`R/util.rs:231`) and `ensure_runtime_context` says that each
   process gets its own bridge (`R/util.rs:244-246`).  That holds only while no
   ancestor has used the extension: afterwards the `OnceLock` and the `LazyLock`
   are inherited initialised, and `Client.new` in the child waits for threads of
   the parent.
4. `leaked_enumerator`: an Enumerator "is valid only within the current handler
   invocation" (`lib/prosody/state/map.rb:69`) and, leaked past it, raises the
   terminated error (`spec/state_scan_spec.rb:92`).  One whose `next` was called
   in the handler still holds up to 256 items and gives them after the handler
   without an error.
5. `published_index`: `PublishedDeque#get` with a negative index "counts from
   the back" (`lib/prosody/state/deque.rb:202`) by asking for the length and then
   for an element, as the owner's `get` does; but the reason given there, a
   single writer per attempt (`deque.rb:61`), does not hold for a reader.  When
   the owner commits in between, the reader gets an element that was at that
   index at no moment of its call.

Not a run, but seen on the way: README.md:646 says that a `nil` write fails with
a `PermanentStateError`.  That is so for JSON collections; a message collection
refuses `nil` as "not a message", which is transient (`R/handler/state/mod.rs:93`).

## Proofs

`TaskDispatch_proofs` proves, for every set of tasks, keys, replies and faults,
under `DispatchAssumption` only:

| Theorem | States |
|---|---|
| `TypeCorrect` | `Spec => []TypeOK` |
| `Invariant` | `Spec => []IInv` |
| `VerdictsTrue` | `Spec => []ResultTruthful` |
| `KeysExclusive` | `Spec => []KeyExclusive` |
| `FirstResultKept` | `Spec => FirstResultWins` |
| `Refinement` | `Spec => ImplementsContract` |
| `StopsJustified` | `Spec => []NoSpuriousStop` |
| `ShutdownIsGraceful` | `Spec => []GracefulShutdown` |
| `TasksReport` | `Spec => []CompletedTaskReported`, if `Faults` has neither `"capture"` nor `"fatal"` |

`ResultTruthful` is not inductive: it would not survive a second worker for the
same task, nor a callback called before the code ended.  `IInv` adds what rules
these out.  `OnePlace`: a task is in one place of its way (not offered, in the
bridge's channel, in the command queue, in a worker, refused), and once in a
queue.  `EndedOnce`: the ending is written when the worker leaves the user's
code and the callback is called only afterwards.  `SettledIsFinal`: a settled
future has no code left in Ruby, unless it gave up on it because the bridge is
dead.  `CallsOwed`: a call of the bridge fails only when the bridge is closed and
empty, and only the futures of cancelled events wait for a cancel.
`OneActivePerKey`: the core's rule.  With the bridge dying, `KeyExclusive` is no
longer a consequence of these and is part of `IInv` itself: a key whose future
gave up may have a next event, but nothing of it can be in Ruby
(`KeyExclusiveStep`, `RubyEntry`).  The queue
lemmas (`AppendQueued`, `AppendOnce`, `TailQueued`, `HeadQueued`) carry
`OnePlace` through the queues; `TaskStep` has one case per action.  The
refinement maps a pending future to a pending event, the command queue and a
worker inside user code to queued and running code, and a living bridge to the
way into Ruby; `SettlesHonestly` is the step that needs `IInv`, and
`FailureRefines` the one that needs the contract's exception.  That
`IInv` holds on the instance of `dispatch_faults` was checked by TLC first.

The last three theorems have invariants of their own, on top of `IInv` and
checked by TLC in the same way.  `StopInv`: whatever can lead to a stop (a cancel
command on its way, a signal, a watcher that woke up) exists only for a task
whose event was cancelled.  `ShutdownInv`: the stop is the last closure the
bridge is sent and `Shutdown` the last command of the loop, no future is left
when they are sent, and `run_with_cancellation` outlives its worker and its
watcher.  It also follows that no submission of the composition is ever refused:
the refusal is for calls the scheduler does not make.  `Reported`: a worker that
is over has called its callback, whether or not the bridge lives.  It needs that
capture does not fail and no handler is fatal, and the run `callback_lost` shows that it does: an error capture that raises ends the worker
without its callback.

`ClientLifecycle_proofs` proves, for any set of calls and under
`LifecycleAssumption`, `LifecycleTypes` (`[]TypeOK`), `SubscriptionKept`
(`[]SubscriptionServed`) and `ShutdownShared` (`[]OneShutdown`).  The inductive
invariant adds that a future inside the core holds the lock and holds nothing
after it is done, that a subscribe's handler is owned by its future as long as
that runs, and that the shared output is set exactly when the client is down.

`ForkSafety_proofs` proves, for any family of processes and under
`ForkAssumption`, `ForkTypes` (`[]TypeOK`) and `ClientsAnswered`
(`[]GuardedAnswered`).  The invariant relates objects to threads: a client or
reader recorded by a process was made from an answer received there, so that
process's runtime and the object's bridge live in it.  Admin clients do not
satisfy it, which is finding 3.

`RubyApi_proofs` proves `TimersAreNearest` (`[]TimersNearest`) for every length
of a second that has a half, every range and every set of Ruby times, under
`TimersAssumption`.  The invariant is that `stored` is exactly the rounding of
`asked`; `NearestIsRounded` ties the code's rounding to the definition by
distance, and `RoundTrip` that a listed time finds its second again.

It also proves `GetIsRight` (`[]AnsweredAsOfSomeMoment`) for every bound and
index under `DequesAssumption`, for readers that use only indexes one operation
answers (`DirectReaders`; without it finding 5 is the counterexample).
Its invariant adds `SingleWriter`: between the two steps of the handler's read
the length is still that of the deque, and what is right now is among what would
have been right.  `DirectIsRight` and `ResolvedIsRight` are the arithmetic.

`Bridge_proofs` proves, for any calls and any batch size under
`BridgeAssumption`, `BridgeTypes` (`[]TypeOK`), `RunIsTruthful`
(`[]RunTruthful`) and `Refinement` (`ImplementsCommandQueue`).  None of these is
inductive without the history: `IInv` follows a closure along
`Trail == executed \o batch \o chan`, which never repeats one (`Once`), holds
none whose call was not made (`Fresh`), and decides what the oneshots hold
(`Answers`).  `Enqueued`, `Collected` and `Executed` say what each step does to
the trail; they rest on lemmas about sequences (`Handover`, `Ends`).

`ThreadSafeValues_proofs` proves `UsersAreCallers` (`AllSpec => Spec`): the
logger and the drops use the bridge by its calls only, hence the theorems of
`Bridge_proofs` hold of the composition that the run `bridge` checks.  With it
`ValuesOwned` (`[]OneOwner`) holds for any number of values: `Leaves` takes from
the bridge's invariant that a closure leaves the hands of the bridge only once.

The log lines are proved in the same module, for any number of lines, calls and
values and any batch size: `LinesWrittenOnce` (`[]LineOnce`), `LinesKeepOrder`
(`[]LinesInOrder`) and `LinesAheadLimited` (`[]LinesAheadBounded`).
`WrittenInv`: a line is in the logger or on standard error but not in both, only
after its closure ran or its request was answered with a shutdown; a panic in a
line's closure is where both the closure and the task that awaits it could
report it.  `OrderInv`: the closures of the lines on the bridge's `Trail`, the
lines in the channel and those in the logger are each in the order of emission,
and every line on the trail was emitted before every line in the channel.
`RequestInv`: each line that waits in the bridge has its request in flight, so
the limit on requests is one on lines.  `NextLine`, `AppendOrder` and `TailOrder`
carry the order through the steps.

`StateScan_proofs` proves, for any finite collection, any keyword hashes and any
chunk size, under `QueriesAssumption` and `ScanAssumption`:

| Theorem | States |
|---|---|
| `QueriesKeepPromise` | for every sensible hash, `Selected` of its translation is `Promised` |
| `ScanTypes` | `Spec => []TypeOK` |
| `TraversalsYieldPromised` | `Spec => []YieldsPromised` |
| `PagesCoverAll` | `Spec => []PagesCover` |
| `CursorClosedOnce` | `Spec => []ClosedOnce` |

The first is about the operators alone.  `RaisedUnlessSensible`: the chain of
checks of `query.rs` lets through exactly the hashes the README allows.
`SelectedItems` and `PromisedItems` bring the bounds of the core query and the
README's walk down to the same predicate (`Passes`), which speaks of order only,
for both directions.  Iteration order is defined by rank (`InOrder`: the i-th
item is the one that i - 1 items come before), which counts and needs no
recursion: `InOrderLists` shows that it lists every item once, `Places` that
places in it compare as the items do.

`ScanInv` is the inductive invariant of the traversal, checked by TLC on the
instance of `scan` first.  Its heart is `Conserved`: while the loop runs, what was
yielded, what is left of the chunk, the answer under way and what the cursor
still has are together, in this order, the whole selection.  A chunk pulled for
a stopped loop is what breaks the chain, so `Over` says how a loop that ended
came to it: refused before anything was opened, or opened and closed once with a
beginning of the selection yielded.  `Paged` adds that earlier pages are a
beginning of the unpaged selection and that this page starts after their last
key; `PageContinues` is the seam, from `Beyond`: the items after x have the ranks
after that of x.  `ScanAssumption` asks that the collection is finite and that
inputs are hashes of Ruby values, nothing of what the values are.

`HandlerClasses_proofs` proves, for every depth of inheritance, every set of
parameter lists and lists of rescued classes, and any number of declarations,
`AcceptedRun` (`[]AcceptedHandlersRun`) and `DeclarationsDecide`
(`[]DeclaredVerdict`), under `HandlerClassesAssumption`.  The chains of this
module are recursive functions over levels and declarations, and what holds of a
whole chain needs induction.  The induction theorems of the library take a
predicate and cannot be used; `SetInduction` says the same of sets and follows
from the well-foundedness of `<`, and with `UpTo` (from m to n) and `Recursion`
(a function given by its steps exists) it carries everything here.
`LookupShape` is the heart: whatever the class bodies did, a call meets the
declarations in force, the outer ones first, and then the method of the last
level that defines one; `NoClass` is the case without any.  From it
`ValidMeaning` reads off what `validate_handler!` decides, and `LeavesStepwise`
that an exception passes the declarations in force one by one, the inner ones
first.  `PassesAsDeclared` follows it on its way; the last word of a declaration
for `StandardError` (`LastWord`) rests on the inheritance of the error classes
(`Errors`).  The invariant itself, `ClassInv`, adds types only, since nothing
defines methods once a handler is subscribed.

For `Configuration`, `RubyApi_proofs` proves `OnlyInconvertibleRefused`
(`[]RefusesInconvertible`) and `CoreGetsSettings` (`[]SettingsReachCore`), for every
sequence of settings, any texts the core parses and any bounds, under
`ConfigurationAssumption` and `SettingsAssumption`; the latter says what a caller
can pass for an option (`Value`: nil, booleans, numbers, texts, arrays, and
definitions or hashes of collections) and nothing of which options or values go
together.  Two halves.  `AllRight` follows one option: `Right` says that its
converter raises, or its field does not deserialize, or a conversion refuses,
exactly for the values that do not convert, and that otherwise the core is told
what was meant; `DocumentedConverts`, that the documentation stays within these.  It is proved per kind of option, and `ConverterSorted`,
`FieldsFielded`, `EveryField` and `EveryBuilder` are the tables the kinds rest on:
each option has the field its converter's result deserializes into, and a builder.
`CollectionRight` is the one for definitions of collections.  The other half is
`ConfigInv`: until the client is made or refused, `config` holds the last setting
taken of each option, converted, and none of them raised.

Only model-checked: all liveness.  Fairness and `ENABLED` are out of the prover's
reach.  There are no RECURSIVE operators.

## Plan

In this order; each module with its properties, its run and, where it says so,
its theorems.

1. Done: `CommandQueue`, `Bridge`, `HandlerContract`, `TaskDispatch`.
2. Done: `ClientLifecycle` (subscribe, unsubscribe, one shared shutdown, the
   processing thread a refused subscribe leaves behind) and `ForkSafety`.
3. Done: `Logging` and `ThreadSafeValues`, composed with `Bridge`.
4. Done: `HandlerClasses`: `wrap_errors`, `validate_handler!`, and the chain from
   an exception to a verdict.
5. Done: `Queries`, `StateScan` and `Deques`.
6. Done: `Configuration` and `Timers`.
7. Proofs, done for every module: each safety invariant a passing run checks is a
   theorem.

Not modelled: the core crate, Kafka and the stores (external); the conversion of
JSON items, messages and events between Ruby and Rust, which is that of
`serde_magnus`; the outcomes of requests as symbols, a table without state; state
handles kept after their attempt, whose errors the core decides; the flush of
telemetry at exit and tracing spans; message accessors; generated signatures and
build files.  `admin.rs` is two calls passed through: `ForkSafety` has their
guards and waits and nothing else is left of them.
