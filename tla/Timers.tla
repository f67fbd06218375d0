--------------------------------- MODULE Timers ---------------------------------
(***************************************************************************)
(* The timers of one key as its handlers set them through Context: a Ruby  *)
(* Time is rounded to a second of 32 bits on its way in, and comes back    *)
(* as a Time without a fraction from scheduled and Timer#time.  The store  *)
(* of timers is the core's.                                                *)
(***************************************************************************)
EXTENDS Integers

CONSTANTS
    Unit,         \* nanoseconds of a second
    Half,         \* NANOSECOND_ROUNDING_THRESHOLD
    LastSecond,   \* u32::MAX, the last second the store can hold
    Given         \* the Ruby times handlers come up with

(* What Time#to_i and Time#nsec give: a Time before the epoch has negative *)
(* seconds and a fraction that counts up from them.                        *)
Times == [sec : Int, nsec : 0 .. Unit - 1]

ASSUME TimersAssumption ==
    /\ Unit \in Nat
    /\ Half \in Nat
    /\ Half > 0
    /\ Unit = 2 * Half
    /\ LastSecond \in Nat
    /\ Given \subseteq Times

VARIABLES
    stored,  \* seconds of the timers the core holds for the key
    asked    \* times that were asked for and neither cleared nor fired (history)

timerVars == <<stored, asked>>

Seconds32 == 0 .. LastSecond

--------------------------------------------------------------------------------
(* time_to_compact_datetime and compact_datetime_to_time.                  *)

Rounded(t) == IF t.nsec >= Half THEN t.sec + 1 ELSE t.sec

(* u32::try_from, then checked_add: what is false raises ArgumentError.    *)
Converts32(t) == t.sec \in Seconds32 /\ Rounded(t) \in Seconds32

RubyTime(s) == [sec |-> s, nsec |-> 0]

--------------------------------------------------------------------------------
TimersInit == stored = {} /\ asked = {}

(* Context#schedule, clear_and_schedule, unschedule and clear_scheduled.   *)
(* A time that does not convert, and a core that fails, leave the timers   *)
(* as they are; the handler gets an error.                                 *)
Schedule(t) ==
    /\ Converts32(t)
    /\ stored' = stored \cup {Rounded(t)}
    /\ asked' = asked \cup {t}

ClearAndSchedule(t) ==
    /\ Converts32(t)
    /\ stored' = {Rounded(t)}
    /\ asked' = {t}

(* The nearest second, a half counts up: said with distances.              *)
Nearest(t, s) ==
    LET ahead == (s - t.sec) * Unit - t.nsec
    IN  -Half < ahead /\ ahead <= Half

\* Faulty variant: the fraction is cut off.
UnscheduleCut(t) ==
    /\ Converts32(t)
    /\ stored' = stored \ {t.sec}
    /\ asked' = { u \in asked : ~ \E s \in Seconds32 : Nearest(t, s) /\ Nearest(u, s) }

Unschedule(t) ==
    /\ Converts32(t)
    /\ stored' = stored \ {Rounded(t)}
    /\ asked' = { u \in asked : ~ \E s \in Seconds32 : Nearest(t, s) /\ Nearest(u, s) }

ClearScheduled == stored' = {} /\ asked' = {}

(* The handler may give back what scheduled lists.                         *)
Scheduled == { RubyTime(s) : s \in stored }
ScheduleListed(t) == t \in Scheduled /\ Schedule(t)
UnscheduleListed(t) == t \in Scheduled /\ Unschedule(t)

(* The core lets a timer go as it fires; on_timer sees RubyTime(s).        *)
Fire(s) ==
    /\ stored' = stored \ {s}
    /\ asked' = { u \in asked : ~ Nearest(u, s) }

TimersNext ==
    \/ \E t \in Given : Schedule(t) \/ ClearAndSchedule(t) \/ Unschedule(t)
    \/ \E t \in Scheduled : ScheduleListed(t) \/ UnscheduleListed(t)
    \/ ClearScheduled
    \/ \E s \in stored : Fire(s)

TimersSpec == TimersInit /\ [][TimersNext]_timerVars

--------------------------------------------------------------------------------
(* The timers of the key are those that were asked for, each at the second *)
(* nearest to it (README.md:793), and every one that scheduled lists is    *)
(* one that unschedule would find.  A time is refused only if it lies      *)
(* before the epoch or its nearest second after the last one               *)
(* (context/mod.rs:412).                                                   *)
TimersNearest ==
    /\ \A s \in stored : s \in Seconds32 /\ \E t \in asked : Nearest(t, s)
    /\ \A t \in asked : \E s \in stored : Nearest(t, s)
    /\ \A t \in Scheduled : Converts32(t) /\ Rounded(t) = t.sec
    /\ \A t \in Given :
          Converts32(t) <=> t.sec >= 0 /\ \E s \in Seconds32 : Nearest(t, s)
================================================================================
